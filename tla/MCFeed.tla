------------------------------- MODULE MCFeed -------------------------------
(***************************************************************************)
(* Both generators, five slots in bursts of three, one retry, two calls.   *)
(* Bytes of one bit: sequence numbers and prices have eight bits, sizes    *)
(* and random numbers four.  The sample is the largest sequence number,    *)
(* which expected_seq_num_ wraps after, with negative prices and sizes.    *)
(***************************************************************************)
EXTENDS Feed

MCSeeds == {0, 3, 11, 15}
MCSamples == {[seq_num |-> 255, symbol_id |-> 15, exchange_ts |-> -1,
               bid_price |-> -128, ask_price |-> 127, bid_size |-> -8, ask_size |-> 7]}
=============================================================================
