-------------------------------- MODULE Feed --------------------------------
(***************************************************************************)
(* The whole feed: a generator (module Generator), the network, and the    *)
(* engine that receives what the network delivers.  The network loses,     *)
(* duplicates and reorders datagrams.  The engine's own queues keep the    *)
(* order (modules EngineV1, EngineV2 and EngineV3), so that here it        *)
(* decodes and tracks a datagram as soon as that is delivered.             *)
(***************************************************************************)
EXTENDS Generator, SeqTracker

CONSTANT MaxFaults        \* bound: datagrams lost, duplicated, out of order

ASSUME FeedAssumption == SeqModulus = B8 /\ MaxFaults \in Nat

VARIABLES book,             \* the messages the engine processed
          lost, disordered  \* history: how often the network misbehaved

feedVars == <<book, lost, disordered>>
vars == <<generatorVars, trackerVars, feedVars>>

Init ==
    /\ GeneratorInit /\ TrackerInit
    /\ book = <<>> /\ lost = 0 /\ disordered = 0

\* process_loop on one datagram.
Process(frame) ==
    LET msg == decode(frame)
    IN  /\ Track(msg.seq_num)
        /\ book' = IF processed' # processed THEN Append(book, msg) ELSE book

Faulty == lost + disordered < MaxFaults

\* The network: the oldest datagram is delivered, or a younger one
\* overtakes it, ...
Deliver(i) ==
    /\ i \in 1..Len(net)
    /\ i > 1 => Faulty
    /\ Process(net[i])
    /\ net' = [k \in 1..(Len(net) - 1) |-> IF k < i THEN net[k] ELSE net[k + 1]]
    /\ disordered' = disordered + (IF i > 1 THEN 1 ELSE 0)
    /\ UNCHANGED lost

\* ... one is delivered and stays to be delivered again, ...
Duplicate ==
    /\ net # <<>> /\ Faulty
    /\ Process(Head(net))
    /\ disordered' = disordered + 1
    /\ UNCHANGED <<net, lost>>

\* ... or one is lost.
Lose ==
    /\ net # <<>> /\ Faulty
    /\ net' = Tail(net)
    /\ lost' = lost + 1
    /\ UNCHANGED <<trackerVars, book, disordered>>

Network ==
    /\ (\E i \in 1..Len(net) : Deliver(i)) \/ Duplicate \/ Lose
    /\ UNCHANGED <<version, fd_, sending, runVars, one, pc, result, calls, history,
                   handed>>

Next ==
    \/ (Working \/ Calls) /\ UNCHANGED <<trackerVars, feedVars>>
    \/ Network

\* The generator's only thread keeps running while it is in a call.
Spec == Init /\ [][Next]_vars /\ WF_generatorVars(Working)

-----------------------------------------------------------------------------
\* engine::sanityCheck
sanityCheck(msg) ==
    /\ msg.bid_price >= 0 /\ msg.ask_price # 0
    /\ msg.bid_price <= msg.ask_price
    /\ msg.bid_size > 0 /\ msg.ask_size > 0

\* Whatever the network does, a message the engine processed has, field by
\* field, the values of one the sender's kernel took; and a quote run() made
\* passes the engine's sanityCheck.
ProcessedAsMade ==
    \A k \in 1..Len(book) :
        book[k] \in handed /\ (book[k] \in Samples \/ sanityCheck(book[k]))

SeqNums == {wire[k].seq_num : k \in 1..Len(wire)}

\* The holes between the first and the last message of the run.
InnerHoles == {h \in holes : \E a, b \in SeqNums : a < h /\ h < b}

\* One run over a network that keeps the order: nothing is dropped and every
\* datagram is processed, under way or lost; and when none is lost, the
\* engine's seq_num_gaps is the number of sequence numbers the generator's
\* holes skip: gap_span + 1 each, as run() computes them and not as its
\* comments say (HolesSkipSpan).
QuietFeedExact ==
    (calls = 1 /\ disordered = 0 /\ pc # "one" /\ wire # <<>>) =>
        /\ drops = 0
        /\ processed + Len(net) + lost = Len(wire)
        /\ (net = <<>> /\ lost = 0) =>
              seq_num_gaps = Cardinality(InnerHoles) * (gap_span + 1)
=============================================================================
