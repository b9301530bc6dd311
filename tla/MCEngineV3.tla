----------------------------- MODULE MCEngineV3 -----------------------------
(***************************************************************************)
(* Three buffers and bursts of two; packets that carry one of two messages.*)
(*                                                                         *)
(* Packets never stop arriving: a processed one is taken off the history,  *)
(* and another may come in its place.  Nothing the thread does depends on  *)
(* the history.                                                            *)
(***************************************************************************)
EXTENDS EngineV3

Forget ==
    /\ seen # <<>> /\ seen' = Tail(seen)
    /\ delivered # <<>> /\ delivered' = Tail(delivered)
    /\ UNCHANGED <<pc, runs, stops, source, buffers, packets, i>>

MCSpec == Init /\ [][Next \/ Forget]_vars /\ WF_vars(Open \/ Loop)
=============================================================================
