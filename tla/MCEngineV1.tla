----------------------------- MODULE MCEngineV1 -----------------------------
(***************************************************************************)
(* Two slots, batches of two, three datagrams: 0, a repeated 0 or a gap, a *)
(* late one, with or without datagrams that are no message.                *)
(*                                                                         *)
(* Datagrams never stop arriving: with none in flight, a dropped one is    *)
(* taken off the account (one received, one dropped), and another may come *)
(* in its place.  Nothing the threads do depends on these counters, nor on *)
(* what a free slot held.                                                  *)
(***************************************************************************)
EXTENDS EngineV1

MCInputs == <<{0, BadDatagram}, {0, 2}, {1, BadDatagram}>>

Recount ==
    /\ drops > 0 /\ sock = <<>> /\ InFlight = 0 /\ ioIdx = NoSlot
    /\ taken' = taken - 1 /\ drops' = drops - 1
    /\ received' = processed
    /\ slots' = [s \in Slot |-> BadDatagram]
    /\ UNCHANGED <<running, srvRunning, fds, kernel, free, ready, ioPc, ioVars,
                   consPc, consIdx, reporter, mainPc, runs, abandoned, pending,
                   recvFailed, seq_initialized, expected_seq_num, processed,
                   seq_num_gaps>>

MCSpec ==
    /\ Init /\ [][Next \/ Recount]_vars
    /\ WF_vars(Io) /\ WF_vars(Cons) /\ WF_vars(ReporterExit) /\ WF_vars(Returning)
=============================================================================
