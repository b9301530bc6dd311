---------------------------- MODULE MCTcpServer ----------------------------
(***************************************************************************)
(* Two clients that send two frames and one, for a pool of two slots; a    *)
(* client that finds the other one served gets a descriptor past the array.*)
(*                                                                         *)
(* While the last stop_server waits, neither bytes nor clients ever end:   *)
(* with every frame read accounted for and none half read, the streams are *)
(* counted from 0 again, and a client that is gone makes room for another  *)
(* one.  Nothing the threads do depends on these numbers, nor on what a    *)
(* free slot held, and an earlier stop_server meets nothing else.          *)
(***************************************************************************)
EXTENDS TcpServer

MCConns == {"a", "b"}
MCFds == 1..2
MCMaxBytes == [c \in MCConns |-> IF c = "a" THEN 4 ELSE 2]

Gone(c) == state[c] = "gone"

Renumber ==
    /\ mainPc = "join" /\ starts = MaxStarts
    /\ ready = <<>> /\ chunk = <<>>
    /\ \A f \in Fds : conns[f].frame = <<>>
    /\ read' = [c \in Conns |-> 0]
    /\ sent' = [c \in Conns |-> IF Gone(c) THEN 0 ELSE sent[c] - read[c]]
    /\ state' = [c \in Conns |-> IF Gone(c) THEN "new" ELSE state[c]]
    /\ fin' = [c \in Conns |-> fin[c] /\ ~Gone(c)]
    /\ consumed' = 0 /\ drops' = 0
    /\ slots' = [i \in 1..Capacity |-> <<>>]
    /\ UNCHANGED <<handle, main, ioPc, locals, conns, backlog, fdConn, watched,
                   edge, free, ready>>

MCSpec == Init /\ [][Next \/ Renumber]_vars /\ WF_vars(Io) /\ WF_vars(Stopping)
=============================================================================
