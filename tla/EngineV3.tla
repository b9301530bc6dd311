------------------------------ MODULE EngineV3 ------------------------------
(***************************************************************************)
(* engine::v3::Engine and DpdkRxSourceImpl (src/src/engine/v3/engine.cpp): *)
(* one thread that opens the port, polls bursts of packets, processes and  *)
(* releases them, and closes the port once it is told to stop.  The packet *)
(* buffers (mbufs) belong to a pool; the network card takes them from it,  *)
(* poll hands them to the engine and release gives them back.              *)
(*                                                                         *)
(* A packet is what it carries, the sequence number of a message or        *)
(* nothing (see module UdpPayload).  The tracking of the numbers writes    *)
(* only to the tracker (module SeqTracker), so that processing a packet is *)
(* here just being handed it.                                              *)
(***************************************************************************)
EXTENDS Integers, Sequences, FiniteSets

CONSTANTS Mbufs,        \* the buffers of a pool
          burst,        \* min(cfg_.burst_size, kMaxBurst)
          Packet,       \* what a packet can carry
          Nothing,      \* what an unused buffer holds
          MaxPackets,   \* bound: packets in the history
          MaxRuns       \* bound: calls of run()

ASSUME EngineV3Assumption ==
    /\ burst \in Nat \ {0}
    /\ Nothing \notin Packet
    /\ MaxPackets \in Nat /\ MaxRuns \in Nat

VARIABLES
    pc, runs,                     \* run()
    stop_requested, stop_signal,  \* stop_requested_, *cfg_.stop_signal_flag
    is_open, mbuf_pool,           \* DpdkRxSourceImpl
    port,                         \* "closed", "configured", "queue" or "started"
    free, rxRing, data,           \* the pool, the card's queue, the contents
    packets, i,                   \* the polled packets and the next to process
    delivered, seen               \* history: put in the queue; processed

stops == <<stop_requested, stop_signal>>
source == <<is_open, mbuf_pool, port>>
buffers == <<free, rxRing, data>>
history == <<delivered, seen>>
vars == <<pc, runs, stops, source, buffers, packets, i, history>>

Init ==
    /\ pc = "idle" /\ runs = 0
    /\ stop_requested = FALSE /\ stop_signal = FALSE
    /\ is_open = FALSE /\ mbuf_pool = FALSE /\ port = "closed"
    /\ free = {} /\ rxRing = <<>> /\ data = [m \in Mbufs |-> Nothing]
    /\ packets = <<>> /\ i = 0
    /\ delivered = <<>> /\ seen = <<>>

-----------------------------------------------------------------------------
(* run() and open(), one call of the driver per step.  (rx_source_ is      *)
(* attached before run(), which returns at once otherwise.)  main() calls  *)
(* open() itself and then run(), which calls it again.                     *)

Run ==
    /\ pc = "idle" /\ pc' = "pool"
    /\ runs < MaxRuns /\ runs' = runs + 1
    /\ UNCHANGED <<stops, source, buffers, packets, i, history>>

OpenGoto(label) == pc' = label /\ UNCHANGED <<source, free>>

\* An open source is left as it is, and a pool that exists is used again;
\* otherwise the pool is created, or open() fails (also for a queue other
\* than 0).
OpenPool ==
    /\ pc = "pool"
    /\ IF is_open THEN OpenGoto("while")
       ELSE IF mbuf_pool THEN OpenGoto("configure")
       ELSE \/ /\ mbuf_pool' = TRUE /\ free' = Mbufs
               /\ pc' = "configure"
               /\ UNCHANGED <<is_open, port>>
            \/ OpenGoto("idle")

\* reset_mbuf_pool()
FreePool == mbuf_pool' = FALSE /\ free' = {}

OpenConfigure ==
    /\ pc = "configure"
    /\ \/ port' = "configured" /\ pc' = "rxQueue" /\ UNCHANGED <<mbuf_pool, free>>
       \/ FreePool /\ pc' = "idle" /\ UNCHANGED port
    /\ UNCHANGED is_open

\* Fault: the early return keeps the pool.
OpenFailsLeaks == port' = "closed" /\ pc' = "idle" /\ UNCHANGED <<is_open, mbuf_pool, free>>

\* The failure of a configured port: it is closed and the pool freed.
OpenFails == port' = "closed" /\ FreePool /\ pc' = "idle" /\ UNCHANGED is_open

OpenQueue ==
    /\ pc = "rxQueue"
    /\ \/ port' = "queue" /\ pc' = "start" /\ UNCHANGED <<is_open, mbuf_pool, free>>
       \/ OpenFails

\* (Promiscuous mode is best effort.)  This was the open() of run(), or that
\* of main(), and then run() calls open() on the open source.
OpenStart ==
    /\ pc = "start"
    /\ \/ /\ port' = "started" /\ is_open' = TRUE /\ pc' \in {"while", "pool"}
          /\ UNCHANGED <<mbuf_pool, free>>
       \/ OpenFails

Open ==
    /\ OpenPool \/ OpenConfigure \/ OpenQueue \/ OpenStart
    /\ UNCHANGED <<runs, stops, rxRing, data, packets, i, history>>

-----------------------------------------------------------------------------
(* The loop of run()                                                       *)

StopSeen == stop_requested \/ stop_signal

While ==
    /\ pc = "while"
    /\ pc' = IF StopSeen THEN "stopPort" ELSE "poll"
    /\ UNCHANGED <<source, buffers, packets, i, history>>

\* poll: the oldest packets of the queue, at most burst of them.
Poll ==
    /\ pc = "poll"
    /\ LET n == IF Len(rxRing) < burst THEN Len(rxRing) ELSE burst
       IN  /\ packets' = SubSeq(rxRing, 1, n)
           /\ rxRing' = SubSeq(rxRing, n + 1, Len(rxRing))
           /\ pc' = IF n > 0 THEN "process" ELSE "while"
    /\ i' = 1
    /\ UNCHANGED <<source, free, data, history>>

\* Fault: each burst is released before it is processed.
ProcessReleased ==
    /\ pc = "process"
    /\ seen' = Append(seen, data[packets[i]])
    /\ free' = free \cup {packets[k] : k \in 1..Len(packets)}
    /\ i' = i + 1
    /\ pc' = IF i = Len(packets) THEN "release" ELSE "process"
    /\ UNCHANGED <<source, rxRing, data, packets, delivered>>

\* process_one on the next packet of the burst.
Process ==
    /\ pc = "process"
    /\ seen' = Append(seen, data[packets[i]])
    /\ i' = i + 1
    /\ pc' = IF i = Len(packets) THEN "release" ELSE "process"
    /\ UNCHANGED <<source, buffers, packets, delivered>>

\* Fault: the last packet of a burst is not given back.
ReleasedShort == {packets[k] : k \in 1..(Len(packets) - 1)}

Released == {packets[k] : k \in 1..Len(packets)}

\* Fault: the flags are looked at when poll finds nothing.
AfterBurstPoll == "poll"

AfterBurst == "while"

Release ==
    /\ pc = "release" /\ pc' = AfterBurst
    /\ free' = free \cup Released
    /\ packets' = <<>>
    /\ UNCHANGED <<source, rxRing, data, i, history>>

-----------------------------------------------------------------------------
(* close()                                                                 *)

\* Stopping the port gives the packets still queued back to the pool.
StopPort ==
    /\ pc = "stopPort" /\ pc' = "freePool"
    /\ port' = "closed" /\ is_open' = FALSE
    /\ free' = free \cup {rxRing[k] : k \in 1..Len(rxRing)}
    /\ rxRing' = <<>>
    /\ delivered' = seen
    /\ UNCHANGED <<mbuf_pool, data, packets, i, seen>>

CloseFree ==
    /\ pc = "freePool" /\ pc' = "idle"
    /\ FreePool
    /\ UNCHANGED <<is_open, port, rxRing, data, packets, i, history>>

Loop ==
    /\ While \/ Poll \/ Process \/ Release \/ StopPort \/ CloseFree
    /\ UNCHANGED <<runs, stops>>

-----------------------------------------------------------------------------
\* request_stop(), from any thread, and the signal handler that main() installs.
RequestStop == stop_requested' = TRUE /\ UNCHANGED stop_signal
Signal == stop_signal' = TRUE /\ UNCHANGED stop_requested

\* The card receives a packet into a free buffer, or loses it if none is free.
Arrive(p) ==
    /\ port = "started"
    /\ Len(delivered) < MaxPackets
    /\ \E m \in free :
         /\ free' = free \ {m}
         /\ rxRing' = Append(rxRing, m)
         /\ data' = [data EXCEPT ![m] = p]
    /\ delivered' = Append(delivered, p)
    /\ UNCHANGED <<pc, runs, stops, source, packets, i, seen>>

Next ==
    \/ Run \/ Open \/ Loop
    \/ /\ RequestStop \/ Signal
       /\ UNCHANGED <<pc, runs, source, buffers, packets, i, history>>
    \/ \E p \in Packet : Arrive(p)

\* The thread that called run() keeps running.
Spec == Init /\ [][Next]_vars /\ WF_vars(Open \/ Loop)

-----------------------------------------------------------------------------
\* While the pool lives every buffer is in the pool, in the card's queue or in
\* the engine's burst, and in one of them only: none leaks over many bursts
\* and none is handed out twice.
MbufsConserved ==
    LET held == rxRing \o packets
        inHeld == {held[k] : k \in 1..Len(held)}
    IN  mbuf_pool => /\ free \cap inHeld = {}
                     /\ free \cup inHeld = Mbufs
                     /\ Cardinality(inHeld) = Len(held)

\* The pool is never freed under a running port or under packets the engine
\* still holds, and a run that failed half way through open() or that ended
\* leaves neither a pool nor a port behind.
SourceCleanedUp ==
    /\ ~mbuf_pool => port = "closed" /\ packets = <<>> /\ ~is_open
    /\ pc = "idle" => ~mbuf_pool /\ port = "closed"

\* Packets are processed once each, unchanged and in the order the card
\* received them.
ProcessedInOrder ==
    /\ Len(seen) <= Len(delivered)
    /\ seen = SubSeq(delivered, 1, Len(seen))

\* Once stopped, run() returns, however fast packets keep arriving: the flags
\* are looked at after every burst, not when the card's queue is found empty.
StopEndsRun == (stop_requested \/ stop_signal) ~> (pc = "idle")
=============================================================================
