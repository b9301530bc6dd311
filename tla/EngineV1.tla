------------------------------ MODULE EngineV1 ------------------------------
(***************************************************************************)
(* engine::Engine (src/src/engine/v1/engine.cpp) with the UDP server it    *)
(* starts (src/src/common/net/v1/udp_server.hpp): the thread that calls    *)
(* run() and stop(), the io thread (run_server_loop), the consumer         *)
(* (process_loop) and the reporter.                                        *)
(*                                                                         *)
(* Each ring has one producer and one consumer (SlotsConserved leaves room *)
(* in `ready', so that IoPublish never pushes to `free'), and by           *)
(* RingRefinesFifo its calls are atomic on a sequence.  A datagram is its  *)
(* sequence number, or BadDatagram when it is truncated or not kWireSize   *)
(* bytes long.  What a thread never changes is listed once, where its      *)
(* steps are put together (Io, Cons, Main).                                *)
(***************************************************************************)
EXTENDS SeqTracker, Sequences, FiniteSets

CONSTANTS Capacity,       \* slots of the pool and capacity of both rings
          BATCH,          \* datagrams per recvmmsg
          BadDatagram,    \* a datagram that is not a message
          Inputs,         \* bound: the datagrams that may come first, second, ...,
                          \* one less with every run()
          MaxRuns         \* bound: calls of run()

ASSUME EngineV1Assumption ==
    /\ Capacity \in Nat /\ Capacity > 1
    /\ BATCH \in Nat \ {0}
    /\ BadDatagram \notin Uint64
    /\ Inputs \in Seq(SUBSET (Uint64 \cup {BadDatagram}))
    /\ MaxRuns \in Nat

VARIABLES
    running,                              \* Engine::running_
    srvRunning,                           \* handle_.running
    sockFd, wakeFd,                       \* handle_'s descriptors: open or not
    sock, sockEdge, wakeEdge,             \* the kernel's side of them
    free, ready, slots,                   \* pool_
    ioPc, events, msgs, ioIdx,
    consPc, consIdx,
    reporter,                             \* "off", "on" or "done"
    mainPc, runs,
    taken, abandoned,                     \* history: datagrams received; left behind
    pending, recvFailed                   \* by a stop(); published, not yet decoded

fds == <<sockFd, wakeFd>>
kernel == <<sock, sockEdge, wakeEdge>>
poolVars == <<free, ready, slots>>
ioVars == <<events, msgs, ioIdx>>
history == <<taken, abandoned, pending, recvFailed>>
vars == <<running, srvRunning, fds, kernel, poolVars, ioPc, ioVars, consPc,
          consIdx, reporter, mainPc, runs, history, trackerVars>>

Slot == 0..(Capacity - 1)
NoSlot == Capacity

Init ==
    /\ running = FALSE /\ srvRunning = FALSE
    /\ sockFd = FALSE /\ wakeFd = FALSE
    /\ sock = <<>> /\ sockEdge = FALSE /\ wakeEdge = FALSE
    /\ free = <<>> /\ ready = <<>> /\ slots = [s \in Slot |-> BadDatagram]
    /\ ioPc = "off" /\ events = {} /\ msgs = <<>> /\ ioIdx = NoSlot
    /\ consPc = "off" /\ consIdx = NoSlot
    /\ reporter = "off"
    /\ mainPc = "idle" /\ runs = 0
    /\ taken = 0 /\ abandoned = 0 /\ pending = <<>> /\ recvFailed = FALSE
    /\ TrackerInit

-----------------------------------------------------------------------------
(* run_server_loop                                                         *)

\* A step of the io thread that only moves it on.
IoGoto(pc) ==
    /\ ioPc' = pc
    /\ UNCHANGED <<srvRunning, fds, kernel, poolVars, ioVars, history, drops>>

CloseAll ==
    /\ sockFd' = FALSE /\ wakeFd' = FALSE
    /\ sock' = <<>> /\ sockEdge' = FALSE /\ wakeEdge' = FALSE

\* A call of the set-up fails: what was opened is closed again, handle.running
\* is cleared and the thread ends.
IoSetupFails ==
    /\ ioPc \in {"socket", "eventfd", "ctl"}
    /\ CloseAll
    /\ srvRunning' = FALSE
    /\ ioPc' = "done"
    /\ UNCHANGED <<poolVars, ioVars, history, drops>>

IoSocket ==
    /\ ioPc = "socket"
    /\ sockFd' = TRUE
    /\ ioPc' = "eventfd"
    /\ UNCHANGED <<srvRunning, wakeFd, kernel, poolVars, ioVars, history, drops>>

IoEventfd ==
    /\ ioPc = "eventfd"
    /\ wakeFd' = TRUE
    /\ ioPc' = "ctl"
    /\ UNCHANGED <<srvRunning, sockFd, kernel, poolVars, ioVars, history, drops>>

\* Adding a descriptor reports it once if it is already readable.  (A wake
\* written before this point has set wakeEdge already.)
IoCtl ==
    /\ ioPc = "ctl"
    /\ sockEdge' = (sock # <<>>)
    /\ ioPc' = "while"
    /\ UNCHANGED <<srvRunning, fds, sock, wakeEdge, poolVars, ioVars, history, drops>>

IoWhile == ioPc = "while" /\ IoGoto(IF srvRunning THEN "wait" ELSE "cleanup")

\* epoll_wait reports each edge-triggered descriptor that became readable
\* since its last report, or nothing (timeout, EINTR).
IoWait ==
    /\ ioPc = "wait"
    /\ events' = {e \in {"sock", "wake"} : IF e = "sock" THEN sockEdge ELSE wakeEdge}
    /\ sockEdge' = FALSE /\ wakeEdge' = FALSE
    /\ ioPc' = IF sockEdge \/ wakeEdge THEN "event" ELSE "while"
    /\ UNCHANGED <<srvRunning, fds, sock, poolVars, msgs, ioIdx, history, drops>>

\* Any other failure leaves the loop, and handle.running set.
IoWaitFails == ioPc = "wait" /\ IoGoto("cleanup")

\* The loop over the reported events, whose order is the kernel's choice.
IoEventsDone == ioPc = "event" /\ events = {} /\ IoGoto("while")

\* wake_fd: read it empty and clear handle.running; the other event, if any,
\* is still handled.
IoEventWake ==
    /\ ioPc = "event" /\ "wake" \in events
    /\ events' = events \ {"wake"}
    /\ srvRunning' = FALSE
    /\ UNCHANGED <<fds, kernel, poolVars, ioPc, msgs, ioIdx, history, drops>>

\* sock_fd: receive, or, when the event carries EPOLLERR or EPOLLHUP, clear
\* handle.running and leave the loop over the events.
IoEventSock ==
    /\ ioPc = "event" /\ "sock" \in events
    /\ \/ events' = events \ {"sock"} /\ ioPc' = "recv" /\ UNCHANGED srvRunning
       \/ events' = {} /\ ioPc' = "while" /\ srvRunning' = FALSE
    /\ UNCHANGED <<fds, kernel, poolVars, msgs, ioIdx, history, drops>>

\* recvmmsg takes up to BATCH datagrams.
IoRecv ==
    /\ ioPc = "recv" /\ sock # <<>>
    /\ LET n == IF Len(sock) < BATCH THEN Len(sock) ELSE BATCH
       IN  /\ msgs' = SubSeq(sock, 1, n)
           /\ sock' = SubSeq(sock, n + 1, Len(sock))
           /\ taken' = taken + n
    /\ ioPc' = "copy"
    /\ UNCHANGED <<srvRunning, fds, sockEdge, wakeEdge, poolVars, events, ioIdx,
                   abandoned, pending, recvFailed, drops>>

\* EAGAIN: the socket is drained.
IoRecvAgain ==
    /\ ioPc = "recv" /\ sock = <<>>
    /\ recvFailed' = FALSE
    /\ ioPc' = "event"
    /\ UNCHANGED <<srvRunning, fds, kernel, poolVars, ioVars, taken, abandoned,
                   pending, drops>>

\* Any other error stops receiving, whatever is still in the socket.
IoRecvFails ==
    /\ ioPc = "recv"
    /\ recvFailed' = (sock # <<>>)
    /\ ioPc' = "event"
    /\ UNCHANGED <<srvRunning, fds, kernel, poolVars, ioVars, taken, abandoned,
                   pending, drops>>

\* Fault: one recvmmsg per event, on an edge-triggered socket.
RecvNextOnce == "event"

\* `continue' until EAGAIN.
RecvNext == "recv"

IoCopied == ioPc = "copy" /\ msgs = <<>> /\ IoGoto(RecvNext)

\* Fault: not counted.
CountDropNot == UNCHANGED drops

CountDrop == drops' = Add(drops, 1)

\* One received datagram: dropped if it is not a message or no slot is free.
IoDrop ==
    /\ ioPc = "copy" /\ msgs # <<>>
    /\ Head(msgs) = BadDatagram \/ free = <<>>
    /\ msgs' = Tail(msgs)
    /\ CountDrop
    /\ UNCHANGED <<srvRunning, fds, kernel, poolVars, ioPc, events, ioIdx, history>>

\* Otherwise copied into a slot popped from `free' ...
IoCopy ==
    /\ ioPc = "copy" /\ msgs # <<>>
    /\ Head(msgs) # BadDatagram /\ free # <<>>
    /\ ioIdx' = Head(free) /\ free' = Tail(free)
    /\ slots' = [slots EXCEPT ![Head(free)] = Head(msgs)]
    /\ ioPc' = "publish"
    /\ UNCHANGED <<srvRunning, fds, kernel, ready, events, msgs, history, drops>>

\* ... and pushed to `ready'; if that were full, dropped and the slot pushed
\* back to `free'.
IoPublish ==
    /\ ioPc = "publish"
    /\ IF Len(ready) < Capacity
       THEN /\ ready' = Append(ready, ioIdx)
            /\ pending' = Append(pending, Head(msgs))
            /\ UNCHANGED <<free, drops>>
       ELSE free' = Append(free, ioIdx) /\ CountDrop /\ UNCHANGED <<ready, pending>>
    /\ ioIdx' = NoSlot /\ msgs' = Tail(msgs)
    /\ ioPc' = "copy"
    /\ UNCHANGED <<srvRunning, fds, kernel, slots, events, taken, abandoned, recvFailed>>

IoCleanup ==
    /\ ioPc = "cleanup"
    /\ CloseAll
    /\ ioPc' = "done"
    /\ UNCHANGED <<srvRunning, poolVars, ioVars, history, drops>>

-----------------------------------------------------------------------------
(* process_loop                                                            *)

ConsGoto(pc) ==
    consPc' = pc /\ UNCHANGED <<free, ready, consIdx, pending, trackerVars>>

\* while (running_ || !ready.empty())
ConsWhile == consPc = "while" /\ ConsGoto(IF running THEN "pop" ELSE "empty?")

\* Fault: the test for an empty ring the wrong way round.
ConsEmptyInverted == consPc = "empty?" /\ ConsGoto(IF ready = <<>> THEN "pop" ELSE "done")

ConsEmpty == consPc = "empty?" /\ ConsGoto(IF ready = <<>> THEN "done" ELSE "pop")

\* Fault: the slot is given back before the frame in it is decoded.
FreeAtPopEarly == free' = Append(free, Head(ready))

FreeAtPop == UNCHANGED free

ConsPop ==
    /\ consPc = "pop"
    /\ IF ready = <<>> THEN ConsGoto("while")
       ELSE /\ consIdx' = Head(ready) /\ ready' = Tail(ready)
            /\ FreeAtPop
            /\ consPc' = "decode"
            /\ UNCHANGED <<pending, trackerVars>>

\* decode cannot fail on kWireSize bytes; then the sequence tracking.
ConsDecode ==
    /\ consPc = "decode"
    /\ Track(slots[consIdx])
    /\ pending' = Tail(pending)
    /\ consPc' = "free"
    /\ UNCHANGED <<free, ready, consIdx>>

\* Fault: the slot is forgotten.
FreeIdxNot == UNCHANGED free

FreeIdx == free' = Append(free, consIdx)

ConsFree ==
    /\ consPc = "free"
    /\ FreeIdx
    /\ consIdx' = NoSlot
    /\ consPc' = "while"
    /\ UNCHANGED <<ready, pending, trackerVars>>

-----------------------------------------------------------------------------

\* The reporter wakes every five seconds and ends once running_ is false.  It
\* may end earlier, when its timer fails, which no other thread sees.
ReporterExit ==
    /\ reporter = "on" /\ ~running
    /\ reporter' = "done"
    /\ UNCHANGED <<running, srvRunning, fds, kernel, poolVars, ioPc, ioVars, consPc,
                   consIdx, mainPc, runs, history, trackerVars>>

-----------------------------------------------------------------------------
(* run() and stop(), called in turn by one thread.                         *)

MainGoto(pc) ==
    /\ mainPc' = pc
    /\ UNCHANGED <<running, srvRunning, wakeEdge, free, ready, ioPc, consPc,
                   reporter, runs>>

\* running_, pool_.init() and start_server; the io thread starts.  Assigning
\* to the std::thread of an io thread that was not joined ends the program.
\* Frames that the last stop() left in `ready' go with the old rings.
Run ==
    /\ mainPc = "idle" /\ runs < MaxRuns
    /\ runs' = runs + 1
    /\ running' = TRUE /\ srvRunning' = TRUE
    /\ free' = [i \in 1..Capacity |-> i - 1] /\ ready' = <<>>
    /\ IF ioPc = "off" THEN ioPc' = "socket" /\ mainPc' = "spawn"
                       ELSE ioPc' = "off" /\ mainPc' = "terminated"
    /\ abandoned' = abandoned + Len(pending) /\ pending' = <<>>
    /\ UNCHANGED <<wakeEdge, consPc, reporter, taken, recvFailed>>

RunSpawn ==
    /\ mainPc = "spawn" /\ mainPc' = "up"
    /\ consPc' = "while" /\ reporter' = "on"
    /\ UNCHANGED <<running, srvRunning, wakeEdge, free, ready, ioPc, runs>>

Stop ==
    /\ mainPc = "up" /\ mainPc' = "exchange"
    /\ running' = FALSE
    /\ UNCHANGED <<srvRunning, wakeEdge, free, ready, ioPc, consPc, reporter, runs>>

\* stop_server returns at once when handle.running is already false.
StopExchange ==
    /\ mainPc = "exchange"
    /\ mainPc' = IF srvRunning THEN "wake?" ELSE "joinCons"
    /\ srvRunning' = FALSE
    /\ UNCHANGED <<running, wakeEdge, free, ready, ioPc, consPc, reporter, runs>>

\* handle.wake_fd is a plain int that the io thread also writes.
StopReadWake == mainPc = "wake?" /\ MainGoto(IF wakeFd THEN "write" ELSE "joinIo")

\* The write wakes epoll_wait, unless the descriptor was closed since.
StopWrite ==
    /\ mainPc = "write" /\ mainPc' = "joinIo"
    /\ wakeEdge' = wakeFd
    /\ UNCHANGED <<running, srvRunning, free, ready, ioPc, consPc, reporter, runs>>

StopJoinIo ==
    /\ mainPc = "joinIo" /\ mainPc' = "joinCons"
    /\ ioPc = "done" /\ ioPc' = "off"
    /\ UNCHANGED <<running, srvRunning, wakeEdge, free, ready, consPc, reporter, runs>>

StopJoinCons == mainPc = "joinCons" /\ consPc = "done" /\ MainGoto("joinReporter")

StopJoinReporter == mainPc = "joinReporter" /\ reporter = "done" /\ MainGoto("idle")

-----------------------------------------------------------------------------
\* The network: a datagram reaches the bound socket and raises its edge.
Arrive ==
    /\ sockFd
    /\ LET n == taken + Len(sock)
       IN  /\ n + runs <= Len(Inputs)
           /\ \E d \in Inputs[n + 1] : sock' = Append(sock, d)
    /\ sockEdge' = TRUE
    /\ UNCHANGED <<running, srvRunning, fds, wakeEdge, poolVars, ioPc, ioVars, consPc,
                   consIdx, reporter, mainPc, runs, history, trackerVars>>

Io ==
    /\ \/ IoSetupFails \/ IoSocket \/ IoEventfd \/ IoCtl
       \/ IoWhile \/ IoWait \/ IoWaitFails
       \/ IoEventsDone \/ IoEventWake \/ IoEventSock
       \/ IoRecv \/ IoRecvAgain \/ IoRecvFails
       \/ IoCopied \/ IoDrop \/ IoCopy \/ IoPublish
       \/ IoCleanup
    /\ UNCHANGED <<running, consPc, consIdx, reporter, mainPc, runs, seq_initialized,
                   expected_seq_num, received, processed, seq_num_gaps>>

Cons ==
    /\ ConsWhile \/ ConsEmpty \/ ConsPop \/ ConsDecode \/ ConsFree
    /\ UNCHANGED <<running, srvRunning, fds, kernel, slots, ioPc, ioVars, reporter,
                   mainPc, runs, taken, abandoned, recvFailed>>

Stopping ==
    \/ StopExchange \/ StopReadWake \/ StopWrite
    \/ StopJoinIo \/ StopJoinCons \/ StopJoinReporter

MainKeeps == UNCHANGED <<fds, sock, sockEdge, slots, ioVars, consIdx, trackerVars>>

Returning == (RunSpawn \/ Stopping) /\ MainKeeps /\ UNCHANGED history

Next ==
    \/ Io
    \/ Cons
    \/ ReporterExit
    \/ Run /\ MainKeeps
    \/ Stop /\ MainKeeps /\ UNCHANGED history
    \/ Returning
    \/ Arrive

\* The operating system runs every thread that can run.  Nobody is obliged
\* to call run() or stop(), and no datagram to arrive.
Spec ==
    /\ Init /\ [][Next]_vars
    /\ WF_vars(Io) /\ WF_vars(Cons) /\ WF_vars(ReporterExit) /\ WF_vars(Returning)

-----------------------------------------------------------------------------
Held(i) == IF i = NoSlot THEN <<>> ELSE <<i>>

\* Once the pool is initialised every slot is at exactly one place: `free',
\* the io thread's hand, `ready', or the consumer's hand.  No interleaving
\* loses a slot or gives it to both threads, over any number of runs; and
\* with a slot in the io thread's hand `ready' has room, so that the consumer
\* is the only thread that pushes to `free'.
SlotsConserved ==
    runs > 0 =>
        LET all == free \o Held(ioIdx) \o ready \o Held(consIdx)
        IN  Len(all) = Capacity /\ {all[i] : i \in 1..Len(all)} = Slot

\* A published frame is still in its slot, unchanged, when the consumer
\* decodes it, and frames are decoded in the order they were received.
FramesIntact ==
    LET held == (IF consPc = "decode" THEN <<consIdx>> ELSE <<>>) \o ready
    IN  pending = [i \in 1..Len(held) |-> slots[held[i]]]

\* Datagrams between the socket and the counters.
InFlight == Len(msgs) + Len(pending)

\* Every datagram received is counted once, as processed or as a drop by
\* either thread, is still in flight, or was left behind: the consumer ends
\* when it finds running_ false and `ready' empty, which the io thread may
\* still fill until stop_server has joined it, and the next run() empties.
FramesAccounted ==
    taken % SeqModulus = (processed + drops + abandoned + InFlight) % SeqModulus

\* The socket is edge-triggered: a server that goes back to waiting has
\* drained it, or another edge is pending, or a receive error broke its last
\* drain, or it is about to end.
NoLostEdge ==
    (ioPc \in {"while", "wait"} /\ sock # <<>>) =>
        sockEdge \/ recvFailed \/ ~srvRunning

\* The io thread never leaves one drain of the socket: the loop goes on until
\* EAGAIN and does not look at handle.running.
DrainsForEver == <>[](ioPc \in {"recv", "copy", "publish"})

\* stop() returns, whether it meets the io thread before its descriptors exist,
\* while it waits or receives, or failed.  Datagrams that go on arriving hold
\* it up in one way only: so fast that a single drain never ends.
StopReturns ==
    \/ (mainPc \notin {"idle", "spawn", "up", "terminated"}) ~> (mainPc = "idle")
    \/ DrainsForEver
=============================================================================
