------------------------------ MODULE EngineV2 ------------------------------
(***************************************************************************)
(* engine::v2::Engine (src/src/engine/v2/engine.cpp): the thread that      *)
(* calls receive() and stop(), the io thread (io_loop), the consumer       *)
(* (process) and the reporter.  Slots of the frame pool travel from the    *)
(* ring `free' through io_loop, the ring `ready' and process back to       *)
(* `free'.                                                                 *)
(*                                                                         *)
(* `ready' has one producer and one consumer, so RingRefinesFifo lets it   *)
(* be a sequence with atomic push and pop.  `free' is pushed by both       *)
(* threads, which that theorem does not cover: its pushes and pops take    *)
(* one step per shared access, as in RingBuffer.                           *)
(*                                                                         *)
(* A datagram is "good" (kWireSize bytes) or "bad" (any other length, or   *)
(* truncated).  What its sequence number is decides only between           *)
(* inc_processed and inc_drops, and is left to SeqTracker: here a frame is *)
(* counted.  What a thread never changes is listed once, where its steps   *)
(* are put together (Io, Proc, Main).                                      *)
(***************************************************************************)
EXTENDS Integers, Sequences, FiniteSets

CONSTANTS Capacity,       \* kPoolCapacity: slots, and capacity of both rings
          Modulus,        \* how many values a size_t has
          kBatch,         \* the most frames reserved, or processed, at once
          Inputs,         \* bound: the datagrams that may come first, second, ...,
                          \* one less with every receive()
          MaxRuns         \* bound: calls of receive()

ASSUME EngineV2Assumption ==
    /\ Capacity \in Nat /\ Capacity > 1
    /\ Modulus \in Nat /\ Capacity < Modulus /\ Modulus % Capacity = 0
    /\ kBatch \in Nat \ {0}
    /\ Inputs \in Seq(SUBSET {"good", "bad"})
    /\ MaxRuns \in Nat

VARIABLES
    running,                     \* running_
    pool,                        \* pool_: "none" or "alive"
    receiver,                    \* receiver_: "open" or "closed"
    head, tail, buf,             \* pool_->free
    ready,                       \* pool_->ready
    sock,                        \* datagrams in the socket's receive buffer
    mainPc, runs,
    ioPc, inner, reserved, frames, ioPop,
    procPc, batch,
    reporter,                    \* "off" or "on"
    push,                        \* per thread: its call of free.push
    taken, counted, abandoned    \* history: frames received; counted, as processed
                                 \* or dropped; left behind at a shutdown

ring == <<head, tail, buf>>
ioVars == <<inner, reserved, frames, ioPop>>
procVars == <<procPc, batch>>
counts == <<taken, counted, abandoned>>
vars == <<running, pool, receiver, ring, ready, sock, mainPc, runs, ioPc,
          ioVars, procVars, reporter, push, counts>>

Slot == 0..(Capacity - 1)
Threads == {"io", "proc"}

Minus(a, b) == (a - b) % Modulus
Inc(a) == (a + 1) % Modulus
Mask(a) == a % Capacity

\* A thread that is not inside free.push.
NoPush == [pc |-> "none", h |-> 0, t |-> 0, idx |-> 0]
\* The io thread's own load of head, which nobody else writes, is no step.
CallPush(w, idx) ==
    push' = [push EXCEPT ![w] = [pc |-> IF w = "io" THEN "loadTail" ELSE "loadHead",
                                 h |-> IF w = "io" THEN head ELSE 0,
                                 t |-> 0, idx |-> idx]]
NotPushing(w) == push[w].pc = "none"

Init ==
    /\ running = FALSE /\ pool = "none" /\ receiver = "closed"
    /\ head = 0 /\ tail = 0 /\ buf = [s \in Slot |-> 0] /\ ready = <<>>
    /\ sock = <<>>
    /\ mainPc = "idle" /\ runs = 0
    /\ ioPc = "off" /\ inner = FALSE /\ reserved = <<>> /\ frames = <<>>
    /\ ioPop = 0
    /\ procPc = "off" /\ batch = <<>>
    /\ reporter = "off"
    /\ push = [w \in Threads |-> NoPush]
    /\ taken = 0 /\ counted = 0 /\ abandoned = 0

-----------------------------------------------------------------------------
(* free.push by thread w, one shared access per step.  The callers ignore  *)
(* the result.                                                             *)

PushLoadHead(w) ==
    /\ push[w].pc = "loadHead"
    /\ push' = [push EXCEPT ![w].pc = "loadTail", ![w].h = head]
    /\ UNCHANGED <<tail, buf>>

PushLoadTail(w) ==
    /\ push[w].pc = "loadTail"
    /\ push' = IF Minus(tail, push[w].h) = Capacity
               THEN [push EXCEPT ![w] = NoPush]
               ELSE [push EXCEPT ![w].pc = "write", ![w].t = tail]
    /\ UNCHANGED <<tail, buf>>

PushWrite(w) ==
    /\ push[w].pc = "write"
    /\ push' = [push EXCEPT ![w].pc = "store"]
    /\ buf' = [buf EXCEPT ![Mask(push[w].t)] = push[w].idx]
    /\ UNCHANGED tail

PushStore(w) ==
    /\ push[w].pc = "store"
    /\ push' = [push EXCEPT ![w] = NoPush]
    /\ tail' = Inc(push[w].t)
    /\ UNCHANGED buf

Push(w) ==
    /\ PushLoadHead(w) \/ PushLoadTail(w) \/ PushWrite(w) \/ PushStore(w)
    /\ UNCHANGED <<running, pool, receiver, head, ready, sock, mainPc, runs, ioPc,
                   ioVars, procVars, reporter, counts>>

-----------------------------------------------------------------------------
(* io_loop                                                                 *)

\* A step of the io thread that only moves it on.
IoGoto(pc) ==
    ioPc' = pc /\ UNCHANGED <<running, head, ready, sock, ioVars, push, counts>>

\* while (running_)
IoWhile ==
    /\ ioPc = "while"
    /\ ioPc' = IF running THEN "reserve" ELSE "done"
    /\ inner' = FALSE /\ reserved' = <<>> /\ frames' = <<>>
    /\ UNCHANGED <<running, head, ready, sock, ioPop, push, counts>>

\* reserve_frames, for the outer and the inner loop: while the batch is not
\* full and free.pop finds tail ahead of head, take one more index.
IoReserveTest ==
    /\ ioPc = "reserve"
    /\ IoGoto(CASE Len(reserved) < kBatch /\ head # tail -> "popRead"
                [] reserved = <<>> -> "while"
                [] OTHER -> IF inner THEN "batch" ELSE "epoll")

IoPopRead ==
    /\ ioPc = "popRead"
    /\ ioPc' = "popStore"
    /\ ioPop' = buf[Mask(head)]
    /\ UNCHANGED <<running, head, ready, sock, inner, reserved, frames, push, counts>>

IoPopStore ==
    /\ ioPc = "popStore"
    /\ ioPc' = "reserve"
    /\ head' = Inc(head)
    /\ reserved' = Append(reserved, ioPop) /\ ioPop' = 0
    /\ UNCHANGED <<running, ready, sock, inner, frames, push, counts>>

\* receiver_.epoll_receive in the outer loop, receiver_.receive_batch in the
\* inner one.  n > 0: as many datagrams as are there, up to the reserved
\* frames.
IoReceive ==
    /\ ioPc \in {"epoll", "batch"}
    /\ receiver = "open" /\ sock # <<>>
    /\ LET n == IF Len(sock) < Len(reserved) THEN Len(sock) ELSE Len(reserved)
       IN  /\ frames' = SubSeq(sock, 1, n)
           /\ sock' = SubSeq(sock, n + 1, Len(sock))
           /\ taken' = taken + n
    /\ ioPc' = "inner"
    /\ UNCHANGED <<running, head, ready, inner, reserved, ioPop, push, counted,
                   abandoned>>

\* n == 0: the 500 ms passed or the socket is drained; an epoll_wait that was
\* under way when the receiver was closed also ends like this.
IoReceiveNothing ==
    /\ ioPc \in {"epoll", "batch"}
    /\ \/ receiver = "open" /\ sock = <<>>
       \/ receiver = "closed" /\ ioPc = "epoll"
    /\ IoGoto("release")

\* n < 0: the descriptors are closed, or the kernel reports an error.
IoReceiveError == ioPc \in {"epoll", "batch"} /\ IoGoto("releaseFail")

\* Fault: the loop goes on only for more than one datagram.
InnerOnSeveral == running /\ Len(frames) > 1

InnerOn == running

\* while (running_ && n > 0): when running_ is already false the datagrams
\* just received are left unpublished and their slots unreleased.
IoInner ==
    /\ ioPc = "inner"
    /\ inner' = TRUE
    /\ IF InnerOn THEN ioPc' = "publish" /\ UNCHANGED <<frames, abandoned>>
       ELSE /\ ioPc' = "while" /\ frames' = <<>>
            /\ abandoned' = abandoned + Len(frames)
    /\ UNCHANGED <<running, head, ready, sock, reserved, ioPop, push, taken,
                   counted>>

\* Fault: a malformed datagram is not counted.
CountDropNot == UNCHANGED counted

CountDrop == counted' = counted + 1

\* publish_batch, one received frame per step: to `ready', or counted as a
\* drop and pushed back to `free'.
IoPublish ==
    /\ ioPc = "publish" /\ NotPushing("io") /\ frames # <<>>
    /\ frames' = Tail(frames) /\ reserved' = Tail(reserved)
    /\ IF Head(frames) = "good" /\ Len(ready) < Capacity
       THEN ready' = Append(ready, Head(reserved)) /\ UNCHANGED <<counted, push>>
       ELSE CountDrop /\ CallPush("io", Head(reserved)) /\ UNCHANGED ready
    /\ UNCHANGED <<running, head, sock, ioPc, inner, ioPop, taken, abandoned>>

\* publish_batch has gone through its frames, or there were none.
Releasing == \/ ioPc = "publish" /\ frames = <<>>
             \/ ioPc \in {"release", "releaseFail"}

\* release_reserved: the indices that were reserved and not used.
IoRelease ==
    /\ Releasing /\ NotPushing("io") /\ reserved # <<>>
    /\ reserved' = Tail(reserved)
    /\ CallPush("io", Head(reserved))
    /\ UNCHANGED <<running, head, ready, sock, ioPc, inner, frames, ioPop, counts>>

\* After publish_batch the inner loop reserves again; after n == 0 the outer
\* loop goes on; after n < 0 the thread clears running_ and ends.
IoReleased ==
    /\ Releasing /\ NotPushing("io") /\ reserved = <<>>
    /\ ioPc' = CASE ioPc = "publish" -> "reserve"
                 [] ioPc = "release" -> "while"
                 [] ioPc = "releaseFail" -> "done"
    /\ running' = (running /\ ioPc # "releaseFail")
    /\ UNCHANGED <<head, ready, sock, ioVars, push, counts>>

Io ==
    \/ /\ \/ IoWhile \/ IoReserveTest \/ IoPopRead \/ IoPopStore
          \/ IoReceive \/ IoReceiveNothing \/ IoReceiveError
          \/ IoInner \/ IoPublish \/ IoRelease \/ IoReleased
       /\ UNCHANGED <<pool, receiver, tail, buf, mainPc, runs, procVars, reporter>>
    \/ Push("io")

-----------------------------------------------------------------------------
(* process                                                                 *)

ProcGoto(pc) == procPc' = pc /\ UNCHANGED <<ready, batch, push, counted>>

\* while (running_ || !ready.empty()): the two are read one after the other.
ProcWhile == procPc = "while" /\ ProcGoto(IF running THEN "gather" ELSE "empty?")

ProcEmpty == procPc = "empty?" /\ ProcGoto(IF ready = <<>> THEN "done" ELSE "gather")

\* Pop up to kBatch indices.
ProcGather ==
    /\ procPc = "gather"
    /\ IF Len(batch) < kBatch /\ ready # <<>>
       THEN /\ batch' = Append(batch, Head(ready)) /\ ready' = Tail(ready)
            /\ UNCHANGED <<procPc, push, counted>>
       ELSE ProcGoto(IF batch = <<>> THEN "while" ELSE "decode")

\* decode, sequence tracking and the latency sample of every frame of the
\* batch.  No other thread modelled here sees them one by one.
ProcDecode ==
    /\ procPc = "decode" /\ procPc' = "free"
    /\ counted' = counted + Len(batch)
    /\ UNCHANGED <<ready, batch, push>>

\* Then every index of the batch is pushed to `free'.
ProcFree ==
    /\ procPc = "free" /\ NotPushing("proc")
    /\ IF batch = <<>> THEN ProcGoto("while")
       ELSE /\ batch' = Tail(batch)
            /\ CallPush("proc", Head(batch))
            /\ UNCHANGED <<ready, procPc, counted>>

Proc ==
    \/ /\ ProcWhile \/ ProcEmpty \/ ProcGather \/ ProcDecode \/ ProcFree
       /\ UNCHANGED <<running, pool, receiver, ring, sock, mainPc, runs, ioPc, ioVars,
                      reporter, taken, abandoned>>
    \/ Push("proc")

-----------------------------------------------------------------------------
(* receive() and stop(), called by one thread.  A call of receive() that   *)
(* succeeded is followed by a call of stop() before the next receive().    *)

\* FramePool::init: both rings reset, then every index pushed to `free'.
PoolInit == head' = 0 /\ tail' = Capacity /\ buf' = [s \in Slot |-> s] /\ ready' = <<>>

\* The pool is allocated and initialised, or receive() returns false.
ReceiveAlloc ==
    /\ mainPc = "idle" /\ ~running /\ runs < MaxRuns
    /\ runs' = runs + 1
    /\ \/ pool' = "alive" /\ PoolInit /\ mainPc' = "open"
       \/ UNCHANGED <<pool, ring, ready, mainPc>>
    /\ UNCHANGED <<running, receiver, sock, ioPc, procPc, reporter, abandoned>>

\* Receiver::open closes what was open, then succeeds or leaves it closed.
OpenReceiver == receiver' \in {"open", "closed"}

\* receiver_.open; on failure the pool is released.
ReceiveOpen ==
    /\ mainPc = "open"
    /\ OpenReceiver
    /\ IF receiver' = "open"
       THEN running' = TRUE /\ mainPc' = "spawnIo" /\ UNCHANGED pool
       ELSE pool' = "none" /\ mainPc' = "idle" /\ UNCHANGED running
    /\ UNCHANGED <<ring, ready, sock, runs, ioPc, procPc, reporter, abandoned>>

Lifecycle == <<running, pool, receiver, ring, ready, sock, runs, abandoned>>

\* The three std::thread constructors; one that throws leads to stop().
SpawnIo ==
    /\ mainPc = "spawnIo"
    /\ \/ ioPc' = "while" /\ mainPc' = "spawnProc"
       \/ mainPc' = "stop" /\ UNCHANGED ioPc
    /\ UNCHANGED <<Lifecycle, procPc, reporter>>

SpawnProc ==
    /\ mainPc = "spawnProc"
    /\ \/ procPc' = "while" /\ mainPc' = "spawnReporter"
       \/ mainPc' = "stop" /\ UNCHANGED procPc
    /\ UNCHANGED <<Lifecycle, ioPc, reporter>>

SpawnReporter ==
    /\ mainPc = "spawnReporter"
    /\ \/ reporter' = "on" /\ mainPc' = "up"
       \/ mainPc' = "stop" /\ UNCHANGED reporter
    /\ UNCHANGED <<Lifecycle, ioPc, procPc>>

\* Fault: the flag stays set.
ClearRunningNot == UNCHANGED running

ClearRunning == running' = FALSE

\* stop(): the flag, then the receiver, then the joins, then the pool.
Stop ==
    /\ mainPc \in {"up", "stop"} /\ mainPc' = "close"
    /\ ClearRunning
    /\ UNCHANGED <<pool, receiver, ring, ready, sock, runs, ioPc, procPc, reporter, abandoned>>

\* Receiver::close; what the socket still held is gone.
CloseReceiver == receiver' = "closed" /\ sock' = <<>>

StopClose ==
    /\ mainPc = "close" /\ mainPc' = "joinIo"
    /\ CloseReceiver
    /\ UNCHANGED <<running, pool, ring, ready, runs, ioPc, procPc, reporter, abandoned>>

StopJoinIo ==
    /\ mainPc = "joinIo" /\ mainPc' = "joinProc"
    /\ ioPc \in {"off", "done"} /\ ioPc' = "off"
    /\ UNCHANGED <<Lifecycle, procPc, reporter>>

\* Fault: the consumer is not joined.
JoinProcNot == UNCHANGED procPc

JoinProc == procPc \in {"off", "done"} /\ procPc' = "off"

StopJoinProc ==
    /\ mainPc = "joinProc" /\ mainPc' = "joinReporter"
    /\ JoinProc
    /\ UNCHANGED <<Lifecycle, ioPc, reporter>>

\* The reporter wakes every five seconds and ends once running_ is false (or
\* before, when its timer fails), which only its join sees.
JoinReporter == (reporter = "on" => ~running) /\ reporter' = "off"

\* The last join and release_pool(); what is still in `ready' goes with it.
StopRelease ==
    /\ mainPc = "joinReporter" /\ mainPc' = "idle"
    /\ JoinReporter
    /\ pool' = "none" /\ ready' = <<>>
    /\ abandoned' = abandoned + Len(ready)
    /\ UNCHANGED <<running, receiver, ring, sock, runs, ioPc, procPc>>

MainKeeps == UNCHANGED <<ioVars, batch, push, taken, counted>>

Returning ==
    /\ \/ ReceiveOpen \/ SpawnIo \/ SpawnProc \/ SpawnReporter
       \/ mainPc = "stop" /\ Stop
       \/ StopClose \/ StopJoinIo \/ StopJoinProc \/ StopRelease
    /\ MainKeeps

-----------------------------------------------------------------------------
\* The network: a datagram reaches the open socket.
Arrive ==
    /\ receiver = "open"
    /\ LET n == taken + Len(sock)
       IN  /\ n + runs <= Len(Inputs)
           /\ \E k \in Inputs[n + 1] : sock' = Append(sock, k)
    /\ UNCHANGED <<running, pool, receiver, ring, ready, mainPc, runs, ioPc, ioVars,
                   procVars, reporter, push, counts>>

Next ==
    \/ Io
    \/ Proc
    \/ (ReceiveAlloc \/ Stop) /\ MainKeeps
    \/ Returning
    \/ Arrive

\* The operating system runs every thread that can run.  Nobody is obliged
\* to call receive() or stop(), and no datagram to arrive.
Spec ==
    /\ Init /\ [][Next]_vars
    /\ WF_vars(Io) /\ WF_vars(Proc) /\ WF_vars(Returning)

-----------------------------------------------------------------------------
\* io_loop, process and stop() share pool_ through a plain pointer.  No thread
\* that still uses it survives to see it released, also when receive() fails
\* half way or the io thread ends by itself.
PoolOutlivesThreads ==
    pool = "none" => /\ ioPc \in {"off", "done"} /\ procPc \in {"off", "done"}
                     /\ \A w \in Threads : NotPushing(w)

\* Frames between the socket and process's counters.
InFlight ==
    Len(frames) + Len(ready) + (IF procPc \in {"gather", "decode"} THEN Len(batch) ELSE 0)

\* Every datagram received is counted once as processed or dropped, is still
\* in flight, or was left behind by a shutdown: no path through
\* publish_batch and process loses one or counts one twice.
FramesAccounted == taken = counted + InFlight + abandoned

\* A frame is left behind only by an engine that is shutting down.
AbandonedOnlyAtStop == [][abandoned' # abandoned => ~running]_vars

\* stop() returns: whatever the threads are doing, the joins it waits in end.
StopReturns == (mainPc \in {"stop", "close", "joinIo", "joinProc", "joinReporter"})
                 ~> (mainPc = "idle")

\* The indices in `free', as its consumer would pop them.
FreeIndices == [i \in 1..Minus(tail, head) |-> buf[Mask(head + i - 1)]]

\* The cycle free -> io_loop -> ready -> process -> free: while the engine
\* runs and no push is under way, no index is at two of its places.
CycleKeepsSlots ==
    (running /\ \A w \in Threads : NotPushing(w)) =>
        LET all == FreeIndices \o reserved \o ready \o batch
        IN  \A i, j \in 1..Len(all) : all[i] = all[j] => i = j
=============================================================================
