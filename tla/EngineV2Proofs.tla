--------------------------- MODULE EngineV2Proofs ---------------------------
(***************************************************************************)
(* Engine v2 accounts for every datagram, and no thread of it outlives the *)
(* pool, for every capacity, batch size and number of datagrams and runs.  *)
(* The blocking queue beside its rings in src/src/containers,              *)
(* BlockedBoundedQueue, forgets no thread that waits, and its buffer holds *)
(* the queue, for any number of producers and consumers and any capacity.  *)
(***************************************************************************)
EXTENDS EngineV2, BlockedBoundedQueue, Basics, FiniteSetTheorems

Datagram == {"good", "bad"}

\* A call of free.push.
PushType == [pc : {"none", "loadHead", "loadTail", "write", "store"},
             h : Nat, t : Nat, idx : Slot]

\* The types, and what each thread holds at each of its steps.
EngineType ==
    /\ head \in Nat /\ tail \in Nat /\ buf \in [Slot -> Slot]
    /\ ready \in Seq(Slot) /\ reserved \in Seq(Slot) /\ batch \in Seq(Slot)
    /\ sock \in Seq(Datagram) /\ frames \in Seq(Datagram)
    /\ ioPop \in Slot
    /\ push \in [Threads -> PushType]
    /\ taken \in Nat /\ counted \in Nat /\ abandoned \in Nat /\ runs \in Nat

Holds ==
    /\ Len(frames) <= Len(reserved)
    /\ ioPc \notin {"inner", "publish"} => frames = <<>>
    /\ procPc \notin {"gather", "decode", "free"} => batch = <<>>
    /\ ~NotPushing("io") => ioPc \in {"publish", "release", "releaseFail"}
    /\ ~NotPushing("proc") => procPc = "free"

\* receive() starts the threads one by one, and stop() waits for them in the
\* order io, process, before it releases the pool.
Lifetimes ==
    /\ mainPc \in {"idle", "open", "spawnIo", "spawnProc", "spawnReporter", "up", "stop",
                   "close", "joinIo", "joinProc", "joinReporter"}
    /\ pool = "none" <=> mainPc = "idle"
    /\ mainPc \in {"idle", "open", "close", "joinIo", "joinProc", "joinReporter"} => ~running
    /\ mainPc \in {"idle", "open", "spawnIo", "joinProc", "joinReporter"} => ioPc = "off"
    /\ mainPc \in {"idle", "open", "spawnIo", "spawnProc", "joinReporter"} => procPc = "off"
    /\ mainPc \in {"idle", "open", "spawnIo"} => ready = <<>>
    /\ runs = 0 => mainPc = "idle" /\ receiver = "closed"

EngineInv == EngineType /\ Holds /\ Lifetimes /\ FramesAccounted

-----------------------------------------------------------------------------
IoKeeps == UNCHANGED <<pool, receiver, tail, buf, mainPc, runs, procVars, reporter>>
ProcKeeps == UNCHANGED <<running, pool, receiver, ring, sock, mainPc, runs, ioPc, ioVars,
                         reporter, taken, abandoned>>

\* The steps of the engine, one by one.
LEMMA EngineSteps ==
    ASSUME [Next]_vars
    PROVE  \/ /\ \/ IoWhile \/ IoReserveTest \/ IoPopRead \/ IoPopStore \/ IoReceive
                 \/ IoReceiveNothing \/ IoReceiveError \/ IoInner \/ IoPublish \/ IoRelease
                 \/ IoReleased
              /\ IoKeeps
           \/ /\ ProcWhile \/ ProcEmpty \/ ProcGather \/ ProcDecode \/ ProcFree
              /\ ProcKeeps
           \/ Push("io") \/ Push("proc")
           \/ /\ \/ ReceiveAlloc \/ Stop \/ ReceiveOpen \/ SpawnIo \/ SpawnProc \/ SpawnReporter
                 \/ StopClose \/ StopJoinIo \/ StopJoinProc \/ StopRelease
              /\ MainKeeps
           \/ Arrive \/ UNCHANGED vars
  BY DEF Next, Io, Proc, Returning, IoKeeps, ProcKeeps

\* The slots, and the wrapping counters.
LEMMA SlotFacts ==
    /\ Capacity \in Nat \ {0} /\ Modulus \in Nat \ {0} /\ 0 \in Slot
    /\ \A n \in Int : Mask(n) \in Slot /\ Inc(n) \in Nat
<1>1. Capacity \in Nat \ {0} /\ Modulus \in Nat \ {0}
  BY EngineV2Assumption
<1>2. 0 \in Slot
  BY <1>1 DEF Slot
<1>3. ASSUME NEW n \in Int PROVE n % Capacity \in 0..(Capacity - 1)
  BY <1>1, ModRange
<1>4. ASSUME NEW n \in Int PROVE (n + 1) % Modulus \in Nat
  <2>1. n + 1 \in Int
    OBVIOUS
  <2>2. (n + 1) % Modulus \in 0..(Modulus - 1)
    BY <1>1, <2>1, ModRange
  <2> QED BY <1>1, <2>2
<1> QED BY <1>1, <1>2, <1>3, <1>4 DEF Mask, Inc, Slot

\* A call of free.push, and its steps.
LEMMA CallPushType ==
    ASSUME EngineType, NEW w \in Threads, NEW idx \in Slot, CallPush(w, idx)
    PROVE  /\ push' \in [Threads -> PushType]
           /\ \A v \in Threads : v # w => push'[v] = push[v]
<1>1. push \in [Threads -> PushType] /\ head \in Nat
  BY DEF EngineType
<1> DEFINE p == [pc |-> IF w = "io" THEN "loadTail" ELSE "loadHead",
                 h |-> IF w = "io" THEN head ELSE 0, t |-> 0, idx |-> idx]
<1>2. p \in PushType
  BY <1>1 DEF PushType
<1>3. push' = [push EXCEPT ![w] = p]
  BY DEF CallPush
<1> HIDE DEF p
<1> QED BY <1>1, <1>2, <1>3

LEMMA PushSteps ==
    ASSUME EngineType, NEW w \in Threads, Push(w)
    PROVE  /\ push' \in [Threads -> PushType] /\ tail' \in Nat /\ buf' \in [Slot -> Slot]
           /\ \A v \in Threads : v # w => push'[v] = push[v]
           /\ ~NotPushing(w)
<1>1. /\ push \in [Threads -> PushType] /\ head \in Nat /\ tail \in Nat
      /\ buf \in [Slot -> Slot]
  BY DEF EngineType
<1>2. /\ push[w].pc \in {"none", "loadHead", "loadTail", "write", "store"}
      /\ push[w].h \in Nat /\ push[w].t \in Nat /\ push[w].idx \in Slot
  BY <1>1 DEF PushType
<1>3. NoPush \in PushType
  BY SlotFacts DEF NoPush, PushType
<1>4. CASE PushLoadHead(w) BY <1>1, <1>2, <1>4 DEF PushLoadHead, PushType, NotPushing
<1>5. CASE PushLoadTail(w)
  BY <1>1, <1>2, <1>3, <1>5 DEF PushLoadTail, PushType, NotPushing
<1>6. CASE PushWrite(w)
  BY <1>1, <1>2, <1>6, SlotFacts DEF PushWrite, PushType, NotPushing
<1>7. CASE PushStore(w)
  <2>1. tail' \in Nat
    BY <1>2, <1>7, SlotFacts DEF PushStore
  <2> QED BY <1>1, <1>2, <1>3, <1>7, <2>1 DEF PushStore, NotPushing
<1> QED BY <1>4, <1>5, <1>6, <1>7 DEF Push

\* What each thread holds, step by step.
LEMMA TypeStep ==
    ASSUME EngineInv, [Next]_vars
    PROVE  EngineType' /\ Holds'
<1> USE DEF EngineType, Holds, ring, ioVars, procVars, counts
<1>0. EngineType /\ Holds /\ Lifetimes
  BY DEF EngineInv
<1>n. Len(frames) \in Nat /\ Len(reserved) \in Nat /\ Len(ready) \in Nat /\ Len(batch) \in Nat
  BY <1>0
<1>1. CASE IoWhile /\ IoKeeps BY <1>0, <1>1 DEF IoWhile, IoKeeps, NotPushing
<1>2. CASE IoReserveTest /\ IoKeeps
  BY <1>0, <1>2 DEF IoReserveTest, IoGoto, IoKeeps, NotPushing
<1>3. CASE IoPopRead /\ IoKeeps
  <2>1. ioPop' \in Slot
    BY <1>0, <1>3, SlotFacts DEF IoPopRead
  <2> QED BY <1>0, <1>3, <2>1 DEF IoPopRead, IoKeeps, NotPushing
<1>4. CASE IoPopStore /\ IoKeeps
  <2>1. head' \in Nat /\ ioPop' \in Slot
    BY <1>0, <1>4, SlotFacts DEF IoPopStore
  <2>2. reserved' \in Seq(Slot) /\ Len(reserved') = Len(reserved) + 1
    BY <1>0, <1>4 DEF IoPopStore
  <2> QED BY <1>0, <1>4, <1>n, <2>1, <2>2 DEF IoPopStore, IoKeeps, NotPushing
<1>5. CASE IoReceive /\ IoKeeps
  <2> DEFINE n == IF Len(sock) < Len(reserved) THEN Len(sock) ELSE Len(reserved)
  <2>1. n \in Nat /\ n <= Len(sock) /\ n <= Len(reserved)
    BY <1>0
  <2>2. frames' = SubSeq(sock, 1, n) /\ sock' = SubSeq(sock, n + 1, Len(sock)) /\ taken' = taken + n
    BY <1>5 DEF IoReceive
  <2> HIDE DEF n
  <2>3. /\ SubSeq(sock, 1, n) \in Seq(Datagram) /\ Len(SubSeq(sock, 1, n)) = n
        /\ SubSeq(sock, n + 1, Len(sock)) \in Seq(Datagram)
    BY <1>0, <2>1, CutInTwo
  <2>4. frames' \in Seq(Datagram) /\ Len(frames') <= Len(reserved) /\ sock' \in Seq(Datagram)
        /\ taken' \in Nat
    BY <1>0, <2>1, <2>2, <2>3
  <2> QED BY <1>0, <1>5, <2>4 DEF IoReceive, IoKeeps, NotPushing
<1>6. CASE (IoReceiveNothing \/ IoReceiveError) /\ IoKeeps
  BY <1>0, <1>6 DEF IoReceiveNothing, IoReceiveError, IoGoto, IoKeeps, NotPushing
<1>7. CASE IoInner /\ IoKeeps
  <2>1. CASE InnerOn
    BY <1>0, <1>7, <2>1 DEF IoInner, IoKeeps, NotPushing
  <2>2. CASE ~InnerOn
    <3>1. frames' = <<>> /\ Len(frames') = 0 /\ abandoned' \in Nat
      BY <1>0, <1>7, <1>n, <2>2 DEF IoInner
    <3> QED BY <1>0, <1>7, <1>n, <2>2, <3>1 DEF IoInner, IoKeeps, NotPushing
  <2> QED BY <2>1, <2>2
<1>8. CASE IoPublish /\ IoKeeps
  <2>1. reserved # <<>> /\ frames # <<>>
    BY <1>0, <1>8, <1>n DEF IoPublish
  <2>2. /\ Head(reserved) \in Slot /\ Tail(reserved) \in Seq(Slot) /\ Tail(frames) \in Seq(Datagram)
        /\ Len(Tail(reserved)) = Len(reserved) - 1 /\ Len(Tail(frames)) = Len(frames) - 1
    BY <1>0, <2>1
  <2>3. /\ reserved' \in Seq(Slot) /\ frames' \in Seq(Datagram) /\ Len(frames') <= Len(reserved')
        /\ ioPc = "publish" /\ ioPc' = "publish"
    BY <1>0, <1>8, <1>n, <2>2 DEF IoPublish
  <2>4. ready' \in Seq(Slot) /\ counted' \in Nat
    <3>1. CASE ready' = Append(ready, Head(reserved)) /\ UNCHANGED counted
      BY <1>0, <2>2, <3>1
    <3>2. CASE CountDrop /\ UNCHANGED ready
      BY <1>0, <3>2 DEF CountDrop
    <3> QED BY <1>8, <3>1, <3>2 DEF IoPublish
  <2>5. push' \in [Threads -> PushType] /\ (push'["proc"] = push["proc"])
    BY <1>0, <1>8, <2>2, CallPushType DEF IoPublish, Threads
  <2> QED BY <1>0, <1>8, <2>3, <2>4, <2>5 DEF IoPublish, IoKeeps, NotPushing
<1>9. CASE IoRelease /\ IoKeeps
  <2>1. reserved # <<>> /\ frames = <<>> /\ ioPc \in {"publish", "release", "releaseFail"}
    BY <1>0, <1>9 DEF IoRelease, Releasing
  <2>2. /\ Head(reserved) \in Slot /\ Tail(reserved) \in Seq(Slot)
        /\ Len(Tail(reserved)) = Len(reserved) - 1 /\ Len(reserved) # 0
    BY <1>0, <2>1
  <2>3. reserved' \in Seq(Slot) /\ Len(frames') <= Len(reserved') /\ frames' = frames
    BY <1>0, <1>9, <1>n, <2>1, <2>2 DEF IoRelease
  <2>5. push' \in [Threads -> PushType] /\ (push'["proc"] = push["proc"])
    BY <1>0, <1>9, <2>2, CallPushType DEF IoRelease, Threads
  <2> QED BY <1>0, <1>9, <2>1, <2>3, <2>5 DEF IoRelease, IoKeeps, NotPushing
<1>10. CASE IoReleased /\ IoKeeps
  <2>1. frames = <<>>
    BY <1>0, <1>10 DEF IoReleased, Releasing
  <2> QED BY <1>0, <1>10, <2>1 DEF IoReleased, IoKeeps, NotPushing
<1>11. CASE (ProcWhile \/ ProcEmpty) /\ ProcKeeps
  BY <1>0, <1>11 DEF ProcWhile, ProcEmpty, ProcGoto, ProcKeeps, NotPushing
<1>12. CASE ProcGather /\ ProcKeeps
  <2>1. ready # <<>> => Head(ready) \in Slot /\ Tail(ready) \in Seq(Slot)
    BY <1>0
  <2>2. ready' \in Seq(Slot) /\ batch' \in Seq(Slot)
    <3>1. CASE UNCHANGED <<ready, batch>> BY <1>0, <3>1
    <3>2. CASE ready # <<>> /\ batch' = Append(batch, Head(ready)) /\ ready' = Tail(ready)
      BY <1>0, <2>1, <3>2
    <3> QED BY <1>12, <3>1, <3>2 DEF ProcGather, ProcGoto
  <2> QED BY <1>0, <1>12, <2>2 DEF ProcGather, ProcGoto, ProcKeeps, NotPushing
<1>13. CASE ProcDecode /\ ProcKeeps
  BY <1>0, <1>13 DEF ProcDecode, ProcKeeps, NotPushing
<1>14. CASE ProcFree /\ ProcKeeps
  <2>1. CASE batch = <<>>
    BY <1>0, <1>14, <2>1 DEF ProcFree, ProcGoto, ProcKeeps, NotPushing
  <2>2. CASE batch # <<>>
    <3>0. Head(batch) \in Slot /\ Tail(batch) \in Seq(Slot)
      BY <1>0, <2>2
    <3>1. Head(batch) \in Slot /\ batch' \in Seq(Slot)
      BY <1>14, <2>2, <3>0 DEF ProcFree
    <3>2. push' \in [Threads -> PushType] /\ (push'["io"] = push["io"])
      BY <1>0, <1>14, <2>2, <3>1, CallPushType DEF ProcFree, Threads
    <3> QED BY <1>0, <1>14, <2>2, <3>1, <3>2 DEF ProcFree, ProcKeeps, NotPushing
  <2> QED BY <2>1, <2>2
<1>15. ASSUME NEW w \in Threads, Push(w) PROVE EngineType' /\ Holds'
  <2>1. /\ push' \in [Threads -> PushType] /\ tail' \in Nat /\ buf' \in [Slot -> Slot]
        /\ \A v \in Threads : v # w => push'[v] = push[v]
        /\ ~NotPushing(w)
    BY <1>0, <1>15, PushSteps
  <2>2. UNCHANGED <<head, ready, sock, ioPc, ioVars, procVars, counts, runs>>
    BY <1>15 DEF Push
  <2>3. \A v \in Threads : ~NotPushing(v)' => ~NotPushing(v)
    BY <2>1 DEF NotPushing
  <2> QED BY <1>0, <2>1, <2>2, <2>3 DEF Threads
<1>16. CASE ReceiveAlloc /\ MainKeeps
  <2>1. PoolInit => /\ head' \in Nat /\ tail' \in Nat
                    /\ buf' \in [Slot -> Slot] /\ ready' \in Seq(Slot)
    BY SlotFacts DEF PoolInit
  <2> QED BY <1>0, <1>16, <2>1 DEF ReceiveAlloc, MainKeeps, NotPushing
<1>17. CASE (Stop \/ ReceiveOpen) /\ MainKeeps
  BY <1>0, <1>17 DEF Stop, ReceiveOpen, MainKeeps, NotPushing
<1>18. CASE (SpawnIo \/ SpawnProc \/ SpawnReporter) /\ MainKeeps
  BY <1>0, <1>18 DEF SpawnIo, SpawnProc, SpawnReporter, Lifecycle, MainKeeps, NotPushing, Lifetimes
<1>19. CASE (StopClose \/ StopJoinIo \/ StopJoinProc) /\ MainKeeps
  <2>1. CASE StopClose BY <1>0, <1>19, <2>1 DEF StopClose, CloseReceiver, MainKeeps, NotPushing
  <2>2. CASE StopJoinIo BY <1>0, <1>19, <2>2 DEF StopJoinIo, Lifecycle, MainKeeps, NotPushing
  <2>3. CASE StopJoinProc
    BY <1>0, <1>19, <2>3 DEF StopJoinProc, JoinProc, Lifecycle, MainKeeps, NotPushing
  <2> QED BY <1>19, <2>1, <2>2, <2>3
<1>20. CASE StopRelease /\ MainKeeps
  BY <1>0, <1>20, <1>n DEF StopRelease, MainKeeps, NotPushing
<1>21. CASE Arrive
  <2>1. sock' \in Seq(Datagram)
    <3>1. Len(sock) \in Nat /\ taken + Len(sock) + runs <= Len(Inputs)
      BY <1>0, <1>21 DEF Arrive
    <3>2. taken + Len(sock) + 1 \in Nat
      BY <1>0, <3>1
    <3>3. runs # 0
      BY <1>0, <1>21 DEF Lifetimes, Arrive
    <3>4. taken + Len(sock) + 1 \in 1..Len(Inputs) /\ Inputs \in Seq(SUBSET Datagram)
      BY <1>0, <3>1, <3>2, <3>3, EngineV2Assumption DEF Datagram
    <3>5. Inputs[taken + Len(sock) + 1] \subseteq Datagram
      BY <3>4
    <3>6. PICK k \in Inputs[taken + Len(sock) + 1] : sock' = Append(sock, k)
      BY <1>21 DEF Arrive
    <3>7. k \in Datagram
      BY <3>5
    <3> QED BY <1>0, <3>6, <3>7
  <2> QED BY <1>0, <1>21, <2>1 DEF Arrive, NotPushing
<1>22. CASE UNCHANGED vars BY <1>0, <1>22 DEF vars, NotPushing
<1> HIDE DEF EngineType, Holds
<1> QED BY EngineSteps, <1>1, <1>2, <1>3, <1>4, <1>5, <1>6, <1>7, <1>8, <1>9, <1>10, <1>11, <1>12,
           <1>13, <1>14, <1>15, <1>16, <1>17, <1>18, <1>19, <1>20, <1>21, <1>22 DEF Threads

\* Which threads there are, step by step.
LEMMA LifetimesStep ==
    ASSUME EngineInv, [Next]_vars
    PROVE  Lifetimes'
<1> USE DEF Lifetimes, ring, ioVars, procVars, counts
<1>0. EngineType /\ Holds /\ Lifetimes
  BY DEF EngineInv
<1>1. ASSUME UNCHANGED <<mainPc, pool, receiver, runs>>, ~running => ~running',
             ioPc = "off" => ioPc' = "off", procPc' = procPc,
             ioPc = "off" => ready' = ready
      PROVE  Lifetimes'
  BY <1>0, <1>1
<1>2. ASSUME UNCHANGED <<mainPc, pool, receiver, runs, running, ioPc>>,
             procPc = "off" => procPc' = "off" /\ ready' = ready
      PROVE  Lifetimes'
  BY <1>0, <1>2
<1>3. CASE IoWhile /\ IoKeeps BY <1>1, <1>3 DEF IoWhile, IoKeeps
<1>4. CASE IoReserveTest /\ IoKeeps BY <1>1, <1>4 DEF IoReserveTest, IoGoto, IoKeeps
<1>5. CASE (IoPopRead \/ IoPopStore) /\ IoKeeps
  BY <1>1, <1>5 DEF IoPopRead, IoPopStore, IoKeeps
<1>6. CASE IoReceive /\ IoKeeps BY <1>1, <1>6 DEF IoReceive, IoKeeps
<1>7. CASE (IoReceiveNothing \/ IoReceiveError) /\ IoKeeps
  BY <1>1, <1>7 DEF IoReceiveNothing, IoReceiveError, IoGoto, IoKeeps
<1>8. CASE IoInner /\ IoKeeps BY <1>1, <1>8 DEF IoInner, IoKeeps
<1>9. CASE (IoPublish \/ IoRelease \/ IoReleased) /\ IoKeeps
  BY <1>1, <1>9 DEF IoPublish, IoRelease, IoReleased, Releasing, IoKeeps
<1>10. CASE (ProcWhile \/ ProcEmpty \/ ProcGather \/ ProcDecode \/ ProcFree) /\ ProcKeeps
  BY <1>2, <1>10 DEF ProcWhile, ProcEmpty, ProcGather, ProcDecode, ProcFree, ProcGoto, ProcKeeps
<1>11. CASE Push("io") \/ Push("proc") BY <1>1, <1>11 DEF Push
<1>12. CASE ReceiveAlloc /\ MainKeeps
  BY <1>0, <1>12 DEF EngineType, ReceiveAlloc, PoolInit, MainKeeps
<1>13. CASE Stop /\ MainKeeps BY <1>0, <1>13 DEF Stop, ClearRunning, MainKeeps
<1>14. CASE ReceiveOpen /\ MainKeeps
  BY <1>0, <1>14 DEF ReceiveOpen, OpenReceiver, MainKeeps
<1>15. CASE SpawnIo /\ MainKeeps BY <1>0, <1>15 DEF SpawnIo, Lifecycle, MainKeeps
<1>16. CASE SpawnProc /\ MainKeeps BY <1>0, <1>16 DEF SpawnProc, Lifecycle, MainKeeps
<1>17. CASE SpawnReporter /\ MainKeeps BY <1>0, <1>17 DEF SpawnReporter, Lifecycle, MainKeeps
<1>18. CASE StopClose /\ MainKeeps BY <1>0, <1>18 DEF StopClose, CloseReceiver, MainKeeps
<1>19. CASE StopJoinIo /\ MainKeeps BY <1>0, <1>19 DEF StopJoinIo, Lifecycle, MainKeeps
<1>20. CASE StopJoinProc /\ MainKeeps
  BY <1>0, <1>20 DEF StopJoinProc, JoinProc, Lifecycle, MainKeeps
<1>21. CASE StopRelease /\ MainKeeps
  BY <1>0, <1>21 DEF StopRelease, MainKeeps
<1>22. CASE Arrive BY <1>1, <1>22 DEF Arrive
<1>23. CASE UNCHANGED vars BY <1>1, <1>23 DEF vars
<1> HIDE DEF Lifetimes
<1> QED BY EngineSteps, <1>3, <1>4, <1>5, <1>6, <1>7, <1>8, <1>9, <1>10, <1>11, <1>12, <1>13,
           <1>14, <1>15, <1>16, <1>17, <1>18, <1>19, <1>20, <1>21, <1>22, <1>23

\* The frames of the batch that are not counted yet.
Uncounted == IF procPc \in {"gather", "decode"} THEN Len(batch) ELSE 0

LEMMA AccountStep ==
    ASSUME EngineInv, [Next]_vars
    PROVE  FramesAccounted'
<1> USE DEF ring, ioVars, procVars, counts
<1>0. EngineType /\ Holds /\ Lifetimes
  BY DEF EngineInv
<1>n. /\ taken \in Nat /\ counted \in Nat /\ abandoned \in Nat /\ Len(frames) \in Nat
      /\ Len(ready) \in Nat /\ Len(batch) \in Nat /\ Uncounted \in Nat
  BY <1>0 DEF EngineType, Uncounted
<1>a. taken = counted + (Len(frames) + Len(ready) + Uncounted) + abandoned
  BY DEF EngineInv, FramesAccounted, InFlight, Uncounted
<1> SUFFICES taken' = counted' + (Len(frames') + Len(ready') + Uncounted') + abandoned'
  BY DEF FramesAccounted, InFlight, Uncounted
<1>1. CASE UNCHANGED <<taken, counted, frames, ready, abandoned>> /\ Uncounted' = Uncounted
  BY <1>a, <1>1
<1>2. CASE IoWhile /\ IoKeeps
  BY <1>0, <1>1, <1>2 DEF IoWhile, IoKeeps, Holds, Uncounted
<1>3. CASE IoReserveTest /\ IoKeeps BY <1>1, <1>3 DEF IoReserveTest, IoGoto, IoKeeps, Uncounted
<1>4. CASE (IoPopRead \/ IoPopStore) /\ IoKeeps
  BY <1>1, <1>4 DEF IoPopRead, IoPopStore, IoKeeps, Uncounted
<1>5. CASE IoReceive /\ IoKeeps
  <2> DEFINE n == IF Len(sock) < Len(reserved) THEN Len(sock) ELSE Len(reserved)
  <2>1. n \in Nat /\ n <= Len(sock) /\ sock \in Seq(Datagram)
    BY <1>0 DEF EngineType
  <2>2. frames' = SubSeq(sock, 1, n) /\ taken' = taken + n /\ frames = <<>>
    BY <1>0, <1>5 DEF IoReceive, Holds
  <2>3. UNCHANGED <<counted, ready, abandoned>> /\ Uncounted' = Uncounted
    BY <1>5 DEF IoReceive, IoKeeps, Uncounted
  <2> HIDE DEF n
  <2>4. Len(frames') = n /\ Len(frames) = 0
    BY <2>1, <2>2, CutInTwo
  <2> QED BY <1>n, <1>a, <2>1, <2>2, <2>3, <2>4
<1>6. CASE (IoReceiveNothing \/ IoReceiveError) /\ IoKeeps
  BY <1>1, <1>6 DEF IoReceiveNothing, IoReceiveError, IoGoto, IoKeeps, Uncounted
<1>7. CASE IoInner /\ IoKeeps
  <2>1. CASE InnerOn BY <1>1, <1>7, <2>1 DEF IoInner, IoKeeps, Uncounted
  <2>2. CASE ~InnerOn
    <3>1. /\ Len(frames') = 0 /\ abandoned' = abandoned + Len(frames)
          /\ UNCHANGED <<taken, counted, ready>> /\ Uncounted' = Uncounted
      BY <1>7, <2>2 DEF IoInner, IoKeeps, Uncounted
    <3> QED BY <1>n, <1>a, <3>1
  <2> QED BY <2>1, <2>2
<1>8. CASE IoPublish /\ IoKeeps
  <2>1. Len(frames') = Len(frames) - 1
    BY <1>0, <1>8 DEF IoPublish, EngineType
  <2>2. UNCHANGED <<taken, abandoned>> /\ Uncounted' = Uncounted
    BY <1>8 DEF IoPublish, IoKeeps, Uncounted
  <2>3. CASE ready' = Append(ready, Head(reserved)) /\ UNCHANGED counted
    <3>1. Len(ready') = Len(ready) + 1
      BY <1>0, <2>3 DEF EngineType
    <3> QED BY <1>n, <1>a, <2>1, <2>2, <2>3, <3>1
  <2>4. CASE counted' = counted + 1 /\ UNCHANGED ready
    BY <1>n, <1>a, <2>1, <2>2, <2>4
  <2> QED BY <1>8, <2>3, <2>4 DEF IoPublish, CountDrop
<1>9. CASE (IoRelease \/ IoReleased) /\ IoKeeps
  BY <1>1, <1>9 DEF IoRelease, IoReleased, IoKeeps, Uncounted
<1>10. CASE (ProcWhile \/ ProcEmpty) /\ ProcKeeps
  <2>1. Len(batch) = 0
    BY <1>0, <1>10 DEF Holds, ProcWhile, ProcEmpty
  <2> QED BY <1>1, <1>10, <2>1 DEF ProcWhile, ProcEmpty, ProcGoto, ProcKeeps, Uncounted
<1>11. CASE ProcGather /\ ProcKeeps
  <2>0. procPc = "gather" /\ UNCHANGED <<taken, counted, frames, abandoned>>
    BY <1>11 DEF ProcGather, ProcGoto, ProcKeeps
  <2>1. CASE /\ ready # <<>> /\ batch' = Append(batch, Head(ready)) /\ ready' = Tail(ready)
             /\ procPc' = procPc
    <3>1. Len(ready') = Len(ready) - 1 /\ Len(batch') = Len(batch) + 1
      BY <1>0, <2>1 DEF EngineType
    <3>2. Uncounted = Len(batch) /\ Uncounted' = Len(batch')
      BY <2>0, <2>1 DEF Uncounted
    <3> QED BY <1>n, <1>a, <2>0, <3>1, <3>2
  <2>2. CASE ProcGoto(IF batch = <<>> THEN "while" ELSE "decode")
    <3>1. batch = <<>> => Len(batch) = 0
      OBVIOUS
    <3>2. Uncounted' = Uncounted
      BY <2>0, <2>2, <3>1 DEF ProcGoto, Uncounted
    <3> QED BY <1>1, <2>0, <2>2, <3>2 DEF ProcGoto
  <2> QED BY <1>11, <2>1, <2>2 DEF ProcGather
<1>12. CASE ProcDecode /\ ProcKeeps
  <2>1. /\ counted' = counted + Len(batch) /\ Uncounted = Len(batch) /\ Uncounted' = 0
        /\ UNCHANGED <<taken, frames, ready, abandoned>>
    BY <1>12 DEF ProcDecode, ProcKeeps, Uncounted
  <2> QED BY <1>n, <1>a, <2>1
<1>13. CASE ProcFree /\ ProcKeeps
  BY <1>1, <1>13 DEF ProcFree, ProcGoto, ProcKeeps, Uncounted
<1>14. CASE Push("io") \/ Push("proc") BY <1>1, <1>14 DEF Push, Uncounted
<1>15. CASE ReceiveAlloc /\ MainKeeps
  BY <1>0, <1>1, <1>15 DEF ReceiveAlloc, PoolInit, MainKeeps, Lifetimes, Uncounted
<1>16. CASE (Stop \/ ReceiveOpen) /\ MainKeeps
  BY <1>1, <1>16 DEF Stop, ReceiveOpen, MainKeeps, Uncounted
<1>17. CASE (SpawnIo \/ SpawnReporter \/ StopJoinIo) /\ MainKeeps
  BY <1>1, <1>17 DEF SpawnIo, SpawnReporter, StopJoinIo, Lifecycle, MainKeeps, Uncounted
<1>18. CASE (SpawnProc \/ StopJoinProc) /\ MainKeeps
  BY <1>0, <1>1, <1>18 DEF SpawnProc, StopJoinProc, JoinProc, Lifecycle, MainKeeps, Lifetimes,
                           Uncounted
<1>19. CASE StopClose /\ MainKeeps BY <1>1, <1>19 DEF StopClose, MainKeeps, Uncounted
<1>20. CASE StopRelease /\ MainKeeps
  <2>1. /\ Len(ready') = 0 /\ abandoned' = abandoned + Len(ready)
        /\ UNCHANGED <<taken, counted, frames>> /\ Uncounted' = Uncounted
    BY <1>20 DEF StopRelease, MainKeeps, Uncounted
  <2> QED BY <1>n, <1>a, <2>1
<1>21. CASE Arrive BY <1>1, <1>21 DEF Arrive, Uncounted
<1>22. CASE UNCHANGED vars BY <1>1, <1>22 DEF vars, Uncounted
<1> QED BY EngineSteps, <1>2, <1>3, <1>4, <1>5, <1>6, <1>7, <1>8, <1>9, <1>10, <1>11, <1>12, <1>13,
           <1>14, <1>15, <1>16, <1>17, <1>18, <1>19, <1>20, <1>21, <1>22

-----------------------------------------------------------------------------
LEMMA InvInit == Init => EngineInv
<1> SUFFICES ASSUME Init PROVE EngineInv
  OBVIOUS
<1>1. NoPush \in PushType /\ NoPush.pc = "none"
  BY SlotFacts DEF NoPush, PushType
<1>2. EngineType
  BY <1>1, SlotFacts DEF Init, EngineType
<1>3. Holds
  BY <1>1 DEF Init, Holds, NotPushing, Threads
<1>4. Lifetimes
  BY DEF Init, Lifetimes
<1>5. FramesAccounted
  BY DEF Init, FramesAccounted, InFlight
<1> QED BY <1>2, <1>3, <1>4, <1>5 DEF EngineInv

\* What each thread holds, and which threads there are at each step of
\* receive() and stop(), is as EngineInv says, for every capacity, batch size
\* and number of datagrams and runs.
THEOREM EngineInvariant == Spec => []EngineInv
<1>1. EngineInv /\ [Next]_vars => EngineInv'
  BY TypeStep, LifetimesStep, AccountStep DEF EngineInv
<1> QED BY <1>1, InvInit, PTL DEF Spec

\* stop() and a receive() that fails release the pool only after the threads
\* that use it.
THEOREM PoolIsNotUsedAfterRelease == Spec => []PoolOutlivesThreads
<1>1. EngineInv => PoolOutlivesThreads
  BY DEF EngineInv, Lifetimes, Holds, PoolOutlivesThreads, Threads
<1> QED BY <1>1, EngineInvariant, PTL

\* publish_batch and process count every datagram once, and lose none but at a
\* shutdown.
THEOREM FramesAreAccounted == Spec => []FramesAccounted
<1>1. EngineInv => FramesAccounted
  BY DEF EngineInv
<1> QED BY <1>1, EngineInvariant, PTL

\* While running_ is set, no frame is left behind.
THEOREM NothingLeftWhileRunning == Spec => AbandonedOnlyAtStop
<1>1. EngineInv /\ [Next]_vars => [abandoned' # abandoned => ~running]_vars
  <2> SUFFICES ASSUME EngineInv, [Next]_vars, abandoned' # abandoned PROVE ~running
    OBVIOUS
  <2>1. CASE IoInner BY <2>1 DEF IoInner, InnerOn
  <2>2. CASE StopRelease BY <2>2 DEF StopRelease, EngineInv, Lifetimes
  <2> QED BY EngineSteps, <2>1, <2>2
       DEF IoWhile, IoReserveTest, IoGoto, IoPopRead, IoPopStore, IoReceive, IoReceiveNothing,
           IoReceiveError, IoPublish, IoRelease, IoReleased, ProcKeeps, Push, ReceiveAlloc, Stop,
           ReceiveOpen, SpawnIo, SpawnProc, SpawnReporter, StopClose, StopJoinIo, StopJoinProc,
           Lifecycle, Arrive, vars, counts
<1> QED BY <1>1, EngineInvariant, PTL DEF Spec, AbandonedOnlyAtStop

-----------------------------------------------------------------------------
(* BlockedBoundedQueue.  The two no-lost-wake-up invariants are one        *)
(* statement about waiters W and the threads N that notify them, with n    *)
(* the elements (or the free places) W waits for: Awake(W, N, pc, n).  The *)
(* lemmas say which moves of a thread keep it; each action is then such a  *)
(* move on either side.                                                    *)

Count(S, f, label) == Cardinality({t \in S : f[t] = label})

Awake(W, N, f, n) ==
    (\E w \in W : f[w] = "waiting") => n <= Count(N, f, "notify") + Count(W, f, "lock")

Labels == {"idle", "lock", "waiting", "notify", "notifyFull", "notifyEmpty"}

Place == 0..(kCapacity - 1)

QueueType ==
    /\ buffer \in [Place -> Values] /\ head_ \in Place /\ tail_ \in Place
    /\ size_ \in 0..kCapacity
    /\ pc \in [Callers -> Labels]
    /\ data \in [Producers -> Values]

\* A thread outside S, or one whose move starts and ends off the label, leaves
\* the number of threads of S at the label; else it grows or shrinks by one.
Recount(S, f, g, t, label) ==
    /\ Count(S, f, label) \in Nat /\ Count(S, g, label) \in Nat
    /\ t \in S /\ f[t] # label /\ g[t] = label =>
         Count(S, g, label) = Count(S, f, label) + 1
    /\ t \in S /\ f[t] = label /\ g[t] # label =>
         Count(S, g, label) = Count(S, f, label) - 1
    /\ t \notin S \/ (f[t] = label <=> g[t] = label) =>
         Count(S, g, label) = Count(S, f, label)

LEMMA CountMove ==
    ASSUME NEW S, IsFiniteSet(S), NEW f, NEW g, NEW t, NEW label,
           \A u \in S : u # t => g[u] = f[u]
    PROVE  Recount(S, f, g, t, label)
<1> DEFINE F == {u \in S : f[u] = label}
           G == {u \in S : g[u] = label}
<1>1. IsFiniteSet(F) /\ IsFiniteSet(G)
  BY FS_Subset
<1>2. Cardinality(F) \in Nat /\ Cardinality(G) \in Nat
  BY <1>1, FS_CardinalityType
<1>3. ASSUME t \in S, f[t] # label, g[t] = label
      PROVE  Cardinality(G) = Cardinality(F) + 1
  <2>1. G = F \cup {t} /\ t \notin F
    BY <1>3
  <2> QED BY <1>1, <2>1, FS_AddElement
<1>4. ASSUME t \in S, f[t] = label, g[t] # label
      PROVE  Cardinality(G) = Cardinality(F) - 1
  <2>1. G = F \ {t} /\ t \in F
    BY <1>4
  <2> QED BY <1>1, <2>1, FS_RemoveElement, Zenon
<1>5. ASSUME t \notin S \/ (f[t] = label <=> g[t] = label)
      PROVE  G = F
  BY <1>5
<1> QED BY <1>2, <1>3, <1>4, <1>5, Zenon DEF Count, Recount

\* Nobody is forgotten when there is nothing to wait for.
LEMMA AwakeNone ==
    ASSUME NEW W, NEW N, IsFiniteSet(W), IsFiniteSet(N), NEW f, NEW n \in Int, n <= 0
    PROVE  Awake(W, N, f, n)
<1>1. Recount(N, f, f, f, "notify") /\ Recount(W, f, f, f, "lock")
  BY CountMove, Zenon
<1>2. Count(N, f, "notify") \in Nat /\ Count(W, f, "lock") \in Nat
  BY <1>1, Zenon DEF Recount
<1> QED BY <1>2 DEF Awake

\* What a move of one thread does to Awake: about to look, taking one,
\* returning, for a waiter; adding one, any other step, for a notifier.
LEMMA AwakeMove ==
    ASSUME NEW W, NEW N, IsFiniteSet(W), IsFiniteSet(N), W \cap N = {},
           NEW f, NEW g, NEW t, \A u \in W \cup N : u # t => g[u] = f[u],
           NEW n \in Int, Awake(W, N, f, n)
    PROVE  /\ t \in W /\ g[t] = "lock" => Awake(W, N, g, n)
           /\ t \in W /\ g[t] = "notify" => Awake(W, N, g, n - 1)
           /\ t \in W /\ f[t] = "notify" /\ g[t] = "idle" => Awake(W, N, g, n)
           /\ t \in N /\ f[t] # "notify" /\ g[t] = "notify" => Awake(W, N, g, n + 1)
           /\ t \in N /\ f[t] # "notify" /\ g[t] # "notify" => Awake(W, N, g, n)
           /\ t \notin W \cup N => Awake(W, N, g, n)
<1> DEFINE a == Count(N, f, "notify")
           b == Count(W, f, "lock")
           c == Count(N, g, "notify")
           d == Count(W, g, "lock")
<1>1. /\ a \in Nat /\ c \in Nat
      /\ t \in N /\ f[t] # "notify" /\ g[t] = "notify" => c = a + 1
      /\ t \notin N \/ (f[t] = "notify" <=> g[t] = "notify") => c = a
  <2>1. \A u \in N : u # t => g[u] = f[u]
    OBVIOUS
  <2>2. Recount(N, f, g, t, "notify")
    BY <2>1, CountMove, Zenon
  <2> QED BY <2>2, Zenon DEF Recount
<1>2. /\ b \in Nat /\ d \in Nat
      /\ t \in W /\ f[t] # "lock" /\ g[t] = "lock" => d = b + 1
      /\ t \in W /\ f[t] = "lock" /\ g[t] # "lock" => d = b - 1
      /\ t \notin W \/ (f[t] = "lock" <=> g[t] = "lock") => d = b
  <2>1. \A u \in W : u # t => g[u] = f[u]
    OBVIOUS
  <2>2. Recount(W, f, g, t, "lock")
    BY <2>1, CountMove, Zenon
  <2> QED BY <2>2, Zenon DEF Recount
<1>3. (\E w \in W : f[w] = "waiting") => n <= a + b
  BY DEF Awake
<1>4. g[t] # "waiting" \/ t \notin W =>
          ((\E w \in W : g[w] = "waiting") => \E w \in W : f[w] = "waiting")
  OBVIOUS
<1>5. \A m : Awake(W, N, g, m) <=> ((\E w \in W : g[w] = "waiting") => m <= c + d)
  BY DEF Awake
<1> HIDE DEF a, b, c, d
<1> QED BY <1>1, <1>2, <1>3, <1>4, <1>5

\* notify_one by a thread t of N: a waiter is about to look instead, or
\* nobody waited.
LEMMA AwakeNotify ==
    ASSUME NEW W, NEW N, IsFiniteSet(W), IsFiniteSet(N), W \cap N = {},
           NEW f, NEW g, NEW t \in N, f[t] = "notify", g[t] # "notify",
           NEW n \in Int, Awake(W, N, f, n),
           \/ /\ \A u \in W : f[u] # "waiting"
              /\ \A u \in W \cup N : u # t => g[u] = f[u]
           \/ \E w \in W : /\ f[w] = "waiting" /\ g[w] = "lock"
                           /\ \A u \in W \cup N : u \notin {t, w} => g[u] = f[u]
    PROVE  Awake(W, N, g, n)
<1>1. CASE \A u \in W : f[u] # "waiting" /\ g[u] = f[u]
  BY <1>1 DEF Awake
<1>2. ASSUME NEW w \in W, f[w] = "waiting", g[w] = "lock",
             \A u \in W \cup N : u \notin {t, w} => g[u] = f[u]
      PROVE  Awake(W, N, g, n)
  <2>1. /\ Count(N, f, "notify") \in Nat
        /\ Count(N, g, "notify") = Count(N, f, "notify") - 1
    <3>1. \A u \in N : u # t => g[u] = f[u]
      BY <1>2
    <3>2. Recount(N, f, g, t, "notify")
      BY <3>1, CountMove, Zenon
    <3> QED BY <3>2, Zenon DEF Recount
  <2>2. /\ Count(W, f, "lock") \in Nat
        /\ Count(W, g, "lock") = Count(W, f, "lock") + 1
    <3>1. \A u \in W : u # w => g[u] = f[u]
      BY <1>2
    <3>2. Recount(W, f, g, w, "lock")
      BY <3>1, CountMove, Zenon
    <3>3. f[w] # "lock" /\ g[w] = "lock"
      BY <1>2
    <3> QED BY <3>2, <3>3, Zenon DEF Recount
  <2>3. n <= Count(N, f, "notify") + Count(W, f, "lock")
    BY <1>2 DEF Awake
  <2>4. n <= Count(N, g, "notify") + Count(W, g, "lock")
    <3>1. \A x, y \in Nat, z \in Int : z <= x + y => z <= (x - 1) + (y + 1)
      OBVIOUS
    <3> QED BY <2>1, <2>2, <2>3, <3>1, Zenon
  <2> QED BY <2>4, Zenon DEF Awake
<1> QED BY <1>1, <1>2

\* A waiter of N that is woken changes nothing for W.
LEMMA AwakeOther ==
    ASSUME NEW W, NEW N, NEW f, NEW g, NEW n, Awake(W, N, f, n),
           \A u \in W : g[u] = f[u],
           \A u \in N : g[u] = f[u] \/ (f[u] = "waiting" /\ g[u] = "lock")
    PROVE  Awake(W, N, g, n)
<1>1. {u \in N : g[u] = "notify"} = {u \in N : f[u] = "notify"}
  OBVIOUS
<1>2. {u \in W : g[u] = "lock"} = {u \in W : f[u] = "lock"}
  OBVIOUS
<1> QED BY <1>1, <1>2 DEF Awake, Count

-----------------------------------------------------------------------------
\* The state keeps its types.
LEMMA QueueTypeStep == QueueType /\ [QueueNext]_queueVars => QueueType'
<1> SUFFICES ASSUME QueueType, [QueueNext]_queueVars PROVE QueueType'
  OBVIOUS
<1> USE QueueAssumption DEF QueueType, Callers, Place, Labels
<1>1. ASSUME NEW p \in Producers, NEW v \in Values, EnqueueCall(p, v) PROVE QueueType'
  BY <1>1 DEF EnqueueCall, Goto, queue
<1>2. ASSUME NEW p \in Producers, Enqueue(p) PROVE QueueType'
  <2>1. pc' \in [Callers -> Labels]
    BY <1>2 DEF Enqueue, Goto
  <2>2. (tail_ + 1) % kCapacity \in Place
    BY ModRange
  <2> QED BY <1>2, <2>1, <2>2 DEF Enqueue, Put, queue
<1>3. ASSUME NEW c \in Consumers, Dequeue(c) PROVE QueueType'
  <2>1. pc' \in [Callers -> Labels]
    BY <1>3 DEF Dequeue, Goto
  <2>2. (head_ + 1) % kCapacity \in Place
    BY ModRange
  <2> QED BY <1>3, <2>1, <2>2 DEF Dequeue, queue
<1>4. ASSUME Moves, pc' \in [Callers -> Labels] PROVE QueueType'
  BY <1>4 DEF Moves, queue
<1>5. ASSUME NEW p \in Producers, EnqueueNotify(p) PROVE QueueType'
  <2>1. pc' \in [Callers -> Labels]
    BY <1>5 DEF EnqueueNotify, NotifyOne, Waiting, Goto
  <2> QED BY <1>4, <1>5, <2>1 DEF EnqueueNotify
<1>6. ASSUME NEW c \in Consumers, DequeueNotify(c) PROVE QueueType'
  <2>1. pc' \in [Callers -> Labels]
    BY <1>6 DEF DequeueNotify, NotifyOne, Waiting, Goto
  <2> QED BY <1>4, <1>6, <2>1 DEF DequeueNotify
<1>7. ASSUME NEW t \in Producers \cup Consumers, SpuriousWake(t) \/ DequeueCall(t)
      PROVE  QueueType'
  <2>1. pc' \in [Callers -> Labels]
    BY <1>7 DEF SpuriousWake, DequeueCall, Goto
  <2> QED BY <1>4, <1>7, <2>1 DEF SpuriousWake, DequeueCall
<1>8. CASE Closing
  <2>1. pc' \in [Callers -> Labels]
    BY <1>8 DEF Closing, CloseNotifyFull, CloseNotifyEmpty, NotifyAll, Waiting
  <2> QED BY <1>4, <1>8, <2>1 DEF Closing, CloseNotifyFull, CloseNotifyEmpty
<1>9. CASE Clear
  BY <1>9 DEF Clear
<1>10. CASE Close
  BY <1>10 DEF Close, Goto, queue
<1>11. CASE UNCHANGED queueVars
  BY <1>11 DEF queueVars, queue
<1> HIDE DEF QueueType, Callers, Place, Labels
<1> QED BY <1>1, <1>2, <1>3, <1>5, <1>6, <1>7, <1>8, <1>9, <1>10, <1>11
        DEF QueueNext, Producer, Consumer

ConsumersAwake == Awake(Consumers, Producers, pc, size_)
ProducersAwake ==
    cleared \/ closed_ \/ Awake(Producers, Consumers, pc, kCapacity - size_)

\* The two properties are Awake, seen from either side.
LEMMA AwakeSides ==
    /\ NoConsumerForgotten <=> ConsumersAwake
    /\ NoProducerForgotten <=> ProducersAwake
  BY DEF NoConsumerForgotten, NoProducerForgotten, ConsumersAwake,
         ProducersAwake, Awake, Count, At, Waiting

\* A thread that moves alone leaves the others where they are.
LEMMA GotoMoves ==
    ASSUME QueueType, NEW t \in Callers, NEW l, pc' = [pc EXCEPT ![t] = l]
    PROVE  /\ pc'[t] = l
           /\ \A u \in Producers \cup Consumers : u # t => pc'[u] = pc[u]
           /\ \A u \in Consumers \cup Producers : u # t => pc'[u] = pc[u]
  BY DEF QueueType, Callers

\* No step of any thread forgets a waiting consumer, nor a waiting producer.
LEMMA AwakeStep ==
    QueueType /\ ConsumersAwake /\ ProducersAwake /\ [QueueNext]_queueVars
        => ConsumersAwake' /\ ProducersAwake'
<1> SUFFICES ASSUME QueueType, ConsumersAwake, ProducersAwake, [QueueNext]_queueVars
             PROVE  ConsumersAwake' /\ ProducersAwake'
  OBVIOUS
<1> DEFINE Free == kCapacity - size_
<1>0. /\ size_ \in Int /\ size_ >= 0 /\ Free \in Int /\ Free >= 0
      /\ IsFiniteSet(Producers) /\ IsFiniteSet(Consumers)
      /\ Producers \cap Consumers = {} /\ Consumers \cap Producers = {}
      /\ Closer \notin Producers \cup Consumers
      /\ Closer \notin Consumers \cup Producers
      /\ Producers \subseteq Callers /\ Consumers \subseteq Callers
      /\ Closer \in Callers
  BY QueueAssumption DEF QueueType, Callers
<1>d. /\ \A u \in Producers : u \notin Consumers /\ u \in Callers \ {Closer}
      /\ \A u \in Consumers : u \notin Producers /\ u \in Callers \ {Closer}
  BY QueueAssumption DEF Callers
<1>g. /\ Awake(Consumers, Producers, pc, size_)
      /\ cleared \/ closed_ \/ Awake(Producers, Consumers, pc, Free)
  BY DEF ConsumersAwake, ProducersAwake
<1>h. ASSUME Awake(Consumers, Producers, pc', size_'),
             cleared' \/ closed_' \/ Awake(Producers, Consumers, pc', kCapacity - size_')
      PROVE  ConsumersAwake' /\ ProducersAwake'
  BY <1>h DEF ConsumersAwake, ProducersAwake
<1> USE DEF queue
<1>1. ASSUME NEW p \in Producers, NEW v \in Values, EnqueueCall(p, v)
      PROVE  ConsumersAwake' /\ ProducersAwake'
  <2>1. /\ pc'[p] = "lock" /\ pc[p] # "notify"
        /\ \A u \in Producers \cup Consumers : u # p => pc'[u] = pc[u]
        /\ \A u \in Consumers \cup Producers : u # p => pc'[u] = pc[u]
    BY <1>0, <1>1, GotoMoves, Zenon DEF EnqueueCall, Goto
  <2>2. Awake(Consumers, Producers, pc', size_)
    BY <1>0, <1>g, <2>1, AwakeMove, Zenon
  <2>3. cleared \/ closed_ \/ Awake(Producers, Consumers, pc', Free)
    BY <1>0, <1>g, <2>1, AwakeMove, Zenon
  <2> QED BY <1>1, <1>h, <2>2, <2>3 DEF EnqueueCall
<1>2. ASSUME NEW p \in Producers, Enqueue(p) PROVE ConsumersAwake' /\ ProducersAwake'
  <2>1. CASE closed_ \/ size_ >= kCapacity
    <3>0. PICK l \in {"idle", "waiting"} : pc' = [pc EXCEPT ![p] = l]
      BY <1>0, <1>2, <2>1, QueueAssumption DEF Enqueue, Goto
    <3>1. /\ pc'[p] # "notify" /\ pc[p] # "notify"
          /\ \A u \in Consumers \cup Producers : u # p => pc'[u] = pc[u]
      BY <1>0, <1>2, <3>0, GotoMoves DEF Enqueue
    <3>2. Awake(Consumers, Producers, pc', size_)
      BY <1>0, <1>g, <3>1, AwakeMove, Zenon
    <3>3. closed_ \/ Awake(Producers, Consumers, pc', Free)
      <4>1. closed_ \/ Free <= 0
        BY <1>0, <2>1, QueueAssumption
      <4> HIDE DEF Free
      <4> QED BY <1>0, <4>1, AwakeNone
    <3>4. size_' = size_ /\ closed_' = closed_
      <4>1. closed_ \/ ~(size_ < kCapacity)
        BY <1>0, <2>1, QueueAssumption
      <4> QED BY <1>2, <4>1, Zenon DEF Enqueue
    <3> QED BY <1>h, <3>2, <3>3, <3>4
  <2>2. CASE ~closed_ /\ size_ < kCapacity
    <3>1. /\ pc'[p] = "notify" /\ pc[p] # "notify"
          /\ \A u \in Producers \cup Consumers : u # p => pc'[u] = pc[u]
          /\ \A u \in Consumers \cup Producers : u # p => pc'[u] = pc[u]
      BY <1>0, <1>2, <2>2, GotoMoves DEF Enqueue, Goto
    <3>2. Awake(Consumers, Producers, pc', size_ + 1)
      BY <1>0, <1>g, <3>1, AwakeMove
    <3>3. cleared \/ closed_ \/ Awake(Producers, Consumers, pc', Free - 1)
      BY <1>0, <1>g, <3>1, AwakeMove, Zenon
    <3>4. /\ size_' = size_ + 1 /\ closed_' = closed_ /\ cleared' = cleared
          /\ kCapacity - size_' = Free - 1
      <4>1. size_' = size_ + 1 /\ closed_' = closed_ /\ cleared' = cleared
        BY <1>2, <2>2, Zenon DEF Enqueue, Put
      <4>2. kCapacity \in Int /\ kCapacity - size_ = Free
        BY QueueAssumption
      <4> QED BY <1>0, <4>1, <4>2
    <3> QED BY <1>h, <3>2, <3>3, <3>4
  <2> QED BY <1>0, <2>1, <2>2, QueueAssumption
<1>3. ASSUME NEW p \in Producers, EnqueueNotify(p) PROVE ConsumersAwake' /\ ProducersAwake'
  <2>1. /\ pc[p] = "notify" /\ pc'[p] = "idle"
        /\ \/ /\ \A u \in Consumers : pc[u] # "waiting"
              /\ \A u \in Consumers \cup Producers : u # p => pc'[u] = pc[u]
           \/ \E w \in Consumers :
                 /\ pc[w] = "waiting" /\ pc'[w] = "lock"
                 /\ \A u \in Consumers \cup Producers : u \notin {p, w} => pc'[u] = pc[u]
    BY <1>3, QueueAssumption
       DEF EnqueueNotify, NotifyOne, Waiting, Goto, QueueType, Callers
  <2>2. Awake(Consumers, Producers, pc', size_)
    BY <1>0, <1>g, <2>1, AwakeNotify, Zenon
  <2> DEFINE f == [pc EXCEPT ![p] = "idle"]
  <2>3. /\ f[p] = "idle"
        /\ \A u \in Producers \cup Consumers : u # p => f[u] = pc[u]
    BY DEF QueueType, Callers
  <2> HIDE DEF f
  <2>6. /\ \A u \in Producers : pc'[u] = f[u]
        /\ \A u \in Consumers : pc'[u] = f[u] \/ (f[u] = "waiting" /\ pc'[u] = "lock")
    BY <1>d, <2>1, <2>3
  <2>4. cleared \/ closed_ \/ Awake(Producers, Consumers, f, Free)
    BY <1>0, <1>g, <2>1, <2>3, AwakeMove
  <2>5. cleared \/ closed_ \/ Awake(Producers, Consumers, pc', Free)
    BY <2>4, <2>6, AwakeOther
  <2> QED BY <1>3, <1>h, <2>2, <2>5 DEF EnqueueNotify, Moves
<1>4. ASSUME NEW c \in Consumers, Dequeue(c) PROVE ConsumersAwake' /\ ProducersAwake'
  <2>1. CASE size_ = 0
    <3>1. /\ pc'[c] # "notify" /\ pc[c] # "notify"
          /\ \A u \in Producers \cup Consumers : u # c => pc'[u] = pc[u]
      BY <1>0, <1>4, <2>1, GotoMoves DEF Dequeue, Goto
    <3>2. Awake(Consumers, Producers, pc', size_)
      BY <1>0, <2>1, AwakeNone
    <3>3. cleared \/ closed_ \/ Awake(Producers, Consumers, pc', Free)
      BY <1>0, <1>g, <3>1, AwakeMove, Zenon
    <3> QED BY <1>4, <1>h, <2>1, <3>2, <3>3 DEF Dequeue
  <2>2. CASE size_ > 0
    <3>1. /\ pc'[c] = "notify" /\ pc[c] # "notify"
          /\ \A u \in Producers \cup Consumers : u # c => pc'[u] = pc[u]
          /\ \A u \in Consumers \cup Producers : u # c => pc'[u] = pc[u]
      BY <1>0, <1>4, <2>2, GotoMoves, SMTT(20) DEF Dequeue, Goto
    <3>2. Awake(Consumers, Producers, pc', size_ - 1)
      BY <1>0, <1>g, <3>1, AwakeMove, Zenon
    <3>3. cleared \/ closed_ \/ Awake(Producers, Consumers, pc', Free + 1)
      BY <1>0, <1>g, <3>1, AwakeMove, Zenon
    <3>4. /\ size_' = size_ - 1 /\ closed_' = closed_ /\ cleared' = cleared
          /\ kCapacity - size_' = Free + 1
      BY <1>0, <1>4, <2>2, QueueAssumption DEF Dequeue
    <3> QED BY <1>h, <3>2, <3>3, <3>4
  <2> QED BY <1>0, <2>1, <2>2
<1>5. ASSUME NEW c \in Consumers, DequeueNotify(c) PROVE ConsumersAwake' /\ ProducersAwake'
  <2>1. /\ pc[c] = "notify" /\ pc'[c] = "idle"
        /\ \/ /\ \A u \in Producers : pc[u] # "waiting"
              /\ \A u \in Producers \cup Consumers : u # c => pc'[u] = pc[u]
           \/ \E w \in Producers :
                 /\ pc[w] = "waiting" /\ pc'[w] = "lock"
                 /\ \A u \in Producers \cup Consumers : u \notin {c, w} => pc'[u] = pc[u]
    BY <1>5, QueueAssumption
       DEF DequeueNotify, NotifyOne, Waiting, Goto, QueueType, Callers
  <2>2. cleared \/ closed_ \/ Awake(Producers, Consumers, pc', Free)
    BY <1>0, <1>g, <2>1, AwakeNotify, Zenon
  <2> DEFINE f == [pc EXCEPT ![c] = "idle"]
  <2>3. /\ f[c] = "idle"
        /\ \A u \in Consumers \cup Producers : u # c => f[u] = pc[u]
    BY DEF QueueType, Callers
  <2> HIDE DEF f
  <2>6. /\ \A u \in Consumers : pc'[u] = f[u]
        /\ \A u \in Producers : pc'[u] = f[u] \/ (f[u] = "waiting" /\ pc'[u] = "lock")
    BY <1>d, <2>1, <2>3
  <2>4. Awake(Consumers, Producers, f, size_)
    BY <1>0, <1>g, <2>1, <2>3, AwakeMove
  <2>5. Awake(Consumers, Producers, pc', size_)
    BY <2>4, <2>6, AwakeOther
  <2> QED BY <1>5, <1>h, <2>2, <2>5 DEF DequeueNotify, Moves
<1>6. ASSUME NEW t \in Producers \cup Consumers, SpuriousWake(t) \/ DequeueCall(t)
      PROVE  ConsumersAwake' /\ ProducersAwake'
  <2>1. /\ pc'[t] = "lock" /\ pc[t] # "notify"
        /\ \A u \in Producers \cup Consumers : u # t => pc'[u] = pc[u]
        /\ \A u \in Consumers \cup Producers : u # t => pc'[u] = pc[u]
    BY <1>0, <1>6, GotoMoves DEF SpuriousWake, DequeueCall, Goto
  <2>2. Awake(Consumers, Producers, pc', size_)
    BY <1>0, <1>g, <2>1, AwakeMove, Zenon
  <2>3. cleared \/ closed_ \/ Awake(Producers, Consumers, pc', Free)
    BY <1>0, <1>g, <2>1, AwakeMove, Zenon
  <2> QED BY <1>6, <1>h, <2>2, <2>3 DEF SpuriousWake, DequeueCall, Moves
<1>7. CASE Clear
  <2>1. Awake(Consumers, Producers, pc, 0)
    BY <1>0, AwakeNone
  <2> QED BY <1>7, <1>h, <2>1 DEF Clear
<1>8. CASE Close
  <2>1. \A u \in Consumers \cup Producers : u # Closer => pc'[u] = pc[u]
    BY <1>0, <1>8, GotoMoves DEF Close, Goto
  <2>2. Awake(Consumers, Producers, pc', size_)
    BY <1>0, <1>g, <2>1, AwakeMove, Zenon
  <2> QED BY <1>8, <1>h, <2>2 DEF Close
<1>9. CASE CloseNotifyFull
  <2>1. /\ \A u \in Consumers : pc'[u] = pc[u]
        /\ \A u \in Producers : pc'[u] = pc[u] \/ (pc[u] = "waiting" /\ pc'[u] = "lock")
        /\ \A u \in Producers : pc'[u] # "waiting"
    <3>1. \A u \in Callers \ {Closer} :
              pc'[u] = IF u \in Producers /\ pc[u] = "waiting" THEN "lock" ELSE pc[u]
      BY <1>9 DEF CloseNotifyFull, NotifyAll, Waiting
    <3> QED BY <1>d, <3>1
  <2>2. Awake(Consumers, Producers, pc', size_)
    BY <1>g, <2>1, AwakeOther
  <2>3. Awake(Producers, Consumers, pc', Free)
    BY <2>1 DEF Awake
  <2> QED BY <1>9, <1>h, <2>2, <2>3 DEF CloseNotifyFull, Moves
<1>10. CASE CloseNotifyEmpty
  <2>1. /\ \A u \in Producers : pc'[u] = pc[u]
        /\ \A u \in Consumers : pc'[u] = pc[u] \/ (pc[u] = "waiting" /\ pc'[u] = "lock")
        /\ \A u \in Consumers : pc'[u] # "waiting"
    <3>1. \A u \in Callers \ {Closer} :
              pc'[u] = IF u \in Consumers /\ pc[u] = "waiting" THEN "lock" ELSE pc[u]
      BY <1>10 DEF CloseNotifyEmpty, NotifyAll, Waiting
    <3> QED BY <1>d, <3>1
  <2>2. cleared \/ closed_ \/ Awake(Producers, Consumers, pc', Free)
    BY <1>g, <2>1, AwakeOther
  <2>3. Awake(Consumers, Producers, pc', size_)
    BY <2>1 DEF Awake
  <2> QED BY <1>10, <1>h, <2>2, <2>3 DEF CloseNotifyEmpty, Moves
<1>11. CASE UNCHANGED queueVars
  BY <1>11, <1>g, <1>h DEF queueVars
<1> QED BY <1>1, <1>2, <1>3, <1>4, <1>5, <1>6, <1>7, <1>8, <1>9, <1>10, <1>11
        DEF QueueNext, Producer, Consumer, Closing

-----------------------------------------------------------------------------
\* The n places from h on.
Window(b, h, n) == [k \in 1..n |-> b[(h + k - 1) % kCapacity]]

LEMMA WindowSeq ==
    ASSUME NEW b \in [Place -> Values], NEW h \in Place, NEW n \in Nat
    PROVE  /\ Window(b, h, n) \in Seq(Values) /\ Len(Window(b, h, n)) = n
           /\ \A k \in 1..n : Window(b, h, n)[k] = b[(h + k - 1) % kCapacity]
<1> DEFINE e(k) == b[(h + k - 1) % kCapacity]
<1>1. ASSUME NEW k \in 1..n PROVE e(k) \in Values
  <2>1. (h + k - 1) % kCapacity \in Place
    BY QueueAssumption, ModRange DEF Place
  <2> QED BY <2>1
<1>2. Window(b, h, n) = [k \in 1..n |-> e(k)]
  BY DEF Window
<1> HIDE DEF e
<1>3. [k \in 1..n |-> e(k)] \in Seq(Values) /\ Len([k \in 1..n |-> e(k)]) = n
  BY <1>1
<1>4. \A k \in 1..n : Window(b, h, n)[k] = e(k)
  BY <1>2
<1> QED BY <1>2, <1>3, <1>4 DEF e

\* Writing the place after the window appends to it.
LEMMA WindowPut ==
    ASSUME NEW b \in [Place -> Values], NEW h \in Place, NEW n \in Nat,
           n < kCapacity, NEW v \in Values
    PROVE  Window([b EXCEPT ![(h + n) % kCapacity] = v], h, n + 1)
             = Append(Window(b, h, n), v)
<1> DEFINE t == (h + n) % kCapacity
           c == [b EXCEPT ![t] = v]
           s == Window(b, h, n)
           u == Window(c, h, n + 1)
<1>1. h \in Int /\ t \in Place /\ n + 1 \in Nat
  BY QueueAssumption, ModRange DEF Place
<1>2. /\ s \in Seq(Values) /\ Len(s) = n
      /\ \A k \in 1..n : s[k] = b[(h + k - 1) % kCapacity]
  BY WindowSeq, SMTT(20)
<1>3. c \in [Place -> Values] /\ c[t] = v
  BY <1>1
<1>4. /\ u \in Seq(Values) /\ Len(u) = n + 1
      /\ \A k \in 1..(n + 1) : u[k] = c[(h + k - 1) % kCapacity]
  <2> HIDE DEF c
  <2> QED BY <1>1, <1>3, WindowSeq, Zenon
<1>5. ASSUME NEW k \in 1..n PROVE c[(h + k - 1) % kCapacity] = b[(h + k - 1) % kCapacity]
  <2>1. /\ h + k - 1 \in Int /\ h + n \in Int
        /\ h + k - 1 < h + n /\ h + n < (h + k - 1) + kCapacity
    BY <1>1, QueueAssumption
  <2>2. (h + k - 1) % kCapacity # t
    BY <2>1, QueueAssumption, ModInjective
  <2>3. (h + k - 1) % kCapacity \in Place
    BY <2>1, QueueAssumption, ModRange, SMTT(20) DEF Place
  <2> QED BY <2>2, <2>3
<1>6. u[n + 1] = v
  <2>1. h + (n + 1) - 1 = h + n /\ n + 1 \in 1..(n + 1)
    BY <1>1
  <2>2. u[n + 1] = c[(h + (n + 1) - 1) % kCapacity]
    BY <1>4, <2>1, Zenon
  <2> QED BY <1>3, <2>1, <2>2
<1> DEFINE a == Append(s, v)
<1>7. /\ a \in Seq(Values) /\ Len(a) = n + 1
      /\ \A k \in 1..n : a[k] = s[k]
      /\ a[n + 1] = v
  <2> HIDE DEF s
  <2>1. /\ a \in Seq(Values) /\ Len(a) = Len(s) + 1
        /\ \A k \in 1..Len(s) : a[k] = s[k]
        /\ a[Len(s) + 1] = v
    BY <1>2, AppendPlaces
  <2> QED BY <1>2, <2>1, Zenon
<1>8. ASSUME NEW k \in 1..n PROVE u[k] = s[k]
  <2>1. k \in 1..(n + 1)
    OBVIOUS
  <2> HIDE DEF s, u, c
  <2> QED BY <1>2, <1>4, <1>5, <2>1
<1> HIDE DEF s, u, a, c, t
<1>9. u = a
  <2>1. ASSUME NEW k \in 1..Len(u) PROVE u[k] = a[k]
    <3>1. k = n + 1 \/ k \in 1..n
      BY <1>4
    <3> QED BY <1>6, <1>7, <1>8, <3>1
  <2> QED BY <1>4, <1>7, <2>1, SameSeq
<1> QED BY <1>9, Zenon DEF s, u, a, c, t

\* Moving the window past its first place takes the oldest element.
LEMMA WindowTake ==
    ASSUME NEW b \in [Place -> Values], NEW h \in Place, NEW n \in Nat \ {0}
    PROVE  Window(b, (h + 1) % kCapacity, n - 1) = Tail(Window(b, h, n))
<1> DEFINE g == (h + 1) % kCapacity
           s == Window(b, h, n)
           u == Window(b, g, n - 1)
<1>1. h \in Int /\ g \in Place /\ g \in Int /\ n - 1 \in Nat
  BY QueueAssumption, ModRange DEF Place
<1>2. /\ s \in Seq(Values) /\ Len(s) = n
      /\ \A k \in 1..n : s[k] = b[(h + k - 1) % kCapacity]
  BY WindowSeq, SMTT(20)
<1>3. /\ u \in Seq(Values) /\ Len(u) = n - 1
      /\ \A k \in 1..(n - 1) : u[k] = b[(g + k - 1) % kCapacity]
  <2> HIDE DEF g
  <2> QED BY <1>1, WindowSeq, Zenon
<1>4. ASSUME NEW k \in 1..(n - 1) PROVE u[k] = s[k + 1]
  <2>1. k + 1 \in 1..n /\ k - 1 \in Int /\ h + 1 \in Int
    BY <1>1
  <2>2. (g + (k - 1)) % kCapacity = (h + 1 + (k - 1)) % kCapacity
    BY <2>1, QueueAssumption, ModSum, Zenon
  <2>3. g + (k - 1) = g + k - 1 /\ h + 1 + (k - 1) = h + (k + 1) - 1
    BY <1>1, <2>1
  <2> HIDE DEF g, s, u
  <2>4. u[k] = b[(g + (k - 1)) % kCapacity]
    BY <1>3, <2>3, Zenon
  <2>5. s[k + 1] = b[(h + 1 + (k - 1)) % kCapacity]
    BY <1>2, <2>1, <2>3, Zenon
  <2> QED BY <2>2, <2>4, <2>5, Zenon
<1> HIDE DEF s, u
<1>5. s # <<>>
  BY <1>2
<1>6. /\ Tail(s) \in Seq(Values) /\ Len(Tail(s)) = n - 1
      /\ \A k \in 1..(n - 1) : Tail(s)[k] = s[k + 1]
  BY <1>2, <1>5, HeadTailPlaces
<1>7. u = Tail(s)
  BY <1>3, <1>4, <1>6, SameSeq, SMTT(20)
<1> QED BY <1>7 DEF s, u, g

\* Only Enqueue, Dequeue and Clear touch the buffer, and each keeps it.
LEMMA BufferStep ==
    QueueType /\ BufferHoldsQueue /\ [QueueNext]_queueVars => BufferHoldsQueue'
<1> SUFFICES ASSUME QueueType, BufferHoldsQueue, [QueueNext]_queueVars
             PROVE  BufferHoldsQueue'
  OBVIOUS
<1>0. /\ buffer \in [Place -> Values] /\ head_ \in Place /\ head_ \in Int
      /\ size_ \in Nat /\ kCapacity \in Nat \ {0}
  BY QueueAssumption DEF QueueType, Place
<1>w. live = Window(buffer, head_, size_) /\ tail_ = (head_ + size_) % kCapacity
  BY DEF BufferHoldsQueue, Window
<1>h. ASSUME live' = Window(buffer', head_', size_'),
             tail_' = (head_' + size_') % kCapacity
      PROVE  BufferHoldsQueue'
  BY <1>h DEF BufferHoldsQueue, Window
<1>k. ASSUME UNCHANGED <<queue, live>> PROVE BufferHoldsQueue'
  BY <1>k, <1>w, <1>h DEF queue
<1>1. ASSUME NEW p \in Producers, Enqueue(p) PROVE BufferHoldsQueue'
  <2>1. CASE ~closed_ /\ size_ < kCapacity
    <3>1. /\ buffer' = [buffer EXCEPT ![(head_ + size_) % kCapacity] = data[p]]
          /\ live' = Append(Window(buffer, head_, size_), data[p])
          /\ size_' = size_ + 1 /\ head_' = head_
          /\ tail_' = (((head_ + size_) % kCapacity) + 1) % kCapacity
          /\ data[p] \in Values
      BY <1>1, <1>w, <2>1 DEF Enqueue, Put, QueueType
    <3>2. live' = Window(buffer', head_', size_')
      BY <1>0, <2>1, <3>1, WindowPut, Zenon
    <3>3. tail_' = (head_' + size_') % kCapacity
      <4>1. (((head_ + size_) % kCapacity) + 1) % kCapacity = (head_ + size_ + 1) % kCapacity
        <5>1. head_ + size_ \in Int /\ 1 \in Int
          BY <1>0
        <5> QED BY <1>0, <5>1, ModSum, Zenon
      <4>2. head_ + size_ + 1 = head_ + (size_ + 1)
        BY <1>0
      <4> QED BY <3>1, <4>1, <4>2
    <3> QED BY <1>h, <3>2, <3>3
  <2>2. CASE closed_ \/ ~(size_ < kCapacity)
    BY <1>1, <1>k, <2>2 DEF Enqueue
  <2> QED BY <2>1, <2>2
<1>2. ASSUME NEW c \in Consumers, Dequeue(c) PROVE BufferHoldsQueue'
  <2>1. CASE size_ > 0
    <3>1. /\ buffer' = buffer /\ tail_' = (head_ + size_) % kCapacity
          /\ live' = Tail(Window(buffer, head_, size_))
          /\ size_' = size_ - 1 /\ head_' = (head_ + 1) % kCapacity
      BY <1>2, <1>w, <2>1 DEF Dequeue
    <3>2. live' = Window(buffer', head_', size_')
      BY <1>0, <2>1, <3>1, WindowTake, SMTT(20)
    <3>3. tail_' = (head_' + size_') % kCapacity
      <4>1. (((head_ + 1) % kCapacity) + (size_ - 1)) % kCapacity
              = (head_ + 1 + (size_ - 1)) % kCapacity
        <5>1. head_ + 1 \in Int /\ size_ - 1 \in Int
          BY <1>0
        <5> QED BY <1>0, <5>1, ModSum, Zenon
      <4>2. head_ + 1 + (size_ - 1) = head_ + size_
        BY <1>0
      <4> QED BY <3>1, <4>1, <4>2
    <3> QED BY <1>h, <3>2, <3>3
  <2>2. CASE ~(size_ > 0)
    BY <1>2, <1>k, <2>2 DEF Dequeue
  <2> QED BY <2>1, <2>2
<1>3. CASE Clear
  <2>1. /\ buffer' = buffer /\ live' = <<>>
        /\ head_' = 0 /\ tail_' = 0 /\ size_' = 0
    BY <1>3 DEF Clear
  <2>2. 0 \in Place /\ (0 + 0) % kCapacity = 0
    BY <1>0 DEF Place
  <2>3. Window(buffer, 0, 0) = <<>>
    BY <1>0, <2>2, WindowSeq
  <2> QED BY <1>h, <2>1, <2>2, <2>3
<1>4. ASSUME NEW p \in Producers,
             EnqueueNotify(p) \/ \E v \in Values : EnqueueCall(p, v)
      PROVE  BufferHoldsQueue'
  BY <1>4, <1>k DEF EnqueueNotify, EnqueueCall, Moves
<1>5. ASSUME NEW c \in Consumers, DequeueNotify(c) \/ DequeueCall(c)
      PROVE  BufferHoldsQueue'
  BY <1>5, <1>k DEF DequeueNotify, DequeueCall, Moves
<1>6. ASSUME NEW t \in Producers \cup Consumers, SpuriousWake(t)
      PROVE  BufferHoldsQueue'
  BY <1>6, <1>k DEF SpuriousWake, Moves
<1>7. CASE Close \/ Closing
  BY <1>7, <1>k DEF Close, Closing, CloseNotifyFull, CloseNotifyEmpty, Moves
<1>8. CASE UNCHANGED queueVars
  BY <1>8, <1>k DEF queueVars
<1> QED BY <1>1, <1>2, <1>3, <1>4, <1>5, <1>6, <1>7, <1>8
        DEF QueueNext, Producer, Consumer

-----------------------------------------------------------------------------
\* The inductive invariant.
QueueInv ==
    QueueType /\ ConsumersAwake /\ ProducersAwake /\ BufferHoldsQueue

\* An empty queue that nobody waits for.
LEMMA QueueInvInit == QueueInit => QueueInv
<1> SUFFICES ASSUME QueueInit PROVE QueueInv
  OBVIOUS
<1>1. QueueType
  BY QueueAssumption DEF QueueInit, QueueType, Place, Callers, Labels
<1>2. \A t \in Producers \cup Consumers : pc[t] # "waiting"
  BY DEF QueueInit, Callers
<1>3. ConsumersAwake /\ ProducersAwake
  BY <1>2 DEF ConsumersAwake, ProducersAwake, Awake
<1>4. BufferHoldsQueue
  <2>1. Window(buffer, 0, 0) = <<>> /\ (0 + 0) % kCapacity = 0
    <3>1. 0 \in Place /\ buffer \in [Place -> Values]
      BY QueueAssumption DEF QueueInit, Place
    <3> QED BY <3>1, WindowSeq, QueueAssumption
  <2> QED BY <2>1 DEF QueueInit, BufferHoldsQueue, Window
<1> QED BY <1>1, <1>3, <1>4 DEF QueueInv

\* The invariant of enqueue, dequeue, clear and close, for any number of
\* threads and any capacity.
THEOREM QueueInvariant == QueueSpec => []QueueInv
<1>1. QueueInit => QueueInv
  BY QueueInvInit
<1>2. QueueInv /\ [QueueNext]_queueVars => QueueInv'
  BY QueueTypeStep, AwakeStep, BufferStep DEF QueueInv
<1> QED BY <1>1, <1>2, PTL DEF QueueSpec

\* No wake-up of a waiting consumer is lost, although enqueue notifies after
\* it has unlocked, and one thread at a time.
THEOREM ConsumersNotForgotten == QueueSpec => []NoConsumerForgotten
<1>1. QueueInv => NoConsumerForgotten
  BY AwakeSides DEF QueueInv
<1> QED BY <1>1, QueueInvariant, PTL

\* Nor one of a waiting producer, until clear() or close().
THEOREM ProducersNotForgotten == QueueSpec => []NoProducerForgotten
<1>1. QueueInv => NoProducerForgotten
  BY AwakeSides DEF QueueInv
<1> QED BY <1>1, QueueInvariant, PTL

\* The circular buffer of enqueue, dequeue and clear is a FIFO queue.
THEOREM BufferIsQueue == QueueSpec => []BufferHoldsQueue
<1>1. QueueInv => BufferHoldsQueue
  BY DEF QueueInv
<1> QED BY <1>1, QueueInvariant, PTL
=============================================================================
