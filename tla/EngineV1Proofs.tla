--------------------------- MODULE EngineV1Proofs ---------------------------
(***************************************************************************)
(* Proofs about engine v1 and its UDP server, for every capacity, batch    *)
(* size and width of the counters, any datagrams and any number of runs.   *)
(***************************************************************************)
EXTENDS EngineV1, Basics, FiniteSetTheorems

\* A sequence as long as a finite set that has all its elements has each of
\* them once.
LEMMA OnceEach ==
    ASSUME NEW S, IsFiniteSet(S), NEW s \in Seq(S),
           Len(s) = Cardinality(S), Elems(s) = S
    PROVE  \A i, j \in 1..Len(s) : s[i] = s[j] => i = j
<1>1. Len(s) \in Nat /\ s \in [1..Len(s) -> S]
  OBVIOUS
<1>2. IsFiniteSet(1..Len(s)) /\ Cardinality(1..Len(s)) = Len(s)
  BY <1>1, FS_Interval
<1>3. \A x \in S : \E i \in 1..Len(s) : s[i] = x
  BY DEF Elems
<1>4. s \in Surjection(1..Len(s), S)
  BY <1>1, <1>3 DEF Surjection
<1>5. s \in Injection(1..Len(s), S)
  BY <1>2, <1>4, FS_SurjSameCardinalityImpliesInj
<1> QED BY <1>5 DEF Injection, IsInjective

\* So the first element is at no other place.
LEMMA HeadOnce ==
    ASSUME NEW S, IsFiniteSet(S), NEW s \in Seq(S), NEW t \in Seq(S), s # <<>>,
           Len(s \o t) = Cardinality(S), Elems(s \o t) = S
    PROVE  Head(s) \notin Elems(Tail(s)) \cup Elems(t)
<1> DEFINE c == s \o t
<1>1. /\ c \in Seq(S) /\ Len(c) = Len(s) + Len(t)
      /\ \A i \in 1..Len(c) : c[i] = IF i <= Len(s) THEN s[i] ELSE t[i - Len(s)]
  BY ConcatPlaces
<1>2. \A i, j \in 1..Len(c) : c[i] = c[j] => i = j
  BY <1>1, OnceEach
<1>3. /\ Len(s) \in Nat \ {0} /\ Len(t) \in Nat
      /\ Head(s) = s[1]
      /\ Len(Tail(s)) = Len(s) - 1
      /\ \A i \in 1..Len(Tail(s)) : Tail(s)[i] = s[i + 1]
  BY HeadTailPlaces
<1> HIDE DEF c
<1>4. c[1] = Head(s) /\ 1 \in 1..Len(c)
  BY <1>1, <1>3
<1>5. ASSUME NEW i \in 1..Len(Tail(s)) PROVE Tail(s)[i] # Head(s)
  <2>1. i + 1 \in 1..Len(c) /\ i + 1 # 1 /\ c[i + 1] = Tail(s)[i]
    BY <1>1, <1>3
  <2> QED BY <2>1, <1>2, <1>4
<1>6. ASSUME NEW i \in 1..Len(t) PROVE t[i] # Head(s)
  <2>1. /\ i + Len(s) \in 1..Len(c) /\ i + Len(s) # 1
        /\ ~(i + Len(s) <= Len(s)) /\ (i + Len(s)) - Len(s) = i
    BY <1>1, <1>3
  <2>2. c[i + Len(s)] = t[i]
    BY <2>1, <1>1, Zenon
  <2> QED BY <2>1, <2>2, <1>2, <1>4
<1> QED BY <1>5, <1>6 DEF Elems

USE SeqAssumption

Datagram == Uint64 \cup {BadDatagram}

\* Where the io thread is outside its loop over events, and inside it.
IoOutside == {"off", "socket", "eventfd", "ctl", "while", "wait", "cleanup", "done"}
IoInside == {"event", "recv", "copy", "publish"}

\* The types, with what each thread holds at each of its steps.
EngineType ==
    /\ sock \in Seq(Datagram) /\ msgs \in Seq(Datagram) /\ pending \in Seq(Uint64)
    /\ free \in Seq(Slot) /\ ready \in Seq(Slot) /\ slots \in [Slot -> Datagram]
    /\ events \subseteq {"sock", "wake"}
    /\ ioPc \in IoOutside \cup IoInside
    /\ consPc \in {"off", "while", "empty?", "pop", "decode", "free", "done"}
    /\ reporter \in {"off", "on", "done"}
    /\ mainPc \in {"idle", "spawn", "up", "exchange", "wake?", "write", "joinIo",
                   "joinCons", "joinReporter", "terminated"}
    /\ runs \in Nat /\ taken \in Int /\ abandoned \in Nat
    /\ TrackerTypeOK
    /\ IF ioPc = "publish" THEN ioIdx \in Slot ELSE ioIdx = NoSlot
    /\ IF consPc \in {"decode", "free"} THEN consIdx \in Slot ELSE consIdx = NoSlot

\* What the io thread has in hand: nothing between two receives, and before
\* it publishes, the message it has just copied.
IoHolds ==
    /\ ioPc \notin {"copy", "publish"} => msgs = <<>>
    /\ ioPc \in IoOutside => events = {}
    /\ ioPc = "publish" =>
         msgs # <<>> /\ Head(msgs) \in Uint64 /\ slots[ioIdx] = Head(msgs)

\* What stop() can rely on.  A wake-up is only ever seen by an io thread that
\* stop() is joining; an io thread that cleared handle.running by itself is
\* past receiving, so that one nobody joins holds nothing any more; and the
\* consumer is gone whenever run() may reset the pool.
Threads ==
    /\ (wakeEdge \/ "wake" \in events) => mainPc = "joinIo"
    /\ ioPc \in {"off", "done"} => ~wakeEdge /\ (wakeFd => mainPc = "terminated")
    /\ mainPc \in {"wake?", "write", "joinIo", "joinCons", "joinReporter", "idle"} =>
         ~srvRunning
    /\ (mainPc \in {"spawn", "up", "exchange"} /\ ~srvRunning) =>
         ioPc \in {"while", "cleanup", "done"}
    /\ mainPc \in {"joinCons", "joinReporter", "idle"} =>
         ioPc \in {"off", "while", "cleanup", "done"}
    /\ mainPc = "terminated" => ioPc = "off"
    /\ mainPc \in {"idle", "spawn", "joinReporter", "terminated"} =>
         consPc \in {"off", "done"}
    /\ runs = 0 =>
         ioPc = "off" /\ consPc = "off" /\ ready = <<>> /\ mainPc = "idle" /\ ~sockFd

\* NoLostEdge, also while the reported events are being handled.
EdgeKept ==
    (ioPc \in {"while", "wait", "event"} /\ sock # <<>>) =>
        \/ sockEdge \/ recvFailed \/ ~srvRunning
        \/ ioPc = "event" /\ "sock" \in events

\* The datagrams received and not counted: in flight or left behind.
Uncounted == abandoned + InFlight

\* They were received.
UncountedTaken == taken >= Uncounted

\* The inductive invariant.
EngineInv ==
    /\ EngineType /\ IoHolds /\ Threads /\ EdgeKept /\ UncountedTaken
    /\ SlotsConserved /\ FramesIntact /\ FramesAccounted

-----------------------------------------------------------------------------
(* Types.                                                                  *)

\* A counter stays a counter.
LEMMA AddType ==
    ASSUME NEW a \in Int, NEW b \in Int
    PROVE  Add(a, b) \in Uint64
<1>1. SeqModulus \in Nat \ {0} /\ a + b \in Int
  OBVIOUS
<1>2. (a + b) % SeqModulus \in 0..(SeqModulus - 1)
  BY <1>1, ModRange
<1> QED BY <1>2 DEF Add, Uint64

\* Tracking a message keeps the counters' types.
LEMMA TrackType ==
    ASSUME TrackerTypeOK, NEW seq \in Uint64, Track(seq)
    PROVE  TrackerTypeOK'
<1>1. \A a, b \in Int : Add(a, b) \in Uint64
  BY AddType
<1>2. Uint64 \subseteq Int
  BY DEF Uint64
<1>3. CASE Accept(seq, 0)
  BY <1>1, <1>2, <1>3 DEF TrackerTypeOK, Track, Accept
<1>4. CASE Accept(seq, seq - expected_seq_num)
  <2>1. seq - expected_seq_num \in Int
    BY <1>2 DEF TrackerTypeOK
  <2> QED BY <1>1, <1>2, <1>4, <2>1 DEF TrackerTypeOK, Track, Accept
<1>5. CASE Reject
  BY <1>1, <1>2, <1>5 DEF TrackerTypeOK, Track, Reject
<1> QED BY <1>3, <1>4, <1>5 DEF Track

\* The frame in the consumer's hand is the oldest one published.
LEMMA DecodeHead ==
    ASSUME EngineType, FramesIntact, consPc = "decode"
    PROVE  /\ pending # <<>> /\ Head(pending) = slots[consIdx]
           /\ slots[consIdx] \in Uint64
           /\ Len(pending) = Len(ready) + 1
<1> DEFINE held == <<consIdx>> \o ready
<1>1. consIdx \in Slot /\ ready \in Seq(Slot) /\ <<consIdx>> \in Seq(Slot)
  BY DEF EngineType
<1>2. Len(held) = Len(ready) + 1 /\ Len(ready) \in Nat /\ held[1] = consIdx
  BY <1>1
<1>3. pending = [i \in 1..Len(held) |-> slots[held[i]]]
  BY DEF FramesIntact
<1>4. pending \in Seq(Uint64)
  BY DEF EngineType
<1> HIDE DEF held
<1>5. pending[1] = slots[consIdx] /\ DOMAIN pending = 1..Len(held)
  BY <1>2, <1>3
<1>6. Len(pending) = Len(held)
  BY <1>2, <1>4, <1>5
<1>7. pending # <<>> /\ Head(pending) = pending[1] /\ pending[1] \in Uint64
  BY <1>2, <1>4, <1>6
<1> QED BY <1>2, <1>5, <1>6, <1>7

LEMMA TypeStep ==
    ASSUME EngineInv, [Next]_vars
    PROVE  EngineType'
<1> USE DEF EngineType, IoOutside, IoInside,
            fds, kernel, poolVars, ioVars, history, trackerVars, TrackerTypeOK
<1>0. EngineType /\ IoHolds /\ Threads
  BY DEF EngineInv
<1>1. CASE Io
  <2>0. UNCHANGED <<running, consPc, consIdx, reporter, mainPc, runs, seq_initialized,
                    expected_seq_num, received, processed, seq_num_gaps>>
    BY <1>1 DEF Io
  <2>1. CASE IoSetupFails BY <1>0, <2>0, <2>1 DEF IoSetupFails, CloseAll
  <2>2. CASE IoSocket BY <1>0, <2>0, <2>2 DEF IoSocket
  <2>3. CASE IoEventfd BY <1>0, <2>0, <2>3 DEF IoEventfd
  <2>4. CASE IoCtl BY <1>0, <2>0, <2>4 DEF IoCtl
  <2>5. CASE IoWhile BY <1>0, <2>0, <2>5 DEF IoWhile, IoGoto
  <2>6. CASE IoWait BY <1>0, <2>0, <2>6 DEF IoWait
  <2>7. CASE IoWaitFails BY <1>0, <2>0, <2>7 DEF IoWaitFails, IoGoto
  <2>8. CASE IoEventsDone BY <1>0, <2>0, <2>8 DEF IoEventsDone, IoGoto
  <2>9. CASE IoEventWake BY <1>0, <2>0, <2>9 DEF IoEventWake
  <2>10. CASE IoEventSock
    <3>1. CASE events' = events \ {"sock"} /\ ioPc' = "recv"
      BY <1>0, <2>0, <2>10, <3>1 DEF IoEventSock
    <3>2. CASE events' = {} /\ ioPc' = "while"
      BY <1>0, <2>0, <2>10, <3>2 DEF IoEventSock
    <3> QED BY <2>10, <3>1, <3>2, Zenon DEF IoEventSock
  <2>11. CASE IoRecv
    <3> DEFINE n == IF Len(sock) < BATCH THEN Len(sock) ELSE BATCH
    <3>1. n \in Nat /\ n <= Len(sock)
      BY <1>0, EngineV1Assumption
    <3>2. SubSeq(sock, 1, n) \in Seq(Datagram) /\ SubSeq(sock, n + 1, Len(sock)) \in Seq(Datagram)
      BY <1>0, <3>1
    <3>3. msgs' \in Seq(Datagram) /\ sock' \in Seq(Datagram) /\ taken' \in Int
      <4>1. msgs' = SubSeq(sock, 1, n) /\ sock' = SubSeq(sock, n + 1, Len(sock)) /\ taken' = taken + n
        BY <2>11, Zenon DEF IoRecv
      <4>2. taken \in Int
        BY <1>0
      <4> QED BY <3>1, <3>2, <4>1, <4>2
    <3> HIDE DEF n
    <3>4. /\ ioPc = "recv" /\ ioPc' = "copy"
          /\ UNCHANGED <<abandoned, pending, free, ready, slots, events, ioIdx, drops>>
      BY <2>11, Zenon DEF IoRecv
    <3> QED BY <1>0, <2>0, <3>3, <3>4
  <2>12. CASE IoRecvAgain BY <1>0, <2>0, <2>12 DEF IoRecvAgain
  <2>13. CASE IoRecvFails BY <1>0, <2>0, <2>13 DEF IoRecvFails
  <2>14. CASE IoCopied BY <1>0, <2>0, <2>14 DEF IoCopied, IoGoto, RecvNext
  <2>15. CASE IoDrop
    <3>1. drops' \in Uint64
      BY <1>0, <2>15, AddType DEF IoDrop, CountDrop, Uint64
    <3> QED BY <1>0, <2>0, <2>15, <3>1 DEF IoDrop
  <2>16. CASE IoCopy BY <1>0, <2>0, <2>16 DEF IoCopy
  <2>17. CASE IoPublish
    <3>1. drops' \in Uint64
      <4>1. drops' = drops \/ drops' = Add(drops, 1)
        BY <2>17 DEF IoPublish, CountDrop
      <4>2. drops \in Int /\ drops \in Uint64
        BY <1>0 DEF Uint64
      <4>3. Add(drops, 1) \in Uint64
        BY <4>2, AddType
      <4> QED BY <4>1, <4>2, <4>3
    <3>2. ioIdx \in Slot /\ Head(msgs) \in Uint64 /\ msgs # <<>>
      BY <1>0, <2>17 DEF IoPublish, IoHolds
    <3>3. ready' \in Seq(Slot) /\ free' \in Seq(Slot) /\ pending' \in Seq(Uint64)
      <4>1. ready \in Seq(Slot) /\ free \in Seq(Slot) /\ pending \in Seq(Uint64)
        BY <1>0
      <4>2. /\ Append(ready, ioIdx) \in Seq(Slot) /\ Append(free, ioIdx) \in Seq(Slot)
            /\ Append(pending, Head(msgs)) \in Seq(Uint64)
        BY <3>2, <4>1
      <4> QED BY <2>17, <4>1, <4>2, Zenon DEF IoPublish
    <3>4. msgs' \in Seq(Datagram)
      BY <1>0, <2>17, <3>2 DEF IoPublish
    <3> QED BY <1>0, <2>0, <2>17, <3>1, <3>3, <3>4 DEF IoPublish
  <2>18. CASE IoCleanup BY <1>0, <2>0, <2>18 DEF IoCleanup, CloseAll
  <2> QED BY <1>1, <2>1, <2>2, <2>3, <2>4, <2>5, <2>6, <2>7, <2>8, <2>9, <2>10,
             <2>11, <2>12, <2>13, <2>14, <2>15, <2>16, <2>17, <2>18 DEF Io
<1>2. CASE Cons
  <2>0. UNCHANGED <<running, srvRunning, fds, kernel, slots, ioPc, ioVars, reporter,
                    mainPc, runs, taken, abandoned, recvFailed>>
    BY <1>2 DEF Cons
  <2>1. CASE ConsWhile BY <1>0, <2>0, <2>1 DEF ConsWhile, ConsGoto
  <2>2. CASE ConsEmpty BY <1>0, <2>0, <2>2 DEF ConsEmpty, ConsGoto
  <2>3. CASE ConsPop
    <3>1. CASE ready = <<>> BY <1>0, <2>0, <2>3, <3>1 DEF ConsPop, ConsGoto
    <3>2. CASE ready # <<>>
      <4>1. Head(ready) \in Slot /\ Tail(ready) \in Seq(Slot)
        BY <1>0, <3>2
      <4> QED BY <1>0, <2>0, <2>3, <3>2, <4>1 DEF ConsPop, FreeAtPop
    <3> QED BY <3>1, <3>2
  <2>4. CASE ConsDecode
    <3>1. /\ slots[consIdx] \in Uint64 /\ pending # <<>>
      BY <2>4, DecodeHead DEF ConsDecode, EngineInv
    <3>2. TrackerTypeOK'
      BY <1>0, <2>4, <3>1, TrackType DEF ConsDecode
    <3> QED BY <1>0, <2>0, <2>4, <3>1, <3>2 DEF ConsDecode
  <2>5. CASE ConsFree BY <1>0, <2>0, <2>5 DEF ConsFree, FreeIdx
  <2> QED BY <1>2, <2>1, <2>2, <2>3, <2>4, <2>5 DEF Cons
<1>3. CASE ReporterExit BY <1>0, <1>3 DEF ReporterExit
<1>4. CASE Run /\ MainKeeps
  <2>1. [i \in 1..Capacity |-> i - 1] \in Seq(Slot)
    BY EngineV1Assumption DEF Slot
  <2>2. ioPc' # "publish" /\ ioPc # "publish"
    BY <1>0, <1>4 DEF Run, Threads
  <2> QED BY <1>0, <1>4, <2>1, <2>2 DEF Run, MainKeeps
<1>5. CASE Stop /\ MainKeeps /\ UNCHANGED history BY <1>0, <1>5 DEF Stop, MainKeeps
<1>6. CASE Returning
  <2>0. MainKeeps /\ UNCHANGED history
    BY <1>6 DEF Returning
  <2>1. CASE RunSpawn BY <1>0, <2>0, <2>1 DEF RunSpawn, MainKeeps, Threads
  <2>2. CASE StopExchange BY <1>0, <2>0, <2>2 DEF StopExchange, MainKeeps
  <2>3. CASE StopReadWake BY <1>0, <2>0, <2>3 DEF StopReadWake, MainGoto, MainKeeps
  <2>4. CASE StopWrite BY <1>0, <2>0, <2>4 DEF StopWrite, MainKeeps
  <2>5. CASE StopJoinIo BY <1>0, <2>0, <2>5 DEF StopJoinIo, MainKeeps
  <2>6. CASE StopJoinCons BY <1>0, <2>0, <2>6 DEF StopJoinCons, MainGoto, MainKeeps
  <2>7. CASE StopJoinReporter BY <1>0, <2>0, <2>7 DEF StopJoinReporter, MainGoto, MainKeeps
  <2> QED BY <1>6, <2>1, <2>2, <2>3, <2>4, <2>5, <2>6, <2>7 DEF Returning, Stopping
<1>7. CASE Arrive
  <2>1. \E d \in Datagram : sock' = Append(sock, d)
    <3> DEFINE n == taken + Len(sock)
    <3>1. n + 1 \in 1..Len(Inputs)
      <4>1. taken >= abandoned + (Len(msgs) + Len(pending))
        BY DEF EngineInv, UncountedTaken, Uncounted, InFlight
      <4>2. /\ Len(msgs) \in Nat /\ Len(pending) \in Nat /\ Len(sock) \in Nat
            /\ runs \in Nat /\ taken \in Int /\ abandoned \in Nat
        BY <1>0
      <4>3. n + runs <= Len(Inputs) /\ Len(Inputs) \in Nat
        BY <1>7, EngineV1Assumption DEF Arrive
      <4>4. runs # 0
        BY <1>0, <1>7 DEF Arrive, Threads
      <4> QED BY <4>1, <4>2, <4>3, <4>4
    <3>2. Inputs[n + 1] \subseteq Datagram
      BY <3>1, EngineV1Assumption DEF Datagram
    <3> QED BY <1>7, <3>2 DEF Arrive
  <2>2. sock' \in Seq(Datagram)
    BY <1>0, <2>1
  <2> QED BY <1>0, <1>7, <2>2 DEF Arrive
<1>8. CASE UNCHANGED vars BY <1>0, <1>8 DEF vars
<1> QED BY <1>1, <1>2, <1>3, <1>4, <1>5, <1>6, <1>7, <1>8 DEF Next

-----------------------------------------------------------------------------
(* Control: what the threads hold and may still do.                        *)

LEMMA ControlStep ==
    ASSUME EngineInv, [Next]_vars
    PROVE  IoHolds' /\ Threads' /\ EdgeKept'
<1> USE DEF IoHolds, Threads, EdgeKept, IoOutside, IoInside,
            fds, kernel, poolVars, ioVars, history
<1>0. /\ IoHolds /\ Threads /\ EdgeKept
      /\ events \subseteq {"sock", "wake"} /\ ioPc \in IoOutside \cup IoInside /\ runs \in Nat
  BY DEF EngineInv, EngineType
<1>1. CASE Io
  <2>0. UNCHANGED <<running, consPc, consIdx, reporter, mainPc, runs>>
    BY <1>1 DEF Io
  <2>1. CASE IoSetupFails BY <1>0, <2>0, <2>1 DEF IoSetupFails, CloseAll
  <2>2. CASE IoSocket BY <1>0, <2>0, <2>2 DEF IoSocket
  <2>3. CASE IoEventfd BY <1>0, <2>0, <2>3 DEF IoEventfd
  <2>4. CASE IoCtl BY <1>0, <2>0, <2>4 DEF IoCtl
  <2>5. CASE IoWhile
    <3>1. /\ ioPc = "while" /\ (srvRunning => ioPc' = "wait") /\ (~srvRunning => ioPc' = "cleanup")
          /\ UNCHANGED <<srvRunning, fds, kernel, poolVars, ioVars, history>>
      BY <2>5 DEF IoWhile, IoGoto
    <3>2. CASE srvRunning BY <1>0, <2>0, <3>1, <3>2
    <3>3. CASE ~srvRunning BY <1>0, <2>0, <3>1, <3>3
    <3> QED BY <3>2, <3>3
  <2>6. CASE IoWait
    <3>1. /\ "sock" \in events' => sockEdge
          /\ "wake" \in events' => wakeEdge
          /\ sockEdge => "sock" \in events'
          /\ (~sockEdge /\ ~wakeEdge) => events' = {}
      BY <2>6, Zenon DEF IoWait
    <3>2. /\ ioPc = "wait" /\ ioPc' \in {"event", "while"}
          /\ ioPc' = "while" => ~sockEdge /\ ~wakeEdge
          /\ ~wakeEdge' /\ UNCHANGED <<srvRunning, fds, sock, poolVars, msgs, ioIdx, history>>
      BY <2>6 DEF IoWait
    <3> QED BY <1>0, <2>0, <3>1, <3>2
  <2>7. CASE IoWaitFails BY <1>0, <2>0, <2>7 DEF IoWaitFails, IoGoto
  <2>8. CASE IoEventsDone BY <1>0, <2>0, <2>8 DEF IoEventsDone, IoGoto
  <2>9. CASE IoEventWake BY <1>0, <2>0, <2>9 DEF IoEventWake
  <2>10. CASE IoEventSock BY <1>0, <2>0, <2>10 DEF IoEventSock
  <2>11. CASE IoRecv BY <1>0, <2>0, <2>11 DEF IoRecv
  <2>12. CASE IoRecvAgain BY <1>0, <2>0, <2>12 DEF IoRecvAgain
  <2>13. CASE IoRecvFails BY <1>0, <2>0, <2>13 DEF IoRecvFails
  <2>14. CASE IoCopied BY <1>0, <2>0, <2>14 DEF IoCopied, IoGoto, RecvNext
  <2>15. CASE IoDrop BY <1>0, <2>0, <2>15 DEF IoDrop
  <2>16. CASE IoCopy
    <3>1. Head(free) \in Slot /\ Head(msgs) \in Uint64 /\ slots \in [Slot -> Datagram]
      BY <2>16 DEF IoCopy, EngineInv, EngineType, Datagram
    <3>2. slots'[ioIdx'] = Head(msgs')
      BY <2>16, <3>1 DEF IoCopy
    <3> QED BY <1>0, <2>0, <2>16, <3>1, <3>2 DEF IoCopy
  <2>17. CASE IoPublish BY <1>0, <2>0, <2>17 DEF IoPublish
  <2>18. CASE IoCleanup BY <1>0, <2>0, <2>18 DEF IoCleanup, CloseAll
  <2> QED BY <1>1, <2>1, <2>2, <2>3, <2>4, <2>5, <2>6, <2>7, <2>8, <2>9, <2>10,
             <2>11, <2>12, <2>13, <2>14, <2>15, <2>16, <2>17, <2>18 DEF Io
<1>2. CASE Cons
  <2>0. UNCHANGED <<running, srvRunning, fds, kernel, slots, ioPc, ioVars, reporter,
                    mainPc, runs, taken, abandoned, recvFailed>>
    BY <1>2 DEF Cons
  <2>1. CASE ConsWhile BY <1>0, <2>0, <2>1 DEF ConsWhile, ConsGoto
  <2>2. CASE ConsEmpty BY <1>0, <2>0, <2>2 DEF ConsEmpty, ConsGoto
  <2>3. CASE ConsPop BY <1>0, <2>0, <2>3 DEF ConsPop, ConsGoto
  <2>4. CASE ConsDecode BY <1>0, <2>0, <2>4 DEF ConsDecode
  <2>5. CASE ConsFree BY <1>0, <2>0, <2>5 DEF ConsFree
  <2> QED BY <1>2, <2>1, <2>2, <2>3, <2>4, <2>5 DEF Cons
<1>3. CASE ReporterExit BY <1>0, <1>3 DEF ReporterExit
<1>4. CASE Run /\ MainKeeps BY <1>0, <1>4 DEF Run, MainKeeps
<1>5. CASE Stop /\ MainKeeps /\ UNCHANGED history BY <1>0, <1>5 DEF Stop, MainKeeps
<1>6. CASE Returning
  <2>0. MainKeeps /\ UNCHANGED history
    BY <1>6 DEF Returning
  <2>1. CASE RunSpawn BY <1>0, <2>0, <2>1 DEF RunSpawn, MainKeeps
  <2>2. CASE StopExchange BY <1>0, <2>0, <2>2 DEF StopExchange, MainKeeps
  <2>3. CASE StopReadWake BY <1>0, <2>0, <2>3 DEF StopReadWake, MainGoto, MainKeeps
  <2>4. CASE StopWrite BY <1>0, <2>0, <2>4 DEF StopWrite, MainKeeps
  <2>5. CASE StopJoinIo BY <1>0, <2>0, <2>5 DEF StopJoinIo, MainKeeps
  <2>6. CASE StopJoinCons BY <1>0, <2>0, <2>6 DEF StopJoinCons, MainGoto, MainKeeps
  <2>7. CASE StopJoinReporter BY <1>0, <2>0, <2>7 DEF StopJoinReporter, MainGoto, MainKeeps
  <2> QED BY <1>6, <2>1, <2>2, <2>3, <2>4, <2>5, <2>6, <2>7 DEF Returning, Stopping
<1>7. CASE Arrive BY <1>0, <1>7 DEF Arrive
<1>8. CASE UNCHANGED vars BY <1>0, <1>8 DEF vars
<1> QED BY <1>1, <1>2, <1>3, <1>4, <1>5, <1>6, <1>7, <1>8 DEF Next

-----------------------------------------------------------------------------
(* The slots of the pool.                                                  *)

\* SlotsConserved by lengths and elements.
SlotsApart ==
    runs > 0 =>
        /\ Len(free) + Len(Held(ioIdx)) + Len(ready) + Len(Held(consIdx)) = Capacity
        /\ Elems(free) \cup Elems(Held(ioIdx)) \cup Elems(ready) \cup Elems(Held(consIdx)) = Slot

\* What a thread has in its hand.
LEMMA HeldFacts ==
    ASSUME NEW i \in Slot
    PROVE  /\ Held(i) = <<i>> /\ Held(i) \in Seq(Slot) /\ Len(Held(i)) = 1 /\ Elems(Held(i)) = {i}
           /\ Held(NoSlot) = <<>> /\ Held(NoSlot) \in Seq(Slot)
           /\ Len(Held(NoSlot)) = 0 /\ Elems(Held(NoSlot)) = {}
<1>1. i # NoSlot
  BY EngineV1Assumption DEF Slot, NoSlot
<1>2. Held(i) = <<i>> /\ Held(NoSlot) = <<>>
  BY <1>1 DEF Held
<1>3. <<i>> \in Seq(Slot) /\ Len(<<i>>) = 1 /\ <<>> \in Seq(Slot) /\ Len(<<>>) = 0
  OBVIOUS
<1> QED BY <1>2, <1>3, ElemsSmall, Zenon

\* The pool's part of a state, by its values: SlotsConserved and SlotsApart.
InOneCycle(f, i, r, c) ==
    LET all == f \o Held(i) \o r \o Held(c)
    IN  Len(all) = Capacity /\ {all[k] : k \in 1..Len(all)} = Slot
InParts(f, i, r, c) ==
    /\ Len(f) + Len(Held(i)) + Len(r) + Len(Held(c)) = Capacity
    /\ Elems(f) \cup Elems(Held(i)) \cup Elems(r) \cup Elems(Held(c)) = Slot

LEMMA ApartIsConserved ==
    ASSUME NEW f \in Seq(Slot), NEW r \in Seq(Slot),
           NEW i \in Slot \cup {NoSlot}, NEW c \in Slot \cup {NoSlot}
    PROVE  InOneCycle(f, i, r, c) <=> InParts(f, i, r, c)
<1>1. 0 \in Slot
  BY EngineV1Assumption DEF Slot
<1>2. Held(i) \in Seq(Slot) /\ Held(c) \in Seq(Slot)
  BY <1>1, HeldFacts
<1> DEFINE all == f \o Held(i) \o r \o Held(c)
<1>3. /\ all \in Seq(Slot)
      /\ Len(all) = Len(f) + Len(Held(i)) + Len(r) + Len(Held(c))
      /\ Elems(all) = Elems(f) \cup Elems(Held(i)) \cup Elems(r) \cup Elems(Held(c))
  BY <1>2, FourParts
<1> QED BY <1>3, Zenon DEF Elems, InOneCycle, InParts

LEMMA ApartNow ==
    ASSUME EngineInv
    PROVE  SlotsApart
<1>1. /\ free \in Seq(Slot) /\ ready \in Seq(Slot)
      /\ ioIdx \in Slot \cup {NoSlot} /\ consIdx \in Slot \cup {NoSlot}
  BY DEF EngineInv, EngineType
<1>2. SlotsConserved
  BY DEF EngineInv
<1>3. InOneCycle(free, ioIdx, ready, consIdx) => InParts(free, ioIdx, ready, consIdx)
  BY <1>1, ApartIsConserved
<1> QED BY <1>2, <1>3, Zenon DEF SlotsConserved, SlotsApart, InOneCycle, InParts

LEMMA SlotsStep ==
    ASSUME EngineInv, [Next]_vars, EngineType'
    PROVE  SlotsConserved'
<1> USE DEF fds, kernel, poolVars, ioVars, history
<1>0. /\ free \in Seq(Slot) /\ ready \in Seq(Slot)
      /\ ioIdx \in Slot \cup {NoSlot} /\ consIdx \in Slot \cup {NoSlot}
      /\ runs \in Nat /\ Capacity \in Nat
  BY EngineV1Assumption DEF EngineInv, EngineType
<1>1. SlotsApart
  BY ApartNow
<1>2. SUFFICES SlotsApart'
  <2>1. /\ free' \in Seq(Slot) /\ ready' \in Seq(Slot)
        /\ ioIdx' \in Slot \cup {NoSlot} /\ consIdx' \in Slot \cup {NoSlot}
    BY DEF EngineType
  <2>2. InParts(free', ioIdx', ready', consIdx') => InOneCycle(free', ioIdx', ready', consIdx')
    BY <2>1, ApartIsConserved
  <2> QED BY <2>2, Zenon DEF SlotsConserved, SlotsApart, InOneCycle, InParts
<1>3. ASSUME UNCHANGED <<free, ready, ioIdx, consIdx, runs>>
      PROVE  SlotsApart'
  BY <1>1, <1>3 DEF SlotsApart
<1>4. CASE IoCopy /\ UNCHANGED <<consIdx, runs>>
  <2>1. free # <<>> /\ ioIdx' = Head(free) /\ free' = Tail(free) /\ UNCHANGED ready
    BY <1>4 DEF IoCopy
  <2>2. ioIdx = NoSlot
    BY <1>4 DEF IoCopy, EngineInv, EngineType
  <2>3. /\ Head(free) \in Slot
        /\ Len(free) = Len(free') + 1 /\ Len(free) \in Nat /\ Len(free') \in Nat
    BY <1>0, <2>1
  <2>4. Elems(free) = {Head(free)} \cup Elems(Tail(free))
    BY <1>0, <2>1, ElemsHeadTail
  <2>5. /\ Len(Held(ioIdx)) = 0 /\ Elems(Held(ioIdx)) = {}
        /\ Len(Held(ioIdx')) = 1 /\ Elems(Held(ioIdx')) = {Head(free)}
    BY <2>1, <2>2, <2>3, HeldFacts
  <2>6. Len(free') + Len(Held(ioIdx')) = Len(free) + Len(Held(ioIdx))
    BY <2>3, <2>5
  <2>7. Elems(free') \cup Elems(Held(ioIdx')) = Elems(free) \cup Elems(Held(ioIdx))
    BY <2>1, <2>4, <2>5
  <2> QED BY <1>1, <1>4, <2>1, <2>6, <2>7 DEF SlotsApart
<1>5. CASE IoPublish /\ UNCHANGED <<consIdx, runs>>
  <2>1. ioIdx \in Slot /\ ioIdx' = NoSlot
    BY <1>5 DEF IoPublish, EngineInv, EngineType
  <2>2. \/ ready' = Append(ready, ioIdx) /\ UNCHANGED free
        \/ free' = Append(free, ioIdx) /\ UNCHANGED ready
    BY <1>5 DEF IoPublish
  <2>3. /\ Len(Append(ready, ioIdx)) = Len(ready) + 1 /\ Len(ready) \in Nat
        /\ Len(Append(free, ioIdx)) = Len(free) + 1 /\ Len(free) \in Nat
    BY <1>0
  <2>4. /\ Elems(Append(ready, ioIdx)) = Elems(ready) \cup {ioIdx}
        /\ Elems(Append(free, ioIdx)) = Elems(free) \cup {ioIdx}
    BY <1>0, <2>1, ElemsAppend
  <2>5. /\ Len(Held(ioIdx)) = 1 /\ Elems(Held(ioIdx)) = {ioIdx}
        /\ Len(Held(ioIdx')) = 0 /\ Elems(Held(ioIdx')) = {}
    BY <2>1, HeldFacts
  <2>6. Len(free') + Len(Held(ioIdx')) + Len(ready') = Len(free) + Len(Held(ioIdx)) + Len(ready)
    BY <2>2, <2>3, <2>5
  <2>7. Elems(free') \cup Elems(Held(ioIdx')) \cup Elems(ready') =
          Elems(free) \cup Elems(Held(ioIdx)) \cup Elems(ready)
    BY <2>2, <2>4, <2>5
  <2> QED BY <1>1, <1>5, <2>6, <2>7 DEF SlotsApart
<1>6. CASE ConsPop /\ UNCHANGED <<ioIdx, runs>>
  <2>1. CASE ready = <<>> BY <1>3, <1>6, <2>1 DEF ConsPop, ConsGoto
  <2>2. CASE ready # <<>>
    <3>1. consIdx' = Head(ready) /\ ready' = Tail(ready) /\ UNCHANGED free
      BY <1>6, <2>2 DEF ConsPop, FreeAtPop
    <3>2. consIdx = NoSlot
      BY <1>6 DEF ConsPop, EngineInv, EngineType
    <3>3. /\ Head(ready) \in Slot
          /\ Len(ready) = Len(ready') + 1 /\ Len(ready) \in Nat /\ Len(ready') \in Nat
      BY <1>0, <2>2, <3>1
    <3>4. Elems(ready) = {Head(ready)} \cup Elems(Tail(ready))
      BY <1>0, <2>2, ElemsHeadTail
    <3>5. /\ Len(Held(consIdx)) = 0 /\ Elems(Held(consIdx)) = {}
          /\ Len(Held(consIdx')) = 1 /\ Elems(Held(consIdx')) = {Head(ready)}
      BY <3>1, <3>2, <3>3, HeldFacts
    <3>6. Len(free) + Len(Held(ioIdx)) + Len(ready') + Len(Held(consIdx'))
            = Len(free) + Len(Held(ioIdx)) + Len(ready) + Len(Held(consIdx))
      BY <3>3, <3>5
    <3>7. Elems(ready') \cup Elems(Held(consIdx')) = Elems(ready) \cup Elems(Held(consIdx))
      BY <3>1, <3>4, <3>5
    <3> QED BY <1>1, <1>6, <3>1, <3>6, <3>7 DEF SlotsApart
  <2> QED BY <2>1, <2>2
<1>7. CASE ConsFree /\ UNCHANGED <<ioIdx, runs>>
  <2>1. consIdx \in Slot /\ consIdx' = NoSlot /\ free' = Append(free, consIdx) /\ UNCHANGED ready
    BY <1>7 DEF ConsFree, FreeIdx, EngineInv, EngineType
  <2>2. Len(Append(free, consIdx)) = Len(free) + 1 /\ Len(free) \in Nat
    BY <1>0
  <2>3. Elems(Append(free, consIdx)) = Elems(free) \cup {consIdx}
    BY <1>0, <2>1, ElemsAppend
  <2>4. /\ Len(Held(consIdx)) = 1 /\ Elems(Held(consIdx)) = {consIdx}
        /\ Len(Held(consIdx')) = 0 /\ Elems(Held(consIdx')) = {}
    BY <2>1, HeldFacts
  <2> QED BY <1>1, <1>7, <2>1, <2>2, <2>3, <2>4 DEF SlotsApart
<1>8. CASE Run /\ MainKeeps
  <2>1. free' = [k \in 1..Capacity |-> k - 1] /\ ready' = <<>> /\ UNCHANGED <<ioIdx, consIdx>>
    BY <1>8 DEF Run, MainKeeps
  <2>2. ioIdx = NoSlot /\ consIdx = NoSlot
    BY <1>8 DEF Run, EngineInv, EngineType, Threads
  <2>3. Len(free') = Capacity /\ Elems(free') = Slot
    <3>1. Len(free') = Capacity
      BY <1>0, <2>1
    <3>2. \A k \in 1..Capacity : free'[k] = k - 1
      BY <2>1
    <3>3. ASSUME NEW x \in Slot PROVE x \in Elems(free')
      <4>1. x + 1 \in 1..Capacity /\ (x + 1) - 1 = x
        BY <1>0 DEF Slot
      <4> QED BY <3>1, <3>2, <4>1 DEF Elems
    <3>4. Elems(free') \subseteq Slot
      BY ElemsIn DEF EngineType
    <3> QED BY <3>1, <3>3, <3>4
  <2>4. 0 \in Slot
    BY EngineV1Assumption DEF Slot
  <2>5. /\ Len(Held(NoSlot)) = 0 /\ Elems(Held(NoSlot)) = {}
        /\ Len(ready') = 0 /\ Elems(ready') = {}
    BY <2>1, <2>4, HeldFacts, ElemsSmall
  <2> QED BY <1>0, <2>1, <2>2, <2>3, <2>5 DEF SlotsApart
<1>9. CASE Io
  <2>0. UNCHANGED <<consIdx, runs>>
    BY <1>9 DEF Io
  <2>1. \/ IoCopy \/ IoPublish \/ UNCHANGED <<free, ready, ioIdx>>
    BY <1>9 DEF Io, IoGoto, IoSetupFails, IoSocket, IoEventfd, IoCtl, IoWhile, IoWait,
         IoWaitFails, IoEventsDone, IoEventWake, IoEventSock, IoRecv, IoRecvAgain,
         IoRecvFails, IoCopied, IoDrop, IoCleanup
  <2> QED BY <1>3, <1>4, <1>5, <2>0, <2>1
<1>10. CASE Cons
  <2>0. UNCHANGED <<ioIdx, runs>>
    BY <1>10 DEF Cons
  <2>1. \/ ConsPop \/ ConsFree \/ UNCHANGED <<free, ready, consIdx>>
    BY <1>10 DEF Cons, ConsWhile, ConsEmpty, ConsGoto, ConsDecode
  <2> QED BY <1>3, <1>6, <1>7, <2>0, <2>1
<1>11. CASE (Stop /\ MainKeeps) \/ Returning
  BY <1>3, <1>11 DEF Stop, MainKeeps, Returning, RunSpawn, Stopping, StopExchange,
       StopReadWake, StopWrite, StopJoinIo, StopJoinCons, StopJoinReporter, MainGoto
<1>12. CASE ReporterExit \/ Arrive \/ UNCHANGED vars
  BY <1>3, <1>12 DEF ReporterExit, Arrive, vars
<1> QED BY <1>8, <1>9, <1>10, <1>11, <1>12 DEF Next

-----------------------------------------------------------------------------
(* The frames in the slots.                                                *)

\* The slot that the io thread takes from `free' is in nobody's hand and not
\* in `ready'.
LEMMA HeadFreeAlone ==
    ASSUME EngineInv, IoCopy
    PROVE  Head(free) \in Slot /\ Head(free) \notin Elems(ready) \cup Elems(Held(consIdx))
<1>0. /\ free \in Seq(Slot) /\ ready \in Seq(Slot) /\ consIdx \in Slot \cup {NoSlot}
      /\ ioIdx = NoSlot /\ Capacity \in Nat /\ 0 \in Slot /\ free # <<>>
  BY EngineV1Assumption DEF EngineInv, EngineType, IoCopy, Slot
<1>1. runs > 0
  BY DEF EngineInv, EngineType, Threads, IoCopy
<1>2. Held(consIdx) \in Seq(Slot) /\ Len(Held(ioIdx)) = 0 /\ Elems(Held(ioIdx)) = {}
  BY <1>0, HeldFacts
<1>3. /\ Len(free) + Len(Held(ioIdx)) + Len(ready) + Len(Held(consIdx)) = Capacity
      /\ Elems(free) \cup Elems(Held(ioIdx)) \cup Elems(ready) \cup Elems(Held(consIdx)) = Slot
  BY <1>1, ApartNow DEF SlotsApart
<1> DEFINE t == ready \o Held(consIdx)
<1>4. t \in Seq(Slot) /\ Len(t) = Len(ready) + Len(Held(consIdx))
  BY <1>0, <1>2
<1>5. Elems(t) = Elems(ready) \cup Elems(Held(consIdx))
  BY <1>0, <1>2, ElemsConcat
<1> HIDE DEF t
<1>6. Len(free \o t) = Len(free) + Len(t) /\ Len(free) \in Nat /\ Len(ready) \in Nat
  BY <1>0, <1>4
<1>7. Elems(free \o t) = Elems(free) \cup Elems(t)
  BY <1>0, <1>4, ElemsConcat
<1>8. IsFiniteSet(Slot) /\ Cardinality(Slot) = Capacity
  BY <1>0, FS_Interval DEF Slot
<1>9. Len(free \o t) = Cardinality(Slot) /\ Elems(free \o t) = Slot
  BY <1>2, <1>3, <1>4, <1>5, <1>6, <1>7, <1>8
<1>10. Head(free) \notin Elems(Tail(free)) \cup Elems(t)
  BY <1>0, <1>4, <1>8, <1>9, HeadOnce
<1> QED BY <1>0, <1>5, <1>10

LEMMA PlaceByPlace ==
    ASSUME NEW p \in Seq(Uint64), NEW h \in Seq(Slot), NEW s
    PROVE  p = [i \in 1..Len(h) |-> s[h[i]]]
           <=> Len(p) = Len(h) /\ \A i \in 1..Len(h) : p[i] = s[h[i]]
<1>1. Len(p) \in Nat /\ DOMAIN p = 1..Len(p) /\ Len(h) \in Nat /\ p = [i \in 1..Len(p) |-> p[i]]
  OBVIOUS
<1>2. ASSUME p = [i \in 1..Len(h) |-> s[h[i]]]
      PROVE  Len(p) = Len(h) /\ \A i \in 1..Len(h) : p[i] = s[h[i]]
  <2>1. DOMAIN p = 1..Len(h)
    BY <1>2
  <2>2. \A i \in 1..Len(h) : p[i] = s[h[i]]
    BY <1>2
  <2> QED BY <1>1, <2>1, <2>2
<1>3. ASSUME Len(p) = Len(h), \A i \in 1..Len(h) : p[i] = s[h[i]]
      PROVE  p = [i \in 1..Len(h) |-> s[h[i]]]
  BY <1>1, <1>3
<1> QED BY <1>2, <1>3

\* The frames that are published and not decoded yet, as FramesIntact lists them.
Undecoded == (IF consPc = "decode" THEN <<consIdx>> ELSE <<>>) \o ready

\* FramesIntact, place by place.
IntactByPlace ==
    /\ Len(pending) = Len(Undecoded)
    /\ \A i \in 1..Len(Undecoded) : pending[i] = slots[Undecoded[i]]

LEMMA IntactStep ==
    ASSUME EngineInv, [Next]_vars, EngineType'
    PROVE  FramesIntact'
<1> USE DEF fds, kernel, poolVars, ioVars, history
<1>0. /\ ready \in Seq(Slot) /\ pending \in Seq(Uint64) /\ slots \in [Slot -> Datagram]
      /\ consPc = "decode" => consIdx \in Slot
      /\ ready' \in Seq(Slot) /\ pending' \in Seq(Uint64)
      /\ consPc' = "decode" => consIdx' \in Slot
  BY DEF EngineInv, EngineType
<1>1. Undecoded \in Seq(Slot) /\ Undecoded' \in Seq(Slot)
  BY <1>0 DEF Undecoded
<1>2. IntactByPlace
  <2>1. pending = [i \in 1..Len(Undecoded) |-> slots[Undecoded[i]]]
    BY DEF EngineInv, FramesIntact, Undecoded
  <2> QED BY <1>0, <1>1, <2>1, PlaceByPlace DEF IntactByPlace
<1>3. SUFFICES IntactByPlace'
  <2>1. pending' = [i \in 1..Len(Undecoded') |-> slots'[Undecoded'[i]]]
    BY <1>0, <1>1, PlaceByPlace DEF IntactByPlace
  <2> QED BY <2>1 DEF FramesIntact, Undecoded
<1>4. ASSUME UNCHANGED <<ready, pending, slots>>,
             consPc' = "decode" => consPc = "decode" /\ UNCHANGED consIdx,
             consPc = "decode" => consPc' = "decode"
      PROVE  IntactByPlace'
  <2>1. Undecoded' = Undecoded
    BY <1>4 DEF Undecoded
  <2> QED BY <1>2, <1>4, <2>1 DEF IntactByPlace
<1>5. CASE IoCopy /\ UNCHANGED <<consPc, consIdx>>
  <2>1. Undecoded' = Undecoded /\ pending' = pending
    BY <1>5 DEF IoCopy, Undecoded
  <2>2. Head(free) \in Slot /\ Head(free) \notin Elems(ready) \cup Elems(Held(consIdx))
    BY <1>5, HeadFreeAlone
  <2>3. \A i \in 1..Len(Undecoded) : Undecoded[i] # Head(free) /\ Undecoded[i] \in Slot
    <3>1. CASE consPc = "decode"
      <4>1. Elems(Held(consIdx)) = {consIdx}
        BY <1>0, <3>1, HeldFacts
      <4>2. /\ Undecoded = <<consIdx>> \o ready /\ <<consIdx>> \in Seq(Slot)
            /\ Elems(<<consIdx>>) = {consIdx}
        BY <1>0, <3>1, ElemsSmall DEF Undecoded
      <4>3. Elems(<<consIdx>> \o ready) = Elems(<<consIdx>>) \cup Elems(ready)
        <5>1. \A s, r \in Seq(Slot) : Elems(s \o r) = Elems(s) \cup Elems(r)
          BY ElemsConcat
        <5> QED BY <1>0, <4>2, <5>1, Zenon
      <4>4. \A i \in 1..Len(Undecoded) : Undecoded[i] \in Elems(Undecoded)
        BY Zenon DEF Elems
      <4>5. \A i \in 1..Len(Undecoded) : Undecoded[i] \in Slot
        BY <1>1
      <4>6. Elems(Undecoded) = {consIdx} \cup Elems(ready)
        BY <4>2, <4>3, Zenon
      <4> QED BY <2>2, <4>1, <4>4, <4>5, <4>6, Zenon
    <3>2. CASE consPc # "decode"
      <4>1. Undecoded = ready
        BY <1>0, <3>2 DEF Undecoded
      <4> QED BY <1>1, <2>2, <4>1 DEF Elems
    <3> QED BY <3>1, <3>2
  <2>4. \A k \in Slot : k # Head(free) => slots'[k] = slots[k]
    BY <1>0, <1>5 DEF IoCopy
  <2> QED BY <1>2, <2>1, <2>3, <2>4 DEF IntactByPlace
<1>6. CASE IoPublish /\ UNCHANGED <<consPc, consIdx>>
  <2>1. UNCHANGED slots /\ ioIdx \in Slot /\ slots[ioIdx] = Head(msgs) /\ Head(msgs) \in Uint64
    BY <1>6 DEF IoPublish, EngineInv, EngineType, IoHolds
  <2>2. CASE ready' = Append(ready, ioIdx) /\ pending' = Append(pending, Head(msgs))
    <3>1. Undecoded' = Append(Undecoded, ioIdx)
      <4>1. CASE consPc = "decode"
        BY <1>0, <1>6, <2>1, <2>2, <4>1 DEF Undecoded
      <4>2. CASE consPc # "decode"
        BY <1>0, <1>6, <2>1, <2>2, <4>2 DEF Undecoded
      <4> QED BY <4>1, <4>2
    <3>2. /\ Len(Undecoded') = Len(Undecoded) + 1 /\ Len(Undecoded) \in Nat
          /\ \A i \in 1..Len(Undecoded) : Undecoded'[i] = Undecoded[i]
          /\ Undecoded'[Len(Undecoded) + 1] = ioIdx
      BY <1>1, <2>1, <3>1
    <3>3. /\ Len(pending') = Len(pending) + 1
          /\ \A i \in 1..Len(pending) : pending'[i] = pending[i]
          /\ pending'[Len(pending) + 1] = Head(msgs)
      BY <1>0, <2>1, <2>2
    <3>4. \A i \in 1..(Len(Undecoded) + 1) : i \in 1..Len(Undecoded) \/ i = Len(Undecoded) + 1
      BY <3>2
    <3> QED BY <1>2, <2>1, <3>2, <3>3, <3>4 DEF IntactByPlace
  <2>3. CASE UNCHANGED <<ready, pending>>
    BY <1>4, <1>6, <2>1, <2>3
  <2> QED BY <1>6, <2>2, <2>3 DEF IoPublish
<1>7. CASE ConsPop /\ UNCHANGED slots
  <2>1. CASE ready = <<>> BY <1>4, <1>7, <2>1 DEF ConsPop, ConsGoto
  <2>2. CASE ready # <<>>
    <3>1. /\ consPc # "decode" /\ consPc' = "decode" /\ consIdx' = Head(ready)
          /\ ready' = Tail(ready) /\ UNCHANGED pending
      BY <1>7, <2>2 DEF ConsPop
    <3>2. Undecoded' = <<Head(ready)>> \o Tail(ready) /\ Undecoded = <<>> \o ready
      BY <3>1 DEF Undecoded
    <3>3. Undecoded' = Undecoded
      BY <1>0, <2>2, <3>2
    <3> QED BY <1>2, <1>7, <3>1, <3>3 DEF IntactByPlace
  <2> QED BY <2>1, <2>2
<1>8. CASE ConsDecode /\ UNCHANGED slots
  <2>1. consPc = "decode" /\ consPc' = "free" /\ pending' = Tail(pending) /\ UNCHANGED ready
    BY <1>8 DEF ConsDecode
  <2>2. Undecoded = <<consIdx>> \o ready /\ Undecoded' = ready /\ consIdx \in Slot
    BY <1>0, <2>1 DEF Undecoded
  <2>3. /\ Len(Undecoded) = Len(ready) + 1 /\ Len(ready) \in Nat
        /\ \A i \in 1..Len(ready) : ready[i] = Undecoded[i + 1]
    BY <1>0, <2>2
  <2>4. Len(pending) = Len(ready) + 1
    BY <1>2, <2>3 DEF IntactByPlace
  <2>5. /\ Len(pending') = Len(ready)
        /\ \A i \in 1..Len(ready) : pending'[i] = pending[i + 1]
    BY <1>0, <2>1, <2>3, <2>4
  <2>6. \A i \in 1..Len(ready) : i + 1 \in 1..Len(Undecoded)
    BY <2>3
  <2> QED BY <1>2, <1>8, <2>2, <2>3, <2>5, <2>6 DEF IntactByPlace
<1>9. CASE Run /\ MainKeeps
  <2>1. consPc' # "decode" /\ ready' = <<>> /\ pending' = <<>>
    BY <1>9 DEF Run, EngineInv, Threads
  <2>2. Undecoded' = <<>>
    BY <2>1 DEF Undecoded
  <2> QED BY <2>1, <2>2 DEF IntactByPlace
<1>10. CASE Io
  <2>0. UNCHANGED <<consPc, consIdx>>
    BY <1>10 DEF Io
  <2>1. IoCopy \/ IoPublish \/ UNCHANGED <<ready, pending, slots>>
    BY <1>10 DEF Io, IoGoto, IoSetupFails, IoSocket, IoEventfd, IoCtl, IoWhile, IoWait,
         IoWaitFails, IoEventsDone, IoEventWake, IoEventSock, IoRecv, IoRecvAgain,
         IoRecvFails, IoCopied, IoDrop, IoCleanup
  <2> QED BY <1>4, <1>5, <1>6, <2>0, <2>1
<1>11. CASE Cons
  <2>0. UNCHANGED slots
    BY <1>11 DEF Cons
  <2>1. \/ ConsPop \/ ConsDecode
        \/ /\ UNCHANGED <<ready, pending>>
           /\ consPc # "decode" /\ consPc' # "decode"
    BY <1>11 DEF Cons, ConsWhile, ConsEmpty, ConsGoto, ConsFree
  <2> QED BY <1>4, <1>7, <1>8, <2>0, <2>1
<1>12. CASE (Stop /\ MainKeeps /\ UNCHANGED history) \/ Returning
  <2>1. UNCHANGED <<ready, pending, slots, consIdx>>
    BY <1>12 DEF Stop, MainKeeps, Returning, RunSpawn, Stopping, StopExchange,
         StopReadWake, StopWrite, StopJoinIo, StopJoinCons, StopJoinReporter, MainGoto
  <2>2. UNCHANGED consPc \/ (consPc # "decode" /\ consPc' # "decode")
    BY <1>12 DEF Stop, Returning, RunSpawn, Stopping, StopExchange, StopReadWake, StopWrite,
         StopJoinIo, StopJoinCons, StopJoinReporter, MainGoto, EngineInv, Threads
  <2> QED BY <1>4, <2>1, <2>2
<1>13. CASE ReporterExit \/ Arrive \/ UNCHANGED vars
  BY <1>4, <1>13 DEF ReporterExit, Arrive, vars
<1> QED BY <1>9, <1>10, <1>11, <1>12, <1>13 DEF Next

-----------------------------------------------------------------------------
(* The account of the datagrams.                                           *)

\* What a step may do to the datagrams not yet counted: they are received, stay
\* uncounted when the pool is reset, or one of them leaves for a counter.
Moved == Flow(SeqModulus, taken, processed, drops, Uncounted,
              taken', processed', drops', Uncounted')

LEMMA FlowStep ==
    ASSUME EngineInv, [Next]_vars
    PROVE  Moved
<1> USE DEF fds, kernel, poolVars, ioVars, history
<1>0. /\ sock \in Seq(Datagram) /\ msgs \in Seq(Datagram) /\ pending \in Seq(Uint64)
      /\ taken \in Int /\ abandoned \in Nat /\ ready \in Seq(Slot)
      /\ Len(msgs) \in Nat /\ Len(pending) \in Nat
  BY DEF EngineInv, EngineType
<1>1. ASSUME UNCHANGED <<taken, abandoned, msgs, pending, processed, drops>>
      PROVE  Moved
  BY <1>0, <1>1 DEF Moved, Flow, Uncounted, InFlight, Add
<1>2. CASE IoRecv /\ UNCHANGED <<processed, drops>>
  <2> DEFINE n == IF Len(sock) < BATCH THEN Len(sock) ELSE BATCH
  <2>1. n \in Nat /\ n <= Len(sock)
    BY <1>0, EngineV1Assumption
  <2>2. msgs = <<>> /\ msgs' = SubSeq(sock, 1, n) /\ taken' = taken + n /\ UNCHANGED <<abandoned, pending>>
    BY <1>2 DEF IoRecv, EngineInv, IoHolds
  <2> HIDE DEF n
  <2>3. Len(msgs') = n /\ Len(msgs) = 0
    BY <1>0, <2>1, <2>2
  <2> QED BY <1>0, <1>2, <2>1, <2>2, <2>3 DEF Moved, Flow, Uncounted, InFlight, Add
<1>3. CASE IoDrop /\ UNCHANGED processed
  <2>1. Len(msgs') = Len(msgs) - 1 /\ Len(msgs) > 0
    BY <1>0, <1>3 DEF IoDrop
  <2>2. UNCHANGED <<taken, abandoned, pending>> /\ drops' = Add(drops, 1)
    BY <1>3 DEF IoDrop, CountDrop
  <2> QED BY <1>0, <1>3, <2>1, <2>2 DEF Moved, Flow, Uncounted, InFlight, Add
<1>4. CASE IoPublish /\ UNCHANGED processed
  <2>1. Len(msgs') = Len(msgs) - 1 /\ Len(msgs) > 0
    BY <1>0, <1>4 DEF IoPublish, EngineInv, IoHolds
  <2>2. CASE Len(ready) < Capacity
    <3>1. Len(pending') = Len(pending) + 1 /\ UNCHANGED <<taken, abandoned, drops>>
      BY <1>0, <1>4, <2>2 DEF IoPublish
    <3> QED BY <1>0, <1>4, <2>1, <3>1 DEF Moved, Flow, Uncounted, InFlight, Add
  <2>3. CASE ~(Len(ready) < Capacity)
    <3>1. UNCHANGED <<taken, abandoned, pending>> /\ drops' = Add(drops, 1)
      BY <1>4, <2>3 DEF IoPublish, CountDrop
    <3> QED BY <1>0, <1>4, <2>1, <3>1 DEF Moved, Flow, Uncounted, InFlight, Add
  <2> QED BY <2>2, <2>3
<1>5. CASE ConsDecode /\ UNCHANGED <<taken, abandoned, msgs>>
  <2>1. Len(pending') = Len(pending) - 1 /\ Len(pending) > 0
    BY <1>0, <1>5, DecodeHead DEF ConsDecode, EngineInv
  <2>2. \/ processed' = Add(processed, 1) /\ drops' = drops
        \/ processed' = processed /\ drops' = Add(drops, 1)
    BY <1>5 DEF ConsDecode, Track, Accept, Reject
  <2> QED BY <1>0, <1>5, <2>1, <2>2 DEF Moved, Flow, Uncounted, InFlight, Add
<1>6. CASE Run /\ MainKeeps
  <2>1. msgs' = msgs /\ UNCHANGED <<processed, drops>>
    BY <1>6 DEF MainKeeps, trackerVars
  <2>2. /\ abandoned' = abandoned + Len(pending) /\ taken' = taken
        /\ Len(pending') = 0 /\ Len(msgs') = Len(msgs)
    BY <1>6, <2>1 DEF Run
  <2> QED BY <1>0, <2>1, <2>2 DEF Moved, Flow, Uncounted, InFlight, Add
<1>7. CASE Io
  <2>0. UNCHANGED processed
    BY <1>7 DEF Io
  <2>1. \/ IoRecv \/ IoDrop \/ IoPublish \/ UNCHANGED <<taken, abandoned, msgs, pending, drops>>
    BY <1>7 DEF Io, IoGoto, IoSetupFails, IoSocket, IoEventfd, IoCtl, IoWhile, IoWait,
         IoWaitFails, IoEventsDone, IoEventWake, IoEventSock, IoRecvAgain,
         IoRecvFails, IoCopied, IoCopy, IoCleanup
  <2>2. IoRecv => UNCHANGED drops
    BY DEF IoRecv
  <2> QED BY <1>1, <1>2, <1>3, <1>4, <2>0, <2>1, <2>2
<1>8. CASE Cons
  <2>0. UNCHANGED <<taken, abandoned, msgs>>
    BY <1>8 DEF Cons
  <2>1. ConsDecode \/ UNCHANGED <<pending, processed, drops>>
    BY <1>8 DEF Cons, ConsWhile, ConsEmpty, ConsPop, ConsGoto, ConsFree, trackerVars
  <2> QED BY <1>1, <1>5, <2>0, <2>1
<1>9. CASE (Stop /\ MainKeeps /\ UNCHANGED history) \/ Returning
  BY <1>1, <1>9 DEF MainKeeps, Returning, trackerVars
<1>10. CASE ReporterExit \/ Arrive \/ UNCHANGED vars
  BY <1>1, <1>10 DEF ReporterExit, Arrive, vars, trackerVars
<1> QED BY <1>6, <1>7, <1>8, <1>9, <1>10 DEF Next

LEMMA AccountStep ==
    ASSUME EngineInv, [Next]_vars, EngineType'
    PROVE  FramesAccounted' /\ UncountedTaken'
<1>1. /\ taken \in Int /\ taken' \in Int /\ Uncounted \in Int /\ Uncounted' \in Int
      /\ processed \in Int /\ processed' \in Int /\ drops \in Int /\ drops' \in Int
      /\ SeqModulus \in Nat \ {0}
  <2>1. EngineType
    BY DEF EngineInv
  <2>2. taken \in Int /\ taken' \in Int /\ Uncounted \in Int /\ Uncounted' \in Int
    BY <2>1 DEF EngineType, Uncounted, InFlight
  <2>3. processed \in Uint64 /\ processed' \in Uint64 /\ drops \in Uint64 /\ drops' \in Uint64
    BY <2>1, Zenon DEF EngineType, TrackerTypeOK
  <2>4. SeqModulus \in Nat \ {0}
    BY SeqAssumption
  <2> QED BY <2>2, <2>3, <2>4 DEF Uint64
<1>2. Account(SeqModulus, taken, processed, drops, Uncounted)
  <2>1. Uncounted = abandoned + InFlight /\ abandoned \in Int /\ InFlight \in Int
    BY DEF EngineInv, EngineType, Uncounted, InFlight
  <2>2. processed + drops + Uncounted = processed + drops + abandoned + InFlight
    BY <1>1, <2>1
  <2> QED BY <2>2 DEF EngineInv, FramesAccounted, UncountedTaken, Account, Congruent
<1>3. Account(SeqModulus, taken', processed', drops', Uncounted')
  BY <1>1, <1>2, FlowStep, AccountKept, Zenon DEF Moved
<1>4. processed' + drops' + Uncounted' = processed' + drops' + abandoned' + InFlight'
  <2>1. Uncounted' = abandoned' + InFlight' /\ abandoned' \in Int /\ InFlight' \in Int
    BY DEF EngineType, Uncounted, InFlight
  <2> QED BY <1>1, <2>1
<1> QED BY <1>3, <1>4 DEF FramesAccounted, UncountedTaken, Account, Congruent

-----------------------------------------------------------------------------
(* Every behaviour.                                                        *)

LEMMA InvInit == Init => EngineInv
<1> SUFFICES ASSUME Init PROVE EngineInv
  OBVIOUS
<1> USE DEF Init, TrackerInit
<1>1. EngineType
  <2>1. <<>> \in Seq(Datagram) /\ <<>> \in Seq(Uint64) /\ <<>> \in Seq(Slot)
    OBVIOUS
  <2>2. slots \in [Slot -> Datagram]
    BY DEF Datagram
  <2>3. TrackerTypeOK
    <3>1. seq_initialized \in BOOLEAN
      BY Zenon
    <3>2. 0 \in Uint64
      BY DEF Uint64
    <3> QED BY <3>1, <3>2 DEF TrackerTypeOK
  <2> QED BY <2>1, <2>2, <2>3 DEF EngineType, IoOutside
<1>2. IoHolds /\ Threads /\ EdgeKept
  BY DEF IoHolds, Threads, EdgeKept, IoOutside
<1>3. UncountedTaken
  BY DEF UncountedTaken, Uncounted, InFlight
<1>4. SlotsConserved
  BY DEF SlotsConserved
<1>5. FramesIntact
  BY DEF FramesIntact
<1>6. FramesAccounted
  BY DEF FramesAccounted, InFlight
<1> QED BY <1>1, <1>2, <1>3, <1>4, <1>5, <1>6 DEF EngineInv

LEMMA InvStep == EngineInv /\ [Next]_vars => EngineInv'
<1> SUFFICES ASSUME EngineInv, [Next]_vars PROVE EngineInv'
  OBVIOUS
<1>1. EngineType'
  BY TypeStep
<1>2. IoHolds' /\ Threads' /\ EdgeKept'
  BY ControlStep
<1>3. SlotsConserved' /\ FramesIntact' /\ FramesAccounted' /\ UncountedTaken'
  BY <1>1, SlotsStep, IntactStep, AccountStep
<1> QED BY <1>1, <1>2, <1>3 DEF EngineInv

\* Every reachable state satisfies the inductive invariant.
THEOREM EngineInvariant == Spec => []EngineInv
  BY InvInit, InvStep, PTL DEF Spec

\* No interleaving of run(), stop(), the io thread and the consumer loses a
\* slot of the pool or leaves it with two of them, over any number of runs.
THEOREM SlotsAreConserved == Spec => []SlotsConserved
<1>1. EngineInv => SlotsConserved
  BY DEF EngineInv
<1> QED BY <1>1, EngineInvariant, PTL

\* The consumer decodes every published frame as it was received, and in the
\* order of receipt: the io thread never writes a slot that `ready' or the
\* consumer holds.
THEOREM FramesStayIntact == Spec => []FramesIntact
<1>1. EngineInv => FramesIntact
  BY DEF EngineInv
<1> QED BY <1>1, EngineInvariant, PTL

\* Every datagram received is counted once, modulo the width of the counters,
\* is in flight, or was left in `ready' by a stop() whose consumer ended before
\* the io thread's last frames; none is counted twice or not at all.
THEOREM FramesAreAccounted == Spec => []FramesAccounted
<1>1. EngineInv => FramesAccounted
  BY DEF EngineInv
<1> QED BY <1>1, EngineInvariant, PTL

\* The server never waits for an edge that it has already consumed.
THEOREM EdgesAreNotLost == Spec => []NoLostEdge
<1>1. EngineInv => NoLostEdge
  BY DEF EngineInv, EdgeKept, NoLostEdge
<1> QED BY <1>1, EngineInvariant, PTL

\* `ready' always has room for the slot in the io thread's hand, so that
\* `free' has the consumer as its only producer, as RingBuffer asks for.
THEOREM ReadyHasRoom == Spec => [](ioPc = "publish" => Len(ready) < Capacity)
<1>1. EngineInv => (ioPc = "publish" => Len(ready) < Capacity)
  <2> SUFFICES ASSUME EngineInv, ioPc = "publish" PROVE Len(ready) < Capacity
    OBVIOUS
  <2>1. /\ free \in Seq(Slot) /\ ready \in Seq(Slot) /\ ioIdx \in Slot
        /\ consIdx \in Slot \cup {NoSlot} /\ runs > 0 /\ 0 \in Slot /\ Capacity \in Nat
    <3>1. EngineType /\ Threads
      BY DEF EngineInv
    <3>2. /\ free \in Seq(Slot) /\ ready \in Seq(Slot) /\ ioIdx \in Slot
          /\ consIdx \in Slot \cup {NoSlot}
      BY <3>1 DEF EngineType
    <3>3. runs > 0
      BY <3>1 DEF EngineType, Threads
    <3>4. 0 \in Slot /\ Capacity \in Nat
      BY EngineV1Assumption DEF Slot
    <3> QED BY <3>2, <3>3, <3>4, Zenon
  <2>2. Len(free) + Len(Held(ioIdx)) + Len(ready) + Len(Held(consIdx)) = Capacity
    BY <2>1, ApartNow DEF SlotsApart
  <2>3. Len(Held(ioIdx)) = 1 /\ Len(Held(consIdx)) \in Nat
    BY <2>1, HeldFacts
  <2>4. Len(free) \in Nat /\ Len(ready) \in Nat
    BY <2>1
  <2> QED BY <2>1, <2>2, <2>3, <2>4
<1> QED BY <1>1, EngineInvariant, PTL
=============================================================================
