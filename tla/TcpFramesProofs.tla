--------------------------- MODULE TcpFramesProofs ---------------------------
(***************************************************************************)
(* The rest of the invariant of TcpServer: the slots of the pool, the      *)
(* frames handed on, and their accounting.  With what TcpServerProofs      *)
(* shows of the threads, the connections and the streams it makes          *)
(* ServerInv inductive, and the theorems about the server follow.          *)
(***************************************************************************)
EXTENDS TcpServerProofs, FiniteSetTheorems

\* The pool is touched by consume_frames and by its user only.
LEMMA PoolStep ==
    ASSUME [Next]_vars
    PROVE  (IoConsume /\ Quiet) \/ Consume \/ UNCHANGED pool
<1>1. (IoSetupFails \/ IoListen \/ IoWakeFd \/ IoCleanup \/ IoWhile \/ IoWait \/ IoWaitFails
        \/ IoEventsDone \/ IoEventWake \/ (\E e \in Fds \cup {Listen} : IoEventRead(e))
        \/ (\E f \in Fds : IoEventHup(f))
        \/ (\E fd \in Fds, added \in BOOLEAN : IoAccept(fd, added))
        \/ IoAccepted \/ IoRecv \/ IoRecvDrained \/ IoRecvEof \/ IoRecvFails \/ IoConsumed
        \/ Start \/ Stop \/ StopReadWake \/ StopWrite \/ StopJoin
        \/ (\E c \in Conns : ClientConnect(c)) \/ (\E c \in Conns : ClientSend(c))
        \/ (\E c \in Conns : ClientClose(c)) \/ UNCHANGED vars) => UNCHANGED pool
  BY Zenon DEF IoSetupFails, IoListen, IoWakeFd, IoCleanup, IoWhile, IoWait, IoWaitFails,
         IoEventsDone, IoEventWake, IoEventRead, IoEventHup, IoAccept, IoAccepted, IoRecv,
         IoRecvDrained, IoRecvEof, IoRecvFails, IoConsumed, Goto, Start, Stop, StopReadWake,
         StopWrite, StopJoin, ClientConnect, ClientSend, ClientClose, vars, pool
<1> QED BY ServerSteps, <1>1

\* What consume_frames does to it.
HandOn(frame) ==
    /\ free # <<>>
    /\ free' = Tail(free) /\ slots' = [slots EXCEPT ![Head(free)] = frame]
    /\ ready' = Append(ready, Head(free)) /\ UNCHANGED <<drops, consumed>>
DropIt == drops' = drops + 1 /\ UNCHANGED <<free, ready, slots, consumed>>

LEMMA ConsumeStep ==
    ASSUME ServerInv, IoConsume
    PROVE  \E c \in Conns :
             /\ \A d \in Conns : d # c => Complete(d)' = Complete(d) /\ Cut(d)' = Cut(d)
             /\ \/ Complete(c)' = Complete(c) /\ Cut(c)' = Cut(c) /\ UNCHANGED pool
                \/ /\ Complete(c)' = Complete(c) + 1 /\ Cut(c)' = Cut(c) + kWireSize
                   /\ HandOn(Stream(c, Cut(c), kWireSize)) \/ DropIt
<1>0. ServerType /\ Table /\ Streams
  BY DEF ServerInv
<1>1. PICK c \in Conns, take \in 1..Len(chunk), frame \in Seq(Bytes) :
           /\ c = fdConn[cur] /\ cur \in Fds
           /\ frame = Stream(c, Cut(c), Done(c) - Cut(c) + take)
           /\ Done(c) - Cut(c) + take <= kWireSize
           /\ Len(frame) = Done(c) - Cut(c) + take
           /\ chunk' = Stream(c, Done(c) + take, Len(chunk) - take)
           /\ IF Len(frame) = kWireSize
              THEN Enqueue(frame) /\ conns' = [conns EXCEPT ![cur].frame = <<>>]
              ELSE /\ conns' = [conns EXCEPT ![cur].frame = frame]
                   /\ UNCHANGED <<free, ready, slots, drops>>
  BY <1>0, ConsumeFacts
<1>2. Done(c)' = Done(c) + take /\ \A d \in Conns : d # c => Done(d)' = Done(d)
  BY <1>1, ConsumeDone
<1>3. \A d \in Conns : d # c => Complete(d)' = Complete(d) /\ Cut(d)' = Cut(d)
  BY <1>2 DEF Complete, Cut
<1>4. take \in Nat \ {0}
  OBVIOUS
<1>5. consumed' = consumed
  BY DEF IoConsume
<1>6. CASE Len(frame) = kWireSize
  <2>1. Complete(c)' = Complete(c) + 1 /\ Cut(c)' = Cut(c) + kWireSize
    BY <1>1, <1>2, <1>4, <1>6, ConsumeCut
  <2>2. frame = Stream(c, Cut(c), kWireSize) /\ Enqueue(frame)
    BY <1>1, <1>6
  <2>3. HandOn(frame) \/ DropIt
    BY <1>5, <2>2 DEF Enqueue, PopFree, DropFrame, HandOn, DropIt
  <2> QED BY <1>3, <2>1, <2>2, <2>3
<1>7. CASE Len(frame) # kWireSize
  <2>1. Done(c) - Cut(c) + take < kWireSize
    <3>1. Done(c) \in Nat /\ Cut(c) \in Nat
      BY <1>0, CountFacts
    <3> QED BY <1>1, <1>4, <1>7, <3>1, Constants
  <2>2. Complete(c)' = Complete(c) /\ Cut(c)' = Cut(c)
    BY <1>1, <1>2, <1>4, <2>1, ConsumeCut
  <2>3. UNCHANGED pool
    BY <1>1, <1>5, <1>7 DEF pool
  <2> QED BY <1>3, <2>2, <2>3
<1> QED BY <1>6, <1>7

\* SlotsConserved by lengths and elements.
LEMMA SlotsApart ==
    ASSUME NEW f \in Seq(Slot), NEW r \in Seq(Slot)
    PROVE  (LET all == f \o r IN Len(all) = Capacity /\ {all[i] : i \in 1..Len(all)} = 1..Capacity)
           <=> Len(f) + Len(r) = Capacity /\ Elems(f) \cup Elems(r) = Slot
<1>1. Len(f \o r) = Len(f) + Len(r) /\ Elems(f \o r) = Elems(f) \cup Elems(r)
  BY ElemsConcat
<1> QED BY <1>1, Zenon DEF Elems, Slot

LEMMA SlotsStep ==
    ASSUME ServerInv, [Next]_vars
    PROVE  SlotsConserved'
<1>0. /\ free \in Seq(Slot) /\ ready \in Seq(Slot)
      /\ free' \in Seq(Slot) /\ ready' \in Seq(Slot)
  BY TypeStep, Zenon DEF ServerInv, ServerType
<1>1. Len(free) + Len(ready) = Capacity /\ Elems(free) \cup Elems(ready) = Slot
  BY <1>0, SlotsApart, Zenon DEF ServerInv, SlotsConserved
<1>2. SUFFICES Len(free') + Len(ready') = Capacity /\ Elems(free') \cup Elems(ready') = Slot
  BY <1>0, SlotsApart, Zenon DEF SlotsConserved
<1>3. CASE UNCHANGED <<free, ready>>
  BY <1>1, <1>3
<1>4. ASSUME NEW frame, HandOn(frame)
      PROVE  Len(free') + Len(ready') = Capacity /\ Elems(free') \cup Elems(ready') = Slot
  <2>1. Head(free) \in Slot /\ free # <<>>
    BY <1>0, <1>4 DEF HandOn
  <2>2. free' = Tail(free) /\ ready' = Append(ready, Head(free))
    BY <1>4 DEF HandOn
  <2>3. Len(free') = Len(free) - 1 /\ Len(ready') = Len(ready) + 1
        /\ Len(free) \in Nat /\ Len(ready) \in Nat
    BY <1>0, <2>1, <2>2
  <2>4. Elems(free) = {Head(free)} \cup Elems(Tail(free))
    BY <1>0, <2>1, ElemsHeadTail
  <2>5. Elems(Append(ready, Head(free))) = Elems(ready) \cup {Head(free)}
    BY <1>0, <2>1, ElemsAppend
  <2>6. Elems(free') \cup Elems(ready') = Slot
    BY <1>1, <2>2, <2>4, <2>5
  <2> QED BY <1>1, <2>3, <2>6
<1>5. CASE Consume
  <2>1. Head(ready) \in Slot /\ ready # <<>>
    BY <1>0, <1>5 DEF Consume
  <2>2. ready' = Tail(ready) /\ free' = Append(free, Head(ready))
    BY <1>5 DEF Consume
  <2>3. Len(ready') = Len(ready) - 1 /\ Len(free') = Len(free) + 1
        /\ Len(free) \in Nat /\ Len(ready) \in Nat
    BY <1>0, <2>1, <2>2
  <2>4. Elems(ready) = {Head(ready)} \cup Elems(Tail(ready))
    BY <1>0, <2>1, ElemsHeadTail
  <2>5. Elems(Append(free, Head(ready))) = Elems(free) \cup {Head(ready)}
    BY <1>0, <2>1, ElemsAppend
  <2>6. Elems(free') \cup Elems(ready') = Slot
    BY <1>1, <2>2, <2>4, <2>5
  <2> QED BY <1>1, <2>3, <2>6
<1>6. CASE IoConsume
  <2>1. PICK c \in Conns : UNCHANGED pool \/ HandOn(Stream(c, Cut(c), kWireSize)) \/ DropIt
    BY <1>6, ConsumeStep
  <2> QED BY <1>3, <1>4, <2>1 DEF pool, DropIt
<1> QED BY <1>3, <1>5, <1>6, PoolStep DEF pool

LEMMA ApartStep ==
    ASSUME ServerInv, [Next]_vars
    PROVE  Apart'
<1>0. /\ free \in Seq(Slot) /\ ready \in Seq(Slot) /\ Apart
      /\ Len(free) \in Nat /\ Len(ready) \in Nat
  BY DEF ServerInv, ServerType
<1>1. CASE UNCHANGED <<free, ready>>
  BY <1>0, <1>1 DEF Apart
<1>2. ASSUME NEW frame, HandOn(frame) PROVE Apart'
  <2>1. free # <<>> /\ free' = Tail(free) /\ ready' = Append(ready, Head(free))
    BY <1>2 DEF HandOn
  <2>2. /\ Len(free) >= 1 /\ Len(free') = Len(free) - 1 /\ Len(ready') = Len(ready) + 1
        /\ \A i \in 1..(Len(free) - 1) : free'[i] = free[i + 1]
        /\ \A i \in 1..Len(ready) : ready'[i] = ready[i]
        /\ ready'[Len(ready) + 1] = free[1]
    BY <1>0, <2>1
  <2>3. \A i, j \in 1..Len(free') : free'[i] = free'[j] => i = j
    <3> TAKE i, j \in 1..Len(free')
    <3>1. i + 1 \in 1..Len(free) /\ j + 1 \in 1..Len(free) /\ (i + 1 = j + 1 => i = j)
      <4>1. Len(free) \in Nat /\ Len(free') = Len(free) - 1
        BY <1>0, <2>2, Zenon
      <4> QED BY <4>1
    <3>2. free'[i] = free[i + 1] /\ free'[j] = free[j + 1]
      BY <1>0, <2>2, Zenon
    <3> QED BY <1>0, <3>1, <3>2, Zenon DEF Apart
  <2>4. \A i \in 1..Len(free'), j \in 1..Len(ready') : free'[i] # ready'[j]
    <3> TAKE i \in 1..Len(free'), j \in 1..Len(ready')
    <3>1. i + 1 \in 1..Len(free) /\ free'[i] = free[i + 1] /\ i + 1 # 1 /\ 1 \in 1..Len(free)
      <4>1. Len(free) \in Nat /\ Len(free) >= 1 /\ Len(free') = Len(free) - 1
        BY <1>0, <2>2, Zenon
      <4>2. i + 1 \in 1..Len(free) /\ i \in 1..(Len(free) - 1) /\ i + 1 # 1 /\ 1 \in 1..Len(free)
        BY <4>1
      <4> QED BY <2>2, <4>2, Zenon
    <3>2. \/ j \in 1..Len(ready) /\ ready'[j] = ready[j]
          \/ ready'[j] = free[1]
      <4>1. Len(ready) \in Nat /\ Len(ready') = Len(ready) + 1
        BY <1>0, <2>2, Zenon
      <4>2. j \in 1..Len(ready) \/ j = Len(ready) + 1
        BY <4>1
      <4> QED BY <2>2, <4>2, Zenon
    <3> QED BY <1>0, <3>1, <3>2, Zenon DEF Apart
  <2>5. \A i, j \in 1..Len(ready') : ready'[i] = ready'[j] => i = j
    <3> TAKE i, j \in 1..Len(ready')
    <3>1. \A k \in 1..Len(ready') :
             \/ k \in 1..Len(ready) /\ ready'[k] = ready[k]
             \/ k = Len(ready) + 1 /\ ready'[k] = free[1]
      <4>1. Len(ready) \in Nat /\ Len(ready') = Len(ready) + 1
        BY <1>0, <2>2, Zenon
      <4>2. \A k \in 1..Len(ready') : k \in 1..Len(ready) \/ k = Len(ready) + 1
        BY <4>1
      <4> QED BY <2>2, <4>2, Zenon
    <3>2. \A k \in 1..Len(ready) : ready[k] # free[1]
      BY <1>0, <2>2 DEF Apart
    <3> QED BY <1>0, <3>1, <3>2, Zenon DEF Apart
  <2> QED BY <2>3, <2>4, <2>5, Zenon DEF Apart
<1>3. CASE Consume
  <2>1. ready # <<>> /\ ready' = Tail(ready) /\ free' = Append(free, Head(ready))
    BY <1>3 DEF Consume
  <2>2. /\ Len(ready) >= 1 /\ Len(ready') = Len(ready) - 1 /\ Len(free') = Len(free) + 1
        /\ \A i \in 1..(Len(ready) - 1) : ready'[i] = ready[i + 1]
        /\ \A i \in 1..Len(free) : free'[i] = free[i]
        /\ free'[Len(free) + 1] = ready[1]
    BY <1>0, <2>1
  <2>3. \A i, j \in 1..Len(ready') : ready'[i] = ready'[j] => i = j
    <3> TAKE i, j \in 1..Len(ready')
    <3>1. i + 1 \in 1..Len(ready) /\ j + 1 \in 1..Len(ready) /\ (i + 1 = j + 1 => i = j)
      BY <1>0, <2>2
    <3>2. ready'[i] = ready[i + 1] /\ ready'[j] = ready[j + 1]
      BY <1>0, <2>2
    <3> QED BY <1>0, <3>1, <3>2, Zenon DEF Apart
  <2>4. \A i \in 1..Len(ready'), j \in 1..Len(free') : ready'[i] # free'[j]
    <3> TAKE i \in 1..Len(ready'), j \in 1..Len(free')
    <3>1. i + 1 \in 1..Len(ready) /\ ready'[i] = ready[i + 1] /\ i + 1 # 1 /\ 1 \in 1..Len(ready)
      BY <1>0, <2>2
    <3>2. \/ j \in 1..Len(free) /\ free'[j] = free[j]
          \/ free'[j] = ready[1]
      <4>1. Len(free) \in Nat /\ Len(free') = Len(free) + 1
        BY <1>0, <2>2, Zenon
      <4>2. j \in 1..Len(free) \/ j = Len(free) + 1
        BY <4>1
      <4> QED BY <2>2, <4>2, Zenon
    <3> QED BY <1>0, <3>1, <3>2, Zenon DEF Apart
  <2>5. \A i, j \in 1..Len(free') : free'[i] = free'[j] => i = j
    <3> TAKE i, j \in 1..Len(free')
    <3>1. \A k \in 1..Len(free') :
             \/ k \in 1..Len(free) /\ free'[k] = free[k]
             \/ k = Len(free) + 1 /\ free'[k] = ready[1]
      <4>1. Len(free) \in Nat /\ Len(free') = Len(free) + 1
        BY <1>0, <2>2, Zenon
      <4>2. \A k \in 1..Len(free') : k \in 1..Len(free) \/ k = Len(free) + 1
        BY <4>1
      <4> QED BY <2>2, <4>2, Zenon
    <3>2. \A k \in 1..Len(free) : free[k] # ready[1]
      BY <1>0, <2>2 DEF Apart
    <3> QED BY <1>0, <3>1, <3>2, Zenon DEF Apart
  <2> QED BY <2>3, <2>4, <2>5, Zenon DEF Apart
<1>4. CASE IoConsume
  <2>1. PICK c \in Conns : UNCHANGED pool \/ HandOn(Stream(c, Cut(c), kWireSize)) \/ DropIt
    BY <1>4, ConsumeStep
  <2> QED BY <1>1, <1>2, <2>1 DEF pool, DropIt
<1> QED BY <1>1, <1>3, <1>4, PoolStep DEF pool

\* Counts of each connection, as a set of numbered frames.
Numbered(n) == UNION {{c} \X (1..n[c]) : c \in Conns}

LEMMA NumberedMember ==
    ASSUME NEW n, NEW x
    PROVE  x \in Numbered(n) <=> \E c \in Conns : \E k \in 1..n[c] : x = <<c, k>>
<1>1. x \in Numbered(n) <=> \E c \in Conns : x \in {c} \X (1..n[c])
  BY Zenon DEF Numbered
<1>2. \A c \in Conns : x \in {c} \X (1..n[c]) <=> \E k \in 1..n[c] : x = <<c, k>>
  OBVIOUS
<1> QED BY <1>1, <1>2, Zenon

\* One more is one more.
LEMMA NumberedNext ==
    ASSUME NEW n \in [Conns -> Nat], NEW m \in [Conns -> Nat], NEW c \in Conns,
           m[c] = n[c] + 1, \A d \in Conns : d # c => m[d] = n[d]
    PROVE  /\ Numbered(m) = Numbered(n) \cup {<<c, n[c] + 1>>}
           /\ <<c, n[c] + 1>> \notin Numbered(n)
<1>0. n[c] \in Nat
  OBVIOUS
<1>1. \A x : x \in Numbered(n) <=> \E d \in Conns : \E k \in 1..n[d] : x = <<d, k>>
  BY NumberedMember, Zenon
<1>2. \A x : x \in Numbered(m) <=> \E d \in Conns : \E k \in 1..m[d] : x = <<d, k>>
  BY NumberedMember, Zenon
<1>3. <<c, n[c] + 1>> \notin Numbered(n)
  <2> SUFFICES ASSUME NEW d \in Conns, NEW k \in 1..n[d], <<c, n[c] + 1>> = <<d, k>> PROVE FALSE
    BY <1>1
  <2>1. d = c /\ k = n[c] + 1
    OBVIOUS
  <2> QED BY <1>0, <2>1
<1>4. ASSUME NEW x \in Numbered(m) PROVE x \in Numbered(n) \cup {<<c, n[c] + 1>>}
  <2>1. PICK d \in Conns : \E k \in 1..m[d] : x = <<d, k>>
    BY <1>2
  <2>2. PICK k \in 1..m[d] : x = <<d, k>>
    BY <2>1
  <2>3. CASE k \in 1..n[d]
    BY <1>1, <2>2, <2>3, Zenon
  <2>4. CASE k \notin 1..n[d]
    <3>1. d = c
      BY <2>4
    <3>2. k = n[c] + 1
      BY <1>0, <2>4, <3>1
    <3> QED BY <2>2, <3>1, <3>2
  <2> QED BY <2>3, <2>4
<1>5. ASSUME NEW x \in Numbered(n) PROVE x \in Numbered(m)
  <2>1. PICK d \in Conns : \E k \in 1..n[d] : x = <<d, k>>
    BY <1>1
  <2>2. PICK k \in 1..n[d] : x = <<d, k>>
    BY <2>1
  <2>3. k \in 1..m[d]
    <3>1. m[d] = n[d] \/ m[d] = n[d] + 1
      OBVIOUS
    <3>2. n[d] \in Nat
      OBVIOUS
    <3> QED BY <3>1, <3>2
  <2> QED BY <1>2, <2>2, <2>3, Zenon
<1>6. <<c, n[c] + 1>> \in Numbered(m)
  <2>1. n[c] + 1 \in 1..m[c]
    BY <1>0
  <2> QED BY <1>2, <2>1, Zenon
<1> QED BY <1>3, <1>4, <1>5, <1>6

LEMMA ReadStep ==
    ASSUME ServerInv, [Next]_vars
    PROVE  IsFiniteSet(FramesRead') /\ FramesAccounted'
<1>0. /\ ServerType /\ Table /\ Streams /\ IsFiniteSet(FramesRead) /\ FramesAccounted
      /\ Len(ready) \in Nat /\ consumed \in Nat /\ drops \in Nat
  <2>1. ServerType /\ Table /\ Streams /\ IsFiniteSet(FramesRead) /\ FramesAccounted
    BY DEF ServerInv
  <2>2. Len(ready) \in Nat /\ consumed \in Nat /\ drops \in Nat
    BY <2>1 DEF ServerType
  <2> QED BY <2>1, <2>2, Zenon
<1> DEFINE n == [c \in Conns |-> Complete(c)]
           m == [c \in Conns |-> Complete(c)']
<1>1. FramesRead = Numbered(n) /\ FramesRead' = Numbered(m)
  BY DEF FramesRead, Numbered, Complete, Done
<1>2. \A c \in Conns : n[c] = Complete(c) /\ m[c] = Complete(c)' /\ n[c] \in Nat
  BY <1>0, CountFacts
<1>3. n \in [Conns -> Nat]
  BY <1>2
<1> HIDE DEF n, m
<1>4. ASSUME \A c \in Conns : Complete(c)' = Complete(c),
             Len(ready') + consumed' + drops' = Len(ready) + consumed + drops
      PROVE  IsFiniteSet(FramesRead') /\ FramesAccounted'
  <2>1. FramesRead' = FramesRead
    <3>1. n = m
      BY <1>4 DEF n, m
    <3> QED BY <1>1, <3>1
  <2> QED BY <1>0, <1>4, <2>1 DEF FramesAccounted
<1>5. CASE ~(IoConsume /\ Quiet)
  <2>1. \A c \in Conns : Done(c)' = Done(c)
    BY <1>5, DoneStep
  <2>2. \A c \in Conns : Complete(c)' = Complete(c)
    BY <2>1 DEF Complete
  <2>3. CASE UNCHANGED pool
    <3>1. Len(ready') + consumed' + drops' = Len(ready) + consumed + drops
      BY <2>3 DEF pool
    <3> QED BY <1>4, <2>2, <3>1
  <2>4. CASE Consume
    <3>1. Len(ready') = Len(ready) - 1 /\ consumed' = consumed + 1 /\ drops' = drops
      <4>1. ready \in Seq(Slot)
        BY <1>0, Zenon DEF ServerType
      <4>2. ready # <<>> /\ ready' = Tail(ready) /\ consumed' = consumed + 1 /\ drops' = drops
        BY <2>4, Zenon DEF Consume
      <4> QED BY <4>1, <4>2
    <3>2. Len(ready') + consumed' + drops' = Len(ready) + consumed + drops
      BY <1>0, <3>1
    <3> QED BY <1>4, <2>2, <3>2
  <2> QED BY <1>5, <2>3, <2>4, PoolStep
<1>6. CASE IoConsume
  <2>1. PICK c \in Conns :
           /\ \A d \in Conns : d # c => Complete(d)' = Complete(d)
           /\ \/ Complete(c)' = Complete(c) /\ UNCHANGED pool
              \/ /\ Complete(c)' = Complete(c) + 1
                 /\ HandOn(Stream(c, Cut(c), kWireSize)) \/ DropIt
    BY <1>6, ConsumeStep
  <2>2. CASE Complete(c)' = Complete(c) /\ UNCHANGED pool
    <3>1. Len(ready') + consumed' + drops' = Len(ready) + consumed + drops
      BY <2>2 DEF pool
    <3> QED BY <1>4, <2>1, <2>2, <3>1
  <2>3. CASE Complete(c)' = Complete(c) + 1 /\ (HandOn(Stream(c, Cut(c), kWireSize)) \/ DropIt)
    <3>1. Len(ready') + consumed' + drops' = Len(ready) + consumed + drops + 1
      <4>1. \/ Len(ready') = Len(ready) + 1 /\ consumed' = consumed /\ drops' = drops
            \/ Len(ready') = Len(ready) /\ consumed' = consumed /\ drops' = drops + 1
        <5>1. ready \in Seq(Slot)
          BY <1>0, Zenon DEF ServerType
        <5>2. CASE HandOn(Stream(c, Cut(c), kWireSize))
          <6>1. ready' = Append(ready, Head(free)) /\ consumed' = consumed /\ drops' = drops
            BY <5>2, Zenon DEF HandOn
          <6> QED BY <5>1, <6>1
        <5>3. CASE DropIt
          <6>1. ready' = ready /\ consumed' = consumed /\ drops' = drops + 1
            BY <5>3, Zenon DEF DropIt
          <6> QED BY <6>1, Zenon
        <5> QED BY <2>3, <5>2, <5>3, Zenon
      <4> QED BY <1>0, <4>1
    <3>2. m[c] = n[c] + 1 /\ \A d \in Conns : d # c => m[d] = n[d]
      BY <1>2, <2>1, <2>3, Zenon
    <3>3. m \in [Conns -> Nat]
      <4>1. \A d \in Conns : m[d] \in Nat
        <5>1. n[c] \in Nat /\ \A d \in Conns : n[d] \in Nat
          BY <1>2, Zenon
        <5>2. n[c] + 1 \in Nat
          BY <5>1
        <5> QED BY <3>2, <5>1, <5>2, Zenon
      <4> QED BY <4>1 DEF m
    <3>4. /\ Numbered(m) = Numbered(n) \cup {<<c, n[c] + 1>>}
          /\ <<c, n[c] + 1>> \notin Numbered(n)
      BY <1>3, <3>2, <3>3, NumberedNext
    <3>5. PICK x : FramesRead' = FramesRead \cup {x} /\ x \notin FramesRead
      BY <1>1, <3>4, Zenon
    <3>6. IsFiniteSet(FramesRead') /\ Cardinality(FramesRead') = Cardinality(FramesRead) + 1
      BY <1>0, <3>5, FS_AddElement
    <3> QED BY <1>0, <3>1, <3>6 DEF FramesAccounted
  <2> QED BY <2>1, <2>2, <2>3
<1> QED BY <1>5, <1>6

\* A frame as FramesWhole looks at it, its first byte being one of a stream,
\* no further than cut says.
Older(frame, cut) ==
    /\ Whole(frame) /\ frame[1][1] \in Conns /\ frame[1][2] \in Nat
    /\ frame[1][2] <= cut[frame[1][1]]

LEMMA HandedOlder ==
    ASSUME Handed, NEW i \in 1..Len(ready)
    PROVE  Older(slots[ready[i]], [c \in Conns |-> Cut(c)])
<1>1. PICK frame : frame = slots[ready[i]]
  OBVIOUS
<1>2. Whole(frame) /\ frame[1][2] <= Cut(frame[1][1])
  BY <1>1 DEF Handed, FramesWhole
<1>3. PICK c \in Conns : \E k \in 0..MaxBytes[c] : frame = Stream(c, k * kWireSize, kWireSize)
  BY <1>2 DEF Whole
<1>4. PICK k \in 0..MaxBytes[c] : frame = Stream(c, k * kWireSize, kWireSize)
  BY <1>3
<1>5. k \in Nat /\ kWireSize \in Nat /\ 1 \in 1..kWireSize /\ k * kWireSize \in Nat
  BY Constants
<1>6. frame[1] = <<c, k * kWireSize + 1>>
  BY <1>4, <1>5, StreamFacts, Zenon
<1>7. frame[1][1] \in Conns /\ frame[1][2] \in Nat
  BY <1>5, <1>6
<1> QED BY <1>1, <1>2, <1>7, Zenon DEF Older

\* The frame that consume_frames completes.
LEMMA NewFrame ==
    ASSUME ServerInv, NEW c \in Conns, NEW frame, frame = Stream(c, Cut(c), kWireSize)
    PROVE  Whole(frame) /\ frame[1] = <<c, Cut(c) + 1>>
<1>1. PICK k \in Nat : k = Complete(c)
  BY CountFacts DEF ServerInv
<1>2. /\ Cut(c) = kWireSize * k /\ kWireSize * k \in Nat /\ kWireSize * k <= Done(c)
      /\ Done(c) \in Nat /\ Done(c) <= read[c] /\ read[c] \in Nat /\ kWireSize \in Nat \ {0}
  <2>1. Cut(c) = kWireSize * k /\ kWireSize \in Nat \ {0}
    BY <1>1, Constants, Zenon DEF Cut
  <2>2. ServerType /\ Streams
    BY DEF ServerInv
  <2>3. Cut(c) \in Nat /\ Cut(c) <= Done(c) /\ Done(c) \in Nat /\ Done(c) <= read[c] /\ read[c] \in Nat
    BY <2>2, CountFacts
  <2> QED BY <2>1, <2>3, Zenon
<1>3. read[c] <= sent[c] /\ sent[c] <= MaxBytes[c] /\ sent[c] \in Nat /\ MaxBytes[c] \in Nat
  BY Constants DEF ServerInv, Streams, ServerType
<1>4. k <= kWireSize * k /\ kWireSize * k = k * kWireSize
  BY <1>2
<1>5. k \in 0..MaxBytes[c] /\ frame = Stream(c, k * kWireSize, kWireSize)
  <2>1. \A d, r, s, x, m \in Nat : k <= x /\ x <= d /\ d <= r /\ r <= s /\ s <= m => k \in 0..m
    OBVIOUS
  <2>2. k \in 0..MaxBytes[c]
    BY <1>2, <1>3, <1>4, <2>1, Zenon
  <2>3. frame = Stream(c, k * kWireSize, kWireSize)
    BY <1>2, <1>4, Zenon
  <2> QED BY <2>2, <2>3
<1>6. Whole(frame)
  BY <1>5, Zenon DEF Whole
<1>7. 1 \in 1..kWireSize /\ Cut(c) \in Nat /\ kWireSize \in Nat
  BY <1>2
<1>8. frame[1] = <<c, Cut(c) + 1>>
  BY <1>7, StreamFacts, Zenon
<1> QED BY <1>6, <1>8

LEMMA HandedStep ==
    ASSUME ServerInv, [Next]_vars
    PROVE  Handed'
<1>0. /\ ServerType /\ Streams /\ Handed
      /\ free \in Seq(Slot) /\ ready \in Seq(Slot) /\ Len(ready) \in Nat
      /\ \A c \in Conns : Cut(c) \in Nat /\ kWireSize \in Nat \ {0}
  <2>1. ServerType /\ Streams /\ Handed
    BY DEF ServerInv
  <2>2. \A c \in Conns : Cut(c) \in Nat /\ kWireSize \in Nat \ {0}
    <3>1. ASSUME NEW c \in Conns PROVE Cut(c) \in Nat
      BY <2>1, CountFacts
    <3>2. kWireSize \in Nat \ {0}
      BY Constants
    <3> QED BY <3>1, <3>2, Zenon
  <2>3. free \in Seq(Slot) /\ ready \in Seq(Slot)
    BY <2>1, Zenon DEF ServerType
  <2>4. Len(ready) \in Nat
    BY <2>3
  <2> QED BY <2>1, <2>2, <2>3, <2>4, Zenon
<1>1. \A c \in Conns : Cut(c)' \in Nat /\ Cut(c) <= Cut(c)'
  <2>1. CASE ~(IoConsume /\ Quiet)
    <3>1. \A c \in Conns : Done(c)' = Done(c)
      BY <2>1, DoneStep
    <3>2. \A c \in Conns : Cut(c)' = Cut(c)
      BY <3>1 DEF Cut, Complete
    <3> QED BY <1>0, <3>2
  <2>2. CASE IoConsume
    <3>1. \A c \in Conns : Cut(c)' = Cut(c) \/ Cut(c)' = Cut(c) + kWireSize
      BY <2>2, ConsumeStep
    <3> QED BY <1>0, <3>1
  <2> QED BY <2>1, <2>2
<1> DEFINE cut == [c \in Conns |-> Cut(c)]
           new == [c \in Conns |-> Cut(c)']
<1>2. \A c \in Conns : cut[c] \in Nat /\ new[c] \in Nat /\ cut[c] <= new[c]
  BY <1>0, <1>1
<1>3. \A i \in 1..Len(ready) : Older(slots[ready[i]], cut)
  BY <1>0, HandedOlder
<1>4. \A i, j \in 1..Len(ready) :
         i < j /\ slots[ready[i]][1][1] = slots[ready[j]][1][1]
           => slots[ready[i]][1][2] < slots[ready[j]][1][2]
  BY <1>0, Zenon DEF Handed, FramesWhole
<1>5. SUFFICES /\ \A i \in 1..Len(ready') : Older(slots'[ready'[i]], new)
               /\ \A i, j \in 1..Len(ready') :
                    i < j /\ slots'[ready'[i]][1][1] = slots'[ready'[j]][1][1]
                      => slots'[ready'[i]][1][2] < slots'[ready'[j]][1][2]
  <2>1. ASSUME NEW i \in 1..Len(ready')
        PROVE  Whole(slots[ready[i]])' /\ slots'[ready'[i]][1][2] <= Cut(slots[ready[i]][1][1])'
    <3>1. Older(slots'[ready'[i]], new)
      BY <1>5, Zenon
    <3>2. PICK d \in Conns : d = slots'[ready'[i]][1][1]
      BY <3>1, Zenon DEF Older
    <3>3. Cut(slots[ready[i]][1][1])' = new[d]
      BY <3>2, Zenon DEF new, Cut, Complete, Done, Pending
    <3>4. Whole(slots[ready[i]])'
      BY <3>1, Zenon DEF Older, Whole
    <3> QED BY <3>1, <3>2, <3>3, <3>4, Zenon DEF Older
  <2> QED BY <1>5, <2>1, Zenon DEF Handed, FramesWhole
<1> HIDE DEF cut, new
<1>6. ASSUME NEW frame, Older(frame, cut) PROVE Older(frame, new)
  BY <1>2, <1>6 DEF Older
<1>7. CASE UNCHANGED <<ready, slots>>
  BY <1>3, <1>4, <1>6, <1>7, Zenon
<1>8. CASE Consume
  <2>1. /\ \A i \in 1..Len(ready') : ready'[i] = ready[i + 1] /\ i + 1 \in 1..Len(ready)
        /\ slots' = slots
    BY <1>0, <1>8 DEF Consume
  <2>2. ASSUME NEW i \in 1..Len(ready') PROVE Older(slots'[ready'[i]], new)
    BY <1>3, <1>6, <2>1, Zenon
  <2>3. ASSUME NEW i \in 1..Len(ready'), NEW j \in 1..Len(ready'), i < j,
               slots'[ready'[i]][1][1] = slots'[ready'[j]][1][1]
        PROVE  slots'[ready'[i]][1][2] < slots'[ready'[j]][1][2]
    <3>1. i + 1 < j + 1
      BY <2>3
    <3> QED BY <1>4, <2>1, <2>3, <3>1, Zenon
  <2> QED BY <2>2, <2>3, Zenon
<1>9. ASSUME NEW c \in Conns, HandOn(Stream(c, Cut(c), kWireSize)), Cut(c)' = Cut(c) + kWireSize
      PROVE  /\ \A i \in 1..Len(ready') : Older(slots'[ready'[i]], new)
             /\ \A i, j \in 1..Len(ready') :
                  i < j /\ slots'[ready'[i]][1][1] = slots'[ready'[j]][1][1]
                    => slots'[ready'[i]][1][2] < slots'[ready'[j]][1][2]
  <2>1. PICK frame : frame = Stream(c, Cut(c), kWireSize)
    OBVIOUS
  <2>2. Whole(frame) /\ frame[1] = <<c, Cut(c) + 1>>
    BY <2>1, NewFrame
  <2>3. PICK h \in Slot : h = Head(free) /\ free # <<>>
    BY <1>0, <1>9 DEF HandOn
  <2>4. slots' = [slots EXCEPT ![h] = frame] /\ ready' = Append(ready, h)
    BY <1>9, <2>1, <2>3 DEF HandOn
  <2>5. /\ Len(ready') = Len(ready) + 1 /\ ready'[Len(ready) + 1] = h
        /\ \A i \in 1..Len(ready) : ready'[i] = ready[i] /\ ready[i] \in Slot
    <3>1. ready \in Seq(Slot) /\ ready' = Append(ready, h)
      BY <1>0, <2>4, Zenon
    <3> QED BY <3>1
  <2>6. \A i \in 1..Len(ready) : ready[i] # h
    <3>1. Len(free) \in Nat /\ 1 \in 1..Len(free) /\ h = free[1] /\ Apart
      BY <2>3 DEF ServerInv, ServerType
    <3> QED BY <3>1 DEF Apart
  <2>7. slots'[h] = frame /\ \A i \in 1..Len(ready) : slots'[ready'[i]] = slots[ready[i]]
    BY <1>0, <2>4, <2>5, <2>6, Zenon DEF ServerType
  <2>8. Older(frame, new)
    <3>1. new[c] = Cut(c) + kWireSize
      BY <1>9 DEF new
    <3>2. frame[1][1] = c /\ frame[1][2] = Cut(c) + 1 /\ Cut(c) + 1 \in Nat
          /\ Cut(c) + 1 <= new[c]
      <4>1. PICK k \in Nat : k = Cut(c)
        BY <1>0, Zenon
      <4>2. kWireSize \in Nat \ {0}
        BY Constants
      <4>3. k + 1 \in Nat /\ k + 1 <= k + kWireSize
        BY <4>2
      <4>4. frame[1][1] = c /\ frame[1][2] = Cut(c) + 1
        BY <2>2
      <4> QED BY <3>1, <4>1, <4>3, <4>4, Zenon
    <3> QED BY <2>2, <3>2, Zenon DEF Older
  <2>9. ASSUME NEW i \in 1..Len(ready') PROVE Older(slots'[ready'[i]], new)
    <3>a. Len(ready) \in Nat /\ Len(ready') = Len(ready) + 1
      BY <1>0, <2>5, Zenon
    <3>1. i \in 1..Len(ready) \/ i = Len(ready) + 1
      BY <3>a
    <3> QED BY <1>3, <1>6, <2>5, <2>7, <2>8, <3>1
  <2>10. ASSUME NEW i \in 1..Len(ready'), NEW j \in 1..Len(ready'), i < j,
                slots'[ready'[i]][1][1] = slots'[ready'[j]][1][1]
         PROVE  slots'[ready'[i]][1][2] < slots'[ready'[j]][1][2]
    <3>a. Len(ready) \in Nat /\ Len(ready') = Len(ready) + 1
      BY <1>0, <2>5, Zenon
    <3>1. i \in 1..Len(ready) /\ (j \in 1..Len(ready) \/ j = Len(ready) + 1)
      BY <2>10, <3>a
    <3>2. CASE j \in 1..Len(ready)
      BY <1>4, <2>7, <2>10, <3>1, <3>2
    <3>3. CASE j = Len(ready) + 1
      <4>1. slots'[ready'[j]] = frame /\ slots'[ready'[i]] = slots[ready[i]]
        BY <2>5, <2>7, <3>1, <3>3
      <4>2. Older(slots[ready[i]], cut) /\ slots[ready[i]][1][1] = c
        <5>1. Older(slots[ready[i]], cut)
          BY <1>3, <3>1, Zenon
        <5>2. slots[ready[i]][1][1] = frame[1][1]
          BY <2>10, <4>1, Zenon
        <5>3. frame[1][1] = c
          BY <2>2
        <5> QED BY <5>1, <5>2, <5>3, Zenon
      <4>3. slots[ready[i]][1][2] \in Nat /\ slots[ready[i]][1][2] <= Cut(c)
        BY <4>2, Zenon DEF Older, cut
      <4>4. frame[1][2] = Cut(c) + 1
        BY <2>2
      <4>5. slots[ready[i]][1][2] < frame[1][2]
        <5>1. Cut(c) \in Nat
          BY <1>0, Zenon
        <5>2. \A x, k \in Nat : x <= k => x < k + 1
          OBVIOUS
        <5> QED BY <4>3, <4>4, <5>1, <5>2, Zenon
      <4> QED BY <4>1, <4>5, Zenon
    <3> QED BY <3>1, <3>2, <3>3, Zenon
  <2> QED BY <2>9, <2>10, Zenon
<1>10. CASE IoConsume
  <2>1. PICK c \in Conns : \/ UNCHANGED pool \/ DropIt
                           \/ HandOn(Stream(c, Cut(c), kWireSize)) /\ Cut(c)' = Cut(c) + kWireSize
    BY <1>10, ConsumeStep
  <2>2. CASE UNCHANGED pool \/ DropIt
    BY <1>7, <2>2, Zenon DEF pool, DropIt
  <2> QED BY <1>9, <2>1, <2>2, Zenon
<1> QED BY <1>7, <1>8, <1>10, PoolStep, Zenon DEF pool

LEMMA ServerInit == Init => ServerInv
<1> SUFFICES ASSUME Init PROVE ServerInv
  OBVIOUS
<1>0. Capacity \in Nat /\ kWireSize \in Nat \ {0} /\ MaxBytes \in [Conns -> Nat]
  BY Constants
<1>1. ServerType
  <2>1. <<>> \in Seq(Bytes) /\ <<>> \in Seq(Conns) /\ <<>> \in Seq(Slot)
    OBVIOUS
  <2>2. free \in Seq(Slot)
    BY <1>0 DEF Init, Slot
  <2>3. slots \in [Slot -> Seq(Bytes)]
    BY <2>1 DEF Init, Slot
  <2>4. conns \in [Fds -> [used : BOOLEAN, frame : Seq(Bytes)]]
    BY <2>1 DEF Init, NoConn
  <2> QED BY <2>1, <2>2, <2>3, <2>4 DEF Init, ServerType, Places
<1>2. Threads
  BY DEF Init, Threads
<1>3. Table
  BY Constants DEF Init, Table, Reading
<1>4. EdgeKept
  BY DEF Init, EdgeKept
<1>5. \A c \in Conns : Done(c) = 0
  BY DEF Init, Done, Pending
<1>6. Streams
  <2>1. \A c \in Conns : read[c] = 0 /\ sent[c] = 0 /\ MaxBytes[c] \in Nat
    BY <1>0 DEF Init
  <2>2. (\A f \in Fds : fdConn[f] = "none") /\ ioPc # "consume"
    BY DEF Init
  <2>3. \A c \in Conns : read[c] <= sent[c] /\ sent[c] <= MaxBytes[c] /\ Done(c) \in Nat
    BY <1>5, <2>1
  <2> QED BY <2>2, <2>3, Zenon DEF Streams
<1>7. Handed
  BY DEF Init, Handed, FramesWhole
<1>8. SlotsConserved
  <2>1. free \in Seq(Slot) /\ ready \in Seq(Slot) /\ Len(ready) = 0 /\ Len(free) = Capacity
    BY <1>0, <1>1 DEF ServerType, Init
  <2>2. Elems(free) = Slot
    <3>1. \A i \in 1..Capacity : free[i] = i
      BY DEF Init
    <3> QED BY <2>1, <3>1 DEF Elems, Slot
  <2>3. Elems(ready) = {}
    BY ElemsSmall DEF Init
  <2>4. Len(free) + Len(ready) = Capacity /\ Elems(free) \cup Elems(ready) = Slot
    BY <1>0, <2>1, <2>2, <2>3
  <2> QED BY <2>1, <2>4, SlotsApart, Zenon DEF SlotsConserved
<1>9. FramesRead = {}
  <2>1. \A c \in Conns : (read[c] - Pending(c)) \div kWireSize = 0
    BY <1>0, <1>5 DEF Done
  <2>2. 1..0 = {}
    OBVIOUS
  <2> QED BY <2>1, <2>2 DEF FramesRead
<1>10. IsFiniteSet(FramesRead) /\ FramesAccounted
  BY <1>9, FS_EmptySet DEF Init, FramesAccounted
<1>11. Apart
  <2>1. Len(free) = Capacity /\ \A i \in 1..Capacity : free[i] = i
    BY <1>0 DEF Init
  <2>2. Len(ready) = 0
    BY DEF Init
  <2> QED BY <2>1, <2>2 DEF Apart
<1> QED BY <1>1, <1>2, <1>3, <1>4, <1>6, <1>7, <1>8, <1>10, <1>11 DEF ServerInv

LEMMA ServerStep == ServerInv /\ [Next]_vars => ServerInv'
<1> SUFFICES ASSUME ServerInv, [Next]_vars PROVE ServerInv'
  OBVIOUS
<1> QED BY TypeStep, ThreadsStep, TableStep, EdgeStep, StreamsStep, HandedStep, SlotsStep,
        ApartStep, ReadStep DEF ServerInv

\* The invariant holds of every run of the server, for any number of clients,
\* any frame and buffer size, any pool and any cutting of the streams.
THEOREM ServerInvariant == Spec => []ServerInv
  BY ServerInit, ServerStep, PTL DEF Spec

\* consume_frames: frames handed on are kWireSize consecutive bytes of one
\* connection, cut at a frame boundary, and in order.
THEOREM FramesAreWhole == Spec => []FramesWhole
<1>1. ServerInv => FramesWhole
  BY DEF ServerInv, Handed
<1> QED BY <1>1, ServerInvariant, PTL

\* consume_frames: every complete frame read is handed on or counted as a
\* drop, once.
THEOREM FramesAreAccounted == Spec => []FramesAccounted
<1>1. ServerInv => FramesAccounted
  BY DEF ServerInv
<1> QED BY <1>1, ServerInvariant, PTL

\* Over starts and stops every slot of the pool is either free or ready.
THEOREM SlotsAreConserved == Spec => []SlotsConserved
<1>1. ServerInv => SlotsConserved
  BY DEF ServerInv
<1> QED BY <1>1, ServerInvariant, PTL

\* run_server_loop goes back to epoll_wait with an edge for every connection
\* that has something to read.
THEOREM NoConnIsForgotten == Spec => []NoConnForgotten
<1>1. ServerInv => NoConnForgotten
  BY DEF ServerInv, EdgeKept, NoConnForgotten, Threads, Reading, Handling
<1> QED BY <1>1, ServerInvariant, PTL
=============================================================================
