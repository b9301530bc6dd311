--------------------------- MODULE LockFreeProofs ---------------------------
(***************************************************************************)
(* Proofs about the two structures threads share without a lock: the ring  *)
(* buffer, for every capacity, every counter width that is a multiple of   *)
(* it, and every set of values; and the latency histogram with its report, *)
(* for every number and width of buckets and every latency.                *)
(***************************************************************************)
EXTENDS RingBuffer, LatencyReport, Basics, FiniteSetTheorems

-----------------------------------------------------------------------------
(* The ring buffer.                                                        *)

USE CapacityAssumption

\* Unsigned increment, without %.
LEMMA IncCases ==
    ASSUME NEW a \in Counter
    PROVE  Inc(a) = IF a + 1 = Modulus THEN 0 ELSE a + 1
  BY DEF Counter, Inc

\* Unsigned subtraction, without %.
LEMMA MinusCases ==
    ASSUME NEW a \in Counter, NEW b \in Counter
    PROVE  Minus(a, b) = IF a >= b THEN a - b ELSE a - b + Modulus
<1>1. CASE a >= b
  <2>1. a - b \in 0..(Modulus - 1)
    BY <1>1 DEF Counter
  <2>2. (a - b) % Modulus = a - b
    BY <2>1
  <2> QED BY <1>1, <2>2 DEF Minus
<1>2. CASE ~ (a >= b)
  <2>1. (a - b) + 1 * Modulus \in 0..(Modulus - 1)
    BY <1>2 DEF Counter
  <2>2. ((a - b) + 1 * Modulus) % Modulus = (a - b) + 1 * Modulus
    BY <2>1
  <2>3. ((a - b) + 1 * Modulus) % Modulus = (a - b) % Modulus
    <3>1. a - b \in Int /\ Modulus \in Nat \ {0} /\ 1 \in Int
      BY DEF Counter
    <3> QED BY <3>1, ModMultiple, Zenon
  <2>4. (a - b) % Modulus = a - b + Modulus
    BY <2>2, <2>3 DEF Counter
  <2> QED BY <1>2, <2>4 DEF Minus
<1> QED BY <1>1, <1>2

\* A masked counter indexes the buffer.
LEMMA MaskRange ==
    ASSUME NEW a \in Int
    PROVE  Mask(a) \in Slot
  BY ModRange DEF Mask, Slot

\* Masking does not see a wrap of the counter.
LEMMA MaskInc ==
    ASSUME NEW a \in Counter
    PROVE  /\ Inc(a) \in Counter
           /\ \A i \in Int : Mask(Inc(a) + i) = Mask(a + 1 + i)
<1>1. Modulus \in Nat \ {0} /\ Capacity \in Nat \ {0} /\ a + 1 \in Int
  BY DEF Counter
<1>2. Inc(a) \in Counter
  BY IncCases DEF Counter
<1>3. ASSUME NEW i \in Int PROVE Mask(Inc(a) + i) = Mask(a + 1 + i)
  <2>1. Inc(a) + i \in Int /\ a + 1 + i \in Int /\ Inc(a) \in Int
    BY <1>1, <1>2 DEF Counter
  <2>2. (Inc(a) % Capacity) = ((a + 1) % Capacity)
    BY <1>1, ModOfMod DEF Inc
  <2>3. ((Inc(a) % Capacity) + i) % Capacity = (Inc(a) + i) % Capacity
    BY <1>1, <2>1, ModSum
  <2>4. (((a + 1) % Capacity) + i) % Capacity = (a + 1 + i) % Capacity
    BY <1>1, <2>1, ModSum
  <2> QED BY <2>2, <2>3, <2>4 DEF Mask
<1> QED BY <1>2, <1>3

\* The slot at tail_ is the slot Size places after the one at head_.
LEMMA MaskMinus ==
    ASSUME NEW a \in Counter, NEW b \in Counter
    PROVE  Mask(a) = Mask(b + Minus(a, b))
<1>1. Modulus \in Nat \ {0} /\ Capacity \in Nat \ {0}
  OBVIOUS
<1>2. CASE a >= b
  <2>1. a = b + Minus(a, b)
    BY <1>2, MinusCases DEF Counter
  <2> QED BY <2>1
<1>3. CASE ~ (a >= b)
  <2>1. b + Minus(a, b) = a + Modulus
    BY <1>3, MinusCases DEF Counter
  <2>2. (a + Modulus) % Modulus = a % Modulus
    <3>1. a \in Int /\ 1 \in Int
      BY DEF Counter
    <3>2. (a + 1 * Modulus) % Modulus = a % Modulus
      BY <1>1, <3>1, ModMultiple
    <3> QED BY <3>2
  <2>3. ((a + Modulus) % Modulus) % Capacity = (a + Modulus) % Capacity
    <3>1. a + Modulus \in Int
      BY DEF Counter
    <3> QED BY <1>1, <3>1, ModOfMod
  <2>4. (a % Modulus) % Capacity = a % Capacity
    <3>1. a \in Int
      BY DEF Counter
    <3> QED BY <1>1, <3>1, ModOfMod
  <2> QED BY <2>1, <2>2, <2>3, <2>4 DEF Mask
<1> QED BY <1>2, <1>3

\* Counters less than Capacity places apart have different slots.
LEMMA MaskDistinct ==
    ASSUME NEW a \in Int, NEW i \in Int, NEW j \in Int,
           i < j, j < i + Capacity
    PROVE  Mask(a + i) # Mask(a + j)
<1>1. a + i \in Int /\ a + j \in Int /\ Capacity \in Nat \ {0}
  OBVIOUS
<1>2. a + i < a + j /\ a + j < (a + i) + Capacity
  OBVIOUS
<1> QED BY <1>1, <1>2, ModInjective DEF Mask

\* How the number of elements moves with the two counters.
LEMMA MinusSteps ==
    ASSUME NEW a \in Counter, NEW b \in Counter
    PROVE  /\ Minus(a, b) \in Counter
           /\ Minus(a, b) = 0 <=> a = b
           /\ Minus(a, b) < Capacity => Minus(Inc(a), b) = Minus(a, b) + 1
           /\ a # b => Minus(a, Inc(b)) = Minus(a, b) - 1
<1>1. Inc(a) \in Counter /\ Inc(b) \in Counter
  BY MaskInc
<1>2. Minus(a, b) = IF a >= b THEN a - b ELSE a - b + Modulus
  BY MinusCases
<1>3. Minus(Inc(a), b) = IF Inc(a) >= b THEN Inc(a) - b ELSE Inc(a) - b + Modulus
  BY <1>1, MinusCases
<1>4. Minus(a, Inc(b)) = IF a >= Inc(b) THEN a - Inc(b) ELSE a - Inc(b) + Modulus
  BY <1>1, MinusCases
<1>5. /\ Inc(a) = IF a + 1 = Modulus THEN 0 ELSE a + 1
      /\ Inc(b) = IF b + 1 = Modulus THEN 0 ELSE b + 1
  BY IncCases
<1> QED BY <1>2, <1>3, <1>4, <1>5 DEF Counter

\* The slot a push writes is not the one at head_, unless the ring is empty.
LEMMA WriteAvoidsHead ==
    ASSUME NEW a \in Counter, NEW b \in Counter, a # b, Minus(a, b) < Capacity
    PROVE  Mask(a) # Mask(b)
<1>1. Minus(a, b) \in Int /\ 0 < Minus(a, b)
  BY MinusSteps DEF Counter
<1>2. Mask(b + 0) # Mask(b + Minus(a, b))
  <2>1. b \in Int /\ 0 \in Int /\ Minus(a, b) < 0 + Capacity
    BY <1>1 DEF Counter
  <2> QED BY <1>1, <2>1, MaskDistinct
<1>3. b + 0 = b
  BY DEF Counter
<1> QED BY <1>2, <1>3, MaskMinus

-----------------------------------------------------------------------------
\* A fresh ring satisfies the inductive invariant.
LEMMA RingInvInit == Init => RingInv
<1> SUFFICES ASSUME Init PROVE RingInv
  OBVIOUS
<1>1. 0 \in Counter /\ Minus(0, 0) = 0
  BY MinusCases DEF Counter
<1>2. TypeOK
  BY <1>1 DEF Init, TypeOK, PushPcs, PopPcs
<1>3. NeverLapped
  BY <1>1 DEF Init, NeverLapped, Size
<1> QED BY <1>2, <1>3 DEF Init, RingInv

\* Every step keeps every variable in its type.
LEMMA TypeStep == TypeOK /\ [Next]_vars => TypeOK'
<1> SUFFICES ASSUME TypeOK, [Next]_vars PROVE TypeOK'
  OBVIOUS
<1> USE DEF TypeOK, PushPcs, PopPcs
<1>1. ASSUME NEW v \in Values, PushCall(v) PROVE TypeOK'
  BY <1>1 DEF PushCall, popVars
<1>2. CASE PushLoadHead
  BY <1>2 DEF PushLoadHead, popVars
<1>3. CASE PushLoadTail
  BY <1>3 DEF PushLoadTail, popVars
<1>4. CASE PushWrite
  <2>1. Mask(pushTail) \in Slot
    BY MaskRange DEF Counter
  <2> QED BY <1>4, <2>1 DEF PushWrite, popVars
<1>5. CASE PushStore
  BY <1>5, MaskInc DEF PushStore, popVars
<1>6. CASE PushReturn
  BY <1>6 DEF PushReturn, popVars
<1>7. CASE PopCall
  BY <1>7 DEF PopCall, pushVars
<1>8. CASE PopLoadHead
  BY <1>8 DEF PopLoadHead, pushVars
<1>9. CASE PopLoadTail
  BY <1>9 DEF PopLoadTail, pushVars
<1>10. CASE PopRead
  <2>1. Mask(popHead) \in Slot
    BY MaskRange DEF Counter
  <2> QED BY <1>10, <2>1 DEF PopRead, pushVars
<1>11. CASE PopStore
  BY <1>11, MaskInc DEF PopStore, pushVars
<1>12. CASE PopReturn
  BY <1>12 DEF PopReturn, pushVars
<1>13. CASE Reset
  <2>1. 0 \in Counter
    BY DEF Counter
  <2> QED BY <1>13, <2>1 DEF Reset, pushVars, popVars
<1>14. CASE UNCHANGED vars
  BY <1>14 DEF vars, pushVars, popVars
<1> QED BY <1>1, <1>2, <1>3, <1>4, <1>5, <1>6, <1>7, <1>8, <1>9, <1>10,
           <1>11, <1>12, <1>13, <1>14 DEF Next

\* Every step preserves the inductive invariant.
LEMMA RingInvStep == RingInv /\ [Next]_vars => RingInv'
<1> SUFFICES ASSUME RingInv, [Next]_vars PROVE RingInv'
  OBVIOUS
<1>0. TypeOK /\ TypeOK'
  BY TypeStep DEF RingInv
<1> USE DEF RingInv, NeverLapped, Size
<1>1. ASSUME NEW v \in Values, PushCall(v) PROVE RingInv'
  BY <1>0, <1>1 DEF PushCall, popVars
<1>2. CASE PushLoadHead
  <2>1. Minus(tail_, head_) \in Int
    BY <1>0, MinusSteps DEF TypeOK, Counter
  <2> QED BY <1>0, <1>2, <2>1 DEF PushLoadHead, popVars
<1>3. CASE PushLoadTail
  BY <1>0, <1>3 DEF PushLoadTail, popVars
<1>4. CASE PushWrite
  <2>1. Mask(tail_) \in Slot
    BY <1>0, MaskRange DEF TypeOK, Counter
  <2>2. popPc = "store" => Mask(tail_) # Mask(head_)
    <3>1. Minus(tail_, head_) < Capacity
      BY <1>0, <1>4, MinusSteps DEF PushWrite, TypeOK, Counter
    <3> QED BY <1>0, <3>1, WriteAvoidsHead DEF TypeOK
  <2>3. Mask(head_) \in Slot
    BY <1>0, MaskRange DEF TypeOK, Counter
  <2>4. buffer_'[Mask(tail_)] = pushData
    BY <1>0, <1>4, <2>1 DEF PushWrite, TypeOK
  <2>5. popPc = "store" => buffer_'[Mask(head_)] = buffer_[Mask(head_)]
    BY <1>0, <1>4, <2>1, <2>2, <2>3 DEF PushWrite, TypeOK
  <2> QED BY <1>0, <1>4, <2>4, <2>5 DEF PushWrite, popVars
<1>5. CASE PushStore
  <2>1. Minus(tail_, head_) < Capacity
    BY <1>0, <1>5, MinusSteps DEF PushStore, TypeOK, Counter
  <2>2. Minus(tail_', head_) = Minus(tail_, head_) + 1
    BY <1>0, <1>5, <2>1, MinusSteps DEF PushStore, TypeOK
  <2>3. Minus(tail_', head_) <= Capacity /\ tail_' # head_
    <3>1. Minus(tail_, head_) \in Nat
      BY <1>0, MinusSteps DEF TypeOK, Counter
    <3>2. Minus(tail_', head_) <= Capacity /\ Minus(tail_', head_) # 0
      BY <2>1, <2>2, <3>1
    <3> QED BY <1>0, <1>5, <3>2, MinusSteps DEF PushStore, TypeOK
  <2> QED BY <1>0, <1>5, <2>3 DEF PushStore, popVars
<1>6. CASE PushReturn
  BY <1>0, <1>6 DEF PushReturn, popVars
<1>7. CASE PopCall
  BY <1>0, <1>7 DEF PopCall, pushVars
<1>8. CASE PopLoadHead
  BY <1>0, <1>8 DEF PopLoadHead, pushVars
<1>9. CASE PopLoadTail
  BY <1>0, <1>9 DEF PopLoadTail, pushVars
<1>10. CASE PopRead
  BY <1>0, <1>10 DEF PopRead, pushVars
<1>11. CASE PopStore
  <2>1. Minus(tail_, head_') = Minus(tail_, head_) - 1
    BY <1>0, <1>11, MinusSteps DEF PopStore, TypeOK
  <2>2. Minus(tail_, head_) \in Int
    BY <1>0, MinusSteps DEF TypeOK, Counter
  <2>3. Minus(tail_, pushHead) \in Int
    BY <1>0, MinusSteps DEF TypeOK, Counter
  <2>4. Minus(tail_, head_') <= Capacity
    BY <1>11, <2>1, <2>2 DEF PopStore
  <2>5. Minus(tail_, head_) <= Minus(tail_, pushHead)
          => Minus(tail_, head_') <= Minus(tail_, pushHead)
    BY <2>1, <2>2, <2>3
  <2> QED BY <1>0, <1>11, <2>4, <2>5 DEF PopStore, pushVars
<1>12. CASE PopReturn
  BY <1>0, <1>12 DEF PopReturn, pushVars
<1>13. CASE Reset
  <2>1. 0 \in Counter /\ Minus(0, 0) = 0
    BY MinusCases DEF Counter
  <2> QED BY <1>0, <1>13, <2>1 DEF Reset, pushVars, popVars
<1>14. CASE UNCHANGED vars
  BY <1>0, <1>14 DEF vars, pushVars, popVars
<1> QED BY <1>1, <1>2, <1>3, <1>4, <1>5, <1>6, <1>7, <1>8, <1>9, <1>10,
           <1>11, <1>12, <1>13, <1>14 DEF Next

\* The inductive invariant holds of every execution.
THEOREM RingInvariant == Spec => []RingInv
  BY RingInvInit, RingInvStep, PTL DEF Spec

\* The counters, the locals and the slots of push and pop keep their types.
THEOREM RingTypeCorrect == Spec => []TypeOK
<1>1. RingInv => TypeOK
  BY DEF RingInv
<1> QED BY <1>1, RingInvariant, PTL

\* The producer never laps the consumer, whatever the width of the counters
\* and however often they wrap.
THEOREM RingNeverLapped == Spec => []NeverLapped
<1>1. RingInv => NeverLapped
  BY DEF RingInv
<1> QED BY RingInvariant, <1>1, PTL

\* push and pop never touch one slot at the same time.
THEOREM RingNoSlotRace == Spec => []NoSlotRace
<1>1. RingInv => NoSlotRace
  <2> SUFFICES ASSUME RingInv, pushPc = "write", popPc = "read"
               PROVE  Mask(pushTail) # Mask(popHead)
    BY DEF NoSlotRace
  <2>1. /\ tail_ \in Counter /\ head_ \in Counter /\ pushHead \in Counter
        /\ pushTail = tail_ /\ popHead = head_ /\ head_ # tail_
    BY DEF RingInv, TypeOK
  <2>2. Minus(tail_, head_) < Capacity
    BY <2>1, MinusSteps DEF RingInv, Size, Counter
  <2> QED BY <2>1, <2>2, WriteAvoidsHead
<1> QED BY RingInvariant, <1>1, PTL

-----------------------------------------------------------------------------
(* The ring implements the bounded FIFO queue.                             *)

Elements == Values \cup {NoValue}

\* The elements between two counters; Contents is this at head_ and tail_.
Between(h, t, b) == [i \in 1..Minus(t, h) |-> b[Mask(h + i - 1)]]

\* It is a sequence with one element per counter value.
LEMMA BetweenSeq ==
    ASSUME NEW h \in Counter, NEW t \in Counter, NEW b \in [Slot -> Elements]
    PROVE  /\ Minus(t, h) \in Nat
           /\ Between(h, t, b) \in Seq(Elements)
           /\ Len(Between(h, t, b)) = Minus(t, h)
           /\ \A i \in 1..Minus(t, h) : Between(h, t, b)[i] = b[Mask(h + i - 1)]
<1>1. Minus(t, h) \in Nat
  BY MinusSteps DEF Counter
<1>2. ASSUME NEW i \in 1..Minus(t, h) PROVE b[Mask(h + i - 1)] \in Elements
  <2>1. h + i - 1 \in Int
    BY <1>1 DEF Counter
  <2> QED BY <2>1, MaskRange
<1> DEFINE n == Minus(t, h)
           e(i) == b[Mask(h + i - 1)]
<1>3. n \in Nat /\ \A i \in 1..n : e(i) \in Elements
  BY <1>1, <1>2
<1>4. Between(h, t, b) = [i \in 1..n |-> e(i)]
  BY DEF Between
<1> HIDE DEF n, e
<1>5. [i \in 1..n |-> e(i)] \in Seq(Elements) /\ Len([i \in 1..n |-> e(i)]) = n
  BY <1>3
<1>6. \A i \in 1..n : Between(h, t, b)[i] = e(i)
  BY <1>4
<1> QED BY <1>1, <1>4, <1>5, <1>6 DEF n, e

\* Writing the slot at the tail changes no element inside.
LEMMA WriteOutside ==
    ASSUME NEW h \in Counter, NEW t \in Counter, NEW b \in [Slot -> Elements],
           NEW v \in Elements, Minus(t, h) < Capacity
    PROVE  Between(h, t, [b EXCEPT ![Mask(t)] = v]) = Between(h, t, b)
<1> DEFINE c == [b EXCEPT ![Mask(t)] = v]
<1>1. Minus(t, h) \in Nat /\ Minus(t, h) \in Int /\ h \in Int
  BY MinusSteps DEF Counter
<1>2. ASSUME NEW i \in 1..Minus(t, h)
      PROVE  c[Mask(h + i - 1)] = b[Mask(h + i - 1)]
  <2>1. i - 1 \in Int /\ i - 1 < Minus(t, h) /\ Minus(t, h) < (i - 1) + Capacity
    BY <1>1
  <2>2. Mask(h + (i - 1)) # Mask(h + Minus(t, h))
    BY <1>1, <2>1, MaskDistinct, Zenon
  <2>3. h + (i - 1) = h + i - 1 /\ h + i - 1 \in Int
    BY <1>1
  <2>4. Mask(h + i - 1) # Mask(t)
    <3>1. Mask(t) = Mask(h + Minus(t, h))
      BY MaskMinus
    <3> QED BY <2>2, <2>3, <3>1
  <2>5. Mask(h + i - 1) \in Slot
    BY <2>3, MaskRange
  <2> QED BY <2>4, <2>5
<1> QED BY <1>2 DEF Between

\* Advancing the tail appends the element in its slot.
LEMMA AdvanceTail ==
    ASSUME NEW h \in Counter, NEW t \in Counter, NEW b \in [Slot -> Elements],
           Minus(t, h) < Capacity
    PROVE  Between(h, Inc(t), b) = Append(Between(h, t, b), b[Mask(t)])
<1> DEFINE s == Between(h, t, b)
           u == Between(h, Inc(t), b)
           a == Append(s, b[Mask(t)])
           n == Minus(t, h)
<1>1. Inc(t) \in Counter /\ Minus(Inc(t), h) = n + 1 /\ h \in Int /\ t \in Int
  BY MaskInc, MinusSteps DEF Counter
<1>2. /\ n \in Nat /\ s \in Seq(Elements) /\ Len(s) = n
      /\ \A i \in 1..n : s[i] = b[Mask(h + i - 1)]
  BY BetweenSeq
<1>3. /\ u \in Seq(Elements) /\ Len(u) = n + 1
      /\ \A i \in 1..(n + 1) : u[i] = b[Mask(h + i - 1)]
  <2>1. /\ u \in Seq(Elements) /\ Len(u) = Minus(Inc(t), h)
        /\ \A i \in 1..Minus(Inc(t), h) : u[i] = b[Mask(h + i - 1)]
    BY <1>1, BetweenSeq, Zenon
  <2> HIDE DEF u, n
  <2> QED BY <1>1, <2>1
<1>4. b[Mask(t)] \in Elements
  BY <1>1, MaskRange
<1>5. /\ a \in Seq(Elements) /\ Len(a) = n + 1
      /\ \A i \in 1..n : a[i] = s[i]
      /\ a[n + 1] = b[Mask(t)]
  BY <1>2, <1>4, AppendPlaces
<1>6. b[Mask(h + (n + 1) - 1)] = b[Mask(t)]
  <2>1. h + (n + 1) - 1 = h + n
    BY <1>1, <1>2
  <2>2. Mask(t) = Mask(h + n)
    BY MaskMinus
  <2> QED BY <2>1, <2>2
<1> HIDE DEF s, u, a, n
<1>7. ASSUME NEW i \in 1..Len(u) PROVE u[i] = a[i]
  <2>1. CASE i = n + 1
    BY <2>1, <1>2, <1>3, <1>5, <1>6
  <2>2. CASE i # n + 1
    <3>1. i \in 1..n /\ i \in 1..(n + 1)
      BY <2>2, <1>2, <1>3
    <3> QED BY <3>1, <1>2, <1>3, <1>5, Zenon
  <2> QED BY <2>1, <2>2
<1>8. u = a
  BY <1>3, <1>5, <1>7, SameSeq
<1> QED BY <1>8 DEF s, u, a

\* Advancing the head removes the element in its slot.
LEMMA AdvanceHead ==
    ASSUME NEW h \in Counter, NEW t \in Counter, NEW b \in [Slot -> Elements],
           h # t
    PROVE  /\ Between(h, t, b) # <<>>
           /\ Head(Between(h, t, b)) = b[Mask(h)]
           /\ Between(Inc(h), t, b) = Tail(Between(h, t, b))
<1> DEFINE s == Between(h, t, b)
           u == Between(Inc(h), t, b)
           n == Minus(t, h)
<1>1. Inc(h) \in Counter /\ Minus(t, Inc(h)) = n - 1 /\ h \in Int /\ n # 0
  BY MaskInc, MinusSteps DEF Counter
<1>2. /\ n \in Nat /\ s \in Seq(Elements) /\ Len(s) = n
      /\ \A i \in 1..n : s[i] = b[Mask(h + i - 1)]
  BY BetweenSeq
<1>3. /\ u \in Seq(Elements) /\ Len(u) = n - 1
      /\ \A i \in 1..(n - 1) : u[i] = b[Mask(Inc(h) + i - 1)]
  <2>1. /\ u \in Seq(Elements) /\ Len(u) = Minus(t, Inc(h))
        /\ \A i \in 1..Minus(t, Inc(h)) : u[i] = b[Mask(Inc(h) + i - 1)]
    BY <1>1, BetweenSeq, Zenon
  <2> HIDE DEF u, n
  <2> QED BY <1>1, <2>1
<1>4. ASSUME NEW i \in 1..(n - 1) PROVE u[i] = s[i + 1]
  <2>1. i - 1 \in Int /\ Inc(h) \in Int /\ i + 1 \in 1..n
    BY <1>1, <1>2 DEF Counter
  <2>2. Mask(Inc(h) + (i - 1)) = Mask(h + 1 + (i - 1))
    BY <2>1, MaskInc
  <2>3. Inc(h) + (i - 1) = Inc(h) + i - 1 /\ h + 1 + (i - 1) = h + (i + 1) - 1
    BY <1>1, <2>1
  <2> QED BY <1>2, <1>3, <2>1, <2>2, <2>3
<1>5. s[1] = b[Mask(h)]
  <2>1. 1 \in 1..n /\ h + 1 - 1 = h
    BY <1>1, <1>2
  <2> QED BY <1>2, <2>1
<1> HIDE DEF s, u, n
<1>6. s # <<>>
  BY <1>1, <1>2
<1>7. Head(s) = s[1]
  BY <1>2, <1>6
<1>8. /\ Tail(s) \in Seq(Elements) /\ Len(Tail(s)) = n - 1
      /\ \A i \in 1..(n - 1) : Tail(s)[i] = s[i + 1]
  BY <1>2, <1>6, HeadTailPlaces
<1>9. u = Tail(s)
  BY <1>3, <1>4, <1>8, SameSeq
<1> QED BY <1>5, <1>6, <1>7, <1>9 DEF s, u

\* The refinement mapping, spelled out with the counters and the buffer.
LEMMA ContentsBetween ==
    /\ Contents = Between(head_, tail_, buffer_)
    /\ Contents' = Between(head_', tail_', buffer_')
  BY DEF Contents, Between, Size

\* A fresh ring is an empty queue.
LEMMA FifoInit == Init => Fifo!Init
<1> SUFFICES ASSUME Init PROVE Fifo!Init
  OBVIOUS
<1>1. 0 \in Counter /\ Minus(0, 0) = 0
  BY MinusCases DEF Counter
<1>2. Contents = <<>>
  BY <1>1 DEF Init, Contents, Size
<1> QED BY <1>2 DEF Init, Fifo!Init, PushState, PopState, Popped

\* Every step of the ring is a step of the queue, or changes nothing the
\* callers could see.
LEMMA FifoStep == RingInv /\ [Next]_vars => [Fifo!Next]_(Fifo!vars)
<1> SUFFICES ASSUME RingInv, [Next]_vars PROVE [Fifo!Next]_(Fifo!vars)
  OBVIOUS
<1>0. /\ head_ \in Counter /\ tail_ \in Counter /\ pushHead \in Counter
      /\ buffer_ \in [Slot -> Elements] /\ pushData \in Elements
      /\ popData \in Elements /\ pushPc \in PushPcs /\ popPc \in PopPcs
  BY DEF RingInv, TypeOK, Elements
<1>c. /\ Contents = Between(head_, tail_, buffer_)
      /\ Contents' = Between(head_', tail_', buffer_')
  BY ContentsBetween
<1>l. Len(Contents) = Minus(tail_, head_) /\ Minus(tail_, head_) \in Nat
  BY <1>0, <1>c, BetweenSeq
<1>k. UNCHANGED <<head_, tail_, buffer_>> => Contents' = Contents
  BY <1>c
<1> USE DEF PushState, PopState, Popped, PushPcs, PopPcs
<1>1. ASSUME NEW v \in Values, PushCall(v) PROVE Fifo!PushCall(v)
  BY <1>1, <1>k DEF PushCall, popVars, Fifo!PushCall
<1>2. CASE PushLoadHead
  <2>1. CASE Minus(tail_, head_) = Capacity
    <3>1. Fifo!PushFull
      BY <1>2, <1>k, <1>l, <2>1 DEF PushLoadHead, popVars, Fifo!PushFull
    <3> QED BY <3>1 DEF Fifo!Next
  <2>2. CASE Minus(tail_, head_) # Capacity
    <3>1. UNCHANGED Fifo!vars
      BY <1>2, <1>k, <2>2 DEF PushLoadHead, popVars, Fifo!vars
    <3> QED BY <3>1
  <2> QED BY <2>1, <2>2
<1>3. CASE PushLoadTail
  <2>1. UNCHANGED Fifo!vars
    BY <1>3, <1>k DEF PushLoadTail, popVars, Fifo!vars
  <2> QED BY <2>1
<1>4. CASE PushWrite
  <2>1. Minus(tail_, head_) < Capacity /\ pushTail = tail_
    BY <1>0, <1>4, MinusSteps DEF PushWrite, RingInv, Size, Counter
  <2>2. Contents' = Contents
    BY <1>0, <1>4, <1>c, <2>1, WriteOutside DEF PushWrite
  <2>3. UNCHANGED Fifo!vars
    BY <1>4, <2>2 DEF PushWrite, popVars, Fifo!vars
  <2> QED BY <2>3
<1>5. CASE PushStore
  <2>1. /\ Minus(tail_, head_) < Capacity /\ pushTail = tail_
        /\ buffer_[Mask(tail_)] = pushData
    BY <1>0, <1>5, MinusSteps DEF PushStore, RingInv, Size, Counter
  <2>2. Contents' = Append(Contents, pushData)
    BY <1>0, <1>5, <1>c, <2>1, AdvanceTail DEF PushStore
  <2>3. Fifo!PushOk
    BY <1>5, <1>l, <2>1, <2>2 DEF PushStore, popVars, Fifo!PushOk
  <2> QED BY <2>3 DEF Fifo!Next
<1>6. CASE PushReturn
  <2>1. Fifo!PushReturn
    BY <1>6, <1>k DEF PushReturn, popVars, Fifo!PushReturn
  <2> QED BY <2>1 DEF Fifo!Next
<1>7. CASE PopCall
  <2>1. Fifo!PopCall
    BY <1>7, <1>k DEF PopCall, pushVars, Fifo!PopCall
  <2> QED BY <2>1 DEF Fifo!Next
<1>8. CASE PopLoadHead
  <2>1. UNCHANGED Fifo!vars
    BY <1>8, <1>k DEF PopLoadHead, pushVars, Fifo!vars
  <2> QED BY <2>1
<1>9. CASE PopLoadTail
  <2>1. popHead = head_
    BY <1>9 DEF PopLoadTail, RingInv
  <2>2. CASE head_ = tail_
    <3>1. Contents = <<>>
      <4>1. Minus(tail_, head_) = 0
        BY <1>0, <2>2, MinusSteps
      <4> QED BY <4>1 DEF Contents, Size
    <3>2. Fifo!PopEmpty
      BY <1>9, <1>k, <2>1, <2>2, <3>1 DEF PopLoadTail, pushVars, Fifo!PopEmpty
    <3> QED BY <3>2 DEF Fifo!Next
  <2>3. CASE head_ # tail_
    <3>1. UNCHANGED Fifo!vars
      BY <1>9, <1>k, <2>1, <2>3 DEF PopLoadTail, pushVars, Fifo!vars
    <3> QED BY <3>1
  <2> QED BY <2>2, <2>3
<1>10. CASE PopRead
  <2>1. UNCHANGED Fifo!vars
    BY <1>10, <1>k DEF PopRead, pushVars, Fifo!vars
  <2> QED BY <2>1
<1>11. CASE PopStore
  <2>1. popHead = head_ /\ head_ # tail_ /\ popData = buffer_[Mask(head_)]
    BY <1>11 DEF PopStore, RingInv
  <2>2. /\ Contents # <<>>
        /\ Head(Contents) = popData
        /\ Contents' = Tail(Contents)
    BY <1>0, <1>11, <1>c, <2>1, AdvanceHead DEF PopStore
  <2>3. PushState' = PushState
    BY <1>11 DEF PopStore, pushVars
  <2>4. Fifo!PopOk
    BY <1>11, <2>2, <2>3 DEF PopStore, pushVars, Fifo!PopOk
  <2> QED BY <2>4 DEF Fifo!Next
<1>12. CASE PopReturn
  <2>1. Fifo!PopReturn
    BY <1>12, <1>k DEF PopReturn, pushVars, Fifo!PopReturn
  <2> QED BY <2>1 DEF Fifo!Next
<1>13. CASE Reset
  <2>1. Contents' = <<>>
    <3>1. 0 \in Counter /\ Minus(0, 0) = 0
      BY MinusCases DEF Counter
    <3> QED BY <1>13, <3>1 DEF Reset, Contents, Size
  <2>2. Fifo!Reset
    BY <1>13, <2>1 DEF Reset, pushVars, popVars, Fifo!Reset
  <2> QED BY <2>2 DEF Fifo!Next
<1>14. CASE UNCHANGED vars
  <2>1. UNCHANGED Fifo!vars
    BY <1>14, <1>k DEF vars, pushVars, popVars, Fifo!vars
  <2> QED BY <2>1
<1>15. CASE \E v \in Values : PushCall(v)
  BY <1>1, <1>15 DEF Fifo!Next
<1> QED BY <1>2, <1>3, <1>4, <1>5, <1>6, <1>7, <1>8, <1>9, <1>10,
           <1>11, <1>12, <1>13, <1>14, <1>15 DEF Next

\* push and pop, by one producer and one consumer, are linearizable: every
\* execution of the ring is an execution of the bounded FIFO queue.
THEOREM RingRefinesFifo == Spec => RefinesFifo
<1>1. Init => Fifo!Init
  BY FifoInit
<1>2. RingInv /\ [Next]_vars => [Fifo!Next]_(Fifo!vars)
  BY FifoStep
<1> QED BY <1>1, <1>2, RingInvariant, PTL DEF Spec, RefinesFifo, Fifo!Spec

HIDE CapacityAssumption

-----------------------------------------------------------------------------
(* The latency report.                                                     *)

\* The types, with the places of the two threads.
ReportType ==
    /\ buckets \in [Buckets -> Nat] /\ samples \in Nat /\ max \in Nat
    /\ frames \in Nat /\ latency \in Nat /\ since \in Nat
    /\ procPc \in {"off", "frame", "samples", "load", "cas"}
    /\ next \in Buckets
    /\ told \in [counts : Nat, samples : Nat]

ReportInv == ReportType /\ IsFiniteSet(Counted) /\ SamplesConserved /\ MaxTold

LEMMA BucketFacts ==
    0 \in Buckets /\ \A b \in Buckets : (b + 1) % (kLatencyBucketCount + 1) \in Buckets
<1>1. kLatencyBucketCount \in Nat
  BY LatencyReportAssumption
<1>2. ASSUME NEW b \in Buckets PROVE (b + 1) % (kLatencyBucketCount + 1) \in Buckets
  <2>1. PICK m \in Nat \ {0} : m = kLatencyBucketCount + 1
    BY <1>1
  <2>2. PICK a \in Int : a = b + 1
    BY DEF Buckets
  <2>3. a % m \in 0..(m - 1)
    BY ModRange
  <2> QED BY <1>1, <2>1, <2>2, <2>3 DEF Buckets
<1> QED BY <1>1, <1>2 DEF Buckets

\* Every latency has a bucket.
LEMMA BucketOfLatency ==
    ASSUME NEW l \in Nat
    PROVE  Min({l \div kLatencyBucketWidthNs, kLatencyBucketCount}) \in Buckets
<1>1. kLatencyBucketCount \in Nat /\ kLatencyBucketWidthNs \in Nat \ {0}
  BY LatencyReportAssumption
<1>2. PICK q \in Nat : q = l \div kLatencyBucketWidthNs
  BY <1>1
<1>3. \E x \in {q, kLatencyBucketCount} : \A y \in {q, kLatencyBucketCount} : x <= y
  BY <1>1
<1>4. PICK m : m = Min({q, kLatencyBucketCount})
  OBVIOUS
<1>5. m \in {q, kLatencyBucketCount} /\ \A y \in {q, kLatencyBucketCount} : m <= y
  BY <1>3, <1>4, Zenon DEF Min
<1> QED BY <1>1, <1>2, <1>4, <1>5 DEF Buckets

LEMMA MaxOfTwo ==
    ASSUME NEW a \in Nat, NEW b \in Nat
    PROVE  /\ Max({a, b}) \in Nat /\ a <= Max({a, b}) /\ b <= Max({a, b})
           /\ Max({a, b}) \in {a, b}
<1>1. \E x \in {a, b} : \A y \in {a, b} : x >= y
  OBVIOUS
<1>2. PICK m : m = Max({a, b})
  OBVIOUS
<1>3. m \in {a, b} /\ \A y \in {a, b} : m >= y
  BY <1>1, <1>2, Zenon DEF Max
<1> QED BY <1>2, <1>3

-----------------------------------------------------------------------------
\* The set of the samples counted by a histogram h.
SamplesOf(h) == UNION {{b} \X (1..h[b]) : b \in Buckets}

LEMMA SamplesIn ==
    ASSUME NEW h \in [Buckets -> Nat], NEW b \in Buckets, NEW k \in Int
    PROVE  <<b, k>> \in SamplesOf(h) <=> k \in 1..h[b]
  BY DEF SamplesOf

\* One more in bucket b ...
LEMMA OneMoreSample ==
    ASSUME NEW h \in [Buckets -> Nat], NEW b \in Buckets, IsFiniteSet(SamplesOf(h))
    PROVE  LET g == [h EXCEPT ![b] = @ + 1]
           IN  /\ IsFiniteSet(SamplesOf(g))
               /\ Cardinality(SamplesOf(g)) = Cardinality(SamplesOf(h)) + 1
<1> DEFINE g == [h EXCEPT ![b] = @ + 1]
<1>1. /\ g \in [Buckets -> Nat] /\ g[b] = h[b] + 1
      /\ \A c \in Buckets : c # b => g[c] = h[c]
  OBVIOUS
<1> HIDE DEF g
<1>2. <<b, h[b] + 1>> \notin SamplesOf(h)
  <2>1. h[b] + 1 \in Int /\ h[b] + 1 \notin 1..h[b]
    OBVIOUS
  <2> QED BY <2>1, SamplesIn
<1>3. SamplesOf(g) = SamplesOf(h) \cup {<<b, h[b] + 1>>}
  <2>1. 1..g[b] = (1..h[b]) \cup {h[b] + 1}
    BY <1>1
  <2> QED BY <1>1, <2>1 DEF SamplesOf
<1>4. IsFiniteSet(SamplesOf(g)) /\ Cardinality(SamplesOf(g)) = Cardinality(SamplesOf(h)) + 1
  BY <1>2, <1>3, FS_AddElement
<1> QED BY <1>4 DEF g

\* ... and bucket b emptied.
LEMMA BucketTaken ==
    ASSUME NEW h \in [Buckets -> Nat], NEW b \in Buckets, IsFiniteSet(SamplesOf(h))
    PROVE  LET g == [h EXCEPT ![b] = 0]
           IN  /\ IsFiniteSet(SamplesOf(g)) /\ Cardinality(SamplesOf(g)) \in Nat
               /\ Cardinality(SamplesOf(g)) + h[b] = Cardinality(SamplesOf(h))
<1> DEFINE g == [h EXCEPT ![b] = 0]
           T == {b} \X (1..h[b])
<1>1. /\ g \in [Buckets -> Nat] /\ g[b] = 0
      /\ \A c \in Buckets : c # b => g[c] = h[c]
  OBVIOUS
<1> HIDE DEF g
<1>2. T \subseteq SamplesOf(h) /\ SamplesOf(g) = SamplesOf(h) \ T
  <2>1. 1..g[b] = {}
    BY <1>1
  <2> QED BY <1>1, <2>1 DEF SamplesOf
<1>3. IsFiniteSet(T) /\ Cardinality(T) = h[b]
  <2> DEFINE f == [k \in 1..h[b] |-> <<b, k>>]
  <2>1. f \in [1..h[b] -> T] /\ \A k \in 1..h[b] : f[k] = <<b, k>>
    OBVIOUS
  <2>2. \A t \in T : \E k \in 1..h[b] : t = <<b, k>>
    OBVIOUS
  <2>3. f \in Bijection(1..h[b], T)
    <3> HIDE DEF f, T
    <3>1. f \in Injection(1..h[b], T)
      BY <2>1 DEF Injection, IsInjective
    <3>2. f \in Surjection(1..h[b], T)
      BY <2>1, <2>2 DEF Surjection
    <3> QED BY <3>1, <3>2 DEF Bijection
  <2>4. h[b] \in Nat /\ IsFiniteSet(1..h[b]) /\ Cardinality(1..h[b]) = h[b]
    BY FS_Interval
  <2>5. ExistsBijection(1..h[b], T)
    BY <2>3 DEF ExistsBijection
  <2> HIDE DEF f, T
  <2> QED BY <2>4, <2>5, FS_Bijection
<1> HIDE DEF T
<1>4. T \cap SamplesOf(h) = T
  BY <1>2
<1>5. /\ IsFiniteSet(SamplesOf(g))
      /\ Cardinality(SamplesOf(g)) = Cardinality(SamplesOf(h)) - Cardinality(T)
  BY <1>2, <1>4, FS_Difference
<1>6. Cardinality(SamplesOf(g)) \in Nat /\ Cardinality(SamplesOf(h)) \in Nat /\ h[b] \in Nat
  BY <1>5, FS_CardinalityType
<1> QED BY <1>3, <1>5, <1>6 DEF g

-----------------------------------------------------------------------------
LEMMA ReportInitial == ReportInit => ReportInv
<1> SUFFICES ASSUME ReportInit PROVE ReportInv
  OBVIOUS
<1>1. ReportType
  BY BucketFacts DEF ReportInit, ReportType, Zero, NoneTold
<1>2. Counted = {}
  <2>1. \A b \in Buckets : 1..buckets[b] = {}
    BY DEF ReportInit, Zero
  <2> QED BY <2>1 DEF Counted
<1>3. IsFiniteSet(Counted) /\ Cardinality(Counted) = 0
  BY <1>2, FS_EmptySet
<1>4. SamplesConserved
  BY <1>3 DEF ReportInit, NoneTold, SamplesConserved
<1>5. MaxTold
  BY MaxOfTwo DEF ReportInit, MaxTold
<1> QED BY <1>1, <1>3, <1>4, <1>5 DEF ReportInv

LEMMA ReportTypeStep == ReportType /\ [ReportNext]_reportVars => ReportType'
<1> SUFFICES ASSUME ReportType, [ReportNext]_reportVars PROVE ReportType'
  OBVIOUS
<1>1. CASE Receive
  BY <1>1, BucketFacts DEF Receive, ReportType, Zero, NoneTold
<1>2. CASE Stop
  BY <1>2 DEF Stop, ReportType, histogram, proc, reporter, ghosts
<1>3. ASSUME NEW l \in Latencies, RecordBucket(l), UNCHANGED <<reporter, told>>
      PROVE  ReportType'
  <2>1. l \in Nat
    BY LatencyReportAssumption
  <2>2. PICK b \in Buckets : b = Min({l \div kLatencyBucketWidthNs, kLatencyBucketCount})
    BY <2>1, BucketOfLatency
  <2>3. buckets' = [buckets EXCEPT ![b] = @ + 1]
    BY <1>3, <2>2 DEF RecordBucket
  <2> QED BY <1>3, <2>1, <2>3 DEF RecordBucket, ReportType, reporter
<1>4. CASE (RecordSamples \/ RecordLoad \/ RecordCas \/ ProcDone) /\ UNCHANGED <<reporter, told>>
  <2> USE DEF ReportType, histogram, reporter
  <2>1. CASE RecordSamples BY <1>4, <2>1 DEF RecordSamples
  <2>2. CASE RecordLoad BY <1>4, <2>2 DEF RecordLoad, RecordNext
  <2>3. CASE RecordCas BY <1>4, <2>3 DEF RecordCas, RecordNext
  <2>4. CASE ProcDone BY <1>4, <2>4 DEF ProcDone
  <2> QED BY <1>4, <2>1, <2>2, <2>3, <2>4
<1>5. CASE RepWait /\ UNCHANGED proc
  BY <1>5 DEF RepWait, ReportType, histogram, ghosts, proc
<1>6. CASE RepBucket /\ UNCHANGED proc
  <2>1. next' \in Buckets
    BY <1>6, BucketFacts DEF RepBucket, ReportType
  <2>2. buckets' \in [Buckets -> Nat] /\ buckets[next] \in Nat
    BY <1>6 DEF RepBucket, Clear, ReportType
  <2> QED BY <1>6, <2>1, <2>2 DEF RepBucket, ReportType, proc
<1>7. CASE RepSamples /\ UNCHANGED proc
  BY <1>7 DEF RepSamples, ReportType, proc
<1>8. CASE RepMax /\ UNCHANGED proc
  <2>1. since' \in Nat
    BY <1>8, MaxOfTwo DEF RepMax, ReportType
  <2> QED BY <1>8, <2>1 DEF RepMax, ReportType, proc
<1>9. CASE UNCHANGED reportVars
  BY <1>9 DEF reportVars, ReportType, histogram, proc, reporter, ghosts
<1> QED BY <1>1, <1>2, <1>3, <1>4, <1>5, <1>6, <1>7, <1>8, <1>9 DEF ReportNext, Process, Reporter

\* What each step does to the counts.
LEMMA SamplesStep ==
    ASSUME ReportInv, [ReportNext]_reportVars
    PROVE  IsFiniteSet(Counted') /\ SamplesConserved'
<1> USE DEF ReportInv
<1>0. /\ Counted = SamplesOf(buckets) /\ Counted' = SamplesOf(buckets')
      /\ Cardinality(Counted) \in Nat
  BY FS_CardinalityType DEF Counted, SamplesOf
<1>1. CASE Receive
  <2>1. \A b \in Buckets : 1..buckets'[b] = {}
    BY <1>1 DEF Receive, Zero
  <2>2. Counted' = {}
    BY <2>1 DEF Counted
  <2>3. IsFiniteSet(Counted') /\ Cardinality(Counted') = 0
    BY <2>2, FS_EmptySet
  <2> QED BY <1>1, <2>3 DEF Receive, NoneTold, SamplesConserved
<1>2. ASSUME NEW l \in Latencies, RecordBucket(l), UNCHANGED told
      PROVE  IsFiniteSet(Counted') /\ SamplesConserved'
  <2>1. PICK b \in Buckets : b = Min({l \div kLatencyBucketWidthNs, kLatencyBucketCount})
    BY BucketOfLatency, LatencyReportAssumption
  <2>2. buckets' = [buckets EXCEPT ![b] = @ + 1] /\ buckets \in [Buckets -> Nat]
    BY <1>2, <2>1 DEF RecordBucket, ReportType
  <2>3. IsFiniteSet(Counted') /\ Cardinality(Counted') = Cardinality(Counted) + 1
    BY <1>0, <2>2, OneMoreSample
  <2> QED BY <1>0, <1>2, <2>3 DEF RecordBucket, SamplesConserved, ReportType
<1>3. CASE (RecordSamples \/ RecordLoad \/ RecordCas \/ ProcDone) /\ UNCHANGED told
  <2>1. UNCHANGED <<buckets, frames, told>>
    BY <1>3 DEF RecordSamples, RecordLoad, RecordCas, RecordNext, ProcDone, histogram
  <2>2. Counted' = Counted
    BY <1>0, <2>1
  <2>3. \/ procPc = "samples" /\ procPc' # "samples" /\ samples' = samples + 1
        \/ procPc # "samples" /\ procPc' # "samples" /\ samples' = samples
    BY <1>3 DEF RecordSamples, RecordLoad, RecordCas, RecordNext, ProcDone, histogram
  <2> QED BY <2>1, <2>2, <2>3 DEF SamplesConserved, ReportType
<1>4. CASE RepBucket /\ UNCHANGED proc
  <2>1. /\ buckets' = [buckets EXCEPT ![next] = 0]
        /\ buckets \in [Buckets -> Nat] /\ next \in Buckets
    BY <1>4 DEF RepBucket, Clear, ReportType
  <2>2. /\ IsFiniteSet(Counted') /\ Cardinality(Counted') \in Nat
        /\ Cardinality(Counted') + buckets[next] = Cardinality(Counted)
    BY <1>0, <2>1, BucketTaken
  <2>3. /\ told'.counts = told.counts + buckets[next] /\ told'.samples = told.samples
        /\ UNCHANGED <<frames, samples, procPc>> /\ buckets[next] \in Nat /\ told.counts \in Nat
    BY <1>4, <2>1 DEF RepBucket, ReportType, proc
  <2> QED BY <1>0, <2>2, <2>3 DEF SamplesConserved, ReportType
<1>5. CASE RepSamples /\ UNCHANGED proc
  <2>1. UNCHANGED <<buckets, frames, procPc>> /\ Counted' = Counted
    BY <1>0, <1>5 DEF RepSamples, proc
  <2>2. /\ told'.counts = told.counts /\ told'.samples = told.samples + samples
        /\ samples' = 0 /\ samples \in Nat /\ told.samples \in Nat
    BY <1>5 DEF RepSamples, ReportType
  <2> QED BY <2>1, <2>2 DEF SamplesConserved
<1>6. CASE UNCHANGED <<buckets, samples, frames, procPc, told>>
  BY <1>0, <1>6 DEF SamplesConserved
<1>7. Stop \/ (RepWait /\ UNCHANGED proc) \/ (RepMax /\ UNCHANGED proc) \/ UNCHANGED reportVars
        => UNCHANGED <<buckets, samples, frames, procPc, told>>
  BY DEF Stop, RepWait, RepMax, reportVars, histogram, proc, reporter, ghosts
<1> QED BY <1>1, <1>2, <1>3, <1>4, <1>5, <1>6, <1>7 DEF ReportNext, Process, Reporter

LEMMA MaxStep ==
    ASSUME ReportInv, [ReportNext]_reportVars
    PROVE  MaxTold'
<1>0. ReportType /\ MaxTold /\ ReportType'
  BY ReportTypeStep DEF ReportInv
<1>1. \A a, b \in Nat : a <= Max({b, a}) /\ b <= Max({b, a}) /\ Max({b, a}) \in Nat
  BY MaxOfTwo
<1>2. PICK m \in Nat, s \in Nat : m = max' /\ s = since'
  BY <1>0 DEF ReportType
<1>3. m <= Max({s, m}) /\ s <= Max({s, m}) /\ Max({s, m}) \in Nat
  BY <1>1
<1>4. SUFFICES ASSUME procPc' \in {"frame", "off"} PROVE latency' <= m \/ latency' <= s
  BY <1>0, <1>2, <1>3 DEF MaxTold, ReportType
<1>5. procPc \in {"frame", "off"} => latency <= max \/ latency <= since
  BY <1>0, MaxOfTwo DEF MaxTold, ReportType
<1>6. CASE Receive
  BY <1>0, <1>2, <1>6 DEF Receive
<1>7. CASE (\E l \in Latencies : RecordBucket(l)) \/ RecordSamples
  BY <1>4, <1>7 DEF RecordBucket, RecordSamples
<1>8. CASE RecordLoad \/ RecordCas \/ ProcDone
  BY <1>0, <1>2, <1>4, <1>5, <1>8
     DEF RecordLoad, RecordCas, RecordNext, CasAgain, ProcDone, histogram, ReportType
<1>9. CASE RepMax /\ UNCHANGED proc
  <2>1. max <= since' /\ since <= since'
    BY <1>0, <1>9, MaxOfTwo DEF RepMax, ReportType
  <2>2. UNCHANGED <<procPc, latency>>
    BY <1>9 DEF proc
  <2> QED BY <1>0, <1>2, <1>4, <1>5, <2>1, <2>2 DEF ReportType
<1>10. CASE UNCHANGED <<procPc, latency, max, since>>
  BY <1>2, <1>4, <1>5, <1>10
<1>11. Stop \/ ((RepWait \/ RepBucket \/ RepSamples) /\ UNCHANGED proc) \/ UNCHANGED reportVars
         => UNCHANGED <<procPc, latency, max, since>>
  BY DEF Stop, RepWait, RepBucket, RepSamples, reportVars, histogram, proc, reporter, ghosts
<1> QED BY <1>6, <1>7, <1>8, <1>9, <1>10, <1>11 DEF ReportNext, Process, Reporter

\* The inductive invariant of record_latency beside snapshot_latency, for any
\* histogram and any number of frames and runs.
THEOREM ReportInvariant == ReportSpec => []ReportInv
<1>1. ReportInv /\ [ReportNext]_reportVars => ReportInv'
  <2> SUFFICES ASSUME ReportInv, [ReportNext]_reportVars PROVE ReportInv'
    OBVIOUS
  <2>1. ReportType'
    BY ReportTypeStep DEF ReportInv
  <2> QED BY <2>1, SamplesStep, MaxStep DEF ReportInv
<1> QED BY <1>1, ReportInitial, PTL DEF ReportSpec

\* SamplesConserved: whatever the order of the accesses of record_latency and
\* snapshot_latency, every sample is reported once or still to be reported.
THEOREM SamplesAreConserved == ReportSpec => []SamplesConserved
<1>1. ReportInv => SamplesConserved
  BY DEF ReportInv
<1> QED BY <1>1, ReportInvariant, PTL

\* MaxTold: no maximum is lost between the load and the compare_exchange of
\* record_latency.
THEOREM MaximaAreTold == ReportSpec => []MaxTold
<1>1. ReportInv => MaxTold
  BY DEF ReportInv
<1> QED BY <1>1, ReportInvariant, PTL
=============================================================================
