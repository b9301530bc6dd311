------------------------------ MODULE RingBuffer ------------------------------
(***************************************************************************)
(* containers::RingBuffer (src/src/containers/ring_buffer.hpp), one shared *)
(* access per step.  One thread calls push, another calls pop; each call   *)
(* is cut where it reads or writes a variable the other thread can see.    *)
(*                                                                         *)
(* head_ and tail_ are size_t counters that are never reduced to the       *)
(* buffer: they run through all their Modulus values and wrap, and a slot  *)
(* is found by masking.  The loads of the other side's counter are acquire *)
(* and the stores of the own counter are release, so what a thread did     *)
(* before its store is visible to a thread that saw the store: for one     *)
(* producer and one consumer the interleavings of the accesses below are   *)
(* all the executions there are.                                           *)
(***************************************************************************)
EXTENDS Integers, Sequences

CONSTANTS Capacity,   \* template parameter Capacity
          Modulus,    \* how many values a size_t has
          Values,     \* the values of T that are pushed
          NoValue     \* an element of buffer_ that was never written

\* The two static_asserts, and Capacity being a size_t itself.
ASSUME CapacityAssumption ==
    /\ Capacity \in Nat
    /\ Capacity > 1
    /\ Modulus \in Nat
    /\ Capacity < Modulus
    /\ Modulus % Capacity = 0

\* Powers of two: x & (Capacity - 1) is then x % Capacity.
ASSUME PowerOfTwoAssumption == \E n \in 1..Capacity : Capacity = 2^n

ASSUME NoValueAssumption == NoValue \notin Values

VARIABLES head_, tail_, buffer_,
          pushPc, pushHead, pushTail, pushData,   \* push: h, t and data
          popPc, popHead, popData                 \* pop: h and data

pushVars == <<pushPc, pushHead, pushTail, pushData>>
popVars == <<popPc, popHead, popData>>
vars == <<head_, tail_, buffer_, pushVars, popVars>>

Counter == 0..(Modulus - 1)
Slot == 0..(Capacity - 1)

\* size_t subtraction and increment, and the masking of a counter.
Minus(a, b) == (a - b) % Modulus
Inc(a) == (a + 1) % Modulus
Mask(a) == a % Capacity

Init ==
    /\ head_ = 0
    /\ tail_ = 0
    /\ buffer_ = [s \in Slot |-> NoValue]
    /\ pushPc = "idle" /\ pushHead = 0 /\ pushTail = 0 /\ pushData = NoValue
    /\ popPc = "idle" /\ popHead = 0 /\ popData = NoValue

-----------------------------------------------------------------------------
(* push                                                                    *)

PushCall(v) ==
    /\ pushPc = "idle"
    /\ pushPc' = "loadHead"
    /\ pushData' = v
    /\ UNCHANGED <<head_, tail_, buffer_, pushHead, pushTail, popVars>>

PushLoadHead ==
    /\ pushPc = "loadHead"
    /\ pushPc' = "loadTail"
    /\ pushHead' = head_
    /\ UNCHANGED <<head_, tail_, buffer_, pushTail, pushData, popVars>>

\* Fault: a full test that allows one element too many.
PushLoadTailOffByOne ==
    /\ pushPc = "loadTail"
    /\ pushTail' = tail_
    /\ pushPc' = IF Minus(tail_, pushHead) > Capacity THEN "full" ELSE "write"
    /\ UNCHANGED <<head_, tail_, buffer_, pushHead, pushData, popVars>>

\* The load of tail_ and the test for full, which uses only locals.
PushLoadTail ==
    /\ pushPc = "loadTail"
    /\ pushTail' = tail_
    /\ pushPc' = IF Minus(tail_, pushHead) = Capacity THEN "full" ELSE "write"
    /\ UNCHANGED <<head_, tail_, buffer_, pushHead, pushData, popVars>>

PushWrite ==
    /\ pushPc = "write"
    /\ pushPc' = "store"
    /\ buffer_' = [buffer_ EXCEPT ![Mask(pushTail)] = pushData]
    /\ UNCHANGED <<head_, tail_, pushHead, pushTail, pushData, popVars>>

PushStore ==
    /\ pushPc = "store"
    /\ pushPc' = "ok"
    /\ tail_' = Inc(pushTail)
    /\ UNCHANGED <<head_, buffer_, pushHead, pushTail, pushData, popVars>>

PushReturn ==
    /\ pushPc \in {"ok", "full"}
    /\ pushPc' = "idle"
    /\ UNCHANGED <<head_, tail_, buffer_, pushHead, pushTail, pushData, popVars>>

-----------------------------------------------------------------------------
(* pop                                                                     *)

PopCall ==
    /\ popPc = "idle"
    /\ popPc' = "loadHead"
    /\ popData' = NoValue
    /\ UNCHANGED <<head_, tail_, buffer_, popHead, pushVars>>

PopLoadHead ==
    /\ popPc = "loadHead"
    /\ popPc' = "loadTail"
    /\ popHead' = head_
    /\ UNCHANGED <<head_, tail_, buffer_, popData, pushVars>>

\* Faults: no test for empty, and a head_ stored before the slot is read.
PopLoadTailNoTest ==
    /\ popPc = "loadTail"
    /\ popPc' = "read"
    /\ UNCHANGED <<head_, tail_, buffer_, popHead, popData, pushVars>>

PopLoadTailReleases ==
    /\ popPc = "loadTail"
    /\ IF popHead = tail_
       THEN popPc' = "empty" /\ UNCHANGED head_
       ELSE popPc' = "read" /\ head_' = Inc(popHead)
    /\ UNCHANGED <<tail_, buffer_, popHead, popData, pushVars>>

\* The load of tail_ and the test for empty.
PopLoadTail ==
    /\ popPc = "loadTail"
    /\ popPc' = IF popHead = tail_ THEN "empty" ELSE "read"
    /\ UNCHANGED <<head_, tail_, buffer_, popHead, popData, pushVars>>

PopRead ==
    /\ popPc = "read"
    /\ popPc' = "store"
    /\ popData' = buffer_[Mask(popHead)]
    /\ UNCHANGED <<head_, tail_, buffer_, popHead, pushVars>>

PopStore ==
    /\ popPc = "store"
    /\ popPc' = "ok"
    /\ head_' = Inc(popHead)
    /\ UNCHANGED <<tail_, buffer_, popHead, popData, pushVars>>

PopReturn ==
    /\ popPc \in {"ok", "empty"}
    /\ popPc' = "idle"
    /\ UNCHANGED <<head_, tail_, buffer_, popHead, popData, pushVars>>

-----------------------------------------------------------------------------
\* reset() has no synchronisation of its own: FramePool::init calls it before
\* the threads exist, so only while neither thread is in a call.
Reset ==
    /\ pushPc = "idle"
    /\ popPc = "idle"
    /\ head_' = 0
    /\ tail_' = 0
    /\ UNCHANGED <<buffer_, pushVars, popVars>>

Next ==
    \/ \E v \in Values : PushCall(v)
    \/ PushLoadHead
    \/ PushLoadTail
    \/ PushWrite
    \/ PushStore
    \/ PushReturn
    \/ PopCall
    \/ PopLoadHead
    \/ PopLoadTail
    \/ PopRead
    \/ PopStore
    \/ PopReturn
    \/ Reset

Spec == Init /\ [][Next]_vars

-----------------------------------------------------------------------------
PushPcs == {"idle", "loadHead", "loadTail", "write", "store", "ok", "full"}
PopPcs == {"idle", "loadHead", "loadTail", "read", "store", "ok", "empty"}

\* Every variable of a ring holds a value of its C++ type.
TypeOK ==
    /\ head_ \in Counter /\ tail_ \in Counter
    /\ buffer_ \in [Slot -> Values \cup {NoValue}]
    /\ pushPc \in PushPcs /\ pushHead \in Counter /\ pushTail \in Counter
    /\ pushData \in Values \cup {NoValue}
    /\ popPc \in PopPcs /\ popHead \in Counter
    /\ popData \in Values \cup {NoValue}

\* How many elements the ring holds; the test (t - h) == Capacity of push.
Size == Minus(tail_, head_)

\* The producer never laps the consumer: however the counters wrap, and
\* however old the head_ that push compared with, at most Capacity elements
\* are between head_ and tail_.
NeverLapped == Size <= Capacity

\* push writes buffer_[t & mask_] and pop reads buffer_[h & mask_] as plain
\* memory.  They are never about to touch the same slot, so the unsynchronised
\* accesses are not a data race.
NoSlotRace ==
    ~ /\ pushPc = "write"
      /\ popPc = "read"
      /\ Mask(pushTail) = Mask(popHead)

\* Why the ring is right, inductively: the head_ a push holds is never newer
\* than the real one, so its test errs only towards full; the tail_ it holds
\* is its own; what it wrote stays in the slot until tail_ publishes it; and
\* the element a pop copies stays in its slot until head_ releases it.
RingInv ==
    /\ TypeOK
    /\ NeverLapped
    /\ pushPc \in {"loadTail", "write", "store"} =>
         /\ Size <= Minus(tail_, pushHead)
         /\ Minus(tail_, pushHead) <= Capacity
    /\ pushPc \in {"write", "store"} =>
         /\ pushTail = tail_
         /\ Minus(tail_, pushHead) # Capacity
    /\ pushPc = "store" => buffer_[Mask(tail_)] = pushData
    /\ popPc \in {"loadTail", "read", "store"} => popHead = head_
    /\ popPc \in {"read", "store"} => head_ # tail_
    /\ popPc = "store" => popData = buffer_[Mask(head_)]

-----------------------------------------------------------------------------
(* The queue a ring stands for, and where each call takes effect: a push   *)
(* at its store of tail_, or, when full, at its load of head_; a pop at    *)
(* its store of head_, or, when empty, at its load of tail_.               *)

Contents == [i \in 1..Size |-> buffer_[Mask(head_ + i - 1)]]

PushState ==
    CASE pushPc \in {"idle", "ok", "full"} -> pushPc
      [] pushPc = "loadTail" /\ Minus(tail_, pushHead) = Capacity -> "full"
      [] OTHER -> "called"

PopState == IF popPc \in {"idle", "ok", "empty"} THEN popPc ELSE "called"

Popped == IF popPc = "ok" THEN popData ELSE NoValue

Fifo == INSTANCE BoundedFifo
          WITH queue <- Contents, pushState <- PushState, pushArg <- pushData,
               popState <- PopState, popped <- Popped

\* Ring buffer calls are linearizable: every execution of push and pop by one
\* producer and one consumer is an execution of the bounded FIFO queue.
RefinesFifo == Fifo!Spec
=============================================================================
