----------------------------- MODULE BoundedFifo -----------------------------
(***************************************************************************)
(* What containers::RingBuffer promises its two callers: a queue of at     *)
(* most Capacity values, one thread pushing and one thread popping, in     *)
(* which every call takes effect at one instant between its call and its   *)
(* return.  A push answers "full" only if the queue was full at that       *)
(* instant, a pop answers "empty" only if it was empty, and values leave   *)
(* in the order in which they entered.                                     *)
(*                                                                         *)
(* Nothing of ring_buffer.hpp is translated here: this is the              *)
(* specification that RingBuffer.tla, the translation, is shown to         *)
(* implement.                                                              *)
(***************************************************************************)
EXTENDS Naturals, Sequences

CONSTANTS Capacity,   \* the most values the queue holds
          Values,     \* what may be pushed
          NoValue     \* what a caller has when it popped nothing

VARIABLES queue,      \* the values inside, oldest first
          pushState,  \* where the pushing thread is: idle, called, ok or full
          pushArg,    \* the argument of its last call
          popState,   \* where the popping thread is: idle, called, ok or empty
          popped      \* the value its last call returned, until it returns

vars == <<queue, pushState, pushArg, popState, popped>>

Init ==
    /\ queue = <<>>
    /\ pushState = "idle"
    /\ pushArg = NoValue
    /\ popState = "idle"
    /\ popped = NoValue

PushCall(v) ==
    /\ pushState = "idle"
    /\ pushState' = "called"
    /\ pushArg' = v
    /\ UNCHANGED <<queue, popState, popped>>

PushOk ==
    /\ pushState = "called"
    /\ Len(queue) < Capacity
    /\ queue' = Append(queue, pushArg)
    /\ pushState' = "ok"
    /\ UNCHANGED <<pushArg, popState, popped>>

PushFull ==
    /\ pushState = "called"
    /\ Len(queue) = Capacity
    /\ pushState' = "full"
    /\ UNCHANGED <<queue, pushArg, popState, popped>>

PushReturn ==
    /\ pushState \in {"ok", "full"}
    /\ pushState' = "idle"
    /\ UNCHANGED <<queue, pushArg, popState, popped>>

PopCall ==
    /\ popState = "idle"
    /\ popState' = "called"
    /\ UNCHANGED <<queue, pushState, pushArg, popped>>

PopOk ==
    /\ popState = "called"
    /\ queue # <<>>
    /\ popped' = Head(queue)
    /\ queue' = Tail(queue)
    /\ popState' = "ok"
    /\ UNCHANGED <<pushState, pushArg>>

PopEmpty ==
    /\ popState = "called"
    /\ queue = <<>>
    /\ popState' = "empty"
    /\ UNCHANGED <<queue, pushState, pushArg, popped>>

PopReturn ==
    /\ popState \in {"ok", "empty"}
    /\ popState' = "idle"
    /\ popped' = NoValue
    /\ UNCHANGED <<queue, pushState, pushArg>>

\* Emptying the queue is allowed only while neither thread is in a call.
Reset ==
    /\ pushState = "idle"
    /\ popState = "idle"
    /\ queue' = <<>>
    /\ UNCHANGED <<pushState, pushArg, popState, popped>>

Next ==
    \/ \E v \in Values : PushCall(v)
    \/ PushOk
    \/ PushFull
    \/ PushReturn
    \/ PopCall
    \/ PopOk
    \/ PopEmpty
    \/ PopReturn
    \/ Reset

Spec == Init /\ [][Next]_vars
=============================================================================
