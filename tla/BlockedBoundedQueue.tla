------------------------- MODULE BlockedBoundedQueue -------------------------
(***************************************************************************)
(* containers::BlockedBoundedQueue (src/src/containers/                    *)
(* blocked_bounded_queue.hpp): a mutex, two condition variables and a      *)
(* circular buffer.  What a call does while it holds mtx_ is one step; it  *)
(* ends by returning, by waiting (which gives up the mutex), or by         *)
(* unlocking, after which the notification is a step of its own.           *)
(***************************************************************************)
EXTENDS Integers, Sequences, FiniteSets

CONSTANTS Producers, Consumers,   \* threads that enqueue, that dequeue
          Closer,                 \* the thread that calls clear() and close()
          Values,                 \* what is enqueued
          kCapacity,
          MaxCalls                \* bound: calls of enqueue

Callers == Producers \cup Consumers \cup {Closer}

ASSUME QueueAssumption ==
    /\ kCapacity \in Nat \ {0}
    /\ MaxCalls \in Nat
    /\ IsFiniteSet(Producers) /\ IsFiniteSet(Consumers)
    /\ Producers \cap Consumers = {}
    /\ Closer \notin Producers \cup Consumers

VARIABLES buffer, head_, tail_, size_, closed_,
          pc,             \* per thread: where it is in its call
          data,           \* per producer: the argument of enqueue
          calls,          \* how many calls of enqueue were made
          live, cleared   \* history: what should be queued; clear() was called

queue == <<buffer, head_, tail_, size_>>
queueVars == <<queue, closed_, pc, data, calls, live, cleared>>

QueueInit ==
    /\ buffer \in [0..(kCapacity - 1) -> Values]   \* uninitialised
    /\ head_ = 0 /\ tail_ = 0 /\ size_ = 0 /\ closed_ = FALSE
    /\ pc = [t \in Callers |-> "idle"]
    /\ data \in {[p \in Producers |-> v] : v \in Values}
    /\ calls = 0
    /\ live = <<>> /\ cleared = FALSE

Goto(t, label) == pc' = [pc EXCEPT ![t] = label]

Waiting(S) == {t \in S : pc[t] = "waiting"}

\* notify_one on the condition variable the threads of S wait on.
NotifyOne(t, S) ==
    IF Waiting(S) = {}
    THEN Goto(t, "idle")
    ELSE \E w \in Waiting(S) : pc' = [pc EXCEPT ![t] = "idle", ![w] = "lock"]

-----------------------------------------------------------------------------
\* Calls and notifications only move threads.
Moves == UNCHANGED <<queue, closed_, data, calls, live, cleared>>

EnqueueCall(p, v) ==
    /\ pc[p] = "idle" /\ Goto(p, "lock")
    /\ calls < MaxCalls /\ calls' = calls + 1
    /\ data' = [data EXCEPT ![p] = v]
    /\ UNCHANGED <<queue, closed_, live, cleared>>

Put(v) ==
    /\ buffer' = [buffer EXCEPT ![tail_] = v]
    /\ tail_' = (tail_ + 1) % kCapacity
    /\ size_' = size_ + 1
    /\ live' = Append(live, v)
    /\ UNCHANGED head_

\* The mutex is taken: refused when closed, put when there is room, else wait.
Enqueue(p) ==
    /\ pc[p] = "lock"
    /\ IF closed_ THEN Goto(p, "idle") /\ UNCHANGED <<queue, live>>
       ELSE IF size_ < kCapacity THEN Put(data[p]) /\ Goto(p, "notify")
       ELSE Goto(p, "waiting") /\ UNCHANGED <<queue, live>>
    /\ UNCHANGED <<closed_, data, calls, cleared>>

\* Fault: consumers are notified only when the queue was empty before.
EnqueueNotifyFirst(p) ==
    /\ pc[p] = "notify" /\ Moves
    /\ IF size_ = 1 THEN NotifyOne(p, Consumers) ELSE Goto(p, "idle")

EnqueueNotify(p) == pc[p] = "notify" /\ NotifyOne(p, Consumers) /\ Moves

-----------------------------------------------------------------------------
DequeueCall(c) == pc[c] = "idle" /\ Goto(c, "lock") /\ Moves

\* What is queued is still handed out after close().
Dequeue(c) ==
    /\ pc[c] = "lock"
    /\ IF size_ > 0
       THEN /\ head_' = (head_ + 1) % kCapacity
            /\ size_' = size_ - 1
            /\ live' = Tail(live)
            /\ Goto(c, "notify")
            /\ UNCHANGED <<buffer, tail_>>
       ELSE /\ Goto(c, IF closed_ THEN "idle" ELSE "waiting")
            /\ UNCHANGED <<queue, live>>
    /\ UNCHANGED <<closed_, data, calls, cleared>>

\* Fault: producers are notified only when the queue was full before.
DequeueNotifyFull(c) ==
    /\ pc[c] = "notify" /\ Moves
    /\ IF size_ = kCapacity - 1 THEN NotifyOne(c, Producers) ELSE Goto(c, "idle")

DequeueNotify(c) == pc[c] = "notify" /\ NotifyOne(c, Producers) /\ Moves

\* A condition variable may wake without being notified.
SpuriousWake(t) == pc[t] = "waiting" /\ Goto(t, "lock") /\ Moves

-----------------------------------------------------------------------------
\* Fault: tail_ is not reset.
ClearKeepsTail ==
    /\ pc[Closer] = "idle"
    /\ head_' = 0 /\ size_' = 0
    /\ live' = <<>> /\ cleared' = TRUE
    /\ UNCHANGED <<buffer, tail_, closed_, pc, data, calls>>

\* clear() notifies nobody.
Clear ==
    /\ pc[Closer] = "idle"
    /\ head_' = 0 /\ tail_' = 0 /\ size_' = 0
    /\ live' = <<>> /\ cleared' = TRUE
    /\ UNCHANGED <<buffer, closed_, pc, data, calls>>

Close ==
    /\ pc[Closer] = "idle" /\ Goto(Closer, "notifyFull")
    /\ ~closed_ /\ closed_' = TRUE
    /\ UNCHANGED <<queue, data, calls, live, cleared>>

NotifyAll(S, next) ==
    pc' = [t \in Callers |-> IF t = Closer THEN next
                             ELSE IF t \in Waiting(S) THEN "lock" ELSE pc[t]]

CloseNotifyFull ==
    pc[Closer] = "notifyFull" /\ NotifyAll(Producers, "notifyEmpty") /\ Moves

\* Fault: close() wakes a single consumer.
CloseNotifyOne ==
    pc[Closer] = "notifyEmpty" /\ NotifyOne(Closer, Consumers) /\ Moves

CloseNotifyEmpty ==
    pc[Closer] = "notifyEmpty" /\ NotifyAll(Consumers, "idle") /\ Moves

Producer(p) == Enqueue(p) \/ EnqueueNotify(p)
Consumer(c) == Dequeue(c) \/ DequeueNotify(c)
Closing == CloseNotifyFull \/ CloseNotifyEmpty

QueueNext ==
    \/ \E p \in Producers : Producer(p) \/ \E v \in Values : EnqueueCall(p, v)
    \/ \E c \in Consumers : Consumer(c) \/ DequeueCall(c)
    \/ \E t \in Producers \cup Consumers : SpuriousWake(t)
    \/ Clear \/ Close \/ Closing

\* A thread inside a call goes on with it; nobody is obliged to make a call,
\* and no wait to end by itself.
QueueSpec ==
    /\ QueueInit /\ [][QueueNext]_queueVars
    /\ \A p \in Producers : WF_queueVars(Producer(p))
    /\ \A c \in Consumers : WF_queueVars(Consumer(c))
    /\ WF_queueVars(Closing)

-----------------------------------------------------------------------------
\* The circular buffer holds, from head_ on, exactly what was enqueued and
\* neither dequeued nor cleared, oldest first, and tail_ is where it ends.
BufferHoldsQueue ==
    /\ live = [k \in 1..size_ |-> buffer[(head_ + k - 1) % kCapacity]]
    /\ tail_ = (head_ + size_) % kCapacity

At(S, label) == Cardinality({t \in S : pc[t] = label})

\* No wake-up is lost although the notification comes after the unlock: while
\* a consumer waits, every queued element has a notification under way or a
\* consumer about to look.
NoConsumerForgotten ==
    Waiting(Consumers) # {} => size_ <= At(Producers, "notify") + At(Consumers, "lock")

\* The same for producers and free places, unless clear() made room; after
\* close() the notification for all of them takes over.
NoProducerForgotten ==
    (Waiting(Producers) # {} /\ ~cleared /\ ~closed_) =>
        kCapacity - size_ <= At(Consumers, "notify") + At(Producers, "lock")

\* close() ends every wait, whoever waits and whatever was notified before.
CloseReleasesAll ==
    closed_ ~> (Waiting(Producers \cup Consumers) = {})
=============================================================================
