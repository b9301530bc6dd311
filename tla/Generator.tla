----------------------------- MODULE Generator -----------------------------
(***************************************************************************)
(* The two market data generators: generator::v2::Generator                *)
(* (src/src/generator/v2/generator.cpp) on the UDP sender                  *)
(* (src/src/common/net/v2/udp_sender.cpp), whose run() makes messages in   *)
(* bursts and hands each burst to sendmmsg, which may take a part of it,   *)
(* ask to try again or fail; and generator::Generator                      *)
(* (src/src/generator/v1/generator.cpp) on the UDP client                  *)
(* (src/src/common/net/v1/udp_client.hpp), which sends each message as it  *)
(* is made and does not retry.  Both leave holes in the sequence numbers   *)
(* on purpose, where their random numbers say so.                          *)
(*                                                                         *)
(* The paced loops differ from the unpaced ones only in when they send.    *)
(* EINTR repeats a call and is a stuttering step.                          *)
(***************************************************************************)
EXTENDS Wire, FiniteSets

CONSTANTS Versions,                      \* the generators, of {1, 2}
          count, burst_size,             \* arguments of run()
          gap_mod, gap_span, Seeds,
          symbol_count, PriceRange, SizeRange,   \* make_message
          Samples,                       \* messages given to send_one()
          kMaxSendRetries,
          MaxCalls                       \* bound: calls of run() and send_one()

ASSUME GeneratorAssumption ==
    /\ Versions \subseteq {1, 2} /\ Seeds \subseteq Int
    /\ count \in Nat \ {0} /\ burst_size \in Nat \ {0}
    /\ gap_mod \in Nat /\ gap_span \in Nat
    /\ symbol_count \in Nat /\ PriceRange \in Nat \ {0} /\ SizeRange \in Nat \ {0}
    /\ Samples \subseteq MarketDataMsg
    /\ kMaxSendRetries \in Nat /\ MaxCalls \in Nat

\* What make_message computes fits its fields, and no run is long enough for
\* seq_, a uint64_t, to wrap.
ASSUME FieldsAssumption ==
    /\ B8 % 2 = 0
    /\ symbol_count < B4 /\ 10 + PriceRange < B8 \div 2 /\ 1 + SizeRange < B4 \div 2
    /\ count * (gap_span + 1) < B8

VARIABLES
    version,                     \* which generator this is
    fd_,                         \* is the socket open
    sent, retry,                 \* send_batch and send_one
    rng_state_, seq_,            \* Generator
    slots, produced, batch,      \* run: slots counts down
    one,                         \* the message of send_one
    pc, result, calls,
    net,                         \* frames on their way, oldest first
    made, wire, holes,           \* history of this run: messages made, messages
                                 \* taken by the kernel, where the holes are
    handed                       \* history: messages the kernel ever took

runVars == <<rng_state_, seq_, slots, produced, batch>>
sending == <<sent, retry>>
history == <<made, wire, holes>>
generatorVars == <<version, fd_, sending, runVars, one, pc, result, calls,
                   net, history, handed>>

GeneratorInit ==
    /\ version \in Versions
    /\ fd_ = FALSE
    /\ sent = 0 /\ retry = 0
    /\ rng_state_ = 1 /\ seq_ = 0 /\ slots = 0 /\ produced = 0 /\ batch = <<>>
    /\ one \in Samples
    /\ pc = "idle" /\ result = TRUE /\ calls = 0
    /\ net = <<>> /\ made = <<>> /\ wire = <<>> /\ holes = {}
    /\ handed = {}

\* A call ends and reports whether it succeeded.
Return(ok) == pc' = "idle" /\ result' = ok
Goto(label) == pc' = label /\ UNCHANGED result

-----------------------------------------------------------------------------
(* make_message                                                            *)

\* The random numbers: a linear congruential generator on uint32_t.
next_rand(state) == (state * 1664525 + 1013904223) % B4

make_message(seq, r) ==
    LET bid == 10 + (r % PriceRange)
        size == 1 + (r % SizeRange)
    IN  [seq_num |-> seq,
         symbol_id |-> IF symbol_count = 0 THEN 1 ELSE (r % symbol_count) + 1,
         exchange_ts |-> ToSigned(seq, B8),
         bid_price |-> bid, ask_price |-> bid + 1,
         bid_size |-> size, ask_size |-> size + 1]

\* Whether the next slot becomes a hole, and the random number left for a
\* message.
InjectGap == gap_mod > 0 /\ gap_span > 0
IsHole == InjectGap /\ next_rand(rng_state_) % gap_mod < gap_span
MessageRand == next_rand(IF InjectGap THEN next_rand(rng_state_) ELSE rng_state_)

\* The kernel takes messages, each encoded into a datagram of its own.
Hand(msgs) ==
    /\ net' = net \o [k \in 1..Len(msgs) |-> encode(msgs[k])]
    /\ handed' = handed \cup {msgs[k] : k \in 1..Len(msgs)}

-----------------------------------------------------------------------------
(* open, connect and run                                                   *)

\* The old socket is closed, the new one may fail to open.
open_client == version = 1 /\ fd_' \in BOOLEAN
SenderOpen == version = 2 /\ fd_' \in BOOLEAN

Open ==
    /\ pc = "idle"
    /\ open_client \/ SenderOpen
    /\ UNCHANGED <<version, sending, runVars, one, pc, result, calls, net,
                   history, handed>>

\* Without a socket run() returns false at once.  v1 goes through its slots
\* one by one, v2 in bursts.
Run(seed) ==
    /\ pc = "idle" /\ calls < MaxCalls /\ calls' = calls + 1
    /\ IF fd_
       THEN /\ rng_state_' = IF seed <= 0 THEN 1 ELSE seed
            /\ seq_' = 0 /\ produced' = 0 /\ batch' = <<>> /\ sent' = 0
            /\ slots' = IF version = 1 THEN count ELSE 0
            /\ made' = <<>> /\ wire' = <<>> /\ holes' = {}
            /\ Goto(IF version = 1 THEN "slot" ELSE "while")
       ELSE Return(FALSE) /\ UNCHANGED <<runVars, sent, history>>
    /\ UNCHANGED <<version, fd_, retry, one, net, handed>>

\* while (produced < count): the next burst, or return true.
While ==
    /\ pc = "while"
    /\ batch' = <<>> /\ sent' = 0
    /\ IF produced < count
       THEN /\ slots' = IF burst_size < count - produced
                        THEN burst_size ELSE count - produced
            /\ Goto("fill")
       ELSE Return(TRUE) /\ UNCHANGED slots
    /\ UNCHANGED <<retry, rng_state_, seq_, produced, one, net, history, handed>>

\* The comments say gap_span (see HolesSkipSpan).
HoleLength == gap_span + 1

TakeSlot == slots > 0 /\ slots' = slots - 1 /\ produced' = produced + 1

\* A slot becomes a hole in the sequence numbers, in either version ...
FillGap ==
    /\ pc \in {"fill", "slot"} /\ IsHole /\ TakeSlot
    /\ rng_state_' = next_rand(rng_state_)
    /\ seq_' = seq_ + HoleLength
    /\ holes' = holes \cup {seq_}
    /\ UNCHANGED <<sending, batch, one, pc, result, net, made, wire, handed>>

NextMessage == make_message(seq_, MessageRand)

MakeMessage ==
    /\ ~IsHole /\ TakeSlot
    /\ rng_state_' = MessageRand /\ seq_' = seq_ + 1
    /\ made' = Append(made, NextMessage)
    /\ UNCHANGED <<sending, one, holes>>

\* ... or a message, which v2 adds to the burst ...
FillMessage ==
    /\ pc = "fill" /\ MakeMessage
    /\ batch' = Append(batch, NextMessage)
    /\ UNCHANGED <<pc, result, net, wire, handed>>

\* Fault: a failed send is passed over.
SlotFailsOn == UNCHANGED <<pc, result>>

SlotFails == Return(FALSE)

send_message(msg) == wire' = Append(wire, msg) /\ Hand(<<msg>>)

\* ... and v1 sends: send_message succeeds or run() returns false.
SlotMessage ==
    /\ pc = "slot" /\ MakeMessage
    /\ \/ send_message(NextMessage) /\ UNCHANGED <<pc, result>>
       \/ SlotFails /\ UNCHANGED <<wire, net, handed>>
    /\ UNCHANGED batch

SlotsDone ==
    /\ pc = "slot" /\ slots = 0
    /\ Return(TRUE)
    /\ UNCHANGED <<sending, runVars, one, net, history, handed>>

\* send_or_fail: an empty burst needs no call.
Filled ==
    /\ pc = "fill" /\ slots = 0
    /\ Goto(IF batch = <<>> THEN "while" ELSE "send")
    /\ retry' = 0
    /\ UNCHANGED <<sent, runVars, one, net, history, handed>>

-----------------------------------------------------------------------------
(* Sender::send_batch: the remaining frames, until all are taken           *)

\* Fault: what was taken is sent again with the rest.
SentAfterNone(n) == IF sent + n = Len(batch) THEN sent + n ELSE sent

SentAfter(n) == sent + n

\* sendmmsg took n frames; the retries start over for the rest.
SendSome(n) ==
    /\ pc = "send" /\ n \in 1..(Len(batch) - sent)
    /\ sent' = SentAfter(n) /\ retry' = 0
    /\ LET taken == SubSeq(batch, sent + 1, sent + n)
       IN  /\ wire' = wire \o taken
           /\ Hand(taken)
    /\ Goto(IF sent + n = Len(batch) THEN "while" ELSE "send")
    /\ UNCHANGED <<runVars, one, made, holes>>

\* Fault: a number of retries that starts over at its limit.
RetryForever ==
    retry' = (IF retry < kMaxSendRetries THEN retry + 1 ELSE 0) /\ UNCHANGED <<pc, result>>

\* A transient error: back off and retry, at most kMaxSendRetries times.
Retry ==
    IF retry < kMaxSendRetries
    THEN retry' = retry + 1 /\ UNCHANGED <<pc, result>>
    ELSE Return(FALSE) /\ UNCHANGED retry

SendAgain ==
    /\ pc = "send" \/ (pc = "one" /\ version = 2)
    /\ Retry
    /\ UNCHANGED <<sent, runVars, one, net, history, handed>>

\* Any other error, or for send_one a short write.
SendFails ==
    /\ pc \in {"send", "one"}
    /\ Return(FALSE)
    /\ UNCHANGED <<sending, runVars, one, net, history, handed>>

-----------------------------------------------------------------------------
(* send_one of v2, which retries like send_batch, and send of v1           *)

SendOneCall(msg) ==
    /\ pc = "idle" /\ calls < MaxCalls /\ calls' = calls + 1
    /\ IF fd_ THEN Goto("one") /\ one' = msg /\ retry' = 0
       ELSE Return(FALSE) /\ UNCHANGED <<one, retry>>
    /\ UNCHANGED <<version, fd_, sent, runVars, net, history, handed>>

OneSent ==
    /\ pc = "one"
    /\ Hand(<<one>>)
    /\ Return(TRUE)
    /\ UNCHANGED <<sending, runVars, one, history>>

-----------------------------------------------------------------------------
Working ==
    /\ \/ While \/ FillGap \/ FillMessage \/ Filled
       \/ SlotMessage \/ SlotsDone
       \/ \E n \in 1..burst_size : SendSome(n)
       \/ SendAgain \/ SendFails \/ OneSent
    /\ UNCHANGED <<version, fd_, calls>>

Calls ==
    \/ Open
    \/ \E seed \in Seeds : Run(seed)
    \/ \E msg \in Samples : SendOneCall(msg)

-----------------------------------------------------------------------------
\* Through partial sends and retries, what the kernel took in this run is
\* exactly what was made, in order and once each, up to the message
\* send_batch has reached; and no sequence number is made twice in a run.
WireInOrder ==
    LET unsent == IF version = 2 THEN Len(batch) - sent ELSE Len(made) - Len(wire)
    IN  /\ wire = SubSeq(made, 1, Len(made) - unsent)
        /\ version = 1 /\ pc = "slot" => unsent = 0
        /\ \A k \in 1..(Len(made) - 1) : made[k].seq_num < made[k + 1].seq_num

\* The comments of run(): a hole skips gap_span sequence numbers, so that
\* between two messages made one after the other the holes skip gap_span each.
HolesSkipSpan ==
    \A k \in 1..(Len(made) - 1) :
        LET a == made[k].seq_num
            b == made[k + 1].seq_num
        IN  b - a - 1 = gap_span * Cardinality({h \in holes : a < h /\ h < b})

\* When run() returns true, every one of its count slots was put to use, as a
\* message the kernel took or as a hole.
SuccessIsComplete ==
    [][(pc \in {"while", "slot"} /\ pc' = "idle" /\ result') =>
         wire = made /\ Len(wire) + Cardinality(holes) = count]_generatorVars

\* run() and send_one() return, since transient errors are retried a bounded
\* number of times.
CallsReturn == (pc # "idle") ~> (pc = "idle")
=============================================================================
