----------------------------- MODULE SeqTracker -----------------------------
(***************************************************************************)
(* The sequence tracking that follows a successful decode, the same code   *)
(* in all three engines (in v3 without the counters): process_loop in      *)
(* src/src/engine/v1/engine.cpp.  expected_seq_num_ and the counters of    *)
(* metrics::Metrics are uint64_t and wrap.                                 *)
(***************************************************************************)
EXTENDS Integers

CONSTANT SeqModulus   \* how many values a uint64_t has

ASSUME SeqAssumption == SeqModulus \in Nat /\ SeqModulus > 1

VARIABLES seq_initialized, expected_seq_num,
          received, processed, drops, seq_num_gaps   \* metrics::Metrics

trackerVars == <<seq_initialized, expected_seq_num,
                 received, processed, drops, seq_num_gaps>>

Uint64 == 0..(SeqModulus - 1)

Add(a, b) == (a + b) % SeqModulus

TrackerInit ==
    /\ seq_initialized = FALSE
    /\ expected_seq_num = 0
    /\ received = 0 /\ processed = 0 /\ drops = 0 /\ seq_num_gaps = 0

\* Faults: expected_seq_num left at the number just seen, ...
AcceptStays(seq, gap) ==
    /\ expected_seq_num' = seq
    /\ seq_initialized' = TRUE
    /\ processed' = Add(processed, 1)
    /\ seq_num_gaps' = Add(seq_num_gaps, gap)
    /\ UNCHANGED drops

\* ... and a gap of any length counted as one.
AcceptCountsEvents(seq, gap) ==
    /\ expected_seq_num' = Add(seq, 1)
    /\ seq_initialized' = TRUE
    /\ processed' = Add(processed, 1)
    /\ seq_num_gaps' = Add(seq_num_gaps, IF gap > 0 THEN 1 ELSE 0)
    /\ UNCHANGED drops

\* A first, expected or later number is processed and moves expected_seq_num
\* past it; a later one also counts the numbers jumped over.
Accept(seq, gap) ==
    /\ expected_seq_num' = Add(seq, 1)
    /\ seq_initialized' = TRUE
    /\ processed' = Add(processed, 1)
    /\ seq_num_gaps' = Add(seq_num_gaps, gap)
    /\ UNCHANGED drops

\* Fault: a rejected frame that is not counted.
RejectSilently ==
    UNCHANGED <<seq_initialized, expected_seq_num, processed, drops, seq_num_gaps>>

\* An old, duplicate or out-of-order number is counted as a drop.
Reject ==
    /\ drops' = Add(drops, 1)
    /\ UNCHANGED <<seq_initialized, expected_seq_num, processed, seq_num_gaps>>

\* Faults: the number before the expected one let through, ...
TrackRepeats(seq) ==
    /\ received' = Add(received, 1)
    /\ IF ~seq_initialized THEN Accept(seq, 0)
       ELSE IF seq >= expected_seq_num THEN Accept(seq, seq - expected_seq_num)
       ELSE IF seq + 1 = expected_seq_num THEN Accept(seq, 0)
       ELSE Reject

\* ... and a late number that moves expected_seq_num back to it.
TrackResyncs(seq) ==
    /\ received' = Add(received, 1)
    /\ IF seq_initialized /\ seq > expected_seq_num
       THEN Accept(seq, seq - expected_seq_num)
       ELSE Accept(seq, 0)

Track(seq) ==
    /\ received' = Add(received, 1)
    /\ IF ~seq_initialized THEN Accept(seq, 0)
       ELSE IF seq >= expected_seq_num THEN Accept(seq, seq - expected_seq_num)
       ELSE Reject

TrackerTypeOK ==
    /\ seq_initialized \in BOOLEAN
    /\ expected_seq_num \in Uint64
    /\ received \in Uint64 /\ processed \in Uint64
    /\ drops \in Uint64 /\ seq_num_gaps \in Uint64
=============================================================================
