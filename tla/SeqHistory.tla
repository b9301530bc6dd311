----------------------------- MODULE SeqHistory -----------------------------
(***************************************************************************)
(* The sequence tracker fed with every stream of sequence numbers a UDP    *)
(* socket can deliver: lost, duplicated, reordered, starting anywhere and  *)
(* reaching the largest uint64_t.  History variables record what the       *)
(* counters are meant to count.                                            *)
(***************************************************************************)
EXTENDS SeqTracker, FiniteSets

CONSTANT MaxFrames    \* bound: frames decoded

VARIABLES frames,     \* how many frames were decoded
          first,      \* the first sequence number
          accepted,   \* the sequence numbers that were processed
          wrapped     \* whether expected_seq_num ever wrapped to 0

historyVars == <<trackerVars, frames, first, accepted, wrapped>>

HistoryInit ==
    /\ TrackerInit
    /\ frames = 0
    /\ first = 0
    /\ accepted = {}
    /\ wrapped = FALSE

DecodedFrame(seq) ==
    /\ frames < MaxFrames
    /\ Track(seq)
    /\ frames' = frames + 1
    /\ first' = IF seq_initialized THEN first ELSE seq
    /\ accepted' = IF processed' # processed THEN accepted \cup {seq} ELSE accepted
    /\ wrapped' = (wrapped \/ (processed' # processed /\ expected_seq_num' = 0))

HistoryNext == \E seq \in Uint64 : DecodedFrame(seq)

HistorySpec == HistoryInit /\ [][HistoryNext]_historyVars

-----------------------------------------------------------------------------
\* The counters and expected_seq_num_ hold uint64_t values.
TypeOK ==
    /\ TrackerTypeOK
    /\ frames \in Nat
    /\ first \in Uint64
    /\ accepted \subseteq Uint64
    /\ wrapped \in BOOLEAN

\* Every decoded frame is counted exactly once, as processed or as a drop,
\* modulo the width of the counters.
EveryFrameCounted ==
    /\ received = frames % SeqModulus
    /\ received = Add(processed, drops)

\* The distance covered by expected_seq_num_ since the first frame is what was
\* processed plus what was reported missing, also across a wrap: the engine's
\* gap count and processed count never disagree with its position.
GapsBalance ==
    seq_initialized =>
        expected_seq_num = (first + processed + seq_num_gaps) % SeqModulus

\* Until the number wraps, the reported gap total is exactly the number of
\* sequence numbers below expected_seq_num_ that were never processed; a
\* message that arrives late does not lower it.
GapsAreMissing ==
    (seq_initialized /\ ~wrapped) =>
        /\ accepted \subseteq first..(expected_seq_num - 1)
        /\ seq_num_gaps = Cardinality((first..(expected_seq_num - 1)) \ accepted)

\* Until the number wraps, no sequence number is processed twice, however
\* often it is delivered.
NoneProcessedTwice == ~wrapped => processed = Cardinality(accepted)

\* Inductively: nothing is counted before the first frame; until a wrap the
\* counters are plain numbers, and every processed sequence number lies
\* between the first one and the expected one.
HistoryInv ==
    /\ TypeOK
    /\ EveryFrameCounted
    /\ GapsBalance
    /\ ~seq_initialized =>
         /\ processed = 0 /\ seq_num_gaps = 0 /\ accepted = {} /\ ~wrapped
    /\ (seq_initialized /\ ~wrapped) =>
         /\ first < expected_seq_num
         /\ accepted \subseteq first..(expected_seq_num - 1)
         /\ processed = Cardinality(accepted)
         /\ seq_num_gaps = expected_seq_num - first - processed

\* expected_seq_num_ never moves back, except to 0 past the largest number.
ExpectedAdvances ==
    [][seq_initialized => \/ expected_seq_num' >= expected_seq_num
                          \/ expected_seq_num' = 0]_historyVars
=============================================================================
