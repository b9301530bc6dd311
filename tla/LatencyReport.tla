--------------------------- MODULE LatencyReport ---------------------------
(***************************************************************************)
(* The latency report of engine::v2::Engine (src/src/engine/v2/engine.cpp):*)
(* process() records the latency of every frame while the reporter empties *)
(* the histogram.  All of it is relaxed atomics and no lock: a step is one *)
(* access, in program order, which is what the x86 build does.  Here a     *)
(* frame is its latency, and whether there is one more is open (EngineV2   *)
(* models the rest of the threads).                                        *)
(***************************************************************************)
EXTENDS Integers, Sequences, FiniteSetsExt

CONSTANTS Latencies,               \* the values end_ns - start_ns takes
          kLatencyBucketWidthNs,
          kLatencyBucketCount,
          MaxFrames,               \* bound: frames of a run, one less in each later run
          MaxRuns                  \* bound: calls of receive()

ASSUME LatencyReportAssumption ==
    /\ Latencies \subseteq Nat /\ IsFiniteSet(Latencies)
    /\ kLatencyBucketWidthNs \in Nat \ {0} /\ kLatencyBucketCount \in Nat
    /\ MaxFrames \in Nat /\ MaxRuns \in Nat

Buckets == 0..kLatencyBucketCount

VARIABLES
    running, runs,
    buckets, samples, max,          \* latency_buckets_, _samples_, _max_ns_
    procPc, frames, latency, curMax,
    repPc, next, snap,              \* snap: Snapshot and LatencySnapshot
    told,                           \* samples reported in this run, twice
    since,                          \* max reported since the last record began
    window, torn                    \* the records since the last report; is
                                    \* one split, in this report or the last

histogram == <<buckets, samples, max>>
proc == <<procPc, frames, latency, curMax>>
reporter == <<repPc, next, snap>>
ghosts == <<told, since, window, torn>>
reportVars == <<running, runs, histogram, proc, reporter, ghosts>>

Zero == [b \in Buckets |-> 0]
NoSnap == [counts |-> Zero, samples |-> 0, max_ns |-> 0, quiet |-> FALSE, records |-> <<>>]

NoneTold == [counts |-> 0, samples |-> 0]
NotTorn == [now |-> FALSE, last |-> FALSE]

ReportInit ==
    /\ running = FALSE /\ runs = 0
    /\ procPc = "off" /\ curMax = 0
    /\ repPc = "off" /\ next = 0 /\ snap = NoSnap
    /\ buckets = Zero /\ samples = 0 /\ max = 0
    /\ frames = 0 /\ latency = 0
    /\ told = NoneTold /\ since = 0 /\ window = <<>> /\ torn = NotTorn

-----------------------------------------------------------------------------
(* receive() and stop()                                                    *)

Receive ==
    /\ ~running /\ procPc = "off" /\ repPc = "off"
    /\ runs < MaxRuns
    /\ runs' = runs + 1 /\ running' = TRUE
    /\ buckets' = Zero /\ samples' = 0 /\ max' = 0
    /\ frames' = 0 /\ latency' = 0
    /\ told' = NoneTold /\ since' = 0 /\ window' = <<>> /\ torn' = NotTorn
    /\ procPc' = "frame" /\ repPc' = "wait"
    /\ UNCHANGED <<curMax, next, snap>>

\* stop(), or an io thread that gives up.
Stop ==
    /\ running
    /\ running' = FALSE
    /\ UNCHANGED <<runs, histogram, proc, reporter, ghosts>>

-----------------------------------------------------------------------------
(* process(): record_latency for each frame                                *)

RecordBucket(l) ==
    /\ procPc = "frame" /\ frames + runs <= MaxFrames
    /\ frames' = frames + 1
    /\ LET bucket == Min({l \div kLatencyBucketWidthNs, kLatencyBucketCount})
       IN  buckets' = [buckets EXCEPT ![bucket] = @ + 1]
    /\ latency' = l /\ since' = 0
    /\ procPc' = "samples"
    /\ UNCHANGED <<samples, max, curMax, window>>

RecordSamples ==
    /\ procPc = "samples"
    /\ samples' = samples + 1
    /\ procPc' = "load"
    /\ UNCHANGED <<buckets, max, frames, latency, curMax, since, window>>

\* The loop goes on, or the record is done.
RecordNext(again) ==
    /\ curMax' = IF again THEN max ELSE 0
    /\ procPc' = IF again THEN "cas" ELSE "frame"
    /\ window' = IF again THEN window ELSE Append(window, latency)
    /\ UNCHANGED <<buckets, samples, frames, latency, since>>

\* latency_max_ns_.load, and the loop's first test.
RecordLoad ==
    /\ procPc = "load"
    /\ RecordNext(max < latency) /\ UNCHANGED max

\* Fault: a failed exchange is not tried again.
CasGivesUp == FALSE

\* It left the maximum it found in current_max.
CasAgain == max < latency

\* compare_exchange_weak: fails when the maximum has changed (the reporter
\* took it), and may fail for no reason.
RecordCas ==
    /\ procPc = "cas"
    /\ \/ max = curMax /\ max' = latency /\ RecordNext(FALSE)
       \/ RecordNext(CasAgain) /\ UNCHANGED max

ProcDone ==
    /\ procPc = "frame" /\ ~running
    /\ procPc' = "off"
    /\ UNCHANGED <<histogram, frames, latency, curMax, since, window>>

-----------------------------------------------------------------------------
(* The reporter                                                            *)

\* Five seconds have passed, or the timer fails, or the engine stops.
RepWait ==
    /\ repPc = "wait"
    /\ repPc' \in {"off"} \cup {pc \in {"buckets"} : running}
    /\ snap' = NoSnap
    /\ UNCHANGED <<histogram, next, ghosts>>

\* Fault: load where the code has exchange.
ClearNot(b) == UNCHANGED buckets

Clear(b) == buckets' = [buckets EXCEPT ![b] = 0]

\* snapshot_latency: bucket after bucket is exchanged for 0 ...
RepBucket ==
    /\ repPc = "buckets"
    /\ snap' = [snap EXCEPT !.counts[next] = buckets[next]]
    /\ Clear(next)
    /\ next' = (next + 1) % (kLatencyBucketCount + 1)
    /\ repPc' = IF next' = 0 THEN "samples" ELSE "buckets"
    /\ told' = [told EXCEPT !.counts = @ + buckets[next]]
    /\ torn' = [torn EXCEPT !.now = @ \/ procPc \in {"samples", "load", "cas"}]
    /\ UNCHANGED <<samples, max, since, window>>

\* ... then the number of samples ...
RepSamples ==
    /\ repPc = "samples"
    /\ snap' = [snap EXCEPT !.samples = samples]
    /\ samples' = 0
    /\ told' = [told EXCEPT !.samples = @ + samples]
    /\ repPc' = "max"
    /\ UNCHANGED <<buckets, max, next, since, window, torn>>

\* ... then the maximum.  The rest is the reporter's own.
RepMax ==
    /\ repPc = "max"
    /\ snap' = [snap EXCEPT !.max_ns = max, !.records = window,
                            !.quiet = ~(torn.now \/ torn.last)]
    /\ max' = 0 /\ since' = Max({since, max})
    /\ repPc' = "wait"
    /\ window' = <<>> /\ torn' = [now |-> FALSE, last |-> torn.now]
    /\ UNCHANGED <<buckets, samples, next, told>>

\* Fault: rounded down.
TargetFloor(n, num, den) == Max({1, (n * num) \div den})

Target(n, num, den) == Max({1, (n * num + den - 1) \div den})

\* quantile_ns: the upper end of the bucket that holds the target-th sample,
\* or the maximum for the overflow bucket and when there is none.
Quantile(num, den) ==
    LET Seen(i) == MapThenSumSet(LAMBDA b : snap.counts[b], 0..i)
        hit == {i \in Buckets : Seen(i) >= Target(snap.samples, num, den)}
    IN  IF hit = {} \/ Min(hit) = kLatencyBucketCount THEN snap.max_ns
        ELSE (Min(hit) + 1) * kLatencyBucketWidthNs

-----------------------------------------------------------------------------
\* A record that runs beside the exchanges of a report is split between it
\* and the next one.
Emptying == repPc \in {"samples", "max"} \/ (repPc = "buckets" /\ next > 0)

Process ==
    /\ \/ ProcDone \/ \E l \in Latencies : RecordBucket(l)
       \/ RecordSamples \/ RecordLoad \/ RecordCas
    /\ torn' = [torn EXCEPT !.now = @ \/ Emptying]
    /\ UNCHANGED <<running, runs, reporter, told>>

Reporter ==
    /\ RepWait \/ RepBucket \/ RepSamples \/ RepMax
    /\ UNCHANGED <<running, runs, proc>>

ReportNext == Receive \/ Stop \/ Process \/ Reporter

ReportSpec == ReportInit /\ [][ReportNext]_reportVars

-----------------------------------------------------------------------------
\* The samples in the histogram, those of a bucket numbered from 1.
Counted == UNION {{b} \X (1..buckets[b]) : b \in Buckets}

\* record_latency and snapshot_latency run side by side on plain counters:
\* every sample is in exactly one report, or still to be reported, both as a
\* bucket's count and as one of the samples.
SamplesConserved ==
    /\ told.counts + Cardinality(Counted) = frames
    /\ told.samples + samples = frames - (IF procPc = "samples" THEN 1 ELSE 0)

\* No maximum is lost between record_latency's load and its
\* compare_exchange: once a record has returned, a report since it began, or
\* the one to come, shows a maximum that is not below it.
MaxTold == procPc \in {"frame", "off"} => latency <= Max({since, max})

\* The k-th smallest of the latencies l.
Smallest(l, k) ==
    CHOOSE x \in Latencies :
        /\ Cardinality({i \in DOMAIN l : l[i] <= x}) >= k
        /\ Cardinality({i \in DOMAIN l : l[i] < x}) < k

\* A report that no record overlaps, after one that none overlapped, is exact:
\* it counts the records since that one, shows their maximum, and each
\* quantile is the end of the bucket of the sample of that rank, or the
\* maximum if that sample is beyond the histogram.
QuietReportExact ==
    LET l == snap.records
        Rank(q) == CHOOSE k \in 1..Len(l) : /\ k * q[2] >= Len(l) * q[1]
                                            /\ (k - 1) * q[2] < Len(l) * q[1]
        BucketOf(q) == Smallest(l, Rank(q)) \div kLatencyBucketWidthNs
    IN  snap.quiet /\ repPc = "wait" =>
          /\ snap.samples = Len(l)
          /\ l # <<>> =>
               /\ snap.max_ns = Max({l[i] : i \in DOMAIN l})
               /\ \A q \in {<<50, 100>>, <<99, 100>>, <<999, 1000>>} :
                    Quantile(q[1], q[2]) =
                      IF BucketOf(q) >= kLatencyBucketCount THEN snap.max_ns
                      ELSE (BucketOf(q) + 1) * kLatencyBucketWidthNs
=============================================================================
