-------------------------- MODULE MCLatencyReport --------------------------
(* LatencyReport with a histogram of two buckets of two ns: latencies in   *)
(* the first, the second and beyond; four frames, then three.             *)
EXTENDS LatencyReport

MCLatencies == {1, 2, 5}
=============================================================================
