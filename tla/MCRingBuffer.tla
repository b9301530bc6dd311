---------------------------- MODULE MCRingBuffer ----------------------------
(* A ring of four slots whose counters wrap after eight pushes. *)
EXTENDS RingBuffer

CONSTANTS v1, v2

MCValues == {v1, v2}
=============================================================================
