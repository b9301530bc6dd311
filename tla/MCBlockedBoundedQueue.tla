----------------------- MODULE MCBlockedBoundedQueue -----------------------
(* Two producers and two consumers on a queue of two places. *)
EXTENDS BlockedBoundedQueue
=============================================================================
