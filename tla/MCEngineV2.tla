----------------------------- MODULE MCEngineV2 -----------------------------
(* Two slots, batches of two, counters that wrap after four pushes. *)
EXTENDS EngineV2

MCInputs == <<{"good", "bad"}, {"good"}>>
=============================================================================
