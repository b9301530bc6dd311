----------------------------- MODULE ProcessOne -----------------------------
(***************************************************************************)
(* process_one of engine::v3 (src/src/engine/v3/engine.cpp), called for    *)
(* packet after packet: the headers and the decoder (module UdpPayload),   *)
(* then the sequence tracking (module SeqHistory), which only a decoded    *)
(* message reaches.  The counters, which v3 does not keep, are those of v1 *)
(* and v2.                                                                 *)
(***************************************************************************)
EXTENDS UdpPayload, SeqHistory

CONSTANT Later    \* bound: the packets that follow the first one

ASSUME LaterAssumption == Later \subseteq Packets

vars == <<payloadVars, historyVars>>

Init == PayloadInit /\ HistoryInit

\* process_one has returned and is called for another packet.
NextPacket ==
    /\ packet' \in Later
    /\ at' = "ether"
    /\ readEnd' = 0 /\ payload' = 0 /\ payload_len' = 0

Parse == PayloadNext /\ UNCHANGED historyVars

\* The returns before the tracking.
Ignored == at \in {"ignored", "short"} /\ NextPacket /\ UNCHANGED historyVars

Tracked == at = "decoded" /\ HistoryNext /\ NextPacket

Next == Parse \/ Ignored \/ Tracked

Spec == Init /\ [][Next]_vars
=============================================================================
