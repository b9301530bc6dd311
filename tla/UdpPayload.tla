----------------------------- MODULE UdpPayload -----------------------------
(***************************************************************************)
(* process_one of engine::v3 up to the decoded message: extract_udp_payload*)
(* (src/src/engine/v3/engine.cpp) and protocol::decode on one frame of the *)
(* network card.  A packet is its length and what its header fields say;   *)
(* a step is one header, and readEnd is where the furthest byte looked at  *)
(* ends.  Nothing in the headers need be true of the packet.               *)
(***************************************************************************)
EXTENDS Integers

CONSTANTS Packets,             \* the packets that arrive
          expected_dst_port    \* cfg_.udp_dst_port; 0 accepts every port

kEtherHdrLen == 14
kIpv4HdrLen == 20
kUdpHdrLen == 8
kWireSize == 44
AnyPort == 0

\* The values of a field of w bits.
Field(w) == 0..(2^w - 1)

\* What a packet can hold: version and ihl share a byte.
PacketType == [len : Nat, ipv4 : BOOLEAN, version : Field(4), ihl : Field(4),
               udp : BOOLEAN, total_length : Field(16),
               dst_port : Field(16), dgram_len : Field(16)]

ASSUME PacketsAssumption == Packets \subseteq PacketType

VARIABLES packet, at, readEnd, payload, payload_len

payloadVars == <<packet, at, readEnd, payload, payload_len>>

ip_hdr_len == packet.ihl * 4
udp_offset == kEtherHdrLen + ip_hdr_len

PayloadInit ==
    /\ packet \in Packets
    /\ at = "ether"
    /\ readEnd = 0 /\ payload = 0 /\ payload_len = 0

\* The Ethernet header: the packet is long enough and carries IPv4.
Ether ==
    /\ at = "ether"
    /\ IF packet.len < kEtherHdrLen
       THEN at' = "ignored" /\ UNCHANGED readEnd
       ELSE /\ readEnd' = kEtherHdrLen
            /\ at' = IF packet.ipv4 THEN "ipv4" ELSE "ignored"
    /\ UNCHANGED <<packet, payload, payload_len>>

\* version_ihl, the first byte of the IPv4 header.
Ipv4 ==
    /\ at = "ipv4"
    /\ IF packet.len < kEtherHdrLen + kIpv4HdrLen
       THEN at' = "ignored" /\ UNCHANGED readEnd
       ELSE /\ readEnd' = kEtherHdrLen + 1
            /\ at' = IF packet.version # 4 \/ ip_hdr_len < kIpv4HdrLen
                     THEN "ignored" ELSE "lengths"
    /\ UNCHANGED <<packet, payload, payload_len>>

\* next_proto_id and total_length, in the first ten bytes of the header.
Lengths ==
    /\ at = "lengths"
    /\ IF packet.len < udp_offset + kUdpHdrLen
       THEN at' = "ignored" /\ UNCHANGED readEnd
       ELSE /\ readEnd' = kEtherHdrLen + 10
            /\ at' = IF /\ packet.udp
                        /\ packet.total_length >= ip_hdr_len + kUdpHdrLen
                        /\ packet.len >= kEtherHdrLen + packet.total_length
                     THEN "udp" ELSE "ignored"
    /\ UNCHANGED <<packet, payload, payload_len>>

\* Faults: a dgram_len that is not compared with the packet, ...
UdpUnbounded ==
    /\ at = "udp"
    /\ readEnd' = udp_offset + 6
    /\ IF \/ expected_dst_port # AnyPort /\ packet.dst_port # expected_dst_port
          \/ packet.dgram_len < kUdpHdrLen
       THEN at' = "ignored" /\ UNCHANGED <<payload, payload_len>>
       ELSE /\ payload' = udp_offset + kUdpHdrLen
            /\ payload_len' = packet.dgram_len - kUdpHdrLen
            /\ at' = "decode"
    /\ UNCHANGED packet

\* ... and a payload that must end before the end of the packet.
UdpStrict ==
    /\ at = "udp"
    /\ readEnd' = udp_offset + 6
    /\ IF \/ expected_dst_port # AnyPort /\ packet.dst_port # expected_dst_port
          \/ packet.dgram_len < kUdpHdrLen
       THEN at' = "ignored" /\ UNCHANGED <<payload, payload_len>>
       ELSE /\ payload' = udp_offset + kUdpHdrLen
            /\ payload_len' = packet.dgram_len - kUdpHdrLen
            /\ at' = IF packet.len > payload' + payload_len'
                     THEN "decode" ELSE "ignored"
    /\ UNCHANGED packet

\* dst_port and dgram_len, in the first six bytes of the UDP header.
Udp ==
    /\ at = "udp"
    /\ readEnd' = udp_offset + 6
    /\ IF \/ expected_dst_port # AnyPort /\ packet.dst_port # expected_dst_port
          \/ packet.dgram_len < kUdpHdrLen
       THEN at' = "ignored" /\ UNCHANGED <<payload, payload_len>>
       ELSE /\ payload' = udp_offset + kUdpHdrLen
            /\ payload_len' = packet.dgram_len - kUdpHdrLen
            /\ at' = IF packet.len >= payload' + payload_len'
                     THEN "decode" ELSE "ignored"
    /\ UNCHANGED packet

\* protocol::decode reads kWireSize bytes of a payload at least that long.
Decode ==
    /\ at = "decode"
    /\ IF payload_len < kWireSize
       THEN at' = "short" /\ UNCHANGED readEnd
       ELSE at' = "decoded" /\ readEnd' = payload + kWireSize
    /\ UNCHANGED <<packet, payload, payload_len>>

PayloadNext == Ether \/ Ipv4 \/ Lengths \/ Udp \/ Decode

PayloadSpec == PayloadInit /\ [][PayloadNext]_payloadVars

-----------------------------------------------------------------------------
Stages == {"ether", "ipv4", "lengths", "udp", "decode",
           "ignored", "short", "decoded"}

\* Every variable has its C++ type; payload is an offset into the frame.
PayloadTypeOK ==
    /\ packet \in PacketType
    /\ at \in Stages
    /\ readEnd \in Nat /\ payload \in Nat /\ payload_len \in Nat

\* Whatever the headers claim, no step of the parser or of the decoder looks
\* at a byte past the end of the packet.
ReadsInside == readEnd <= packet.len

\* A packet that is a UDP datagram to the port with a whole message in it.
WellFormed(p) ==
    /\ p.ipv4 /\ p.version = 4 /\ p.ihl >= 5 /\ p.udp
    /\ expected_dst_port \in {AnyPort, p.dst_port}
    /\ p.dgram_len = p.total_length - p.ihl * 4
    /\ p.len >= kEtherHdrLen + p.total_length
    /\ p.dgram_len >= kUdpHdrLen + kWireSize

\* None of the early returns throws away a good message: IP options, padding
\* after the datagram and a frame of exactly the needed length all get through.
WellFormedDecoded == at \in {"ignored", "short"} => ~WellFormed(packet)

\* Inductively: what the length tests passed so far have established.
PayloadInv ==
    /\ PayloadTypeOK
    /\ ReadsInside
    /\ WellFormedDecoded
    /\ at = "lengths" => ip_hdr_len >= kIpv4HdrLen /\ packet.len >= 34
    /\ at = "udp" => packet.len >= udp_offset + kUdpHdrLen
    /\ at = "decode" =>
         /\ payload_len = packet.dgram_len - kUdpHdrLen
         /\ packet.len >= payload + payload_len
=============================================================================
