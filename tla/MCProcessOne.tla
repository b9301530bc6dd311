---------------------------- MODULE MCProcessOne ----------------------------
(***************************************************************************)
(* A first packet with lengths on both sides of every comparison of the    *)
(* parser; then datagrams for the engine's port and for another one.       *)
(* Sequence numbers of three bits, and streams that can wrap them.         *)
(***************************************************************************)
EXTENDS ProcessOne

MCPackets ==
    [len : {0, 13, 14, 33, 34, 41, 42, 43, 45, 46, 85, 86, 89, 90, 91},
     ipv4 : BOOLEAN, version : {4, 6}, ihl : {4, 5, 6, 15}, udp : BOOLEAN,
     total_length : {0, 27, 28, 31, 32, 71, 72, 73, 76},
     dst_port : {8888, 9}, dgram_len : {0, 7, 8, 9, 51, 52, 53}]

MCLater ==
    [len : {86}, ipv4 : {TRUE}, version : {4}, ihl : {5}, udp : {TRUE},
     total_length : {72}, dst_port : {8888, 9}, dgram_len : {52}]
=============================================================================
