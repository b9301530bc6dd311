-------------------------------- MODULE Wire --------------------------------
(***************************************************************************)
(* protocol::encode and protocol::decode (src/src/protocol): a market data *)
(* message as kWireSize bytes, every field big-endian, whatever the host's *)
(* byte order.  B is the number of values of a byte, so that a uint32_t    *)
(* has B4 and a uint64_t B8 of them; a signed field travels as the         *)
(* unsigned number with the same bits.                                     *)
(***************************************************************************)
EXTENDS Integers, Sequences

CONSTANT B

ASSUME WireAssumption == B \in Nat /\ B >= 2

B4 == B * B * B * B
B8 == B4 * B4

Unsigned(n) == 0..(n - 1)
Signed(n) == (-(n \div 2))..(n \div 2 - 1)

MarketDataMsg ==
    [seq_num : Unsigned(B8), symbol_id : Unsigned(B4), exchange_ts : Signed(B8),
     bid_price : Signed(B8), ask_price : Signed(B8),
     bid_size : Signed(B4), ask_size : Signed(B4)]

-----------------------------------------------------------------------------
(* encode: a write appends the bytes of its value, the highest first.      *)

write_u32(v) ==
    LET v1 == v \div B
        v2 == v1 \div B
        v3 == v2 \div B
    IN  <<v3, v2 % B, v1 % B, v % B>>

write_u64(v) == write_u32(v \div B4) \o write_u32(v % B4)

\* static_cast to the unsigned type of n values.
ToUnsigned(v, n) == v % n

encode(msg) ==
    write_u64(msg.seq_num)
      \o write_u32(msg.symbol_id)
      \o write_u64(ToUnsigned(msg.exchange_ts, B8))
      \o write_u64(ToUnsigned(msg.bid_price, B8))
      \o write_u64(ToUnsigned(msg.ask_price, B8))
      \o write_u32(ToUnsigned(msg.bid_size, B4))
      \o write_u32(ToUnsigned(msg.ask_size, B4))

-----------------------------------------------------------------------------
(* decode: a read takes the bytes of its value from an offset on.          *)

read_u32(data, off) ==
    ((data[off + 1] * B + data[off + 2]) * B + data[off + 3]) * B + data[off + 4]

read_u64(data, off) == read_u32(data, off) * B4 + read_u32(data, off + 4)

\* Fault: the bits of a negative number are read as a positive one.
ToSignedNot(v, n) == v

\* static_cast to the signed type of n values.
ToSigned(v, n) == IF v < n \div 2 THEN v ELSE v - n

decode(data) ==
    [seq_num     |-> read_u64(data, 0),
     symbol_id   |-> read_u32(data, 8),
     exchange_ts |-> ToSigned(read_u64(data, 12), B8),
     bid_price   |-> ToSigned(read_u64(data, 20), B8),
     ask_price   |-> ToSigned(read_u64(data, 28), B8),
     bid_size    |-> ToSigned(read_u32(data, 36), B4),
     ask_size    |-> ToSigned(read_u32(data, 40), B4)]
=============================================================================
