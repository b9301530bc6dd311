----------------------------- MODULE FeedProofs -----------------------------
(***************************************************************************)
(* Proofs about the feed and what it is built from, for every number of    *)
(* values of a byte, every width of the counters and every stream of       *)
(* messages: decode undoes encode (Wire), and the generators, the network  *)
(* and the engine together deliver what was made (Feed).                   *)
(***************************************************************************)
EXTENDS Feed, Basics, FiniteSetTheorems

-----------------------------------------------------------------------------
(* The offsets at which decode reads are those at which encode wrote, and  *)
(* neither the bytes' order nor a sign is lost.                            *)

\* A uint32_t and a uint64_t have values.
LEMMA SizesPositive == B4 \in Nat \ {0} /\ B8 \in Nat \ {0}
<1>1. \A x, y \in Nat \ {0} : x * y \in Nat \ {0}
  OBVIOUS
<1>2. B \in Nat \ {0}
  BY WireAssumption
<1>3. B * B \in Nat \ {0}
  BY <1>1, <1>2
<1>4. B * B * B \in Nat \ {0}
  BY <1>1, <1>2, <1>3
<1>5. B4 \in Nat \ {0}
  BY <1>1, <1>2, <1>4 DEF B4
<1> QED
  BY <1>1, <1>5 DEF B8

\* Quotient and remainder put together again.
LEMMA DivMod ==
    ASSUME NEW v \in Nat, NEW n \in Nat \ {0}
    PROVE  /\ v \div n \in Nat
           /\ v % n \in Nat
           /\ (v \div n) * n + (v % n) = v
  OBVIOUS

-----------------------------------------------------------------------------
\* The four bytes of write_u32 are read back as the value.
LEMMA Word32 ==
    ASSUME NEW v \in Nat
    PROVE  /\ write_u32(v) \in Seq(Nat)
           /\ Len(write_u32(v)) = 4
           /\ read_u32(write_u32(v), 0) = v
<1> DEFINE v1 == v \div B
           v2 == v1 \div B
           v3 == v2 \div B
<1>0. B \in Nat \ {0}
  BY WireAssumption
<1>1. v1 \in Nat /\ v % B \in Nat /\ v1 * B + (v % B) = v
  BY <1>0, DivMod
<1>2. v2 \in Nat /\ v1 % B \in Nat /\ v2 * B + (v1 % B) = v1
  BY <1>0, <1>1, DivMod
<1>3. v3 \in Nat /\ v2 % B \in Nat /\ v3 * B + (v2 % B) = v2
  BY <1>0, <1>2, DivMod
<1>4. write_u32(v) = <<v3, v2 % B, v1 % B, v % B>>
  BY DEF write_u32
<1> HIDE DEF v1, v2, v3
<1>5. write_u32(v) \in Seq(Nat) /\ Len(write_u32(v)) = 4
  BY <1>1, <1>2, <1>3, <1>4
<1>6. read_u32(write_u32(v), 0) = ((v3 * B + (v2 % B)) * B + (v1 % B)) * B + (v % B)
  BY <1>4 DEF read_u32
<1>7. QED
  BY <1>1, <1>2, <1>3, <1>5, <1>6

\* The length of a sequence appended to another.
LEMMA Concatenation ==
    ASSUME NEW s \in Seq(Nat), NEW t \in Seq(Nat)
    PROVE  s \o t \in Seq(Nat) /\ Len(s \o t) = Len(s) + Len(t)
  OBVIOUS

\* A read inside the first of two sequences does not see the second.
LEMMA ReadFirst32 ==
    ASSUME NEW s \in Seq(Nat), NEW t \in Seq(Nat), NEW off \in Nat, off + 4 <= Len(s)
    PROVE  read_u32(s \o t, off) = read_u32(s, off)
<1>1. \A i \in 1..Len(s) : (s \o t)[i] = s[i]
  OBVIOUS
<1>2. /\ (s \o t)[off + 1] = s[off + 1]
      /\ (s \o t)[off + 2] = s[off + 2]
      /\ (s \o t)[off + 3] = s[off + 3]
      /\ (s \o t)[off + 4] = s[off + 4]
  BY <1>1
<1> QED
  BY <1>2 DEF read_u32

\* A read behind the first of two sequences is one of the second.
LEMMA ReadSecond32 ==
    ASSUME NEW s \in Seq(Nat), NEW t \in Seq(Nat), NEW off \in Nat, off + 4 <= Len(t)
    PROVE  read_u32(s \o t, Len(s) + off) = read_u32(t, off)
<1> DEFINE u == s \o t
<1>0. Len(s) \in Nat /\ Len(t) \in Nat
  OBVIOUS
<1>1. \A i \in 1..Len(t) : u[Len(s) + i] = t[i]
  OBVIOUS
<1> HIDE DEF u
<1>2. /\ u[Len(s) + (off + 1)] = t[off + 1]
      /\ u[Len(s) + (off + 2)] = t[off + 2]
      /\ u[Len(s) + (off + 3)] = t[off + 3]
      /\ u[Len(s) + (off + 4)] = t[off + 4]
  <2>1. /\ off + 1 \in 1..Len(t) /\ off + 2 \in 1..Len(t)
        /\ off + 3 \in 1..Len(t) /\ off + 4 \in 1..Len(t)
    BY <1>0
  <2> QED
    BY <1>1, <2>1, Zenon
<1>3. /\ Len(s) + off + 1 = Len(s) + (off + 1)
      /\ Len(s) + off + 2 = Len(s) + (off + 2)
      /\ Len(s) + off + 3 = Len(s) + (off + 3)
      /\ Len(s) + off + 4 = Len(s) + (off + 4)
  BY <1>0
<1>4. read_u32(u, Len(s) + off) = read_u32(t, off)
  BY <1>2, <1>3 DEF read_u32
<1> QED
  BY <1>4 DEF u

-----------------------------------------------------------------------------
\* The same for the eight bytes of write_u64.
LEMMA Word64 ==
    ASSUME NEW v \in Nat
    PROVE  /\ write_u64(v) \in Seq(Nat)
           /\ Len(write_u64(v)) = 8
           /\ read_u64(write_u64(v), 0) = v
<1> DEFINE hi == v \div B4
           lo == v % B4
<1>1. hi \in Nat /\ lo \in Nat /\ hi * B4 + lo = v
  BY SizesPositive, DivMod
<1> HIDE DEF hi, lo
<1> DEFINE h == write_u32(hi)
           l == write_u32(lo)
<1>2. h \in Seq(Nat) /\ Len(h) = 4 /\ read_u32(h, 0) = hi
  BY <1>1, Word32
<1>3. l \in Seq(Nat) /\ Len(l) = 4 /\ read_u32(l, 0) = lo
  BY <1>1, Word32
<1>4. write_u64(v) = h \o l
  BY DEF write_u64, hi, lo
<1> HIDE DEF h, l
<1>5. h \o l \in Seq(Nat) /\ Len(h \o l) = 8
  <2>1. h \o l \in Seq(Nat) /\ Len(h \o l) = Len(h) + Len(l)
    BY <1>2, <1>3, Concatenation, Zenon
  <2> QED
    BY <1>2, <1>3, <2>1
<1>0. 0 \in Nat /\ 0 + 4 <= Len(h) /\ 0 + 4 <= Len(l)
  BY <1>2, <1>3
<1>6. read_u32(h \o l, 0) = hi
  BY <1>0, <1>2, <1>3, ReadFirst32, Zenon
<1>7. read_u32(h \o l, 0 + 4) = lo
  <2>1. read_u32(h \o l, Len(h) + 0) = lo
    BY <1>0, <1>2, <1>3, ReadSecond32, Zenon
  <2>2. Len(h) + 0 = 0 + 4
    BY <1>2
  <2> QED
    BY <2>1, <2>2, Zenon
<1>8. read_u64(h \o l, 0) = v
  BY <1>1, <1>6, <1>7 DEF read_u64
<1> QED
  BY <1>4, <1>5, <1>8

\* A read of eight bytes inside the first of two sequences.
LEMMA ReadFirst64 ==
    ASSUME NEW s \in Seq(Nat), NEW t \in Seq(Nat), NEW off \in Nat, off + 8 <= Len(s)
    PROVE  read_u64(s \o t, off) = read_u64(s, off)
<1>1. read_u32(s \o t, off) = read_u32(s, off)
  BY ReadFirst32
<1>2. off + 4 \in Nat /\ (off + 4) + 4 <= Len(s)
  OBVIOUS
<1>3. read_u32(s \o t, off + 4) = read_u32(s, off + 4)
  BY <1>2, ReadFirst32
<1> QED
  BY <1>1, <1>3 DEF read_u64

\* A value appended to s is read back from the end of s.
LEMMA Appended32 ==
    ASSUME NEW s \in Seq(Nat), NEW v \in Nat
    PROVE  /\ s \o write_u32(v) \in Seq(Nat)
           /\ Len(s \o write_u32(v)) = Len(s) + 4
           /\ read_u32(s \o write_u32(v), Len(s)) = v
<1> DEFINE w == write_u32(v)
<1>1. w \in Seq(Nat) /\ Len(w) = 4 /\ read_u32(w, 0) = v
  BY Word32
<1> HIDE DEF w
<1>2. 0 \in Nat /\ 0 + 4 <= Len(w) /\ Len(s) + 0 = Len(s)
  BY <1>1
<1>3. read_u32(s \o w, Len(s) + 0) = read_u32(w, 0)
  BY <1>1, <1>2, ReadSecond32, Zenon
<1>4. s \o w \in Seq(Nat) /\ Len(s \o w) = Len(s) + Len(w)
  BY <1>1, Concatenation, Zenon
<1> QED
  BY <1>1, <1>2, <1>3, <1>4 DEF w

\* The same for eight bytes.
LEMMA Appended64 ==
    ASSUME NEW s \in Seq(Nat), NEW v \in Nat
    PROVE  /\ s \o write_u64(v) \in Seq(Nat)
           /\ Len(s \o write_u64(v)) = Len(s) + 8
           /\ read_u64(s \o write_u64(v), Len(s)) = v
<1> DEFINE w == write_u64(v)
<1>1. w \in Seq(Nat) /\ Len(w) = 8 /\ read_u64(w, 0) = v
  BY Word64
<1> HIDE DEF w
<1>2. /\ 0 \in Nat /\ 0 + 4 <= Len(w) /\ 4 \in Nat /\ 4 + 4 <= Len(w)
      /\ Len(s) + 0 = Len(s) /\ 0 + 4 = 4
  BY <1>1
<1>3. read_u32(s \o w, Len(s) + 0) = read_u32(w, 0)
  BY <1>1, <1>2, ReadSecond32, Zenon
<1>4. read_u32(s \o w, Len(s) + 4) = read_u32(w, 4)
  BY <1>1, <1>2, ReadSecond32, Zenon
<1>5. read_u64(s \o w, Len(s)) = read_u64(w, 0)
  BY <1>2, <1>3, <1>4 DEF read_u64
<1>6. s \o w \in Seq(Nat) /\ Len(s \o w) = Len(s) + Len(w)
  BY <1>1, Concatenation, Zenon
<1> QED
  BY <1>1, <1>5, <1>6 DEF w

-----------------------------------------------------------------------------
\* A signed value survives the way to the unsigned type and back.
LEMMA SignKept ==
    ASSUME NEW n \in Nat \ {0}, NEW v \in Signed(n)
    PROVE  ToUnsigned(v, n) \in Nat /\ ToSigned(ToUnsigned(v, n), n) = v
<1>1. v \in Int /\ -(n \div 2) <= v /\ v < n \div 2
  BY DEF Signed
<1>2. n \div 2 \in Nat /\ 2 * (n \div 2) <= n
  OBVIOUS
<1>3. CASE v >= 0
  <2>1. v \in 0..(n - 1)
    BY <1>1, <1>2, <1>3
  <2>2. (0 * n + v) % n = v
    BY <2>1, ModUnique
  <2>3. v % n = v
    BY <1>1, <2>2
  <2> QED
    BY <1>1, <1>3, <2>3 DEF ToUnsigned, ToSigned
<1>4. CASE v < 0
  <2>1. v + n \in 0..(n - 1)
    BY <1>1, <1>2, <1>4
  <2>2. ((-1) * n + (v + n)) % n = v + n
    BY <2>1, ModUnique
  <2>3. v % n = v + n
    BY <1>1, <2>2
  <2>4. ~(v + n < n \div 2) /\ (v + n) - n = v
    BY <1>1, <1>2, <1>4
  <2> QED
    BY <2>1, <2>3, <2>4 DEF ToUnsigned, ToSigned
<1> QED
  BY <1>1, <1>3, <1>4

\* What an encoded message has been read back as stays when more is written
\* behind it.
LEMMA StillRead ==
    ASSUME NEW s \in Seq(Nat), NEW t \in Seq(Nat)
    PROVE  /\ \A off \in Nat : off + 4 <= Len(s) => read_u32(s \o t, off) = read_u32(s, off)
           /\ \A off \in Nat : off + 8 <= Len(s) => read_u64(s \o t, off) = read_u64(s, off)
<1>1. ASSUME NEW off \in Nat, off + 4 <= Len(s)
      PROVE  read_u32(s \o t, off) = read_u32(s, off)
  BY <1>1, ReadFirst32
<1>2. ASSUME NEW off \in Nat, off + 8 <= Len(s)
      PROVE  read_u64(s \o t, off) = read_u64(s, off)
  BY <1>2, ReadFirst64
<1> QED
  BY <1>1, <1>2

\* encode and then decode gives every field of every message its value back
\* (encode.hpp and decode.hpp), whatever the signs and for every size of a
\* byte.
THEOREM WireRoundTrip ==
    ASSUME NEW m \in MarketDataMsg
    PROVE  decode(encode(m)) = m
<1> DEFINE ts == ToUnsigned(m.exchange_ts, B8)
           bid == ToUnsigned(m.bid_price, B8)
           ask == ToUnsigned(m.ask_price, B8)
           bsz == ToUnsigned(m.bid_size, B4)
           asz == ToUnsigned(m.ask_size, B4)
           p1 == write_u64(m.seq_num)
           p2 == p1 \o write_u32(m.symbol_id)
           p3 == p2 \o write_u64(ts)
           p4 == p3 \o write_u64(bid)
           p5 == p4 \o write_u64(ask)
           p6 == p5 \o write_u32(bsz)
           p7 == p6 \o write_u32(asz)
<1>1. encode(m) = p7
  BY DEF encode
<1>2. m.seq_num \in Nat /\ m.symbol_id \in Nat
  BY SizesPositive DEF MarketDataMsg, Unsigned
<1>3. /\ ts \in Nat /\ ToSigned(ts, B8) = m.exchange_ts
      /\ bid \in Nat /\ ToSigned(bid, B8) = m.bid_price
      /\ ask \in Nat /\ ToSigned(ask, B8) = m.ask_price
      /\ bsz \in Nat /\ ToSigned(bsz, B4) = m.bid_size
      /\ asz \in Nat /\ ToSigned(asz, B4) = m.ask_size
  <2>1. /\ m.exchange_ts \in Signed(B8) /\ m.bid_price \in Signed(B8)
        /\ m.ask_price \in Signed(B8)
        /\ m.bid_size \in Signed(B4) /\ m.ask_size \in Signed(B4)
    BY DEF MarketDataMsg
  <2> QED
    BY <2>1, SizesPositive, SignKept, Zenon
<1> HIDE DEF ts, bid, ask, bsz, asz
<1>4. p1 \in Seq(Nat) /\ Len(p1) = 8 /\ read_u64(p1, 0) = m.seq_num
  BY <1>2, Word64, Zenon
<1> HIDE DEF p1
<1>5. /\ p2 \in Seq(Nat) /\ Len(p2) = 12
      /\ read_u64(p2, 0) = m.seq_num
      /\ read_u32(p2, 8) = m.symbol_id
  <2>1. write_u32(m.symbol_id) \in Seq(Nat)
    BY <1>2, <1>3, Word32, Zenon
  <2>2. /\ p2 \in Seq(Nat) /\ Len(p2) = Len(p1) + 4
        /\ read_u32(p2, Len(p1)) = m.symbol_id
    BY <1>2, <1>3, <1>4, Appended32, Zenon
  <2>3. /\ \A off \in Nat : off + 4 <= Len(p1) => read_u32(p2, off) = read_u32(p1, off)
        /\ \A off \in Nat : off + 8 <= Len(p1) => read_u64(p2, off) = read_u64(p1, off)
    BY <1>4, <2>1, StillRead, Zenon
  <2> HIDE DEF p2
  <2> QED
    BY <1>4, <2>2, <2>3
<1> HIDE DEF p2
<1>6. /\ p3 \in Seq(Nat) /\ Len(p3) = 20
      /\ read_u64(p3, 0) = m.seq_num
      /\ read_u32(p3, 8) = m.symbol_id
      /\ read_u64(p3, 12) = ts
  <2>1. write_u64(ts) \in Seq(Nat)
    BY <1>2, <1>3, Word64, Zenon
  <2>2. /\ p3 \in Seq(Nat) /\ Len(p3) = Len(p2) + 8
        /\ read_u64(p3, Len(p2)) = ts
    BY <1>2, <1>3, <1>5, Appended64, Zenon
  <2>3. /\ \A off \in Nat : off + 4 <= Len(p2) => read_u32(p3, off) = read_u32(p2, off)
        /\ \A off \in Nat : off + 8 <= Len(p2) => read_u64(p3, off) = read_u64(p2, off)
    BY <1>5, <2>1, StillRead, Zenon
  <2> HIDE DEF p3
  <2> QED
    BY <1>5, <2>2, <2>3
<1> HIDE DEF p3
<1>7. /\ p4 \in Seq(Nat) /\ Len(p4) = 28
      /\ read_u64(p4, 0) = m.seq_num
      /\ read_u32(p4, 8) = m.symbol_id
      /\ read_u64(p4, 12) = ts
      /\ read_u64(p4, 20) = bid
  <2>1. write_u64(bid) \in Seq(Nat)
    BY <1>2, <1>3, Word64, Zenon
  <2>2. /\ p4 \in Seq(Nat) /\ Len(p4) = Len(p3) + 8
        /\ read_u64(p4, Len(p3)) = bid
    BY <1>2, <1>3, <1>6, Appended64, Zenon
  <2>3. /\ \A off \in Nat : off + 4 <= Len(p3) => read_u32(p4, off) = read_u32(p3, off)
        /\ \A off \in Nat : off + 8 <= Len(p3) => read_u64(p4, off) = read_u64(p3, off)
    BY <1>6, <2>1, StillRead, Zenon
  <2> HIDE DEF p4
  <2> QED
    BY <1>6, <2>2, <2>3
<1> HIDE DEF p4
<1>8. /\ p5 \in Seq(Nat) /\ Len(p5) = 36
      /\ read_u64(p5, 0) = m.seq_num
      /\ read_u32(p5, 8) = m.symbol_id
      /\ read_u64(p5, 12) = ts
      /\ read_u64(p5, 20) = bid
      /\ read_u64(p5, 28) = ask
  <2>1. write_u64(ask) \in Seq(Nat)
    BY <1>2, <1>3, Word64, Zenon
  <2>2. /\ p5 \in Seq(Nat) /\ Len(p5) = Len(p4) + 8
        /\ read_u64(p5, Len(p4)) = ask
    BY <1>2, <1>3, <1>7, Appended64, Zenon
  <2>3. /\ \A off \in Nat : off + 4 <= Len(p4) => read_u32(p5, off) = read_u32(p4, off)
        /\ \A off \in Nat : off + 8 <= Len(p4) => read_u64(p5, off) = read_u64(p4, off)
    BY <1>7, <2>1, StillRead, Zenon
  <2> HIDE DEF p5
  <2> QED
    BY <1>7, <2>2, <2>3
<1> HIDE DEF p5
<1>9. /\ p6 \in Seq(Nat) /\ Len(p6) = 40
      /\ read_u64(p6, 0) = m.seq_num
      /\ read_u32(p6, 8) = m.symbol_id
      /\ read_u64(p6, 12) = ts
      /\ read_u64(p6, 20) = bid
      /\ read_u64(p6, 28) = ask
      /\ read_u32(p6, 36) = bsz
  <2>1. write_u32(bsz) \in Seq(Nat)
    BY <1>2, <1>3, Word32, Zenon
  <2>2. /\ p6 \in Seq(Nat) /\ Len(p6) = Len(p5) + 4
        /\ read_u32(p6, Len(p5)) = bsz
    BY <1>2, <1>3, <1>8, Appended32, Zenon
  <2>3. /\ \A off \in Nat : off + 4 <= Len(p5) => read_u32(p6, off) = read_u32(p5, off)
        /\ \A off \in Nat : off + 8 <= Len(p5) => read_u64(p6, off) = read_u64(p5, off)
    BY <1>8, <2>1, StillRead, Zenon
  <2> HIDE DEF p6
  <2> QED
    BY <1>8, <2>2, <2>3
<1> HIDE DEF p6
<1>10. /\ p7 \in Seq(Nat) /\ Len(p7) = 44
      /\ read_u64(p7, 0) = m.seq_num
      /\ read_u32(p7, 8) = m.symbol_id
      /\ read_u64(p7, 12) = ts
      /\ read_u64(p7, 20) = bid
      /\ read_u64(p7, 28) = ask
      /\ read_u32(p7, 36) = bsz
      /\ read_u32(p7, 40) = asz
  <2>1. write_u32(asz) \in Seq(Nat)
    BY <1>2, <1>3, Word32, Zenon
  <2>2. /\ p7 \in Seq(Nat) /\ Len(p7) = Len(p6) + 4
        /\ read_u32(p7, Len(p6)) = asz
    BY <1>2, <1>3, <1>9, Appended32, Zenon
  <2>3. /\ \A off \in Nat : off + 4 <= Len(p6) => read_u32(p7, off) = read_u32(p6, off)
        /\ \A off \in Nat : off + 8 <= Len(p6) => read_u64(p7, off) = read_u64(p6, off)
    BY <1>9, <2>1, StillRead, Zenon
  <2> HIDE DEF p7
  <2> QED
    BY <1>9, <2>2, <2>3
<1> HIDE DEF p7
<1>11. decode(p7) =
         [seq_num |-> m.seq_num, symbol_id |-> m.symbol_id,
          exchange_ts |-> m.exchange_ts, bid_price |-> m.bid_price,
          ask_price |-> m.ask_price, bid_size |-> m.bid_size,
          ask_size |-> m.ask_size]
  BY <1>3, <1>10, Zenon DEF decode
<1> QED
  BY <1>1, <1>11 DEF MarketDataMsg

-----------------------------------------------------------------------------
(* The sequence tracker.                                                   *)

USE SeqAssumption

\* Counter additions stay in the type, and adding one always changes it.
LEMMA AddFacts ==
    ASSUME NEW a \in Uint64, NEW b \in Uint64
    PROVE  /\ Add(a, b) \in Uint64
           /\ a + b < SeqModulus => Add(a, b) = a + b
           /\ Add(a, 1) = IF a + 1 = SeqModulus THEN 0 ELSE a + 1
           /\ Add(a, 1) # a
<1>1. a + b \in Int /\ a + b >= 0 /\ SeqModulus \in Nat \ {0}
  BY DEF Uint64
<1>2. (a + b) % SeqModulus \in 0..(SeqModulus - 1)
  BY <1>1, ModRange, Zenon
<1>3. a + b < SeqModulus => (a + b) % SeqModulus = a + b
  BY <1>1
<1>4. Add(a, 1) = IF a + 1 = SeqModulus THEN 0 ELSE a + 1
  BY DEF Add, Uint64
<1>5. Add(a, 1) # a
  BY <1>4 DEF Uint64
<1> QED BY <1>2, <1>3, <1>4, <1>5 DEF Add, Uint64

-----------------------------------------------------------------------------
(* The feed: the inductive invariant.                                      *)

\* What make_message makes.
Quote == {m \in MarketDataMsg : sanityCheck(m)}

GeneratorType ==
    /\ version \in {1, 2} /\ calls \in Nat /\ one \in Samples
    /\ rng_state_ \in Nat /\ seq_ \in Nat /\ slots \in Nat /\ produced \in Nat /\ sent \in Nat
    /\ batch \in Seq(Quote) /\ made \in Seq(Quote) /\ wire \in Seq(Quote)
    /\ holes \subseteq Nat /\ IsFiniteSet(holes)
    /\ pc \in IF version = 1 THEN {"idle", "slot", "one"}
              ELSE {"idle", "while", "fill", "send", "one"}

\* Each slot taken is a message or a hole, and the sequence number has
\* advanced by as much.
SlotsUsed ==
    /\ produced + slots <= count
    /\ pc = "slot" => produced + slots = count
    /\ produced = Len(made) + Cardinality(holes)
    /\ seq_ = Len(made) + HoleLength * Cardinality(holes)

HolesBefore(n) == {h \in holes : h < n}

\* The numbers of the messages made: increasing, none of a hole, and each as
\* far from 0 as the messages and the holes before it make it.
Numbers ==
    /\ \A h \in holes : h < seq_
    /\ \A k \in 1..Len(made) :
         /\ made[k].seq_num < seq_ /\ made[k].seq_num \notin holes
         /\ made[k].seq_num
              = (k - 1) + HoleLength * Cardinality(HolesBefore(made[k].seq_num))
    /\ \A j, k \in 1..Len(made) : j < k => made[j].seq_num < made[k].seq_num

\* What the kernel took is a prefix of what was made, and a burst is the end of
\* it; how much of the burst is taken is what `sent' says.
Prefix ==
    /\ Len(wire) <= Len(made) /\ \A i \in 1..Len(wire) : wire[i] = made[i]
    /\ pc = "slot" => Len(wire) = Len(made)
    /\ version = 2 =>
         /\ sent <= Len(batch) /\ Len(batch) <= Len(made)
         /\ Len(wire) = (Len(made) - Len(batch)) + sent
         /\ \A i \in 1..Len(batch) : batch[i] = made[(Len(made) - Len(batch)) + i]
         /\ pc = "fill" => sent = 0
         /\ pc = "while" => sent = Len(batch)

\* Every datagram is an encoded message that the kernel took, and so is what
\* the engine has processed.
Carried ==
    /\ handed \subseteq Samples \cup Quote
    /\ net \in Seq({encode(m) : m \in handed})
    /\ book \in Seq(handed)

NetworkType == TrackerTypeOK /\ lost \in Nat /\ disordered \in Nat

\* The first run over a network that has kept the order.
FirstRun ==
    /\ calls = 1 /\ disordered = 0
    /\ pc \in {"while", "fill", "slot", "send"} \/ (pc = "idle" /\ wire # <<>>)

\* Before it, nothing has happened, ...
Fresh ==
    /\ calls = 0 => /\ net = <<>> /\ wire = <<>> /\ lost = 0 /\ pc = "idle"
                    /\ ~seq_initialized /\ processed = 0 /\ drops = 0 /\ seq_num_gaps = 0
    /\ calls = 1 /\ pc = "one" => wire = <<>>

\* ... and in it the network holds the end of what was sent; the engine has
\* processed what came before and was not lost, and if nothing was, its gap
\* count is the distance covered less the messages.
Arrived == Len(wire) - Len(net)

InOrder ==
    /\ Len(net) <= Len(wire)
    /\ \A i \in 1..Len(net) : net[i] = encode(wire[Arrived + i])
    /\ drops = 0 /\ processed + lost = Arrived
    /\ seq_initialized => \E j \in 1..Arrived : expected_seq_num = wire[j].seq_num + 1
    /\ (lost = 0 /\ Arrived = 0) => ~seq_initialized /\ seq_num_gaps = 0
    /\ (lost = 0 /\ Arrived > 0) =>
         /\ seq_initialized /\ expected_seq_num = wire[Arrived].seq_num + 1
         /\ seq_num_gaps = wire[Arrived].seq_num - wire[1].seq_num - (Arrived - 1)

Quiet == FirstRun => InOrder

FeedInv ==
    /\ GeneratorType /\ SlotsUsed /\ Numbers /\ Prefix
    /\ NetworkType /\ Carried /\ Fresh /\ Quiet

-----------------------------------------------------------------------------
(* The messages                                                            *)

LEMMA HolesAreLong == HoleLength \in Nat \ {0}
  BY GeneratorAssumption DEF HoleLength

\* A number of the random generator is one, and stays one under a modulus.
LEMMA RandIsNat ==
    ASSUME NEW r \in Nat
    PROVE  next_rand(r) \in Nat
<1>1. r * 1664525 + 1013904223 \in Nat
  OBVIOUS
<1> QED
  BY <1>1, SizesPositive, DivMod DEF next_rand

LEMMA RestIsSmall ==
    ASSUME NEW r \in Nat, NEW n \in Nat \ {0}
    PROVE  r % n \in Nat /\ r % n < n
  OBVIOUS

\* What make_message makes fits the wire's fields and is a sane quote.
LEMMA MessageIsQuote ==
    ASSUME NEW seq \in Nat, seq < B8, NEW r \in Nat
    PROVE  make_message(seq, r) \in Quote /\ make_message(seq, r).seq_num = seq
<1> DEFINE bid == 10 + (r % PriceRange)
           size == 1 + (r % SizeRange)
           symbol == IF symbol_count = 0 THEN 1 ELSE (r % symbol_count) + 1
           ts == ToSigned(seq, B8)
<1>1. bid \in Nat /\ bid < 10 + PriceRange
  BY RestIsSmall, GeneratorAssumption
<1>2. size \in Nat \ {0} /\ size < 1 + SizeRange
  BY RestIsSmall, GeneratorAssumption
<1>3. B4 \in Nat /\ B8 \in Nat /\ 1 < B4
  <2>1. B4 \in Nat /\ B8 \in Nat
    BY SizesPositive
  <2>2. SizeRange \in Nat /\ 1 + SizeRange < B4 \div 2
    BY GeneratorAssumption, FieldsAssumption
  <2> QED
    BY <2>1, <2>2
<1>4. symbol \in 0..(B4 - 1)
  <2>1. CASE symbol_count = 0
    BY <1>3, <2>1
  <2>2. CASE symbol_count # 0
    <3>1. symbol_count \in Nat \ {0} /\ symbol_count < B4
      BY <2>2, GeneratorAssumption, FieldsAssumption
    <3>2. r % symbol_count \in Nat /\ r % symbol_count < symbol_count
      BY <3>1, RestIsSmall
    <3> QED
      BY <1>3, <2>2, <3>1, <3>2
  <2> QED
    BY <2>1, <2>2
<1>5. ts \in Signed(B8)
  <2>1. B8 \div 2 \in Nat /\ B8 = 2 * (B8 \div 2)
    BY <1>3, FieldsAssumption
  <2> QED
    BY <1>3, <2>1 DEF ToSigned, Signed
<1>6. bid \in Signed(B8) /\ bid + 1 \in Signed(B8)
  <2>1. B8 \div 2 \in Nat /\ PriceRange \in Nat /\ 10 + PriceRange < B8 \div 2
    BY <1>3, GeneratorAssumption, FieldsAssumption
  <2> HIDE DEF bid
  <2> QED
    BY <1>1, <2>1 DEF Signed
<1>7. size \in Signed(B4) /\ size + 1 \in Signed(B4)
  <2>1. B4 \div 2 \in Nat /\ SizeRange \in Nat /\ 1 + SizeRange < B4 \div 2
    BY <1>3, GeneratorAssumption, FieldsAssumption
  <2> HIDE DEF size
  <2> QED
    BY <1>2, <2>1 DEF Signed
<1>8. seq \in Unsigned(B8) /\ symbol \in Unsigned(B4)
  <2> HIDE DEF symbol
  <2> QED
    BY <1>3, <1>4 DEF Unsigned
<1> DEFINE m == [seq_num |-> seq, symbol_id |-> symbol, exchange_ts |-> ts,
                 bid_price |-> bid, ask_price |-> bid + 1,
                 bid_size |-> size, ask_size |-> size + 1]
<1>9. make_message(seq, r) = m
  BY DEF make_message
<1> HIDE DEF bid, size, symbol, ts
<1>10. m \in MarketDataMsg
  BY <1>5, <1>6, <1>7, <1>8 DEF MarketDataMsg
<1>11. sanityCheck(m) /\ m.seq_num = seq
  BY <1>1, <1>2 DEF sanityCheck
<1> HIDE DEF m
<1> QED
  BY <1>9, <1>10, <1>11 DEF Quote

\* Slots times the longest hole bound the sequence numbers.
LEMMA NumbersFit ==
    ASSUME NEW g \in Nat \ {0}, NEW l \in Nat, NEW c \in Nat, NEW n \in Nat, l + c <= n
    PROVE  l + g * c <= n * g
<1>1. PICK d \in Nat : n = (l + c) + d
  <2>1. n - (l + c) \in Nat /\ n = (l + c) + (n - (l + c))
    OBVIOUS
  <2> QED BY <2>1
<1>2. n * g = l * g + c * g + d * g
  BY <1>1
<1>3. l * g \in Nat /\ c * g \in Nat /\ d * g \in Nat /\ c * g = g * c
  BY <1>1
<1>4. l <= l * g
  OBVIOUS
<1> QED
  BY <1>2, <1>3, <1>4

\* No sequence number of a run reaches the width of its type.
LEMMA SeqFits ==
    ASSUME GeneratorType, SlotsUsed
    PROVE  /\ seq_ < B8 /\ Len(made) <= count /\ count < B8
           /\ Len(made) \in Nat /\ Cardinality(holes) \in Nat /\ count \in Nat
<1>1. /\ Len(made) \in Nat /\ Cardinality(holes) \in Nat
      /\ produced \in Nat /\ slots \in Nat
  BY FS_CardinalityType DEF GeneratorType
<1>2. /\ produced + slots <= count /\ produced = Len(made) + Cardinality(holes)
      /\ seq_ = Len(made) + HoleLength * Cardinality(holes)
  BY DEF SlotsUsed
<1>3. count \in Nat /\ HoleLength \in Nat \ {0} /\ count * HoleLength < B8
  BY GeneratorAssumption, FieldsAssumption, HolesAreLong DEF HoleLength
<1>4. B8 \in Nat
  BY SizesPositive
<1>5. Len(made) + Cardinality(holes) <= count
  BY <1>1, <1>2, <1>3
<1>6. Len(made) + HoleLength * Cardinality(holes) <= count * HoleLength
  BY <1>1, <1>3, <1>5, NumbersFit
<1>7. count * HoleLength \in Nat /\ count <= count * HoleLength
  BY <1>3
<1>8. PICK p \in Nat : p = HoleLength * Cardinality(holes)
  BY <1>1, <1>3
<1>9. PICK q \in Nat : q = count * HoleLength
  BY <1>7
<1>10. seq_ = Len(made) + p /\ Len(made) + p <= q /\ q < B8 /\ count <= q
  BY <1>2, <1>3, <1>6, <1>7, <1>8, <1>9, Zenon
<1>11. count \in Nat
  BY <1>3
<1> QED
  BY <1>1, <1>4, <1>5, <1>10, <1>11

\* The next message has the next number.
LEMMA NextQuote ==
    ASSUME GeneratorType, SlotsUsed
    PROVE  /\ NextMessage \in Quote /\ NextMessage.seq_num = seq_
           /\ MessageRand \in Nat /\ next_rand(rng_state_) \in Nat
<1>1. seq_ < B8 /\ seq_ \in Nat /\ rng_state_ \in Nat
  BY SeqFits DEF GeneratorType
<1>2. next_rand(rng_state_) \in Nat /\ MessageRand \in Nat
  BY <1>1, RandIsNat DEF MessageRand
<1> QED
  BY <1>1, <1>2, MessageIsQuote DEF NextMessage

-----------------------------------------------------------------------------
(* The generator's part                                                    *)

\* n elements behind the first a of a sequence.
LEMMA SlicePlaces ==
    ASSUME NEW S, NEW s \in Seq(S), NEW a \in Nat, NEW n \in Nat, a + n <= Len(s)
    PROVE  /\ SubSeq(s, a + 1, a + n) \in Seq(S) /\ Len(SubSeq(s, a + 1, a + n)) = n
           /\ \A i \in 1..n : SubSeq(s, a + 1, a + n)[i] = s[a + i]
<1>1. (a + n) - (a + 1) + 1 = n /\ 1 <= a + 1 /\ a + n <= Len(s)
  OBVIOUS
<1>2. SubSeq(s, a + 1, a + n) = [i \in 1..n |-> s[a + i]]
  BY <1>1
<1>3. \A i \in 1..n : s[a + i] \in S
  <2> TAKE i \in 1..n
  <2>1. a + i \in 1..Len(s)
    OBVIOUS
  <2> QED BY <2>1
<1> DEFINE t == [i \in 1..n |-> s[a + i]]
<1>4. t \in Seq(S) /\ Len(t) = n /\ \A i \in 1..n : t[i] = s[a + i]
  BY <1>3
<1> QED BY <1>2, <1>4, Zenon

LEMMA GeneratorTypeStep ==
    ASSUME GeneratorType, SlotsUsed, Next
    PROVE  GeneratorType'
<1>1. CASE Working
  <2> USE DEF runVars, sending, history
  <2>0. version' = version /\ calls' = calls
    BY <1>1 DEF Working
  <2>1. CASE While
    <3>0. \/ produced < count /\ slots' = IF burst_size < count - produced
                                            THEN burst_size ELSE count - produced
          \/ slots' = slots
      BY <2>1, Zenon DEF While
    <3>1. slots' \in Nat
      <4>1. count \in Nat /\ burst_size \in Nat /\ produced \in Nat /\ slots \in Nat
        BY GeneratorAssumption DEF GeneratorType
      <4> QED
        BY <3>0, <4>1
    <3> QED
      BY <2>0, <2>1, <3>1 DEF While, Goto, Return, GeneratorType
  <2>2. CASE FillGap
    <3>1. /\ slots' \in Nat /\ produced' \in Nat /\ seq_' \in Nat
          /\ rng_state_' \in Nat
      BY <2>2, NextQuote, HolesAreLong DEF FillGap, TakeSlot, GeneratorType
    <3>2. holes' \subseteq Nat /\ IsFiniteSet(holes')
      BY <2>2, FS_AddElement, Zenon DEF FillGap, GeneratorType
    <3> QED
      BY <2>0, <2>2, <3>1, <3>2 DEF FillGap, GeneratorType
  <2>3. CASE FillMessage \/ SlotMessage
    <3>0. MakeMessage
      BY <2>3 DEF FillMessage, SlotMessage
    <3>1. /\ slots' \in Nat /\ produced' \in Nat /\ seq_' \in Nat
          /\ rng_state_' \in Nat /\ made' \in Seq(Quote)
      BY <3>0, NextQuote DEF MakeMessage, TakeSlot, GeneratorType
    <3>2. /\ UNCHANGED <<sending, one, holes>>
          /\ Append(batch, NextMessage) \in Seq(Quote)
          /\ Append(wire, NextMessage) \in Seq(Quote)
      BY <3>0, NextQuote, AppendPlaces DEF MakeMessage, GeneratorType
    <3>3. CASE FillMessage
      BY <2>0, <3>1, <3>2, <3>3 DEF FillMessage, GeneratorType
    <3>4. CASE SlotMessage
      BY <2>0, <3>1, <3>2, <3>4, Zenon
         DEF SlotMessage, send_message, SlotFails, Return, GeneratorType
    <3> QED
      BY <2>3, <3>3, <3>4
  <2>4. CASE Filled
    BY <2>0, <2>4 DEF Filled, Goto, GeneratorType
  <2>5. CASE SlotsDone \/ SendAgain \/ SendFails \/ OneSent
    BY <2>0, <2>5, Zenon DEF SlotsDone, SendAgain, Retry, SendFails, OneSent, Return,
                             GeneratorType
  <2>6. ASSUME NEW n \in 1..burst_size, SendSome(n)
        PROVE  GeneratorType'
    <3>1. sent \in Nat /\ n \in Nat /\ sent + n <= Len(batch) /\ batch \in Seq(Quote)
      BY <2>6, GeneratorAssumption DEF SendSome, GeneratorType
    <3>2. SubSeq(batch, sent + 1, sent + n) \in Seq(Quote)
      BY <3>1, SlicePlaces
    <3>3. wire' = wire \o SubSeq(batch, sent + 1, sent + n) /\ sent' = sent + n
      BY <2>6 DEF SendSome, SentAfter
    <3>4. wire \in Seq(Quote)
      BY DEF GeneratorType
    <3>5. wire' \in Seq(Quote) /\ sent' \in Nat
      BY <3>1, <3>2, <3>3, <3>4, ConcatPlaces
    <3> QED
      BY <2>0, <2>6, <3>5 DEF SendSome, Goto, GeneratorType
  <2> QED
    BY <1>1, <2>1, <2>2, <2>3, <2>4, <2>5, <2>6 DEF Working
<1>2. CASE Calls
  <2> USE DEF runVars, sending, history
  <2>1. CASE Open
    BY <2>1 DEF Open, GeneratorType
  <2>2. ASSUME NEW seed \in Seeds, Run(seed)
        PROVE  GeneratorType'
    <3>0. seed \in Int /\ count \in Nat /\ calls' \in Nat
      BY <2>2, GeneratorAssumption DEF Run, GeneratorType
    <3>1. CASE fd_
      <4>1. holes' \subseteq Nat /\ IsFiniteSet(holes')
        BY <2>2, <3>1, FS_EmptySet DEF Run
      <4>2. <<>> \in Seq(Quote) /\ rng_state_' \in Nat /\ slots' \in Nat
        BY <2>2, <3>0, <3>1 DEF Run
      <4> QED
        BY <2>2, <3>0, <3>1, <4>1, <4>2 DEF Run, Goto, GeneratorType
    <3>2. CASE ~fd_
      BY <2>2, <3>0, <3>2, Zenon DEF Run, Return, GeneratorType
    <3> QED
      BY <3>1, <3>2
  <2>3. ASSUME NEW msg \in Samples, SendOneCall(msg)
        PROVE  GeneratorType'
    BY <2>3 DEF SendOneCall, Goto, Return, GeneratorType
  <2> QED
    BY <1>2, <2>1, <2>2, <2>3 DEF Calls
<1>3. CASE Network
  BY <1>3 DEF Network, runVars, sending, history, GeneratorType
<1> QED
  BY <1>1, <1>2, <1>3 DEF Next

LEMMA SlotsStep ==
    ASSUME GeneratorType, SlotsUsed, Numbers, Next
    PROVE  SlotsUsed'
<1> DEFINE L == Len(made)
           C == Cardinality(holes)
<1>0. /\ L \in Nat /\ C \in Nat /\ count \in Nat /\ burst_size \in Nat
      /\ HoleLength \in Nat \ {0} /\ HoleLength * C \in Nat
      /\ seq_ \in Nat /\ slots \in Nat /\ produced \in Nat
  <2>1. HoleLength \in Nat \ {0}
    BY HolesAreLong
  <2>2. /\ L \in Nat /\ C \in Nat /\ count \in Nat /\ burst_size \in Nat
        /\ seq_ \in Nat /\ slots \in Nat /\ produced \in Nat
    BY SeqFits, GeneratorAssumption DEF GeneratorType
  <2> HIDE DEF L, C
  <2> QED
    BY <2>1, <2>2
<1>a. /\ produced + slots <= count /\ (pc = "slot" => produced + slots = count)
      /\ produced = L + C /\ seq_ = L + HoleLength * C
  BY DEF SlotsUsed
<1>b. ASSUME made' = made, holes' = holes
      PROVE  Len(made)' = L /\ Cardinality(holes)' = C
  BY <1>b
<1>1. CASE Working
  <2>1. CASE While
    <3>1. /\ made' = made /\ holes' = holes /\ produced' = produced /\ seq_' = seq_
          /\ pc' # "slot"
          /\ \/ produced < count /\ slots' = IF burst_size < count - produced
                                             THEN burst_size ELSE count - produced
             \/ slots' = slots
      BY <2>1 DEF While, Goto, Return, history
    <3>2. produced' + slots' <= count
      <4>1. /\ count \in Nat /\ burst_size \in Nat /\ produced \in Nat /\ slots \in Nat
            /\ produced + slots <= count
        BY <1>0, <1>a, Zenon
      <4> QED
        BY <3>1, <4>1
    <3> QED
      BY <1>a, <1>b, <3>1, <3>2 DEF SlotsUsed
  <2>2. CASE FillGap
    <3>1. /\ produced' + slots' = produced + slots /\ produced' = produced + 1
          /\ seq_' = seq_ + HoleLength /\ pc' = pc /\ made' = made
          /\ holes' = holes \cup {seq_}
      BY <1>0, <2>2 DEF FillGap, TakeSlot
    <3>2. seq_ \notin holes
      BY <1>0 DEF Numbers
    <3>3. Cardinality(holes') = C + 1
      BY <3>1, <3>2, FS_AddElement, Zenon DEF GeneratorType
    <3> HIDE DEF C
    <3>4. HoleLength * (C + 1) = HoleLength * C + HoleLength
      BY <1>0
    <3>5. Cardinality(holes)' = C + 1 /\ Len(made)' = L
      BY <3>1, <3>3
    <3> HIDE DEF L
    <3>6. produced' = L + (C + 1) /\ seq_' = L + HoleLength * (C + 1)
      BY <1>0, <1>a, <3>1, <3>4
    <3> QED
      BY <1>a, <3>1, <3>5, <3>6 DEF SlotsUsed
  <2>3. CASE FillMessage \/ SlotMessage
    <3>1. MakeMessage
      BY <2>3 DEF FillMessage, SlotMessage
    <3>2. /\ produced' + slots' = produced + slots /\ produced' = produced + 1
          /\ seq_' = seq_ + 1 /\ holes' = holes /\ made' = Append(made, NextMessage)
      BY <1>0, <3>1 DEF MakeMessage, TakeSlot
    <3>3. pc' = "slot" => pc = "slot"
      BY <2>3 DEF FillMessage, SlotMessage, SlotFails, Return
    <3>4. Len(made)' = L + 1
      BY <3>2, NextQuote DEF GeneratorType
    <3>5. Cardinality(holes)' = C
      BY <3>2
    <3> HIDE DEF L, C
    <3>6. produced' = (L + 1) + C /\ seq_' = (L + 1) + HoleLength * C
      BY <1>0, <1>a, <3>2
    <3> QED
      BY <1>a, <3>2, <3>3, <3>4, <3>5, <3>6 DEF SlotsUsed
  <2>4. CASE Filled \/ SlotsDone \/ SendAgain \/ SendFails \/ OneSent
    <3>1. /\ UNCHANGED <<made, holes, produced, seq_, slots>>
          /\ pc' = "slot" => pc = "slot"
      BY <2>4 DEF Filled, Goto, SlotsDone, SendAgain, Retry, SendFails, OneSent, Return,
                  runVars, history
    <3> QED
      BY <1>a, <1>b, <3>1 DEF SlotsUsed
  <2>5. ASSUME NEW n \in 1..burst_size, SendSome(n)
        PROVE  SlotsUsed'
    <3>1. UNCHANGED <<made, holes, produced, seq_, slots>> /\ pc' # "slot"
      BY <2>5 DEF SendSome, Goto, runVars
    <3> QED
      BY <1>a, <1>b, <3>1 DEF SlotsUsed
  <2> QED
    BY <1>1, <2>1, <2>2, <2>3, <2>4, <2>5 DEF Working
<1>2. CASE Calls
  <2>1. ASSUME UNCHANGED <<made, holes, produced, seq_, slots>>, pc' = "slot" => pc = "slot"
        PROVE  SlotsUsed'
    BY <1>a, <1>b, <2>1 DEF SlotsUsed
  <2>2. ASSUME NEW seed \in Seeds, Run(seed), fd_
        PROVE  SlotsUsed'
    <3>1. /\ made' = <<>> /\ holes' = {} /\ produced' = 0 /\ seq_' = 0
          /\ slots' = IF version = 1 THEN count ELSE 0
          /\ pc' = IF version = 1 THEN "slot" ELSE "while"
      BY <2>2 DEF Run, Goto
    <3>2. Len(made)' = 0 /\ Cardinality(holes)' = 0
      BY <3>1, FS_EmptySet
    <3>3. HoleLength * 0 = 0
      BY <1>0
    <3> QED
      BY <1>0, <3>1, <3>2, <3>3 DEF SlotsUsed
  <2>3. ASSUME NEW seed \in Seeds, Run(seed), ~fd_
        PROVE  SlotsUsed'
    BY <2>1, <2>3 DEF Run, Return, runVars, history
  <2>4. ASSUME NEW msg \in Samples, SendOneCall(msg)
        PROVE  SlotsUsed'
    BY <2>1, <2>4 DEF SendOneCall, Goto, Return, runVars, history
  <2>5. CASE Open
    BY <2>1, <2>5 DEF Open, runVars, history
  <2> QED
    BY <1>2, <2>2, <2>3, <2>4, <2>5 DEF Calls
<1>3. CASE Network
  BY <1>a, <1>b, <1>3 DEF Network, runVars, history, SlotsUsed
<1> QED
  BY <1>1, <1>2, <1>3 DEF Next

\* A hole or a message at the end changes no number before it.
LEMMA NumbersStep ==
    ASSUME GeneratorType, SlotsUsed, Numbers, Next
    PROVE  Numbers'
<1> USE DEF HolesBefore
<1>0. /\ seq_ \in Nat /\ holes \subseteq Nat /\ made \in Seq(Quote) /\ Len(made) \in Nat
      /\ HoleLength \in Nat \ {0} /\ \A k \in 1..Len(made) : made[k].seq_num \in Nat
  <2>1. \A m \in Quote : m.seq_num \in Nat
    BY SizesPositive DEF Quote, MarketDataMsg, Unsigned
  <2> QED
    BY <2>1, HolesAreLong DEF GeneratorType
<1>1. \A h \in holes : h < seq_
  BY Zenon DEF Numbers
<1>a. seq_ \in Nat /\ \A h \in holes : h \in Nat /\ h < seq_
  BY <1>0, <1>1
<1>2. \A k \in 1..Len(made) : made[k].seq_num < seq_ /\ made[k].seq_num \notin holes
  BY Zenon DEF Numbers
<1>3. ASSUME made' = made, holes' = holes, seq_' = seq_
      PROVE  Numbers'
  BY <1>3 DEF Numbers
<1>4. CASE Working
  <2>1. CASE FillGap
    <3>1. seq_' = seq_ + HoleLength /\ made' = made /\ holes' = holes \cup {seq_}
      BY <2>1 DEF FillGap
    <3>2. \A h \in holes' : h < seq_'
      <4>1. HoleLength \in Nat \ {0}
        BY <1>0, Zenon
      <4>2. seq_ < seq_ + HoleLength /\ \A h \in holes : h < seq_ + HoleLength
        BY <1>a, <4>1
      <4> QED
        BY <3>1, <4>2
    <3>3. ASSUME NEW k \in 1..Len(made)
          PROVE  /\ made[k].seq_num < seq_' /\ made[k].seq_num \notin holes'
                 /\ HolesBefore(made[k].seq_num)' = HolesBefore(made[k].seq_num)
      <4>1. made[k].seq_num \in Nat /\ made[k].seq_num < seq_ /\ made[k].seq_num \notin holes
        BY <1>0, <1>2
      <4>2. made[k].seq_num < seq_' /\ made[k].seq_num \notin holes'
        BY <1>0, <3>1, <4>1
      <4>3. {h \in holes' : h < made[k].seq_num} = {h \in holes : h < made[k].seq_num}
        BY <1>0, <3>1, <4>1
      <4>4. HolesBefore(made[k].seq_num)' = {h \in holes' : h < made[k].seq_num}
        BY <3>1
      <4> QED
        BY <4>2, <4>3, <4>4
    <3> HIDE DEF HolesBefore
    <3>4. ASSUME NEW k \in 1..Len(made)
          PROVE  /\ made[k].seq_num < seq_' /\ made[k].seq_num \notin holes'
                 /\ made[k].seq_num = (k - 1)
                      + HoleLength * Cardinality(HolesBefore(made[k].seq_num)')
      BY <3>3 DEF Numbers
    <3> QED
      BY <3>1, <3>2, <3>4 DEF Numbers, HolesBefore
  <2>2. CASE FillMessage \/ SlotMessage
    <3>1. /\ seq_' = seq_ + 1 /\ holes' = holes /\ made' = Append(made, NextMessage)
          /\ NextMessage \in Quote /\ NextMessage.seq_num = seq_
      BY <2>2, NextQuote DEF FillMessage, SlotMessage, MakeMessage
    <3>2. /\ Len(made') = Len(made) + 1 /\ made'[Len(made) + 1] = NextMessage
          /\ \A k \in 1..Len(made) : made'[k] = made[k]
      <4>1. made \in Seq(Quote) /\ NextMessage \in Quote /\ made' = Append(made, NextMessage)
        BY <1>0, <3>1, Zenon
      <4> QED
        BY <4>1, AppendPlaces
    <3>3. {h \in holes : h < seq_} = holes
      BY <1>1
    <3>4. \A h \in holes' : h < seq_'
      <4>1. \A h \in holes : h < seq_ + 1
        BY <1>a
      <4> QED
        BY <3>1, <4>1, Zenon
    <3>5. ASSUME NEW k \in 1..Len(made')
          PROVE  /\ made'[k].seq_num < seq_' /\ made'[k].seq_num \notin holes'
                 /\ made'[k].seq_num = (k - 1)
                      + HoleLength * Cardinality({h \in holes' : h < made'[k].seq_num})
      <4>1. CASE k \in 1..Len(made)
        <5>1. /\ made'[k] = made[k] /\ made[k].seq_num \in Nat
              /\ made[k].seq_num < seq_ /\ made[k].seq_num \notin holes
          BY <1>0, <1>2, <3>2, <4>1
        <5>2. made[k].seq_num = (k - 1)
                + HoleLength * Cardinality({h \in holes : h < made[k].seq_num})
          BY <4>1 DEF Numbers
        <5>3. made[k].seq_num < seq_ + 1
          BY <1>0, <5>1
        <5> QED
          BY <3>1, <5>1, <5>2, <5>3, Zenon
      <4>2. CASE k = Len(made) + 1
        <5>1. seq_ < seq_ + 1 /\ seq_ \notin holes /\ k - 1 = Len(made)
          BY <1>0, <1>1, <4>2
        <5>2. seq_ = Len(made) + HoleLength * Cardinality({h \in holes : h < seq_})
          BY <3>3, Zenon DEF SlotsUsed
        <5>3. made'[k].seq_num = seq_
          BY <3>1, <3>2, <4>2
        <5> QED
          BY <3>1, <5>1, <5>2, <5>3, Zenon
      <4>3. Len(made) \in Nat /\ Len(made') = Len(made) + 1
        BY <1>0, <3>2, Zenon
      <4>4. k \in 1..Len(made) \/ k = Len(made) + 1
        BY <4>3
      <4> QED
        BY <4>1, <4>2, <4>4, Zenon
    <3>6. ASSUME NEW j \in 1..Len(made'), NEW k \in 1..Len(made'), j < k
          PROVE  made'[j].seq_num < made'[k].seq_num
      <4>1. j \in 1..Len(made)
        BY <1>0, <3>2, <3>6
      <4>2. CASE k <= Len(made)
        BY <1>0, <3>2, <3>6, <4>1, <4>2 DEF Numbers
      <4>3. CASE k = Len(made) + 1
        BY <1>0, <1>2, <3>1, <3>2, <4>1, <4>3
      <4> QED
        BY <1>0, <3>2, <4>2, <4>3
    <3> QED
      BY <3>4, <3>5, <3>6 DEF Numbers
  <2>3. CASE While \/ Filled \/ SlotsDone \/ SendAgain \/ SendFails \/ OneSent
    BY <1>3, <2>3, Zenon DEF While, Filled, SlotsDone, SendAgain, SendFails, OneSent,
                      runVars, history
  <2>4. ASSUME NEW n \in 1..burst_size, SendSome(n)
        PROVE  Numbers'
    BY <1>3, <2>4 DEF SendSome, runVars
  <2> QED
    BY <1>4, <2>1, <2>2, <2>3, <2>4 DEF Working
<1>5. CASE Calls
  <2>1. ASSUME NEW seed \in Seeds, Run(seed), fd_
        PROVE  Numbers'
    <3>1. made' = <<>> /\ holes' = {}
      BY <2>1 DEF Run
    <3>2. 1..Len(made') = {}
      BY <3>1
    <3> QED
      BY <3>1, <3>2, Zenon DEF Numbers
  <2>2. ASSUME NEW seed \in Seeds, Run(seed), ~fd_
        PROVE  Numbers'
    BY <1>3, <2>2 DEF Run, runVars, history
  <2>3. ASSUME NEW msg \in Samples, SendOneCall(msg)
        PROVE  Numbers'
    BY <1>3, <2>3 DEF SendOneCall, runVars, history
  <2>4. CASE Open
    BY <1>3, <2>4 DEF Open, runVars, history
  <2> QED
    BY <1>5, <2>1, <2>2, <2>3, <2>4 DEF Calls
<1>6. CASE Network
  BY <1>3, <1>6 DEF Network, runVars, history
<1> QED
  BY <1>4, <1>5, <1>6 DEF Next

LEMMA PrefixStep ==
    ASSUME GeneratorType, SlotsUsed, Prefix, Next
    PROVE  Prefix'
<1>0. /\ made \in Seq(Quote) /\ wire \in Seq(Quote) /\ batch \in Seq(Quote)
      /\ Len(made) \in Nat /\ Len(wire) \in Nat /\ Len(batch) \in Nat /\ sent \in Nat
      /\ version \in {1, 2}
  BY DEF GeneratorType
<1>a. ASSUME UNCHANGED <<version, made, wire, batch, sent>>,
             pc' \in {"slot", "fill", "while"} => pc' = pc
      PROVE  Prefix'
  BY <1>a DEF Prefix
<1>1. CASE Working
  <2>0. version' = version
    BY <1>1 DEF Working
  <2>1. CASE While
    <3>1. /\ version = 2 /\ made' = made /\ wire' = wire /\ batch' = <<>> /\ sent' = 0
          /\ pc' \in {"fill", "idle"} /\ pc = "while"
      BY <2>1 DEF While, Goto, Return, history, GeneratorType
    <3>2. Len(wire) = Len(made)
      BY <1>0, <3>1 DEF Prefix
    <3> QED
      BY <1>0, <2>0, <3>1, <3>2 DEF Prefix
  <2>2. CASE FillGap
    BY <1>a, <2>0, <2>2 DEF FillGap, sending
  <2>3. CASE FillMessage
    <3>1. /\ version = 2 /\ made' = Append(made, NextMessage) /\ wire' = wire
          /\ batch' = Append(batch, NextMessage) /\ sent' = sent
          /\ pc' = "fill" /\ sent = 0
      BY <1>0, <2>3, Zenon DEF FillMessage, MakeMessage, sending, GeneratorType, Prefix
    <3>2. /\ Len(made') = Len(made) + 1 /\ made'[Len(made) + 1] = NextMessage
          /\ \A k \in 1..Len(made) : made'[k] = made[k]
          /\ Len(batch') = Len(batch) + 1 /\ batch'[Len(batch) + 1] = NextMessage
          /\ \A k \in 1..Len(batch) : batch'[k] = batch[k]
      BY <1>0, <3>1, NextQuote, AppendPlaces
    <3>3. /\ Len(wire) <= Len(made) /\ \A i \in 1..Len(wire) : wire[i] = made[i]
          /\ Len(batch) <= Len(made) /\ Len(wire) = (Len(made) - Len(batch)) + sent
          /\ \A i \in 1..Len(batch) : batch[i] = made[(Len(made) - Len(batch)) + i]
      BY <3>1 DEF Prefix
    <3>4. ASSUME NEW i \in 1..Len(batch')
          PROVE  batch'[i] = made'[(Len(made') - Len(batch')) + i]
      <4>1. CASE i \in 1..Len(batch)
        <5>1. (Len(made) - Len(batch)) + i \in 1..Len(made)
          BY <1>0, <3>3, <4>1
        <5>2. Len(made') - Len(batch') = Len(made) - Len(batch)
          BY <1>0, <3>2
        <5> QED
          BY <3>2, <3>3, <4>1, <5>1, <5>2, Zenon
      <4>2. CASE i = Len(batch) + 1
        BY <1>0, <3>2, <3>3, <4>2
      <4> QED
        BY <1>0, <3>2, <4>1, <4>2
    <3>5. \A i \in 1..Len(wire) : wire[i] = made'[i]
      BY <1>0, <3>2, <3>3
    <3>6. /\ Len(wire) <= Len(made') /\ sent <= Len(batch') /\ Len(batch') <= Len(made')
          /\ Len(wire) = (Len(made') - Len(batch')) + sent
      BY <1>0, <3>1, <3>2, <3>3
    <3> QED
      BY <3>1, <3>4, <3>5, <3>6, Zenon DEF Prefix
  <2>4. CASE SlotMessage
    <3>1. /\ version = 1 /\ pc = "slot" /\ made' = Append(made, NextMessage)
          /\ \/ wire' = Append(wire, NextMessage)
             \/ wire' = wire /\ pc' = "idle"
      BY <2>4 DEF SlotMessage, send_message, SlotFails, Return, MakeMessage, GeneratorType
    <3>2. /\ Len(made') = Len(made) + 1 /\ made'[Len(made) + 1] = NextMessage
          /\ \A k \in 1..Len(made) : made'[k] = made[k]
      BY <1>0, <3>1, NextQuote, AppendPlaces
    <3>3. Len(wire) = Len(made) /\ \A i \in 1..Len(wire) : wire[i] = made[i]
      BY <3>1 DEF Prefix
    <3>4. CASE wire' = Append(wire, NextMessage)
      <4>1. /\ Len(wire') = Len(wire) + 1 /\ wire'[Len(wire) + 1] = NextMessage
            /\ \A k \in 1..Len(wire) : wire'[k] = wire[k]
        BY <1>0, <3>4, NextQuote, AppendPlaces
      <4>2. Len(wire') = Len(made') /\ Len(made') = Len(made) + 1 /\ Len(made) \in Nat
        BY <1>0, <3>2, <3>3, <4>1, Zenon
      <4>3. Len(wire') <= Len(made')
        BY <4>2
      <4>4. ASSUME NEW i \in 1..Len(wire')
            PROVE  wire'[i] = made'[i]
        <5>1. i \in 1..Len(made) \/ i = Len(made) + 1
          BY <4>2
        <5> QED
          BY <3>2, <3>3, <4>1, <5>1, Zenon
      <4>5. version' # 2
        BY <2>0, <3>1
      <4> QED
        BY <4>2, <4>3, <4>4, <4>5, Zenon DEF Prefix
    <3>5. CASE wire' = wire /\ pc' = "idle"
      BY <1>0, <2>0, <3>1, <3>2, <3>3, <3>5 DEF Prefix
    <3> QED
      BY <3>1, <3>4, <3>5
  <2>5. CASE Filled
    <3>1. /\ UNCHANGED <<made, wire, batch, sent>> /\ pc = "fill"
          /\ pc' = IF batch = <<>> THEN "while" ELSE "send"
      BY <2>5 DEF Filled, Goto, runVars, history
    <3>2. version = 2 => sent = 0
      BY <3>1 DEF Prefix
    <3>3. batch = <<>> => Len(batch) = 0
      OBVIOUS
    <3> QED
      BY <2>0, <3>1, <3>2, <3>3 DEF Prefix
  <2>6. CASE SlotsDone \/ SendAgain \/ SendFails \/ OneSent
    BY <1>a, <2>0, <2>6, Zenon DEF SlotsDone, SendAgain, Retry, SendFails, OneSent, Return,
                            runVars, sending, history
  <2>7. ASSUME NEW n \in 1..burst_size, SendSome(n)
        PROVE  Prefix'
    <3> DEFINE taken == SubSeq(batch, sent + 1, sent + n)
    <3>1. /\ version = 2 /\ n \in Nat /\ sent + n <= Len(batch) /\ sent' = sent + n
          /\ wire' = wire \o taken /\ made' = made /\ batch' = batch
          /\ pc' = IF sent + n = Len(batch) THEN "while" ELSE "send"
      BY <1>0, <2>7, GeneratorAssumption
         DEF SendSome, SentAfter, Goto, runVars, GeneratorType
    <3>2. /\ taken \in Seq(Quote) /\ Len(taken) = n
          /\ \A i \in 1..n : taken[i] = batch[sent + i]
      BY <1>0, <3>1, SlicePlaces
    <3> HIDE DEF taken
    <3>3. /\ Len(wire') = Len(wire) + n
          /\ \A i \in 1..(Len(wire) + n) :
               wire'[i] = IF i <= Len(wire) THEN wire[i] ELSE taken[i - Len(wire)]
      BY <1>0, <3>1, <3>2, ConcatPlaces
    <3>4. /\ Len(wire) <= Len(made) /\ \A i \in 1..Len(wire) : wire[i] = made[i]
          /\ Len(batch) <= Len(made) /\ Len(wire) = (Len(made) - Len(batch)) + sent
          /\ \A i \in 1..Len(batch) : batch[i] = made[(Len(made) - Len(batch)) + i]
      BY <3>1, Zenon DEF Prefix
    <3>5. ASSUME NEW i \in 1..Len(wire')
          PROVE  wire'[i] = made[i]
      <4>1. CASE i <= Len(wire)
        <5>1. Len(wire) \in Nat /\ n \in Nat /\ Len(wire') = Len(wire) + n
          BY <1>0, <3>1, <3>3, Zenon
        <5>2. i \in 1..Len(wire) /\ i \in 1..(Len(wire) + n)
          BY <4>1, <5>1
        <5> QED
          BY <3>3, <3>4, <4>1, <5>2, Zenon
      <4>2. CASE i > Len(wire)
        <5> DEFINE j == sent + (i - Len(wire))
        <5>1. /\ i - Len(wire) \in 1..n /\ j \in 1..Len(batch)
              /\ (Len(made) - Len(batch)) + j = i
          BY <1>0, <3>1, <3>3, <3>4, <4>2
        <5>2. wire'[i] = batch[j]
          BY <1>0, <3>2, <3>3, <4>2, <5>1
        <5> HIDE DEF j
        <5> QED
          BY <3>4, <5>1, <5>2
      <4>3. i <= Len(wire) \/ i > Len(wire)
        <5>1. Len(wire) \in Nat /\ Len(wire') = Len(wire) + n /\ n \in Nat
          BY <1>0, <3>1, <3>3, Zenon
        <5> QED
          BY <5>1
      <4> QED
        BY <4>1, <4>2, <4>3, Zenon
    <3>6. /\ Len(wire') <= Len(made) /\ Len(wire') = (Len(made) - Len(batch)) + sent'
          /\ sent' <= Len(batch)
      BY <1>0, <3>1, <3>3, <3>4
    <3> QED
      BY <2>0, <3>1, <3>4, <3>5, <3>6, Zenon DEF Prefix
  <2> QED
    BY <1>1, <2>1, <2>2, <2>3, <2>4, <2>5, <2>6, <2>7 DEF Working
<1>2. CASE Calls
  <2>1. ASSUME NEW seed \in Seeds, Run(seed), fd_
        PROVE  Prefix'
    <3>1. made' = <<>> /\ wire' = <<>> /\ batch' = <<>> /\ sent' = 0
          /\ (version' = 2 => pc' # "fill") /\ Len(<<>>) = 0
      BY <2>1 DEF Run, Goto
    <3>2. /\ Len(wire') = 0 /\ Len(made') = 0 /\ Len(batch') = 0 /\ 0 = (0 - 0) + 0 /\ 0 <= 0
          /\ \A i \in 1..0 : FALSE
      BY <3>1
    <3> QED
      BY <3>1, <3>2, Zenon DEF Prefix
  <2>2. ASSUME NEW seed \in Seeds, Run(seed), ~fd_
        PROVE  Prefix'
    BY <1>a, <2>2 DEF Run, Return, runVars, history
  <2>3. ASSUME NEW msg \in Samples, SendOneCall(msg)
        PROVE  Prefix'
    BY <1>a, <2>3 DEF SendOneCall, Goto, Return, runVars, history
  <2>4. CASE Open
    BY <1>a, <2>4 DEF Open, sending, runVars, history
  <2> QED
    BY <1>2, <2>1, <2>2, <2>3, <2>4 DEF Calls
<1>3. CASE Network
  BY <1>a, <1>3 DEF Network, sending, runVars, history
<1> QED
  BY <1>1, <1>2, <1>3 DEF Next

-----------------------------------------------------------------------------
(* The network's part                                                      *)

LEMMA WiderSeq ==
    ASSUME NEW S, NEW T, S \subseteq T, NEW s \in Seq(S)
    PROVE  s \in Seq(T)
  OBVIOUS

\* What is handed to the kernel joins what is on its way.
LEMMA HandCarries ==
    ASSUME Carried, NEW msgs \in Seq(Samples \cup Quote), Hand(msgs), book' = book
    PROVE  Carried'
<1> DEFINE coded == [k \in 1..Len(msgs) |-> encode(msgs[k])]
<1>1. /\ handed' = handed \cup {msgs[k] : k \in 1..Len(msgs)}
      /\ net' = net \o coded
  BY DEF Hand
<1>2. Len(msgs) \in Nat /\ \A k \in 1..Len(msgs) : msgs[k] \in Samples \cup Quote
  OBVIOUS
<1>3. handed' \subseteq Samples \cup Quote /\ handed \subseteq handed'
  BY <1>1, <1>2 DEF Carried
<1> DEFINE E == {encode(m) : m \in handed}
           F == {encode(m) : m \in handed'}
<1>4. E \subseteq F /\ \A k \in 1..Len(msgs) : encode(msgs[k]) \in F
  BY <1>1
<1> HIDE DEF F
<1>5. coded \in Seq(F)
  BY <1>2, <1>4
<1> HIDE DEF coded
<1>6. net \in Seq(F)
  BY <1>4, WiderSeq DEF Carried
<1>7. net' \in Seq(F)
  BY <1>1, <1>5, <1>6, ConcatPlaces
<1>8. book' \in Seq(handed')
  BY <1>3, WiderSeq DEF Carried
<1> QED
  BY <1>3, <1>7, <1>8 DEF Carried, F

\* A datagram decodes to the message that was encoded.
LEMMA Decoded ==
    ASSUME Carried, NEW i \in 1..Len(net)
    PROVE  decode(net[i]) \in handed /\ decode(net[i]).seq_num \in Uint64
<1> DEFINE E == {encode(m) : m \in handed}
<1>1. net \in Seq(E)
  BY DEF Carried
<1> HIDE DEF E
<1>2. net[i] \in E
  BY <1>1
<1>3. PICK m \in handed : net[i] = encode(m)
  BY <1>2 DEF E
<1>4. m \in MarketDataMsg
  BY GeneratorAssumption DEF Carried, Quote
<1>5. decode(net[i]) = m
  BY <1>3, <1>4, WireRoundTrip
<1>6. m.seq_num \in Uint64
  BY <1>4, FeedAssumption DEF MarketDataMsg, Unsigned, Uint64
<1> QED
  BY <1>5, <1>6

LEMMA CarriedStep ==
    ASSUME GeneratorType, SlotsUsed, Carried, Next
    PROVE  Carried'
<1>1. CASE Working /\ UNCHANGED <<trackerVars, feedVars>>
  <2>0. book' = book
    BY <1>1 DEF feedVars
  <2>1. CASE While \/ FillGap \/ FillMessage \/ Filled \/ SlotsDone \/ SendAgain \/ SendFails
    <3>1. net' = net /\ handed' = handed
      BY <2>1, Zenon DEF While, FillGap, FillMessage, Filled, SlotsDone, SendAgain, SendFails
    <3> QED
      BY <2>0, <3>1 DEF Carried
  <2>2. CASE SlotMessage
    <3>1. CASE Hand(<<NextMessage>>)
      <4>1. <<NextMessage>> \in Seq(Samples \cup Quote)
        BY NextQuote
      <4> QED
        BY <2>0, <3>1, <4>1, HandCarries, Zenon
    <3>2. CASE net' = net /\ handed' = handed
      BY <2>0, <3>2 DEF Carried
    <3> QED
      BY <2>2, <3>1, <3>2 DEF SlotMessage, send_message
  <2>3. ASSUME NEW n \in 1..burst_size, SendSome(n)
        PROVE  Carried'
    <3>1. /\ sent \in Nat /\ n \in Nat /\ sent + n <= Len(batch) /\ batch \in Seq(Quote)
      BY <2>3, GeneratorAssumption DEF SendSome, GeneratorType
    <3>2. SubSeq(batch, sent + 1, sent + n) \in Seq(Quote)
      BY <3>1, SlicePlaces
    <3>3. SubSeq(batch, sent + 1, sent + n) \in Seq(Samples \cup Quote)
      BY <3>2, WiderSeq
    <3>4. Hand(SubSeq(batch, sent + 1, sent + n))
      BY <2>3 DEF SendSome
    <3> QED
      BY <2>0, <3>3, <3>4, HandCarries, Zenon
  <2>4. CASE OneSent
    <3>1. <<one>> \in Seq(Samples \cup Quote)
      BY DEF GeneratorType
    <3> QED
      BY <2>0, <2>4, <3>1, HandCarries, Zenon DEF OneSent
  <2> QED
    BY <1>1, <2>1, <2>2, <2>3, <2>4 DEF Working
<1>2. CASE Calls /\ UNCHANGED <<trackerVars, feedVars>>
  <2>1. net' = net /\ handed' = handed /\ book' = book
    BY <1>2, Zenon DEF Calls, Open, Run, SendOneCall, feedVars
  <2> QED
    BY <2>1 DEF Carried
<1>3. CASE Network
  <2> DEFINE E == {encode(m) : m \in handed}
  <2>0. handed' = handed /\ net \in Seq(E) /\ book \in Seq(handed)
    BY <1>3 DEF Network, Carried
  <2>a. ASSUME NEW i \in 1..Len(net), Process(net[i])
        PROVE  book' \in Seq(handed)
    <3>1. decode(net[i]) \in handed
      BY Decoded
    <3>2. book' = book \/ book' = Append(book, decode(net[i]))
      BY <2>a DEF Process
    <3> QED
      BY <2>0, <3>1, <3>2
  <2>b. ASSUME net' \in Seq(E), book' \in Seq(handed)
        PROVE  Carried'
    BY <2>0, <2>b DEF Carried
  <2> HIDE DEF E
  <2>1. ASSUME NEW i \in 1..Len(net), Deliver(i)
        PROVE  Carried'
    <3>1. book' \in Seq(handed)
      BY <2>a, <2>1 DEF Deliver
    <3>2. net' = [k \in 1..(Len(net) - 1) |-> IF k < i THEN net[k] ELSE net[k + 1]]
      BY <2>1 DEF Deliver
    <3>3. /\ Len(net) - 1 \in Nat
          /\ \A k \in 1..(Len(net) - 1) : (IF k < i THEN net[k] ELSE net[k + 1]) \in E
      BY <2>0
    <3>4. net' \in Seq(E)
      BY <3>2, <3>3
    <3> QED
      BY <2>b, <3>1, <3>4
  <2>2. CASE Duplicate
    <3>1. /\ net' = net /\ 1 \in 1..Len(net) /\ Process(net[1])
      BY <2>0, <2>2, HeadTailPlaces DEF Duplicate
    <3> QED
      BY <2>0, <2>a, <2>b, <3>1
  <2>3. CASE Lose
    <3>1. net' \in Seq(E) /\ book' = book
      BY <2>0, <2>3, HeadTailPlaces DEF Lose
    <3> QED
      BY <2>0, <2>b, <3>1
  <2> QED
    BY <1>3, <2>1, <2>2, <2>3 DEF Network
<1> QED
  BY <1>1, <1>2, <1>3 DEF Next

\* The tracker on a number of the type.
LEMMA TrackTypes ==
    ASSUME TrackerTypeOK, NEW seq \in Uint64, Track(seq)
    PROVE  TrackerTypeOK'
<1>1. \A a, b \in Uint64 : Add(a, b) \in Uint64
  BY AddFacts
<1>2. 1 \in Uint64 /\ 0 \in Uint64
  BY SeqAssumption DEF Uint64
<1>3. seq >= expected_seq_num => seq - expected_seq_num \in Uint64
  BY SeqAssumption DEF TrackerTypeOK, Uint64
<1>4. /\ received' \in Uint64 /\ expected_seq_num' \in Uint64 /\ processed' \in Uint64
      /\ drops' \in Uint64 /\ seq_num_gaps' \in Uint64
  BY <1>1, <1>2, <1>3 DEF TrackerTypeOK, Track, Accept, Reject
<1>5. seq_initialized' \in BOOLEAN
  BY Zenon DEF TrackerTypeOK, Track, Accept, Reject
<1> QED
  BY <1>4, <1>5 DEF TrackerTypeOK

LEMMA NetworkTypeStep ==
    ASSUME NetworkType, Carried, Next
    PROVE  NetworkType'
<1>0. TrackerTypeOK /\ lost \in Nat /\ disordered \in Nat
  BY DEF NetworkType
<1>1. ASSUME UNCHANGED trackerVars
      PROVE  TrackerTypeOK'
  BY <1>0, <1>1 DEF trackerVars, TrackerTypeOK
<1>2. ASSUME NEW i \in 1..Len(net), Process(net[i])
      PROVE  TrackerTypeOK'
  BY <1>0, <1>2, Decoded, TrackTypes DEF Process
<1>3. CASE UNCHANGED <<trackerVars, feedVars>>
  BY <1>0, <1>1, <1>3 DEF feedVars, NetworkType
<1>4. CASE Network
  <2>1. ASSUME NEW i \in 1..Len(net), Deliver(i)
        PROVE  NetworkType'
    <3>1. TrackerTypeOK'
      BY <1>2, <2>1 DEF Deliver
    <3>2. lost' = lost /\ (disordered' = disordered \/ disordered' = disordered + 1)
      BY <1>0, <2>1 DEF Deliver
    <3> QED
      BY <1>0, <3>1, <3>2 DEF NetworkType
  <2>2. CASE Duplicate
    <3>1. 1 \in 1..Len(net) /\ Process(net[1])
      <4>1. net \in Seq({encode(m) : m \in handed})
        BY DEF Carried
      <4> QED
        BY <2>2, <4>1, HeadTailPlaces DEF Duplicate
    <3>2. TrackerTypeOK'
      BY <1>2, <3>1
    <3> QED
      BY <1>0, <2>2, <3>2 DEF Duplicate, NetworkType
  <2>3. CASE Lose
    BY <1>0, <1>1, <2>3 DEF Lose, NetworkType
  <2> QED
    BY <1>4, <2>1, <2>2, <2>3 DEF Network
<1> QED
  BY <1>3, <1>4 DEF Next

\* Before its first call the generator has sent nothing, and the first call of
\* send_one() is not one of run().
LEMMA FreshStep ==
    ASSUME GeneratorType, Fresh, Next
    PROVE  Fresh'
<1>0. calls \in Nat
  BY DEF GeneratorType
<1>1. CASE Working /\ UNCHANGED <<trackerVars, feedVars>>
  <2>0. calls' = calls /\ pc # "idle"
    BY <1>1, Zenon DEF Working, While, FillGap, FillMessage, Filled, SlotMessage, SlotsDone,
                SendSome, SendAgain, SendFails, OneSent
  <2>1. pc' = "one" => pc = "one" /\ wire' = wire
    BY <1>1, Zenon DEF Working, While, FillGap, FillMessage, Filled, SlotMessage, SlotFails,
                SlotsDone, SendSome, SendAgain, Retry, SendFails, OneSent, Goto, Return, history
  <2> QED
    BY <2>0, <2>1 DEF Fresh
<1>2. CASE Calls /\ UNCHANGED <<trackerVars, feedVars>>
  <2>1. CASE Open
    BY <1>2, <2>1 DEF Open, history, trackerVars, feedVars, Fresh
  <2>2. ASSUME NEW seed \in Seeds, Run(seed)
        PROVE  Fresh'
    <3>1. calls' # 0 /\ pc' # "one"
      BY <1>0, <2>2 DEF Run, Goto, Return
    <3> QED
      BY <3>1 DEF Fresh
  <2>3. ASSUME NEW msg \in Samples, SendOneCall(msg)
        PROVE  Fresh'
    <3>1. calls' # 0 /\ wire' = wire /\ (calls' = 1 => calls = 0)
      BY <1>0, <2>3 DEF SendOneCall, history
    <3> QED
      BY <3>1 DEF Fresh
  <2> QED
    BY <1>2, <2>1, <2>2, <2>3 DEF Calls
<1>3. CASE Network
  <2>1. UNCHANGED <<calls, pc, wire>>
    BY <1>3 DEF Network, history
  <2>2. net # <<>>
    BY <1>3 DEF Network, Deliver, Duplicate, Lose
  <2> QED
    BY <2>1, <2>2 DEF Fresh
<1> QED
  BY <1>1, <1>2, <1>3 DEF Next

\* What the first run's network state is made of.
LEMMA QuietFacts ==
    ASSUME FeedInv
    PROVE  /\ wire \in Seq(Quote) /\ Len(wire) \in Nat /\ Len(net) \in Nat
           /\ wire # <<>> <=> Len(wire) > 0
           /\ net \in Seq({encode(m) : m \in handed})
           /\ Len(wire) < B8 /\ B8 \in Nat
           /\ lost \in Nat /\ disordered \in Nat /\ calls \in Nat
           /\ processed \in Nat /\ seq_num_gaps \in Nat /\ drops \in Nat
           /\ \A k \in 1..Len(wire) : /\ wire[k] \in MarketDataMsg /\ wire[k].seq_num \in Nat
                                      /\ wire[k].seq_num + 1 < B8
           /\ \A j, k \in 1..Len(wire) : j < k => wire[j].seq_num < wire[k].seq_num
<1>1. GeneratorType /\ SlotsUsed /\ Numbers /\ Prefix /\ NetworkType /\ Carried
  BY DEF FeedInv
<1>2. /\ wire \in Seq(Quote) /\ made \in Seq(Quote) /\ calls \in Nat /\ seq_ \in Nat
  BY <1>1 DEF GeneratorType
<1>3. net \in Seq({encode(m) : m \in handed}) /\ Len(net) \in Nat
  BY <1>1 DEF Carried
<1>4. Len(wire) <= Len(made) /\ \A i \in 1..Len(wire) : wire[i] = made[i]
  BY <1>1 DEF Prefix
<1>5. B8 \in Nat /\ seq_ < B8 /\ Len(made) <= count /\ count < B8 /\ count \in Nat
  BY <1>1, SeqFits, SizesPositive
<1>6. \A m \in Quote : m \in MarketDataMsg /\ m.seq_num \in Nat
  BY SizesPositive DEF Quote, MarketDataMsg, Unsigned
<1>7. /\ \A k \in 1..Len(made) : made[k].seq_num < seq_
      /\ \A j, k \in 1..Len(made) : j < k => made[j].seq_num < made[k].seq_num
  BY <1>1, Zenon DEF Numbers
<1>8. Len(wire) \in Nat /\ Len(made) \in Nat /\ (wire # <<>> <=> Len(wire) > 0)
  BY <1>2
<1>9. /\ lost \in Nat /\ disordered \in Nat
      /\ processed \in Nat /\ seq_num_gaps \in Nat /\ drops \in Nat
  BY <1>1 DEF NetworkType, TrackerTypeOK, Uint64
<1>10. ASSUME NEW k \in 1..Len(wire)
       PROVE  /\ wire[k] \in MarketDataMsg /\ wire[k].seq_num \in Nat
              /\ wire[k].seq_num + 1 < B8
  <2>1. wire[k] \in Quote /\ wire[k] = made[k] /\ k \in 1..Len(made)
    BY <1>2, <1>4, <1>8
  <2>2. wire[k].seq_num \in Nat /\ wire[k].seq_num < seq_
    BY <1>6, <1>7, <2>1
  <2> QED
    BY <1>2, <1>5, <1>6, <2>1, <2>2
<1>11. ASSUME NEW j \in 1..Len(wire), NEW k \in 1..Len(wire), j < k
       PROVE  wire[j].seq_num < wire[k].seq_num
  BY <1>4, <1>7, <1>8, <1>11
<1>12. Len(wire) < B8
  BY <1>4, <1>5, <1>8
<1> QED
  BY <1>2, <1>3, <1>5, <1>8, <1>9, <1>10, <1>11, <1>12

\* Messages sent in order join the end of both.
LEMMA HandInOrder ==
    ASSUME FeedInv, InOrder, NEW msgs \in Seq(Quote), wire' = wire \o msgs, Hand(msgs),
           UNCHANGED <<trackerVars, lost>>
    PROVE  InOrder'
<1> DEFINE E == {encode(m) : m \in handed \cup {msgs[k] : k \in 1..Len(msgs)}}
           coded == [k \in 1..Len(msgs) |-> encode(msgs[k])]
<1>1. net' = net \o coded /\ Len(msgs) \in Nat
  BY DEF Hand
<1>2. /\ wire \in Seq(Quote) /\ Len(wire) \in Nat /\ Len(net) \in Nat
      /\ net \in Seq({encode(m) : m \in handed})
  BY QuietFacts
<1>3. net \in Seq(E)
  <2>1. {encode(m) : m \in handed} \subseteq E
    OBVIOUS
  <2> HIDE DEF E
  <2> QED
    BY <1>2, <2>1, WiderSeq
<1>4. coded \in Seq(E) /\ Len(coded) = Len(msgs)
  <2>1. \A k \in 1..Len(msgs) : encode(msgs[k]) \in E
    BY Zenon
  <2> HIDE DEF E
  <2> QED
    BY <1>1, <2>1
<1>5. \A k \in 1..Len(msgs) : coded[k] = encode(msgs[k])
  OBVIOUS
<1> HIDE DEF E, coded
<1>6. /\ Len(net') = Len(net) + Len(msgs)
      /\ \A i \in 1..(Len(net) + Len(msgs)) :
           net'[i] = IF i <= Len(net) THEN net[i] ELSE coded[i - Len(net)]
  <2>1. /\ Len(net \o coded) = Len(net) + Len(coded)
        /\ \A i \in 1..(Len(net) + Len(coded)) :
             (net \o coded)[i] = IF i <= Len(net) THEN net[i] ELSE coded[i - Len(net)]
    BY <1>3, <1>4, ConcatPlaces, Zenon
  <2> QED
    BY <1>1, <1>4, <2>1, Zenon
<1>7. /\ Len(wire') = Len(wire) + Len(msgs)
      /\ \A i \in 1..(Len(wire) + Len(msgs)) :
           wire'[i] = IF i <= Len(wire) THEN wire[i] ELSE msgs[i - Len(wire)]
  BY <1>2, ConcatPlaces
<1> DEFINE d == Len(wire) - Len(net)
<1>8. /\ Len(net) <= Len(wire) /\ d \in Nat /\ Arrived = d /\ Arrived' = d
      /\ Len(net') <= Len(wire')
  <2>1. Len(net) <= Len(wire)
    BY Zenon DEF InOrder
  <2>2. /\ Len(net') = Len(net) + Len(msgs) /\ Len(wire') = Len(wire) + Len(msgs)
        /\ Len(msgs) \in Nat /\ Len(wire) \in Nat /\ Len(net) \in Nat
    BY <1>1, <1>2, <1>6, <1>7, Zenon
  <2>3. Arrived = d /\ Arrived' = Len(wire') - Len(net')
    BY DEF Arrived
  <2> QED
    BY <2>1, <2>2, <2>3
<1>9. \A j \in 1..d : wire'[j] = wire[j]
  BY <1>1, <1>2, <1>7, <1>8
<1>10. ASSUME NEW i \in 1..Len(net')
       PROVE  net'[i] = encode(wire'[d + i])
  <2>1. CASE i <= Len(net)
    <3>1. i \in 1..Len(net) /\ d + i \in 1..(Len(wire) + Len(msgs)) /\ d + i <= Len(wire)
      BY <1>1, <1>2, <1>8, <2>1
    <3>2. net'[i] = net[i] /\ wire'[d + i] = wire[d + i]
      BY <1>6, <1>7, <2>1, <3>1
    <3> QED
      BY <1>8, <3>1, <3>2, Zenon DEF InOrder
  <2>2. CASE i > Len(net)
    <3>1. /\ i - Len(net) \in 1..Len(msgs) /\ d + i \in 1..(Len(wire) + Len(msgs))
          /\ d + i > Len(wire) /\ (d + i) - Len(wire) = i - Len(net)
      BY <1>1, <1>2, <1>6, <1>8, <2>2
    <3>2. net'[i] = coded[i - Len(net)]
      BY <1>2, <1>6, <2>2
    <3>3. wire'[d + i] = msgs[i - Len(net)]
      BY <1>2, <1>7, <1>8, <3>1
    <3> QED
      BY <1>5, <3>1, <3>2, <3>3
  <2>3. i <= Len(net) \/ i > Len(net)
    BY <1>2
  <2> QED
    BY <2>1, <2>2, <2>3, Zenon
<1> HIDE DEF d
<1>11. UNCHANGED <<drops, processed, lost, seq_initialized, expected_seq_num, seq_num_gaps>>
  BY DEF trackerVars
<1>12. d > 0 => wire'[d] = wire[d] /\ wire'[1] = wire[1]
  <2>1. d > 0 => d \in 1..d /\ 1 \in 1..d
    BY <1>8
  <2> QED
    BY <1>9, <2>1, Zenon
<1>13. /\ drops = 0 /\ processed + lost = d
       /\ seq_initialized => \E j \in 1..d : expected_seq_num = wire[j].seq_num + 1
       /\ (lost = 0 /\ d = 0) => ~seq_initialized /\ seq_num_gaps = 0
       /\ (lost = 0 /\ d > 0) =>
            /\ seq_initialized /\ expected_seq_num = wire[d].seq_num + 1
            /\ seq_num_gaps = wire[d].seq_num - wire[1].seq_num - (d - 1)
  BY <1>8 DEF InOrder
<1>14. seq_initialized => \E j \in 1..d : expected_seq_num = wire'[j].seq_num + 1
  BY <1>9, <1>13, Zenon
<1> QED
  BY <1>8, <1>10, <1>11, <1>12, <1>13, <1>14, Zenon DEF InOrder

\* The oldest datagram is the next message of the run: it is not a drop, and
\* the numbers between it and the one before it are added to the gaps.
LEMMA DeliverInOrder ==
    ASSUME FeedInv, InOrder, Deliver(1), 1 \in 1..Len(net), wire' = wire
    PROVE  InOrder'
<1> DEFINE d == Len(wire) - Len(net)
           s == wire[d + 1].seq_num
<1>0. /\ Len(wire) \in Nat /\ Len(net) \in Nat /\ Len(wire) < B8 /\ B8 \in Nat
      /\ lost \in Nat /\ processed \in Nat /\ seq_num_gaps \in Nat
  BY QuietFacts
<1>1. d \in Nat /\ Arrived = d /\ d + 1 \in 1..Len(wire)
  <2>1. Len(net) <= Len(wire)
    BY Zenon DEF InOrder
  <2>2. Arrived = d
    BY DEF Arrived
  <2> QED
    BY <1>0, <2>1, <2>2
<1>2. /\ drops = 0 /\ processed + lost = d
      /\ seq_initialized => \E j \in 1..d : expected_seq_num = wire[j].seq_num + 1
      /\ (lost = 0 /\ d = 0) => ~seq_initialized /\ seq_num_gaps = 0
      /\ (lost = 0 /\ d > 0) =>
            /\ seq_initialized /\ expected_seq_num = wire[d].seq_num + 1
            /\ seq_num_gaps = wire[d].seq_num - wire[1].seq_num - (d - 1)
      /\ \A i \in 1..Len(net) : net[i] = encode(wire[d + i])
  BY <1>1, Zenon DEF InOrder
<1>3. wire[d + 1] \in MarketDataMsg /\ s \in Nat /\ s + 1 < B8
  BY <1>1, QuietFacts, Zenon
<1>4. \A j \in 1..d : wire[j].seq_num \in Nat /\ wire[j].seq_num < s
  <2>1. ASSUME NEW j \in 1..d
        PROVE  wire[j].seq_num \in Nat /\ wire[j].seq_num < s
    <3>1. j \in 1..Len(wire) /\ j < d + 1
      BY <1>0, <1>1
    <3> QED
      BY <1>1, <3>1, QuietFacts, Zenon
  <2> QED
    BY <2>1
<1>5. decode(net[1]).seq_num = s
  BY <1>2, <1>3, WireRoundTrip, Zenon
<1>6. /\ Track(s) /\ lost' = lost
      /\ net' = [k \in 1..(Len(net) - 1) |-> IF k < 1 THEN net[k] ELSE net[k + 1]]
  BY <1>5 DEF Deliver, Process
<1>7. /\ Len(net') = Len(net) - 1
      /\ \A i \in 1..(Len(net) - 1) : net'[i] = net[i + 1]
  <2>1. Len(net) - 1 \in Nat
    BY <1>0
  <2> QED
    BY <1>6, <2>1
<1>8. Arrived' = d + 1 /\ Len(net') <= Len(wire')
  BY <1>0, <1>1, <1>7 DEF Arrived
<1>9. ASSUME NEW i \in 1..Len(net')
      PROVE  net'[i] = encode(wire[(d + 1) + i])
  <2>1. i + 1 \in 1..Len(net) /\ d + (i + 1) = (d + 1) + i /\ i \in 1..(Len(net) - 1)
    BY <1>0, <1>1, <1>7
  <2>2. net'[i] = net[i + 1] /\ net[i + 1] = encode(wire[d + (i + 1)])
    BY <1>2, <1>7, <2>1, Zenon
  <2> QED
    BY <2>1, <2>2
<1> HIDE DEF s
<1>10. SeqModulus = B8 /\ TrackerTypeOK
  BY FeedAssumption DEF FeedInv, NetworkType
<1>11. seq_initialized => expected_seq_num \in Nat /\ s >= expected_seq_num
  <2>1. ASSUME seq_initialized
        PROVE  expected_seq_num \in Nat /\ s >= expected_seq_num
    <3>1. PICK j \in 1..d : expected_seq_num = wire[j].seq_num + 1
      BY <1>2, <2>1, Zenon
    <3>2. PICK x \in Nat : x = wire[j].seq_num /\ x < s
      BY <1>4, Zenon
    <3> QED
      BY <1>3, <3>1, <3>2
  <2> QED
    BY <2>1
<1>12. /\ drops' = drops /\ seq_initialized' /\ expected_seq_num' = Add(s, 1)
       /\ processed' = Add(processed, 1)
       /\ seq_num_gaps' = Add(seq_num_gaps,
                              IF seq_initialized THEN s - expected_seq_num ELSE 0)
  BY <1>6, <1>11 DEF Track, Accept
<1>13. \A a, b \in Nat : a + b < B8 => Add(a, b) = a + b
  <2>1. ASSUME NEW a \in Nat, NEW b \in Nat, a + b < B8
        PROVE  Add(a, b) = a + b
    <3>1. a \in Uint64 /\ b \in Uint64
      BY <1>0, <1>10, <2>1 DEF Uint64
    <3> QED
      BY <1>10, <2>1, <3>1, AddFacts
  <2> QED
    BY <2>1
<1> HIDE DEF d
<1>14. processed' = processed + 1 /\ expected_seq_num' = s + 1
  <2>1. processed + 1 < B8
    BY <1>0, <1>1, <1>2
  <2> QED
    BY <1>0, <1>3, <1>12, <1>13, <2>1
<1>15. \E j \in 1..(d + 1) : expected_seq_num' = wire[j].seq_num + 1
  BY <1>1, <1>14 DEF s
<1>16. ASSUME lost = 0
       PROVE  seq_num_gaps' = s - wire[1].seq_num - d
  <2>1. CASE d = 0
    <3>1. seq_num_gaps' = Add(0, 0)
      BY <1>2, <1>12, <1>16, <2>1
    <3>2. Add(0, 0) = 0 + 0
      <4>1. 0 \in Nat /\ 0 + 0 < B8
        BY <1>0, <1>3
      <4> QED
        BY <1>13, <4>1
    <3>3. wire[1].seq_num = s
      BY <2>1 DEF s
    <3> QED
      BY <1>3, <2>1, <3>1, <3>2, <3>3
  <2>2. CASE d > 0
    <3>0. d \in Nat /\ s \in Nat /\ s + 1 < B8 /\ B8 \in Nat
      BY <1>0, <1>1, <1>3
    <3>1. wire[d].seq_num \in Nat /\ wire[d].seq_num < s /\ wire[1].seq_num \in Nat
      <4>1. d \in 1..d /\ 1 \in 1..d
        BY <2>2, <3>0
      <4> QED
        BY <1>4, <4>1
    <3>2. /\ seq_initialized /\ expected_seq_num = wire[d].seq_num + 1
          /\ seq_num_gaps = wire[d].seq_num - wire[1].seq_num - (d - 1)
      BY <1>2, <1>16, <2>2
    <3>3. PICK a \in Nat, b \in Nat, e \in Nat, g \in Nat :
            /\ a = wire[d].seq_num /\ b = wire[1].seq_num
            /\ e = expected_seq_num /\ g = seq_num_gaps
      BY <1>0, <1>11, <3>1, <3>2
    <3>4. a < s /\ e = a + 1 /\ g = a - b - (d - 1)
      BY <3>1, <3>2, <3>3
    <3>5. s - e \in Nat /\ g + (s - e) = s - b - d /\ g + (s - e) < B8
      BY <2>2, <3>0, <3>4
    <3>6. seq_num_gaps' = Add(g, s - e)
      BY <1>12, <3>2, <3>3
    <3>7. Add(g, s - e) = g + (s - e)
      BY <1>13, <3>5
    <3> QED
      BY <3>3, <3>5, <3>6, <3>7
  <2> QED
    BY <1>1, <2>1, <2>2
<1>17. processed' + lost' = d + 1 /\ drops' = 0 /\ d + 1 > 0 /\ (d + 1) - 1 = d
  <2>1. /\ d \in Nat /\ processed \in Nat /\ lost \in Nat /\ processed + lost = d
        /\ processed' = processed + 1 /\ lost' = lost /\ drops' = drops /\ drops = 0
    BY <1>0, <1>1, <1>2, <1>6, <1>12, <1>14, Zenon
  <2> QED
    BY <2>1
<1>18. \A i \in 1..Len(net') : net'[i] = encode(wire'[Arrived' + i])
  BY <1>8, <1>9, Zenon
<1>19. drops' = 0 /\ processed' + lost' = Arrived' /\ Arrived' # 0
  BY <1>1, <1>8, <1>17
<1>20. \E j \in 1..Arrived' : expected_seq_num' = wire'[j].seq_num + 1
  BY <1>8, <1>15, Zenon
<1>21. seq_initialized' /\ expected_seq_num' = wire'[Arrived'].seq_num + 1
  BY <1>8, <1>12, <1>14, Zenon DEF s
<1>22. lost' = 0 =>
         seq_num_gaps' = wire'[Arrived'].seq_num - wire'[1].seq_num - (Arrived' - 1)
  BY <1>6, <1>8, <1>16, <1>17, Zenon DEF s
<1> QED
  BY <1>8, <1>18, <1>19, <1>20, <1>21, <1>22, Zenon DEF InOrder

LEMMA LoseInOrder ==
    ASSUME FeedInv, InOrder, Lose, wire' = wire
    PROVE  InOrder'
<1> DEFINE d == Len(wire) - Len(net)
<1>0. /\ Len(wire) \in Nat /\ Len(net) \in Nat /\ net \in Seq({encode(m) : m \in handed})
      /\ lost \in Nat /\ processed \in Nat
  BY QuietFacts
<1>1. d \in Nat /\ Arrived = d
  BY <1>0 DEF InOrder, Arrived
<1>2. /\ net # <<>> /\ net' = Tail(net) /\ lost' = lost + 1
      /\ UNCHANGED <<drops, processed, seq_initialized, expected_seq_num>>
  BY DEF Lose, trackerVars
<1>3. /\ Len(net) \in Nat \ {0} /\ Len(net') = Len(net) - 1
      /\ \A i \in 1..Len(net') : net'[i] = net[i + 1]
  BY <1>0, <1>2, HeadTailPlaces
<1>4. Arrived' = d + 1 /\ Len(net') <= Len(wire')
  <2>1. Len(net) <= Len(wire) /\ wire' = wire
    BY Zenon DEF InOrder
  <2> QED
    BY <1>0, <1>1, <1>3, <2>1 DEF Arrived
<1>5. ASSUME NEW i \in 1..Len(net')
      PROVE  net'[i] = encode(wire[(d + 1) + i])
  <2>1. i + 1 \in 1..Len(net) /\ d + (i + 1) = (d + 1) + i
    BY <1>0, <1>1, <1>3
  <2>2. net'[i] = net[i + 1] /\ net[i + 1] = encode(wire[d + (i + 1)])
    BY <1>1, <1>3, <2>1, Zenon DEF InOrder
  <2> QED
    BY <2>1, <2>2
<1>6. drops = 0 /\ processed + lost = d
  BY <1>1, Zenon DEF InOrder
<1>7. seq_initialized => \E j \in 1..d : expected_seq_num = wire[j].seq_num + 1
  BY <1>1 DEF InOrder
<1> HIDE DEF d
<1>8. drops' = 0 /\ processed' + lost' = d + 1 /\ lost' # 0
  BY <1>0, <1>1, <1>2, <1>6
<1>9. seq_initialized' => \E j \in 1..(d + 1) : expected_seq_num' = wire[j].seq_num + 1
  BY <1>1, <1>2, <1>7
<1> QED
  BY <1>4, <1>5, <1>8, <1>9, Zenon DEF InOrder

LEMMA QuietStep ==
    ASSUME FeedInv, Next
    PROVE  Quiet'
<1> SUFFICES ASSUME FirstRun' PROVE InOrder'
  BY DEF Quiet
<1>0. /\ GeneratorType /\ SlotsUsed /\ Prefix /\ Fresh /\ Quiet
      /\ calls \in Nat /\ disordered \in Nat
  BY DEF FeedInv, GeneratorType, NetworkType
<1>1. /\ calls' = 1 /\ disordered' = 0
      /\ pc' \in {"while", "fill", "slot", "send"} \/ (pc' = "idle" /\ wire' # <<>>)
  BY DEF FirstRun
<1>2. ASSUME UNCHANGED <<wire, net, trackerVars, lost>>, InOrder
      PROVE  InOrder'
  BY <1>2 DEF InOrder, Arrived, trackerVars
<1>3. CASE Working /\ UNCHANGED <<trackerVars, feedVars>>
  <2>0. calls = 1 /\ disordered = 0 /\ lost' = lost /\ UNCHANGED trackerVars
    BY <1>1, <1>3 DEF Working, feedVars
  <2>1. ASSUME pc \in {"while", "fill", "slot", "send"}
        PROVE  InOrder
    BY <1>0, <2>0, <2>1 DEF Quiet, FirstRun
  <2>2. CASE While \/ FillGap \/ FillMessage \/ Filled \/ SlotsDone
    BY <1>2, <2>0, <2>1, <2>2, Zenon DEF While, FillGap, FillMessage, Filled, SlotsDone, history
  <2>3. CASE SlotMessage
    <3>1. InOrder
      BY <2>1, <2>3 DEF SlotMessage
    <3>2. CASE send_message(NextMessage)
      <4>1. NextMessage \in Quote /\ <<NextMessage>> \in Seq(Quote)
        BY <1>0, NextQuote
      <4>2. wire' = wire \o <<NextMessage>>
        <5>1. wire \in Seq(Quote)
          BY <1>0 DEF GeneratorType
        <5> QED
          BY <3>2, <4>1, <5>1 DEF send_message
      <4> QED
        BY <2>0, <3>1, <3>2, <4>1, <4>2, HandInOrder, Zenon DEF send_message
    <3>3. CASE UNCHANGED <<wire, net>>
      BY <1>2, <2>0, <3>1, <3>3
    <3> QED
      BY <2>3, <3>2, <3>3 DEF SlotMessage
  <2>4. ASSUME NEW n \in 1..burst_size, SendSome(n)
        PROVE  InOrder'
    <3> DEFINE taken == SubSeq(batch, sent + 1, sent + n)
    <3>1. sent \in Nat /\ n \in Nat /\ sent + n <= Len(batch) /\ batch \in Seq(Quote)
      BY <1>0, <2>4, GeneratorAssumption DEF SendSome, GeneratorType
    <3>2. taken \in Seq(Quote)
      BY <3>1, SlicePlaces
    <3>3. wire' = wire \o taken /\ Hand(taken) /\ InOrder
      BY <2>1, <2>4 DEF SendSome
    <3> HIDE DEF taken
    <3> QED
      BY <2>0, <3>2, <3>3, HandInOrder, Zenon
  <2>5. CASE SendAgain \/ SendFails \/ OneSent
    <3>1. wire' = wire
      BY <2>5, Zenon DEF SendAgain, SendFails, OneSent, history
    <3>2. CASE pc = "one"
      <4>1. wire = <<>>
        BY <1>0, <2>0, <3>2 DEF Fresh
      <4>2. pc' \in {"one", "idle"}
        BY <2>5, <3>2 DEF SendAgain, Retry, SendFails, OneSent, Return
      <4> QED
        BY <1>1, <3>1, <4>1, <4>2
    <3>3. CASE pc = "send"
      <4>1. net' = net
        BY <2>5, <3>3, Zenon DEF SendAgain, SendFails, OneSent
      <4> QED
        BY <1>2, <2>0, <2>1, <3>1, <3>3, <4>1
    <3> QED
      BY <2>5, <3>2, <3>3, Zenon DEF SendAgain, SendFails, OneSent
  <2> QED
    BY <1>3, <2>2, <2>3, <2>4, <2>5 DEF Working
<1>4. CASE Calls /\ UNCHANGED <<trackerVars, feedVars>>
  <2>0. disordered = 0 /\ lost' = lost /\ UNCHANGED trackerVars /\ net' = net
    BY <1>1, <1>4, Zenon DEF feedVars, Calls, Open, Run, SendOneCall
  <2>1. CASE Open
    <3>1. UNCHANGED <<wire, pc, calls>>
      BY <2>1 DEF Open, history
    <3>2. InOrder
      BY <1>0, <1>1, <2>0, <3>1 DEF Quiet, FirstRun
    <3> QED
      BY <1>2, <2>0, <3>1, <3>2
  <2>2. ASSUME calls' = calls + 1
        PROVE  /\ net = <<>> /\ wire = <<>> /\ lost = 0
               /\ ~seq_initialized /\ processed = 0 /\ drops = 0 /\ seq_num_gaps = 0
    <3>1. calls = 0
      BY <1>0, <1>1, <2>2
    <3> QED
      BY <1>0, <3>1 DEF Fresh
  <2>3. ASSUME NEW seed \in Seeds, Run(seed)
        PROVE  InOrder'
    <3>1. /\ net = <<>> /\ wire = <<>> /\ lost = 0
          /\ ~seq_initialized /\ processed = 0 /\ drops = 0 /\ seq_num_gaps = 0
      BY <2>2, <2>3 DEF Run
    <3>2. CASE fd_
      <4>1. wire' = <<>>
        BY <2>3, <3>2 DEF Run
      <4>2. Len(wire') = 0 /\ Len(net') = 0 /\ Arrived' = 0
        BY <2>0, <3>1, <4>1 DEF Arrived
      <4>3. lost' = 0 /\ ~seq_initialized' /\ processed' = 0 /\ drops' = 0 /\ seq_num_gaps' = 0
        BY <2>0, <3>1 DEF trackerVars
      <4>4. 0 <= 0 /\ 0 + 0 = 0 /\ ~(0 > 0) /\ \A i \in 1..0 : FALSE
        OBVIOUS
      <4> QED
        BY <4>2, <4>3, <4>4, Zenon DEF InOrder
    <3>3. CASE ~fd_
      BY <1>1, <2>3, <3>1, <3>3 DEF Run, Return, history
    <3> QED
      BY <3>2, <3>3
  <2>4. ASSUME NEW msg \in Samples, SendOneCall(msg)
        PROVE  InOrder'
    <3>1. wire = <<>>
      BY <2>2, <2>4 DEF SendOneCall
    <3> QED
      BY <1>1, <2>4, <3>1 DEF SendOneCall, Goto, Return, history
  <2> QED
    BY <1>4, <2>1, <2>3, <2>4 DEF Calls
<1>5. CASE Network
  <2>1. UNCHANGED <<wire, pc, calls>>
    BY <1>5 DEF Network, history
  <2>2. ASSUME disordered = 0
        PROVE  InOrder
    BY <1>0, <1>1, <2>1, <2>2 DEF Quiet, FirstRun
  <2>3. ASSUME NEW i \in 1..Len(net), Deliver(i)
        PROVE  InOrder'
    <3>1. i = 1 /\ disordered = 0
      BY <1>0, <1>1, <2>3 DEF Deliver
    <3> QED
      BY <2>1, <2>2, <2>3, <3>1, DeliverInOrder
  <2>4. CASE Duplicate
    BY <1>0, <1>1, <2>4 DEF Duplicate
  <2>5. CASE Lose
    <3>1. disordered = 0
      BY <1>1, <2>5 DEF Lose
    <3> QED
      BY <2>1, <2>2, <2>5, <3>1, LoseInOrder
  <2> QED
    BY <1>5, <2>3, <2>4, <2>5 DEF Network
<1> QED
  BY <1>3, <1>4, <1>5 DEF Next

-----------------------------------------------------------------------------
(* The results                                                             *)

LEMMA FeedInitial == Init => FeedInv
<1> SUFFICES ASSUME Init PROVE FeedInv
  OBVIOUS
<1> USE DEF Init, GeneratorInit, TrackerInit
<1>0. holes = {} /\ IsFiniteSet({}) /\ Cardinality({}) = 0 /\ Len(made) = 0
  BY FS_EmptySet
<1>1. GeneratorType
  BY <1>0, GeneratorAssumption DEF GeneratorType
<1>2. SlotsUsed
  <2>1. HoleLength * 0 = 0 /\ count \in Nat
    BY HolesAreLong, GeneratorAssumption
  <2> QED
    BY <1>0, <2>1 DEF SlotsUsed
<1>3. Numbers /\ Prefix
  BY DEF Numbers, Prefix
<1>4. NetworkType
  <2>1. 0 \in Uint64
    BY SeqAssumption DEF Uint64
  <2> QED
    BY <2>1, Zenon DEF NetworkType, TrackerTypeOK
<1>5. Carried
  BY DEF Carried
<1>6. Fresh /\ Quiet
  BY DEF Fresh, Quiet, FirstRun
<1> QED
  BY <1>1, <1>2, <1>3, <1>4, <1>5, <1>6 DEF FeedInv

LEMMA FeedStep == FeedInv /\ [Next]_vars => FeedInv'
<1> SUFFICES ASSUME FeedInv, [Next]_vars PROVE FeedInv'
  OBVIOUS
<1>0. GeneratorType /\ SlotsUsed /\ Numbers /\ Prefix /\ NetworkType /\ Carried /\ Fresh
  BY DEF FeedInv
<1>1. CASE Next
  <2>1. GeneratorType' /\ SlotsUsed' /\ Numbers' /\ Prefix'
    BY <1>0, <1>1, GeneratorTypeStep, SlotsStep, NumbersStep, PrefixStep
  <2>2. NetworkType' /\ Carried' /\ Fresh' /\ Quiet'
    BY <1>0, <1>1, NetworkTypeStep, CarriedStep, FreshStep, QuietStep
  <2> QED
    BY <2>1, <2>2 DEF FeedInv
<1>2. CASE UNCHANGED vars
  <2>1. GeneratorType' /\ SlotsUsed' /\ Numbers'
    BY <1>0, <1>2, Zenon DEF vars, generatorVars, runVars, sending, history,
                      GeneratorType, SlotsUsed, Numbers, HolesBefore
  <2>2. Prefix' /\ Carried'
    BY <1>0, <1>2, Zenon DEF vars, generatorVars, feedVars, runVars, sending, history,
                             Prefix, Carried
  <2>3. NetworkType' /\ Fresh'
    BY <1>0, <1>2, Zenon DEF vars, generatorVars, trackerVars, feedVars, history,
                      NetworkType, TrackerTypeOK, Fresh
  <2>4. Quiet'
    BY <1>2 DEF vars, generatorVars, trackerVars, feedVars, history,
                FeedInv, Quiet, FirstRun, InOrder, Arrived
  <2> QED
    BY <2>1, <2>2, <2>3, <2>4 DEF FeedInv
<1> QED
  BY <1>1, <1>2

\* The inductive invariant holds in every run of the feed.
THEOREM FeedInvariant == Spec => []FeedInv
  BY FeedInitial, FeedStep, PTL DEF Spec

\* For every number of slots, burst size, gap parameters and random seeds, and
\* through every partial send, retry and failure, what the kernel took is what
\* was made so far, in order and once each.
THEOREM SentInOrder == Spec => []WireInOrder
<1>1. FeedInv => WireInOrder
  <2> SUFFICES ASSUME FeedInv PROVE WireInOrder
    OBVIOUS
  <2> DEFINE unsent == IF version = 2 THEN Len(batch) - sent ELSE Len(made) - Len(wire)
  <2>0. GeneratorType /\ Numbers /\ Prefix
    BY DEF FeedInv
  <2>1. /\ made \in Seq(Quote) /\ wire \in Seq(Quote) /\ version \in {1, 2}
        /\ Len(made) \in Nat /\ Len(wire) \in Nat /\ Len(batch) \in Nat /\ sent \in Nat
    BY <2>0 DEF GeneratorType
  <2>2. Len(wire) <= Len(made) /\ \A i \in 1..Len(wire) : wire[i] = made[i]
    BY <2>0 DEF Prefix
  <2>3. Len(made) - unsent = Len(wire) /\ (version = 1 /\ pc = "slot" => unsent = 0)
    BY <2>0, <2>1 DEF Prefix
  <2>4. wire = SubSeq(made, 1, Len(wire))
    <3>1. /\ SubSeq(made, 0 + 1, 0 + Len(wire)) \in Seq(Quote)
          /\ Len(SubSeq(made, 0 + 1, 0 + Len(wire))) = Len(wire)
          /\ \A i \in 1..Len(wire) : SubSeq(made, 0 + 1, 0 + Len(wire))[i] = made[0 + i]
      <4>1. 0 \in Nat /\ 0 + Len(wire) <= Len(made)
        BY <2>1, <2>2
      <4> QED
        BY <2>1, <4>1, SlicePlaces
    <3>2. /\ 0 + 1 = 1 /\ 0 + Len(wire) = Len(wire) /\ \A i \in 1..Len(wire) : 0 + i = i
      BY <2>1
    <3>3. /\ SubSeq(made, 1, Len(wire)) \in Seq(Quote)
          /\ Len(SubSeq(made, 1, Len(wire))) = Len(wire)
          /\ \A i \in 1..Len(wire) : SubSeq(made, 1, Len(wire))[i] = wire[i]
      BY <2>2, <3>1, <3>2
    <3> QED
      BY <2>1, <3>3, SameSeq
  <2>5. \A k \in 1..(Len(made) - 1) : made[k].seq_num < made[k + 1].seq_num
    <3>1. ASSUME NEW k \in 1..(Len(made) - 1)
          PROVE  made[k].seq_num < made[k + 1].seq_num
      <4>1. k \in 1..Len(made) /\ k + 1 \in 1..Len(made) /\ k < k + 1
        BY <2>1
      <4> QED
        BY <2>0, <4>1 DEF Numbers
    <3> QED
      BY <3>1
  <2> HIDE DEF unsent
  <2>6. /\ wire = SubSeq(made, 1, Len(made) - unsent)
        /\ version = 1 /\ pc = "slot" => unsent = 0
    BY <2>3, <2>4
  <2> QED
    BY <2>5, <2>6 DEF WireInOrder, unsent
<1> QED
  BY FeedInvariant, <1>1, PTL

\* Whatever the network loses, repeats and reorders, a message the engine
\* processed has the values of one the kernel took, and one that run() made is
\* a sane quote.
THEOREM ProcessedIsMade == Spec => []ProcessedAsMade
<1>1. FeedInv => ProcessedAsMade
  <2> SUFFICES ASSUME FeedInv, NEW k \in 1..Len(book)
               PROVE  book[k] \in handed /\ (book[k] \in Samples \/ sanityCheck(book[k]))
    BY DEF ProcessedAsMade
  <2>1. book \in Seq(handed) /\ handed \subseteq Samples \cup Quote
    BY DEF FeedInv, Carried
  <2>2. book[k] \in handed
    BY <2>1
  <2> QED
    BY <2>1, <2>2, Zenon DEF Quote
<1> QED
  BY FeedInvariant, <1>1, PTL

\* When run() returns true all its slots are used and all its messages sent.
THEOREM RunIsComplete == Spec => SuccessIsComplete
<1>1. FeedInv /\ [Next]_vars =>
        [(pc \in {"while", "slot"} /\ pc' = "idle" /\ result') =>
           wire = made /\ Len(wire) + Cardinality(holes) = count]_generatorVars
  <2> SUFFICES ASSUME FeedInv, [Next]_vars, ~UNCHANGED generatorVars,
                      pc \in {"while", "slot"}, pc' = "idle", result'
               PROVE  wire = made /\ Len(wire) + Cardinality(holes) = count
    BY Zenon
  <2>0. GeneratorType /\ SlotsUsed /\ Prefix
    BY DEF FeedInv
  <2>1. /\ made \in Seq(Quote) /\ wire \in Seq(Quote) /\ produced \in Nat /\ slots \in Nat
        /\ Len(made) \in Nat /\ count \in Nat /\ Len(batch) \in Nat /\ sent \in Nat
    BY <2>0, GeneratorAssumption DEF GeneratorType
  <2>2. \/ While /\ ~(produced < count)
        \/ SlotsDone
    BY Zenon DEF Next, Working, Calls, Network, vars, While, FillGap, FillMessage, Filled,
           SlotMessage, SlotFails, SendSome, SendAgain, SendFails, OneSent, Open, Run,
           SendOneCall, Goto, Return
  <2>3. produced = count
    <3>1. produced + slots <= count /\ (pc = "slot" => produced + slots = count)
      BY <2>0 DEF SlotsUsed
    <3>2. \/ ~(produced < count)
          \/ pc = "slot" /\ slots = 0
      BY <2>2, Zenon DEF SlotsDone
    <3> QED
      BY <2>1, <3>1, <3>2
  <2>4. Len(wire) = Len(made) /\ \A i \in 1..Len(wire) : wire[i] = made[i]
    <3>1. CASE pc = "slot"
      BY <2>0, <3>1 DEF Prefix
    <3>2. CASE pc = "while"
      <4>1. version = 2
        BY <2>0, <3>2 DEF GeneratorType
      <4>2. Len(wire) = (Len(made) - Len(batch)) + sent /\ sent = Len(batch)
        BY <2>0, <3>2, <4>1 DEF Prefix
      <4>3. Len(wire) = Len(made)
        BY <2>1, <4>2
      <4> QED
        BY <2>0, <4>3, Zenon DEF Prefix
    <3> QED
      BY <3>1, <3>2
  <2>5. wire = made
    BY <2>1, <2>4, SameSeq
  <2> QED
    BY <2>0, <2>3, <2>5 DEF SlotsUsed
<1> QED
  BY FeedInvariant, <1>1, PTL DEF Spec, SuccessIsComplete

\* The holes below a number and those between two.
LEMMA HolesBetween ==
    ASSUME IsFiniteSet(holes), holes \subseteq Nat,
           NEW a \in Nat, NEW b \in Nat, a <= b, a \notin holes
    PROVE  Cardinality({h \in holes : a < h /\ h < b})
             = Cardinality(HolesBefore(b)) - Cardinality(HolesBefore(a))
<1>0. \A h \in holes : (h < a => h < b) /\ (a < h <=> ~(h < a))
  OBVIOUS
<1>1. IsFiniteSet(HolesBefore(b)) /\ HolesBefore(a) \subseteq HolesBefore(b)
  <2>1. HolesBefore(b) \subseteq holes
    BY DEF HolesBefore
  <2>2. HolesBefore(a) \subseteq HolesBefore(b)
    BY <1>0, Zenon DEF HolesBefore
  <2> QED
    BY <2>1, <2>2, FS_Subset
<1>2. {h \in holes : a < h /\ h < b} = HolesBefore(b) \ HolesBefore(a)
  BY <1>0, Zenon DEF HolesBefore
<1>3. HolesBefore(b) \cap HolesBefore(a) = HolesBefore(a)
  BY <1>1
<1> QED
  BY <1>1, <1>2, <1>3, FS_Difference

\* One run over a network that keeps the order: the engine drops nothing, and
\* its gap count is the length of the holes the generator made.
THEOREM QuietFeedIsExact == Spec => []QuietFeedExact
<1>1. FeedInv => QuietFeedExact
  <2> SUFFICES ASSUME FeedInv, calls = 1, disordered = 0, pc # "one", wire # <<>>
               PROVE  /\ drops = 0
                      /\ processed + Len(net) + lost = Len(wire)
                      /\ (net = <<>> /\ lost = 0) =>
                           seq_num_gaps = Cardinality(InnerHoles) * (gap_span + 1)
    BY DEF QuietFeedExact
  <2>0. GeneratorType /\ Numbers /\ Prefix /\ Quiet
    BY DEF FeedInv
  <2>1. InOrder
    BY <2>0 DEF Quiet, FirstRun, GeneratorType
  <2>2. /\ Len(wire) \in Nat \ {0} /\ Len(net) \in Nat /\ lost \in Nat /\ processed \in Nat
    BY QuietFacts
  <2>3. drops = 0 /\ processed + lost = Len(wire) - Len(net)
    BY <2>1 DEF InOrder, Arrived
  <2>4. ASSUME net = <<>>, lost = 0
        PROVE  seq_num_gaps = Cardinality(InnerHoles) * (gap_span + 1)
    <3> DEFINE n == Len(wire)
               a == wire[1].seq_num
               b == wire[n].seq_num
    <3>1. n \in Nat \ {0} /\ 1 \in 1..n /\ n \in 1..n /\ Arrived = n
      BY <2>2, <2>4 DEF Arrived
    <3>2. seq_num_gaps = b - a - (n - 1)
      <4>1. n > 0
        BY <3>1
      <4> QED
        BY <2>1, <2>4, <3>1, <4>1, Zenon DEF InOrder
    <3>3. a \in Nat /\ b \in Nat
      BY <3>1, QuietFacts
    <3>4. \A k \in 1..n : a <= wire[k].seq_num /\ wire[k].seq_num <= b
      <4>1. ASSUME NEW k \in 1..n
            PROVE  a <= wire[k].seq_num /\ wire[k].seq_num <= b
        <5>1. /\ wire[k].seq_num \in Nat /\ (1 < k => a < wire[k].seq_num)
              /\ (k < n => wire[k].seq_num < b)
          BY <3>1, QuietFacts
        <5>2. (1 < k \/ k = 1) /\ (k < n \/ k = n)
          BY <3>1
        <5>3. \A x, y \in Nat : x < y => x <= y
          OBVIOUS
        <5>4. a <= a /\ b <= b
          BY <3>3
        <5> QED
          BY <3>3, <5>1, <5>2, <5>3, <5>4, Zenon
      <4> QED
        BY <4>1
    <3>5. Len(wire) <= Len(made) /\ wire[1] = made[1] /\ wire[n] = made[n]
      BY <2>0, <3>1 DEF Prefix
    <3>6. 1 \in 1..Len(made) /\ n \in 1..Len(made)
      BY <2>0, <3>1, <3>5 DEF GeneratorType
    <3>7. /\ a = (1 - 1) + HoleLength * Cardinality(HolesBefore(a)) /\ a \notin holes
          /\ b = (n - 1) + HoleLength * Cardinality(HolesBefore(b))
      BY <2>0, <3>5, <3>6 DEF Numbers
    <3>8. a <= b
      BY <3>1, <3>4
    <3>9. InnerHoles = {h \in holes : a < h /\ h < b}
      <4>1. a \in SeqNums /\ b \in SeqNums
        BY <3>1 DEF SeqNums
      <4>2. \A x \in SeqNums : x \in Nat /\ a <= x /\ x <= b
        BY <3>4, QuietFacts DEF SeqNums
      <4>3. holes \subseteq Nat
        BY <2>0 DEF GeneratorType
      <4> HIDE DEF a, b
      <4>4. ASSUME NEW h \in holes
            PROVE  (\E x, y \in SeqNums : x < h /\ h < y) <=> (a < h /\ h < b)
        BY <3>3, <4>1, <4>2, <4>3
      <4> QED
        BY <4>4, Zenon DEF InnerHoles
    <3>10. /\ Cardinality(HolesBefore(a)) \in Nat /\ Cardinality(HolesBefore(b)) \in Nat
      <4>1. IsFiniteSet(holes) /\ HolesBefore(a) \subseteq holes /\ HolesBefore(b) \subseteq holes
        BY <2>0 DEF GeneratorType, HolesBefore
      <4> QED
        BY <4>1, FS_Subset, FS_CardinalityType
    <3> HIDE DEF a, b, n
    <3>11. Cardinality(InnerHoles)
             = Cardinality(HolesBefore(b)) - Cardinality(HolesBefore(a))
      BY <2>0, <3>3, <3>7, <3>8, <3>9, HolesBetween DEF GeneratorType
    <3>12. PICK x \in Nat, y \in Nat, g \in Nat :
             /\ x = Cardinality(HolesBefore(a)) /\ y = Cardinality(HolesBefore(b))
             /\ g = HoleLength
      BY <3>10, HolesAreLong
    <3>13. a = g * x /\ b = (n - 1) + g * y
      BY <3>3, <3>7, <3>12
    <3>14. b - a - (n - 1) = (y - x) * g
      <4>1. PICK p \in Nat, q \in Nat : p = g * x /\ q = g * y
        OBVIOUS
      <4>2. (y - x) * g = q - p
        BY <4>1
      <4>3. a = p /\ b = (n - 1) + q
        BY <3>13, <4>1
      <4> QED
        BY <3>1, <4>2, <4>3
    <3> QED
      BY <3>2, <3>11, <3>12, <3>14 DEF HoleLength
  <2> QED
    BY <2>2, <2>3, <2>4
<1> QED
  BY FeedInvariant, <1>1, PTL
=============================================================================
