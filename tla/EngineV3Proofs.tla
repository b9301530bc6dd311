--------------------------- MODULE EngineV3Proofs ---------------------------
(***************************************************************************)
(* Engine v3 loses no packet buffer and no packet, for any pool, burst and *)
(* number of packets; its parser is safe and complete for every packet,    *)
(* not only the lengths TLC enumerates; and the sequence tracking that the *)
(* engines do with a decoded frame (SeqHistory) counts what it is given,   *)
(* for every width of the counters and every stream of numbers.            *)
(***************************************************************************)
EXTENDS EngineV3, UdpPayload, SeqHistory, Basics, FiniteSetTheorems

\* A sequence has no more elements than places, ...
LEMMA ElemsCount ==
    ASSUME NEW S, NEW s \in Seq(S)
    PROVE  /\ IsFiniteSet(Elems(s)) /\ Cardinality(Elems(s)) \in Nat
           /\ Cardinality(Elems(s)) <= Len(s)
<1>1. Len(s) \in Nat /\ s \in [1..Len(s) -> Elems(s)]
  BY DEF Elems
<1>2. IsFiniteSet(1..Len(s)) /\ Cardinality(1..Len(s)) = Len(s)
  BY <1>1, FS_Interval
<1>3. s \in Surjection(1..Len(s), Elems(s))
  BY <1>1 DEF Elems, Surjection
<1>4. IsFiniteSet(Elems(s)) /\ Cardinality(Elems(s)) <= Cardinality(1..Len(s))
  BY <1>2, <1>3, FS_Surjection
<1> QED BY <1>2, <1>4, FS_CardinalityType

\* ... and two sequences with as many elements together as they have places
\* have none in common.
LEMMA ElemsApart ==
    ASSUME NEW S, NEW s \in Seq(S), NEW t \in Seq(S),
           Cardinality(Elems(s) \cup Elems(t)) = Len(s) + Len(t)
    PROVE  /\ Elems(s) \cap Elems(t) = {}
           /\ Cardinality(Elems(s)) = Len(s) /\ Cardinality(Elems(t)) = Len(t)
<1> DEFINE A == Elems(s)
           B == Elems(t)
<1>1. /\ IsFiniteSet(A) /\ Cardinality(A) \in Nat /\ Cardinality(A) <= Len(s) /\ Len(s) \in Nat
      /\ IsFiniteSet(B) /\ Cardinality(B) \in Nat /\ Cardinality(B) <= Len(t) /\ Len(t) \in Nat
      /\ Cardinality(A \cup B) = Len(s) + Len(t)
  BY ElemsCount
<1> HIDE DEF A, B
<1>2. Cardinality(A \cup B) = Cardinality(A) + Cardinality(B) - Cardinality(A \cap B)
  BY <1>1, FS_Union
<1>3. IsFiniteSet(A \cap B) /\ Cardinality(A \cap B) \in Nat
  BY <1>1, FS_Intersection, FS_CardinalityType
<1>4. Cardinality(A \cap B) = 0 /\ Cardinality(A) = Len(s) /\ Cardinality(B) = Len(t)
  BY <1>1, <1>2, <1>3
<1>5. A \cap B = {}
  BY <1>3, <1>4, FS_EmptySet
<1> QED BY <1>4, <1>5 DEF A, B

-----------------------------------------------------------------------------
(* The source: the inductive invariant.                                    *)

Data == Packet \cup {Nothing}

\* The packets of the burst that are not processed yet, and then the queue.
Todo == IF pc = "process" THEN SubSeq(packets, i, Len(packets)) ELSE <<>>
Waiting == Todo \o rxRing

SourceType ==
    /\ rxRing \in Seq(Mbufs) /\ packets \in Seq(Mbufs)
    /\ free \subseteq Mbufs /\ data \in [Mbufs -> Data]
    /\ delivered \in Seq(Data) /\ seen \in Seq(Data)
    /\ pc = "process" => i \in 1..Len(packets)

\* What open() and close() have done at each step of run().
SourceAt ==
    /\ pc = "idle" => ~mbuf_pool /\ ~is_open /\ port = "closed"
    /\ pc = "pool" => \/ ~mbuf_pool /\ ~is_open /\ port = "closed"
                      \/ mbuf_pool /\ is_open /\ port = "started"
    /\ pc = "configure" => mbuf_pool /\ ~is_open /\ port = "closed"
    /\ pc = "rxQueue" => mbuf_pool /\ ~is_open /\ port = "configured"
    /\ pc = "start" => mbuf_pool /\ ~is_open /\ port = "queue"
    /\ pc \in {"while", "poll", "process", "release", "stopPort"} =>
         mbuf_pool /\ is_open /\ port = "started"
    /\ pc = "freePool" => mbuf_pool /\ ~is_open /\ port = "closed"
    /\ pc \in {"idle", "pool", "configure", "rxQueue", "start", "while", "poll",
               "process", "release", "stopPort", "freePool"}
    /\ pc \notin {"process", "release"} => packets = <<>>
    /\ port # "started" => rxRing = <<>>

\* MbufsConserved, by the elements of the two sequences.
MbufsApart ==
    mbuf_pool =>
        /\ free \cap (Elems(rxRing) \cup Elems(packets)) = {}
        /\ free \cup (Elems(rxRing) \cup Elems(packets)) = Mbufs
        /\ Cardinality(Elems(rxRing) \cup Elems(packets)) = Len(rxRing) + Len(packets)

\* What the card delivered, del, was processed, sn, or waits, in the same order.
InOrder(del, sn, w, dat) ==
    /\ Len(del) = Len(sn) + Len(w)
    /\ \A k \in 1..Len(sn) : sn[k] = del[k]
    /\ \A k \in 1..Len(w) : dat[w[k]] = del[Len(sn) + k]

Delivered == InOrder(delivered, seen, Waiting, data)

SourceInv == SourceType /\ SourceAt /\ MbufsApart /\ Delivered

-----------------------------------------------------------------------------
(* What each step preserves.                                               *)

\* One step of the source, by the variables it leaves alone.
LEMMA SourceSteps ==
    ASSUME [Next]_vars
    PROVE  \/ Run \/ (OpenPool /\ UNCHANGED <<rxRing, data, packets, i, history>>)
           \/ (OpenConfigure /\ UNCHANGED <<rxRing, data, packets, i, history>>)
           \/ (OpenQueue /\ UNCHANGED <<rxRing, data, packets, i, history>>)
           \/ (OpenStart /\ UNCHANGED <<rxRing, data, packets, i, history>>)
           \/ While \/ Poll \/ Process \/ Release \/ StopPort \/ CloseFree
           \/ UNCHANGED <<pc, source, buffers, packets, i, history>>
           \/ \E p \in Packet : Arrive(p)
  BY DEF Next, Open, Loop, vars, source, buffers, history

LEMMA SourceTypeStep ==
    ASSUME SourceInv, [Next]_vars
    PROVE  SourceType' /\ SourceAt'
<1> USE DEF SourceType, SourceAt, stops, source, buffers, history
<1>0. SourceType /\ SourceAt
  BY DEF SourceInv
<1>1. CASE Run BY <1>0, <1>1 DEF Run
<1>2. CASE OpenPool /\ UNCHANGED <<rxRing, data, packets, i, history>>
  BY <1>0, <1>2 DEF OpenPool, OpenGoto
<1>3. CASE OpenConfigure /\ UNCHANGED <<rxRing, data, packets, i, history>>
  BY <1>0, <1>3 DEF OpenConfigure, FreePool
<1>4. CASE OpenQueue /\ UNCHANGED <<rxRing, data, packets, i, history>>
  <2>1. CASE OpenFails BY <1>0, <1>4, <2>1 DEF OpenQueue, OpenFails, FreePool
  <2>2. CASE port' = "queue" /\ pc' = "start" /\ UNCHANGED <<is_open, mbuf_pool, free>>
    <3>1. pc = "rxQueue" /\ mbuf_pool /\ ~is_open /\ rxRing = <<>> /\ packets = <<>>
      BY <1>0, <1>4 DEF OpenQueue
    <3> QED BY <1>0, <1>4, <2>2, <3>1
  <2> QED BY <1>4, <2>1, <2>2 DEF OpenQueue
<1>5. CASE OpenStart /\ UNCHANGED <<rxRing, data, packets, i, history>>
  <2>1. CASE OpenFails BY <1>0, <1>5, <2>1 DEF OpenStart, OpenFails, FreePool
  <2>2. CASE ~OpenFails BY <1>0, <1>5, <2>2 DEF OpenStart
  <2> QED BY <2>1, <2>2
<1>6. CASE While BY <1>0, <1>6 DEF While
<1>7. CASE Poll
  <2> DEFINE n == IF Len(rxRing) < burst THEN Len(rxRing) ELSE burst
  <2>1. n \in Nat /\ n <= Len(rxRing)
    BY <1>0, EngineV3Assumption
  <2>2. /\ SubSeq(rxRing, 1, n) \in Seq(Mbufs) /\ Len(SubSeq(rxRing, 1, n)) = n
        /\ SubSeq(rxRing, n + 1, Len(rxRing)) \in Seq(Mbufs)
    <3> HIDE DEF n
    <3> QED BY <1>0, <2>1, CutInTwo
  <2>3. n = 0 => SubSeq(rxRing, 1, n) = <<>>
    BY <2>2
  <2>4. /\ packets' = SubSeq(rxRing, 1, n) /\ rxRing' = SubSeq(rxRing, n + 1, Len(rxRing))
        /\ pc' = (IF n > 0 THEN "process" ELSE "while") /\ i' = 1
        /\ pc = "poll" /\ UNCHANGED <<source, free, data, history>>
    BY <1>7 DEF Poll
  <2> HIDE DEF n
  <2>5. CASE n > 0 BY <1>0, <2>1, <2>2, <2>4, <2>5
  <2>6. CASE n = 0 BY <1>0, <2>2, <2>3, <2>4, <2>6
  <2> QED BY <2>1, <2>5, <2>6
<1>8. CASE Process
  <2>1. data[packets[i]] \in Data
    BY <1>0, <1>8 DEF Process
  <2> QED BY <1>0, <1>8, <2>1 DEF Process
<1>9. CASE Release
  <2>1. Released \subseteq Mbufs
    BY <1>0 DEF Released
  <2> QED BY <1>0, <1>9, <2>1 DEF Release, AfterBurst
<1>10. CASE StopPort BY <1>0, <1>10 DEF StopPort
<1>11. CASE CloseFree BY <1>0, <1>11 DEF CloseFree, FreePool
<1>12. CASE UNCHANGED <<pc, source, buffers, packets, i, history>> BY <1>0, <1>12
<1>13. ASSUME NEW p \in Packet, Arrive(p) PROVE SourceType' /\ SourceAt'
  BY <1>0, <1>13 DEF Arrive, Data
<1> QED BY SourceSteps, <1>1, <1>2, <1>3, <1>4, <1>5, <1>6, <1>7, <1>8, <1>9, <1>10, <1>11, <1>12,
           <1>13

\* A packet that arrives takes a free buffer.
LEMMA ApartArrive ==
    ASSUME NEW m \in Mbufs, NEW r \in Seq(Mbufs), NEW p \in Seq(Mbufs), NEW f,
           m \in f, f \cap (Elems(r) \cup Elems(p)) = {}, f \cup (Elems(r) \cup Elems(p)) = Mbufs,
           Cardinality(Elems(r) \cup Elems(p)) = Len(r) + Len(p)
    PROVE  /\ (f \ {m}) \cap (Elems(Append(r, m)) \cup Elems(p)) = {}
           /\ (f \ {m}) \cup (Elems(Append(r, m)) \cup Elems(p)) = Mbufs
           /\ Cardinality(Elems(Append(r, m)) \cup Elems(p)) = Len(Append(r, m)) + Len(p)
<1> DEFINE H == Elems(r) \cup Elems(p)
<1>1. Elems(Append(r, m)) \cup Elems(p) = H \cup {m}
  BY ElemsAppend
<1>2. IsFiniteSet(Elems(r)) /\ IsFiniteSet(Elems(p))
  BY ElemsCount
<1>3. IsFiniteSet(H)
  BY <1>2, FS_Union
<1>4. m \notin H
  OBVIOUS
<1>5. Cardinality(H \cup {m}) = Cardinality(H) + 1
  BY <1>3, <1>4, FS_AddElement
<1>6. Len(Append(r, m)) = Len(r) + 1 /\ Len(r) \in Nat /\ Len(p) \in Nat
  OBVIOUS
<1>7. Cardinality(H) = Len(r) + Len(p)
  OBVIOUS
<1>8. f \cap H = {} /\ f \cup H = Mbufs
  OBVIOUS
<1> HIDE DEF H
<1>9. Cardinality(H \cup {m}) = Len(Append(r, m)) + Len(p)
  BY <1>5, <1>6, <1>7
<1>10. (f \ {m}) \cap (H \cup {m}) = {} /\ (f \ {m}) \cup (H \cup {m}) = Mbufs
  BY <1>8
<1> QED BY <1>1, <1>9, <1>10

\* A burst is released.
LEMMA ApartRelease ==
    ASSUME NEW r \in Seq(Mbufs), NEW p \in Seq(Mbufs), NEW f,
           f \cap (Elems(r) \cup Elems(p)) = {}, f \cup (Elems(r) \cup Elems(p)) = Mbufs,
           Cardinality(Elems(r) \cup Elems(p)) = Len(r) + Len(p)
    PROVE  /\ (f \cup Elems(p)) \cap Elems(r) = {}
           /\ (f \cup Elems(p)) \cup Elems(r) = Mbufs
           /\ Cardinality(Elems(r)) = Len(r)
<1>1. Elems(r) \cap Elems(p) = {} /\ Cardinality(Elems(r)) = Len(r)
  BY ElemsApart
<1> QED BY <1>1

LEMMA ApartStep ==
    ASSUME SourceInv, [Next]_vars
    PROVE  MbufsApart'
<1> DEFINE A(f, r, p) == /\ f \cap (Elems(r) \cup Elems(p)) = {}
                         /\ f \cup (Elems(r) \cup Elems(p)) = Mbufs
                         /\ Cardinality(Elems(r) \cup Elems(p)) = Len(r) + Len(p)
<1>0. SourceType /\ SourceAt /\ (mbuf_pool => A(free, rxRing, packets))
  BY DEF SourceInv, MbufsApart
<1>1. rxRing \in Seq(Mbufs) /\ packets \in Seq(Mbufs) /\ free \subseteq Mbufs
  BY <1>0 DEF SourceType
<1>2. SUFFICES ASSUME mbuf_pool' PROVE A(free', rxRing', packets')
  BY DEF MbufsApart
<1>3. A(Mbufs, <<>>, <<>>)
  <2>1. Elems(<<>>) = {} /\ Cardinality({}) = 0
    BY ElemsSmall, FS_EmptySet
  <2>2. {} \cup {} = {} /\ Mbufs \cap {} = {} /\ Mbufs \cup {} = Mbufs /\ Len(<<>>) + Len(<<>>) = 0
    OBVIOUS
  <2> QED BY <2>1, <2>2, Zenon
<1>4. Elems(<<>>) = {} /\ Len(<<>>) = 0 /\ Len(rxRing) \in Nat /\ Len(packets) \in Nat
  BY <1>1, ElemsSmall
<1>5. CASE mbuf_pool /\ UNCHANGED <<free, rxRing, packets>>
  BY <1>0, <1>5
<1>6. CASE OpenPool /\ UNCHANGED <<rxRing, data, packets, i, history>>
  <2>1. CASE UNCHANGED <<source, free>>
    BY <1>0, <1>2, <1>6, <2>1 DEF source
  <2>2. CASE pc = "pool" /\ ~mbuf_pool /\ free' = Mbufs
    <3>1. rxRing = <<>> /\ packets = <<>>
      BY <1>0, <2>2 DEF SourceAt
    <3> QED BY <1>3, <1>6, <2>2, <3>1
  <2> QED BY <1>6, <2>1, <2>2 DEF OpenPool, OpenGoto
<1>7. CASE Poll
  <2> DEFINE n == IF Len(rxRing) < burst THEN Len(rxRing) ELSE burst
             a == SubSeq(rxRing, 1, n)
             b == SubSeq(rxRing, n + 1, Len(rxRing))
  <2>1. n \in Nat /\ n <= Len(rxRing)
    BY <1>1, EngineV3Assumption
  <2>2. /\ packets' = a /\ rxRing' = b /\ free' = free /\ pc = "poll"
        /\ UNCHANGED <<mbuf_pool>>
    BY <1>7 DEF Poll, source
  <2>3. packets = <<>> /\ mbuf_pool
    BY <1>0, <2>2 DEF SourceAt
  <2> HIDE DEF n
  <2>4. /\ a \in Seq(Mbufs) /\ b \in Seq(Mbufs) /\ a \o b = rxRing
        /\ Len(a) = n /\ Len(b) = Len(rxRing) - n
    BY <1>1, <2>1, CutInTwo
  <2> HIDE DEF a, b
  <2>5. \A s, t \in Seq(Mbufs) : Elems(s \o t) = Elems(s) \cup Elems(t)
    BY ElemsConcat
  <2>6. Elems(rxRing) = Elems(b) \cup Elems(a)
    <3>1. Elems(rxRing) = Elems(a) \cup Elems(b)
      BY <2>4, <2>5, Zenon
    <3> QED BY <3>1
  <2>7. Len(b) + Len(a) = Len(rxRing) + 0
    BY <1>1, <2>1, <2>4
  <2>8. A(free, rxRing, <<>>)
    BY <1>0, <2>3
  <2>9. Elems(rxRing) \cup Elems(<<>>) = Elems(b) \cup Elems(a)
    BY <1>4, <2>6
  <2>10. A(free, b, a)
    BY <1>4, <2>7, <2>8, <2>9
  <2> QED BY <2>2, <2>10
<1>8. CASE Release
  <2>1. free' = free \cup Elems(packets) /\ packets' = <<>> /\ rxRing' = rxRing /\ mbuf_pool
    BY <1>2, <1>8 DEF Release, AfterBurst, Released, Elems, source
  <2>2. /\ (free \cup Elems(packets)) \cap Elems(rxRing) = {}
        /\ (free \cup Elems(packets)) \cup Elems(rxRing) = Mbufs
        /\ Cardinality(Elems(rxRing)) = Len(rxRing)
    BY <1>0, <1>1, <2>1, ApartRelease
  <2>3. Elems(rxRing) \cup Elems(<<>>) = Elems(rxRing) /\ Len(rxRing) + Len(<<>>) = Len(rxRing)
    BY <1>4
  <2>4. A(free \cup Elems(packets), rxRing, <<>>)
    BY <2>2, <2>3
  <2> QED BY <2>1, <2>4
<1>9. CASE StopPort
  <2>1. free' = free \cup Elems(rxRing) /\ rxRing' = <<>> /\ packets' = packets /\ mbuf_pool
        /\ pc = "stopPort"
    BY <1>2, <1>9 DEF StopPort, Elems
  <2>2. packets = <<>>
    BY <1>0, <2>1 DEF SourceAt
  <2>3. A(free \cup Elems(rxRing), <<>>, <<>>)
    BY <1>0, <1>3, <1>4, <2>1, <2>2
  <2> QED BY <2>1, <2>2, <2>3
<1>10. ASSUME NEW p \in Packet, Arrive(p) PROVE A(free', rxRing', packets')
  <2>1. PICK m \in free : free' = free \ {m} /\ rxRing' = Append(rxRing, m)
    BY <1>10 DEF Arrive
  <2>2. packets' = packets /\ mbuf_pool
    BY <1>2, <1>10 DEF Arrive, source
  <2>3. m \in Mbufs
    BY <1>1
  <2>4. A(free \ {m}, Append(rxRing, m), packets)
    BY <1>0, <1>1, <2>2, <2>3, ApartArrive
  <2> QED BY <2>1, <2>2, <2>4
<1>11. CASE Run BY <1>2, <1>5, <1>11 DEF Run, source, buffers
<1>12. CASE /\ OpenConfigure \/ OpenQueue \/ OpenStart
            /\ UNCHANGED <<rxRing, data, packets, i, history>>
  BY <1>2, <1>5, <1>12 DEF OpenConfigure, OpenQueue, OpenStart, OpenFails, FreePool
<1>13. CASE While \/ Process
  BY <1>2, <1>5, <1>13 DEF While, Process, source, buffers
<1>14. CASE CloseFree BY <1>2, <1>14 DEF CloseFree, FreePool
<1>15. CASE UNCHANGED <<pc, source, buffers, packets, i, history>>
  BY <1>2, <1>5, <1>15 DEF source, buffers
<1> HIDE DEF A
<1> QED BY SourceSteps, <1>6, <1>7, <1>8, <1>9, <1>10, <1>11, <1>12, <1>13, <1>14, <1>15

\* The first packet is processed.
LEMMA InOrderProcess ==
    ASSUME NEW del \in Seq(Data), NEW sn \in Seq(Data), NEW m \in Mbufs, NEW w \in Seq(Mbufs),
           NEW dat \in [Mbufs -> Data], InOrder(del, sn, <<m>> \o w, dat)
    PROVE  InOrder(del, Append(sn, dat[m]), w, dat)
<1> DEFINE v == <<m>> \o w
           s == Append(sn, dat[m])
<1>1. /\ Len(v) = 1 + Len(w) /\ v[1] = m
      /\ \A k \in 1..Len(w) : v[k + 1] = w[k]
      /\ Len(w) \in Nat /\ Len(sn) \in Nat
  OBVIOUS
<1>2. /\ Len(s) = Len(sn) + 1 /\ s[Len(sn) + 1] = dat[m]
      /\ \A k \in 1..Len(sn) : s[k] = sn[k]
  OBVIOUS
<1>3. /\ Len(del) = Len(sn) + Len(v)
      /\ \A k \in 1..Len(sn) : sn[k] = del[k]
      /\ \A k \in 1..Len(v) : dat[v[k]] = del[Len(sn) + k]
  BY DEF InOrder
<1> HIDE DEF v, s
<1>4. Len(del) = Len(s) + Len(w)
  BY <1>1, <1>2, <1>3
<1>5. ASSUME NEW k \in 1..Len(s) PROVE s[k] = del[k]
  <2>1. 1 \in 1..Len(v) /\ dat[v[1]] = del[Len(sn) + 1]
    <3>1. 1 \in 1..Len(v)
      BY <1>1
    <3> QED BY <1>3, <3>1, Zenon
  <2>2. CASE k = Len(sn) + 1
    BY <1>1, <1>2, <2>1, <2>2
  <2>3. CASE k \in 1..Len(sn)
    BY <1>2, <1>3, <2>3
  <2> QED BY <1>1, <1>2, <2>2, <2>3
<1>6. ASSUME NEW k \in 1..Len(w) PROVE dat[w[k]] = del[Len(s) + k]
  <2>1. k + 1 \in 1..Len(v) /\ Len(sn) + (k + 1) = Len(s) + k
    BY <1>1, <1>2
  <2> QED BY <1>1, <1>3, <2>1
<1> QED BY <1>4, <1>5, <1>6 DEF InOrder, s

\* A packet is put at the end of the queue.
LEMMA InOrderArrive ==
    ASSUME NEW del \in Seq(Data), NEW sn \in Seq(Data), NEW m \in Mbufs, NEW w \in Seq(Mbufs),
           NEW dat \in [Mbufs -> Data], NEW p \in Data, m \notin Elems(w),
           InOrder(del, sn, w, dat)
    PROVE  InOrder(Append(del, p), sn, Append(w, m), [dat EXCEPT ![m] = p])
<1> DEFINE d == Append(del, p)
           v == Append(w, m)
           e == [dat EXCEPT ![m] = p]
<1>1. /\ Len(v) = Len(w) + 1 /\ v[Len(w) + 1] = m
      /\ \A k \in 1..Len(w) : v[k] = w[k] /\ w[k] \in Mbufs /\ w[k] # m
      /\ Len(w) \in Nat /\ Len(sn) \in Nat /\ Len(del) \in Nat
  BY DEF Elems
<1>2. /\ Len(d) = Len(del) + 1 /\ d[Len(del) + 1] = p
      /\ \A k \in 1..Len(del) : d[k] = del[k]
  OBVIOUS
<1>3. e[m] = p /\ \A x \in Mbufs : x # m => e[x] = dat[x]
  OBVIOUS
<1>4. /\ Len(del) = Len(sn) + Len(w)
      /\ \A k \in 1..Len(sn) : sn[k] = del[k]
      /\ \A k \in 1..Len(w) : dat[w[k]] = del[Len(sn) + k]
  BY DEF InOrder
<1> HIDE DEF v, d, e
<1>5. Len(d) = Len(sn) + Len(v)
  BY <1>1, <1>2, <1>4
<1>6. ASSUME NEW k \in 1..Len(sn) PROVE sn[k] = d[k]
  BY <1>1, <1>2, <1>4
<1>7. ASSUME NEW k \in 1..Len(v) PROVE e[v[k]] = d[Len(sn) + k]
  <2>1. CASE k = Len(w) + 1
    BY <1>1, <1>2, <1>3, <1>4, <2>1
  <2>2. CASE k \in 1..Len(w)
    <3>1. Len(sn) + k \in 1..Len(del)
      BY <1>1, <1>4, <2>2
    <3>2. e[v[k]] = dat[w[k]]
      BY <1>1, <1>3, <2>2
    <3> QED BY <1>2, <1>4, <2>2, <3>1, <3>2
  <2> QED BY <1>1, <2>1, <2>2
<1> QED BY <1>5, <1>6, <1>7 DEF InOrder, d, v, e

LEMMA DeliveredStep ==
    ASSUME SourceInv, [Next]_vars
    PROVE  Delivered'
<1>0. SourceType /\ SourceAt /\ InOrder(delivered, seen, Waiting, data)
  BY DEF SourceInv, Delivered
<1>1. /\ rxRing \in Seq(Mbufs) /\ packets \in Seq(Mbufs) /\ free \subseteq Mbufs
      /\ data \in [Mbufs -> Data] /\ delivered \in Seq(Data) /\ seen \in Seq(Data)
      /\ pc = "process" => i \in 1..Len(packets)
  BY <1>0 DEF SourceType
<1>2. SUFFICES InOrder(delivered', seen', Waiting', data')
  BY DEF Delivered
<1>3. \A r \in Seq(Mbufs) : <<>> \o r = r
  OBVIOUS
<1>4. CASE /\ UNCHANGED <<rxRing, data, history>>
           /\ Todo' = Todo
  BY <1>0, <1>4 DEF Waiting, history
<1>5. CASE pc # "process" /\ pc' # "process" /\ UNCHANGED <<rxRing, data, history>>
  BY <1>4, <1>5 DEF Todo
<1>6. CASE Poll
  <2> DEFINE n == IF Len(rxRing) < burst THEN Len(rxRing) ELSE burst
             a == SubSeq(rxRing, 1, n)
             b == SubSeq(rxRing, n + 1, Len(rxRing))
  <2>1. n \in Nat /\ n <= Len(rxRing)
    BY <1>1, EngineV3Assumption
  <2>2. /\ packets' = a /\ rxRing' = b /\ UNCHANGED <<data, history>> /\ pc = "poll"
        /\ pc' = (IF n > 0 THEN "process" ELSE "while") /\ i' = 1
    BY <1>6 DEF Poll
  <2> HIDE DEF n
  <2>3. a \in Seq(Mbufs) /\ b \in Seq(Mbufs) /\ a \o b = rxRing /\ Len(a) = n
    BY <1>1, <2>1, CutInTwo
  <2> HIDE DEF a, b
  <2>4. Waiting = rxRing
    BY <1>1, <1>3, <2>2 DEF Waiting, Todo
  <2>5. Waiting' = rxRing
    <3>1. Todo' = a
      <4>1. CASE n > 0
        <5>1. SubSeq(a, 1, Len(a)) = a
          BY <2>3
        <5> QED BY <2>2, <4>1, <5>1 DEF Todo
      <4>2. CASE n = 0
        <5>1. a = <<>>
          BY <2>3, <4>2
        <5> QED BY <2>2, <4>2, <5>1 DEF Todo
      <4> QED BY <2>1, <4>1, <4>2
    <3> QED BY <2>2, <2>3, <3>1 DEF Waiting
  <2> QED BY <1>0, <2>2, <2>4, <2>5 DEF history
<1>7. CASE Process
  <2> DEFINE m == packets[i]
  <2>1. /\ pc = "process" /\ seen' = Append(seen, data[m]) /\ i' = i + 1
        /\ pc' = (IF i = Len(packets) THEN "release" ELSE "process")
        /\ UNCHANGED <<rxRing, data, packets, delivered>>
    BY <1>7 DEF Process, buffers
  <2>2. m \in Mbufs /\ i \in 1..Len(packets) /\ Len(packets) \in Nat
    BY <1>1, <2>1
  <2>3. Todo = <<m>> \o Todo' /\ Todo' \in Seq(Mbufs)
    <3>1. Todo = <<m>> \o SubSeq(packets, i + 1, Len(packets))
      BY <1>1, <2>1, <2>2, SuffixHead DEF Todo
    <3>2. SubSeq(packets, i + 1, Len(packets)) \in Seq(Mbufs)
      BY <1>1, <2>2, SuffixHead
    <3>3. Todo' = SubSeq(packets, i + 1, Len(packets))
      <4>1. CASE i = Len(packets)
        <5>1. SubSeq(packets, i + 1, Len(packets)) = <<>>
          BY <1>1, <2>2, <4>1
        <5> QED BY <2>1, <4>1, <5>1 DEF Todo
      <4>2. CASE i # Len(packets)
        BY <2>1, <4>2 DEF Todo
      <4> QED BY <4>1, <4>2
    <3> QED BY <3>1, <3>2, <3>3
  <2> HIDE DEF m
  <2>4. Waiting = <<m>> \o Waiting' /\ Waiting' \in Seq(Mbufs)
    <3>1. \A s, t, u \in Seq(Mbufs) : (s \o t) \o u = s \o (t \o u) /\ s \o t \in Seq(Mbufs)
      BY ConcatThree
    <3>2. <<m>> \in Seq(Mbufs)
      BY <2>2
    <3> QED BY <1>1, <2>1, <2>3, <3>1, <3>2, Zenon DEF Waiting
  <2>5. InOrder(delivered, Append(seen, data[m]), Waiting', data)
    <3>1. InOrder(delivered, seen, <<m>> \o Waiting', data)
      BY <1>0, <2>4
    <3> QED BY <1>1, <2>2, <2>4, <3>1, InOrderProcess
  <2> QED BY <2>1, <2>5
<1>8. CASE StopPort
  <2>1. rxRing' = <<>> /\ pc' = "freePool" /\ delivered' = seen /\ seen' = seen
    BY <1>8 DEF StopPort
  <2>2. Waiting' = <<>>
    BY <2>1 DEF Waiting, Todo
  <2>3. InOrder(seen, seen, <<>>, data')
    BY <1>1 DEF InOrder
  <2> QED BY <2>1, <2>2, <2>3
<1>9. ASSUME NEW p \in Packet, Arrive(p) PROVE InOrder(delivered', seen', Waiting', data')
  <2>1. PICK m \in free : rxRing' = Append(rxRing, m) /\ data' = [data EXCEPT ![m] = p]
    BY <1>9 DEF Arrive
  <2>2. port = "started" /\ delivered' = Append(delivered, p) /\ UNCHANGED <<pc, packets, i, seen>>
    BY <1>9 DEF Arrive
  <2>3. mbuf_pool
    BY <1>0, <2>2 DEF SourceAt
  <2>4. m \in Mbufs /\ p \in Data /\ m \notin Elems(rxRing) \cup Elems(packets)
    BY <1>1, <2>3 DEF SourceInv, MbufsApart, Data
  <2>5. Todo' = Todo /\ Todo \in Seq(Mbufs) /\ Elems(Todo) \subseteq Elems(packets)
    <3>1. CASE pc = "process"
      <4>1. Todo = SubSeq(packets, i, Len(packets)) /\ i \in 1..Len(packets)
        BY <1>1, <3>1 DEF Todo
      <4>2. Todo \in Seq(Mbufs) /\ Elems(Todo) \subseteq Elems(packets)
        BY <1>1, <4>1, SuffixHead
      <4> QED BY <2>2, <4>2 DEF Todo
    <3>2. CASE pc # "process"
      BY <2>2, <3>2, ElemsSmall DEF Todo
    <3> QED BY <3>1, <3>2
  <2>6. /\ Todo \o rxRing \in Seq(Mbufs)
        /\ Todo \o Append(rxRing, m) = Append(Todo \o rxRing, m)
    BY <1>1, <2>4, <2>5
  <2>7. m \notin Elems(Todo \o rxRing)
    <3>1. Elems(Todo \o rxRing) = Elems(Todo) \cup Elems(rxRing)
      BY <1>1, <2>5, ElemsConcat
    <3> QED BY <2>4, <2>5, <3>1
  <2>8. InOrder(Append(delivered, p), seen, Append(Waiting, m), data')
    BY <1>0, <1>1, <2>1, <2>4, <2>6, <2>7, InOrderArrive DEF Waiting
  <2> QED BY <2>1, <2>2, <2>5, <2>6, <2>8 DEF Waiting
<1>10. CASE Run BY <1>5, <1>10 DEF Run, buffers
<1>11. CASE (OpenPool \/ OpenConfigure \/ OpenQueue \/ OpenStart)
             /\ UNCHANGED <<rxRing, data, packets, i, history>>
  BY <1>5, <1>11 DEF OpenPool, OpenGoto, OpenConfigure, OpenQueue, OpenStart, OpenFails
<1>12. CASE While BY <1>5, <1>12 DEF While, buffers
<1>13. CASE Release BY <1>5, <1>13 DEF Release, AfterBurst
<1>14. CASE CloseFree BY <1>5, <1>14 DEF CloseFree
<1>15. CASE UNCHANGED <<pc, source, buffers, packets, i, history>>
  BY <1>4, <1>15 DEF buffers, Todo
<1> QED BY SourceSteps, <1>6, <1>7, <1>8, <1>9, <1>10, <1>11, <1>12, <1>13, <1>14, <1>15

-----------------------------------------------------------------------------
(* The theorems.                                                           *)

\* A source that was never opened.
LEMMA SourceInit == Init => SourceInv
<1> SUFFICES ASSUME Init PROVE SourceInv
  OBVIOUS
<1>1. SourceType /\ SourceAt
  BY DEF Init, SourceType, SourceAt, Data
<1>2. MbufsApart
  BY DEF Init, MbufsApart
<1>3. Waiting = <<>>
  BY DEF Init, Waiting, Todo
<1>4. Delivered
  BY <1>3 DEF Init, Delivered, InOrder
<1> QED BY <1>1, <1>2, <1>4 DEF SourceInv

\* What keeps the buffers apart and the packets in order holds at every step of
\* run(), open() and close(), whatever arrives meanwhile.
THEOREM SourceInvariant == Spec => []SourceInv
<1>1. SourceInv /\ [Next]_vars => SourceInv'
  BY SourceTypeStep, ApartStep, DeliveredStep DEF SourceInv
<1> QED BY <1>1, SourceInit, PTL DEF Spec

\* poll and release neither lose a buffer of the pool nor hand one out twice,
\* however many buffers and packets there are.
THEOREM MbufsAreConserved == Spec => []MbufsConserved
<1>1. SourceInv => MbufsConserved
  <2> SUFFICES ASSUME SourceInv, mbuf_pool
               PROVE  LET held == rxRing \o packets
                          inHeld == {held[k] : k \in 1..Len(held)}
                      IN  /\ free \cap inHeld = {}
                          /\ free \cup inHeld = Mbufs
                          /\ Cardinality(inHeld) = Len(held)
    BY DEF MbufsConserved
  <2>1. rxRing \in Seq(Mbufs) /\ packets \in Seq(Mbufs)
    BY DEF SourceInv, SourceType
  <2>2. /\ Elems(rxRing \o packets) = Elems(rxRing) \cup Elems(packets)
        /\ Len(rxRing \o packets) = Len(rxRing) + Len(packets)
    BY <2>1, ElemsConcat
  <2>3. /\ free \cap Elems(rxRing \o packets) = {}
        /\ free \cup Elems(rxRing \o packets) = Mbufs
        /\ Cardinality(Elems(rxRing \o packets)) = Len(rxRing \o packets)
    BY <2>2 DEF SourceInv, MbufsApart
  <2> QED BY <2>3 DEF Elems
<1> QED BY <1>1, SourceInvariant, PTL

\* open() undoes what it did when it fails, and close() frees the pool only
\* once the port is stopped and no packet is held.
THEOREM SourceIsCleanedUp == Spec => []SourceCleanedUp
<1>1. SourceInv => SourceCleanedUp
  BY DEF SourceInv, SourceAt, SourceCleanedUp
<1> QED BY <1>1, SourceInvariant, PTL

\* The loop of run() processes the packets as they arrived: each once, with the
\* contents it came with.
THEOREM PacketsInOrder == Spec => []ProcessedInOrder
<1>1. SourceInv => ProcessedInOrder
  <2> SUFFICES ASSUME SourceInv PROVE ProcessedInOrder
    OBVIOUS
  <2>1. delivered \in Seq(Data) /\ seen \in Seq(Data)
    BY DEF SourceInv, SourceType
  <2>2. Waiting \in Seq(Mbufs)
    <3>1. /\ rxRing \in Seq(Mbufs) /\ packets \in Seq(Mbufs)
          /\ pc = "process" => i \in 1..Len(packets)
      BY DEF SourceInv, SourceType
    <3>2. Todo \in Seq(Mbufs)
      BY <3>1, SuffixHead DEF Todo
    <3> QED BY <3>1, <3>2 DEF Waiting
  <2>3. Len(seen) \in Nat /\ Len(Waiting) \in Nat /\ Len(delivered) \in Nat
    BY <2>1, <2>2
  <2>4. Len(delivered) = Len(seen) + Len(Waiting) /\ \A k \in 1..Len(seen) : seen[k] = delivered[k]
    BY DEF SourceInv, Delivered, InOrder
  <2>5. Len(seen) <= Len(delivered)
    BY <2>3, <2>4
  <2> DEFINE s == SubSeq(delivered, 1, Len(seen))
  <2>6. s \in Seq(Data) /\ Len(s) = Len(seen) /\ \A k \in 1..Len(seen) : s[k] = delivered[k]
    BY <2>1, <2>3, <2>5
  <2> HIDE DEF s
  <2>7. seen = s
    BY <2>1, <2>4, <2>6, SameSeq
  <2> QED BY <2>5, <2>7 DEF s, ProcessedInOrder
<1> QED BY <1>1, SourceInvariant, PTL

-----------------------------------------------------------------------------
(* The parser.                                                             *)

\* The header lengths, opened together.
USE DEF kEtherHdrLen, kIpv4HdrLen, kUdpHdrLen, kWireSize, AnyPort

\* The fields of a packet are numbers.
LEMMA FieldTypes ==
    ASSUME NEW p \in PacketType
    PROVE  /\ p.len \in Nat /\ p.ihl \in Nat
           /\ p.total_length \in Nat /\ p.dgram_len \in Nat
<1>1. \A w : Field(w) \subseteq Nat
  BY DEF Field
<1>2. /\ p.len \in Nat /\ p.ihl \in Field(4)
      /\ p.total_length \in Field(16) /\ p.dgram_len \in Field(16)
  BY DEF PacketType
<1> QED
  BY <1>1, <1>2

\* No packet has been judged before the parser has looked at it.
LEMMA PayloadInvInit == PayloadInit => PayloadInv
<1> SUFFICES ASSUME PayloadInit PROVE PayloadInv
  OBVIOUS
<1>1. packet \in PacketType
  BY PacketsAssumption DEF PayloadInit
<1>2. packet.len \in Nat
  BY <1>1, FieldTypes
<1> QED
  BY <1>1, <1>2 DEF PayloadInit, PayloadInv, PayloadTypeOK, Stages, ReadsInside,
                    WellFormedDecoded

\* Each header's test of the length covers what the next step reads.
LEMMA PayloadInvStep == PayloadInv /\ [PayloadNext]_payloadVars => PayloadInv'
<1> SUFFICES ASSUME PayloadInv, [PayloadNext]_payloadVars PROVE PayloadInv'
  OBVIOUS
<1>t. /\ packet \in PacketType
      /\ readEnd \in Nat /\ payload \in Nat /\ payload_len \in Nat
  BY DEF PayloadInv, PayloadTypeOK
<1>f. /\ packet.len \in Nat /\ packet.ihl \in Nat
      /\ packet.total_length \in Nat /\ packet.dgram_len \in Nat
  BY <1>t, FieldTypes
<1>1. CASE Ether
  BY <1>1, <1>t, <1>f DEF Ether, PayloadInv, PayloadTypeOK, Stages, ReadsInside,
       WellFormedDecoded, WellFormed, ip_hdr_len, udp_offset
<1>2. CASE Ipv4
  BY <1>2, <1>t, <1>f DEF Ipv4, PayloadInv, PayloadTypeOK, Stages, ReadsInside,
       WellFormedDecoded, WellFormed, ip_hdr_len, udp_offset
<1>3. CASE Lengths
  BY <1>3, <1>t, <1>f DEF Lengths, PayloadInv, PayloadTypeOK, Stages, ReadsInside,
       WellFormedDecoded, WellFormed, ip_hdr_len, udp_offset
<1>4. CASE Udp
  BY <1>4, <1>t, <1>f DEF Udp, PayloadInv, PayloadTypeOK, Stages, ReadsInside,
       WellFormedDecoded, WellFormed, ip_hdr_len, udp_offset
<1>5. CASE Decode
  BY <1>5, <1>t, <1>f DEF Decode, PayloadInv, PayloadTypeOK, Stages, ReadsInside,
       WellFormedDecoded, WellFormed, ip_hdr_len, udp_offset
<1>6. CASE UNCHANGED payloadVars
  BY <1>6 DEF payloadVars, PayloadInv, PayloadTypeOK, ReadsInside, WellFormedDecoded,
       WellFormed, ip_hdr_len, udp_offset
<1> QED
  BY <1>1, <1>2, <1>3, <1>4, <1>5, <1>6 DEF PayloadNext

\* The facts each length test of extract_udp_payload leaves behind hold at
\* every step of the parser.
THEOREM PayloadInvariant == PayloadSpec => []PayloadInv
  BY PayloadInvInit, PayloadInvStep, PTL DEF PayloadSpec

\* extract_udp_payload and decode never look past the end of a packet,
\* whatever its headers say.
THEOREM ParserReadsInside == PayloadSpec => []ReadsInside
<1>1. PayloadInv => ReadsInside
  BY DEF PayloadInv
<1> QED
  BY <1>1, PayloadInvariant, PTL

\* extract_udp_payload and decode turn away no well-formed message.
THEOREM ParserComplete == PayloadSpec => []WellFormedDecoded
<1>1. PayloadInv => WellFormedDecoded
  BY DEF PayloadInv
<1> QED
  BY <1>1, PayloadInvariant, PTL

-----------------------------------------------------------------------------
(* The sequence tracker.                                                   *)

USE SeqAssumption

\* Counter additions stay in the type, and adding one always changes it.
LEMMA AddFacts ==
    ASSUME NEW a \in Uint64, NEW b \in Uint64
    PROVE  /\ Add(a, b) \in Uint64
           /\ a + b < SeqModulus => Add(a, b) = a + b
           /\ Add(a, 1) = IF a + 1 = SeqModulus THEN 0 ELSE a + 1
           /\ Add(a, 1) # a
<1>1. a + b \in Int /\ a + b >= 0 /\ SeqModulus \in Nat \ {0}
  BY DEF Uint64
<1>2. (a + b) % SeqModulus \in 0..(SeqModulus - 1)
  BY <1>1, ModRange, Zenon
<1>3. a + b < SeqModulus => (a + b) % SeqModulus = a + b
  BY <1>1
<1>4. Add(a, 1) = IF a + 1 = SeqModulus THEN 0 ELSE a + 1
  BY DEF Add, Uint64
<1>5. Add(a, 1) # a
  BY <1>4 DEF Uint64
<1> QED BY <1>2, <1>3, <1>4, <1>5 DEF Add, Uint64

\* A wrapped sum of wrapped sums is the wrapped sum.
LEMMA AddMod ==
    ASSUME NEW x \in Int, NEW y \in Int
    PROVE  Add(x % SeqModulus, y) = (x + y) % SeqModulus
<1>1. SeqModulus \in Nat \ {0}
  OBVIOUS
<1> QED BY <1>1, ModSum, Zenon DEF Add

\* The two ways a frame can be tracked.
LEMMA DecodeCases ==
    ASSUME TypeOK, NEW seq \in Uint64, DecodedFrame(seq)
    PROVE  /\ received' = Add(received, 1) /\ frames' = frames + 1
           /\ first' = IF seq_initialized THEN first ELSE seq
           /\ \/ /\ seq_initialized => seq >= expected_seq_num
                 /\ expected_seq_num' = Add(seq, 1)
                 /\ seq_initialized'
                 /\ processed' = Add(processed, 1)
                 /\ seq_num_gaps' =
                      Add(seq_num_gaps,
                          IF seq_initialized THEN seq - expected_seq_num ELSE 0)
                 /\ drops' = drops
                 /\ accepted' = accepted \cup {seq}
                 /\ wrapped' = (wrapped \/ Add(seq, 1) = 0)
              \/ /\ seq_initialized /\ seq < expected_seq_num
                 /\ drops' = Add(drops, 1)
                 /\ UNCHANGED <<seq_initialized, expected_seq_num, processed,
                                seq_num_gaps, accepted, wrapped>>
<1> USE DEF DecodedFrame, Track, Accept, Reject
<1>1. Add(processed, 1) # processed
  BY AddFacts DEF TypeOK, TrackerTypeOK
<1>2. CASE ~seq_initialized
  BY <1>1, <1>2, Zenon DEF TypeOK, TrackerTypeOK
<1>3. CASE seq_initialized /\ seq >= expected_seq_num
  BY <1>1, <1>3 DEF TypeOK, TrackerTypeOK
<1>4. CASE seq_initialized /\ ~ (seq >= expected_seq_num)
  <2>1. seq < expected_seq_num
    BY <1>4 DEF TypeOK, TrackerTypeOK, Uint64
  <2> QED BY <1>4, <2>1 DEF TypeOK, TrackerTypeOK
<1> QED BY <1>2, <1>3, <1>4

-----------------------------------------------------------------------------
\* The inductive invariant holds before any frame.
LEMMA HistoryInitial == HistoryInit => HistoryInv
<1> SUFFICES ASSUME HistoryInit PROVE HistoryInv
  OBVIOUS
<1> USE DEF HistoryInit, TrackerInit
<1>1. TypeOK
  <2>1. 0 \in Uint64 /\ 0 \in Nat
    BY DEF Uint64
  <2> QED BY <2>1, Zenon DEF TypeOK, TrackerTypeOK
<1>2. 0 % SeqModulus = 0 /\ (0 + 0) % SeqModulus = 0
  OBVIOUS
<1>3. EveryFrameCounted
  BY <1>2 DEF EveryFrameCounted, Add
<1> QED BY <1>1, <1>3 DEF HistoryInv, GapsBalance

\* Every step keeps every variable in its type.
LEMMA HistoryTypeStep ==
    ASSUME TypeOK, NEW seq \in Uint64, DecodedFrame(seq)
    PROVE  TypeOK'
<1>1. \A a, b \in Uint64 : Add(a, b) \in Uint64
  BY AddFacts
<1>2. 1 \in Uint64 /\ 0 \in Uint64
  BY DEF Uint64
<1>3. seq_initialized /\ seq >= expected_seq_num => seq - expected_seq_num \in Uint64
  BY DEF TypeOK, TrackerTypeOK, Uint64
<1>4. /\ received' \in Uint64 /\ frames' \in Nat /\ first' \in Uint64
  BY <1>1, <1>2, DecodeCases DEF TypeOK, TrackerTypeOK
<1>5. /\ expected_seq_num' \in Uint64 /\ processed' \in Uint64
      /\ drops' \in Uint64 /\ seq_num_gaps' \in Uint64
  BY <1>1, <1>2, <1>3, DecodeCases DEF TypeOK, TrackerTypeOK
<1>6. seq_initialized' \in BOOLEAN /\ wrapped' \in BOOLEAN /\ accepted' \subseteq Uint64
  BY DecodeCases, Zenon DEF TypeOK, TrackerTypeOK, DecodedFrame, Track, Accept, Reject
<1> QED BY <1>4, <1>5, <1>6 DEF TypeOK, TrackerTypeOK

\* Every frame goes on being counted once.
LEMMA CountedStep ==
    ASSUME TypeOK, EveryFrameCounted, NEW seq \in Uint64, DecodedFrame(seq)
    PROVE  EveryFrameCounted'
<1>1. /\ SeqModulus \in Nat \ {0} /\ frames \in Int
      /\ processed \in Int /\ drops \in Int /\ 1 \in Int
  BY DEF TypeOK, TrackerTypeOK, Uint64
<1>2. received' = Add(received, 1) /\ frames' = frames + 1
  BY DecodeCases
<1>3. received' = frames' % SeqModulus
  BY <1>1, <1>2, AddMod, Zenon DEF EveryFrameCounted
<1>4. received' = (processed + drops + 1) % SeqModulus
  <2>1. received = (processed + drops) % SeqModulus
    BY DEF EveryFrameCounted, Add
  <2>2. processed + drops \in Int
    BY <1>1
  <2> QED BY <1>1, <1>2, <2>1, <2>2, AddMod, Zenon
<1>5. CASE processed' = Add(processed, 1) /\ drops' = drops
  <2>1. Add(processed', drops) = (processed + 1 + drops) % SeqModulus
    <3>1. processed + 1 \in Int
      BY <1>1
    <3> QED BY <1>1, <1>5, <3>1, AddMod, Zenon DEF Add
  <2>2. processed + 1 + drops = processed + drops + 1
    BY <1>1
  <2> QED BY <1>3, <1>4, <1>5, <2>1, <2>2 DEF EveryFrameCounted
<1>6. CASE processed' = processed /\ drops' = Add(drops, 1)
  <2>1. Add(drops', processed) = (drops + 1 + processed) % SeqModulus
    <3>1. drops + 1 \in Int
      BY <1>1
    <3> QED BY <1>1, <1>6, <3>1, AddMod, Zenon DEF Add
  <2>2. drops + 1 + processed = processed + drops + 1
    BY <1>1
  <2>3. Add(drops', processed) = Add(processed, drops')
    <3>1. drops' \in Int
      BY HistoryTypeStep DEF TypeOK, TrackerTypeOK, Uint64
    <3>2. drops' + processed = processed + drops'
      BY <1>1, <3>1
    <3> QED BY <3>2 DEF Add
  <2> QED BY <1>3, <1>4, <1>6, <2>1, <2>2, <2>3 DEF EveryFrameCounted
<1> QED BY <1>5, <1>6, DecodeCases

\* The position keeps balancing processed and gaps, also across a wrap.
LEMMA BalanceStep ==
    ASSUME HistoryInv, NEW seq \in Uint64, DecodedFrame(seq)
    PROVE  GapsBalance'
<1>0. TypeOK /\ SeqModulus \in Nat \ {0} /\ 1 \in Int
  BY DEF HistoryInv
<1>1. /\ first \in Int /\ processed \in Int /\ seq_num_gaps \in Int
      /\ expected_seq_num \in Int /\ seq \in Int
  BY <1>0 DEF TypeOK, TrackerTypeOK, Uint64
<1> DEFINE gap == IF seq_initialized THEN seq - expected_seq_num ELSE 0
           start == IF seq_initialized THEN first ELSE seq
<1>2. CASE UNCHANGED <<seq_initialized, expected_seq_num, processed, seq_num_gaps>>
           /\ seq_initialized /\ first' = first
  BY <1>2 DEF HistoryInv, GapsBalance
<1>3. CASE /\ expected_seq_num' = Add(seq, 1)
           /\ processed' = Add(processed, 1)
           /\ seq_num_gaps' = Add(seq_num_gaps, gap)
           /\ first' = start
  <2>1. gap \in Int /\ start \in Int
    BY <1>1
  <2>2. (start + processed + seq_num_gaps + gap) % SeqModulus = seq % SeqModulus
    <3>1. CASE ~seq_initialized
      <4>1. start + processed + seq_num_gaps + gap = seq
        BY <1>1, <3>1 DEF HistoryInv
      <4> QED BY <4>1
    <3>2. CASE seq_initialized
      <4> DEFINE x == first + processed + seq_num_gaps
                 d == seq - expected_seq_num
      <4>1. x \in Int /\ d \in Int
        BY <1>1
      <4>2. expected_seq_num = x % SeqModulus
        BY <3>2 DEF HistoryInv, GapsBalance
      <4>3. ((x % SeqModulus) + d) % SeqModulus = (x + d) % SeqModulus
        BY <1>0, <4>1, ModSum
      <4>4. expected_seq_num + d = seq
        BY <1>1
      <4>5. start + processed + seq_num_gaps + gap = x + d
        BY <3>2
      <4> HIDE DEF x, d, start, gap
      <4> QED BY <4>2, <4>3, <4>4, <4>5
    <3> QED BY <3>1, <3>2
  <2> HIDE DEF gap, start
  <2> DEFINE p == processed + 1
             g == seq_num_gaps + gap
             z == start + processed + seq_num_gaps + gap
  <2>3. p \in Int /\ g \in Int /\ z \in Int
    BY <1>1, <2>1
  <2>4. ((p % SeqModulus) + (start + (g % SeqModulus))) % SeqModulus
          = (p + (start + (g % SeqModulus))) % SeqModulus
    <3>1. g % SeqModulus \in Int
      BY <1>0, <2>3, ModRange
    <3>2. start + (g % SeqModulus) \in Int
      BY <2>1, <3>1
    <3> HIDE DEF p, g
    <3> QED BY <1>0, <2>3, <3>2, ModSum, Zenon
  <2>5. ((g % SeqModulus) + (start + p)) % SeqModulus = (g + (start + p)) % SeqModulus
    <3>1. start + p \in Int
      BY <2>1, <2>3
    <3> HIDE DEF p, g
    <3> QED BY <1>0, <2>3, <3>1, ModSum, Zenon
  <2>6. (start + (p % SeqModulus) + (g % SeqModulus)) % SeqModulus = (z + 1) % SeqModulus
    <3>1. g % SeqModulus \in Int /\ p % SeqModulus \in Int
      BY <1>0, <2>3, ModRange
    <3>2. g + (start + p) = z + 1
      BY <1>1, <2>1
    <3> HIDE DEF p, g, z
    <3>3. /\ start + (p % SeqModulus) + (g % SeqModulus)
               = (p % SeqModulus) + (start + (g % SeqModulus))
          /\ p + (start + (g % SeqModulus)) = (g % SeqModulus) + (start + p)
      BY <2>1, <2>3, <3>1
    <3> QED BY <2>4, <2>5, <3>2, <3>3
  <2>7. (z + 1) % SeqModulus = (seq + 1) % SeqModulus
    <3> HIDE DEF z
    <3>1. ((z % SeqModulus) + 1) % SeqModulus = (z + 1) % SeqModulus
      BY <1>0, <2>3, ModSum, Zenon
    <3>2. ((seq % SeqModulus) + 1) % SeqModulus = (seq + 1) % SeqModulus
      BY <1>0, <1>1, ModSum, Zenon
    <3>3. z % SeqModulus = seq % SeqModulus
      BY <2>2 DEF z
    <3> QED BY <3>1, <3>2, <3>3
  <2>8. /\ processed' = p % SeqModulus
        /\ seq_num_gaps' = g % SeqModulus
        /\ expected_seq_num' = (seq + 1) % SeqModulus
        /\ first' = start
    BY <1>3 DEF Add
  <2> HIDE DEF p, g, z
  <2> QED BY <2>6, <2>7, <2>8 DEF GapsBalance
<1> QED BY <1>0, <1>2, <1>3, DecodeCases

\* The exact counts that hold until a wrap.
Exact ==
    /\ first < expected_seq_num
    /\ accepted \subseteq first..(expected_seq_num - 1)
    /\ processed = Cardinality(accepted)
    /\ seq_num_gaps = expected_seq_num - first - processed

\* They survive every frame that does not wrap the number.
LEMMA ExactStep ==
    ASSUME HistoryInv, NEW seq \in Uint64, DecodedFrame(seq), ~wrapped'
    PROVE  Exact'
<1>0. TypeOK /\ TypeOK'
  BY HistoryTypeStep DEF HistoryInv
<1>1. /\ first \in Nat /\ processed \in Nat /\ seq_num_gaps \in Nat
      /\ expected_seq_num \in Nat /\ seq \in Nat
      /\ first < SeqModulus /\ expected_seq_num < SeqModulus /\ seq < SeqModulus
  BY <1>0 DEF TypeOK, TrackerTypeOK, Uint64
<1>2. CASE /\ seq_initialized /\ first' = first /\ ~wrapped
           /\ UNCHANGED <<expected_seq_num, processed, seq_num_gaps, accepted>>
  BY <1>2 DEF HistoryInv, Exact
<1>3. CASE /\ ~seq_initialized /\ first' = seq
           /\ expected_seq_num' = Add(seq, 1)
           /\ processed' = Add(processed, 1)
           /\ seq_num_gaps' = Add(seq_num_gaps, 0)
           /\ accepted' = accepted \cup {seq}
           /\ Add(seq, 1) # 0
  <2>1. processed = 0 /\ seq_num_gaps = 0 /\ accepted = {}
    BY <1>3 DEF HistoryInv
  <2>2. expected_seq_num' = seq + 1
    BY <1>3, AddFacts
  <2>3. processed' = 1 /\ seq_num_gaps' = 0
    BY <1>3, <2>1 DEF Add
  <2>4. accepted' = {seq} /\ Cardinality(accepted') = 1
    <3>1. accepted' = {} \cup {seq}
      BY <1>3, <2>1
    <3>2. Cardinality({} \cup {seq}) = 0 + 1
      BY FS_EmptySet, FS_AddElement, Zenon
    <3> QED BY <3>1, <3>2
  <2>5. accepted' \subseteq seq..(seq + 1 - 1)
    BY <1>1, <2>4
  <2> QED BY <1>1, <1>3, <2>2, <2>3, <2>4, <2>5 DEF Exact
<1>4. CASE /\ seq_initialized /\ first' = first /\ ~wrapped
           /\ seq >= expected_seq_num
           /\ expected_seq_num' = Add(seq, 1)
           /\ processed' = Add(processed, 1)
           /\ seq_num_gaps' = Add(seq_num_gaps, seq - expected_seq_num)
           /\ accepted' = accepted \cup {seq}
           /\ Add(seq, 1) # 0
  <2>1. Exact
    BY <1>4 DEF HistoryInv, Exact
  <2>2. expected_seq_num' = seq + 1
    BY <1>4, AddFacts
  <2>3. IsFiniteSet(accepted) /\ seq \notin accepted
    <3>1. IsFiniteSet(first..(expected_seq_num - 1))
      BY <1>1, FS_Interval
    <3>2. accepted \in SUBSET (first..(expected_seq_num - 1))
      BY <2>1 DEF Exact
    <3>3. seq \notin first..(expected_seq_num - 1)
      BY <1>1, <1>4
    <3> QED BY <3>1, <3>2, <3>3, FS_Subset, Zenon
  <2>4. Cardinality(accepted') = processed + 1
    BY <1>4, <2>1, <2>3, FS_AddElement DEF Exact
  <2>5. processed <= expected_seq_num - first
    <3>1. seq_num_gaps = expected_seq_num - first - processed
      BY <2>1 DEF Exact
    <3> QED BY <1>1, <3>1
  <2>6. processed' = processed + 1
    <3>1. processed \in Uint64
      BY <1>0 DEF TypeOK, TrackerTypeOK
    <3>2. seq + 1 # SeqModulus
      BY <1>4, AddFacts
    <3>3. processed + 1 # SeqModulus
      BY <1>1, <1>4, <2>5, <3>2
    <3> QED BY <1>4, <3>1, <3>3, AddFacts
  <2>7. seq_num_gaps' = seq + 1 - first - (processed + 1)
    <3>1. seq_num_gaps = expected_seq_num - first - processed
      BY <2>1 DEF Exact
    <3>2. /\ seq_num_gaps + (seq - expected_seq_num) < SeqModulus
          /\ seq - expected_seq_num \in Uint64 /\ seq_num_gaps \in Uint64
      BY <1>0, <1>1, <1>4, <3>1 DEF Uint64, TypeOK, TrackerTypeOK
    <3>3. seq_num_gaps' = seq_num_gaps + (seq - expected_seq_num)
      BY <1>4, <3>2, AddFacts
    <3> QED BY <1>1, <3>1, <3>3
  <2>8. accepted' \subseteq first..(seq + 1 - 1) /\ first < seq + 1
    BY <1>1, <1>4, <2>1 DEF Exact
  <2>9. /\ first' < expected_seq_num'
        /\ accepted' \subseteq first'..(expected_seq_num' - 1)
        /\ processed' = Cardinality(accepted')
    BY <1>4, <2>2, <2>4, <2>6, <2>8
  <2>10. seq_num_gaps' = expected_seq_num' - first' - processed'
    BY <1>1, <1>4, <2>2, <2>6, <2>7
  <2> QED BY <2>9, <2>10 DEF Exact
<1> QED BY <1>0, <1>2, <1>3, <1>4, DecodeCases, Zenon DEF HistoryInv

\* Every step preserves the inductive invariant.
LEMMA HistoryStep == HistoryInv /\ [HistoryNext]_historyVars => HistoryInv'
<1> SUFFICES ASSUME HistoryInv, [HistoryNext]_historyVars PROVE HistoryInv'
  OBVIOUS
<1>1. ASSUME NEW seq \in Uint64, DecodedFrame(seq) PROVE HistoryInv'
  <2>1. TypeOK /\ EveryFrameCounted
    BY DEF HistoryInv
  <2>2. TypeOK' /\ EveryFrameCounted' /\ GapsBalance'
    BY <1>1, <2>1, HistoryTypeStep, CountedStep, BalanceStep
  <2>3. seq_initialized'
    BY <1>1, <2>1, DecodeCases
  <2>4. ~wrapped' => Exact'
    BY <1>1, ExactStep
  <2> QED BY <2>2, <2>3, <2>4 DEF HistoryInv, Exact
<1>2. CASE UNCHANGED historyVars
  BY <1>2 DEF historyVars, trackerVars, HistoryInv, TypeOK, TrackerTypeOK,
              EveryFrameCounted, GapsBalance
<1> QED BY <1>1, <1>2 DEF HistoryNext

\* The inductive invariant holds of every stream of frames.
THEOREM HistoryInvariant == HistorySpec => []HistoryInv
  BY HistoryInitial, HistoryStep, PTL DEF HistorySpec

\* Every frame is counted once, for every counter width.
THEOREM FramesCounted == HistorySpec => []EveryFrameCounted
<1>1. HistoryInv => EveryFrameCounted
  BY DEF HistoryInv
<1> QED BY HistoryInvariant, <1>1, PTL

\* The position, the processed count and the gap count agree for ever, also
\* across wraps of the sequence number.
THEOREM BalanceHolds == HistorySpec => []GapsBalance
<1>1. HistoryInv => GapsBalance
  BY DEF HistoryInv
<1> QED BY HistoryInvariant, <1>1, PTL

\* Until a wrap the gap count is the number of missing sequence numbers.
THEOREM GapsCountMissing == HistorySpec => []GapsAreMissing
<1>1. HistoryInv => GapsAreMissing
  <2> SUFFICES ASSUME HistoryInv, seq_initialized, ~wrapped
               PROVE  /\ accepted \subseteq first..(expected_seq_num - 1)
                      /\ seq_num_gaps =
                           Cardinality((first..(expected_seq_num - 1)) \ accepted)
    BY DEF GapsAreMissing
  <2> DEFINE S == first..(expected_seq_num - 1)
  <2>1. Exact
    BY DEF HistoryInv, Exact
  <2>2. first \in Int /\ expected_seq_num \in Int
    BY DEF HistoryInv, TypeOK, TrackerTypeOK, Uint64
  <2>3. IsFiniteSet(S) /\ Cardinality(S) = expected_seq_num - first
    <3>1. expected_seq_num - 1 \in Int /\ ~ (first > expected_seq_num - 1)
      BY <2>1, <2>2 DEF Exact
    <3>2. /\ IsFiniteSet(S)
          /\ Cardinality(S) = (expected_seq_num - 1) - first + 1
      BY <2>2, <3>1, FS_Interval
    <3> HIDE DEF S
    <3> QED BY <2>2, <3>2
  <2>4. accepted \subseteq S
    BY <2>1 DEF Exact
  <2>5. Cardinality(S \ accepted) = Cardinality(S) - Cardinality(S \cap accepted)
    BY <2>3, FS_Difference, Zenon
  <2>6. S \cap accepted = accepted
    BY <2>4, Zenon
  <2> HIDE DEF S
  <2>7. seq_num_gaps = Cardinality(S \ accepted)
    BY <2>1, <2>3, <2>5, <2>6 DEF Exact
  <2> QED BY <2>4, <2>7 DEF S
<1> QED BY HistoryInvariant, <1>1, PTL

\* Until a wrap no sequence number is processed twice.
THEOREM NoDuplicates == HistorySpec => []NoneProcessedTwice
<1>1. HistoryInv => NoneProcessedTwice
  BY FS_EmptySet DEF HistoryInv, NoneProcessedTwice
<1> QED BY HistoryInvariant, <1>1, PTL

\* The expected number only moves forward, or to 0 past the largest.
THEOREM NeverBack == HistorySpec => ExpectedAdvances
<1>1. HistoryInv /\ [HistoryNext]_historyVars =>
        [seq_initialized => \/ expected_seq_num' >= expected_seq_num
                            \/ expected_seq_num' = 0]_historyVars
  <2> SUFFICES ASSUME HistoryInv, NEW seq \in Uint64, DecodedFrame(seq), seq_initialized
               PROVE  expected_seq_num' >= expected_seq_num \/ expected_seq_num' = 0
    BY DEF HistoryNext
  <2>1. TypeOK /\ expected_seq_num \in Int /\ seq \in Int
    BY DEF HistoryInv, TypeOK, TrackerTypeOK, Uint64
  <2>2. Add(seq, 1) = 0 \/ Add(seq, 1) = seq + 1
    BY AddFacts
  <2>3. \/ seq >= expected_seq_num /\ expected_seq_num' = Add(seq, 1)
        \/ expected_seq_num' = expected_seq_num
    BY <2>1, DecodeCases, Zenon
  <2> QED BY <2>1, <2>2, <2>3
<1> QED BY HistoryInvariant, <1>1, PTL DEF HistorySpec, ExpectedAdvances

HIDE SeqAssumption
=============================================================================
