------------------------------- MODULE Basics -------------------------------
(***************************************************************************)
(* Facts that several proofs need: about %, which unsigned C++ arithmetic  *)
(* rests on, about \div, and about the sequences of slots that the rings   *)
(* of a pool hold.                                                         *)
(***************************************************************************)
EXTENDS Integers, Sequences, TLAPS

-----------------------------------------------------------------------------
(* Remainders.  The solvers know that x = m * (x \div m) + x % m;          *)
(* everything else is derived here once.                                   *)

\* Every integer is a multiple of m plus its remainder.
LEMMA ModDef ==
    ASSUME NEW m \in Nat \ {0}, NEW x \in Int
    PROVE  \E k \in Int : x = k * m + (x % m)
<1>1. (x \div m) \in Int
  OBVIOUS
<1>2. x = (x \div m) * m + (x % m)
  OBVIOUS
<1> QED BY <1>1, <1>2, Zenon

\* The remainder is the only number below m that differs from x by a multiple.
LEMMA ModUnique ==
    ASSUME NEW m \in Nat \ {0}, NEW k \in Int, NEW r \in 0..(m - 1)
    PROVE  (k * m + r) % m = r
  OBVIOUS

\* A remainder is below its modulus.
LEMMA ModRange ==
    ASSUME NEW m \in Nat \ {0}, NEW x \in Int
    PROVE  x % m \in 0..(m - 1)
  OBVIOUS

\* Collecting two multiples of m.
LEMMA CollectMultiples ==
    ASSUME NEW m \in Int, NEW j \in Int, NEW k \in Int, NEW r \in Int
    PROVE  (j * m + r) + k * m = (j + k) * m + r
  OBVIOUS

\* Moving a multiple of m to the end of a sum.
LEMMA MoveMultiple ==
    ASSUME NEW m \in Int, NEW j \in Int, NEW y \in Int, NEW r \in Int
    PROVE  (j * m + r) + y = (r + y) + j * m
  OBVIOUS

\* Adding a multiple of m changes no remainder.
LEMMA ModMultiple ==
    ASSUME NEW m \in Nat \ {0}, NEW x \in Int, NEW k \in Int
    PROVE  (x + k * m) % m = x % m
<1>1. PICK j \in Int : x = j * m + (x % m)
  BY ModDef
<1>2. x % m \in 0..(m - 1)
  BY ModRange
<1>3. j + k \in Int
  OBVIOUS
<1>4. ((j + k) * m + (x % m)) % m = x % m
  BY <1>2, <1>3, ModUnique
<1>5. x + k * m = (j + k) * m + (x % m)
  BY <1>1, <1>2, CollectMultiples
<1> QED BY <1>4, <1>5

\* Reducing a summand first changes no remainder: an unsigned counter that
\* wraps at every step agrees with one that is reduced at the end.
LEMMA ModSum ==
    ASSUME NEW m \in Nat \ {0}, NEW x \in Int, NEW y \in Int
    PROVE  ((x % m) + y) % m = (x + y) % m
<1> DEFINE r == x % m
<1>1. PICK j \in Int : x = j * m + r
  BY ModDef
<1>2. r \in Int
  BY ModRange
<1>3. ASSUME NEW z \in Int PROVE (z + j * m) % m = z % m
  BY ModMultiple
<1> HIDE DEF r
<1>4. r + y \in Int
  BY <1>2
<1>5. x + y = (r + y) + j * m
  BY <1>1, <1>2, MoveMultiple
<1>6. ((r + y) + j * m) % m = (r + y) % m
  BY <1>3, <1>4
<1>7. (r + y) % m = (x + y) % m
  BY <1>5, <1>6
<1> QED BY <1>7 DEF r

\* Two numbers less than m apart have different remainders.
LEMMA ModInjective ==
    ASSUME NEW m \in Nat \ {0}, NEW x \in Int, NEW y \in Int,
           x < y, y < x + m
    PROVE  x % m # y % m
<1> SUFFICES ASSUME x % m = y % m PROVE FALSE
  OBVIOUS
<1>1. PICK j \in Int : x = j * m + (x % m)
  BY ModDef
<1>2. PICK k \in Int : y = k * m + (y % m)
  BY ModDef
<1>3. x % m \in Int
  BY ModRange
<1>4. y - x = (k - j) * m
  BY <1>1, <1>2, <1>3
<1>5. CASE k - j >= 1
  <2>1. (k - j) * m >= m
    BY <1>5
  <2> QED BY <2>1, <1>4
<1>6. CASE k - j <= 0
  <2>1. (k - j) * m <= 0
    BY <1>6
  <2> QED BY <2>1, <1>4
<1> QED BY <1>5, <1>6

\* Masking a wrapped counter is masking the counter, when the mask's modulus
\* divides the counter's.
LEMMA ModOfMod ==
    ASSUME NEW m \in Nat \ {0}, NEW c \in Nat \ {0}, m % c = 0, NEW x \in Int
    PROVE  (x % m) % c = x % c
<1> DEFINE r == x % m
<1>1. PICK j \in Int : x = j * m + r
  BY ModDef
<1>2. PICK k \in Int : m = k * c
  <2>0. m \in Int
    OBVIOUS
  <2>1. PICK k \in Int : m = k * c + (m % c)
    BY <2>0, ModDef, Zenon
  <2>2. k * c \in Int
    OBVIOUS
  <2>3. m = k * c + 0
    BY <2>1, Zenon
  <2>4. m = k * c
    BY <2>2, <2>3
  <2> QED BY <2>4
<1>3. r \in Int
  BY ModRange
<1> HIDE DEF r
<1>4. x = r + (j * k) * c
  <2>1. j * m = (j * k) * c
    BY <1>2
  <2> QED BY <2>1, <1>1, <1>3
<1>5. j * k \in Int
  OBVIOUS
<1>6. (r + (j * k) * c) % c = r % c
  BY <1>3, <1>5, ModMultiple
<1>7. x % c = r % c
  BY <1>4, <1>6
<1> QED BY <1>7 DEF r

\* Equality modulo m, by name: the provers instantiate a predicate more readily
\* than an equation between remainders.
Congruent(m, x, y) == x % m = y % m

\* An account t = c + f, kept modulo m, when t and f move together, ...
LEMMA AccountMoves ==
    ASSUME NEW m \in Nat \ {0}, NEW t \in Int, NEW f \in Int, NEW u \in Int, NEW g \in Int,
           NEW c \in Int, Congruent(m, t, c + f), u - g = t - f
    PROVE  Congruent(m, u, c + g)
<1> DEFINE k == g - f
           s == c + f
<1>1. k \in Int /\ u = t + k /\ c + g = s + k /\ s \in Int
  OBVIOUS
<1>2. t % m = s % m
  BY DEF Congruent
<1> HIDE DEF k, s
<1>3. (t + k) % m = (s + k) % m
  <2>1. ((t % m) + k) % m = (t + k) % m
    BY <1>1, ModSum
  <2>2. ((s % m) + k) % m = (s + k) % m
    BY <1>1, ModSum
  <2> QED BY <1>2, <2>1, <2>2, Zenon
<1> QED BY <1>1, <1>3 DEF Congruent

\* ... and when one moves from f to a counter that wraps.
LEMMA AccountCounts ==
    ASSUME NEW m \in Nat \ {0}, NEW t \in Int, NEW f \in Int, NEW a \in Int, NEW b \in Int,
           Congruent(m, t, a + b + f)
    PROVE  Congruent(m, t, ((a + 1) % m) + b + (f - 1))
<1> DEFINE r == (a + 1) % m
           y == b + (f - 1)
<1>1. a + 1 \in Int /\ y \in Int /\ (a + 1) + y = a + b + f
  OBVIOUS
<1>2. r \in Int
  BY <1>1, ModRange
<1>3. r + y = r + b + (f - 1)
  <2> HIDE DEF r
  <2> QED BY <1>2
<1>4. t % m = (a + b + f) % m
  BY DEF Congruent
<1> HIDE DEF y
<1>5. (r + y) % m = ((a + 1) + y) % m
  BY <1>1, ModSum
<1> QED BY <1>1, <1>3, <1>4, <1>5 DEF Congruent

\* What was taken in, t, is in one of the wrapping counters p and d or still in
\* flight, f.
Account(m, t, p, d, f) == Congruent(m, t, p + d + f) /\ t >= f

\* A step, from t, p, d, f to u, q, e, g, that takes in as much as it puts in
\* flight, or moves one from there to a counter.
Flow(m, t, p, d, f, u, q, e, g) ==
    \/ u - g = t - f /\ q = p /\ e = d
    \/ u = t /\ g = f - 1 /\ q = (p + 1) % m /\ e = d
    \/ u = t /\ g = f - 1 /\ q = p /\ e = (d + 1) % m

LEMMA AccountKept ==
    ASSUME NEW m \in Nat \ {0},
           NEW t \in Int, NEW p \in Int, NEW d \in Int, NEW f \in Int,
           NEW u \in Int, NEW q \in Int, NEW e \in Int, NEW g \in Int,
           Account(m, t, p, d, f), Flow(m, t, p, d, f, u, q, e, g)
    PROVE  Account(m, u, q, e, g)
<1>0. Congruent(m, t, p + d + f) /\ t >= f
  BY DEF Account
<1>1. SUFFICES Congruent(m, u, q + e + g) /\ u >= g
  BY DEF Account
<1>2. CASE u - g = t - f /\ q = p /\ e = d
  <2>1. p + d \in Int
    OBVIOUS
  <2>2. Congruent(m, u, (p + d) + g)
    BY <1>0, <1>2, <2>1, AccountMoves
  <2> QED BY <1>0, <1>2, <2>2
<1>3. CASE u = t /\ g = f - 1 /\ q = (p + 1) % m /\ e = d
  <2>1. Congruent(m, t, ((p + 1) % m) + d + (f - 1))
    BY <1>0, AccountCounts
  <2> QED BY <1>0, <1>3, <2>1
<1>4. CASE u = t /\ g = f - 1 /\ q = p /\ e = (d + 1) % m
  <2>1. p + d + f = d + p + f
    OBVIOUS
  <2>2. Congruent(m, t, ((d + 1) % m) + p + (f - 1))
    BY <1>0, <2>1, AccountCounts
  <2>3. e + p + (f - 1) = q + e + g
    BY <1>4
  <2> QED BY <1>0, <1>4, <2>2, <2>3
<1> QED BY <1>2, <1>3, <1>4 DEF Flow

-----------------------------------------------------------------------------
(* Sequences, place by place.                                              *)

LEMMA SameSeq ==
    ASSUME NEW S, NEW s \in Seq(S), NEW t \in Seq(S),
           Len(s) = Len(t), \A i \in 1..Len(s) : s[i] = t[i]
    PROVE  s = t
  OBVIOUS

LEMMA ConcatPlaces ==
    ASSUME NEW S, NEW s \in Seq(S), NEW t \in Seq(S)
    PROVE  /\ s \o t \in Seq(S) /\ Len(s \o t) = Len(s) + Len(t)
           /\ Len(s) \in Nat /\ Len(t) \in Nat
           /\ \A i \in 1..(Len(s) + Len(t)) :
                (s \o t)[i] = IF i <= Len(s) THEN s[i] ELSE t[i - Len(s)]
  OBVIOUS

LEMMA ConcatThree ==
    ASSUME NEW S, NEW s \in Seq(S), NEW t \in Seq(S), NEW u \in Seq(S)
    PROVE  (s \o t) \o u = s \o (t \o u)
<1> DEFINE a == (s \o t) \o u
           b == s \o (t \o u)
<1>1. /\ s \o t \in Seq(S) /\ Len(s \o t) = Len(s) + Len(t)
      /\ Len(s) \in Nat /\ Len(t) \in Nat /\ Len(u) \in Nat
      /\ \A i \in 1..(Len(s) + Len(t)) :
           (s \o t)[i] = IF i <= Len(s) THEN s[i] ELSE t[i - Len(s)]
  BY ConcatPlaces
<1>2. /\ t \o u \in Seq(S) /\ Len(t \o u) = Len(t) + Len(u)
      /\ \A i \in 1..(Len(t) + Len(u)) :
           (t \o u)[i] = IF i <= Len(t) THEN t[i] ELSE u[i - Len(t)]
  BY ConcatPlaces
<1>3. /\ a \in Seq(S) /\ Len(a) = Len(s \o t) + Len(u)
      /\ \A i \in 1..(Len(s \o t) + Len(u)) :
           a[i] = IF i <= Len(s \o t) THEN (s \o t)[i] ELSE u[i - Len(s \o t)]
  BY <1>1, ConcatPlaces
<1>4. /\ b \in Seq(S) /\ Len(b) = Len(s) + Len(t \o u)
      /\ \A i \in 1..(Len(s) + Len(t \o u)) :
           b[i] = IF i <= Len(s) THEN s[i] ELSE (t \o u)[i - Len(s)]
  BY <1>2, ConcatPlaces
<1> HIDE DEF a, b
<1>5. ASSUME NEW i \in 1..Len(a) PROVE a[i] = b[i]
  <2>1. CASE i <= Len(s)
    BY <1>1, <1>2, <1>3, <1>4, <2>1
  <2>2. CASE i > Len(s) /\ i <= Len(s) + Len(t)
    <3>1. /\ i \in 1..(Len(s \o t) + Len(u)) /\ i <= Len(s \o t) /\ i \in 1..(Len(s) + Len(t))
          /\ i \in 1..(Len(s) + Len(t \o u)) /\ ~(i <= Len(s))
          /\ i - Len(s) \in 1..(Len(t) + Len(u)) /\ i - Len(s) <= Len(t)
      BY <1>1, <1>2, <1>3, <2>2
    <3>2. a[i] = t[i - Len(s)]
      BY <1>1, <1>3, <3>1, Zenon
    <3>3. b[i] = t[i - Len(s)]
      BY <1>2, <1>4, <3>1, Zenon
    <3> QED BY <3>2, <3>3, Zenon
  <2>3. CASE i > Len(s) + Len(t)
    <3>1. /\ i \in 1..(Len(s \o t) + Len(u)) /\ ~(i <= Len(s \o t))
          /\ i \in 1..(Len(s) + Len(t \o u)) /\ ~(i <= Len(s))
          /\ i - Len(s) \in 1..(Len(t) + Len(u)) /\ ~(i - Len(s) <= Len(t))
          /\ i - Len(s \o t) = (i - Len(s)) - Len(t)
      BY <1>1, <1>2, <1>3, <2>3
    <3>2. a[i] = u[i - Len(s \o t)]
      BY <1>3, <3>1, Zenon
    <3>3. b[i] = u[(i - Len(s)) - Len(t)]
      BY <1>2, <1>4, <3>1, Zenon
    <3> QED BY <3>1, <3>2, <3>3, Zenon
  <2> QED BY <1>1, <1>3, <2>1, <2>2, <2>3
<1>6. Len(a) = Len(b)
  BY <1>1, <1>2, <1>3, <1>4
<1>7. a = b
  BY <1>3, <1>4, <1>5, <1>6, SameSeq
<1> QED BY <1>7 DEF a, b

LEMMA HeadTailPlaces ==
    ASSUME NEW S, NEW s \in Seq(S), s # <<>>
    PROVE  /\ Head(s) \in S /\ Tail(s) \in Seq(S)
           /\ Len(s) \in Nat \ {0} /\ Len(Tail(s)) = Len(s) - 1
           /\ Head(s) = s[1] /\ \A i \in 1..Len(Tail(s)) : Tail(s)[i] = s[i + 1]
  OBVIOUS

LEMMA AppendPlaces ==
    ASSUME NEW S, NEW s \in Seq(S), NEW x \in S
    PROVE  /\ Append(s, x) \in Seq(S) /\ Append(s, x) # <<>>
           /\ Len(Append(s, x)) = Len(s) + 1 /\ Append(s, x)[Len(s) + 1] = x
           /\ \A i \in 1..Len(s) : Append(s, x)[i] = s[i]
  OBVIOUS

-----------------------------------------------------------------------------
(* The elements of a sequence.                                             *)

Elems(s) == {s[i] : i \in 1..Len(s)}

\* What concatenating, appending and taking the first element do to them.
LEMMA ElemsConcat ==
    ASSUME NEW S, NEW s \in Seq(S), NEW t \in Seq(S)
    PROVE  Elems(s \o t) = Elems(s) \cup Elems(t)
<1> DEFINE c == s \o t
<1>1. /\ Len(c) = Len(s) + Len(t)
      /\ \A i \in 1..Len(c) : c[i] = IF i <= Len(s) THEN s[i] ELSE t[i - Len(s)]
  BY ConcatPlaces
<1>2. Len(s) \in Nat /\ Len(t) \in Nat
  BY ConcatPlaces
<1> HIDE DEF c
<1>3. ASSUME NEW x \in Elems(c) PROVE x \in Elems(s) \cup Elems(t)
  BY <1>1, <1>2, <1>3 DEF Elems
<1>4. ASSUME NEW i \in 1..Len(s) PROVE s[i] \in Elems(c)
  <2>1. i \in 1..Len(c) /\ c[i] = s[i]
    BY <1>1, <1>2
  <2> QED BY <2>1 DEF Elems
<1>5. ASSUME NEW i \in 1..Len(t) PROVE t[i] \in Elems(c)
  <2>1. i + Len(s) \in 1..Len(c) /\ c[i + Len(s)] = t[i]
    BY <1>1, <1>2
  <2> QED BY <2>1 DEF Elems
<1>6. Elems(s) \subseteq Elems(c)
  BY <1>4 DEF Elems
<1>7. Elems(t) \subseteq Elems(c)
  BY <1>5 DEF Elems
<1> QED BY <1>3, <1>6, <1>7 DEF c

LEMMA ElemsSmall ==
    /\ Elems(<<>>) = {}
    /\ \A x : Elems(<<x>>) = {x}
  BY DEF Elems

LEMMA ElemsAppend ==
    ASSUME NEW S, NEW s \in Seq(S), NEW x \in S
    PROVE  Elems(Append(s, x)) = Elems(s) \cup {x}
<1>1. Append(s, x) = s \o <<x>> /\ <<x>> \in Seq(S)
  OBVIOUS
<1>2. Elems(s \o <<x>>) = Elems(s) \cup Elems(<<x>>)
  <2>1. PICK t \in Seq(S) : t = <<x>>
    BY <1>1, Zenon
  <2>2. Elems(s \o t) = Elems(s) \cup Elems(t)
    BY ElemsConcat
  <2> QED BY <2>1, <2>2, Zenon
<1> QED BY <1>1, <1>2, ElemsSmall, Zenon

LEMMA ElemsHeadTail ==
    ASSUME NEW S, NEW s \in Seq(S), s # <<>>
    PROVE  Elems(s) = {Head(s)} \cup Elems(Tail(s))
<1>1. s = <<Head(s)>> \o Tail(s) /\ <<Head(s)>> \in Seq(S) /\ Tail(s) \in Seq(S)
  OBVIOUS
<1>2. Elems(<<Head(s)>> \o Tail(s)) = Elems(<<Head(s)>>) \cup Elems(Tail(s))
  <2>1. PICK t \in Seq(S) : t = <<Head(s)>>
    BY <1>1, Zenon
  <2>2. PICK u \in Seq(S) : u = Tail(s)
    BY <1>1, Zenon
  <2>3. Elems(t \o u) = Elems(t) \cup Elems(u)
    BY ElemsConcat
  <2> QED BY <2>1, <2>2, <2>3, Zenon
<1> QED BY <1>1, <1>2, ElemsSmall, Zenon

LEMMA ElemsIn ==
    ASSUME NEW S, NEW s \in Seq(S)
    PROVE  Elems(s) \subseteq S
  BY DEF Elems

\* A sequence cut in two.
LEMMA CutInTwo ==
    ASSUME NEW S, NEW s \in Seq(S), NEW n \in Nat, n <= Len(s)
    PROVE  /\ SubSeq(s, 1, n) \in Seq(S) /\ Len(SubSeq(s, 1, n)) = n
           /\ SubSeq(s, n + 1, Len(s)) \in Seq(S)
           /\ Len(SubSeq(s, n + 1, Len(s))) = Len(s) - n
           /\ SubSeq(s, 1, n) \o SubSeq(s, n + 1, Len(s)) = s
<1> DEFINE a == SubSeq(s, 1, n)
           b == SubSeq(s, n + 1, Len(s))
<1>1. /\ a \in Seq(S) /\ Len(a) = n /\ \A i \in 1..n : a[i] = s[i]
      /\ b \in Seq(S) /\ Len(b) = Len(s) - n /\ \A i \in 1..(Len(s) - n) : b[i] = s[n + i]
      /\ Len(s) \in Nat
  BY SMTT(30)
<1> HIDE DEF a, b
<1>2. /\ a \o b \in Seq(S) /\ Len(a \o b) = Len(s)
      /\ \A i \in 1..Len(s) : (a \o b)[i] = IF i <= n THEN a[i] ELSE b[i - n]
  BY <1>1
<1>3. ASSUME NEW i \in 1..Len(s) PROVE (a \o b)[i] = s[i]
  <2>1. CASE i <= n BY <1>1, <1>2, <2>1
  <2>2. CASE ~(i <= n)
    <3>1. i - n \in 1..(Len(s) - n) /\ n + (i - n) = i
      BY <1>1, <2>2
    <3>2. b[i - n] = s[n + (i - n)]
      BY <1>1, <3>1
    <3> QED BY <1>2, <2>2, <3>1, <3>2
  <2> QED BY <2>1, <2>2
<1>4. a \o b = s
  BY <1>2, <1>3, SameSeq
<1> QED BY <1>1, <1>4 DEF a, b

\* What is left of a sequence from one of its places on.
LEMMA SuffixHead ==
    ASSUME NEW S, NEW s \in Seq(S), NEW j \in 1..Len(s)
    PROVE  /\ SubSeq(s, j, Len(s)) \in Seq(S) /\ SubSeq(s, j + 1, Len(s)) \in Seq(S)
           /\ SubSeq(s, j, Len(s)) = <<s[j]>> \o SubSeq(s, j + 1, Len(s))
           /\ Elems(SubSeq(s, j, Len(s))) \subseteq Elems(s)
<1> DEFINE a == SubSeq(s, j, Len(s))
           b == SubSeq(s, j + 1, Len(s))
<1>0. Len(s) \in Nat /\ j \in Nat /\ j >= 1 /\ j <= Len(s) /\ s[j] \in S
  OBVIOUS
<1>1. /\ a \in Seq(S) /\ Len(a) = Len(s) - j + 1
      /\ \A k \in 1..(Len(s) - j + 1) : a[k] = s[j + k - 1]
  BY <1>0
<1>2. /\ b \in Seq(S) /\ Len(b) = Len(s) - j
      /\ \A k \in 1..(Len(s) - j) : b[k] = s[j + k]
  <2>1. CASE j = Len(s)
    <3>1. b = <<>>
      BY <1>0, <2>1
    <3> QED BY <1>0, <2>1, <3>1
  <2>2. CASE j # Len(s)
    BY <1>0, <2>2, SMTT(30)
  <2> QED BY <2>1, <2>2
<1> HIDE DEF a, b
<1>3. <<s[j]>> \in Seq(S) /\ Len(<<s[j]>>) = 1 /\ <<s[j]>>[1] = s[j]
  BY <1>0
<1>4. /\ <<s[j]>> \o b \in Seq(S) /\ Len(<<s[j]>> \o b) = 1 + Len(b)
      /\ \A k \in 1..(1 + Len(b)) :
           (<<s[j]>> \o b)[k] = IF k <= 1 THEN <<s[j]>>[k] ELSE b[k - 1]
  <2>1. PICK t \in Seq(S) : t = <<s[j]>>
    BY <1>3, Zenon
  <2>2. /\ t \o b \in Seq(S) /\ Len(t \o b) = Len(t) + Len(b)
        /\ \A k \in 1..(Len(t) + Len(b)) :
             (t \o b)[k] = IF k <= Len(t) THEN t[k] ELSE b[k - Len(t)]
    BY <1>2, ConcatPlaces
  <2>3. Len(t) = 1
    BY <1>3, <2>1, Zenon
  <2> QED BY <2>1, <2>2, <2>3, Zenon
<1>5. ASSUME NEW k \in 1..Len(a) PROVE a[k] = (<<s[j]>> \o b)[k]
  <2>1. CASE k = 1
    BY <1>0, <1>1, <1>2, <1>3, <1>4, <2>1, SMTT(30)
  <2>2. CASE k # 1
    <3>1. /\ k \in 1..(1 + Len(b)) /\ k - 1 \in 1..(Len(s) - j) /\ ~(k <= 1)
          /\ j + (k - 1) = j + k - 1
      BY <1>0, <1>1, <1>2, <2>2
    <3> QED BY <1>0, <1>1, <1>2, <1>4, <3>1
  <2> QED BY <2>1, <2>2
<1>6. a = <<s[j]>> \o b
  <2> DEFINE c == <<s[j]>> \o b
  <2>1. Len(c) = Len(a) /\ c \in Seq(S)
    BY <1>0, <1>1, <1>2, <1>4
  <2>2. \A k \in 1..Len(a) : a[k] = c[k]
    BY <1>5
  <2> HIDE DEF c
  <2>3. a = c
    BY <1>1, <2>1, <2>2, SameSeq
  <2> QED BY <2>3 DEF c
<1>7. Elems(a) \subseteq Elems(s)
  <2>1. ASSUME NEW k \in 1..Len(a) PROVE a[k] \in Elems(s)
    <3>1. j + k - 1 \in 1..Len(s) /\ k \in 1..(Len(s) - j + 1)
      BY <1>0, <1>1
    <3>2. a[k] = s[j + k - 1]
      BY <1>1, <3>1, Zenon
    <3> QED BY <3>1, <3>2 DEF Elems
  <2> QED BY <2>1 DEF Elems
<1> QED BY <1>1, <1>2, <1>6, <1>7 DEF a, b

\* Four sequences end to end.
LEMMA FourParts ==
    ASSUME NEW S, NEW a \in Seq(S), NEW b \in Seq(S), NEW c \in Seq(S), NEW d \in Seq(S)
    PROVE  /\ a \o b \o c \o d \in Seq(S)
           /\ Len(a \o b \o c \o d) = Len(a) + Len(b) + Len(c) + Len(d)
           /\ Elems(a \o b \o c \o d) = Elems(a) \cup Elems(b) \cup Elems(c) \cup Elems(d)
<1>1. \A s, t \in Seq(S) : /\ s \o t \in Seq(S)
                            /\ Len(s \o t) = Len(s) + Len(t)
                            /\ Elems(s \o t) = Elems(s) \cup Elems(t)
  BY ElemsConcat
<1>2. /\ a \o b \in Seq(S) /\ Len(a \o b) = Len(a) + Len(b)
      /\ Elems(a \o b) = Elems(a) \cup Elems(b)
  BY <1>1, Zenon
<1>3. /\ (a \o b) \o c \in Seq(S) /\ Len((a \o b) \o c) = Len(a \o b) + Len(c)
      /\ Elems((a \o b) \o c) = Elems(a \o b) \cup Elems(c)
  BY <1>1, <1>2, Zenon
<1>4. /\ ((a \o b) \o c) \o d \in Seq(S)
      /\ Len(((a \o b) \o c) \o d) = Len((a \o b) \o c) + Len(d)
      /\ Elems(((a \o b) \o c) \o d) = Elems((a \o b) \o c) \cup Elems(d)
  BY <1>1, <1>3, Zenon
<1> QED BY <1>2, <1>3, <1>4, Zenon

-----------------------------------------------------------------------------
(* Numbers                                                                 *)

\* Quotients: how many whole pieces of k a number has.
LEMMA DivFacts ==
    ASSUME NEW k \in Nat \ {0}, NEW x \in Nat
    PROVE  /\ x \div k \in Nat /\ k * (x \div k) \in Nat
           /\ k * (x \div k) <= x /\ x < k * (x \div k) + k
  OBVIOUS

LEMMA DivUnique ==
    ASSUME NEW k \in Nat \ {0}, NEW x \in Nat, NEW q \in Nat, k * q <= x, x < k * q + k
    PROVE  x \div k = q
<1> DEFINE p == x \div k
<1>1. p \in Nat /\ k * p <= x /\ x < k * p + k
  BY DivFacts
<1> HIDE DEF p
<1>2. k * q - k * p < k /\ k * p - k * q < k
  BY <1>1
<1>3. k * (q - p) < k /\ k * (p - q) < k
  BY <1>1, <1>2
<1>4. q - p < 1 /\ p - q < 1
  BY <1>1, <1>3
<1> QED BY <1>1, <1>4 DEF p

\* Adding less than what is missing to the next piece, and just that.
LEMMA DivSame ==
    ASSUME NEW k \in Nat \ {0}, NEW x \in Nat, NEW n \in Nat, x + n < k * (x \div k) + k
    PROVE  (x + n) \div k = x \div k
<1> DEFINE q == x \div k
<1>1. q \in Nat /\ k * q \in Nat /\ k * q <= x
  BY DivFacts
<1> HIDE DEF q
<1>2. x + n \in Nat /\ k * q <= x + n /\ x + n < k * q + k
  BY <1>1 DEF q
<1>3. (x + n) \div k = q
  BY <1>1, <1>2, DivUnique
<1> QED BY <1>3 DEF q

LEMMA DivNext ==
    ASSUME NEW k \in Nat \ {0}, NEW x \in Nat, NEW n \in Nat, x + n = k * (x \div k) + k
    PROVE  (x + n) \div k = (x \div k) + 1 /\ k * ((x + n) \div k) = x + n
<1> DEFINE q == x \div k
<1>1. q \in Nat /\ k * q \in Nat /\ k * q <= x
  BY DivFacts
<1> HIDE DEF q
<1>2. k * (q + 1) = k * q + k
  BY <1>1
<1>3. x + n = k * q + k
  BY DEF q
<1>4. /\ x + n \in Nat /\ q + 1 \in Nat /\ k * (q + 1) = x + n
      /\ k * (q + 1) <= x + n /\ x + n < k * (q + 1) + k
  BY <1>1, <1>2, <1>3
<1>5. (x + n) \div k = q + 1
  BY <1>4, DivUnique, Zenon
<1> QED BY <1>4, <1>5 DEF q
=============================================================================
