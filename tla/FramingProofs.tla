----------------------------- MODULE FramingProofs -----------------------------
(***************************************************************************)
(* How a stream is cut does not matter, for any layout of the header, any  *)
(* limit and any items.                                                    *)
(***************************************************************************)
EXTENDS Framing, SequenceTheorems, WellFoundedInduction, TLAPS

USE LayoutAssumption DEF HeaderBytes

-----------------------------------------------------------------------------
(***************************************************************************)
(* Recursion over 0..n.                                                    *)
(***************************************************************************)
\* Induction over the numbers, for the members of a set.
LEMMA NatInSet ==
    ASSUME NEW S, 0 \in S, \A n \in Nat : n \in S => n + 1 \in S
    PROVE  Nat \subseteq S
<1> SUFFICES ASSUME Nat \ S # {} PROVE FALSE
    OBVIOUS
<1>1. PICK x \in Nat \ S : \A y \in Nat \ S : <<y, x>> \notin OpToRel(<, Nat)
    BY NatLessThanWellFounded, WFMin
<1>2. x # 0 /\ x \in Nat
    OBVIOUS
<1>3. x - 1 \in Nat /\ x - 1 < x /\ (x - 1) + 1 = x
    BY <1>2
<1>4. x - 1 \in S
    BY <1>1, <1>3 DEF OpToRel
<1> QED
    BY <1>3, <1>4

\* f starts with base and goes on with step.
Unfolds(f, n, base, step) ==
    f = [k \in 0..n |-> IF k = 0 THEN base ELSE step[<<k, f[k - 1]>>]]

\* There is such a function.
LEMMA UnfoldsExists ==
    ASSUME NEW T, NEW n \in Nat, NEW base \in T, NEW step \in [(1..n) \X T -> T]
    PROVE  \E f \in [0..n -> T] : Unfolds(f, n, base, step)
<1> DEFINE S == {m \in Nat : m <= n => \E f \in [0..m -> T] : Unfolds(f, m, base, step)}
<1>1. 0 \in S
  <2> DEFINE f == [k \in 0..0 |-> base]
  <2>1. f \in [0..0 -> T] /\ f = [k \in 0..0 |-> IF k = 0 THEN base ELSE step[<<k, f[k - 1]>>]]
      OBVIOUS
  <2> QED
      BY <2>1 DEF Unfolds
<1>2. ASSUME NEW m \in Nat, m \in S PROVE m + 1 \in S
  <2> SUFFICES ASSUME m + 1 <= n
               PROVE  \E f \in [0..(m + 1) -> T] : Unfolds(f, m + 1, base, step)
      OBVIOUS
  <2>1. PICK f \in [0..m -> T] : Unfolds(f, m, base, step)
      BY <1>2
  <2>2. f = [k \in 0..m |-> IF k = 0 THEN base ELSE step[<<k, f[k - 1]>>]]
      BY <2>1 DEF Unfolds
  <2> DEFINE last == step[<<m + 1, f[m]>>]
             g == [k \in 0..(m + 1) |-> IF k = m + 1 THEN last ELSE f[k]]
             h == [k \in 0..(m + 1) |-> IF k = 0 THEN base ELSE step[<<k, g[k - 1]>>]]
  <2>3. last \in T
    <3>1. m + 1 \in 1..n /\ f[m] \in T
        OBVIOUS
    <3> QED
        BY <3>1
  <2>4. ASSUME NEW k \in 0..(m + 1) PROVE g[k] = h[k] /\ g[k] \in T
    <3>1. CASE k = m + 1
      <4>1. k # 0 /\ k - 1 \in 0..(m + 1) /\ k - 1 # m + 1 /\ k - 1 = m
          BY <3>1
      <4>2. g[k - 1] = f[m]
          BY <4>1
      <4> QED
          BY <2>3, <3>1, <4>1, <4>2
    <3>2. CASE k # m + 1
      <4>1. k \in 0..m /\ g[k] = f[k]
          BY <3>2
      <4>2. CASE k = 0
          BY <2>2, <4>1, <4>2
      <4>3. CASE k # 0
        <5>1. k - 1 \in 0..(m + 1) /\ k - 1 # m + 1
            BY <4>1, <4>3
        <5>2. g[k - 1] = f[k - 1]
            BY <5>1
        <5>3. f[k] = step[<<k, f[k - 1]>>]
            BY <2>2, <4>1, <4>3
        <5> QED
            BY <4>1, <4>3, <5>2, <5>3
      <4> QED
          BY <4>2, <4>3
    <3> QED
        BY <3>1, <3>2
  <2>5. g = h /\ g \in [0..(m + 1) -> T]
    <3> HIDE DEF last
    <3>1. g = [k \in 0..(m + 1) |-> g[k]] /\ h = [k \in 0..(m + 1) |-> h[k]]
        OBVIOUS
    <3> HIDE DEF g, h
    <3> QED
        BY <2>4, <3>1
  <2> QED
      BY <2>5 DEF Unfolds
<1>3. Nat \subseteq S
  <2> HIDE DEF S
  <2> QED
      BY <1>1, <1>2, NatInSet
<1> QED
    BY <1>3

-----------------------------------------------------------------------------
(***************************************************************************)
(* Sequences.                                                              *)
(***************************************************************************)
\* The elements of a concatenation.
LEMMA CatFacts ==
    ASSUME NEW T, NEW a \in Seq(T), NEW b \in Seq(T)
    PROVE  /\ a \o b \in Seq(T) /\ Len(a \o b) = Len(a) + Len(b)
           /\ Len(a) \in Nat /\ Len(b) \in Nat
           /\ \A k \in 1..Len(a) : (a \o b)[k] = a[k]
           /\ \A k \in 1..Len(b) : (a \o b)[Len(a) + k] = b[k]
OBVIOUS

\* Where the parentheses are does not matter.
LEMMA CatAssociative ==
    ASSUME NEW T, NEW a \in Seq(T), NEW b \in Seq(T), NEW c \in Seq(T),
           NEW ab, ab = a \o b, NEW bc, bc = b \o c
    PROVE  ab \o c = a \o bc
<1> DEFINE l == ab \o c
           r == a \o bc
<1>1. /\ ab \in Seq(T) /\ Len(ab) = Len(a) + Len(b) /\ bc \in Seq(T) /\ Len(bc) = Len(b) + Len(c)
      /\ Len(a) \in Nat /\ Len(b) \in Nat /\ Len(c) \in Nat
      /\ \A k \in 1..Len(a) : ab[k] = a[k]
      /\ \A k \in 1..Len(b) : ab[Len(a) + k] = b[k] /\ bc[k] = b[k]
      /\ \A k \in 1..Len(c) : bc[Len(b) + k] = c[k]
    BY CatFacts
<1>2. /\ l \in Seq(T) /\ Len(l) = Len(ab) + Len(c)
      /\ r \in Seq(T) /\ Len(r) = Len(a) + Len(bc)
      /\ \A k \in 1..Len(ab) : l[k] = ab[k]
      /\ \A k \in 1..Len(c) : l[Len(ab) + k] = c[k]
      /\ \A k \in 1..Len(a) : r[k] = a[k]
      /\ \A k \in 1..Len(bc) : r[Len(a) + k] = bc[k]
  <2>1. ASSUME NEW x \in Seq(T), NEW y \in Seq(T)
        PROVE  /\ x \o y \in Seq(T) /\ Len(x \o y) = Len(x) + Len(y)
               /\ \A k \in 1..Len(x) : (x \o y)[k] = x[k]
               /\ \A k \in 1..Len(y) : (x \o y)[Len(x) + k] = y[k]
      BY CatFacts
  <2>2. ab \in Seq(T) /\ bc \in Seq(T)
      BY <1>1
  <2> QED
      BY ONLY <2>1, <2>2, c \in Seq(T), a \in Seq(T) DEF l, r
<1> HIDE DEF l, r
<1>3. ASSUME NEW k \in 1..Len(l) PROVE l[k] = r[k]
  <2>1. CASE k <= Len(a)
    <3>1. k \in 1..Len(a) /\ k \in 1..Len(ab)
        BY <1>1, <1>2, <2>1
    <3> QED
        BY <1>1, <1>2, <3>1
  <2>2. CASE k > Len(a) /\ k <= Len(ab)
    <3>1. PICK j \in 1..Len(b) : k = Len(a) + j
      <4>1. k - Len(a) \in 1..Len(b) /\ k = Len(a) + (k - Len(a))
          BY <1>1, <1>2, <2>2
      <4> QED
          BY <4>1
    <3>2. j \in 1..Len(bc) /\ k \in 1..Len(ab)
        BY <1>1, <2>2, <3>1
    <3> QED
        BY <1>1, <1>2, <3>1, <3>2
  <2>3. CASE k > Len(ab)
    <3>1. PICK j \in 1..Len(c) : k = Len(ab) + j
      <4>1. k - Len(ab) \in 1..Len(c) /\ k = Len(ab) + (k - Len(ab))
          BY <1>1, <1>2, <2>3
      <4> QED
          BY <4>1
    <3>2. Len(b) + j \in 1..Len(bc) /\ k = Len(a) + (Len(b) + j)
        BY <1>1, <3>1
    <3>3. l[k] = c[j]
        BY <1>2, <3>1
    <3>4. r[k] = bc[Len(b) + j]
        BY <1>2, <3>2
    <3> QED
        BY <1>1, <3>3, <3>4
  <2> QED
      BY <1>1, <1>2, <2>1, <2>2, <2>3
<1>4. Len(l) = Len(r)
    BY <1>1, <1>2
<1>5. l = r
    BY <1>2, <1>3, <1>4, SeqEqual
<1> QED
    BY <1>5 DEF l, r

\* A sequence in two parts.
LEMMA CutFacts ==
    ASSUME NEW T, NEW a \in Seq(T), NEW m \in 0..Len(a)
    PROVE  /\ SubSeq(a, 1, m) \in Seq(T) /\ Len(SubSeq(a, 1, m)) = m
           /\ \A k \in 1..m : SubSeq(a, 1, m)[k] = a[k]
           /\ SubSeq(a, m + 1, Len(a)) \in Seq(T)
           /\ Len(SubSeq(a, m + 1, Len(a))) = Len(a) - m
           /\ \A k \in 1..(Len(a) - m) : SubSeq(a, m + 1, Len(a))[k] = a[m + k]
           /\ a = SubSeq(a, 1, m) \o SubSeq(a, m + 1, Len(a))
<1>1. Len(a) \in Nat /\ m \in Nat /\ m <= Len(a)
    OBVIOUS
<1>2. /\ SubSeq(a, 1, m) \in Seq(T) /\ Len(SubSeq(a, 1, m)) = m
      /\ \A k \in 1..m : SubSeq(a, 1, m)[k] = a[k]
    BY <1>1
<1>3. /\ SubSeq(a, m + 1, Len(a)) \in Seq(T)
      /\ Len(SubSeq(a, m + 1, Len(a))) = Len(a) - m
      /\ \A k \in 1..(Len(a) - m) : SubSeq(a, m + 1, Len(a))[k] = a[m + k]
    BY <1>1
<1> DEFINE u == SubSeq(a, 1, m)
           v == SubSeq(a, m + 1, Len(a))
<1>4. a = u \o v
  <2>1. u \in Seq(T) /\ Len(u) = m /\ v \in Seq(T) /\ Len(v) = Len(a) - m
      BY <1>2, <1>3
  <2>2. /\ \A k \in 1..m : u[k] = a[k]
        /\ \A k \in 1..(Len(a) - m) : v[k] = a[m + k]
      BY <1>2, <1>3
  <2> HIDE DEF u, v
  <2>3. u \o v \in Seq(T) /\ Len(u \o v) = Len(a)
      BY <1>1, <2>1, CatFacts
  <2>4. ASSUME NEW k \in 1..Len(a) PROVE a[k] = (u \o v)[k]
    <3>1. CASE k <= m
        BY <1>1, <2>1, <2>2, <3>1, CatFacts
    <3>2. CASE k > m
      <4>1. k - m \in 1..(Len(a) - m) /\ m + (k - m) = k
          BY <1>1, <3>2
      <4>2. (u \o v)[m + (k - m)] = v[k - m]
          BY <2>1, <4>1, CatFacts
      <4> QED
          BY <2>2, <4>1, <4>2
    <3>3. k <= m \/ k > m
        BY <1>1
    <3> QED
        BY <3>1, <3>2, <3>3
  <2> QED
      BY <2>3, <2>4, SeqEqual
<1> QED
    BY <1>2, <1>3, <1>4

-----------------------------------------------------------------------------
(***************************************************************************)
(* The length field.                                                       *)
(***************************************************************************)
\* The defining equation of Power.
LEMMA PowerUnfolds ==
    Power = [k \in 0..LengthBytes |-> IF k = 0 THEN 1 ELSE Base * Power[k - 1]]
<1> DEFINE step == [p \in (1..LengthBytes) \X Nat |-> Base * p[2]]
           Eq(f) == f = [k \in 0..LengthBytes |-> IF k = 0 THEN 1 ELSE Base * f[k - 1]]
<1>1. step \in [(1..LengthBytes) \X Nat -> Nat]
    OBVIOUS
<1>2. PICK f \in [0..LengthBytes -> Nat] : Unfolds(f, LengthBytes, 1, step)
  <2> HIDE DEF step
  <2> QED
      BY <1>1, UnfoldsExists
<1>3. ASSUME NEW k \in 0..LengthBytes, k # 0 PROVE step[<<k, f[k - 1]>>] = Base * f[k - 1]
  <2>1. k \in 1..LengthBytes /\ k - 1 \in 0..LengthBytes
      BY <1>3
  <2>2. <<k, f[k - 1]>> \in (1..LengthBytes) \X Nat
      BY <2>1
  <2> QED
      BY <2>2
<1>4. Eq(f)
  <2> HIDE DEF step
  <2> QED
      BY <1>2, <1>3 DEF Unfolds
<1>5. Power = CHOOSE g : Eq(g)
    BY DEF Power
<1>6. Eq(CHOOSE g : Eq(g))
    BY <1>4
<1> QED
    BY <1>5, <1>6

\* Powers are positive.
LEMMA PowerFacts ==
    /\ Power[0] = 1
    /\ \A k \in 0..LengthBytes : Power[k] \in Nat \ {0}
    /\ \A k \in 1..LengthBytes : Power[k] = Base * Power[k - 1]
<1>1. Power[0] = 1
    BY PowerUnfolds
<1>2. ASSUME NEW k \in 1..LengthBytes PROVE Power[k] = Base * Power[k - 1]
  <2>1. k \in 0..LengthBytes /\ k # 0
      OBVIOUS
  <2> QED
      BY <2>1, PowerUnfolds
<1> DEFINE S == {k \in Nat : k \in 0..LengthBytes => Power[k] \in Nat \ {0}}
<1>3. 0 \in S
    BY <1>1
<1>4. ASSUME NEW k \in Nat, k \in S PROVE k + 1 \in S
  <2> SUFFICES ASSUME k + 1 \in 0..LengthBytes PROVE Power[k + 1] \in Nat \ {0}
      OBVIOUS
  <2>1. k + 1 \in 1..LengthBytes /\ k \in 0..LengthBytes /\ (k + 1) - 1 = k
      OBVIOUS
  <2>2. Power[k] \in Nat \ {0}
      BY <1>4, <2>1
  <2>3. Power[k + 1] = Base * Power[k]
      BY <1>2, <2>1
  <2>4. ASSUME NEW p \in Nat \ {0} PROVE Base * p \in Nat \ {0}
      OBVIOUS
  <2> QED
      BY <2>2, <2>3, <2>4
<1>5. Nat \subseteq S
  <2> HIDE DEF S
  <2> QED
      BY <1>3, <1>4, NatInSet
<1> QED
    BY <1>1, <1>2, <1>5

\* Dividing twice is dividing by the product.
LEMMA DivDiv ==
    ASSUME NEW n \in Nat, NEW q \in Nat \ {0}, NEW b \in Nat \ {0}
    PROVE  /\ n \div q \in Nat /\ (n \div q) % b \in 0..(b - 1)
           /\ (n \div (b * q)) * b + ((n \div q) % b) = n \div q
<1> DEFINE m == n \div q
           r == n % q
           d == m \div b
           s == m % b
<1>1. m \in Nat /\ r \in 0..(q - 1) /\ n = q * m + r
    OBVIOUS
<1>2. d \in Nat /\ s \in 0..(b - 1) /\ m = b * d + s
    BY <1>1
<1> DEFINE t == q * s + r
<1>3. n = (b * q) * d + t /\ t \in 0..(b * q - 1)
  <2> HIDE DEF m, r, d, s
  <2>1. n = q * (b * d + s) + r
      BY <1>1, <1>2
  <2>2. q * (b * d + s) = (b * q) * d + q * s
      BY <1>2
  <2>3. q * s <= q * (b - 1) /\ q * s \in Nat
      BY <1>2
  <2>4. q * (b - 1) + q = b * q
      OBVIOUS
  <2>5. n = (b * q) * d + (q * s + r)
    <3> DEFINE x == q * (b * d + s)
               y == (b * q) * d
               z == q * s
    <3>1. x \in Int /\ y \in Int /\ z \in Int /\ r \in Int /\ n = x + r /\ x = y + z
        BY <1>1, <1>2, <2>1, <2>2, <2>3
    <3> HIDE DEF x, y, z
    <3>2. n = y + (z + r)
        BY ONLY <3>1
    <3> QED
        BY <3>2 DEF y, z
  <2>6. q * s + r \in 0..(b * q - 1)
    <3> DEFINE v == b * q
               w == q * (b - 1)
               z == q * s
    <3>1. v \in Int /\ w \in Int /\ z \in Nat /\ z <= w /\ w + q = v
        BY <2>3, <2>4
    <3> HIDE DEF v, w, z
    <3>2. z + r \in 0..(v - 1)
        BY <1>1, <3>1
    <3> QED
        BY <3>2 DEF v, z
  <2> QED
      BY <2>5, <2>6 DEF t
<1>4. n \div (b * q) = d
  <2> HIDE DEF m, r, d, s, t
  <2>1. b * q \in Nat \ {0}
      OBVIOUS
  <2>2. ASSUME NEW c \in Nat \ {0}, n = c * d + t, t \in 0..(c - 1) PROVE n \div c = d
      BY <1>2, <2>2
  <2> QED
      BY <1>3, <2>1, <2>2
<1> QED
    BY <1>1, <1>2, <1>4

\* value[k] is what the first k bytes of the length field spell.
Spells(f, bytes) ==
    f = [k \in 0..LengthBytes |-> IF k = 0 THEN 0 ELSE f[k - 1] * Base + bytes[Len(Magic) + k]]

\* The defining equation of PayloadLength.
LEMMA PayloadLengthIs ==
    ASSUME NEW bytes, \A k \in 1..LengthBytes : bytes[Len(Magic) + k] \in Nat
    PROVE  \E f \in [0..LengthBytes -> Nat] : Spells(f, bytes)
<1> DEFINE step == [p \in (1..LengthBytes) \X Nat |-> p[2] * Base + bytes[Len(Magic) + p[1]]]
<1>1. step \in [(1..LengthBytes) \X Nat -> Nat]
  <2>1. ASSUME NEW p \in (1..LengthBytes) \X Nat
        PROVE  p[2] * Base + bytes[Len(Magic) + p[1]] \in Nat
    <3>1. p[1] \in 1..LengthBytes /\ p[2] \in Nat
        OBVIOUS
    <3>2. bytes[Len(Magic) + p[1]] \in Nat
        BY <3>1
    <3>3. p[2] * Base \in Nat
        BY <3>1
    <3> QED
        BY <3>2, <3>3
  <2> QED
      BY <2>1
<1>2. PICK f \in [0..LengthBytes -> Nat] : Unfolds(f, LengthBytes, 0, step)
  <2> HIDE DEF step
  <2> QED
      BY <1>1, UnfoldsExists
<1>3. ASSUME NEW k \in 0..LengthBytes, k # 0
      PROVE  step[<<k, f[k - 1]>>] = f[k - 1] * Base + bytes[Len(Magic) + k]
  <2>1. k \in 1..LengthBytes /\ k - 1 \in 0..LengthBytes
      BY <1>3
  <2>2. <<k, f[k - 1]>> \in (1..LengthBytes) \X Nat
      BY <2>1
  <2> QED
      BY <2>2
<1>4. Spells(f, bytes)
  <2> HIDE DEF step
  <2> QED
      BY <1>2, <1>3 DEF Unfolds, Spells
<1> QED
    BY <1>4

\* PayloadLength depends on the length field only.
LEMMA SameLength ==
    ASSUME NEW b, NEW c, \A k \in 1..LengthBytes : b[Len(Magic) + k] = c[Len(Magic) + k]
    PROVE  PayloadLength(b) = PayloadLength(c)
<1> DEFINE Eq(f, d) == f = [k \in 0..LengthBytes |->
                              IF k = 0 THEN 0 ELSE f[k - 1] * Base + d[Len(Magic) + k]]
<1>1. ASSUME NEW f PROVE Eq(f, b) <=> Eq(f, c)
  <2>1. ASSUME NEW k \in 0..LengthBytes
        PROVE  (IF k = 0 THEN 0 ELSE f[k - 1] * Base + b[Len(Magic) + k])
             = (IF k = 0 THEN 0 ELSE f[k - 1] * Base + c[Len(Magic) + k])
    <3>1. k # 0 => k \in 1..LengthBytes
        OBVIOUS
    <3> QED
        BY <3>1
  <2>2. [k \in 0..LengthBytes |-> IF k = 0 THEN 0 ELSE f[k - 1] * Base + b[Len(Magic) + k]]
      = [k \in 0..LengthBytes |-> IF k = 0 THEN 0 ELSE f[k - 1] * Base + c[Len(Magic) + k]]
      BY <2>1
  <2> QED
      BY <2>2
<1>2. (CHOOSE f : Eq(f, b)) = CHOOSE f : Eq(f, c)
  <2> HIDE DEF Eq
  <2> QED
      BY <1>1
<1> QED
    BY <1>2 DEF PayloadLength

\* It reads what BigEndian wrote.
LEMMA LengthRoundTrip ==
    ASSUME NEW n \in Nat, n < Power[LengthBytes], NEW bytes,
           \A k \in 1..LengthBytes : bytes[Len(Magic) + k] = BigEndian(n)[k]
    PROVE  PayloadLength(bytes) = n /\ BigEndian(n) \in Seq(Bytes) /\ Len(BigEndian(n)) = LengthBytes
<1>1. ASSUME NEW k \in 1..LengthBytes
      PROVE  /\ LengthBytes - k \in 0..LengthBytes /\ Power[LengthBytes - k] \in Nat \ {0}
             /\ BigEndian(n)[k] = (n \div Power[LengthBytes - k]) % Base
             /\ BigEndian(n)[k] \in Bytes
  <2>1. LengthBytes - k \in 0..LengthBytes
      OBVIOUS
  <2>2. Power[LengthBytes - k] \in Nat \ {0}
      BY <2>1, PowerFacts
  <2>3. BigEndian(n)[k] = (n \div Power[LengthBytes - k]) % Base
      BY DEF BigEndian
  <2>4. (n \div Power[LengthBytes - k]) % Base \in 0..(Base - 1)
      BY <2>2, DivDiv
  <2> QED
      BY <2>1, <2>2, <2>3, <2>4 DEF Bytes
<1>2. BigEndian(n) \in Seq(Bytes) /\ Len(BigEndian(n)) = LengthBytes
  <2>1. BigEndian(n) \in [1..LengthBytes -> Bytes]
    <3>1. BigEndian(n) = [k \in 1..LengthBytes |-> BigEndian(n)[k]]
        BY DEF BigEndian
    <3> QED
        BY <1>1, <3>1
  <2> QED
      BY <2>1
<1> DEFINE Eq(f) == f = [k \in 0..LengthBytes |->
                              IF k = 0 THEN 0 ELSE f[k - 1] * Base + bytes[Len(Magic) + k]]
           f == CHOOSE g : Eq(g)
<1>3. PayloadLength(bytes) = f[LengthBytes]
    BY DEF PayloadLength
<1>4. Eq(f)
  <2>1. ASSUME NEW k \in 1..LengthBytes PROVE bytes[Len(Magic) + k] \in Nat
    <3>1. bytes[Len(Magic) + k] = BigEndian(n)[k] /\ BigEndian(n)[k] \in 0..(Base - 1)
        BY <1>1 DEF Bytes
    <3> QED
        BY <3>1
  <2>2. PICK g : Spells(g, bytes)
      BY <2>1, PayloadLengthIs
  <2>3. Eq(g)
      BY <2>2 DEF Spells
  <2> HIDE DEF Eq
  <2> QED
      BY <2>3
<1> HIDE DEF f
<1> DEFINE S == {k \in Nat : k \in 0..LengthBytes => f[k] = n \div Power[LengthBytes - k]}
<1>5. 0 \in S
  <2>1. f[0] = 0 /\ LengthBytes - 0 = LengthBytes
      BY <1>4
  <2>2. Power[LengthBytes] \in Nat \ {0}
      BY PowerFacts
  <2>3. n \div Power[LengthBytes] = 0
    <3> DEFINE p == Power[LengthBytes]
    <3>1. p \in Nat \ {0} /\ n < p
        BY <2>2
    <3> HIDE DEF p
    <3>2. /\ n \div p \in Nat /\ n % p \in 0..(p - 1)
          /\ n = p * (n \div p) + (n % p)
        BY <3>1
    <3>3. ASSUME NEW d \in Nat, d # 0 PROVE p * d >= p
      <4>1. PICK e \in Nat : d = e + 1
        <5>1. d - 1 \in Nat /\ d = (d - 1) + 1
            BY <3>3
        <5> QED
            BY <5>1
      <4>2. p * (e + 1) = p * e + p /\ p * e \in Nat
          BY <3>1
      <4>3. p * (e + 1) >= p
        <5> DEFINE x == p * e
                   y == p * (e + 1)
        <5>1. x \in Nat /\ y = x + p
            BY <4>2
        <5> HIDE DEF x, y
        <5>2. y >= p
            BY <3>1, <5>1
        <5> QED
            BY <5>2 DEF y
      <4> QED
          BY <4>1, <4>3
    <3>4. n \div p = 0
        BY <3>1, <3>2, <3>3
    <3> QED
        BY <3>4 DEF p
  <2> QED
      BY <2>1, <2>3
<1>6. ASSUME NEW k \in Nat, k \in S PROVE k + 1 \in S
  <2> SUFFICES ASSUME k + 1 \in 0..LengthBytes
               PROVE  f[k + 1] = n \div Power[LengthBytes - (k + 1)]
      OBVIOUS
  <2>1. /\ k + 1 \in 1..LengthBytes /\ k + 1 # 0 /\ (k + 1) - 1 = k /\ k \in 0..LengthBytes
        /\ LengthBytes - k \in 1..LengthBytes /\ (LengthBytes - k) - 1 = LengthBytes - (k + 1)
      OBVIOUS
  <2> DEFINE q == Power[LengthBytes - (k + 1)]
  <2>2. q \in Nat \ {0} /\ bytes[Len(Magic) + (k + 1)] = (n \div q) % Base
      BY <1>1, <2>1
  <2>3. Power[LengthBytes - k] = Base * q
      BY <2>1, PowerFacts
  <2>4. f[k] = n \div (Base * q)
      BY <1>6, <2>1, <2>3
  <2>5. f[k + 1] = f[k] * Base + bytes[Len(Magic) + (k + 1)]
    <3>1. f[k + 1] = f[(k + 1) - 1] * Base + bytes[Len(Magic) + (k + 1)]
        BY <1>4, <2>1
    <3> QED
        BY <2>1, <3>1
  <2> HIDE DEF q
  <2>6. (n \div (Base * q)) * Base + ((n \div q) % Base) = n \div q
      BY <2>2, DivDiv
  <2>7. f[k + 1] = n \div q
      BY <2>2, <2>4, <2>5, <2>6
  <2> QED
      BY <2>7 DEF q
<1>7. Nat \subseteq S
  <2> HIDE DEF S
  <2> QED
      BY <1>5, <1>6, NatInSet
<1>8. f[LengthBytes] = n \div Power[0]
  <2>1. LengthBytes \in S /\ LengthBytes \in 0..LengthBytes /\ LengthBytes - LengthBytes = 0
      BY <1>7
  <2> QED
      BY <2>1
<1>9. n \div Power[0] = n
    BY PowerFacts
<1> QED
    BY <1>2, <1>3, <1>8, <1>9

-----------------------------------------------------------------------------
(***************************************************************************)
(* Items and streams.                                                      *)
(***************************************************************************)
\* An item has a header at least, which the decoder refuses unless the item is a
\* good frame, and reads as its length otherwise.
LEMMA ItemFacts ==
    ASSUME NEW item \in Item, ItemOK(item)
    PROVE  /\ ItemBytes(item) \in Seq(Bytes) /\ Len(ItemBytes(item)) >= HeaderBytes
           /\ BadHeader(ItemBytes(item)) <=> ~Good(item)
           /\ item.framed =>
                 /\ Len(ItemBytes(item)) = HeaderBytes + Len(item.bytes)
                 /\ PayloadLength(ItemBytes(item)) = Len(item.bytes)
                 /\ \A k \in 1..Len(item.bytes) : ItemBytes(item)[HeaderBytes + k] = item.bytes[k]
<1>1. item.framed \in BOOLEAN /\ item.bytes \in Seq(Bytes)
    BY DEF Item
<1>2. CASE ~item.framed
    BY <1>1, <1>2 DEF ItemBytes, ItemOK, Good
<1>3. CASE item.framed
  <2> DEFINE n == Len(item.bytes)
             lf == BigEndian(n)
             I == EncodeFrame(item.bytes)
             M == Len(Magic)
  <2>1. n \in Nat /\ n < Power[LengthBytes] /\ ItemBytes(item) = I /\ I = (Magic \o lf) \o item.bytes
    <3>1. n \in Nat
        BY <1>1
    <3>2. n < Power[LengthBytes]
        BY <1>3 DEF ItemOK
    <3>3. ItemBytes(item) = I
        BY <1>3 DEF ItemBytes
    <3>4. I = (Magic \o lf) \o item.bytes
        BY DEF EncodeFrame
    <3> QED
        BY <3>1, <3>2, <3>3, <3>4
  <2>2. lf \in Seq(Bytes) /\ Len(lf) = LengthBytes
    <3> DEFINE padded == [k \in 1..(M + LengthBytes) |-> lf[k - M]]
    <3>1. ASSUME NEW k \in 1..LengthBytes PROVE padded[Len(Magic) + k] = lf[k]
      <4>1. M \in Nat /\ M + k \in 1..(M + LengthBytes) /\ (M + k) - M = k
          OBVIOUS
      <4> QED
          BY <4>1
    <3> HIDE DEF padded
    <3> QED
        BY <2>1, <3>1, LengthRoundTrip
  <2> HIDE DEF lf
  <2> HIDE DEF I
  <2>3. /\ M \in Nat /\ Magic \in Seq(Bytes)
        /\ I \in Seq(Bytes) /\ Len(I) = (M + LengthBytes) + n
    <3> DEFINE h == Magic \o lf
    <3>1. h \in Seq(Bytes) /\ Len(h) = M + LengthBytes
        BY <2>2
    <3>2. I = h \o item.bytes
        BY <2>1
    <3> HIDE DEF h
    <3>3. I \in Seq(Bytes) /\ Len(I) = Len(h) + n
        BY <1>1, <3>1, <3>2, CatFacts
    <3> QED
        BY <3>1, <3>3
  <2>4. /\ \A k \in 1..M : I[k] = Magic[k]
        /\ \A k \in 1..LengthBytes : I[M + k] = lf[k]
        /\ \A k \in 1..n : I[(M + LengthBytes) + k] = item.bytes[k]
    <3>1. /\ Magic \o lf \in Seq(Bytes) /\ Len(Magic \o lf) = M + LengthBytes
          /\ \A k \in 1..M : (Magic \o lf)[k] = Magic[k]
          /\ \A k \in 1..LengthBytes : (Magic \o lf)[M + k] = lf[k]
        BY <2>2, <2>3
    <3> DEFINE h == Magic \o lf
    <3>2. h \in Seq(Bytes) /\ Len(h) = M + LengthBytes /\ I = h \o item.bytes
        BY <2>1, <3>1
    <3> HIDE DEF h
    <3>3. \A k \in 1..Len(h) : I[k] = h[k]
        BY <1>1, <3>2
    <3>4. \A k \in 1..n : I[Len(h) + k] = item.bytes[k]
        BY <1>1, <3>2
    <3>5. \A k \in 1..M : k \in 1..Len(h)
        BY <2>3, <3>2
    <3>6. \A k \in 1..LengthBytes : M + k \in 1..Len(h)
        BY <2>3, <3>2
    <3> QED
        BY <3>1, <3>2, <3>3, <3>4, <3>5, <3>6 DEF h
  <2>5. PayloadLength(I) = n
      BY <2>1, <2>4, LengthRoundTrip DEF lf
  <2>6. SubSeq(I, 1, M) = Magic
    <3>1. M \in 0..Len(I)
      <4> DEFINE l == Len(I)
      <4>1. l = (M + LengthBytes) + n /\ M \in Nat /\ n \in Nat
          BY <2>1, <2>3
      <4> HIDE DEF l, M, n
      <4>2. M \in 0..l
          BY <4>1
      <4> QED
          BY <4>2 DEF l
    <3>2. SubSeq(I, 1, M) \in Seq(Bytes) /\ Len(SubSeq(I, 1, M)) = M
        BY <2>3, <3>1, CutFacts
    <3>3. \A k \in 1..M : SubSeq(I, 1, M)[k] = Magic[k]
        BY <2>3, <2>4, <3>1, CutFacts
    <3> QED
        BY <2>3, <3>2, <3>3, SeqEqual
  <2>7. BadHeader(I) <=> ~Good(item)
    <3>1. BadHeader(I) <=> PayloadLength(I) > MaxPayloadBytes
        BY <2>6 DEF BadHeader
    <3>2. ~Good(item) <=> n > MaxPayloadBytes
        BY <1>3, <2>1 DEF Good
    <3> QED
        BY <2>5, <3>1, <3>2
  <2>8. HeaderBytes = M + LengthBytes /\ Len(I) >= HeaderBytes
    <3> DEFINE l == Len(I)
               h == M + LengthBytes
    <3>1. l = h + n /\ h \in Nat /\ n \in Nat
        BY <2>1, <2>3
    <3> HIDE DEF l, h, n
    <3>2. l >= h
        BY <3>1
    <3> QED
        BY <3>2 DEF l, h
  <2>9. Len(I) = HeaderBytes + n /\ \A k \in 1..n : I[HeaderBytes + k] = item.bytes[k]
      BY <2>3, <2>4
  <2> QED
      BY <2>1, <2>3, <2>5, <2>7, <2>8, <2>9
<1> QED
    BY <1>1, <1>2, <1>3

Items == {item \in Item : ItemOK(item)}

\* f[n] is what the first n items are on the wire.
Joins(f, items) ==
    f = [n \in 0..Len(items) |-> IF n = 0 THEN <<>> ELSE f[n - 1] \o ItemBytes(items[n])]

\* The defining equation of Sent.
LEMMA SentJoins ==
    ASSUME NEW items \in Seq(Items)
    PROVE  \E f : Joins(f, items) /\ Sent(items) = f[Len(items)]
<1> DEFINE T == Seq(Bytes)
           step == [p \in (1..Len(items)) \X T |-> p[2] \o ItemBytes(items[p[1]])]
<1>1. step \in [(1..Len(items)) \X T -> T]
  <2>1. ASSUME NEW p \in (1..Len(items)) \X T PROVE p[2] \o ItemBytes(items[p[1]]) \in T
    <3>1. items[p[1]] \in Item /\ ItemOK(items[p[1]]) /\ p[2] \in Seq(Bytes)
        BY DEF Items
    <3>2. ItemBytes(items[p[1]]) \in Seq(Bytes)
        BY <3>1, ItemFacts
    <3> QED
        BY <3>1, <3>2
  <2> QED
      BY <2>1
<1>2. PICK f \in [0..Len(items) -> T] : Unfolds(f, Len(items), <<>>, step)
  <2>1. <<>> \in T /\ Len(items) \in Nat
      OBVIOUS
  <2> HIDE DEF step, T
  <2> QED
      BY <1>1, <2>1, UnfoldsExists
<1>3. ASSUME NEW k \in 0..Len(items), k # 0
      PROVE  step[<<k, f[k - 1]>>] = f[k - 1] \o ItemBytes(items[k])
  <2>1. k \in 1..Len(items) /\ k - 1 \in 0..Len(items)
      BY <1>3
  <2>2. <<k, f[k - 1]>> \in (1..Len(items)) \X T
    <3> HIDE DEF T
    <3> QED
        BY <2>1
  <2> HIDE DEF T
  <2> QED
      BY <2>2
<1>4. Joins(f, items)
  <2> HIDE DEF step, T
  <2> QED
      BY <1>2, <1>3 DEF Unfolds, Joins
<1> DEFINE g == CHOOSE e : Joins(e, items)
<1>5. Joins(g, items)
  <2> HIDE DEF T, step
  <2> QED
      BY <1>4
<1>6. Sent(items) = g[Len(items)]
    BY DEF Sent, Joins
<1> QED
    BY <1>5, <1>6

\* The first n items fix what they are on the wire.
LEMMA JoinsAgree ==
    ASSUME NEW items \in Seq(Items), NEW some \in Seq(Items), Len(some) <= Len(items),
           \A k \in 1..Len(some) : some[k] = items[k],
           NEW f, Joins(f, items), NEW g, Joins(g, some)
    PROVE  \A k \in 0..Len(some) : g[k] = f[k] /\ f[k] \in Seq(Bytes)
<1> DEFINE n == Len(some)
           S == {k \in Nat : k \in 0..n => g[k] = f[k] /\ f[k] \in Seq(Bytes)}
<1>1. /\ f = [k \in 0..Len(items) |-> IF k = 0 THEN <<>> ELSE f[k - 1] \o ItemBytes(items[k])]
      /\ g = [k \in 0..n |-> IF k = 0 THEN <<>> ELSE g[k - 1] \o ItemBytes(some[k])]
      /\ n \in Nat /\ Len(items) \in Nat
    BY DEF Joins
<1>2. 0 \in S
  <2>1. f[0] = <<>> /\ g[0] = <<>> /\ <<>> \in Seq(Bytes)
      BY <1>1
  <2> QED
      BY <2>1
<1>3. ASSUME NEW k \in Nat, k \in S PROVE k + 1 \in S
  <2> SUFFICES ASSUME k + 1 \in 0..n PROVE g[k + 1] = f[k + 1] /\ f[k + 1] \in Seq(Bytes)
      OBVIOUS
  <2>1. /\ k + 1 \in 1..n /\ k + 1 \in 0..Len(items) /\ k + 1 # 0 /\ (k + 1) - 1 = k /\ k \in 0..n
        /\ k + 1 \in 1..Len(items)
      BY <1>1
  <2>2. f[k + 1] = f[k] \o ItemBytes(items[k + 1])
    <3>1. f[k + 1] = f[(k + 1) - 1] \o ItemBytes(items[k + 1])
        BY <1>1, <2>1
    <3> QED
        BY <2>1, <3>1
  <2>3. g[k + 1] = g[k] \o ItemBytes(some[k + 1])
    <3>1. g[k + 1] = g[(k + 1) - 1] \o ItemBytes(some[k + 1])
        BY <1>1, <2>1
    <3> QED
        BY <2>1, <3>1
  <2>4. g[k] = f[k] /\ f[k] \in Seq(Bytes) /\ some[k + 1] = items[k + 1]
      BY <1>3, <2>1
  <2>5. ItemBytes(items[k + 1]) \in Seq(Bytes)
    <3>1. items[k + 1] \in Item /\ ItemOK(items[k + 1])
        BY <2>1 DEF Items
    <3> QED
        BY <3>1, ItemFacts
  <2> QED
      BY <2>2, <2>3, <2>4, <2>5, CatFacts
<1>4. Nat \subseteq S
  <2> HIDE DEF S
  <2> QED
      BY <1>2, <1>3, NatInSet
<1> QED
    BY <1>4

\* The first n items on the wire.
Beginning(items, n) == Sent(SubSeq(items, 1, n))

\* What the first n items send, one item at a time.
LEMMA BeginningFacts ==
    ASSUME NEW items \in Seq(Items)
    PROVE  /\ Beginning(items, 0) = <<>> /\ Beginning(items, Len(items)) = Sent(items)
           /\ \A n \in 0..Len(items) : Beginning(items, n) \in Seq(Bytes)
           /\ \A n \in 1..Len(items) :
                 Beginning(items, n) = Beginning(items, n - 1) \o ItemBytes(items[n])
<1>1. PICK f : Joins(f, items) /\ Sent(items) = f[Len(items)]
    BY SentJoins
<1>2. ASSUME NEW n \in 0..Len(items) PROVE Beginning(items, n) = f[n] /\ f[n] \in Seq(Bytes)
  <2> DEFINE some == SubSeq(items, 1, n)
  <2>1. some \in Seq(Items) /\ Len(some) = n /\ \A k \in 1..n : some[k] = items[k]
      BY CutFacts
  <2> HIDE DEF some
  <2>2. PICK g : Joins(g, some) /\ Sent(some) = g[Len(some)]
      BY <2>1, SentJoins
  <2>3. Len(some) <= Len(items) /\ n \in 0..Len(some) /\ \A k \in 1..Len(some) : some[k] = items[k]
      BY <2>1
  <2>4. \A k \in 0..Len(some) : g[k] = f[k] /\ f[k] \in Seq(Bytes)
      BY <1>1, <2>1, <2>2, <2>3, JoinsAgree
  <2> QED
      BY <2>1, <2>2, <2>3, <2>4 DEF Beginning, some
<1>3. f = [n \in 0..Len(items) |-> IF n = 0 THEN <<>> ELSE f[n - 1] \o ItemBytes(items[n])]
    BY <1>1 DEF Joins
<1>4. 0 \in 0..Len(items) /\ Len(items) \in 0..Len(items)
    OBVIOUS
<1>5. ASSUME NEW n \in 1..Len(items) PROVE Beginning(items, n) = Beginning(items, n - 1) \o ItemBytes(items[n])
  <2>1. n \in 0..Len(items) /\ n # 0 /\ n - 1 \in 0..Len(items)
      OBVIOUS
  <2>2. f[n] = f[n - 1] \o ItemBytes(items[n])
      BY <1>3, <2>1
  <2> QED
      BY <1>2, <2>1, <2>2
<1>6. f[0] = <<>>
    BY <1>3, <1>4
<1> QED
    BY <1>1, <1>2, <1>4, <1>5, <1>6

\* More items are more bytes behind the same ones.
LEMMA BeginningGrows ==
    ASSUME NEW items \in Seq(Items), NEW n \in 0..Len(items), NEW m \in 0..Len(items), n <= m
    PROVE  /\ \E more \in Seq(Bytes) : Beginning(items, m) = Beginning(items, n) \o more
           /\ Len(Beginning(items, n)) <= Len(Beginning(items, m))
<1> DEFINE Follows(k) == \E more \in Seq(Bytes) : Beginning(items, k) = Beginning(items, n) \o more
           S == {k \in Nat : n + k <= Len(items) => Follows(n + k)}
<1>1. 0 \in S
  <2>1. n + 0 = n /\ <<>> \in Seq(Bytes)
      OBVIOUS
  <2>2. Beginning(items, n) = Beginning(items, n) \o <<>>
      BY BeginningFacts
  <2>3. Follows(n)
      BY <2>1, <2>2
  <2> HIDE DEF Follows
  <2> QED
      BY <2>1, <2>3
<1>2. ASSUME NEW k \in Nat, k \in S PROVE k + 1 \in S
  <2> DEFINE j == n + k
  <2> SUFFICES ASSUME n + (k + 1) <= Len(items) PROVE Follows(n + (k + 1))
    <3> HIDE DEF Follows
    <3> QED
        OBVIOUS
  <2>1. /\ n + (k + 1) = j + 1 /\ j \in 0..Len(items) /\ j + 1 \in 1..Len(items) /\ (j + 1) - 1 = j
        /\ n + k <= Len(items)
      OBVIOUS
  <2>2. PICK more \in Seq(Bytes) : Beginning(items, j) = Beginning(items, n) \o more
      BY <1>2, <2>1
  <2> HIDE DEF j
  <2>3. Beginning(items, j + 1) = Beginning(items, (j + 1) - 1) \o ItemBytes(items[j + 1])
      BY <2>1, BeginningFacts
  <2>4. ItemBytes(items[j + 1]) \in Seq(Bytes)
    <3>1. items[j + 1] \in Item /\ ItemOK(items[j + 1])
        BY <2>1 DEF Items
    <3> QED
        BY <3>1, ItemFacts
  <2>5. Beginning(items, n) \in Seq(Bytes)
      BY BeginningFacts
  <2> DEFINE next == ItemBytes(items[j + 1])
             longer == more \o next
  <2>6. longer \in Seq(Bytes)
      BY <2>4, CatFacts
  <2>7. (Beginning(items, n) \o more) \o next = Beginning(items, n) \o longer
    <3>1. next \in Seq(Bytes)
        BY <2>4
    <3> DEFINE b == Beginning(items, n)
    <3> HIDE DEF next, b
    <3>2. b \in Seq(Bytes)
        BY <2>5 DEF b
    <3> DEFINE bm == b \o more
    <3>3. bm = b \o more
        OBVIOUS
    <3>4. longer = more \o next
        BY DEF longer
    <3> HIDE DEF bm, longer
    <3>5. bm \o next = b \o longer
      <4>1. more \in Seq(Bytes)
          BY <2>2
      <4>2. ASSUME NEW x, x = more \o next, NEW y, y = b \o more PROVE y \o next = b \o x
          BY ONLY <3>1, <3>2, <4>1, <4>2, CatAssociative, SMTT(60)
      <4> QED
          BY <3>3, <3>4, <4>2
    <3> QED
        BY <3>5 DEF b, bm, longer
  <2>8. Beginning(items, j + 1) = Beginning(items, n) \o longer
      BY <2>1, <2>2, <2>3, <2>7
  <2> HIDE DEF longer
  <2> QED
      BY <2>1, <2>6, <2>8
<1>3. Nat \subseteq S
  <2> HIDE DEF S
  <2> QED
      BY <1>1, <1>2, NatInSet
<1>4. PICK more \in Seq(Bytes) : Beginning(items, m) = Beginning(items, n) \o more
  <2>1. m - n \in Nat /\ n + (m - n) = m /\ m <= Len(items)
      OBVIOUS
  <2>2. m - n \in S
      BY <1>3, <2>1
  <2> QED
      BY <2>1, <2>2
<1>5. Beginning(items, n) \in Seq(Bytes)
    BY BeginningFacts
<1>6. Len(Beginning(items, m)) = Len(Beginning(items, n)) + Len(more) /\ Len(more) \in Nat /\ Len(Beginning(items, n)) \in Nat
    BY <1>4, <1>5, CatFacts
<1> QED
    BY <1>4, <1>6

\* Streams are sequences of such items.
LEMMA StreamTyped ==
    ASSUME stream \in Streams
    PROVE  /\ stream \in Seq(Items) /\ Len(stream) \in Nat
           /\ \A i \in 1..Len(stream) : stream[i] \in Item /\ ItemOK(stream[i])
<1>1. stream \in Seq(Item) /\ \A i \in DOMAIN stream : ItemOK(stream[i])
    BY StreamsAssumption
<1>2. ASSUME NEW i \in 1..Len(stream) PROVE stream[i] \in Item /\ ItemOK(stream[i])
    BY <1>1
<1>3. stream \in [1..Len(stream) -> Items] /\ Len(stream) \in Nat
    BY <1>1, <1>2 DEF Items
<1> QED
    BY <1>2, <1>3

-----------------------------------------------------------------------------
(***************************************************************************)
(* The invariant.                                                          *)
(***************************************************************************)
\* The item the decoder is at.
NextItem == stream[Len(delivered) + 1]

\* What was delivered are the first items.
Decoded ==
    /\ delivered \in Seq(Seq(Bytes)) /\ Len(delivered) <= Len(stream)
    /\ \A i \in 1..Len(delivered) : Good(stream[i]) /\ delivered[i] = stream[i].bytes

\* What was not is in the decoder and on the wire.
InPlace == Sent(stream) = Beginning(stream, Len(delivered)) \o (buf \o wire)

\* The decoder has less than it needs to go on.
Waiting ==
    Len(delivered) < Len(stream) =>
        Len(buf) < IF Good(NextItem) THEN Len(ItemBytes(NextItem)) ELSE HeaderBytes

\* It has refused the item it is at.
Refused ==
    /\ mode = "closed" /\ Len(delivered) < Len(stream) /\ ~Good(NextItem)
    /\ Len(buf) >= HeaderBytes

FramingInv ==
    /\ stream \in Streams /\ TypeOK
    /\ Decoded /\ InPlace
    /\ mode = "poll" => Waiting
    /\ error => Refused

\* The header decides, and nothing behind it.
LEMMA SameHeader ==
    ASSUME NEW b \in Seq(Bytes), NEW c \in Seq(Bytes), Len(b) >= HeaderBytes, Len(c) >= HeaderBytes,
           \A k \in 1..HeaderBytes : b[k] = c[k]
    PROVE  PayloadLength(b) = PayloadLength(c) /\ (BadHeader(b) <=> BadHeader(c))
<1> DEFINE M == Len(Magic)
<1>1. M \in Nat /\ LengthBytes \in Nat /\ HeaderBytes = M + LengthBytes
    OBVIOUS
<1>2. PayloadLength(b) = PayloadLength(c)
  <2>1. ASSUME NEW k \in 1..LengthBytes PROVE b[M + k] = c[M + k]
    <3>1. M + k \in 1..HeaderBytes
        BY <1>1
    <3> QED
        BY <3>1
  <2> QED
      BY <2>1, SameLength
<1>3. SubSeq(b, 1, M) = SubSeq(c, 1, M)
  <2> HIDE DEF M
  <2>1. M \in 0..Len(b) /\ M \in 0..Len(c) /\ \A k \in 1..M : k \in 1..HeaderBytes
    <3>1. Len(b) \in Nat /\ Len(c) \in Nat /\ Len(b) >= M + LengthBytes /\ Len(c) >= M + LengthBytes
        BY <1>1
    <3> QED
        BY <1>1, <3>1
  <2>2. /\ SubSeq(b, 1, M) \in Seq(Bytes) /\ Len(SubSeq(b, 1, M)) = M
        /\ \A k \in 1..M : SubSeq(b, 1, M)[k] = b[k]
      BY <2>1, CutFacts
  <2>3. /\ SubSeq(c, 1, M) \in Seq(Bytes) /\ Len(SubSeq(c, 1, M)) = M
        /\ \A k \in 1..M : SubSeq(c, 1, M)[k] = c[k]
      BY <2>1, CutFacts
  <2> QED
      BY <2>1, <2>2, <2>3, SeqEqual
<1> QED
    BY <1>2, <1>3 DEF BadHeader

\* What is in the decoder and on the wire begins with the item it is at.
LEMMA Ahead ==
    ASSUME FramingInv
    PROVE  /\ Len(delivered) = Len(stream) => buf \o wire = <<>>
           /\ Len(delivered) < Len(stream) =>
                 \E more \in Seq(Bytes) : buf \o wire = ItemBytes(NextItem) \o more
<1> DEFINE d == Len(delivered)
<1>1. /\ stream \in Seq(Items) /\ d \in 0..Len(stream) /\ Len(stream) \in Nat
      /\ buf \in Seq(Bytes) /\ wire \in Seq(Bytes)
  <2>1. d \in Nat /\ d <= Len(stream)
      BY DEF FramingInv, Decoded
  <2> QED
      BY <2>1, StreamTyped DEF FramingInv, TypeOK
<1>2. /\ Beginning(stream, d) \in Seq(Bytes) /\ buf \o wire \in Seq(Bytes)
      /\ Sent(stream) = Beginning(stream, d) \o (buf \o wire)
    BY <1>1, BeginningFacts, CatFacts DEF FramingInv, InPlace
<1>3. ASSUME d = Len(stream) PROVE buf \o wire = <<>>
  <2>1. Beginning(stream, d) = Sent(stream)
      BY <1>1, <1>3, BeginningFacts
  <2> QED
      BY <1>2, <2>1, ConcatEqualIffEmpty
<1>4. ASSUME d < Len(stream)
      PROVE  \E more \in Seq(Bytes) : buf \o wire = ItemBytes(NextItem) \o more
  <2> DEFINE I == ItemBytes(NextItem)
             D == Beginning(stream, d)
             E == Beginning(stream, d + 1)
             bw == buf \o wire
  <2>1. /\ d + 1 \in 1..Len(stream) /\ d + 1 \in 0..Len(stream) /\ (d + 1) - 1 = d
        /\ d + 1 <= Len(stream) /\ Len(stream) \in 0..Len(stream)
      BY <1>1, <1>4
  <2>2. I \in Seq(Bytes)
      BY <1>1, <2>1, ItemFacts, StreamTyped DEF FramingInv, NextItem
  <2>3. E = D \o I
      BY <1>1, <2>1, BeginningFacts DEF NextItem
  <2>4. PICK more \in Seq(Bytes) : Beginning(stream, Len(stream)) = E \o more
      BY <1>1, <2>1, BeginningGrows
  <2>5. Beginning(stream, Len(stream)) = Sent(stream)
      BY <1>1, BeginningFacts
  <2> DEFINE im == I \o more
  <2>6. im \in Seq(Bytes) /\ im = I \o more
      BY <2>2, <2>4, CatFacts
  <2>7. bw \in Seq(Bytes) /\ D \in Seq(Bytes) /\ Sent(stream) = D \o bw
      BY <1>2
  <2> HIDE DEF I, D, E, bw, im
  <2>8. E \o more = D \o im
      BY ONLY <2>2, <2>3, <2>4, <2>6, <2>7, CatAssociative, SMTT(60)
  <2>9. D \o bw = D \o im
      BY <2>4, <2>5, <2>7, <2>8
  <2>10. bw = im
      BY <2>6, <2>7, <2>9, ConcatSimplifications
  <2> QED
      BY <2>4, <2>6, <2>10 DEF bw, I
<1> QED
    BY <1>3, <1>4

\* So a header that has arrived is the header of that item.
LEMMA HeaderRead ==
    ASSUME FramingInv, HasHeader
    PROVE  /\ Len(delivered) < Len(stream)
           /\ BadHeader(buf) <=> ~Good(NextItem)
           /\ Good(NextItem) => /\ PayloadLength(buf) = Len(NextItem.bytes)
                                /\ Len(ItemBytes(NextItem)) = HeaderBytes + Len(NextItem.bytes)
<1>1. /\ buf \in Seq(Bytes) /\ wire \in Seq(Bytes) /\ Len(buf) >= HeaderBytes
      /\ HeaderBytes \in Nat /\ HeaderBytes > 0 /\ Len(buf) \in Nat
    BY DEF FramingInv, TypeOK, HasHeader
<1>2. Len(delivered) < Len(stream)
  <2>1. buf # <<>>
      BY <1>1
  <2>2. buf \o wire # <<>>
      BY <1>1, <2>1, ConcatEqualIffEmpty
  <2>3. Len(delivered) \in Nat /\ Len(stream) \in Nat /\ Len(delivered) <= Len(stream)
      BY StreamTyped DEF FramingInv, Decoded
  <2> QED
      BY <2>2, <2>3, Ahead
<1> DEFINE I == ItemBytes(NextItem)
<1>3. NextItem \in Item /\ ItemOK(NextItem)
  <2>1. Len(delivered) \in Nat /\ Len(stream) \in Nat
      BY StreamTyped DEF FramingInv, Decoded
  <2>2. Len(delivered) + 1 \in 1..Len(stream)
      BY <1>2, <2>1
  <2> QED
      BY <2>2, StreamTyped DEF FramingInv, NextItem
<1>4. /\ I \in Seq(Bytes) /\ Len(I) >= HeaderBytes
      /\ BadHeader(I) <=> ~Good(NextItem)
      /\ NextItem.framed => /\ Len(I) = HeaderBytes + Len(NextItem.bytes)
                            /\ PayloadLength(I) = Len(NextItem.bytes)
    BY <1>3, ItemFacts
<1>5. PICK more \in Seq(Bytes) : buf \o wire = I \o more
    BY <1>2, Ahead
<1> HIDE DEF I
<1>6. ASSUME NEW k \in 1..HeaderBytes PROVE buf[k] = I[k]
  <2>1. Len(I) \in Nat /\ k \in 1..Len(buf) /\ k \in 1..Len(I)
    <3>1. Len(I) \in Nat
        BY <1>4
    <3> QED
        BY <1>1, <1>4, <3>1
  <2>2. (buf \o wire)[k] = buf[k] /\ (I \o more)[k] = I[k]
      BY <1>1, <1>4, <1>5, <2>1, CatFacts
  <2> QED
      BY <1>5, <2>2
<1>7. PayloadLength(buf) = PayloadLength(I) /\ (BadHeader(buf) <=> BadHeader(I))
    BY <1>1, <1>4, <1>6, SameHeader
<1> QED
    BY <1>2, <1>4, <1>7 DEF Good, I

-----------------------------------------------------------------------------
(***************************************************************************)
(* The steps.                                                              *)
(***************************************************************************)
LEMMA InitInv ==
    ASSUME Init
    PROVE  FramingInv
<1>1. stream \in Seq(Items) /\ stream \in Streams
    BY StreamTyped DEF Init
<1>2. Sent(stream) \in Seq(Bytes) /\ Beginning(stream, 0) = <<>>
  <2>1. Len(stream) \in 0..Len(stream)
      BY <1>1
  <2> QED
      BY <1>1, <2>1, BeginningFacts
<1>3. wire = Sent(stream) /\ buf = <<>> /\ delivered = <<>> /\ ~error /\ mode = "poll"
      /\ error \in BOOLEAN /\ fin \in BOOLEAN
    BY DEF Init
<1>4. TypeOK
    BY <1>2, <1>3 DEF TypeOK
<1>5. Decoded
    BY <1>1, <1>3 DEF Decoded
<1>6. InPlace
  <2>1. <<>> \o (<<>> \o wire) = wire
      BY <1>2, <1>3
  <2> QED
      BY <1>2, <1>3, <2>1 DEF InPlace
<1>7. Waiting
  <2> SUFFICES ASSUME 0 < Len(stream)
               PROVE  0 < IF Good(NextItem) THEN Len(ItemBytes(NextItem)) ELSE HeaderBytes
      BY <1>3 DEF Waiting
  <2>1. 1 \in 1..Len(stream) /\ NextItem = stream[1]
      BY <1>1, <1>3 DEF NextItem
  <2>2. Len(ItemBytes(NextItem)) >= HeaderBytes /\ ItemBytes(NextItem) \in Seq(Bytes)
      BY <1>1, <2>1, StreamTyped, ItemFacts
  <2>3. Len(ItemBytes(NextItem)) \in Nat /\ HeaderBytes \in Nat /\ HeaderBytes > 0
      BY <2>2
  <2> QED
      BY <2>2, <2>3
<1> QED
    BY <1>1, <1>3, <1>4, <1>5, <1>6, <1>7 DEF FramingInv

\* Bytes move from the wire to the decoder.
LEMMA RecvInv ==
    ASSUME FramingInv, NEW n \in 1..Len(wire), Recv(n)
    PROVE  FramingInv'
<1> DEFINE u == SubSeq(wire, 1, n)
           v == SubSeq(wire, n + 1, Len(wire))
<1>1. /\ buf \in Seq(Bytes) /\ wire \in Seq(Bytes) /\ n \in 0..Len(wire)
      /\ buf' = buf \o u /\ wire' = v /\ mode' = "recv" /\ ~error /\ error' = error
      /\ UNCHANGED <<stream, fin, delivered>>
    BY DEF FramingInv, TypeOK, Recv, Refused
<1>2. u \in Seq(Bytes) /\ v \in Seq(Bytes) /\ wire = u \o v
    BY <1>1, CutFacts
<1> HIDE DEF u, v
<1>3. buf' \in Seq(Bytes) /\ wire' \in Seq(Bytes)
    BY <1>1, <1>2, CatFacts
<1>4. buf' \o wire' = buf \o wire
  <2>1. ASSUME NEW b, b = buf \o u PROVE b \o v = buf \o wire
      BY ONLY <1>1, <1>2, <2>1, CatAssociative, SMTT(60)
  <2> QED
      BY <1>1, <2>1
<1>5. TypeOK'
    BY <1>1, <1>3 DEF FramingInv, TypeOK
<1>6. Decoded' /\ InPlace'
    BY <1>1, <1>4 DEF FramingInv, Decoded, InPlace
<1> QED
    BY <1>1, <1>5, <1>6 DEF FramingInv

\* A step that only changes the mode, unless to poll.
LEMMA ModeInv ==
    ASSUME FramingInv, ~error, UNCHANGED <<stream, fin, wire, buf, error, delivered>>,
           mode' \in {"decode", "closed"}
    PROVE  FramingInv'
<1>1. TypeOK' /\ Decoded' /\ InPlace'
    BY DEF FramingInv, TypeOK, Decoded, InPlace
<1> QED
    BY <1>1 DEF FramingInv

\* The bytes b, with w behind them, begin with all of an item of payload x.
HasItem(b, w, item, h, x) ==
    /\ b \in Seq(Bytes) /\ w \in Seq(Bytes) /\ item \in Seq(Bytes) /\ x \in Seq(Bytes) /\ h \in Nat
    /\ \E more \in Seq(Bytes) : b \o w = item \o more
    /\ Len(item) = h + Len(x) /\ Len(b) >= h + Len(x)
    /\ \A k \in 1..Len(x) : item[h + k] = x[k]

\* x is where it should be, and taking the item out leaves what is behind it.
TakesItem(b, w, item, h, x) ==
    /\ SubSeq(b, h + 1, h + Len(x)) = x
    /\ SubSeq(b, h + Len(x) + 1, Len(b)) \in Seq(Bytes)
    /\ b \o w = item \o (SubSeq(b, h + Len(x) + 1, Len(b)) \o w)

\* Taking the item off the front leaves the rest of the bytes, and its payload is x.
LEMMA ItemCut ==
    ASSUME NEW b, NEW w, NEW item, NEW h, NEW x, HasItem(b, w, item, h, x)
    PROVE  TakesItem(b, w, item, h, x)
<1>1. /\ b \in Seq(Bytes) /\ w \in Seq(Bytes) /\ item \in Seq(Bytes) /\ x \in Seq(Bytes) /\ h \in Nat
      /\ Len(item) = h + Len(x) /\ Len(b) >= h + Len(x)
      /\ \A k \in 1..Len(x) : item[h + k] = x[k]
    BY DEF HasItem
<1>2. PICK more \in Seq(Bytes) : b \o w = item \o more
    BY DEF HasItem
<1> DEFINE p == Len(x)
           l == Len(b)
           m == h + p
           u == SubSeq(b, 1, m)
           v == SubSeq(b, m + 1, l)
<1>3. p \in Nat /\ l \in Nat /\ l >= h + p /\ h \in Nat
    BY <1>1
<1>4. m \in Nat /\ m \in 0..l
  <2> HIDE DEF p, l
  <2> QED
      BY <1>3
<1>5. /\ u \in Seq(Bytes) /\ Len(u) = m /\ v \in Seq(Bytes) /\ b = u \o v
      /\ \A k \in 1..m : u[k] = b[k]
  <2> HIDE DEF m
  <2> QED
      BY <1>1, <1>4, CutFacts
<1>6. ASSUME NEW k \in 1..m PROVE b[k] = item[k]
  <2>1. k \in 1..l /\ k \in 1..Len(item)
    <3>1. Len(item) = m /\ l \in Nat /\ m <= l
        BY <1>1, <1>4
    <3> HIDE DEF l, m
    <3> QED
        BY <3>1
  <2> HIDE DEF m
  <2>2. (b \o w)[k] = b[k] /\ (item \o more)[k] = item[k]
      BY <1>1, <1>2, <2>1, CatFacts
  <2> QED
      BY <1>2, <2>2
<1>7. u = item
  <2>1. Len(item) = m
      BY <1>1
  <2> HIDE DEF u, m
  <2> QED
      BY <1>1, <1>5, <1>6, <2>1, SeqEqual
<1>8. SubSeq(b, h + 1, h + p) = x
  <2> DEFINE q == SubSeq(b, h + 1, h + p)
  <2>1. /\ h + 1 \in Int /\ h + p \in Int /\ \A k \in (h + 1)..(h + p) : b[k] \in Bytes
        /\ (h + p) - (h + 1) + 1 = p /\ (IF h + 1 <= h + p THEN p ELSE 0) = p
    <3>1. \A k \in (h + 1)..(h + p) : k \in 1..l
      <4> HIDE DEF p, l
      <4> QED
          BY <1>3
    <3>2. h + 1 \in Int /\ h + p \in Int /\ (h + p) - (h + 1) + 1 = p
          /\ (IF h + 1 <= h + p THEN p ELSE 0) = p
      <4> HIDE DEF p
      <4> QED
          BY <1>3
    <3> QED
        BY <1>1, <3>1, <3>2
  <2>2. /\ q \in Seq(Bytes) /\ Len(q) = p
        /\ \A k \in 1..p : q[k] = b[(h + 1) + k - 1]
    <3> HIDE DEF p
    <3>1. /\ SubSeq(b, h + 1, h + p) \in Seq(Bytes)
          /\ Len(SubSeq(b, h + 1, h + p)) = IF h + 1 <= h + p THEN (h + p) - (h + 1) + 1 ELSE 0
          /\ \A k \in 1..((h + p) - (h + 1) + 1) : SubSeq(b, h + 1, h + p)[k] = b[(h + 1) + k - 1]
      <4>1. ASSUME NEW i \in Int, NEW j \in Int, \A k \in i..j : b[k] \in Bytes
            PROVE  /\ SubSeq(b, i, j) \in Seq(Bytes)
                   /\ Len(SubSeq(b, i, j)) = IF i <= j THEN j - i + 1 ELSE 0
                   /\ \A k \in 1..(j - i + 1) : SubSeq(b, i, j)[k] = b[i + k - 1]
          BY ONLY <4>1, SubSeqProperties
      <4> QED
          BY ONLY <2>1, <4>1
    <3> QED
        BY <2>1, <3>1
  <2>3. ASSUME NEW k \in 1..p PROVE q[k] = x[k]
    <3>1. h + k \in 1..m /\ (h + 1) + k - 1 = h + k
      <4> HIDE DEF p
      <4> QED
          BY <1>3
    <3>2. item[h + k] = x[k]
        BY <1>1
    <3> HIDE DEF q, m, p
    <3> QED
        BY <1>6, <2>2, <3>1, <3>2
  <2> HIDE DEF q
  <2>4. q = x
      BY <1>1, <2>2, <2>3, SeqEqual
  <2> QED
      BY <2>4 DEF q
<1>9. b \o w = item \o (v \o w)
  <2> DEFINE vw == v \o w
  <2>1. b = item \o v /\ vw = v \o w /\ v \in Seq(Bytes)
      BY <1>5, <1>7
  <2> HIDE DEF v, vw
  <2>2. b \o w = item \o vw
      BY ONLY <1>1, <2>1, CatAssociative, SMTT(60)
  <2> QED
      BY <2>2 DEF vw
<1> QED
    BY <1>5, <1>8, <1>9 DEF TakesItem

\* The next frame goes from the decoder to the venue.
LEMMA DecodeFrameInv ==
    ASSUME FramingInv, DecodeFrame
    PROVE  FramingInv'
<1> DEFINE d == Len(delivered)
           I == ItemBytes(NextItem)
           x == NextItem.bytes
           left == SubSeq(buf, HeaderBytes + Len(x) + 1, Len(buf))
<1>1. /\ mode = "decode" /\ mode' = mode /\ ~error /\ error' = error
      /\ HasHeader /\ ~BadHeader(buf) /\ Len(buf) >= HeaderBytes + PayloadLength(buf)
      /\ delivered' = Append(delivered, SubSeq(buf, HeaderBytes + 1, HeaderBytes + PayloadLength(buf)))
      /\ buf' = SubSeq(buf, HeaderBytes + PayloadLength(buf) + 1, Len(buf))
      /\ UNCHANGED <<stream, fin, wire>>
    BY DEF DecodeFrame, HasFrame, FramingInv, Refused
<1>2. /\ d < Len(stream) /\ Good(NextItem)
      /\ PayloadLength(buf) = Len(x) /\ Len(I) = HeaderBytes + Len(x)
    BY <1>1, HeaderRead
<1>3. /\ d \in Nat /\ Len(stream) \in Nat /\ stream \in Seq(Items) /\ stream \in Streams
      /\ buf \in Seq(Bytes) /\ wire \in Seq(Bytes) /\ delivered \in Seq(Seq(Bytes))
  <2>1. stream \in Streams /\ delivered \in Seq(Seq(Bytes)) /\ buf \in Seq(Bytes) /\ wire \in Seq(Bytes)
      BY DEF FramingInv, TypeOK, Decoded
  <2> QED
      BY <2>1, StreamTyped
<1>4. d + 1 \in 1..Len(stream) /\ (d + 1) - 1 = d /\ d \in 0..Len(stream)
    BY <1>2, <1>3
<1>5. /\ NextItem \in Item /\ ItemOK(NextItem) /\ x \in Seq(Bytes)
      /\ NextItem.framed /\ Len(x) <= MaxPayloadBytes
  <2>1. NextItem \in Item /\ ItemOK(NextItem)
      BY <1>3, <1>4, StreamTyped DEF NextItem
  <2> QED
      BY <1>2, <2>1 DEF Item, Good
<1>6. I \in Seq(Bytes) /\ \A k \in 1..Len(x) : I[HeaderBytes + k] = x[k]
    BY <1>5, ItemFacts
<1>7. PICK more \in Seq(Bytes) : buf \o wire = I \o more
    BY <1>2, Ahead
<1>8. /\ SubSeq(buf, HeaderBytes + 1, HeaderBytes + Len(x)) = x
      /\ left \in Seq(Bytes) /\ buf \o wire = I \o (left \o wire)
  <2>1. Len(buf) >= HeaderBytes + Len(x)
      BY <1>1, <1>2
  <2>2. HasItem(buf, wire, I, HeaderBytes, x)
    <3>1. HeaderBytes \in Nat
        OBVIOUS
    <3> HIDE DEF I, x, HeaderBytes
    <3> QED
        BY <1>2, <1>3, <1>5, <1>6, <1>7, <2>1, <3>1 DEF HasItem
  <2>3. TakesItem(buf, wire, I, HeaderBytes, x)
      BY <2>2, ItemCut
  <2> QED
      BY <2>3 DEF TakesItem
<1>9. delivered' = Append(delivered, x) /\ buf' = left
    BY <1>1, <1>2, <1>8
<1> HIDE DEF I, left
<1>10. /\ delivered' \in Seq(Seq(Bytes)) /\ Len(delivered') = d + 1
       /\ delivered'[d + 1] = x /\ \A i \in 1..d : delivered'[i] = delivered[i]
  <2> HIDE DEF x
  <2> QED
      BY <1>3, <1>5, <1>9
<1>11. Decoded'
  <2>1. ASSUME NEW i \in 1..(d + 1) PROVE Good(stream[i]) /\ delivered'[i] = stream[i].bytes
    <3>1. CASE i = d + 1
        BY <1>2, <1>10, <3>1 DEF NextItem
    <3>2. CASE i # d + 1
      <4>1. i \in 1..d
          BY <1>3, <3>2
      <4> QED
          BY <1>10, <4>1 DEF FramingInv, Decoded
    <3> QED
        BY <3>1, <3>2
  <2>2. d + 1 <= Len(stream)
      BY <1>4
  <2> QED
      BY <1>1, <1>10, <2>1, <2>2 DEF Decoded
<1>12. TypeOK'
  <2>1. ASSUME NEW i \in DOMAIN delivered' PROVE Len(delivered'[i]) <= MaxPayloadBytes
    <3>1. i \in 1..(d + 1)
        BY <1>10
    <3>2. Good(stream[i]) /\ delivered'[i] = stream[i].bytes
        BY <1>1, <1>10, <1>11, <3>1 DEF Decoded
    <3> QED
        BY <3>2 DEF Good
  <2> QED
      BY <1>1, <1>3, <1>8, <1>9, <2>1 DEF FramingInv, TypeOK
<1>13. InPlace'
  <2> DEFINE D == Beginning(stream, d)
             E == Beginning(stream, d + 1)
             lw == left \o wire
             bw == buf \o wire
  <2>1. E = D \o I /\ D \in Seq(Bytes)
      BY <1>3, <1>4, BeginningFacts DEF NextItem, I
  <2>2. lw \in Seq(Bytes) /\ Sent(stream) = D \o bw /\ bw = I \o lw
      BY <1>3, <1>8, CatFacts DEF FramingInv, InPlace
  <2> HIDE DEF D, E, lw, bw
  <2>3. E \o lw = D \o bw
      BY ONLY <1>6, <2>1, <2>2, CatAssociative, SMTT(60)
  <2>4. Sent(stream) = E \o lw
      BY <2>2, <2>3
  <2> QED
      BY <1>1, <1>9, <1>10, <2>4 DEF InPlace, E, lw
<1> QED
    BY <1>1, <1>3, <1>11, <1>12, <1>13 DEF FramingInv

\* The decoder is left with too little, so the loop goes back to poll.
LEMMA DecodeWaitsInv ==
    ASSUME FramingInv, DecodeWaits
    PROVE  FramingInv'
<1>1. /\ ~error /\ UNCHANGED <<stream, fin, wire, buf, error, delivered>> /\ mode' = "poll"
      /\ ~HasFrame /\ ~(HasHeader /\ BadHeader(buf))
    BY DEF FramingInv, DecodeWaits, Refused
<1>2. TypeOK' /\ Decoded' /\ InPlace'
    BY <1>1 DEF FramingInv, TypeOK, Decoded, InPlace
<1>3. Waiting
  <2> SUFFICES ASSUME Len(delivered) < Len(stream)
               PROVE  Len(buf) < IF Good(NextItem) THEN Len(ItemBytes(NextItem)) ELSE HeaderBytes
      BY DEF Waiting
  <2>1. NextItem \in Item /\ ItemOK(NextItem)
    <3>1. Len(delivered) + 1 \in 1..Len(stream)
        BY StreamTyped DEF FramingInv, Decoded
    <3> QED
        BY <3>1, StreamTyped DEF FramingInv, NextItem
  <2>2. /\ ItemBytes(NextItem) \in Seq(Bytes) /\ Len(ItemBytes(NextItem)) >= HeaderBytes
        /\ buf \in Seq(Bytes)
      BY <2>1, ItemFacts DEF FramingInv, TypeOK
  <2>3. Len(ItemBytes(NextItem)) \in Nat /\ Len(buf) \in Nat /\ HeaderBytes \in Nat
      BY <2>2
  <2>4. CASE HasHeader
    <3>1. /\ Good(NextItem) /\ PayloadLength(buf) = Len(NextItem.bytes)
          /\ Len(ItemBytes(NextItem)) = HeaderBytes + Len(NextItem.bytes)
        BY <1>1, <2>4, HeaderRead
    <3>2. ~(Len(buf) >= HeaderBytes + PayloadLength(buf))
        BY <1>1, <2>4 DEF HasFrame
    <3>3. Len(buf) < Len(ItemBytes(NextItem))
      <4> DEFINE l == Len(buf)
                 n == Len(ItemBytes(NextItem))
      <4>1. l \in Nat /\ n \in Nat /\ ~(l >= n)
          BY <2>3, <3>1, <3>2
      <4> HIDE DEF l, n
      <4>2. l < n
          BY <4>1
      <4> QED
          BY <4>2 DEF l, n
    <3> QED
        BY <3>1, <3>3
  <2>5. CASE ~HasHeader
    <3>1. Len(buf) < HeaderBytes
        BY <2>3, <2>5 DEF HasHeader
    <3> QED
        BY <2>2, <2>3, <3>1
  <2> QED
      BY <2>4, <2>5
<1>4. Waiting'
    BY <1>1, <1>3 DEF Waiting, NextItem
<1> QED
    BY <1>1, <1>2, <1>4 DEF FramingInv

\* The decoder refuses the item it is at.
LEMMA DecodeFailsInv ==
    ASSUME FramingInv, DecodeFails
    PROVE  FramingInv'
<1>1. /\ mode' = "closed" /\ error' = TRUE /\ UNCHANGED <<stream, fin, wire, buf, delivered>>
      /\ HasHeader /\ BadHeader(buf)
    BY DEF DecodeFails
<1>2. TypeOK' /\ Decoded' /\ InPlace'
    BY <1>1 DEF FramingInv, TypeOK, Decoded, InPlace
<1>3. Len(delivered) < Len(stream) /\ ~Good(NextItem) /\ Len(buf) >= HeaderBytes
    BY <1>1, HeaderRead DEF HasHeader
<1> QED
    BY <1>1, <1>2, <1>3 DEF FramingInv, Refused, NextItem

\* Every step of handleReadable keeps the invariant.
LEMMA StepInv ==
    ASSUME FramingInv, [Next]_vars
    PROVE  FramingInv'
<1>1. CASE UNCHANGED vars
    BY <1>1 DEF vars, FramingInv, TypeOK, Decoded, InPlace, Waiting, Refused, NextItem
<1>2. ASSUME NEW n \in 1..Len(wire), Recv(n) PROVE FramingInv'
    BY <1>2, RecvInv
<1>3. CASE RecvWouldBlock
    BY <1>3, ModeInv DEF RecvWouldBlock, FramingInv, Refused
<1>4. CASE RecvFails
    BY <1>4, ModeInv DEF RecvFails, FramingInv, Refused
<1> QED
    BY <1>1, <1>2, <1>3, <1>4, DecodeFrameInv, DecodeWaitsInv, DecodeFailsInv DEF Next

-----------------------------------------------------------------------------
(***************************************************************************)
(* The reference.                                                          *)
(***************************************************************************)
\* A set of numbers with a bound has a largest one.
LEMMA HasLargest ==
    ASSUME NEW n \in Nat, NEW S \in SUBSET (0..n), NEW d \in S
    PROVE  \E w \in S : \A k \in S : k <= w
<1> DEFINE T == {j \in Nat : \E k \in S : j + k = n}
<1>1. PICK j \in T : \A i \in T : <<i, j>> \notin OpToRel(<, Nat)
  <2>1. n - d \in T
      OBVIOUS
  <2> QED
      BY <2>1, NatLessThanWellFounded, WFMin
<1>2. PICK w \in S : j + w = n
    OBVIOUS
<1>3. ASSUME NEW k \in S PROVE k <= w
  <2>1. n - k \in T
      OBVIOUS
  <2>2. ~(n - k < j)
      BY <1>1, <2>1 DEF OpToRel
  <2>3. k \in Int /\ w \in Int /\ j \in Int /\ n \in Int
      OBVIOUS
  <2> QED
      BY <1>2, <2>2, <2>3
<1> QED
    BY <1>3

\* The good frames in front.
LEMMA GoodCountFacts ==
    ASSUME stream \in Streams
    PROVE  /\ GoodCount \in 0..Len(stream)
           /\ \A i \in 1..GoodCount : Good(stream[i])
           /\ GoodCount < Len(stream) => ~Good(stream[GoodCount + 1])
<1> DEFINE S == {n \in 0..Len(stream) : \A i \in 1..n : Good(stream[i])}
           Fits(n) == /\ \A i \in 1..n : Good(stream[i])
                      /\ n < Len(stream) => ~Good(stream[n + 1])
<1>1. Len(stream) \in Nat
    BY StreamTyped
<1>2. PICK w \in S : \A k \in S : k <= w
  <2>1. S \in SUBSET (0..Len(stream)) /\ 0 \in S
      BY <1>1
  <2> HIDE DEF S
  <2> QED
      BY <1>1, <2>1, HasLargest
<1>3. w \in 0..Len(stream) /\ Fits(w)
  <2>1. ASSUME w < Len(stream), Good(stream[w + 1]) PROVE FALSE
    <3>1. w + 1 \in 0..Len(stream) /\ \A i \in 1..(w + 1) : i \in 1..w \/ i = w + 1
        BY <1>1, <2>1
    <3>2. w + 1 \in S
        BY <2>1, <3>1
    <3>3. w + 1 <= w
        BY <1>2, <3>2
    <3> QED
        BY <3>3
  <2> QED
      BY <2>1
<1>4. GoodCount = CHOOSE n \in 0..Len(stream) : Fits(n)
    BY DEF GoodCount
<1>5. (CHOOSE n \in 0..Len(stream) : Fits(n)) \in 0..Len(stream) /\ Fits(CHOOSE n \in 0..Len(stream) : Fits(n))
  <2> HIDE DEF Fits
  <2> QED
      BY <1>3
<1> QED
    BY <1>4, <1>5

\* What has been delivered and what is in the decoder have been received.
LEMMA ReceivedFacts ==
    ASSUME FramingInv
    PROVE  Received = Len(Beginning(stream, Len(delivered))) + Len(buf)
<1>1. /\ stream \in Seq(Items) /\ Len(delivered) \in 0..Len(stream)
      /\ buf \in Seq(Bytes) /\ wire \in Seq(Bytes)
  <2>1. Len(delivered) \in Nat /\ Len(stream) \in Nat
      BY StreamTyped DEF FramingInv, Decoded
  <2> QED
      BY <2>1, StreamTyped DEF FramingInv, TypeOK, Decoded
<1>2. Beginning(stream, Len(delivered)) \in Seq(Bytes)
    BY <1>1, BeginningFacts
<1> DEFINE b == Len(Beginning(stream, Len(delivered)))
           n == Len(buf)
           m == Len(wire)
           all == Len(Sent(stream))
<1>3. b \in Nat /\ n \in Nat /\ m \in Nat /\ all = b + (n + m)
  <2>1. buf \o wire \in Seq(Bytes) /\ Len(buf \o wire) = n + m
      BY <1>1, CatFacts
  <2> QED
      BY <1>1, <1>2, <2>1, CatFacts DEF FramingInv, InPlace
<1>4. Received = all - m
    BY DEF Received
<1> HIDE DEF b, n, m, all
<1>5. all - m = b + n
    BY <1>3
<1> QED
    BY <1>4, <1>5 DEF b, n

\* The first n items have arrived, and those are all, up to the first bad one.
Arrived(n) ==
    /\ Len(Beginning(stream, n)) <= Received
    /\ n < GoodCount => Len(Beginning(stream, n + 1)) > Received

\* Some number is Whole, and all that was delivered had arrived.
LEMMA WholeFacts ==
    ASSUME FramingInv
    PROVE  /\ Whole \in 0..GoodCount /\ Arrived(Whole)
           /\ Len(delivered) <= Whole
           /\ \A n \in 0..GoodCount : Arrived(n) => Whole = n
<1> DEFINE d == Len(delivered)
           G == GoodCount
           L(n) == Len(Beginning(stream, n))
           S == {n \in 0..G : L(n) <= Received}
<1>1. /\ stream \in Seq(Items) /\ Len(stream) \in Nat /\ d \in Nat /\ d <= Len(stream)
      /\ G \in Nat /\ G \in 0..Len(stream) /\ G <= Len(stream) /\ buf \in Seq(Bytes)
    BY StreamTyped, GoodCountFacts DEF FramingInv, TypeOK, Decoded
<1>2. d <= G
  <2> SUFFICES ASSUME G < d PROVE FALSE
      BY <1>1
  <2>1. G < Len(stream) /\ G + 1 \in 1..d
      BY <1>1
  <2> QED
      BY <2>1, GoodCountFacts DEF FramingInv, Decoded
<1>3. ASSUME NEW n \in 0..G PROVE L(n) \in Nat /\ n \in 0..Len(stream)
  <2>1. n \in 0..Len(stream)
      BY <1>1
  <2>2. Beginning(stream, n) \in Seq(Bytes)
      BY <1>1, <2>1, BeginningFacts
  <2> QED
      BY <2>1, <2>2
<1>4. ASSUME NEW n \in 0..G, NEW m \in 0..G, n <= m PROVE L(n) <= L(m)
    BY <1>1, <1>3, <1>4, BeginningGrows
<1>5. L(d) <= Received /\ Received \in Nat /\ d \in 0..G
  <2>1. d \in 0..G /\ Received = L(d) + Len(buf) /\ Len(buf) \in Nat
      BY <1>1, <1>2, ReceivedFacts
  <2>2. L(d) \in Nat
      BY <1>3, <2>1
  <2> DEFINE l == L(d)
  <2>3. l \in Nat /\ Received = l + Len(buf)
      BY <2>1, <2>2
  <2> HIDE DEF l
  <2>4. l <= Received /\ Received \in Nat
      BY <2>1, <2>3
  <2> QED
      BY <2>1, <2>4 DEF l
<1> HIDE DEF L
<1>6. PICK w \in S : \A k \in S : k <= w
  <2>1. S \in SUBSET (0..G) /\ d \in S
      BY <1>5
  <2> HIDE DEF S, d
  <2> QED
      BY <1>1, <2>1, HasLargest
<1>7. w \in 0..G /\ Arrived(w)
  <2>1. w < G => L(w + 1) > Received
    <3> SUFFICES ASSUME w < G, ~(L(w + 1) > Received) PROVE FALSE
        OBVIOUS
    <3>1. w + 1 \in 0..G
        BY <1>1
    <3>2. L(w + 1) \in Nat
        BY <1>3, <3>1
    <3>3. w + 1 \in S
        BY <1>5, <3>1, <3>2
    <3>4. w + 1 <= w
        BY <1>6, <3>3
    <3> QED
        BY <3>4
  <2> QED
      BY <2>1 DEF Arrived, L
<1>8. ASSUME NEW n \in 0..G, Arrived(n), NEW m \in 0..G, L(m) <= Received PROVE m <= n
  <2> SUFFICES ASSUME n < m PROVE FALSE
      BY <1>1
  <2>1. n < G /\ n + 1 \in 0..G /\ n + 1 <= m
      BY <1>1
  <2>2. L(n + 1) > Received
      BY <1>8, <2>1 DEF Arrived, L
  <2>3. L(n + 1) <= L(m) /\ L(n + 1) \in Nat /\ L(m) \in Nat
      BY <1>3, <1>4, <2>1
  <2> QED
      BY <1>5, <1>8, <2>2, <2>3
<1>9. Whole = CHOOSE n \in 0..G : Arrived(n)
    BY DEF Whole, Arrived, Beginning
<1>10. Whole \in 0..G /\ Arrived(Whole)
  <2> DEFINE c == CHOOSE n \in 0..G : Arrived(n)
  <2>1. c \in 0..G /\ Arrived(c)
      BY <1>7
  <2> QED
      BY <1>9, <2>1
<1>11. d <= Whole
    BY <1>5, <1>8, <1>10
<1>12. ASSUME NEW n \in 0..G, Arrived(n) PROVE Whole = n
  <2>1. L(n) <= Received /\ L(Whole) <= Received
      BY <1>10, <1>12 DEF Arrived, L
  <2>2. n <= Whole /\ Whole <= n
      BY <1>8, <1>10, <1>12, <2>1
  <2> QED
      BY <1>10, <2>2
<1> QED
    BY <1>10, <1>11, <1>12

-----------------------------------------------------------------------------
(***************************************************************************)
(* The theorems.                                                           *)
(***************************************************************************)
\* Between them the decoder and the wire hold exactly what is not delivered yet, at
\* every cut recv may make: framing.cpp loses, repeats and reorders no byte.
THEOREM FramingInvariant == Spec => []FramingInv
<1>1. Init => FramingInv
    BY InitInv
<1>2. FramingInv /\ [Next]_vars => FramingInv'
    BY StepInv
<1> QED
    BY <1>1, <1>2, PTL DEF Spec

\* Where the next frame ends, and how much of it is there.
LEMMA NextFrameFacts ==
    ASSUME FramingInv, Len(delivered) < GoodCount
    PROVE  /\ Good(NextItem) /\ Len(delivered) < Len(stream)
           /\ Len(buf) < Len(ItemBytes(NextItem)) =>
                 Received < Len(Beginning(stream, Len(delivered) + 1))
<1> DEFINE d == Len(delivered)
           D == Beginning(stream, d)
           I == ItemBytes(NextItem)
<1>1. /\ stream \in Seq(Items) /\ Len(stream) \in Nat /\ d \in Nat /\ d <= Len(stream)
      /\ GoodCount \in 0..Len(stream) /\ buf \in Seq(Bytes)
    BY StreamTyped, GoodCountFacts DEF FramingInv, TypeOK, Decoded
<1>2. d + 1 \in 1..GoodCount /\ d + 1 \in 1..Len(stream) /\ d \in 0..Len(stream) /\ (d + 1) - 1 = d
    BY <1>1
<1>3. Good(NextItem) /\ NextItem \in Item /\ ItemOK(NextItem)
    BY <1>2, GoodCountFacts, StreamTyped DEF FramingInv, NextItem
<1>4. I \in Seq(Bytes) /\ D \in Seq(Bytes)
    BY <1>1, <1>2, <1>3, ItemFacts, BeginningFacts
<1>5. Beginning(stream, d + 1) = D \o I
    BY <1>1, <1>2, BeginningFacts DEF NextItem
<1>6. Len(Beginning(stream, d + 1)) = Len(D) + Len(I) /\ Len(D) \in Nat /\ Len(I) \in Nat
    BY <1>4, <1>5, CatFacts
<1>7. Received = Len(D) + Len(buf)
    BY ReceivedFacts
<1>8. Len(buf) < Len(I) => Received < Len(Beginning(stream, d + 1))
  <2> DEFINE a == Len(D)
             b == Len(buf)
             c == Len(I)
             e == Len(Beginning(stream, d + 1))
  <2>1. a \in Nat /\ b \in Nat /\ c \in Nat /\ e = a + c /\ Received = a + b
      BY <1>1, <1>6, <1>7
  <2> HIDE DEF a, b, c, e
  <2>2. b < c => Received < e
      BY <2>1
  <2> QED
      BY <2>2 DEF b, c, e
<1> QED
    BY <1>1, <1>2, <1>3, <1>8

\* When handleReadable goes back to poll or gives up, the frames that have arrived in
\* full are the ones delivered.
LEMMA AllDelivered ==
    ASSUME FramingInv, mode = "poll" \/ error
    PROVE  Whole = Len(delivered)
<1> DEFINE d == Len(delivered)
<1>1. d \in Nat /\ Whole \in 0..GoodCount /\ d <= Whole /\ GoodCount \in 0..Len(stream) /\ Len(stream) \in Nat
    BY WholeFacts, GoodCountFacts, StreamTyped DEF FramingInv, Decoded
<1>2. d \in 0..GoodCount
    BY <1>1
<1>3. Len(Beginning(stream, d)) <= Received
  <2>1. stream \in Seq(Items) /\ d \in 0..Len(stream) /\ buf \in Seq(Bytes)
      BY <1>1, <1>2, StreamTyped DEF FramingInv, TypeOK
  <2>2. Beginning(stream, d) \in Seq(Bytes)
      BY <2>1, BeginningFacts
  <2> DEFINE a == Len(Beginning(stream, d))
             b == Len(buf)
  <2>3. a \in Nat /\ b \in Nat /\ Received = a + b
      BY <2>1, <2>2, ReceivedFacts
  <2> HIDE DEF a, b
  <2>4. a <= Received
      BY <2>3
  <2> QED
      BY <2>4 DEF a
<1>4. ASSUME d < GoodCount PROVE Len(Beginning(stream, d + 1)) > Received
  <2>1. Good(NextItem) /\ d < Len(stream)
      BY <1>4, NextFrameFacts
  <2>2. ~error
      BY <2>1 DEF FramingInv, Refused
  <2>3. Len(buf) < Len(ItemBytes(NextItem))
      BY <2>1, <2>2 DEF FramingInv, Waiting
  <2>4. Received < Len(Beginning(stream, d + 1))
      BY <1>4, <2>3, NextFrameFacts
  <2>5. Received \in Int /\ Len(Beginning(stream, d + 1)) \in Int
    <3>1. stream \in Seq(Items) /\ d \in 0..Len(stream) /\ d + 1 \in 0..Len(stream) /\ buf \in Seq(Bytes)
        BY <1>1, <2>1, StreamTyped DEF FramingInv, TypeOK
    <3>2. Beginning(stream, d) \in Seq(Bytes) /\ Beginning(stream, d + 1) \in Seq(Bytes)
        BY <3>1, BeginningFacts
    <3> QED
        BY <3>1, <3>2, ReceivedFacts
  <2> QED
      BY <2>4, <2>5
<1> QED
    BY <1>2, <1>3, <1>4, WholeFacts DEF Arrived

\* However TCP cuts the stream, Venue::handleLine gets its first frames, in order and
\* unchanged, and whenever handleReadable goes back to poll it has got every frame
\* that has arrived in full.
THEOREM WholeFramesDelivered == Spec => []DeliversWholeFrames
<1>1. FramingInv => DeliversWholeFrames
  <2> SUFFICES ASSUME FramingInv PROVE DeliversWholeFrames
      OBVIOUS
  <2> DEFINE d == Len(delivered)
             t == [i \in 1..Whole |-> stream[i].bytes]
  <2>1. /\ delivered \in Seq(Seq(Bytes)) /\ d \in Nat /\ Whole \in Nat /\ d <= Whole
        /\ Whole \in 0..GoodCount /\ GoodCount \in 0..Len(stream) /\ Len(stream) \in Nat
      BY WholeFacts, GoodCountFacts, StreamTyped DEF FramingInv, Decoded
  <2>2. ASSUME NEW i \in 1..Whole PROVE stream[i].bytes \in Seq(Bytes)
    <3>1. i \in 1..Len(stream)
        BY <2>1
    <3> QED
        BY <3>1, StreamTyped DEF FramingInv, Item
  <2>3. t \in Seq(Seq(Bytes)) /\ Len(t) = Whole
      BY <2>1, <2>2
  <2>4. ASSUME NEW i \in 1..d PROVE delivered[i] = t[i]
    <3>1. i \in 1..Whole
        BY <2>1
    <3> QED
        BY <3>1 DEF FramingInv, Decoded
  <2> HIDE DEF t
  <2>5. SubSeq(delivered, 1, d) = SubSeq(t, 1, d)
    <3>1. d \in 0..Len(delivered) /\ d \in 0..Len(t)
        BY <2>1, <2>3
    <3>2. /\ SubSeq(delivered, 1, d) \in Seq(Seq(Bytes)) /\ Len(SubSeq(delivered, 1, d)) = d
          /\ \A k \in 1..d : SubSeq(delivered, 1, d)[k] = delivered[k]
        BY <2>1, <3>1, CutFacts
    <3>3. /\ SubSeq(t, 1, d) \in Seq(Seq(Bytes)) /\ Len(SubSeq(t, 1, d)) = d
          /\ \A k \in 1..d : SubSeq(t, 1, d)[k] = t[k]
        BY <2>3, <3>1, CutFacts
    <3> QED
        BY <2>4, <3>2, <3>3, SeqEqual
  <2>6. IsPrefix(delivered, t)
      BY <2>1, <2>3, <2>5 DEF IsPrefix
  <2> QED
      BY <2>6, AllDelivered DEF DeliversWholeFrames, FramingInv, t
<1> QED
    BY <1>1, FramingInvariant, PTL

\* FrameDecoder::error_ is set on a violation only, and as soon as its header is there:
\* no peer that frames its payloads is disconnected for it, at any cut.
THEOREM ErrorsAreExact == Spec => []ErrorExact
<1>1. FramingInv => ErrorExact
  <2> SUFFICES ASSUME FramingInv PROVE ErrorExact
      OBVIOUS
  <2> DEFINE d == Len(delivered)
             G == GoodCount
             a == Len(Beginning(stream, d))
             g == Len(Beginning(stream, G))
             b == Len(buf)
  <2>1. /\ stream \in Seq(Items) /\ d \in Nat /\ d <= G /\ G \in 0..Len(stream) /\ Len(stream) \in Nat
        /\ buf \in Seq(Bytes)
    <3>1. d <= Whole /\ Whole \in 0..G
        BY WholeFacts
    <3> QED
        BY <3>1, GoodCountFacts, StreamTyped DEF FramingInv, TypeOK, Decoded
  <2>2. a \in Nat /\ g \in Nat /\ b \in Nat /\ HeaderBytes \in Nat /\ Received = a + b
    <3>1. d \in 0..Len(stream)
        BY <2>1
    <3>2. Beginning(stream, d) \in Seq(Bytes) /\ Beginning(stream, G) \in Seq(Bytes)
        BY <2>1, <3>1, BeginningFacts
    <3>3. HeaderBytes \in Nat
        BY LayoutAssumption DEF HeaderBytes
    <3> QED
        BY <2>1, <3>2, <3>3, ReceivedFacts
  <2>3. BadHeaderArrived <=> G < Len(stream) /\ Received >= g + HeaderBytes
      BY DEF BadHeaderArrived, Beginning
  <2>4. error => BadHeaderArrived
    <3> SUFFICES ASSUME error PROVE BadHeaderArrived
        OBVIOUS
    <3>1. d < Len(stream) /\ ~Good(NextItem) /\ b >= HeaderBytes
        BY DEF FramingInv, Refused
    <3>2. d = G
        BY <2>1, <3>1, NextFrameFacts
    <3>3. a = g
        BY <3>2
    <3> HIDE DEF a, g, b, G, d
    <3> QED
        BY <2>2, <2>3, <3>1, <3>2, <3>3
  <2>5. ASSUME mode = "poll", BadHeaderArrived PROVE FALSE
    <3>1. CASE d = G
      <4>1. d < Len(stream) /\ ~Good(NextItem)
          BY <2>3, <2>5, <3>1, GoodCountFacts DEF FramingInv, NextItem
      <4>2. b < HeaderBytes
          BY <2>5, <4>1 DEF FramingInv, Waiting
      <4>3. a = g
          BY <3>1
      <4> HIDE DEF a, g, b, G, d
      <4> QED
          BY <2>2, <2>3, <2>5, <4>2, <4>3
    <3>2. CASE d < G
      <4>1. Good(NextItem) /\ d < Len(stream)
          BY <3>2, NextFrameFacts
      <4>2. b < Len(ItemBytes(NextItem))
          BY <2>5, <4>1 DEF FramingInv, Waiting
      <4> DEFINE e == Len(Beginning(stream, d + 1))
      <4>3. Received < e
          BY <3>2, <4>2, NextFrameFacts
      <4>4. d + 1 \in 0..Len(stream) /\ d + 1 <= G
          BY <2>1, <3>2
      <4>5. e <= g /\ e \in Nat
        <5>1. Beginning(stream, d + 1) \in Seq(Bytes)
            BY <2>1, <4>4, BeginningFacts
        <5>2. e <= g
            BY <2>1, <4>4, BeginningGrows
        <5> QED
            BY <5>1, <5>2
      <4> HIDE DEF a, g, b, e, G, d
      <4> QED
          BY <2>2, <2>3, <2>5, <4>3, <4>5
    <3> QED
        BY <2>1, <3>1, <3>2
  <2> QED
      BY <2>4, <2>5 DEF ErrorExact
<1> QED
    BY <1>1, FramingInvariant, PTL
=============================================================================
