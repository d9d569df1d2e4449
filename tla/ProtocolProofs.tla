---------------------------- MODULE ProtocolProofs ----------------------------
(***************************************************************************)
(* Proofs about the codec: for every base, limit, vocabulary and length of *)
(* text, the scalars are read exactly, a printed price and a quoted id     *)
(* survive the way out and back in, and a payload becomes the message that *)
(* it states.                                                              *)
(*                                                                         *)
(* The loops of the code are recursive functions over the positions of a   *)
(* text. The first part shows what such a function does with one more      *)
(* character (LoopGoesOn), by well-founded induction on the length; the    *)
(* other parts use it to follow a loop over every text (TextInduction).    *)
(***************************************************************************)
EXTENDS Protocol, SequenceTheorems, WellFoundedInduction, TLAPS

-----------------------------------------------------------------------------
(***************************************************************************)
(* Recursive functions over the positions of a text.                       *)
(***************************************************************************)
\* Induction over the numbers, for the members of a set.
LEMMA NatInSet ==
    ASSUME NEW S, 0 \in S, \A n \in Nat : n \in S => n + 1 \in S
    PROVE  Nat \subseteq S
<1> SUFFICES ASSUME Nat \ S # {} PROVE FALSE
    OBVIOUS
<1>1. PICK x \in Nat \ S : \A y \in Nat \ S : <<y, x>> \notin OpToRel(<, Nat)
    BY NatLessThanWellFounded, WFMin
<1>2. x # 0 /\ x \in Nat
    OBVIOUS
<1>3. x - 1 \in Nat /\ x - 1 < x /\ (x - 1) + 1 = x
    BY <1>2
<1>4. x - 1 \in S
    BY <1>1, <1>3 DEF OpToRel
<1> QED BY <1>3, <1>4

\* g starts with a and goes on at n from its value at h[n], an earlier number, by F.
GoesOn(n, V, h, a, F, g) ==
    /\ g \in [0..n -> V]
    /\ g[0] = a
    /\ \A k \in 1..n : g[k] = F[<<k, g[h[k]]>>]

\* There is such a function.
LEMMA RecursionExists ==
    ASSUME NEW n \in Nat, NEW V, NEW h, NEW a \in V, NEW F \in [(1..n) \X V -> V],
           \A k \in 1..n : h[k] \in Nat /\ h[k] < k
    PROVE  \E g : GoesOn(n, V, h, a, F, g)
<1> DEFINE A == {m \in Nat : m <= n => \E g : GoesOn(m, V, h, a, F, g)}
<1>1. 0 \in A
  <2> DEFINE g == [k \in 0..0 |-> a]
  <2>1. GoesOn(0, V, h, a, F, g)
      BY DEF GoesOn
  <2> QED BY <2>1
<1>2. ASSUME NEW m \in Nat, m \in A PROVE m + 1 \in A
  <2> SUFFICES ASSUME m + 1 <= n PROVE \E g : GoesOn(m + 1, V, h, a, F, g)
      OBVIOUS
  <2>1. PICK f : GoesOn(m, V, h, a, F, f)
      BY <1>2
  <2>2. /\ f \in [0..m -> V] /\ f[0] = a
        /\ \A k \in 1..m : f[k] = F[<<k, f[h[k]]>>]
      BY <2>1 DEF GoesOn
  <2> DEFINE last == F[<<m + 1, f[h[m + 1]]>>]
             g == [k \in 0..(m + 1) |-> IF k = m + 1 THEN last ELSE f[k]]
  <2>3. h[m + 1] \in 0..m /\ last \in V
    <3>1. m + 1 \in 1..n
        OBVIOUS
    <3>2. h[m + 1] \in 0..m
        BY <3>1
    <3>3. <<m + 1, f[h[m + 1]]>> \in (1..n) \X V
        BY <2>2, <3>1, <3>2
    <3> QED BY <3>2, <3>3
  <2> HIDE DEF last
  <2>4. g \in [0..(m + 1) -> V]
      BY <2>2, <2>3
  <2>5. g[0] = a
      BY <2>2
  <2>6. ASSUME NEW k \in 1..(m + 1) PROVE g[k] = F[<<k, g[h[k]]>>]
    <3>1. h[k] \in 0..m /\ g[h[k]] = f[h[k]]
      <4>1. k \in 1..n
          OBVIOUS
      <4>2. h[k] \in Nat /\ h[k] < k
          BY <4>1
      <4> QED BY <4>2
    <3>2. CASE k = m + 1
      <4>1. g[m + 1] = last
          OBVIOUS
      <4>2. last = F[<<k, f[h[k]]>>]
          BY <3>2 DEF last
      <4> HIDE DEF g
      <4> QED BY <3>1, <3>2, <4>1, <4>2
    <3>3. CASE k # m + 1
        BY <2>2, <3>1, <3>3
    <3> QED BY <3>2, <3>3
  <2>7. GoesOn(m + 1, V, h, a, F, g)
    <3> HIDE DEF g
    <3> QED BY <2>4, <2>5, <2>6 DEF GoesOn
  <2> QED BY <2>7
<1>3. Nat \subseteq A
  <2> HIDE DEF A
  <2> QED BY <1>1, <1>2, NatInSet
<1> QED BY <1>3

\* F is a round of a loop over characters in C with values in V that starts with a.
Rounds(V, C, F, a) == F \in [V \X C -> V] /\ a \in V

\* u holds what a loop over s that starts with a has after each position, if each
\* round is F on what it finds.
LoopOver(V, F, a, s, u) ==
    /\ DOMAIN u = 0..Len(s) /\ u[0] = a
    /\ \A k \in 1..Len(s) : u[k - 1] \in V => u[k] = F[<<u[k - 1], s[k]>>]

\* There is such a loop, and its values are in V.
LEMMA LoopExists ==
    ASSUME NEW V, NEW C, NEW F, NEW a, Rounds(V, C, F, a), NEW s \in Seq(C)
    PROVE  \E u \in [0..Len(s) -> V] : /\ LoopOver(V, F, a, s, u)
                                       /\ \A k \in 1..Len(s) : u[k] = F[<<u[k - 1], s[k]>>]
<1> DEFINE n == Len(s)
           h == [k \in 1..n |-> k - 1]
           G == [p \in (1..n) \X V |-> F[<<p[2], s[p[1]]>>]]
<1> USE DEF Rounds
<1>1. n \in Nat /\ \A k \in 1..n : s[k] \in C
    BY LenProperties, ElementOfSeq
<1>2. G \in [(1..n) \X V -> V]
  <2> SUFFICES ASSUME NEW p \in (1..n) \X V PROVE F[<<p[2], s[p[1]]>>] \in V
      OBVIOUS
  <2>1. <<p[2], s[p[1]]>> \in V \X C
      BY <1>1
  <2> QED BY <2>1
<1>3. \A k \in 1..n : h[k] \in Nat /\ h[k] < k
    BY <1>1
<1> HIDE DEF n, G
<1>4. PICK g : GoesOn(n, V, h, a, G, g)
  <2> HIDE DEF h
  <2> QED BY <1>1, <1>2, <1>3, RecursionExists
<1>5. g \in [0..n -> V] /\ g[0] = a /\ \A k \in 1..n : g[k] = G[<<k, g[k - 1]>>]
    BY <1>4 DEF GoesOn
<1>6. ASSUME NEW k \in 1..n PROVE g[k] = F[<<g[k - 1], s[k]>>]
  <2>1. k - 1 \in 0..n /\ g[k - 1] \in V
      BY <1>1, <1>5
  <2>2. <<k, g[k - 1]>> \in (1..n) \X V
      BY <2>1
  <2>3. G[<<k, g[k - 1]>>] = F[<<g[k - 1], s[k]>>]
      BY <2>2 DEF G
  <2> QED BY <1>5, <2>3
<1> QED BY <1>5, <1>6 DEF LoopOver, n

\* A loop stays in V.
LEMMA LoopIn ==
    ASSUME NEW V, NEW C, NEW F, NEW a, Rounds(V, C, F, a), NEW s \in Seq(C),
           NEW u, LoopOver(V, F, a, s, u)
    PROVE  \A k \in 0..Len(s) : u[k] \in V
<1> USE DEF Rounds
<1> DEFINE A == {k \in Nat : k <= Len(s) => u[k] \in V}
<1>1. Len(s) \in Nat /\ \A k \in 1..Len(s) : s[k] \in C
    BY LenProperties, ElementOfSeq
<1>2. 0 \in A
    BY DEF LoopOver
<1>3. ASSUME NEW k \in Nat, k \in A PROVE k + 1 \in A
  <2> SUFFICES ASSUME k + 1 <= Len(s) PROVE u[k + 1] \in V
      OBVIOUS
  <2>1. u[k] \in V /\ k + 1 \in 1..Len(s) /\ (k + 1) - 1 = k
      BY <1>1, <1>3
  <2>2. u[k + 1] = F[<<u[k], s[k + 1]>>]
      BY <2>1 DEF LoopOver
  <2>3. <<u[k], s[k + 1]>> \in V \X C
      BY <1>1, <2>1
  <2> QED BY <2>2, <2>3
<1>4. Nat \subseteq A
  <2> HIDE DEF A
  <2> QED BY <1>2, <1>3, NatInSet
<1> QED BY <1>4

\* One more position is one more round.
LEMMA LoopAppend ==
    ASSUME NEW V, NEW C, NEW F, NEW a, Rounds(V, C, F, a), NEW s \in Seq(C), NEW c \in C,
           NEW u, LoopOver(V, F, a, s, u), NEW w, LoopOver(V, F, a, Append(s, c), w)
    PROVE  /\ u[Len(s)] \in V
           /\ w[Len(Append(s, c))] = F[<<u[Len(s)], c>>]
<1> DEFINE n == Len(s)
           t == Append(s, c)
           A == {k \in Nat : k <= n => w[k] = u[k]}
<1> USE DEF Rounds
<1>1. /\ n \in Nat /\ t \in Seq(C) /\ Len(t) = n + 1 /\ t[n + 1] = c
      /\ \A k \in 1..n : t[k] = s[k]
    BY AppendProperties
<1> HIDE DEF t
<1>2. /\ \A k \in 0..n : u[k] \in V
      /\ \A k \in 0..(n + 1) : w[k] \in V
  <2>1. LoopOver(V, F, a, t, w)
      BY DEF t
  <2> QED BY <1>1, <2>1, LoopIn
<1>3. /\ u[0] = a /\ w[0] = a
      /\ \A k \in 1..n : u[k] = F[<<u[k - 1], s[k]>>]
      /\ \A k \in 1..(n + 1) : w[k] = F[<<w[k - 1], t[k]>>]
  <2>1. \A k \in 1..n : u[k - 1] \in V
      BY <1>1, <1>2
  <2>2. \A k \in 1..(n + 1) : w[k - 1] \in V
      BY <1>1, <1>2
  <2> QED BY <1>1, <2>1, <2>2 DEF LoopOver, t
<1>4. 0 \in A
    BY <1>3
<1>5. ASSUME NEW k \in Nat, k \in A PROVE k + 1 \in A
  <2> SUFFICES ASSUME k + 1 <= n PROVE w[k + 1] = u[k + 1]
      OBVIOUS
  <2>1. w[k] = u[k] /\ k + 1 \in 1..n /\ k + 1 \in 1..(n + 1) /\ (k + 1) - 1 = k
      BY <1>1, <1>5
  <2> QED BY <1>1, <1>3, <2>1
<1>6. Nat \subseteq A
  <2> HIDE DEF A
  <2> QED BY <1>4, <1>5, NatInSet
<1>7. w[n] = u[n]
    BY <1>1, <1>6
<1>8. w[n + 1] = F[<<w[n], c>>]
  <2>1. n + 1 \in 1..(n + 1) /\ (n + 1) - 1 = n
      BY <1>1
  <2> QED BY <1>1, <1>3, <2>1
<1> QED BY <1>1, <1>2, <1>7, <1>8 DEF t

\* R is what loops leave behind, for every text.
LoopResult(V, C, F, a, R) == \A t \in Seq(C) : \E u : LoopOver(V, F, a, t, u) /\ R[t] = u[Len(t)]

\* What loops leave behind starts from a and takes one step of F for each
\* character more.
LEMMA LoopGoesOn ==
    ASSUME NEW V, NEW C, NEW F, NEW a, Rounds(V, C, F, a), NEW R, LoopResult(V, C, F, a, R)
    PROVE  /\ R[<<>>] = a
           /\ \A s \in Seq(C) : R[s] \in V
           /\ \A s \in Seq(C), c \in C : R[Append(s, c)] = F[<<R[s], c>>]
<1>1. <<>> \in Seq(C) /\ Len(<<>>) = 0
    BY EmptySeq
<1>2. R[<<>>] = a
  <2>1. PICK u : LoopOver(V, F, a, <<>>, u) /\ R[<<>>] = u[Len(<<>>)]
      BY <1>1 DEF LoopResult
  <2> QED BY <1>1, <2>1 DEF LoopOver
<1>3. ASSUME NEW s \in Seq(C) PROVE R[s] \in V
  <2>1. PICK u : LoopOver(V, F, a, s, u) /\ R[s] = u[Len(s)]
      BY DEF LoopResult
  <2>2. Len(s) \in 0..Len(s)
      BY LenProperties
  <2> QED BY <2>1, <2>2, LoopIn
<1>4. ASSUME NEW s \in Seq(C), NEW c \in C PROVE R[Append(s, c)] = F[<<R[s], c>>]
  <2>1. PICK u : LoopOver(V, F, a, s, u) /\ R[s] = u[Len(s)]
      BY DEF LoopResult
  <2>2. Append(s, c) \in Seq(C)
      BY AppendProperties
  <2>3. PICK w : LoopOver(V, F, a, Append(s, c), w) /\ R[Append(s, c)] = w[Len(Append(s, c))]
      BY <2>2 DEF LoopResult
  <2> QED BY <2>1, <2>3, LoopAppend
<1> QED BY <1>2, <1>3, <1>4

-----------------------------------------------------------------------------
(***************************************************************************)
(* parseUint32.                                                            *)
(***************************************************************************)
\* The characters, for the provers.
LEMMA CharactersTyped ==
    /\ Characters \subseteq Int /\ Digits \subseteq Nat /\ Digits \subseteq Characters
    /\ Base \in Nat /\ Base > 1 /\ MaxUint32 \in Nat
    /\ \A d \in Digits : d < Base
BY CodecAssumption DEF Characters, Digits

\* The loop of parseUint32 takes one more character.
LEMMA AccumulatedGoesOn ==
    /\ Accumulated(<<>>) = 0
    /\ \A s \in Seq(Characters) : Accumulated(s) \in Int
    /\ \A s \in Seq(Characters), c \in Characters :
          Accumulated(Append(s, c)) = Accumulate(Accumulated(s), c)
<1> DEFINE V == Int
           a == 0
           F == [p \in V \X Characters |-> Accumulate(p[1], p[2])]
           R == [t \in Seq(Characters) |-> Accumulated(t)]
<1>1. a \in V /\ \A x \in V, y \in Characters : Accumulate(x, y) \in V
  <2>1. ASSUME NEW x \in Int, NEW y \in Characters PROVE Accumulate(x, y) \in Int
    <3>1. y \in Int /\ Base \in Int
        BY CharactersTyped
    <3>2. x * Base + y \in Int
        BY <3>1
    <3> QED BY <3>2 DEF Accumulate, Bad
  <2> QED BY <2>1
<1> HIDE DEF V
<1>2. Rounds(V, Characters, F, a) /\ \A x \in V, y \in Characters : F[<<x, y>>] = Accumulate(x, y)
    BY <1>1 DEF Rounds
<1> HIDE DEF F
<1>3. ASSUME NEW t \in Seq(Characters) PROVE \E u : LoopOver(V, F, a, t, u) /\ R[t] = u[Len(t)]
  <2> DEFINE Eq(f) == f = [n \in 0..Len(t) |-> IF n = 0 THEN a ELSE Accumulate(f[n - 1], t[n])]
             w == CHOOSE f : Eq(f)
  <2>1. Len(t) \in Nat /\ \A k \in 1..Len(t) : t[k] \in Characters
      BY LenProperties, ElementOfSeq
  <2>2. Eq(w)
    <3> HIDE DEF a
    <3>1. PICK u \in [0..Len(t) -> V] : /\ LoopOver(V, F, a, t, u)
                                        /\ \A k \in 1..Len(t) : u[k] = F[<<u[k - 1], t[k]>>]
        BY <1>2, LoopExists
    <3>2. u[0] = a /\ \A k \in 1..Len(t) : u[k] = Accumulate(u[k - 1], t[k])
        BY <1>2, <2>1, <3>1 DEF LoopOver
    <3>3. Eq(u)
        BY <2>1, <3>2
    <3> HIDE DEF Eq
    <3> QED BY <3>3
  <2>3. R[t] = w[Len(t)]
      BY DEF Accumulated
  <2> HIDE DEF w, a, R
  <2>4. LoopOver(V, F, a, t, w)
      BY <1>2, <2>1, <2>2 DEF LoopOver
  <2> QED BY <2>3, <2>4
<1>4. LoopResult(V, Characters, F, a, R)
  <2> HIDE DEF a, R
  <2> QED BY <1>3 DEF LoopResult
<1>5. /\ R[<<>>] = a
      /\ \A s \in Seq(Characters) : R[s] \in V
      /\ \A s \in Seq(Characters), c \in Characters : R[Append(s, c)] = F[<<R[s], c>>]
  <2> HIDE DEF a, R
  <2> QED BY <1>2, <1>4, LoopGoesOn
<1>6. <<>> \in Seq(Characters) /\ \A s \in Seq(Characters), c \in Characters : Append(s, c) \in Seq(Characters)
    BY EmptySeq, AppendProperties
<1> QED BY <1>2, <1>5, <1>6 DEF V

\* p are the values of the places 0 to n of a number.
Places(n, p) == p = [k \in 0..n |-> IF k = 0 THEN 1 ELSE Base * p[k - 1]]

\* u are the sums of the first digits of s by their places p.
DigitSums(s, p, u) == u = [n \in 0..Len(s) |-> IF n = 0 THEN 0 ELSE u[n - 1] + s[n] * p[Len(s) - n]]

\* The places are numbers, and those of a longer text go on as they were.
LEMMA PlacesFacts ==
    ASSUME NEW n \in Nat
    PROVE  /\ \E p : Places(n, p)
           /\ \A p : Places(n, p) => p[0] = 1 /\ \A k \in 0..n : p[k] \in Nat
           /\ \A p, q : Places(n, p) /\ Places(n + 1, q) =>
                 \A k \in 0..n : q[k] = p[k] /\ q[k + 1] = Base * p[k]
<1> DEFINE a == 1
           F == [x \in (1..n) \X Nat |-> Base * x[2]]
           h == [k \in 1..n |-> k - 1]
<1>1. /\ a \in Nat /\ \A k \in 1..n : h[k] \in Nat /\ h[k] < k
      /\ F \in [(1..n) \X Nat -> Nat] /\ \A k \in 1..n, v \in Nat : F[<<k, v>>] = Base * v
  <2>1. \A v \in Nat : Base * v \in Nat
      BY CharactersTyped
  <2> QED BY <2>1
<1> HIDE DEF F
<1>2. \E p : Places(n, p)
  <2>1. PICK p : GoesOn(n, Nat, h, a, F, p)
    <3> DEFINE V == Nat
    <3>1. a \in V /\ F \in [(1..n) \X V -> V]
        BY <1>1
    <3> HIDE DEF h, a, V
    <3>2. \E p : GoesOn(n, V, h, a, F, p)
        BY <1>1, <3>1, RecursionExists
    <3> QED BY <3>2 DEF V
  <2>2. p \in [0..n -> Nat] /\ p[0] = 1 /\ \A k \in 1..n : p[k] = Base * p[k - 1]
    <3>1. p \in [0..n -> Nat] /\ p[0] = 1 /\ \A k \in 1..n : p[k] = F[<<k, p[k - 1]>>]
        BY <2>1 DEF GoesOn
    <3>2. \A k \in 1..n : p[k - 1] \in Nat
        BY <3>1
    <3> QED BY <1>1, <3>1, <3>2
  <2> QED BY <2>2 DEF Places
<1>3. ASSUME NEW p, Places(n, p) PROVE p[0] = 1 /\ \A k \in 0..n : p[k] \in Nat
  <2>1. p[0] = 1 /\ \A k \in 1..n : p[k] = Base * p[k - 1]
      BY <1>3 DEF Places
  <2> DEFINE A == {k \in Nat : k <= n => p[k] \in Nat}
  <2>2. 0 \in A
      BY <2>1
  <2>3. ASSUME NEW k \in Nat, k \in A PROVE k + 1 \in A
    <3> SUFFICES ASSUME k + 1 <= n PROVE p[k + 1] \in Nat
        OBVIOUS
    <3>1. p[k] \in Nat /\ k + 1 \in 1..n /\ (k + 1) - 1 = k
        BY <2>3
    <3>2. p[k + 1] = Base * p[k]
        BY <2>1, <3>1
    <3> QED BY <3>1, <3>2, CharactersTyped
  <2>4. Nat \subseteq A
    <3> HIDE DEF A
    <3> QED BY <2>2, <2>3, NatInSet
  <2> QED BY <2>1, <2>4
<1>4. ASSUME NEW p, NEW q, Places(n, p), Places(n + 1, q)
      PROVE  \A k \in 0..n : q[k] = p[k] /\ q[k + 1] = Base * p[k]
  <2>1. p[0] = 1 /\ \A k \in 1..n : p[k] = Base * p[k - 1]
      BY <1>4 DEF Places
  <2>2. q[0] = 1 /\ \A k \in 1..(n + 1) : q[k] = Base * q[k - 1]
      BY <1>4 DEF Places
  <2> DEFINE A == {k \in Nat : k <= n => q[k] = p[k]}
  <2>3. 0 \in A
      BY <2>1, <2>2
  <2>4. ASSUME NEW k \in Nat, k \in A PROVE k + 1 \in A
    <3> SUFFICES ASSUME k + 1 <= n PROVE q[k + 1] = p[k + 1]
        OBVIOUS
    <3>1. q[k] = p[k] /\ k + 1 \in 1..n /\ k + 1 \in 1..(n + 1) /\ (k + 1) - 1 = k
        BY <2>4
    <3> QED BY <2>1, <2>2, <3>1
  <2>5. Nat \subseteq A
    <3> HIDE DEF A
    <3> QED BY <2>3, <2>4, NatInSet
  <2>6. ASSUME NEW k \in 0..n PROVE q[k + 1] = Base * q[k]
    <3>1. k + 1 \in 1..(n + 1) /\ (k + 1) - 1 = k
        OBVIOUS
    <3> QED BY <2>2, <3>1
  <2> QED BY <2>5, <2>6
<1> QED BY <1>2, <1>3, <1>4

\* The sums of digits exist and are numbers.
LEMMA DigitSumsFacts ==
    ASSUME NEW s \in Seq(Digits), NEW p, \A k \in 0..Len(s) : p[k] \in Nat
    PROVE  /\ \E u : DigitSums(s, p, u)
           /\ \A u : DigitSums(s, p, u) =>
                 /\ u[0] = 0 /\ \A k \in 0..Len(s) : u[k] \in Nat
                 /\ \A k \in 1..Len(s) : u[k] = u[k - 1] + s[k] * p[Len(s) - k]
<1> DEFINE n == Len(s)
           a == 0
           m == [k \in 1..n |-> s[k] * p[n - k]]
           F == [x \in (1..n) \X Nat |-> x[2] + m[x[1]]]
           h == [k \in 1..n |-> k - 1]
<1>1. n \in Nat /\ \A k \in 1..n : s[k] \in Nat /\ p[n - k] \in Nat /\ s[k] * p[n - k] \in Nat
  <2>1. n \in Nat /\ \A k \in 1..n : s[k] \in Digits
      BY LenProperties, ElementOfSeq
  <2>2. ASSUME NEW k \in 1..n PROVE s[k] \in Nat /\ p[n - k] \in Nat
    <3>1. s[k] \in Nat
        BY <2>1, CharactersTyped
    <3>2. n - k \in 0..n
        BY <2>1
    <3> QED BY <3>1, <3>2
  <2>3. ASSUME NEW x \in Nat, NEW y \in Nat PROVE x * y \in Nat
      OBVIOUS
  <2> QED BY <2>1, <2>2, <2>3
<1>2. /\ a \in Nat /\ \A k \in 1..n : h[k] \in Nat /\ h[k] < k
      /\ F \in [(1..n) \X Nat -> Nat]
      /\ \A k \in 1..n, v \in Nat : F[<<k, v>>] = v + m[k]
      /\ \A k \in 1..n : m[k] = s[k] * p[n - k]
  <2>1. m \in [1..n -> Nat] /\ \A k \in 1..n : m[k] = s[k] * p[n - k]
      BY <1>1
  <2> HIDE DEF m, n
  <2>2. F \in [(1..n) \X Nat -> Nat] /\ \A k \in 1..n, v \in Nat : F[<<k, v>>] = v + m[k]
      BY <2>1
  <2> QED BY <1>1, <2>1, <2>2
<1> HIDE DEF F, m, n
<1>3. \E u : DigitSums(s, p, u)
  <2>1. PICK u : GoesOn(n, Nat, h, a, F, u)
    <3> DEFINE V == Nat
    <3>1. a \in V /\ F \in [(1..n) \X V -> V]
        BY <1>2
    <3> HIDE DEF h, a, V
    <3>2. \E u : GoesOn(n, V, h, a, F, u)
        BY <1>1, <1>2, <3>1, RecursionExists
    <3> QED BY <3>2 DEF V
  <2>2. u \in [0..n -> Nat] /\ u[0] = 0 /\ \A k \in 1..n : u[k] = u[k - 1] + s[k] * p[n - k]
    <3>1. u \in [0..n -> Nat] /\ u[0] = 0 /\ \A k \in 1..n : u[k] = F[<<k, u[k - 1]>>]
        BY <1>1, <2>1 DEF GoesOn
    <3>2. \A k \in 1..n : u[k - 1] \in Nat
        BY <1>1, <3>1
    <3>3. \A k \in 1..n : u[k] = u[k - 1] + m[k]
        BY <1>2, <3>1, <3>2
    <3> QED BY <1>2, <3>1, <3>3
  <2>3. u = [k \in 0..n |-> IF k = 0 THEN 0 ELSE u[k - 1] + s[k] * p[n - k]]
      BY <1>1, <2>2
  <2> QED BY <2>3 DEF DigitSums, n
<1>4. ASSUME NEW u, DigitSums(s, p, u)
      PROVE  /\ u[0] = 0 /\ \A k \in 0..n : u[k] \in Nat
             /\ \A k \in 1..n : u[k] = u[k - 1] + s[k] * p[n - k]
  <2>1. u[0] = 0 /\ \A k \in 1..n : u[k] = u[k - 1] + s[k] * p[n - k]
      BY <1>1, <1>4 DEF DigitSums, n
  <2> DEFINE A == {k \in Nat : k <= n => u[k] \in Nat}
  <2>2. 0 \in A
      BY <2>1
  <2>3. ASSUME NEW k \in Nat, k \in A PROVE k + 1 \in A
    <3> SUFFICES ASSUME k + 1 <= n PROVE u[k + 1] \in Nat
        OBVIOUS
    <3>1. u[k] \in Nat /\ k + 1 \in 1..n /\ (k + 1) - 1 = k
        BY <1>1, <2>3
    <3>2. u[k + 1] = u[k] + s[k + 1] * p[n - (k + 1)]
        BY <2>1, <3>1
    <3> QED BY <1>1, <3>1, <3>2
  <2>4. Nat \subseteq A
    <3> HIDE DEF A
    <3> QED BY <2>2, <2>3, NatInSet
  <2> QED BY <2>1, <2>4
<1> QED BY <1>3, <1>4 DEF n

\* The value of a text of digits, and of one with a digit more.
LEMMA ValueGoesOn ==
    /\ ValueOf(<<>>) = 0
    /\ \A s \in Seq(Digits) : ValueOf(s) \in Nat
    /\ \A s \in Seq(Digits), d \in Digits : ValueOf(Append(s, d)) = Base * ValueOf(s) + d
<1> DEFINE P(t) == CHOOSE p : Places(Len(t), p)
           U(t) == CHOOSE u : DigitSums(t, P(t), u)
<1>1. \A t : ValueOf(t) = U(t)[Len(t)]
    BY DEF ValueOf, Places, DigitSums
<1>2. ASSUME NEW t \in Seq(Digits)
      PROVE  /\ Len(t) \in Nat
             /\ Places(Len(t), P(t)) /\ \A k \in 0..Len(t) : P(t)[k] \in Nat
             /\ P(t)[0] = 1
             /\ DigitSums(t, P(t), U(t))
  <2>1. Len(t) \in Nat
      BY LenProperties
  <2>2. Places(Len(t), P(t))
      BY <2>1, PlacesFacts
  <2> HIDE DEF P
  <2>3. P(t)[0] = 1 /\ \A k \in 0..Len(t) : P(t)[k] \in Nat
      BY <2>1, <2>2, PlacesFacts
  <2>4. \E u : DigitSums(t, P(t), u)
      BY <2>3, DigitSumsFacts
  <2>5. DigitSums(t, P(t), U(t))
      BY <2>4
  <2> QED BY <2>1, <2>2, <2>3, <2>5
<1> HIDE DEF P, U
<1>3. ASSUME NEW t \in Seq(Digits)
      PROVE  /\ U(t)[0] = 0 /\ \A k \in 0..Len(t) : U(t)[k] \in Nat
             /\ \A k \in 1..Len(t) : U(t)[k] = U(t)[k - 1] + t[k] * P(t)[Len(t) - k]
    BY <1>2, DigitSumsFacts
<1>4. ValueOf(<<>>) = 0
    BY <1>1, <1>3, EmptySeq
<1>5. ASSUME NEW s \in Seq(Digits) PROVE ValueOf(s) \in Nat
    BY <1>1, <1>2, <1>3
<1>6. ASSUME NEW s \in Seq(Digits), NEW d \in Digits
      PROVE  ValueOf(Append(s, d)) = Base * ValueOf(s) + d
  <2> DEFINE n == Len(s)
             t == Append(s, d)
             p == P(s)
             q == P(t)
             u == U(s)
             w == U(t)
             A == {k \in Nat : k <= n => w[k] = Base * u[k]}
  <2>1. /\ n \in Nat /\ t \in Seq(Digits) /\ Len(t) = n + 1 /\ t[n + 1] = d
        /\ \A k \in 1..n : t[k] = s[k] /\ s[k] \in Nat
        /\ d \in Nat /\ Base \in Nat
    <3>1. n \in Nat /\ \A k \in 1..n : s[k] \in Nat
      <4>1. \A k \in 1..n : s[k] \in Digits
          BY ElementOfSeq
      <4> QED BY <4>1, LenProperties, CharactersTyped
    <3>2. t \in Seq(Digits) /\ Len(t) = n + 1 /\ t[n + 1] = d /\ \A k \in 1..n : t[k] = s[k]
        BY AppendProperties
    <3>3. d \in Nat /\ Base \in Nat
        BY CharactersTyped
    <3> HIDE DEF n, t
    <3> QED BY <3>1, <3>2, <3>3
  <2> HIDE DEF t
  <2>2. /\ q[0] = 1 /\ \A k \in 0..n : p[k] \in Nat /\ q[k + 1] = Base * p[k]
    <3>1. Places(n, p) /\ Places(n + 1, q) /\ q[0] = 1 /\ \A k \in 0..n : p[k] \in Nat
        BY <1>2, <2>1
    <3> HIDE DEF n, p, q
    <3> QED BY <2>1, <3>1, PlacesFacts
  <2>3. /\ u[0] = 0 /\ \A k \in 0..n : u[k] \in Nat
        /\ \A k \in 1..n : u[k] = u[k - 1] + s[k] * p[n - k]
      BY <1>3
  <2>4. /\ w[0] = 0
        /\ \A k \in 1..(n + 1) : w[k] = w[k - 1] + t[k] * q[(n + 1) - k]
      BY <1>3, <2>1
  <2> HIDE DEF n, p, q, u, w
  <2>5. 0 \in A
      BY <2>1, <2>3, <2>4
  <2>6. ASSUME NEW k \in Nat, k \in A PROVE k + 1 \in A
    <3> SUFFICES ASSUME k + 1 <= n PROVE w[k + 1] = Base * u[k + 1]
        OBVIOUS
    <3> DEFINE j == n - (k + 1)
               x == u[k]
               y == s[k + 1]
               z == p[j]
    <3>1. w[k] = Base * u[k] /\ k + 1 \in 1..n /\ k + 1 \in 1..(n + 1) /\ (k + 1) - 1 = k /\ k \in 0..n
        BY <2>1, <2>6
    <3>2. j \in 0..n /\ j + 1 = (n + 1) - (k + 1)
        BY <2>1
    <3> HIDE DEF j
    <3>3. x \in Nat /\ y \in Nat /\ z \in Nat /\ Base \in Nat
        BY <2>1, <2>2, <2>3, <3>1, <3>2
    <3>4. u[k + 1] = x + y * z
        BY <2>3, <3>1, <3>2 DEF j
    <3>5. w[k + 1] = Base * x + y * (Base * z)
      <4>1. w[k + 1] = w[k] + t[k + 1] * q[j + 1]
          BY <2>4, <3>1, <3>2
      <4>2. t[k + 1] = y /\ q[j + 1] = Base * z
          BY <2>1, <2>2, <3>1, <3>2
      <4> QED BY <3>1, <4>1, <4>2
    <3> HIDE DEF x, y, z
    <3>6. Base * x + y * (Base * z) = Base * (x + y * z)
        BY <3>3
    <3> QED BY <3>4, <3>5, <3>6
  <2>7. Nat \subseteq A
    <3> HIDE DEF A
    <3> QED BY <2>5, <2>6, NatInSet
  <2>8. w[n] = Base * u[n]
      BY <2>1, <2>7
  <2>9. w[n + 1] = w[n] + d * 1
    <3>1. n + 1 \in 1..(n + 1) /\ (n + 1) - 1 = n /\ (n + 1) - (n + 1) = 0
        BY <2>1
    <3> QED BY <2>1, <2>2, <2>4, <3>1
  <2>10. w[n + 1] = Base * u[n] + d
    <3> DEFINE v == Base * u[n]
    <3>1. v \in Nat
        BY <2>1, <2>3
    <3> HIDE DEF v
    <3>2. w[n + 1] = v + d * 1
        BY <2>8, <2>9 DEF v
    <3>3. w[n + 1] = v + d
        BY <2>1, <3>1, <3>2
    <3> QED BY <3>3 DEF v
  <2>11. ValueOf(t) = w[n + 1] /\ ValueOf(s) = u[n]
      BY <1>1, <2>1 DEF n, u, w
  <2> QED BY <2>10, <2>11 DEF t
<1> QED BY <1>4, <1>5, <1>6

\* What holds of the empty text and goes on holding with one more character holds
\* of every text in C.
LEMMA TextInduction ==
    ASSUME NEW C, NEW T, <<>> \in T,
           \A s \in Seq(C), c \in C : s \in T => Append(s, c) \in T
    PROVE  Seq(C) \subseteq T
<1> DEFINE A == {k \in Nat : \A s \in Seq(C) : Len(s) = k => s \in T}
<1>1. 0 \in A
    BY EmptySeq
<1>2. ASSUME NEW k \in Nat, k \in A PROVE k + 1 \in A
  <2> SUFFICES ASSUME NEW t \in Seq(C), Len(t) = k + 1 PROVE t \in T
      OBVIOUS
  <2>1. t # <<>>
      BY EmptySeq
  <2>2. PICK s \in Seq(C), c \in C : t = Append(s, c)
      BY <2>1, SequenceEmptyOrAppend
  <2>3. Len(s) = k
    <3>1. Len(s) \in Nat /\ Len(t) = Len(s) + 1
        BY <2>2, AppendProperties, LenProperties
    <3> QED BY <3>1
  <2> QED BY <1>2, <2>2, <2>3
<1>3. Nat \subseteq A
  <2> HIDE DEF A
  <2> QED BY <1>1, <1>2, NatInSet
<1>4. \A s \in Seq(C) : Len(s) \in Nat
    BY LenProperties
<1> QED BY <1>3, <1>4

\* What IsDigits says, for the provers.
LEMMA IsDigitsFacts ==
    ASSUME NEW s \in Seq(Characters)
    PROVE  /\ IsDigits(s) <=> \A k \in 1..Len(s) : s[k] \in Digits
           /\ IsDigits(s) <=> s \in Seq(Digits)
<1>1. Len(s) \in Nat /\ s \in [1..Len(s) -> Characters] /\ DOMAIN s = 1..Len(s)
    BY LenProperties
<1>2. IsDigits(s) <=> \A k \in 1..Len(s) : s[k] \in Digits
    BY <1>1 DEF IsDigits, ToSet
<1>3. ASSUME \A k \in 1..Len(s) : s[k] \in Digits PROVE s \in Seq(Digits)
    BY <1>1, <1>3, SeqDef
<1>4. ASSUME s \in Seq(Digits) PROVE \A k \in 1..Len(s) : s[k] \in Digits
    BY <1>4, ElementOfSeq
<1> QED BY <1>2, <1>3, <1>4

\* A text with one more character is all digits if it was and that one is.
LEMMA IsDigitsAppend ==
    ASSUME NEW s \in Seq(Characters), NEW c \in Characters
    PROVE  IsDigits(Append(s, c)) <=> IsDigits(s) /\ c \in Digits
<1> DEFINE t == Append(s, c)
<1>1. /\ t \in Seq(Characters) /\ Len(t) = Len(s) + 1 /\ t[Len(s) + 1] = c
      /\ \A k \in 1..Len(s) : t[k] = s[k]
    BY AppendProperties
<1>2. Len(s) \in Nat
    BY LenProperties
<1> HIDE DEF t
<1>3. (\A k \in 1..Len(t) : t[k] \in Digits) <=> (\A k \in 1..Len(s) : s[k] \in Digits) /\ c \in Digits
  <2>1. \A k : k \in 1..Len(t) <=> k \in 1..Len(s) \/ k = Len(s) + 1
      BY <1>1, <1>2
  <2> QED BY <1>1, <2>1
<1>4. IsDigits(t) <=> IsDigits(s) /\ c \in Digits
    BY <1>1, <1>3, IsDigitsFacts
<1> QED BY <1>4 DEF t

\* A text of digits, read by the loop: its value while that fits, and nothing else.
ReadsAs(s) == IF IsDigits(s) /\ ValueOf(s) <= MaxUint32 THEN ValueOf(s) ELSE Bad

\* The running test against the limit refuses exactly the values beyond it.
LEMMA AccumulatedIs == \A s \in Seq(Characters) : Accumulated(s) = ReadsAs(s)
<1> DEFINE T == {s \in Seq(Characters) : Accumulated(s) = ReadsAs(s)}
<1>1. <<>> \in T
  <2>1. <<>> \in Seq(Characters) /\ IsDigits(<<>>)
      BY EmptySeq, IsDigitsFacts
  <2> QED BY <2>1, AccumulatedGoesOn, ValueGoesOn, CharactersTyped DEF ReadsAs
<1>2. ASSUME NEW s \in Seq(Characters), NEW c \in Characters, s \in T
      PROVE  Append(s, c) \in T
  <2> DEFINE v == ValueOf(s)
             x == Accumulated(s)
             t == Append(s, c)
  <2>1. t \in Seq(Characters) /\ Accumulated(t) = Accumulate(x, c) /\ x = ReadsAs(s)
      BY <1>2, AppendProperties, AccumulatedGoesOn
  <2>2. IsDigits(t) <=> IsDigits(s) /\ c \in Digits
      BY IsDigitsAppend
  <2>3. CASE ~IsDigits(s) \/ c \notin Digits
    <3>1. x = Bad \/ c \notin Digits
        BY <2>1, <2>3 DEF ReadsAs
    <3>2. Accumulate(x, c) = Bad
        BY <3>1 DEF Accumulate
    <3>3. ReadsAs(t) = Bad
        BY <2>2, <2>3 DEF ReadsAs
    <3> QED BY <2>1, <3>2, <3>3
  <2>4. CASE IsDigits(s) /\ c \in Digits
    <3>1. s \in Seq(Digits)
        BY <2>4, IsDigitsFacts
    <3>2. v \in Nat /\ ValueOf(t) = Base * v + c /\ c \in Nat /\ Base \in Nat /\ Base > 1
        BY <2>4, <3>1, ValueGoesOn, CharactersTyped
    <3> DEFINE w == v * Base
    <3>3. w \in Nat /\ Base * v = w /\ w >= v
      <4> HIDE DEF v
      <4>1. Base * v = v * Base /\ v * Base \in Nat
          BY <3>2
      <4>2. v * Base >= v * 1
        <5>1. v * (Base - 1) >= 0
            BY <3>2
        <5>2. v * (Base - 1) = v * Base - v
            BY <3>2
        <5> QED BY <3>2, <4>1, <5>1, <5>2
      <4> QED BY <3>2, <4>1, <4>2
    <3>4. x = IF v <= MaxUint32 THEN v ELSE Bad
        BY <2>1, <2>4 DEF ReadsAs
    <3>5. Accumulate(x, c) = IF x = Bad \/ x * Base + c > MaxUint32 THEN Bad ELSE x * Base + c
        BY <2>4 DEF Accumulate
    <3>6. ReadsAs(t) = IF w + c <= MaxUint32 THEN w + c ELSE Bad
        BY <2>2, <2>4, <3>2, <3>3 DEF ReadsAs
    <3>7. CASE v <= MaxUint32
      <4>1. x = v /\ x # Bad /\ x * Base = w
          BY <3>2, <3>4, <3>7 DEF Bad
      <4> HIDE DEF w, x, v
      <4>2. Accumulate(x, c) = IF w + c > MaxUint32 THEN Bad ELSE w + c
          BY <3>5, <4>1
      <4> QED BY <2>1, <3>2, <3>3, <3>6, <4>2, CharactersTyped DEF x
    <3>8. CASE ~(v <= MaxUint32)
      <4>1. x = Bad
          BY <3>4, <3>8
      <4> HIDE DEF w, x, v
      <4>2. ~(w + c <= MaxUint32)
          BY <3>2, <3>3, <3>8, CharactersTyped
      <4> QED BY <2>1, <3>5, <3>6, <4>1, <4>2 DEF x
    <3> QED BY <3>7, <3>8
  <2> QED BY <2>1, <2>3, <2>4
<1>3. Seq(Characters) \subseteq T
  <2> HIDE DEF T
  <2> QED BY <1>1, <1>2, TextInduction
<1> QED BY <1>3

\* Every text of digits is read as its value, or refused when that does not fit.
LEMMA UintExactText ==
    ASSUME text \in Seq(Characters)
    PROVE  UintExact
BY AccumulatedIs DEF UintExact, ParseUint32, ReadsAs

-----------------------------------------------------------------------------
(***************************************************************************)
(* parseDecimalToTicks.                                                    *)
(***************************************************************************)
\* The least of a set of numbers.
LEMMA MinIs ==
    ASSUME NEW S, S \subseteq Nat, S # {}
    PROVE  Min(S) \in S /\ \A y \in S : Min(S) <= y
<1>1. PICK x \in S : \A y \in S : <<y, x>> \notin OpToRel(<, Nat)
    BY NatLessThanWellFounded, WFMin
<1>2. ASSUME NEW y \in S PROVE x <= y
  <2>1. x \in Nat /\ y \in Nat
      OBVIOUS
  <2>2. ~(y < x)
      BY <1>1, <2>1 DEF OpToRel
  <2> QED BY <2>1, <2>2
<1> QED BY <1>2 DEF Min

\* The value of one and of two digits.
LEMMA ShortValues ==
    /\ \A d \in Digits : ValueOf(<<d>>) = d
    /\ \A d \in Digits, e \in Digits : ValueOf(<<d, e>>) = Base * d + e
<1>1. ASSUME NEW d \in Digits PROVE <<d>> \in Seq(Digits) /\ ValueOf(<<d>>) = d
  <2>1. <<>> \in Seq(Digits) /\ Append(<<>>, d) = <<d>>
      BY EmptySeq
  <2>2. ValueOf(Append(<<>>, d)) = Base * ValueOf(<<>>) + d /\ Append(<<>>, d) \in Seq(Digits)
      BY <2>1, ValueGoesOn, AppendProperties
  <2>3. d \in Nat /\ Base \in Nat
      BY CharactersTyped
  <2> QED BY <2>1, <2>2, <2>3, ValueGoesOn
<1>2. ASSUME NEW d \in Digits, NEW e \in Digits PROVE ValueOf(<<d, e>>) = Base * d + e
  <2> DEFINE one == <<d>>
             two == <<d, e>>
             t == Append(one, e)
  <2>0. one \in Seq(Digits) /\ Len(one) = 1 /\ one[1] = d /\ two \in Seq(Digits) /\ Len(two) = 2
        /\ two[1] = d /\ two[2] = e
      BY <1>1
  <2> HIDE DEF one, two
  <2>1. t = two
    <3>1. t \in Seq(Digits) /\ Len(t) = 2 /\ t[2] = e /\ t[1] = d
      <4>1. /\ t \in Seq(Digits) /\ Len(t) = Len(one) + 1 /\ t[Len(one) + 1] = e
            /\ \A i \in 1..Len(one) : t[i] = one[i]
        <5>1. one \in Seq(Digits) /\ e \in Digits
            BY <2>0
        <5> QED BY <5>1, AppendProperties
      <4> HIDE DEF t
      <4>2. 1 \in 1..Len(one) /\ Len(one) + 1 = 2
          BY <2>0
      <4> QED BY <2>0, <4>1, <4>2
    <3> HIDE DEF t
    <3>2. \A i \in 1..Len(t) : t[i] = two[i]
        BY <2>0, <3>1
    <3> QED BY <2>0, <3>1, <3>2, SeqEqual
  <2>2. ValueOf(t) = Base * ValueOf(one) + e
      BY <2>0, ValueGoesOn
  <2>3. ValueOf(one) = d
      BY <1>1 DEF one
  <2>4. ValueOf(two) = Base * d + e
      BY <2>1, <2>2, <2>3
  <2> QED BY <2>4 DEF two
<1> QED BY <1>1, <1>2

\* A piece of a text.
LEMMA Piece ==
    ASSUME NEW s \in Seq(Characters), NEW m \in 1..(Len(s) + 2), NEW n \in 0..Len(s), m <= n + 2
    PROVE  /\ SubSeq(s, m, n) \in Seq(Characters)
           /\ Len(SubSeq(s, m, n)) = IF m <= n THEN n - m + 1 ELSE 0
           /\ \A i \in 1..(n - m + 1) : SubSeq(s, m, n)[i] = s[m + i - 1]
           /\ IsDigits(SubSeq(s, m, n)) <=> \A k \in m..n : s[k] \in Digits
<1> DEFINE t == SubSeq(s, m, n)
<1>1. Len(s) \in Nat /\ m \in Int /\ n \in Int
    BY LenProperties
<1>2. \A i \in m..n : s[i] \in Characters
  <2>1. \A i \in m..n : i \in 1..Len(s)
      BY <1>1
  <2> QED BY <2>1, ElementOfSeq
<1>3. /\ t \in Seq(Characters) /\ Len(t) = IF m <= n THEN n - m + 1 ELSE 0
      /\ \A i \in 1..(n - m + 1) : t[i] = s[m + i - 1]
    BY <1>1, <1>2, SubSeqProperties
<1> HIDE DEF t
<1>4. (\A i \in 1..Len(t) : t[i] \in Digits) <=> (\A k \in m..n : s[k] \in Digits)
  <2>1. ASSUME \A i \in 1..Len(t) : t[i] \in Digits, NEW k \in m..n PROVE s[k] \in Digits
    <3> DEFINE i == k - m + 1
    <3>1. i \in 1..Len(t) /\ i \in 1..(n - m + 1) /\ m + i - 1 = k
        BY <1>1, <1>3
    <3> HIDE DEF i
    <3> QED BY <1>3, <2>1, <3>1
  <2>2. ASSUME \A k \in m..n : s[k] \in Digits, NEW i \in 1..Len(t) PROVE t[i] \in Digits
    <3>1. i \in 1..(n - m + 1) /\ m + i - 1 \in m..n
        BY <1>1, <1>3
    <3> QED BY <1>3, <2>2, <3>1
  <2> QED BY <2>1, <2>2
<1> QED BY <1>3, <1>4, IsDigitsFacts DEF t

\* The digits behind the point, padded to two, count the ticks they write.
LEMMA PaddedTicks ==
    ASSUME NEW f \in Seq(Digits), Len(f) <= 2
    PROVE  /\ PadFraction(f)[1] \in Digits /\ PadFraction(f)[2] \in Digits
           /\ PadFraction(f)[1] * Base + PadFraction(f)[2]
                = ValueOf(f) * (CASE Len(f) = 0 -> 0 [] Len(f) = 1 -> Base [] Len(f) = 2 -> 1)
<1> DEFINE unit == CASE Len(f) = 0 -> 0 [] Len(f) = 1 -> Base [] Len(f) = 2 -> 1
           Goal == /\ PadFraction(f)[1] \in Digits /\ PadFraction(f)[2] \in Digits
                   /\ PadFraction(f)[1] * Base + PadFraction(f)[2] = ValueOf(f) * unit
<1>0. (Len(f) = 0 => unit = 0) /\ (Len(f) = 1 => unit = Base) /\ (Len(f) = 2 => unit = 1)
    OBVIOUS
<1> HIDE DEF unit
<1>1. Len(f) \in Nat /\ \A k \in 1..Len(f) : f[k] \in Digits
    BY LenProperties, ElementOfSeq
<1>2. Base \in Nat /\ Digits \subseteq Nat /\ 0 \in Digits
    BY CharactersTyped DEF Digits
<1>3. ASSUME Len(f) = 0 PROVE Goal
  <2>1. f = <<>>
      BY <1>3, EmptySeq
  <2>2. PadFraction(f) = <<0, 0>>
      BY <2>1 DEF PadFraction
  <2>3. ValueOf(f) = 0
      BY <2>1, ValueGoesOn
  <2>4. ValueOf(f) * unit = 0
      BY <1>0, <1>3, <2>3
  <2>5. 0 * Base + 0 = 0
      BY <1>2
  <2> QED BY <1>2, <2>2, <2>4, <2>5
<1>4. ASSUME Len(f) = 1 PROVE Goal
  <2> DEFINE d == f[1]
  <2>1. d \in Digits
      BY <1>1, <1>4
  <2>2. f = <<d>>
      BY <1>4, LenProperties
  <2>3. PadFraction(f) = <<d, 0>>
      BY <1>4 DEF PadFraction
  <2> HIDE DEF d
  <2>4. ValueOf(f) = d
      BY <2>1, <2>2, ShortValues
  <2>5. unit = Base
      BY <1>0, <1>4
  <2>6. d * Base + 0 = d * Base
      BY <1>2, <2>1
  <2> QED BY <1>2, <2>1, <2>3, <2>4, <2>5, <2>6
<1>5. ASSUME Len(f) = 2 PROVE Goal
  <2> DEFINE d == f[1]
             e == f[2]
  <2>1. d \in Digits /\ e \in Digits
      BY <1>1, <1>5
  <2>2. f = <<d, e>>
      BY <1>5, LenProperties
  <2>3. PadFraction(f) = <<d, e>>
      BY <1>5, <2>2 DEF PadFraction
  <2> HIDE DEF d, e
  <2>4. ValueOf(f) = Base * d + e
      BY <2>1, <2>2, ShortValues
  <2>5. unit = 1
      BY <1>0, <1>5
  <2>6. d \in Nat /\ e \in Nat /\ (Base * d + e) * 1 = d * Base + e
      BY <1>2, <2>1
  <2> QED BY <2>1, <2>3, <2>4, <2>5, <2>6
<1>6. Len(f) = 0 \/ Len(f) = 1 \/ Len(f) = 2
  <2> DEFINE n == Len(f)
  <2>1. n \in Nat /\ n <= 2
      BY <1>1
  <2> HIDE DEF n, Goal
  <2>2. n = 0 \/ n = 1 \/ n = 2
      BY <2>1
  <2> QED BY <2>2 DEF n
<1>7. Goal
  <2> HIDE DEF Goal
  <2> QED BY <1>3, <1>4, <1>5, <1>6
<1> QED BY <1>7 DEF unit

\* Where the whole part of a decimal ends.
PointOf(s) == Min({j \in 1..(Len(s) + 1) : j = Len(s) + 1 \/ s[j] = Dot})

\* At the first point or at the end of the text.
LEMMA PointFacts ==
    ASSUME NEW s \in Seq(Characters)
    PROVE  /\ PointOf(s) \in 1..(Len(s) + 1)
           /\ PointOf(s) = Len(s) + 1 \/ s[PointOf(s)] = Dot
           /\ \A j \in 1..(PointOf(s) - 1) : s[j] # Dot
<1> DEFINE n == Len(s)
           S == {j \in 1..(n + 1) : j = n + 1 \/ s[j] = Dot}
<1>1. n \in Nat
    BY LenProperties
<1> HIDE DEF n
<1>2. S \subseteq Nat /\ n + 1 \in S
    BY <1>1
<1>3. Min(S) \in S /\ \A y \in S : Min(S) <= y
  <2> HIDE DEF S
  <2> QED BY <1>2, MinIs
<1> DEFINE p == Min(S)
<1>4. p \in 1..(n + 1) /\ (p = n + 1 \/ s[p] = Dot) /\ \A y \in S : p <= y
    BY <1>3
<1> HIDE DEF p
<1>5. ASSUME NEW j \in 1..(p - 1) PROVE s[j] # Dot
  <2>1. j \in 1..(n + 1) /\ ~(p <= j)
      BY <1>1, <1>4
  <2> QED BY <1>4, <2>1
<1> QED BY <1>4, <1>5 DEF p, PointOf, n

\* k characters of s are the whole part of a decimal with up to two digits behind
\* the point.
SplitsAt(s, k) == /\ IsDigits(SubSeq(s, 1, k))
                  /\ k < Len(s) => s[k + 1] = Dot
                  /\ Len(s) - k <= 3
                  /\ IsDigits(SubSeq(s, k + 2, Len(s)))

\* Only what stands before the first point can be the whole part.
LEMMA SplitAtPoint ==
    ASSUME NEW s \in Seq(Characters), NEW k \in 1..Len(s), SplitsAt(s, k)
    PROVE  k = PointOf(s) - 1
<1> DEFINE n == Len(s)
           p == PointOf(s)
<1>1. n \in Nat /\ k \in 1..n
    BY LenProperties
<1>2. \A i \in 1..k : s[i] \in Digits
    BY <1>1, Piece DEF SplitsAt
<1>3. p \in 1..(n + 1) /\ (p = n + 1 \/ s[p] = Dot) /\ \A j \in 1..(p - 1) : s[j] # Dot
    BY PointFacts
<1>4. k < n => s[k + 1] = Dot
    BY DEF SplitsAt
<1>5. Dot \notin Digits
    BY DEF Dot, Digits
<1> HIDE DEF n, p
<1>6. ~(p <= k)
    BY <1>1, <1>2, <1>3, <1>5
<1>7. ~(k + 1 < p)
  <2> SUFFICES ASSUME k + 1 < p PROVE FALSE
      OBVIOUS
  <2>1. k < n /\ k + 1 \in 1..(p - 1)
      BY <1>1, <1>3
  <2> QED BY <1>3, <1>4, <2>1
<1>8. k = p - 1
    BY <1>1, <1>3, <1>6, <1>7
<1> QED BY <1>8 DEF p

\* The tests of parseDecimalToTicks on the two parts.
Decimal(s) == LET intPart == SubSeq(s, 1, PointOf(s) - 1)
                  frac == SubSeq(s, PointOf(s) + 1, Len(s))
              IN /\ s # <<>> /\ intPart # <<>> /\ Len(frac) <= 2
                 /\ ToSet(intPart) \cup ToSet(frac) \subseteq Digits

\* They say that the text is such a decimal.
LEMMA DecimalSplits ==
    ASSUME NEW s \in Seq(Characters)
    PROVE  Decimal(s) <=> PointOf(s) - 1 \in 1..Len(s) /\ SplitsAt(s, PointOf(s) - 1)
<1> DEFINE n == Len(s)
           p == PointOf(s)
           k == p - 1
           intPart == SubSeq(s, 1, p - 1)
           frac == SubSeq(s, p + 1, n)
<1>1. n \in Nat /\ p \in 1..(n + 1) /\ (p = n + 1 \/ s[p] = Dot)
    BY LenProperties, PointFacts
<1>2. /\ intPart \in Seq(Characters) /\ Len(intPart) = IF 1 <= p - 1 THEN p - 1 ELSE 0
      /\ frac \in Seq(Characters) /\ Len(frac) = IF p + 1 <= n THEN n - p ELSE 0
  <2>1. 1 \in 1..(n + 2) /\ p + 1 \in 1..(n + 2) /\ p - 1 \in 0..n /\ n \in 0..n /\ p + 1 <= n + 2
        /\ 1 <= (p - 1) + 2 /\ (p - 1) - 1 + 1 = p - 1 /\ n - (p + 1) + 1 = n - p
      BY <1>1
  <2> HIDE DEF p
  <2>2. intPart \in Seq(Characters) /\ Len(intPart) = IF 1 <= p - 1 THEN (p - 1) - 1 + 1 ELSE 0
      BY <2>1, Piece
  <2>3. frac \in Seq(Characters) /\ Len(frac) = IF p + 1 <= n THEN n - (p + 1) + 1 ELSE 0
      BY <2>1, Piece
  <2> HIDE DEF intPart, frac, n
  <2> QED BY <2>1, <2>2, <2>3
<1>3. ToSet(intPart) \cup ToSet(frac) \subseteq Digits <=> IsDigits(intPart) /\ IsDigits(frac)
    BY DEF IsDigits
<1>4. k + 2 = p + 1 /\ k + 1 = p
    BY <1>1
<1>5. SplitsAt(s, k) <=> /\ IsDigits(intPart) /\ IsDigits(frac)
                         /\ k < n => s[p] = Dot
                         /\ n - k <= 3
    BY <1>4 DEF SplitsAt
<1>6. Decimal(s) <=> /\ s # <<>> /\ intPart # <<>> /\ Len(frac) <= 2
                     /\ IsDigits(intPart) /\ IsDigits(frac)
    BY <1>3 DEF Decimal
<1>7. (s # <<>> <=> n # 0) /\ (intPart # <<>> <=> Len(intPart) # 0)
  <2>1. \A t \in Seq(Characters) : t # <<>> <=> Len(t) # 0
      BY EmptySeq
  <2> QED BY <1>2, <2>1
<1> HIDE DEF n, p, intPart, frac
<1>8. (n # 0 /\ Len(intPart) # 0 /\ Len(frac) <= 2) <=> (k \in 1..n /\ (k < n => s[p] = Dot) /\ n - k <= 3)
  <2>1. k < n => s[p] = Dot
      BY <1>1
  <2>2. Len(intPart) # 0 <=> k >= 1
      BY <1>1, <1>2
  <2>3. Len(frac) <= 2 <=> n - k <= 3
      BY <1>1, <1>2
  <2>4. n # 0 /\ k >= 1 <=> k \in 1..n
      BY <1>1
  <2> QED BY <2>1, <2>2, <2>3, <2>4
<1> QED BY <1>5, <1>6, <1>7, <1>8 DEF n, p

\* The ticks of a decimal whose whole part has k characters.
TicksAt(s, k) ==
    LET frac == SubSeq(s, k + 2, Len(s))
    IN ValueOf(SubSeq(s, 1, k)) * kPriceScale
       + ValueOf(frac) * (CASE Len(frac) = 0 -> 0 [] Len(frac) = 1 -> Base [] Len(frac) = 2 -> 1)

\* What parseDecimalToTicks makes of a decimal.
LEMMA DecimalTicks ==
    ASSUME NEW s \in Seq(Characters), Decimal(s)
    PROVE  LET t == TicksAt(s, PointOf(s) - 1)
           IN t \in Nat /\ ParseDecimalToTicks(s) = IF t > MaxUint32 THEN Bad ELSE t
<1> DEFINE n == Len(s)
           p == PointOf(s)
           k == p - 1
           intPart == SubSeq(s, 1, p - 1)
           frac == SubSeq(s, p + 1, n)
           padded == PadFraction(frac)
           whole == Accumulated(intPart)
           unit == CASE Len(frac) = 0 -> 0 [] Len(frac) = 1 -> Base [] Len(frac) = 2 -> 1
           v == ValueOf(intPart)
           r == padded[1] * Base + padded[2]
           t == TicksAt(s, k)
<1>1. n \in Nat /\ p \in 1..(n + 1)
    BY LenProperties, PointFacts
<1>2. /\ s # <<>> /\ intPart # <<>> /\ ~(Len(frac) > 2)
      /\ ToSet(intPart) \cup ToSet(frac) \subseteq Digits /\ IsDigits(intPart) /\ IsDigits(frac)
      /\ Len(frac) <= 2
  <2>1. /\ s # <<>> /\ intPart # <<>> /\ Len(frac) <= 2
        /\ ToSet(intPart) \cup ToSet(frac) \subseteq Digits
      BY DEF Decimal
  <2>2. Len(frac) \in Nat
    <3>1. p + 1 \in 1..(n + 2) /\ n \in 0..n /\ p + 1 <= n + 2
        BY <1>1
    <3> HIDE DEF p
    <3>2. frac \in Seq(Characters)
        BY <3>1, Piece
    <3> QED BY <3>2, LenProperties
  <2>3. ~(Len(frac) > 2)
    <3> DEFINE m == Len(frac)
    <3>1. m \in Nat /\ m <= 2
        BY <2>1, <2>2
    <3> HIDE DEF m
    <3>2. ~(m > 2)
        BY <3>1
    <3> QED BY <3>2 DEF m
  <2> QED BY <2>1, <2>3 DEF IsDigits
<1>3. intPart \in Seq(Characters) /\ frac \in Seq(Characters)
  <2>1. 1 \in 1..(n + 2) /\ p + 1 \in 1..(n + 2) /\ p - 1 \in 0..n /\ n \in 0..n /\ p + 1 <= n + 2
        /\ 1 <= (p - 1) + 2
      BY <1>1
  <2> HIDE DEF p
  <2> QED BY <2>1, Piece
<1>4. intPart \in Seq(Digits) /\ frac \in Seq(Digits)
    BY <1>2, <1>3, IsDigitsFacts
<1>5. k + 2 = p + 1
    BY <1>1
<1>6. t = v * kPriceScale + ValueOf(frac) * unit
    BY <1>5 DEF TicksAt
<1>7. ParseDecimalToTicks(s) =
         IF whole = Bad \/ whole * kPriceScale + padded[1] * Base + padded[2] > MaxUint32 THEN Bad
         ELSE whole * kPriceScale + padded[1] * Base + padded[2]
  <2> HIDE DEF whole, padded
  <2> QED BY <1>2 DEF ParseDecimalToTicks, PointOf, whole, padded
<1>8. v \in Nat /\ whole = IF v <= MaxUint32 THEN v ELSE Bad
    BY <1>2, <1>3, <1>4, AccumulatedIs, ValueGoesOn DEF ReadsAs
<1>9. /\ padded[1] \in Digits /\ padded[2] \in Digits /\ r = ValueOf(frac) * unit
  <2> HIDE DEF frac
  <2> QED BY <1>2, <1>4, PaddedTicks
<1>10. padded[1] \in Nat /\ padded[2] \in Nat /\ Base \in Nat /\ Base > 1 /\ MaxUint32 \in Nat
    BY <1>9, CharactersTyped
<1>11. kPriceScale \in Nat /\ kPriceScale >= 1
  <2>1. Base * Base \in Nat
      BY <1>10
  <2>2. Base * Base >= 1
      BY <1>10
  <2> QED BY <2>1, <2>2 DEF kPriceScale
<1> HIDE DEF whole, unit, v, t, padded
<1> DEFINE x == padded[1] * Base
           y == padded[2]
           w == v * kPriceScale
<1>12. x \in Nat /\ y \in Nat /\ w \in Nat
    BY <1>8, <1>10, <1>11
<1>13. w >= v
  <2> DEFINE c == kPriceScale
  <2>1. c \in Nat /\ c >= 1 /\ v \in Nat
      BY <1>8, <1>11
  <2> HIDE DEF c
  <2>2. v * (c - 1) >= 0 /\ v * (c - 1) = v * c - v
      BY <2>1
  <2>3. v * c \in Nat
      BY <2>1
  <2>4. v * c >= v
      BY <2>1, <2>2, <2>3
  <2> QED BY <2>4 DEF c
<1>14. t = w + (x + y)
    BY <1>6, <1>9
<1>15. CASE v <= MaxUint32
  <2>1. whole = v /\ whole # Bad
      BY <1>8, <1>15 DEF Bad
  <2>2. ParseDecimalToTicks(s) = IF w + x + y > MaxUint32 THEN Bad ELSE w + x + y
      BY <1>7, <2>1
  <2> HIDE DEF w, x, y
  <2>3. w + x + y = t /\ t \in Nat
      BY <1>12, <1>14
  <2>4. t \in Nat /\ ParseDecimalToTicks(s) = IF t > MaxUint32 THEN Bad ELSE t
      BY <2>2, <2>3
  <2> QED BY <2>4 DEF t
<1>16. CASE ~(v <= MaxUint32)
  <2>1. ParseDecimalToTicks(s) = Bad
      BY <1>7, <1>8, <1>16
  <2> HIDE DEF w, x, y
  <2>2. t \in Nat /\ t > MaxUint32
      BY <1>8, <1>10, <1>12, <1>13, <1>14, <1>16
  <2>3. t \in Nat /\ ParseDecimalToTicks(s) = IF t > MaxUint32 THEN Bad ELSE t
      BY <2>1, <2>2
  <2> QED BY <2>3 DEF t
<1> QED BY <1>15, <1>16

\* Any other text is refused.
LEMMA NotDecimal ==
    ASSUME NEW s \in Seq(Characters), ~Decimal(s)
    PROVE  ParseDecimalToTicks(s) = Bad
<1> DEFINE p == PointOf(s)
<1>1. Len(SubSeq(s, p + 1, Len(s))) > 2 <=> ~(Len(SubSeq(s, p + 1, Len(s))) <= 2)
  <2>1. Len(s) \in Nat /\ p \in 1..(Len(s) + 1)
      BY LenProperties, PointFacts
  <2>2. p + 1 \in 1..(Len(s) + 2) /\ Len(s) \in 0..Len(s) /\ p + 1 <= Len(s) + 2
      BY <2>1
  <2> HIDE DEF p
  <2> DEFINE m == Len(SubSeq(s, p + 1, Len(s)))
  <2>3. m \in Nat
      BY <2>2, Piece, LenProperties
  <2> HIDE DEF m
  <2>4. m > 2 <=> ~(m <= 2)
      BY <2>3
  <2> QED BY <2>4 DEF m
<1> QED BY <1>1 DEF Decimal, ParseDecimalToTicks, PointOf

\* A decimal is read as its ticks, or refused when they do not fit, and nothing else
\* is read as one.
LEMMA TicksExactText ==
    ASSUME text \in Seq(Characters)
    PROVE  TicksExact
<1> DEFINE p == PointOf(text)
           splits == {n \in 1..Len(text) : SplitsAt(text, n)}
           fits == {n \in splits : TicksAt(text, n) <= MaxUint32}
<1>1. TicksExact <=>
        ParseDecimalToTicks(text) = IF fits = {} THEN Bad ELSE TicksAt(text, CHOOSE n \in fits : TRUE)
    BY DEF TicksExact, SplitsAt, TicksAt
<1>2. \A n \in splits : n = p - 1
    BY SplitAtPoint
<1>3. CASE Decimal(text)
  <2> DEFINE t == TicksAt(text, p - 1)
  <2>1. p - 1 \in splits
      BY <1>3, DecimalSplits
  <2>2. t \in Nat /\ ParseDecimalToTicks(text) = IF t > MaxUint32 THEN Bad ELSE t
      BY <1>3, DecimalTicks
  <2> HIDE DEF splits, p
  <2>3. splits = {p - 1}
      BY <1>2, <2>1
  <2>4. CASE t > MaxUint32
    <3>1. ~(t <= MaxUint32)
        BY <2>2, <2>4, CharactersTyped
    <3>2. fits = {}
        BY <2>3, <3>1
    <3> HIDE DEF t, fits
    <3> QED BY <1>1, <2>2, <2>4, <3>2
  <2>5. CASE ~(t > MaxUint32)
    <3>1. t <= MaxUint32
        BY <2>2, <2>5, CharactersTyped
    <3>2. fits = {p - 1}
        BY <2>3, <3>1
    <3>3. fits # {} /\ (CHOOSE n \in fits : TRUE) = p - 1
      <4> HIDE DEF fits
      <4> QED BY <3>2
    <3>4. TicksAt(text, CHOOSE n \in fits : TRUE) = t
        BY <3>3
    <3> HIDE DEF t, fits
    <3> QED BY <1>1, <2>2, <2>5, <3>3, <3>4
  <2> QED BY <2>4, <2>5
<1>4. CASE ~Decimal(text)
  <2>1. splits = {}
      BY <1>2, <1>4, DecimalSplits
  <2>2. fits = {}
      BY <2>1
  <2>3. ParseDecimalToTicks(text) = Bad
      BY <1>4, NotDecimal
  <2> HIDE DEF fits
  <2> QED BY <1>1, <2>2, <2>3
<1> QED BY <1>3, <1>4

-----------------------------------------------------------------------------
(***************************************************************************)
(* parseNumber.                                                            *)
(***************************************************************************)
\* SkipDigits stops at the first character that is not a digit, or at the end.
LEMMA SkipFacts ==
    ASSUME NEW s \in Seq(Characters), NEW i \in 1..(Len(s) + 1)
    PROVE  /\ SkipDigits(s, i) \in i..(Len(s) + 1)
           /\ SkipDigits(s, i) = Len(s) + 1 \/ s[SkipDigits(s, i)] \notin Digits
           /\ \A j \in i..(SkipDigits(s, i) - 1) : s[j] \in Digits
<1> DEFINE n == Len(s)
           S == {j \in i..(n + 1) : j = n + 1 \/ s[j] \notin Digits}
           p == Min(S)
<1>1. n \in Nat /\ i \in 1..(n + 1)
    BY LenProperties
<1>2. p = SkipDigits(s, i)
    BY DEF SkipDigits
<1> HIDE DEF n
<1>3. S \subseteq Nat /\ n + 1 \in S
    BY <1>1
<1>4. p \in S /\ \A y \in S : p <= y
  <2> HIDE DEF S
  <2> QED BY <1>3, MinIs
<1>5. p \in i..(n + 1) /\ (p = n + 1 \/ s[p] \notin Digits) /\ \A y \in S : p <= y
    BY <1>4
<1> HIDE DEF p
<1>6. ASSUME NEW j \in i..(p - 1) PROVE s[j] \in Digits
  <2>1. j \in i..(n + 1) /\ j # n + 1 /\ ~(p <= j)
      BY <1>1, <1>5
  <2> QED BY <1>5, <2>1
<1>7. /\ p \in i..(n + 1) /\ (p = n + 1 \/ s[p] \notin Digits)
      /\ \A j \in i..(p - 1) : s[j] \in Digits
    BY <1>5, <1>6
<1> HIDE DEF S
<1> QED BY <1>2, <1>7 DEF n

\* The greatest of a set of numbers.
LEMMA MaxIs ==
    ASSUME NEW S, S \subseteq Int, NEW x \in S, \A y \in S : y <= x
    PROVE  Max(S) = x
<1> DEFINE P(z) == z \in S /\ \A y \in S : z >= y
<1>1. P(x)
    BY DEF P
<1>2. Max(S) = CHOOSE z : P(z)
    BY DEF Max
<1>3. P(CHOOSE z : P(z))
  <2> HIDE DEF P
  <2> QED BY <1>1
<1>4. Max(S) \in S /\ \A y \in S : Max(S) >= y
    BY <1>2, <1>3
<1>5. Max(S) \in Int /\ x \in Int /\ Max(S) >= x /\ Max(S) <= x
    BY <1>4
<1> QED BY <1>5

\* s is a JSON number without exponent.
IsNumber(s) == \E n \in DOMAIN s : \E m \in {1, 2} :
    /\ m = 2 => s[1] = Minus
    /\ m <= n /\ IsDigits(SubSeq(s, m, n))
    /\ n < Len(s) => s[n + 1] = Dot /\ n + 1 < Len(s) /\ IsDigits(SubSeq(s, n + 2, Len(s)))

\* The first l characters of s are a number whose whole part is from m to k.
NumberTo(s, l, k, m) ==
    /\ m = 2 => s[1] = Minus
    /\ m <= k /\ \A i \in m..k : s[i] \in Digits
    /\ k < l => s[k + 1] = Dot /\ k + 1 < l /\ \A i \in (k + 2)..l : s[i] \in Digits

\* So says IsNumber of that piece.
LEMMA NumberPiece ==
    ASSUME NEW s \in Seq(Characters), NEW l \in 1..Len(s)
    PROVE  IsNumber(SubSeq(s, 1, l)) <=> \E k \in 1..l : \E m \in {1, 2} : NumberTo(s, l, k, m)
<1> DEFINE t == SubSeq(s, 1, l)
<1>1. Len(s) \in Nat /\ l \in 1..Len(s)
    BY LenProperties
<1>2. t \in Seq(Characters) /\ Len(t) = l /\ DOMAIN t = 1..l /\ \A i \in 1..l : t[i] = s[i]
  <2>1. 1 \in 1..(Len(s) + 2) /\ l \in 0..Len(s) /\ 1 <= l + 2 /\ 1 <= l /\ l - 1 + 1 = l
      BY <1>1
  <2>2. /\ t \in Seq(Characters) /\ Len(t) = (IF 1 <= l THEN l - 1 + 1 ELSE 0)
        /\ \A i \in 1..(l - 1 + 1) : t[i] = s[1 + i - 1]
      BY <2>1, Piece
  <2> HIDE DEF t
  <2>3. Len(t) = l /\ \A i \in 1..l : t[i] = s[i]
      BY <2>1, <2>2
  <2> QED BY <2>2, <2>3, LenProperties
<1> HIDE DEF t
<1>3. ASSUME NEW k \in 1..l, NEW m \in {1, 2}
      PROVE  IsDigits(SubSeq(t, m, k)) <=> \A i \in m..k : s[i] \in Digits
  <2>1. m \in 1..(Len(t) + 2) /\ k \in 0..Len(t) /\ m <= k + 2
      BY <1>1, <1>2
  <2>2. IsDigits(SubSeq(t, m, k)) <=> \A i \in m..k : t[i] \in Digits
      BY <1>2, <2>1, Piece
  <2>3. \A i \in m..k : t[i] = s[i]
      BY <1>1, <1>2
  <2> QED BY <2>2, <2>3
<1>4. ASSUME NEW k \in 1..l
      PROVE  IsDigits(SubSeq(t, k + 2, l)) <=> \A i \in (k + 2)..l : s[i] \in Digits
  <2> DEFINE m == k + 2
  <2>1. m \in 1..(Len(t) + 2) /\ l \in 0..Len(t) /\ m <= l + 2
      BY <1>1, <1>2
  <2>2. \A i \in m..l : t[i] = s[i]
      BY <1>1, <1>2
  <2> HIDE DEF m
  <2>3. IsDigits(SubSeq(t, m, l)) <=> \A i \in m..l : t[i] \in Digits
      BY <1>2, <2>1, Piece
  <2>4. IsDigits(SubSeq(t, m, l)) <=> \A i \in m..l : s[i] \in Digits
      BY <2>2, <2>3
  <2> QED BY <2>4 DEF m
<1>5. ASSUME NEW k \in 1..l, NEW m \in {1, 2}
      PROVE  (/\ m = 2 => t[1] = Minus
              /\ m <= k /\ IsDigits(SubSeq(t, m, k))
              /\ k < l => t[k + 1] = Dot /\ k + 1 < l /\ IsDigits(SubSeq(t, k + 2, l)))
             <=> NumberTo(s, l, k, m)
  <2>1. t[1] = s[1]
      BY <1>1, <1>2
  <2>2. k < l => t[k + 1] = s[k + 1]
      BY <1>1, <1>2
  <2> QED BY <1>3, <1>4, <2>1, <2>2 DEF NumberTo
<1>6. IsNumber(t) <=> \E k \in 1..l : \E m \in {1, 2} : NumberTo(s, l, k, m)
    BY <1>2, <1>5 DEF IsNumber
<1> QED BY <1>6 DEF t

\* Where parseNumber finds the first digit, the end of the whole part, whether a
\* point follows, and the end of the digits behind it.
IntStart(s) == IF s # <<>> /\ s[1] = Minus THEN 2 ELSE 1
IntEnd(s) == SkipDigits(s, IntStart(s))
HasPoint(s) == IntEnd(s) <= Len(s) /\ s[IntEnd(s)] = Dot
FracEnd(s) == SkipDigits(s, IntEnd(s) + 1)

\* They are in order, with digits between.
LEMMA NumberParts ==
    ASSUME NEW s \in Seq(Characters)
    PROVE  /\ Len(s) \in Nat
           /\ IntStart(s) \in {1, 2} /\ (IntStart(s) = 2 <=> Len(s) >= 1 /\ s[1] = Minus)
           /\ IntEnd(s) \in IntStart(s)..(Len(s) + 1)
           /\ IntEnd(s) = Len(s) + 1 \/ s[IntEnd(s)] \notin Digits
           /\ \A j \in IntStart(s)..(IntEnd(s) - 1) : s[j] \in Digits
           /\ IntEnd(s) <= Len(s) =>
                 /\ FracEnd(s) \in (IntEnd(s) + 1)..(Len(s) + 1)
                 /\ FracEnd(s) = Len(s) + 1 \/ s[FracEnd(s)] \notin Digits
                 /\ \A j \in (IntEnd(s) + 1)..(FracEnd(s) - 1) : s[j] \in Digits
<1> DEFINE n == Len(s)
           a == IntStart(s)
           e == IntEnd(s)
           f == FracEnd(s)
<1>1. n \in Nat /\ (s # <<>> <=> n # 0)
    BY LenProperties, EmptySeq
<1> HIDE DEF n
<1>2. a \in {1, 2} /\ (a = 2 <=> n >= 1 /\ s[1] = Minus)
    BY <1>1 DEF IntStart
<1>3. a \in 1..(n + 1)
    BY <1>1, <1>2
<1> HIDE DEF a
<1>4. /\ e \in a..(n + 1) /\ (e = n + 1 \/ s[e] \notin Digits)
      /\ \A j \in a..(e - 1) : s[j] \in Digits
  <2>1. e = SkipDigits(s, a)
      BY DEF IntEnd, a
  <2> HIDE DEF e
  <2> QED BY <1>3, <2>1, SkipFacts DEF n
<1>5. ASSUME e <= n
      PROVE  /\ f \in (e + 1)..(n + 1) /\ (f = n + 1 \/ s[f] \notin Digits)
             /\ \A j \in (e + 1)..(f - 1) : s[j] \in Digits
  <2> DEFINE i == e + 1
  <2>1. f = SkipDigits(s, i)
      BY DEF FracEnd
  <2> HIDE DEF f
  <2>2. i \in 1..(n + 1)
    <3> HIDE DEF e
    <3> QED BY <1>1, <1>2, <1>4, <1>5
  <2> HIDE DEF i
  <2>3. /\ f \in i..(n + 1) /\ (f = n + 1 \/ s[f] \notin Digits)
        /\ \A j \in i..(f - 1) : s[j] \in Digits
      BY <2>1, <2>2, SkipFacts DEF n
  <2> QED BY <2>3 DEF i
<1> QED BY <1>1, <1>2, <1>4, <1>5 DEF n, a

\* The starts of s that are numbers are those that end in the whole part or behind
\* the point.
LEMMA NumberLengths ==
    ASSUME NEW s \in Seq(Characters), NEW l \in 1..Len(s)
    PROVE  IsNumber(SubSeq(s, 1, l)) <=>
              /\ IntEnd(s) # IntStart(s)
              /\ \/ l \in IntStart(s)..(IntEnd(s) - 1)
                 \/ HasPoint(s) /\ l \in (IntEnd(s) + 1)..(FracEnd(s) - 1)
<1> DEFINE n == Len(s)
           a == IntStart(s)
           e == IntEnd(s)
           f == FracEnd(s)
<1>1. /\ n \in Nat /\ l \in 1..n
      /\ a \in {1, 2} /\ (a = 2 <=> n >= 1 /\ s[1] = Minus)
      /\ e \in a..(n + 1) /\ (e = n + 1 \/ s[e] \notin Digits)
      /\ \A j \in a..(e - 1) : s[j] \in Digits
    BY NumberParts
<1>2. e <= n => /\ f \in (e + 1)..(n + 1) /\ (f = n + 1 \/ s[f] \notin Digits)
                /\ \A j \in (e + 1)..(f - 1) : s[j] \in Digits
    BY NumberParts
<1>3. Minus \notin Digits /\ Dot \notin Digits
    BY DEF Minus, Dot, Digits
<1>4. HasPoint(s) <=> e <= n /\ s[e] = Dot
    BY DEF HasPoint
<1> HIDE DEF n, a, e, f
<1>5. ASSUME NEW k \in 1..l, NEW m \in {1, 2}, NumberTo(s, l, k, m)
      PROVE  /\ e # a
             /\ l \in a..(e - 1) \/ (e <= n /\ s[e] = Dot /\ l \in (e + 1)..(f - 1))
  <2>1. /\ m = 2 => s[1] = Minus
        /\ m <= k /\ \A i \in m..k : s[i] \in Digits
        /\ k < l => s[k + 1] = Dot /\ k + 1 < l /\ \A i \in (k + 2)..l : s[i] \in Digits
      BY <1>5 DEF NumberTo
  <2>2. m = a
    <3>1. CASE m = 2
        BY <1>1, <2>1, <3>1
    <3>2. CASE m = 1
      <4>1. 1 \in m..k
          BY <2>1, <3>2
      <4>2. s[1] # Minus
          BY <1>3, <2>1, <4>1
      <4> QED BY <1>1, <3>2, <4>2
    <3> QED BY <3>1, <3>2
  <2>3. ~(e <= k)
    <3> SUFFICES ASSUME e <= k PROVE FALSE
        OBVIOUS
    <3>1. e \in m..k /\ e # n + 1
        BY <1>1, <2>2
    <3> QED BY <1>1, <2>1, <3>1
  <2>4. e # a /\ k \in a..(e - 1)
      BY <1>1, <2>1, <2>2, <2>3
  <2>5. CASE k = l
      BY <2>4, <2>5
  <2>6. CASE k < l
    <3>1. s[k + 1] = Dot /\ k + 1 < l /\ \A i \in (k + 2)..l : s[i] \in Digits
        BY <2>1, <2>6
    <3>2. ~(k + 1 < e)
      <4> SUFFICES ASSUME k + 1 < e PROVE FALSE
          OBVIOUS
      <4>1. k + 1 \in a..(e - 1)
          BY <1>1, <2>4
      <4> QED BY <1>1, <1>3, <3>1, <4>1
    <3>3. e = k + 1
        BY <1>1, <2>4, <3>2
    <3>4. e <= n /\ s[e] = Dot /\ e + 1 <= l /\ k + 2 = e + 1
        BY <1>1, <3>1, <3>3
    <3>5. \A i \in (e + 1)..l : s[i] \in Digits
        BY <3>1, <3>4
    <3>6. ~(f <= l)
      <4> SUFFICES ASSUME f <= l PROVE FALSE
          OBVIOUS
      <4>1. f \in (e + 1)..l /\ f # n + 1
          BY <1>1, <1>2, <3>4
      <4> QED BY <1>2, <3>4, <3>5, <4>1
    <3>7. l \in (e + 1)..(f - 1)
        BY <1>1, <1>2, <3>4, <3>6
    <3> QED BY <2>4, <3>4, <3>7
  <2> QED BY <2>5, <2>6
<1>6. ASSUME e # a, l \in a..(e - 1)
      PROVE  l \in 1..l /\ NumberTo(s, l, l, a)
    BY <1>1, <1>6 DEF NumberTo
<1>7. ASSUME e # a, e <= n, s[e] = Dot, l \in (e + 1)..(f - 1)
      PROVE  e - 1 \in 1..l /\ NumberTo(s, l, e - 1, a)
  <2>1. /\ a \in Nat /\ e \in Nat /\ f \in Nat /\ e - 1 \in 1..l /\ e - 1 < l /\ (e - 1) + 1 = e
        /\ (e - 1) + 2 = e + 1 /\ e < l /\ a <= e - 1
      BY <1>1, <1>2, <1>7
  <2>2. \A i \in (e + 1)..l : s[i] \in Digits
      BY <1>1, <1>2, <1>7, <2>1
  <2> QED BY <1>1, <1>7, <2>1, <2>2 DEF NumberTo
<1>8. (\E k \in 1..l : \E m \in {1, 2} : NumberTo(s, l, k, m)) <=>
         /\ e # a
         /\ l \in a..(e - 1) \/ (e <= n /\ s[e] = Dot /\ l \in (e + 1)..(f - 1))
    BY <1>1, <1>5, <1>6, <1>7
<1> QED BY <1>4, <1>8, NumberPiece DEF n, a, e, f

\* A point is among the characters of a start of the text.
LEMMA PointWithin ==
    ASSUME NEW s \in Seq(Characters), NEW l \in 0..Len(s)
    PROVE  Dot \in ToSet(SubSeq(s, 1, l)) <=> \E i \in 1..l : s[i] = Dot
<1> DEFINE t == SubSeq(s, 1, l)
<1>1. Len(s) \in Nat /\ l \in 0..Len(s)
    BY LenProperties
<1>2. DOMAIN t = 1..l /\ \A i \in 1..l : t[i] = s[i]
  <2>1. 1 \in 1..(Len(s) + 2) /\ 1 <= l + 2 /\ l - 1 + 1 = l
      BY <1>1
  <2>2. /\ t \in Seq(Characters) /\ Len(t) = (IF 1 <= l THEN l - 1 + 1 ELSE 0)
        /\ \A i \in 1..(l - 1 + 1) : t[i] = s[1 + i - 1]
      BY <2>1, Piece
  <2> HIDE DEF t
  <2>3. Len(t) = l /\ \A i \in 1..l : t[i] = s[i]
      BY <1>1, <2>1, <2>2
  <2> QED BY <2>2, <2>3, LenProperties
<1> HIDE DEF t
<1>3. Dot \in ToSet(t) <=> \E i \in 1..l : s[i] = Dot
    BY <1>2 DEF ToSet
<1> QED BY <1>3 DEF t

\* parseNumber takes the longest start of the text that is a number.
LEMMA NumberExactText ==
    ASSUME text \in Seq(Characters)
    PROVE  NumberExact
<1> DEFINE n == Len(text)
           a == IntStart(text)
           e == IntEnd(text)
           f == FracEnd(text)
           L == {0} \cup {l \in DOMAIN text : IsNumber(SubSeq(text, 1, l))}
           longest == Max(L)
           bare == /\ longest < n /\ text[longest + 1] = Dot
                   /\ Dot \notin ToSet(SubSeq(text, 1, longest))
<1>1. NumberExact <=> ParseNumber(text) = IF longest = 0 \/ bare THEN Bad ELSE longest
    BY DEF NumberExact, IsNumber
<1>2. ParseNumber(text) = IF e = a \/ (HasPoint(text) /\ f = e + 1) THEN Bad
                          ELSE IF HasPoint(text) THEN f - 1 ELSE e - 1
    BY DEF ParseNumber, IntStart, IntEnd, HasPoint, FracEnd
<1>3. /\ n \in Nat
      /\ a \in {1, 2} /\ (a = 2 <=> n >= 1 /\ text[1] = Minus)
      /\ e \in a..(n + 1) /\ (e = n + 1 \/ text[e] \notin Digits)
      /\ \A j \in a..(e - 1) : text[j] \in Digits
    BY NumberParts
<1>4. e <= n => f \in (e + 1)..(n + 1)
    BY NumberParts
<1>5. HasPoint(text) <=> e <= n /\ text[e] = Dot
    BY DEF HasPoint
<1>6. \A l : l \in L <=> \/ l = 0
                         \/ /\ l \in 1..n /\ e # a
                            /\ \/ l \in a..(e - 1)
                               \/ e <= n /\ text[e] = Dot /\ l \in (e + 1)..(f - 1)
  <2>1. DOMAIN text = 1..n
      BY LenProperties
  <2>2. \A l \in 1..n : IsNumber(SubSeq(text, 1, l)) <=>
              /\ e # a
              /\ l \in a..(e - 1) \/ (HasPoint(text) /\ l \in (e + 1)..(f - 1))
      BY NumberLengths
  <2> HIDE DEF n, a, e, f
  <2> QED BY <1>5, <2>1, <2>2
<1>7. Minus \notin Digits /\ Dot \notin Digits /\ Minus # Dot
    BY DEF Minus, Dot, Digits
<1>8. \A l \in 0..n : Dot \in ToSet(SubSeq(text, 1, l)) <=> \E i \in 1..l : text[i] = Dot
    BY PointWithin
<1> HIDE DEF n, a, e, f, L
<1>9. L \subseteq Int
    BY <1>3, <1>6
<1>10. CASE e = a
  <2>1. 0 \in L /\ \A y \in L : y <= 0
      BY <1>6, <1>10
  <2>2. longest = 0
    <3> HIDE DEF longest
    <3> QED BY <1>9, <2>1, MaxIs DEF longest
  <2> QED BY <1>1, <1>2, <1>10, <2>2
<1>11. ASSUME e # a PROVE e - 1 \in L /\ e - 1 >= 1 /\ \A i \in 1..(e - 1) : text[i] # Dot
  <2>1. e - 1 \in a..(e - 1) /\ e - 1 \in 1..n /\ e - 1 >= 1
      BY <1>3, <1>11
  <2>2. ASSUME NEW i \in 1..(e - 1) PROVE text[i] # Dot
    <3>1. CASE i \in a..(e - 1)
        BY <1>3, <1>7, <3>1
    <3>2. CASE ~(i \in a..(e - 1))
      <4>1. a = 2 /\ i = 1
          BY <1>3, <3>2
      <4> QED BY <1>3, <1>7, <4>1
    <3> QED BY <3>1, <3>2
  <2> QED BY <1>6, <1>11, <2>1, <2>2
<1>12. CASE e # a /\ ~HasPoint(text)
  <2> DEFINE x == e - 1
  <2>1. x \in L /\ x >= 1 /\ \A y \in L : y <= x
      BY <1>3, <1>5, <1>6, <1>11, <1>12
  <2>2. longest = x /\ x + 1 = e /\ x # 0 /\ (x < n <=> e <= n)
    <3>1. x + 1 = e /\ x # 0 /\ (x < n <=> e <= n)
        BY <1>3, <2>1
    <3> HIDE DEF longest, x
    <3> QED BY <1>9, <2>1, <3>1, MaxIs DEF longest
  <2>3. ~bare
      BY <1>5, <1>12, <2>2
  <2> HIDE DEF bare, longest
  <2> QED BY <1>1, <1>2, <1>12, <2>2, <2>3
<1>13. CASE e # a /\ HasPoint(text) /\ f = e + 1
  <2> DEFINE x == e - 1
  <2>1. x \in L /\ x >= 1 /\ \A y \in L : y <= x
      BY <1>3, <1>5, <1>6, <1>11, <1>13
  <2>2. longest = x /\ x + 1 = e /\ x # 0 /\ x < n /\ x \in 0..n
    <3>1. x + 1 = e /\ x # 0 /\ x < n /\ x \in 0..n
        BY <1>3, <1>5, <1>13, <2>1
    <3> HIDE DEF longest, x
    <3> QED BY <1>9, <2>1, <3>1, MaxIs DEF longest
  <2>3. Dot \notin ToSet(SubSeq(text, 1, x))
    <3>1. \A i \in 1..x : text[i] # Dot
        BY <1>11, <1>13
    <3> HIDE DEF x
    <3> QED BY <1>8, <2>2, <3>1
  <2>4. bare
      BY <1>5, <1>13, <2>2, <2>3
  <2> HIDE DEF bare, longest
  <2> QED BY <1>1, <1>2, <1>13, <2>4
<1>14. CASE e # a /\ HasPoint(text) /\ f # e + 1
  <2> DEFINE x == f - 1
  <2>1. x \in L /\ x >= 1 /\ x \in 0..n /\ x >= e /\ \A y \in L : y <= x
    <3>1. f \in Nat /\ f >= e + 2 /\ f <= n + 1 /\ e <= n
        BY <1>3, <1>4, <1>5, <1>14
    <3>2. x \in 1..n /\ x \in (e + 1)..(f - 1) /\ x >= e
        BY <1>3, <3>1
    <3>3. x \in L
        BY <1>5, <1>6, <1>14, <3>2
    <3>4. ASSUME NEW y \in L PROVE y <= x
        BY <1>3, <1>6, <3>1
    <3> QED BY <3>2, <3>3, <3>4
  <2>2. longest = x /\ x # 0
    <3> HIDE DEF longest, x
    <3>1. x # 0
        BY <1>3, <2>1
    <3>2. x \in L /\ \A y \in L : y <= x
        BY <2>1
    <3>3. longest = x
        BY <1>9, <3>2, MaxIs DEF longest
    <3> QED BY <3>1, <3>3
  <2>3. Dot \in ToSet(SubSeq(text, 1, x))
    <3>1. e \in 1..x
        BY <1>3, <2>1
    <3> HIDE DEF x
    <3> QED BY <1>5, <1>8, <1>14, <2>1, <3>1
  <2>4. ~bare
      BY <2>2, <2>3
  <2> HIDE DEF bare, longest
  <2> QED BY <1>1, <1>2, <1>14, <2>2, <2>4
<1> QED BY <1>10, <1>12, <1>13, <1>14

\* The texts of a run are texts of characters, and its payloads sequences of tokens.
WireTypes == text \in Seq(Characters) /\ line \in Seq(Tokens)

\* Every step spells one more character or token.
LEMMA WireTypesInvariant == WireSpec => []WireTypes
<1>1. WireInit => WireTypes
    BY EmptySeq DEF WireInit, Init, WireTypes
<1>2. WireTypes /\ [WireNext]_<<text, line>> => WireTypes'
  <2> SUFFICES ASSUME WireTypes, [WireNext]_<<text, line>> PROVE WireTypes'
      OBVIOUS
  <2> USE DEF WireTypes
  <2>1. CASE line = <<>> /\ Next /\ UNCHANGED line
      BY <2>1, AppendProperties DEF Next
  <2>2. CASE text = <<>> /\ NextToken
      BY <2>2, AppendProperties DEF NextToken
  <2>3. CASE UNCHANGED <<text, line>>
      BY <2>3
  <2> QED BY <2>1, <2>2, <2>3 DEF WireNext
<1> QED BY <1>1, <1>2, PTL DEF WireSpec

\* For every base, limit and length of text: a number is cut out of the text as the
\* longest that is one, a quantity is read as its value or refused because it does
\* not fit, and a price is read as exactly the ticks it writes.
THEOREM ScalarsAreExact == WireSpec => []ScalarsExact
<1>1. WireTypes => ScalarsExact
    BY NumberExactText, UintExactText, TicksExactText DEF WireTypes, ScalarsExact
<1> QED BY <1>1, WireTypesInvariant, PTL

-----------------------------------------------------------------------------
(***************************************************************************)
(* The way out: ticksToDecimal.                                            *)
(***************************************************************************)
\* Division with remainder.
LEMMA Division ==
    ASSUME NEW k \in Nat, NEW b \in Nat, b > 0
    PROVE  /\ k \div b \in Nat /\ k % b \in 0..(b - 1)
           /\ k = b * (k \div b) + (k % b)
OBVIOUS

\* A quotient is smaller.
LEMMA QuotientSmaller ==
    ASSUME NEW k \in Nat, NEW b \in Nat, b > 1, k >= 1
    PROVE  k \div b < k
<1> DEFINE q == k \div b
           r == k % b
<1>1. q \in Nat /\ r \in Nat /\ k = b * q + r
  <2>1. b > 0
      OBVIOUS
  <2>2. k \div b \in Nat /\ k % b \in 0..(b - 1) /\ k = b * (k \div b) + (k % b)
      BY <2>1, Division
  <2> QED BY <2>2
<1> HIDE DEF q, r
<1>2. ~(q >= k)
  <2> SUFFICES ASSUME q >= k PROVE FALSE
      OBVIOUS
  <2>1. (b - 2) * q >= 0
      BY <1>1
  <2>2. b * q = (b - 2) * q + q + q
      BY <1>1
  <2>3. b * q >= q + q
    <3> DEFINE x == (b - 2) * q
               y == b * q
    <3>1. x \in Int /\ y \in Int
        BY <1>1
    <3>2. x >= 0 /\ y = x + q + q
        BY <2>1, <2>2
    <3> HIDE DEF x, y
    <3>3. y >= q + q
        BY <1>1, <3>1, <3>2
    <3> QED BY <3>3 DEF y
  <2> DEFINE y == b * q
  <2>4. y \in Int /\ y >= q + q /\ k = y + r
      BY <1>1, <2>3
  <2> HIDE DEF y
  <2> QED BY <1>1, <2>4
<1> QED BY <1>1, <1>2 DEF q

\* The numerals of the numbers up to n, as Numeral builds them.
Numerals(n, g) == g = [k \in 0..n |-> IF k < Base THEN <<k>> ELSE Append(g[k \div Base], k % Base)]

\* There are such numerals.
LEMMA NumeralsExist ==
    ASSUME NEW n \in Nat
    PROVE  \E g : Numerals(n, g)
<1> DEFINE V == Seq(Digits)
           a == <<0>>
           h == [k \in 1..n |-> k \div Base]
           F == [x \in (1..n) \X V |-> IF x[1] < Base THEN <<x[1]>> ELSE Append(x[2], x[1] % Base)]
<1>1. Base \in Nat /\ Base > 1 /\ Base > 0
    BY CharactersTyped
<1>2. \A k \in 0..n : k < Base => k \in Digits
    BY <1>1 DEF Digits
<1>3. \A k \in 0..n : k % Base \in Digits /\ k \div Base \in Nat
    BY <1>1, Division DEF Digits
<1>4. \A k \in 1..n : h[k] \in Nat /\ h[k] < k
  <2> TAKE k \in 1..n
  <2>1. k \in Nat /\ k >= 1
      OBVIOUS
  <2> QED BY <1>1, <1>3, <2>1, QuotientSmaller
<1>5. a \in V
  <2>1. 0 \in Digits
      BY <1>1 DEF Digits
  <2> QED BY <2>1
<1>6. F \in [(1..n) \X V -> V] /\ \A k \in 1..n, v \in V :
         F[<<k, v>>] = IF k < Base THEN <<k>> ELSE Append(v, k % Base)
  <2>1. ASSUME NEW k \in 1..n, NEW v \in V PROVE (IF k < Base THEN <<k>> ELSE Append(v, k % Base)) \in V
    <3>1. CASE k < Base
      <4>1. k \in Digits
          BY <1>2, <3>1
      <4> QED BY <3>1, <4>1
    <3>2. CASE ~(k < Base)
      <4>1. k % Base \in Digits
          BY <1>3
      <4> QED BY <3>2, <4>1, AppendProperties
    <3> QED BY <3>1, <3>2
  <2> HIDE DEF V
  <2> QED BY <2>1
<1> HIDE DEF V, a, h, F
<1>7. PICK g : GoesOn(n, V, h, a, F, g)
    BY <1>4, <1>5, <1>6, RecursionExists
<1>8. g \in [0..n -> V] /\ g[0] = a /\ \A k \in 1..n : g[k] = F[<<k, g[h[k]]>>]
    BY <1>7 DEF GoesOn
<1>9. ASSUME NEW k \in 0..n PROVE g[k] = IF k < Base THEN <<k>> ELSE Append(g[k \div Base], k % Base)
  <2>1. CASE k = 0
      BY <1>1, <1>8, <2>1 DEF a
  <2>2. CASE k # 0
    <3>1. k \in 1..n
        BY <2>2
    <3>2. h[k] = k \div Base /\ h[k] \in 0..n
        BY <1>4, <3>1 DEF h
    <3>3. g[h[k]] \in V
        BY <1>8, <3>2
    <3> QED BY <1>6, <1>8, <3>1, <3>2, <3>3
  <2> QED BY <2>1, <2>2
<1>10. Numerals(n, g)
    BY <1>8, <1>9 DEF Numerals
<1> QED BY <1>10

\* A numeral is a text of digits, never empty, that writes its number.
LEMMA NumeralIs ==
    ASSUME NEW n \in Nat
    PROVE  Numeral(n) \in Seq(Digits) /\ Len(Numeral(n)) >= 1 /\ ValueOf(Numeral(n)) = n
<1> DEFINE g == CHOOSE f : Numerals(n, f)
           Right(k) == g[k] \in Seq(Digits) /\ Len(g[k]) >= 1 /\ ValueOf(g[k]) = k
           A == {m \in Nat : \A k \in 0..n : k <= m => Right(k)}
<1>1. Numeral(n) = g[n]
    BY DEF Numeral, Numerals
<1>2. Numerals(n, g)
    BY NumeralsExist
<1> HIDE DEF g
<1>3. \A k \in 0..n : g[k] = IF k < Base THEN <<k>> ELSE Append(g[k \div Base], k % Base)
    BY <1>2 DEF Numerals
<1>4. Base \in Nat /\ Base > 1 /\ Base > 0
    BY CharactersTyped
<1>5. ASSUME NEW k \in 0..n, k < Base PROVE Right(k)
  <2>1. k \in Digits /\ g[k] = <<k>>
    <3>1. k \in Digits
        BY <1>4, <1>5 DEF Digits
    <3>2. g[k] = IF k < Base THEN <<k>> ELSE Append(g[k \div Base], k % Base)
        BY <1>3
    <3> QED BY <1>5, <3>1, <3>2
  <2>2. ValueOf(<<k>>) = k /\ <<k>> \in Seq(Digits) /\ Len(<<k>>) = 1
      BY <2>1, ShortValues
  <2> QED BY <2>1, <2>2
<1>6. 0 \in A
    BY <1>4, <1>5
<1>7. ASSUME NEW m \in Nat, m \in A PROVE m + 1 \in A
  <2> SUFFICES ASSUME NEW k \in 0..n, k = m + 1, ~(k < Base) PROVE Right(k)
      BY <1>5, <1>7
  <2> DEFINE q == k \div Base
             r == k % Base
  <2>1. q \in Nat /\ r \in 0..(Base - 1) /\ k = Base * q + r
      BY <1>4, Division
  <2>2. q < k
    <3>1. k \in Nat /\ k >= 1
        OBVIOUS
    <3> QED BY <1>4, <3>1, QuotientSmaller
  <2>3. g[k] = Append(g[q], r)
      BY <1>3
  <2> HIDE DEF q, r
  <2>4. Right(q)
    <3>1. q \in 0..n /\ q <= m
        BY <2>1, <2>2
    <3> QED BY <1>7, <3>1
  <2>5. r \in Digits
      BY <2>1 DEF Digits
  <2> DEFINE t == Append(g[q], r)
  <2>6. t \in Seq(Digits) /\ Len(t) = Len(g[q]) + 1 /\ Len(g[q]) \in Nat
      BY <2>4, <2>5, AppendProperties, LenProperties
  <2>7. ValueOf(t) = Base * q + r
      BY <2>4, <2>5, ValueGoesOn
  <2> HIDE DEF t
  <2>8. Len(t) >= 1
      BY <2>6
  <2> QED BY <2>1, <2>3, <2>6, <2>7, <2>8 DEF t
<1>8. Nat \subseteq A
  <2> HIDE DEF A
  <2> QED BY <1>6, <1>7, NatInSet
<1>9. n \in A
    BY <1>8
<1>10. Right(n)
    BY <1>9
<1> QED BY <1>1, <1>10

\* The text of a whole number and two digits behind the point.
LEMMA PrintedParts ==
    ASSUME NEW w \in Seq(Digits), Len(w) >= 1, NEW d \in Digits, NEW e \in Digits
    PROVE  LET s == w \o <<Dot, d, e>>
               m == Len(w)
           IN /\ m \in Nat /\ s \in Seq(Characters) /\ Len(s) = m + 3
              /\ \A i \in 1..m : s[i] = w[i] /\ s[i] \in Digits
              /\ s[m + 1] = Dot /\ s[m + 2] = d /\ s[m + 3] = e
<1> DEFINE t == <<Dot, d, e>>
           s == w \o t
           m == Len(w)
<1>1. w \in Seq(Characters) /\ m \in Nat /\ \A i \in 1..m : w[i] \in Digits
    BY LenProperties, ElementOfSeq, SeqMonotonic, CharactersTyped
<1>2. t \in Seq(Characters) /\ Len(t) = 3 /\ t[1] = Dot /\ t[2] = d /\ t[3] = e
  <2>1. Dot \in Characters /\ d \in Characters /\ e \in Characters
      BY CharactersTyped DEF Dot, Characters
  <2> QED BY <2>1
<1> HIDE DEF t
<1>3. /\ s \in Seq(Characters) /\ Len(s) = m + Len(t)
      /\ \A i \in 1..(m + Len(t)) : s[i] = IF i <= m THEN w[i] ELSE t[i - m]
    BY <1>1, <1>2, ConcatProperties
<1> HIDE DEF s, m
<1>4. Len(s) = m + 3
    BY <1>1, <1>2, <1>3
<1>5. \A i \in 1..m : s[i] = w[i] /\ s[i] \in Digits
    BY <1>1, <1>2, <1>3
<1>6. s[m + 1] = Dot /\ s[m + 2] = d /\ s[m + 3] = e
  <2>1. \A i \in 1..3 : s[m + i] = t[i]
    <3> TAKE i \in 1..3
    <3>1. m + i \in 1..(m + Len(t)) /\ ~(m + i <= m) /\ (m + i) - m = i
        BY <1>1, <1>2
    <3> QED BY <1>3, <3>1
  <2> QED BY <1>2, <2>1
<1> QED BY <1>1, <1>3, <1>4, <1>5, <1>6 DEF s, m, t

\* It is one JSON number, and a decimal of as many ticks as the two parts say.
LEMMA PrintedReads ==
    ASSUME NEW w \in Seq(Digits), Len(w) >= 1, NEW d \in Digits, NEW e \in Digits
    PROVE  LET s == w \o <<Dot, d, e>>
               t == ValueOf(w) * kPriceScale + (Base * d + e)
           IN /\ ParseNumber(s) = Len(s)
              /\ t <= MaxUint32 => ParseDecimalToTicks(s) = t
<1> DEFINE s == w \o <<Dot, d, e>>
           m == Len(w)
           t == ValueOf(w) * kPriceScale + (Base * d + e)
<1>1. /\ m \in Nat /\ m >= 1 /\ s \in Seq(Characters) /\ Len(s) = m + 3
      /\ \A i \in 1..m : s[i] = w[i] /\ s[i] \in Digits
      /\ s[m + 1] = Dot /\ s[m + 2] = d /\ s[m + 3] = e
    BY PrintedParts
<1>2. Minus \notin Digits /\ Dot \notin Digits
    BY DEF Minus, Dot, Digits
<1>3. 1 \in 1..m /\ s[1] \in Digits
    BY <1>1
<1> HIDE DEF s, m
<1>4. ParseNumber(s) = Len(s)
  <2> DEFINE x == IntEnd(s)
             f == FracEnd(s)
  <2>1. IntStart(s) = 1
    <3>1. s[1] # Minus
        BY <1>2, <1>3
    <3> QED BY <3>1 DEF IntStart
  <2>2. x \in 1..(m + 4) /\ (x = m + 4 \/ s[x] \notin Digits) /\ \A j \in 1..(x - 1) : s[j] \in Digits
    <3>1. Len(s) + 1 = m + 4
        BY <1>1
    <3> QED BY <1>1, <2>1, <3>1, NumberParts
  <2>3. x <= m + 3 => /\ f \in (x + 1)..(m + 4) /\ (f = m + 4 \/ s[f] \notin Digits)
                      /\ \A j \in (x + 1)..(f - 1) : s[j] \in Digits
    <3>1. Len(s) + 1 = m + 4
        BY <1>1
    <3> QED BY <1>1, <3>1, NumberParts
  <2> HIDE DEF x, f
  <2>4. x = m + 1
    <3>1. ~(m + 1 < x)
      <4> SUFFICES ASSUME m + 1 < x PROVE FALSE
          OBVIOUS
      <4>1. m + 1 \in 1..(x - 1)
          BY <1>1, <2>2
      <4> QED BY <1>1, <1>2, <2>2, <4>1
    <3>2. ~(x < m + 1)
      <4> SUFFICES ASSUME x < m + 1 PROVE FALSE
          OBVIOUS
      <4>1. x \in 1..m /\ x # m + 4
          BY <1>1, <2>2
      <4> QED BY <1>1, <2>2, <4>1
    <3> QED BY <1>1, <2>2, <3>1, <3>2
  <2>5. f \in (m + 2)..(m + 4) /\ (f = m + 4 \/ s[f] \notin Digits)
    <3>1. x <= m + 3 /\ x + 1 = m + 2
        BY <1>1, <2>4
    <3> QED BY <2>3, <3>1
  <2>6. f = m + 4
    <3>1. f = m + 2 \/ f = m + 3 \/ f = m + 4
        BY <1>1, <2>5
    <3> QED BY <1>1, <2>5, <3>1
  <2>7. HasPoint(s)
    <3>1. x <= Len(s) /\ s[x] = Dot
        BY <1>1, <2>4
    <3> QED BY <3>1 DEF HasPoint, x
  <2>8. ParseNumber(s) = IF x = 1 \/ (HasPoint(s) /\ f = x + 1) THEN Bad
                         ELSE IF HasPoint(s) THEN f - 1 ELSE x - 1
      BY <2>1 DEF ParseNumber, IntStart, IntEnd, HasPoint, FracEnd, x, f
  <2>9. x # 1 /\ f # x + 1 /\ f - 1 = m + 3
      BY <1>1, <2>4, <2>6
  <2> QED BY <1>1, <2>7, <2>8, <2>9
<1>5. PointOf(s) = m + 1
  <2> DEFINE p == PointOf(s)
  <2>1. p \in 1..(m + 4) /\ (p = m + 4 \/ s[p] = Dot) /\ \A j \in 1..(p - 1) : s[j] # Dot
    <3>1. Len(s) + 1 = m + 4
        BY <1>1
    <3> QED BY <1>1, <3>1, PointFacts
  <2> HIDE DEF p
  <2>2. ~(m + 1 < p)
    <3> SUFFICES ASSUME m + 1 < p PROVE FALSE
        OBVIOUS
    <3>1. m + 1 \in 1..(p - 1)
        BY <1>1, <2>1
    <3> QED BY <1>1, <2>1, <3>1
  <2>3. ~(p < m + 1)
    <3> SUFFICES ASSUME p < m + 1 PROVE FALSE
        OBVIOUS
    <3>1. p \in 1..m /\ p # m + 4
        BY <1>1, <2>1
    <3> QED BY <1>1, <1>2, <2>1, <3>1
  <2>4. p = m + 1
      BY <1>1, <2>1, <2>2, <2>3
  <2> QED BY <2>4 DEF p
<1>6. SubSeq(s, 1, m) = w
  <2> DEFINE u == SubSeq(s, 1, m)
  <2>1. 1 \in 1..(Len(s) + 2) /\ m \in 0..Len(s) /\ 1 <= m + 2 /\ 1 <= m /\ m - 1 + 1 = m
      BY <1>1
  <2>2. /\ u \in Seq(Characters) /\ Len(u) = (IF 1 <= m THEN m - 1 + 1 ELSE 0)
        /\ \A i \in 1..(m - 1 + 1) : u[i] = s[1 + i - 1]
      BY <1>1, <2>1, Piece
  <2> HIDE DEF u
  <2>3. Len(u) = m /\ \A i \in 1..m : u[i] = w[i]
      BY <1>1, <2>1, <2>2
  <2>4. w \in Seq(Characters) /\ Len(w) = m
      BY SeqMonotonic, CharactersTyped DEF m
  <2>5. u = w
      BY <2>2, <2>3, <2>4, SeqEqual
  <2> QED BY <2>5 DEF u
<1> DEFINE de == <<d, e>>
<1>7. de \in Seq(Digits) /\ Len(de) = 2 /\ de[1] = d /\ de[2] = e
    OBVIOUS
<1> HIDE DEF de
<1>8. SubSeq(s, m + 2, m + 3) = de
  <2> DEFINE u == SubSeq(s, m + 2, m + 3)
  <2>1. m + 2 \in 1..(Len(s) + 2) /\ m + 3 \in 0..Len(s) /\ m + 2 <= (m + 3) + 2 /\ m + 2 <= m + 3
        /\ (m + 3) - (m + 2) + 1 = 2
      BY <1>1
  <2>2. /\ u \in Seq(Characters) /\ Len(u) = (IF m + 2 <= m + 3 THEN (m + 3) - (m + 2) + 1 ELSE 0)
        /\ \A i \in 1..((m + 3) - (m + 2) + 1) : u[i] = s[(m + 2) + i - 1]
      BY <1>1, <2>1, Piece
  <2> HIDE DEF u
  <2>3. Len(u) = 2 /\ \A i \in 1..2 : u[i] = s[(m + 2) + i - 1]
      BY <2>1, <2>2
  <2>4. u[1] = d /\ u[2] = e
    <3>1. (m + 2) + 1 - 1 = m + 2 /\ (m + 2) + 2 - 1 = m + 3
        BY <1>1
    <3> QED BY <1>1, <2>3, <3>1
  <2>5. \A i \in 1..Len(u) : u[i] = de[i]
      BY <1>7, <2>3, <2>4
  <2>6. de \in Seq(Characters)
      BY <1>7, SeqMonotonic, CharactersTyped
  <2>7. u = de
      BY <1>7, <2>2, <2>3, <2>5, <2>6, SeqEqual
  <2> QED BY <2>7 DEF u
<1>9. (m + 1) - 1 = m /\ (m + 1) + 1 = m + 2
    BY <1>1
<1>10. Decimal(s)
  <2>1. SubSeq(s, 1, PointOf(s) - 1) = w /\ SubSeq(s, PointOf(s) + 1, Len(s)) = de
      BY <1>1, <1>5, <1>6, <1>8, <1>9
  <2>2. ToSet(w) \subseteq Digits /\ ToSet(de) \subseteq Digits
    <3>1. \A v \in Seq(Digits) : ToSet(v) \subseteq Digits
      <4> TAKE v \in Seq(Digits)
      <4>1. DOMAIN v = 1..Len(v) /\ \A i \in 1..Len(v) : v[i] \in Digits
          BY LenProperties, ElementOfSeq
      <4> QED BY <4>1 DEF ToSet
    <3> QED BY <1>7, <3>1
  <2>3. s # <<>> /\ w # <<>>
    <3>1. Len(s) # 0 /\ Len(w) # 0
        BY <1>1 DEF m
    <3> QED BY <3>1, EmptySeq
  <2>4. Len(de) <= 2
      BY <1>7
  <2>5. ToSet(w) \cup ToSet(de) \subseteq Digits
      BY <2>2
  <2>6. Decimal(s) <=> /\ s # <<>> /\ w # <<>> /\ Len(de) <= 2
                       /\ ToSet(w) \cup ToSet(de) \subseteq Digits
      BY <2>1 DEF Decimal
  <2> QED BY <2>3, <2>4, <2>5, <2>6
<1>11. TicksAt(s, m) = t
  <2> DEFINE unit == CASE Len(de) = 0 -> 0 [] Len(de) = 1 -> Base [] Len(de) = 2 -> 1
  <2>1. unit = 1
      BY <1>7
  <2> HIDE DEF unit
  <2>2. TicksAt(s, m) = ValueOf(w) * kPriceScale + ValueOf(de) * unit
      BY <1>1, <1>6, <1>8 DEF TicksAt, unit
  <2>3. ValueOf(de) = Base * d + e
      BY ShortValues DEF de
  <2>4. ValueOf(de) \in Nat
      BY <1>7, ValueGoesOn
  <2>5. ValueOf(de) * unit = ValueOf(de)
      BY <2>1, <2>4
  <2> QED BY <2>2, <2>3, <2>5
<1>12. t <= MaxUint32 => ParseDecimalToTicks(s) = t
  <2> DEFINE x == TicksAt(s, PointOf(s) - 1)
  <2>1. x \in Nat /\ ParseDecimalToTicks(s) = IF x > MaxUint32 THEN Bad ELSE x
      BY <1>1, <1>10, DecimalTicks
  <2>2. x = t
      BY <1>5, <1>9, <1>11
  <2> HIDE DEF x, t
  <2>3. t <= MaxUint32 => ~(t > MaxUint32)
      BY <2>1, <2>2, CharactersTyped
  <2> QED BY <2>1, <2>2, <2>3
<1> HIDE DEF t
<1> QED BY <1>4, <1>12 DEF s, t

\* What is printed for a number of ticks that fits is one JSON number that reads as
\* those ticks.
LEMMA TicksSurvive ==
    ASSUME NEW t \in Nat, t <= MaxUint32
    PROVE  LET s == TicksToDecimal(t)
           IN ParseNumber(s) = Len(s) /\ ParseDecimalToTicks(s) = t
<1> DEFINE S == kPriceScale
           q == t \div S
           fr == t % S
           d == fr \div Base
           e == fr % Base
           w == Numeral(q)
<1>1. Base \in Nat /\ Base > 1 /\ Base > 0 /\ MaxUint32 \in Nat
    BY CharactersTyped
<1>2. S \in Nat /\ S > 0 /\ S = Base * Base
  <2>1. Base * Base \in Nat
      BY <1>1
  <2>2. Base * Base > 0
      BY <1>1
  <2> QED BY <2>1, <2>2 DEF kPriceScale
<1> HIDE DEF S
<1>3. q \in Nat /\ fr \in 0..(S - 1) /\ t = S * q + fr
    BY <1>2, Division
<1> HIDE DEF q, fr
<1>4. d \in Nat /\ e \in 0..(Base - 1) /\ fr = Base * d + e
  <2>1. fr \in Nat
      BY <1>2, <1>3
  <2> QED BY <1>1, <2>1, Division
<1> HIDE DEF d, e
<1>5. d < Base
  <2> SUFFICES ASSUME d >= Base PROVE FALSE
      BY <1>1, <1>4
  <2>1. Base * (d - Base) >= 0
      BY <1>1, <1>4
  <2>2. Base * (d - Base) = Base * d - Base * Base
      BY <1>1, <1>4
  <2> DEFINE x == Base * d
  <2>3. x \in Int /\ x >= S
      BY <1>1, <1>2, <1>4, <2>1, <2>2
  <2>4. fr = x + e
      BY <1>4
  <2> HIDE DEF x
  <2> QED BY <1>1, <1>2, <1>3, <1>4, <2>3, <2>4
<1>6. d \in Digits /\ e \in Digits
    BY <1>1, <1>4, <1>5 DEF Digits
<1>7. w \in Seq(Digits) /\ Len(w) >= 1 /\ ValueOf(w) = q
    BY <1>3, NumeralIs
<1> DEFINE s == w \o <<Dot, d, e>>
<1>8. TicksToDecimal(t) = s
    BY DEF TicksToDecimal, S, q, fr, d, e
<1>9. ValueOf(w) * kPriceScale + (Base * d + e) = t
  <2>1. q * S = S * q
      BY <1>2, <1>3
  <2> DEFINE x == q * S
  <2>2. x \in Nat /\ t = x + fr
      BY <1>2, <1>3, <2>1
  <2> HIDE DEF x
  <2>3. x + (Base * d + e) = t
      BY <1>4, <2>2
  <2>4. ValueOf(w) * kPriceScale = x
      BY <1>7 DEF S, x
  <2> HIDE DEF w
  <2> QED BY <2>3, <2>4
<1> HIDE DEF w
<1>10. /\ ParseNumber(s) = Len(s)
       /\ ValueOf(w) * kPriceScale + (Base * d + e) <= MaxUint32 =>
             ParseDecimalToTicks(s) = ValueOf(w) * kPriceScale + (Base * d + e)
    BY <1>6, <1>7, PrintedReads
<1> HIDE DEF s
<1>11. ParseNumber(s) = Len(s) /\ ParseDecimalToTicks(s) = t
    BY <1>9, <1>10
<1> QED BY <1>8, <1>11

\* For every base, limit and length of text: a price that was read is printed as one
\* JSON number, which reads as the same ticks.
THEOREM PricesSurvive == WireSpec => []PriceRoundTrip
<1>1. ASSUME text \in Seq(Characters), ParseDecimalToTicks(text) # Bad
      PROVE  ParseDecimalToTicks(text) \in Nat /\ ParseDecimalToTicks(text) <= MaxUint32
  <2>1. CASE Decimal(text)
    <3> DEFINE t == TicksAt(text, PointOf(text) - 1)
    <3>1. t \in Nat /\ ParseDecimalToTicks(text) = IF t > MaxUint32 THEN Bad ELSE t
        BY <1>1, <2>1, DecimalTicks
    <3> HIDE DEF t
    <3>2. t \in Nat /\ ~(t > MaxUint32) /\ ParseDecimalToTicks(text) = t
        BY <1>1, <3>1
    <3> QED BY <3>2, CharactersTyped
  <2>2. CASE ~Decimal(text)
      BY <1>1, <2>2, NotDecimal
  <2> QED BY <2>1, <2>2
<1>2. WireTypes => PriceRoundTrip
  <2> SUFFICES ASSUME WireTypes, ParseDecimalToTicks(text) # Bad
               PROVE  LET printed == TicksToDecimal(ParseDecimalToTicks(text))
                      IN /\ ParseNumber(printed) = Len(printed)
                         /\ ParseDecimalToTicks(printed) = ParseDecimalToTicks(text)
      BY DEF PriceRoundTrip
  <2> QED BY <1>1, TicksSurvive DEF WireTypes
<1> QED BY <1>2, WireTypesInvariant, PTL

-----------------------------------------------------------------------------
(***************************************************************************)
(* Strings.                                                                *)
(***************************************************************************)
\* An escape is one or two characters.
LEMMA EscapeTyped ==
    ASSUME NEW c \in Characters
    PROVE  Escape(c) \in Seq(Characters)
<1>1. {Quote, Backslash, LetterN, UControl} \subseteq Characters
    BY DEF Characters, Quote, Backslash, LetterN, UControl
<1>2. <<c>> \in Seq(Characters) /\ <<Backslash, c>> \in Seq(Characters)
      /\ <<Backslash, LetterN>> \in Seq(Characters) /\ <<Backslash, UControl>> \in Seq(Characters)
    BY <1>1
<1> QED BY <1>2 DEF Escape

\* quoteJson writes one more character.
LEMMA EscapedGoesOn ==
    /\ Escaped(<<>>) = <<>>
    /\ \A s \in Seq(Characters) : Escaped(s) \in Seq(Characters)
    /\ \A s \in Seq(Characters), c \in Characters :
          Escaped(Append(s, c)) = Escaped(s) \o Escape(c)
<1> DEFINE V == Seq(Characters)
           a == <<>>
           F == [p \in V \X Characters |-> p[1] \o Escape(p[2])]
           R == [t \in Seq(Characters) |-> Escaped(t)]
<1>1. a \in V /\ \A x \in V, y \in Characters : x \o Escape(y) \in V
    BY EscapeTyped, ConcatProperties, EmptySeq
<1> HIDE DEF V
<1>2. Rounds(V, Characters, F, a) /\ \A x \in V, y \in Characters : F[<<x, y>>] = x \o Escape(y)
  <2> HIDE DEF a
  <2> QED BY <1>1 DEF Rounds
<1> HIDE DEF F
<1>3. ASSUME NEW t \in Seq(Characters) PROVE \E u : LoopOver(V, F, a, t, u) /\ R[t] = u[Len(t)]
  <2> DEFINE Eq(f) == f = [n \in 0..Len(t) |-> IF n = 0 THEN a ELSE f[n - 1] \o Escape(t[n])]
             w == CHOOSE f : Eq(f)
  <2>1. Len(t) \in Nat /\ \A k \in 1..Len(t) : t[k] \in Characters
      BY LenProperties, ElementOfSeq
  <2>2. Eq(w)
    <3> HIDE DEF a
    <3>1. PICK u \in [0..Len(t) -> V] : /\ LoopOver(V, F, a, t, u)
                                        /\ \A k \in 1..Len(t) : u[k] = F[<<u[k - 1], t[k]>>]
        BY <1>2, LoopExists
    <3>2. u[0] = a /\ \A k \in 1..Len(t) : u[k] = u[k - 1] \o Escape(t[k])
      <4>1. u[0] = a
          BY <3>1 DEF LoopOver
      <4>2. ASSUME NEW k \in 1..Len(t) PROVE u[k] = u[k - 1] \o Escape(t[k])
        <5>1. u[k - 1] \in V
            BY <2>1, <3>1
        <5> QED BY <1>2, <2>1, <3>1, <5>1
      <4> QED BY <4>1, <4>2
    <3>3. Eq(u)
      <4> DEFINE s(k) == u[k - 1] \o Escape(t[k])
      <4>1. u = [n \in 0..Len(t) |-> u[n]]
          BY <3>1
      <4>2. \A n \in 0..Len(t) : u[n] = IF n = 0 THEN a ELSE s(n)
        <5> HIDE DEF s
        <5>1. u[0] = a /\ \A k \in 1..Len(t) : u[k] = s(k)
            BY <3>2 DEF s
        <5> QED BY <2>1, <5>1
      <4> HIDE DEF s
      <4>3. u = [n \in 0..Len(t) |-> IF n = 0 THEN a ELSE s(n)]
          BY <4>1, <4>2
      <4> QED BY <4>3 DEF s
    <3> HIDE DEF Eq
    <3> QED BY <3>3
  <2>3. R[t] = w[Len(t)]
      BY DEF Escaped
  <2> HIDE DEF w, a, R
  <2>4. LoopOver(V, F, a, t, w)
      BY <1>2, <2>1, <2>2 DEF LoopOver
  <2> QED BY <2>3, <2>4
<1>4. LoopResult(V, Characters, F, a, R)
  <2> HIDE DEF a, R
  <2> QED BY <1>3 DEF LoopResult
<1>5. /\ R[<<>>] = a
      /\ \A s \in Seq(Characters) : R[s] \in V
      /\ \A s \in Seq(Characters), c \in Characters : R[Append(s, c)] = F[<<R[s], c>>]
  <2> HIDE DEF a, R
  <2> QED BY <1>2, <1>4, LoopGoesOn
<1>6. <<>> \in Seq(Characters) /\ \A s \in Seq(Characters), c \in Characters : Append(s, c) \in Seq(Characters)
    BY EmptySeq, AppendProperties
<1> QED BY <1>2, <1>5, <1>6 DEF V

\* The states of parseString.
StringStates == [at : {"start", "inside", "escape", "closed", "failed"}, out : Seq(Characters), used : Nat]

\* parseString stays among them.
LEMMA StringStepTyped ==
    ASSUME NEW st \in StringStates, NEW c \in Characters
    PROVE  StringStep(st, c) \in StringStates
<1>1. Unescape(c) \in Characters
    BY DEF Unescape, Characters, Quote, Backslash, LetterN, Newline, UControl
<1>2. /\ st.at \in {"start", "inside", "escape", "closed", "failed"}
      /\ st.out \in Seq(Characters) /\ st.used \in Nat
    BY DEF StringStates
<1>3. Append(st.out, c) \in Seq(Characters) /\ Append(st.out, Unescape(c)) \in Seq(Characters)
    BY <1>1, <1>2, AppendProperties
<1>4. st.used + 1 \in Nat /\ 1 \in Nat
    BY <1>2
<1>5. CASE st.at = "start"
    BY <1>2, <1>4, <1>5 DEF StringStep, StringStates
<1>6. CASE st.at = "inside"
    BY <1>2, <1>3, <1>4, <1>6 DEF StringStep, StringStates
<1>7. CASE st.at = "escape"
    BY <1>2, <1>3, <1>4, <1>7 DEF StringStep, StringStates
<1>8. CASE st.at \in {"closed", "failed"}
    BY <1>8 DEF StringStep
<1> QED BY <1>2, <1>5, <1>6, <1>7, <1>8

\* parseString takes one more character.
LEMMA ParseStringGoesOn ==
    /\ ParseString(<<>>) = [at |-> "start", out |-> <<>>, used |-> 0]
    /\ \A s \in Seq(Characters) : ParseString(s) \in StringStates
    /\ \A s \in Seq(Characters), c \in Characters :
          ParseString(Append(s, c)) = StringStep(ParseString(s), c)
<1> DEFINE V == StringStates
           a == [at |-> "start", out |-> <<>>, used |-> 0]
           F == [p \in V \X Characters |-> StringStep(p[1], p[2])]
           R == [t \in Seq(Characters) |-> ParseString(t)]
<1>1. a \in V /\ \A x \in V, y \in Characters : StringStep(x, y) \in V
    BY StringStepTyped, EmptySeq DEF StringStates
<1> HIDE DEF V
<1>2. Rounds(V, Characters, F, a) /\ \A x \in V, y \in Characters : F[<<x, y>>] = StringStep(x, y)
  <2> HIDE DEF a
  <2> QED BY <1>1 DEF Rounds
<1> HIDE DEF F
<1>3. ASSUME NEW t \in Seq(Characters) PROVE \E u : LoopOver(V, F, a, t, u) /\ R[t] = u[Len(t)]
  <2> DEFINE Eq(f) == f = [n \in 0..Len(t) |-> IF n = 0 THEN a ELSE StringStep(f[n - 1], t[n])]
             w == CHOOSE f : Eq(f)
  <2>1. Len(t) \in Nat /\ \A k \in 1..Len(t) : t[k] \in Characters
      BY LenProperties, ElementOfSeq
  <2>2. Eq(w)
    <3> HIDE DEF a
    <3>1. PICK u \in [0..Len(t) -> V] : /\ LoopOver(V, F, a, t, u)
                                        /\ \A k \in 1..Len(t) : u[k] = F[<<u[k - 1], t[k]>>]
        BY <1>2, LoopExists
    <3>2. u[0] = a /\ \A k \in 1..Len(t) : u[k] = StringStep(u[k - 1], t[k])
      <4>1. u[0] = a
          BY <3>1 DEF LoopOver
      <4>2. ASSUME NEW k \in 1..Len(t) PROVE u[k] = StringStep(u[k - 1], t[k])
        <5>1. u[k - 1] \in V
            BY <2>1, <3>1
        <5> QED BY <1>2, <2>1, <3>1, <5>1
      <4> QED BY <4>1, <4>2
    <3>3. Eq(u)
      <4> DEFINE s(k) == StringStep(u[k - 1], t[k])
      <4>1. u = [n \in 0..Len(t) |-> u[n]]
          BY <3>1
      <4>2. \A n \in 0..Len(t) : u[n] = IF n = 0 THEN a ELSE s(n)
        <5> HIDE DEF s
        <5>1. u[0] = a /\ \A k \in 1..Len(t) : u[k] = s(k)
            BY <3>2 DEF s
        <5> QED BY <2>1, <5>1
      <4> HIDE DEF s
      <4>3. u = [n \in 0..Len(t) |-> IF n = 0 THEN a ELSE s(n)]
          BY <4>1, <4>2
      <4> QED BY <4>3 DEF s
    <3> HIDE DEF Eq
    <3> QED BY <3>3
  <2>3. R[t] = w[Len(t)]
      BY DEF ParseString
  <2> HIDE DEF w, a, R
  <2>4. LoopOver(V, F, a, t, w)
      BY <1>2, <2>1, <2>2 DEF LoopOver
  <2> QED BY <2>3, <2>4
<1>4. LoopResult(V, Characters, F, a, R)
  <2> HIDE DEF a, R
  <2> QED BY <1>3 DEF LoopResult
<1>5. /\ R[<<>>] = a
      /\ \A s \in Seq(Characters) : R[s] \in V
      /\ \A s \in Seq(Characters), c \in Characters : R[Append(s, c)] = F[<<R[s], c>>]
  <2> HIDE DEF a, R
  <2> QED BY <1>2, <1>4, LoopGoesOn
<1>6. <<>> \in Seq(Characters) /\ \A s \in Seq(Characters), c \in Characters : Append(s, c) \in Seq(Characters)
    BY EmptySeq, AppendProperties
<1> QED BY <1>2, <1>5, <1>6 DEF V

\* The states of a JSON reader inside a string.
ReaderStates == [escape : BOOLEAN, out : Seq(Characters)]

\* It stays among them.
LEMMA JsonStepTyped ==
    ASSUME NEW st \in ReaderStates, NEW c \in Characters
    PROVE  JsonStep(st, c) \in ReaderStates
<1>1. st.escape \in BOOLEAN /\ st.out \in Seq(Characters)
    BY DEF ReaderStates
<1> DEFINE d == CASE c = LetterN -> Newline [] c = UControl -> Control [] OTHER -> c
<1>2. d \in Characters
    BY DEF Characters, LetterN, Newline, UControl, Control
<1> HIDE DEF d
<1>3. Append(st.out, c) \in Seq(Characters) /\ Append(st.out, d) \in Seq(Characters)
    BY <1>1, <1>2, AppendProperties
<1>4. CASE st.escape
  <2>1. JsonStep(st, c) = [escape |-> FALSE, out |-> Append(st.out, d)]
    <3>1. JsonStep(st, c) = [escape |-> FALSE,
                             out |-> Append(st.out, CASE c = LetterN -> Newline
                                                      [] c = UControl -> Control
                                                      [] OTHER -> c)]
        BY <1>4 DEF JsonStep
    <3> QED BY <3>1 DEF d
  <2> QED BY <1>3, <2>1 DEF ReaderStates
<1>5. CASE ~st.escape
    BY <1>1, <1>3, <1>5 DEF JsonStep, ReaderStates
<1> QED BY <1>4, <1>5

\* A JSON reader takes one more character.
LEMMA JsonReadsGoesOn ==
    /\ JsonReads(<<>>) = [escape |-> FALSE, out |-> <<>>]
    /\ \A s \in Seq(Characters) : JsonReads(s) \in ReaderStates
    /\ \A s \in Seq(Characters), c \in Characters :
          JsonReads(Append(s, c)) = JsonStep(JsonReads(s), c)
<1> DEFINE V == ReaderStates
           a == [escape |-> FALSE, out |-> <<>>]
           F == [p \in V \X Characters |-> JsonStep(p[1], p[2])]
           R == [t \in Seq(Characters) |-> JsonReads(t)]
<1>1. a \in V /\ \A x \in V, y \in Characters : JsonStep(x, y) \in V
    BY JsonStepTyped, EmptySeq DEF ReaderStates
<1> HIDE DEF V
<1>2. Rounds(V, Characters, F, a) /\ \A x \in V, y \in Characters : F[<<x, y>>] = JsonStep(x, y)
  <2> HIDE DEF a
  <2> QED BY <1>1 DEF Rounds
<1> HIDE DEF F
<1>3. ASSUME NEW t \in Seq(Characters) PROVE \E u : LoopOver(V, F, a, t, u) /\ R[t] = u[Len(t)]
  <2> DEFINE Eq(f) == f = [n \in 0..Len(t) |-> IF n = 0 THEN a ELSE JsonStep(f[n - 1], t[n])]
             w == CHOOSE f : Eq(f)
  <2>1. Len(t) \in Nat /\ \A k \in 1..Len(t) : t[k] \in Characters
      BY LenProperties, ElementOfSeq
  <2>2. Eq(w)
    <3> HIDE DEF a
    <3>1. PICK u \in [0..Len(t) -> V] : /\ LoopOver(V, F, a, t, u)
                                        /\ \A k \in 1..Len(t) : u[k] = F[<<u[k - 1], t[k]>>]
        BY <1>2, LoopExists
    <3>2. u[0] = a /\ \A k \in 1..Len(t) : u[k] = JsonStep(u[k - 1], t[k])
      <4>1. u[0] = a
          BY <3>1 DEF LoopOver
      <4>2. ASSUME NEW k \in 1..Len(t) PROVE u[k] = JsonStep(u[k - 1], t[k])
        <5>1. u[k - 1] \in V
            BY <2>1, <3>1
        <5> QED BY <1>2, <2>1, <3>1, <5>1
      <4> QED BY <4>1, <4>2
    <3>3. Eq(u)
      <4> DEFINE s(k) == JsonStep(u[k - 1], t[k])
      <4>1. u = [n \in 0..Len(t) |-> u[n]]
          BY <3>1
      <4>2. \A n \in 0..Len(t) : u[n] = IF n = 0 THEN a ELSE s(n)
        <5> HIDE DEF s
        <5>1. u[0] = a /\ \A k \in 1..Len(t) : u[k] = s(k)
            BY <3>2 DEF s
        <5> QED BY <2>1, <5>1
      <4> HIDE DEF s
      <4>3. u = [n \in 0..Len(t) |-> IF n = 0 THEN a ELSE s(n)]
          BY <4>1, <4>2
      <4> QED BY <4>3 DEF s
    <3> HIDE DEF Eq
    <3> QED BY <3>3
  <2>3. R[t] = w[Len(t)]
      BY DEF JsonReads
  <2> HIDE DEF w, a, R
  <2>4. LoopOver(V, F, a, t, w)
      BY <1>2, <2>1, <2>2 DEF LoopOver
  <2> QED BY <2>3, <2>4
<1>4. LoopResult(V, Characters, F, a, R)
  <2> HIDE DEF a, R
  <2> QED BY <1>3 DEF LoopResult
<1>5. /\ R[<<>>] = a
      /\ \A s \in Seq(Characters) : R[s] \in V
      /\ \A s \in Seq(Characters), c \in Characters : R[Append(s, c)] = F[<<R[s], c>>]
  <2> HIDE DEF a, R
  <2> QED BY <1>2, <1>4, LoopGoesOn
<1>6. <<>> \in Seq(Characters) /\ \A s \in Seq(Characters), c \in Characters : Append(s, c) \in Seq(Characters)
    BY EmptySeq, AppendProperties
<1> QED BY <1>2, <1>5, <1>6 DEF V

\* Two characters more are one and one more.
LEMMA ConcatPair ==
    ASSUME NEW C, NEW x \in Seq(C), NEW c \in C, NEW d \in C
    PROVE  x \o <<c, d>> = Append(Append(x, c), d)
<1> DEFINE p == <<c, d>>
           l == x \o p
           r == Append(Append(x, c), d)
           n == Len(x)
<1>1. p \in Seq(C) /\ Len(p) = 2 /\ p[1] = c /\ p[2] = d
    OBVIOUS
<1> HIDE DEF p
<1>2. n \in Nat
    BY LenProperties
<1>3. /\ l \in Seq(C) /\ Len(l) = n + Len(p)
      /\ \A i \in 1..(n + Len(p)) : l[i] = IF i <= n THEN x[i] ELSE p[i - n]
    BY <1>1, ConcatProperties
<1> DEFINE y == Append(x, c)
<1>4. y \in Seq(C) /\ Len(y) = n + 1 /\ (\A i \in 1..n : y[i] = x[i]) /\ y[n + 1] = c
    BY AppendProperties
<1> HIDE DEF y
<1>5. r \in Seq(C) /\ Len(r) = Len(y) + 1 /\ (\A i \in 1..Len(y) : r[i] = y[i]) /\ r[Len(y) + 1] = d
    BY <1>4, AppendProperties DEF y
<1> HIDE DEF l, r, n
<1>6. Len(l) = n + 2 /\ Len(r) = n + 2
    BY <1>1, <1>2, <1>3, <1>4, <1>5
<1>7. ASSUME NEW i \in 1..Len(l) PROVE l[i] = r[i]
  <2>1. i \in 1..n \/ i = n + 1 \/ i = n + 2
      BY <1>2, <1>6
  <2>2. CASE i \in 1..n
      BY <1>1, <1>2, <1>3, <1>4, <1>5, <2>2
  <2>3. CASE i = n + 1
    <3>1. i \in 1..(n + Len(p)) /\ ~(i <= n) /\ i - n = 1 /\ i \in 1..Len(y)
        BY <1>1, <1>2, <1>4, <2>3
    <3> QED BY <1>1, <1>3, <1>4, <1>5, <2>3, <3>1
  <2>4. CASE i = n + 2
    <3>1. i \in 1..(n + Len(p)) /\ ~(i <= n) /\ i - n = 2 /\ i = Len(y) + 1
        BY <1>1, <1>2, <1>4, <2>4
    <3> QED BY <1>1, <1>3, <1>5, <3>1
  <2> QED BY <2>1, <2>2, <2>3, <2>4
<1>8. l = r
    BY <1>3, <1>5, <1>6, <1>7, SeqEqual
<1> QED BY <1>8 DEF l, r, p

\* What quoteJson puts behind a backslash for a character.
Escapes(c, d) == \/ c \in {Quote, Backslash} /\ d = c
                 \/ c = Newline /\ d = LetterN
                 \/ c = Control /\ d = UControl

\* It writes a character as it is, or an escape for it.
LEMMA EscapeCases ==
    ASSUME NEW c \in Characters
    PROVE  \/ /\ c \notin {Quote, Backslash, Newline, Control}
              /\ \A x \in Seq(Characters) : x \o Escape(c) = Append(x, c)
           \/ \E d \in Characters :
                 /\ Escapes(c, d)
                 /\ \A x \in Seq(Characters) : x \o Escape(c) = Append(Append(x, Backslash), d)
<1>1. {Quote, Backslash, LetterN, UControl} \subseteq Characters
    BY DEF Characters, Quote, Backslash, LetterN, UControl
<1>2. \A d \in Characters : \A x \in Seq(Characters) : x \o <<Backslash, d>> = Append(Append(x, Backslash), d)
    BY <1>1, ConcatPair
<1>3. \A x \in Seq(Characters) : x \o <<c>> = Append(x, c)
    BY AppendIsConcat
<1>4. Quote # Newline /\ Quote # Control /\ Backslash # Newline /\ Backslash # Control /\ Newline # Control
    BY DEF Quote, Backslash, Newline, Control
<1>5. CASE c \in {Quote, Backslash}
  <2>1. Escape(c) = <<Backslash, c>>
      BY <1>4, <1>5 DEF Escape
  <2>2. Escapes(c, c)
      BY <1>5 DEF Escapes
  <2> QED BY <1>2, <2>1, <2>2
<1>6. CASE c = Newline
  <2>1. Escape(c) = <<Backslash, LetterN>>
      BY <1>4, <1>6 DEF Escape
  <2>2. Escapes(c, LetterN)
      BY <1>6 DEF Escapes
  <2> QED BY <1>1, <1>2, <2>1, <2>2
<1>7. CASE c = Control
  <2>1. Escape(c) = <<Backslash, UControl>>
      BY <1>4, <1>7 DEF Escape
  <2>2. Escapes(c, UControl)
      BY <1>7 DEF Escapes
  <2> QED BY <1>1, <1>2, <2>1, <2>2
<1>8. CASE c \notin {Quote, Backslash, Newline, Control}
  <2>1. Escape(c) = <<c>>
      BY <1>8 DEF Escape
  <2> QED BY <1>3, <1>8, <2>1
<1> QED BY <1>5, <1>6, <1>7, <1>8

\* A JSON reader undoes the escapes.
LEMMA EscapedReadsBack ==
    \A t \in Seq(Characters) : JsonReads(Escaped(t)) = [escape |-> FALSE, out |-> t]
<1> DEFINE Read(t) == [escape |-> FALSE, out |-> t]
           T == {t \in Seq(Characters) : JsonReads(Escaped(t)) = Read(t)}
<1>1. <<>> \in T
    BY EmptySeq, EscapedGoesOn, JsonReadsGoesOn
<1>2. ASSUME NEW t \in Seq(Characters), NEW c \in Characters, t \in T
      PROVE  Append(t, c) \in T
  <2> DEFINE x == Escaped(t)
             u == Append(t, c)
  <2>1. x \in Seq(Characters) /\ JsonReads(x) = Read(t) /\ u \in Seq(Characters)
      BY <1>2, EscapedGoesOn, AppendProperties
  <2>2. Escaped(u) = x \o Escape(c)
      BY EscapedGoesOn
  <2> HIDE DEF x, u
  <2>3. Backslash \in Characters
      BY DEF Characters, Backslash
  <2>4. ASSUME c \notin {Quote, Backslash, Newline, Control}, x \o Escape(c) = Append(x, c)
        PROVE  JsonReads(Escaped(u)) = Read(u)
    <3>1. JsonReads(Append(x, c)) = JsonStep(Read(t), c)
        BY <2>1, JsonReadsGoesOn
    <3>2. JsonStep(Read(t), c) = Read(u)
        BY <2>4 DEF JsonStep, u
    <3> QED BY <2>2, <2>4, <3>1, <3>2
  <2>5. ASSUME NEW d \in Characters, Escapes(c, d), x \o Escape(c) = Append(Append(x, Backslash), d)
        PROVE  JsonReads(Escaped(u)) = Read(u)
    <3> DEFINE y == Append(x, Backslash)
               st == [escape |-> TRUE, out |-> t]
    <3>1. y \in Seq(Characters) /\ JsonReads(y) = JsonStep(Read(t), Backslash)
        BY <2>1, <2>3, JsonReadsGoesOn, AppendProperties
    <3>2. JsonStep(Read(t), Backslash) = st
        BY DEF JsonStep
    <3>3. JsonReads(Append(y, d)) = JsonStep(st, d)
        BY <3>1, <3>2, JsonReadsGoesOn
    <3>4. JsonStep(st, d) = Read(u)
      <4> DEFINE e == CASE d = LetterN -> Newline [] d = UControl -> Control [] OTHER -> d
      <4>1. e = c
          BY <2>5 DEF Escapes, Quote, Backslash, Newline, LetterN, Control, UControl
      <4>2. JsonStep(st, d) = [escape |-> FALSE, out |-> Append(t, e)]
          BY DEF JsonStep
      <4> HIDE DEF e
      <4> QED BY <4>1, <4>2 DEF u
    <3> QED BY <2>2, <2>5, <3>3, <3>4
  <2>6. JsonReads(Escaped(u)) = Read(u)
      BY <2>1, <2>4, <2>5, EscapeCases
  <2> QED BY <2>1, <2>6 DEF u
<1>3. Seq(Characters) \subseteq T
  <2> HIDE DEF T
  <2> QED BY <1>1, <1>2, TextInduction
<1> QED BY <1>3

\* The quotes go around the escaped text.
LEMMA QuotedParts ==
    ASSUME NEW t \in Seq(Characters)
    PROVE  LET x == Escaped(t)
               q == <<Quote>> \o x
           IN /\ x \in Seq(Characters) /\ q \in Seq(Characters) /\ Len(q) = Len(x) + 1
              /\ QuoteJson(t) = Append(q, Quote)
              /\ Len(QuoteJson(t)) = Len(x) + 2
              /\ SubSeq(QuoteJson(t), 2, Len(QuoteJson(t)) - 1) = x
<1> DEFINE x == Escaped(t)
           one == <<Quote>>
           q == one \o x
           a == Append(q, Quote)
           n == Len(x)
<1>1. x \in Seq(Characters) /\ n \in Nat /\ Quote \in Characters
    BY EscapedGoesOn, LenProperties DEF Characters, Quote
<1>2. one \in Seq(Characters) /\ Len(one) = 1
    BY <1>1
<1> HIDE DEF one, x
<1>3. /\ q \in Seq(Characters) /\ Len(q) = 1 + n
      /\ \A i \in 1..(1 + n) : q[i] = IF i <= 1 THEN one[i] ELSE x[i - 1]
  <2>1. /\ q \in Seq(Characters) /\ Len(q) = Len(one) + Len(x)
        /\ \A i \in 1..(Len(one) + Len(x)) : q[i] = IF i <= Len(one) THEN one[i] ELSE x[i - Len(one)]
      BY <1>1, <1>2, ConcatProperties
  <2> HIDE DEF q
  <2> QED BY <1>2, <2>1
<1>4. QuoteJson(t) = a
  <2>1. a = q \o <<Quote>>
      BY <1>1, <1>3, AppendIsConcat
  <2> QED BY <2>1 DEF QuoteJson, x, one
<1> HIDE DEF q
<1>5. /\ a \in Seq(Characters) /\ Len(a) = n + 2
      /\ \A i \in 1..(n + 1) : a[i] = q[i]
  <2>1. a \in Seq(Characters) /\ Len(a) = Len(q) + 1 /\ \A i \in 1..Len(q) : a[i] = q[i]
      BY <1>1, <1>3, AppendProperties
  <2> HIDE DEF a
  <2> QED BY <1>1, <1>3, <2>1
<1> HIDE DEF a
<1> DEFINE m == Len(a) - 1
           s == SubSeq(a, 2, m)
<1>6. m = n + 1
    BY <1>1, <1>5
<1> HIDE DEF m
<1>7. s = x
  <2>1. 2 \in 1..(Len(a) + 2) /\ m \in 0..Len(a) /\ 2 <= m + 2 /\ m - 2 + 1 = n
      BY <1>1, <1>5, <1>6
  <2>2. /\ s \in Seq(Characters) /\ Len(s) = (IF 2 <= m THEN m - 2 + 1 ELSE 0)
        /\ \A i \in 1..(m - 2 + 1) : s[i] = a[2 + i - 1]
      BY <1>5, <2>1, Piece
  <2> HIDE DEF s
  <2>3. Len(s) = n
      BY <1>1, <1>6, <2>1, <2>2
  <2>4. ASSUME NEW i \in 1..Len(s) PROVE s[i] = x[i]
    <3>1. 2 + i - 1 = i + 1 /\ i + 1 \in 1..(n + 1) /\ ~(i + 1 <= 1) /\ (i + 1) - 1 = i
          /\ i \in 1..(m - 2 + 1) /\ i + 1 \in 1..(1 + n)
        BY <1>1, <2>1, <2>3
    <3>2. s[i] = a[i + 1]
        BY <2>2, <3>1
    <3>3. a[i + 1] = q[i + 1]
        BY <1>5, <3>1
    <3> QED BY <1>3, <3>1, <3>2, <3>3
  <2> QED BY <1>1, <2>2, <2>3, <2>4, SeqEqual
<1>8. /\ x \in Seq(Characters) /\ q \in Seq(Characters) /\ Len(q) = Len(x) + 1
      /\ QuoteJson(t) = a
      /\ Len(QuoteJson(t)) = Len(x) + 2
      /\ SubSeq(QuoteJson(t), 2, Len(QuoteJson(t)) - 1) = x
  <2>1. n + 2 = Len(x) + 2 /\ 1 + n = Len(x) + 1
      BY <1>1
  <2>2. SubSeq(a, 2, Len(a) - 1) = x
      BY <1>7 DEF m
  <2> QED BY <1>1, <1>3, <1>4, <1>5, <2>1, <2>2
<1> HIDE DEF n
<1> QED BY <1>8 DEF x, q, one, a

\* What parseString has when it has taken the opening quote and the escaped t: t, or
\* a failure at the escape of a control character.
Inside(t, st) ==
    IF Control \in ToSet(t) THEN st.at = "failed"
    ELSE st = [at |-> "inside", out |-> t, used |-> Len(Escaped(t)) + 1]

\* A text with one more character has that one among its characters.
LEMMA ToSetAppend ==
    ASSUME NEW t \in Seq(Characters), NEW c \in Characters, NEW z
    PROVE  z \in ToSet(Append(t, c)) <=> z \in ToSet(t) \/ z = c
<1> DEFINE u == Append(t, c)
<1>1. Len(t) \in Nat /\ DOMAIN t = 1..Len(t)
    BY LenProperties
<1>2. /\ u \in Seq(Characters) /\ Len(u) = Len(t) + 1 /\ u[Len(t) + 1] = c
      /\ \A i \in 1..Len(t) : u[i] = t[i]
    BY AppendProperties
<1>3. DOMAIN u = 1..Len(u)
    BY <1>2, LenProperties
<1> HIDE DEF u
<1>4. \A i : i \in 1..Len(u) <=> i \in 1..Len(t) \/ i = Len(t) + 1
    BY <1>1, <1>2
<1>5. z \in ToSet(u) <=> z \in ToSet(t) \/ z = c
    BY <1>1, <1>2, <1>3, <1>4 DEF ToSet
<1> QED BY <1>5 DEF u

\* Inside goes on with every character of the text.
LEMMA EscapedParses == \A t \in Seq(Characters) : Inside(t, ParseString(<<Quote>> \o Escaped(t)))
<1> DEFINE T == {t \in Seq(Characters) : Inside(t, ParseString(<<Quote>> \o Escaped(t)))}
           start == [at |-> "start", out |-> <<>>, used |-> 0]
<1>0. Quote \in Characters /\ Backslash \in Characters /\ <<Quote>> \in Seq(Characters)
    BY DEF Characters, Quote, Backslash
<1>1. <<>> \in T
  <2>1. <<>> \in Seq(Characters) /\ Len(<<>>) = 0 /\ Escaped(<<>>) = <<>> /\ ToSet(<<>>) = {}
      BY EmptySeq, EscapedGoesOn DEF ToSet
  <2>2. <<Quote>> \o <<>> = Append(<<>>, Quote)
      BY <1>0, EmptySeq, ConcatEmptySeq
  <2>3. ParseString(Append(<<>>, Quote)) = StringStep(start, Quote)
      BY <1>0, <2>1, ParseStringGoesOn
  <2>4. StringStep(start, Quote) = [at |-> "inside", out |-> <<>>, used |-> 1]
      BY DEF StringStep
  <2>5. Len(Escaped(<<>>)) + 1 = 1
      BY <2>1
  <2> QED BY <2>1, <2>2, <2>3, <2>4, <2>5 DEF Inside
<1>2. ASSUME NEW t \in Seq(Characters), NEW c \in Characters, t \in T
      PROVE  Append(t, c) \in T
  <2> DEFINE x == Escaped(t)
             q == <<Quote>> \o x
             u == Append(t, c)
             z == Escaped(u)
             st == ParseString(q)
             n == Len(x)
             mid == [at |-> "inside", out |-> t, used |-> n + 1]
  <2>1. /\ x \in Seq(Characters) /\ q \in Seq(Characters) /\ u \in Seq(Characters)
        /\ st \in StringStates /\ n \in Nat
      BY QuotedParts, ParseStringGoesOn, AppendProperties, LenProperties
  <2>2. z = x \o Escape(c)
      BY EscapedGoesOn
  <2>3. IF Control \in ToSet(t) THEN st.at = "failed" ELSE st = mid
      BY <1>2 DEF Inside
  <2>4. Control \in ToSet(u) <=> Control \in ToSet(t) \/ Control = c
      BY ToSetAppend
  <2>5. \A y \in Seq(Characters), d \in Characters : <<Quote>> \o Append(y, d) = Append(<<Quote>> \o y, d)
    <3> TAKE y \in Seq(Characters), d \in Characters
    <3>1. <<d>> \in Seq(Characters) /\ <<Quote>> \o y \in Seq(Characters)
        BY <1>0, ConcatProperties
    <3>2. Append(y, d) = y \o <<d>> /\ Append(<<Quote>> \o y, d) = (<<Quote>> \o y) \o <<d>>
        BY <3>1, AppendIsConcat
    <3>3. (<<Quote>> \o y) \o <<d>> = <<Quote>> \o (y \o <<d>>)
        BY <1>0, <3>1, ConcatAssociative
    <3> QED BY <3>2, <3>3
  <2>6. \A s \in StringStates, d \in Characters : s.at = "failed" => StringStep(s, d).at = "failed"
      BY DEF StringStep
  <2> HIDE DEF x, q, u, z, st, n
  <2>7. ASSUME c \notin {Quote, Backslash, Newline, Control}, z = Append(x, c)
        PROVE  Inside(u, ParseString(<<Quote>> \o z))
    <3>1. <<Quote>> \o z = Append(q, c)
        BY <2>1, <2>5, <2>7 DEF q
    <3>2. ParseString(<<Quote>> \o z) = StringStep(st, c)
        BY <2>1, <3>1, ParseStringGoesOn DEF st
    <3>3. Len(z) = n + 1
        BY <2>1, <2>7, AppendProperties DEF n
    <3>4. CASE Control \in ToSet(t)
        BY <2>1, <2>3, <2>4, <2>6, <3>2, <3>4 DEF Inside
    <3>5. CASE Control \notin ToSet(t)
      <4>1. StringStep(mid, c) = [at |-> "inside", out |-> u, used |-> n + 1 + 1]
          BY <2>7 DEF StringStep, u
      <4>2. StringStep(st, c) = [at |-> "inside", out |-> u, used |-> Len(z) + 1]
          BY <2>3, <3>3, <3>5, <4>1
      <4>3. Control \notin ToSet(u)
          BY <2>4, <2>7, <3>5
      <4> QED BY <3>2, <4>2, <4>3 DEF Inside, z
    <3> QED BY <3>4, <3>5
  <2>8. ASSUME NEW d \in Characters, Escapes(c, d), z = Append(Append(x, Backslash), d)
        PROVE  Inside(u, ParseString(<<Quote>> \o z))
    <3> DEFINE y == Append(x, Backslash)
               r == Append(q, Backslash)
               esc == [at |-> "escape", out |-> t, used |-> n + 1 + 1]
    <3>1. /\ y \in Seq(Characters) /\ r \in Seq(Characters)
          /\ <<Quote>> \o y = r /\ <<Quote>> \o z = Append(r, d)
          /\ Len(y) = n + 1 /\ Len(z) = n + 1 + 1
      <4>1. y \in Seq(Characters) /\ r \in Seq(Characters) /\ Len(y) = n + 1
          BY <1>0, <2>1, AppendProperties DEF n
      <4>2. <<Quote>> \o y = r
          BY <1>0, <2>1, <2>5 DEF q
      <4> HIDE DEF y, r
      <4>3. <<Quote>> \o z = Append(r, d)
          BY <2>5, <2>8, <4>1, <4>2 DEF y
      <4>4. Len(z) = Len(y) + 1
          BY <2>8, <4>1, AppendProperties DEF y
      <4> QED BY <4>1, <4>2, <4>3, <4>4
    <3>2. ParseString(r) = StringStep(st, Backslash)
        BY <1>0, <2>1, ParseStringGoesOn DEF st
    <3> HIDE DEF r
    <3>3. ParseString(<<Quote>> \o z) = StringStep(ParseString(r), d) /\ ParseString(r) \in StringStates
        BY <3>1, ParseStringGoesOn
    <3>4. CASE Control \in ToSet(t)
      <4>1. StringStep(st, Backslash).at = "failed"
          BY <1>0, <2>1, <2>3, <2>6, <3>4
      <4>2. StringStep(ParseString(r), d).at = "failed"
          BY <2>6, <3>2, <3>3, <4>1
      <4> QED BY <2>4, <3>3, <3>4, <4>2 DEF Inside
    <3>5. CASE Control \notin ToSet(t)
      <4>1. StringStep(mid, Backslash) = esc
        <5>1. Quote # Backslash
            BY DEF Quote, Backslash
        <5> QED BY <5>1 DEF StringStep
      <4>2. ParseString(r) = esc
          BY <2>3, <3>2, <3>5, <4>1
      <4>3. CASE c = Control
        <5>1. Unescape(d) = UControl
            BY <2>8, <4>3 DEF Escapes, Unescape, Control, Quote, Backslash, Newline, LetterN, UControl
        <5>2. StringStep(esc, d).at = "failed"
            BY <5>1 DEF StringStep
        <5> QED BY <2>4, <3>3, <4>2, <4>3, <5>2 DEF Inside
      <4>4. CASE c # Control
        <5>1. Unescape(d) = c /\ c # UControl
            BY <2>8, <4>4 DEF Escapes, Unescape, Control, Quote, Backslash, Newline, LetterN, UControl
        <5>2. StringStep(esc, d) = [at |-> "inside", out |-> u, used |-> n + 1 + 1 + 1]
            BY <5>1 DEF StringStep, u
        <5>3. ParseString(<<Quote>> \o z) = [at |-> "inside", out |-> u, used |-> Len(z) + 1]
            BY <3>1, <3>3, <4>2, <5>2
        <5>4. Control \notin ToSet(u)
            BY <2>4, <3>5, <4>4
        <5> QED BY <5>3, <5>4 DEF Inside, z
      <4> QED BY <4>3, <4>4
    <3> QED BY <3>4, <3>5
  <2>9. Inside(u, ParseString(<<Quote>> \o z))
      BY <2>1, <2>2, <2>7, <2>8, EscapeCases
  <2> QED BY <2>1, <2>9 DEF u, z
<1>3. Seq(Characters) \subseteq T
  <2> HIDE DEF T
  <2> QED BY <1>1, <1>2, TextInduction
<1> QED BY <1>3

\* A client reads back the text it sent.
LEMMA EchoReadsBackText ==
    ASSUME text \in Seq(Characters)
    PROVE  EchoReadsBack
BY QuotedParts, EscapedReadsBack DEF EchoReadsBack

\* The venue's own reader stops at the closing quote, whatever comes behind it.
LEMMA EchoContainedText ==
    ASSUME text \in Seq(Characters)
    PROVE  EchoContained
<1> DEFINE x == Escaped(text)
           q == <<Quote>> \o x
           a == QuoteJson(text)
           b == Append(a, Quote)
           c == Append(b, Backslash)
           mid == [at |-> "inside", out |-> text, used |-> Len(x) + 1]
           end == [at |-> "closed", out |-> text, used |-> Len(x) + 1 + 1]
<1>1. Quote \in Characters /\ Backslash \in Characters
    BY DEF Characters, Quote, Backslash
<1>2. /\ x \in Seq(Characters) /\ q \in Seq(Characters) /\ a = Append(q, Quote) /\ Len(a) = Len(x) + 2
    BY QuotedParts
<1>3. a \o <<Quote, Backslash>> = c
  <2>1. a \in Seq(Characters)
      BY <1>1, <1>2, AppendProperties
  <2> QED BY <1>1, <2>1, ConcatPair
<1>4. Inside(text, ParseString(q))
    BY EscapedParses
<1>5. Len(x) + 1 + 1 = Len(a) /\ Len(x) \in Nat
    BY <1>2, LenProperties
<1> HIDE DEF x, q, a, b, c
<1>6. /\ ParseString(a) = StringStep(ParseString(q), Quote)
      /\ ParseString(b) = StringStep(ParseString(a), Quote)
      /\ ParseString(c) = StringStep(ParseString(b), Backslash)
      /\ ParseString(q) \in StringStates /\ ParseString(a) \in StringStates
  <2>1. a \in Seq(Characters) /\ b \in Seq(Characters)
      BY <1>1, <1>2, AppendProperties DEF b
  <2> QED BY <1>1, <1>2, <2>1, ParseStringGoesOn DEF b, c
<1>7. CASE Control \in ToSet(text)
  <2>1. \A s \in StringStates, d \in Characters : s.at = "failed" => StringStep(s, d) = s
      BY DEF StringStep
  <2>2. ParseString(q).at = "failed"
      BY <1>4, <1>7 DEF Inside
  <2>3. ParseString(c) = ParseString(q)
      BY <1>1, <1>6, <2>1, <2>2
  <2> QED BY <1>3, <1>7, <2>2, <2>3 DEF EchoContained, a
<1>8. CASE Control \notin ToSet(text)
  <2>1. ParseString(q) = mid
      BY <1>4, <1>8 DEF Inside, x
  <2>2. StringStep(mid, Quote) = end
    <3> DEFINE k == Len(x) + 1
    <3>1. k + 1 = Len(x) + 1 + 1
        OBVIOUS
    <3> HIDE DEF k
    <3>2. Quote # Backslash
        BY DEF Quote, Backslash
    <3>3. StringStep([at |-> "inside", out |-> text, used |-> k], Quote)
             = [at |-> "closed", out |-> text, used |-> k + 1]
        BY <3>2 DEF StringStep
    <3> QED BY <3>3 DEF k
  <2>3. StringStep(end, Quote) = end /\ StringStep(end, Backslash) = end
      BY DEF StringStep
  <2>4. ParseString(c) = [at |-> "closed", out |-> text, used |-> Len(a)]
      BY <1>5, <1>6, <2>1, <2>2, <2>3
  <2> QED BY <1>3, <1>8, <2>4 DEF EchoContained, a
<1> QED BY <1>7, <1>8

\* For every text: an id that quoteJson writes is read back as the text it was, by
\* the client and, control characters aside, by the venue, and nothing in it ends
\* its string early.
THEOREM EchoIsExact == WireSpec => []EchoExact
<1>1. WireTypes => EchoExact
    BY EchoReadsBackText, EchoContainedText DEF WireTypes, EchoExact
<1> QED BY <1>1, WireTypesInvariant, PTL

-----------------------------------------------------------------------------
(***************************************************************************)
(* parseFlatObject.                                                        *)
(***************************************************************************)
Kinds == {"lbrace", "rbrace", "colon", "comma", "space", "junk", "string", "number"}

\* The tokens, for the provers.
LEMMA TokensTyped ==
    /\ \A t \in Tokens : t.kind \in Kinds
    /\ \A t \in Tokens : t.kind = "string" => t \in Strings /\ t.str \in Words
    /\ \A t \in Tokens : t.kind = "number" => t \in Numbers
<1> SUFFICES ASSUME NEW t \in Tokens
             PROVE  /\ t.kind \in Kinds
                    /\ t.kind = "string" => t \in Strings /\ t.str \in Words
                    /\ t.kind = "number" => t \in Numbers
    OBVIOUS
<1>1. CASE t \in Punctuation
  <2>1. PICK k \in {"lbrace", "rbrace", "colon", "comma", "space", "junk"} : t = [kind |-> k]
      BY <1>1 DEF Punctuation
  <2>2. t.kind = k
      BY <2>1
  <2> QED BY <2>2 DEF Kinds
<1>2. CASE t \in Strings
    BY <1>2 DEF Strings, Kinds
<1>3. CASE t \in Numbers
    BY <1>3 DEF Numbers, Kinds
<1> QED BY <1>1, <1>2, <1>3 DEF Tokens

States == {"open", "first", "key", "colon", "value", "next", "end", "failed"}

\* The states of parseFlatObject.
ObjectStates == [at : States, key : Words \cup {""}, obj : [Words -> Strings \cup Numbers \cup {NoField}]]

\* What the reader looks for after a token of kind k, white space aside.
NextAt(at, k) ==
    CASE at = "open" /\ k = "lbrace" -> "first"
      [] at = "first" /\ k = "rbrace" -> "end"
      [] at \in {"first", "key"} /\ k = "string" -> "colon"
      [] at = "colon" /\ k = "colon" -> "value"
      [] at = "value" /\ k \in {"string", "number"} -> "next"
      [] at = "next" /\ k = "comma" -> "key"
      [] at = "next" /\ k = "rbrace" -> "end"
      [] OTHER -> "failed"

\* A step of the reader, field by field.
LEMMA ReadTokenIs ==
    ASSUME NEW st \in ObjectStates, NEW t \in Tokens
    PROVE  LET new == ReadToken(st, t)
           IN /\ new \in ObjectStates
              /\ t.kind = "space" => new = st
              /\ t.kind # "space" =>
                    /\ new.at = NextAt(st.at, t.kind)
                    /\ new.key = IF new.at = "colon" THEN t.str ELSE st.key
                    /\ new.obj = IF new.at = "next" THEN [k \in Words |-> IF k = st.key THEN t ELSE st.obj[k]]
                                 ELSE st.obj
<1> DEFINE k == t.kind
           new == ReadToken(st, t)
           set == [w \in Words |-> IF w = st.key THEN t ELSE st.obj[w]]
<1>1. /\ st.at \in States /\ st.key \in Words \cup {""} /\ DOMAIN st.obj = Words
      /\ st.obj \in [Words -> Strings \cup Numbers \cup {NoField}]
    BY DEF ObjectStates
<1>2. /\ k \in Kinds
      /\ k = "string" => t \in Strings /\ t.str \in Words
      /\ k = "number" => t \in Numbers
    BY TokensTyped
<1>3. k \in {"string", "number"} => set \in [Words -> Strings \cup Numbers \cup {NoField}]
    BY <1>1, <1>2
<1> HIDE DEF set
<1>4. CASE k = "space"
  <2>1. new = st
      BY <1>4 DEF ReadToken
  <2> QED BY <1>4, <2>1
<1>5. CASE k # "space" /\ st.at = "open" /\ k = "lbrace"
  <2>1. new = [st EXCEPT !.at = "first"]
      BY <1>5 DEF ReadToken
  <2>2. NextAt(st.at, k) = "first"
      BY <1>5 DEF NextAt
  <2> QED BY <1>1, <1>5, <2>1, <2>2 DEF ObjectStates, States
<1>6. CASE k # "space" /\ st.at = "first" /\ k = "rbrace"
  <2>1. new = [st EXCEPT !.at = "end"]
      BY <1>6 DEF ReadToken
  <2>2. NextAt(st.at, k) = "end"
      BY <1>6 DEF NextAt
  <2> QED BY <1>1, <1>6, <2>1, <2>2 DEF ObjectStates, States
<1>7. CASE k # "space" /\ st.at \in {"first", "key"} /\ k = "string"
  <2>1. new = [[st EXCEPT !.at = "colon"] EXCEPT !.key = t.str]
      BY <1>7 DEF ReadToken
  <2>2. NextAt(st.at, k) = "colon"
      BY <1>7 DEF NextAt
  <2> QED BY <1>1, <1>2, <1>7, <2>1, <2>2 DEF ObjectStates, States
<1>8. CASE k # "space" /\ st.at = "colon" /\ k = "colon"
  <2>1. new = [st EXCEPT !.at = "value"]
      BY <1>8 DEF ReadToken
  <2>2. NextAt(st.at, k) = "value"
      BY <1>8 DEF NextAt
  <2> QED BY <1>1, <1>8, <2>1, <2>2 DEF ObjectStates, States
<1>9. CASE k # "space" /\ st.at = "value" /\ k \in {"string", "number"}
  <2>1. new = [[st EXCEPT !.at = "next"] EXCEPT
                 !.obj = [w \in DOMAIN st.obj |-> IF w = st.key THEN t ELSE st.obj[w]]]
      BY <1>9 DEF ReadToken
  <2>2. new = [[st EXCEPT !.at = "next"] EXCEPT !.obj = set]
      BY <1>1, <2>1 DEF set
  <2>3. NextAt(st.at, k) = "next"
      BY <1>9 DEF NextAt
  <2>4. new \in ObjectStates /\ new.at = "next" /\ new.key = st.key /\ new.obj = set
      BY <1>1, <1>3, <1>9, <2>2 DEF ObjectStates, States
  <2> QED BY <1>9, <2>3, <2>4 DEF set
<1>10. CASE k # "space" /\ st.at = "next" /\ k = "comma"
  <2>1. new = [st EXCEPT !.at = "key"]
      BY <1>10 DEF ReadToken, AfterComma
  <2>2. NextAt(st.at, k) = "key"
      BY <1>10 DEF NextAt
  <2> QED BY <1>1, <1>10, <2>1, <2>2 DEF ObjectStates, States
<1>11. CASE k # "space" /\ st.at = "next" /\ k = "rbrace"
  <2>1. new = [st EXCEPT !.at = "end"]
      BY <1>11 DEF ReadToken
  <2>2. NextAt(st.at, k) = "end"
      BY <1>11 DEF NextAt
  <2> QED BY <1>1, <1>11, <2>1, <2>2 DEF ObjectStates, States
<1>12. CASE /\ k # "space"
            /\ ~(st.at = "open" /\ k = "lbrace") /\ ~(st.at = "first" /\ k = "rbrace")
            /\ ~(st.at \in {"first", "key"} /\ k = "string") /\ ~(st.at = "colon" /\ k = "colon")
            /\ ~(st.at = "value" /\ k \in {"string", "number"})
            /\ ~(st.at = "next" /\ k = "comma") /\ ~(st.at = "next" /\ k = "rbrace")
  <2>1. new = [st EXCEPT !.at = "failed"]
      BY <1>12 DEF ReadToken
  <2>2. NextAt(st.at, k) = "failed"
      BY <1>12 DEF NextAt
  <2> QED BY <1>1, <1>12, <2>1, <2>2 DEF ObjectStates, States
<1> QED BY <1>4, <1>5, <1>6, <1>7, <1>8, <1>9, <1>10, <1>11, <1>12

\* parseFlatObject takes one more token.
LEMMA ParseFlatObjectGoesOn ==
    /\ ParseFlatObject(<<>>) = [at |-> "open", key |-> "", obj |-> [k \in Words |-> NoField]]
    /\ \A s \in Seq(Tokens) : ParseFlatObject(s) \in ObjectStates
    /\ \A s \in Seq(Tokens), c \in Tokens :
          ParseFlatObject(Append(s, c)) = ReadToken(ParseFlatObject(s), c)
<1> DEFINE V == ObjectStates
           a == [at |-> "open", key |-> "", obj |-> [k \in Words |-> NoField]]
           F == [p \in V \X Tokens |-> ReadToken(p[1], p[2])]
           R == [t \in Seq(Tokens) |-> ParseFlatObject(t)]
<1>1. a \in V /\ \A x \in V, y \in Tokens : ReadToken(x, y) \in V
    BY ReadTokenIs DEF ObjectStates, States
<1> HIDE DEF V
<1>2. Rounds(V, Tokens, F, a) /\ \A x \in V, y \in Tokens : F[<<x, y>>] = ReadToken(x, y)
  <2> HIDE DEF a
  <2> QED BY <1>1 DEF Rounds
<1> HIDE DEF F
<1>3. ASSUME NEW t \in Seq(Tokens) PROVE \E u : LoopOver(V, F, a, t, u) /\ R[t] = u[Len(t)]
  <2> DEFINE Eq(f) == f = [n \in 0..Len(t) |-> IF n = 0 THEN a ELSE ReadToken(f[n - 1], t[n])]
             w == CHOOSE f : Eq(f)
  <2>1. Len(t) \in Nat /\ \A k \in 1..Len(t) : t[k] \in Tokens
      BY LenProperties, ElementOfSeq
  <2>2. Eq(w)
    <3> HIDE DEF a
    <3>1. PICK u \in [0..Len(t) -> V] : /\ LoopOver(V, F, a, t, u)
                                        /\ \A k \in 1..Len(t) : u[k] = F[<<u[k - 1], t[k]>>]
        BY <1>2, LoopExists
    <3>2. u[0] = a /\ \A k \in 1..Len(t) : u[k] = ReadToken(u[k - 1], t[k])
      <4>1. u[0] = a
          BY <3>1 DEF LoopOver
      <4>2. ASSUME NEW k \in 1..Len(t) PROVE u[k] = ReadToken(u[k - 1], t[k])
        <5>1. u[k - 1] \in V
            BY <2>1, <3>1
        <5> QED BY <1>2, <2>1, <3>1, <5>1
      <4> QED BY <4>1, <4>2
    <3>3. Eq(u)
      <4> DEFINE s(k) == ReadToken(u[k - 1], t[k])
      <4>1. u = [n \in 0..Len(t) |-> u[n]]
          BY <3>1
      <4>2. \A n \in 0..Len(t) : u[n] = IF n = 0 THEN a ELSE s(n)
        <5> HIDE DEF s
        <5>1. u[0] = a /\ \A k \in 1..Len(t) : u[k] = s(k)
            BY <3>2 DEF s
        <5> QED BY <2>1, <5>1
      <4> HIDE DEF s
      <4>3. u = [n \in 0..Len(t) |-> IF n = 0 THEN a ELSE s(n)]
          BY <4>1, <4>2
      <4> QED BY <4>3 DEF s
    <3> HIDE DEF Eq
    <3> QED BY <3>3
  <2>3. R[t] = w[Len(t)]
      BY DEF ParseFlatObject
  <2> HIDE DEF w, a, R
  <2>4. LoopOver(V, F, a, t, w)
      BY <1>2, <2>1, <2>2 DEF LoopOver
  <2> QED BY <2>3, <2>4
<1>4. LoopResult(V, Tokens, F, a, R)
  <2> HIDE DEF a, R
  <2> QED BY <1>3 DEF LoopResult
<1>5. /\ R[<<>>] = a
      /\ \A s \in Seq(Tokens) : R[s] \in V
      /\ \A s \in Seq(Tokens), c \in Tokens : R[Append(s, c)] = F[<<R[s], c>>]
  <2> HIDE DEF a, R
  <2> QED BY <1>2, <1>4, LoopGoesOn
<1>6. <<>> \in Seq(Tokens) /\ \A s \in Seq(Tokens), c \in Tokens : Append(s, c) \in Seq(Tokens)
    BY EmptySeq, AppendProperties
<1> QED BY <1>2, <1>5, <1>6 DEF V

\* The tokens that count, with a token more.
Counted(found, t) == IF t.kind = "space" THEN found ELSE Append(found, t)

\* One more token counts if it is not white space.
LEMMA MeaningfulGoesOn ==
    /\ Meaningful(<<>>) = <<>>
    /\ \A s \in Seq(Tokens) : Meaningful(s) \in Seq(Tokens)
    /\ \A s \in Seq(Tokens), c \in Tokens :
          Meaningful(Append(s, c)) = Counted(Meaningful(s), c)
<1> DEFINE V == Seq(Tokens)
           a == <<>>
           F == [p \in V \X Tokens |-> Counted(p[1], p[2])]
           R == [t \in Seq(Tokens) |-> Meaningful(t)]
<1>1. a \in V /\ \A x \in V, y \in Tokens : Counted(x, y) \in V
    BY EmptySeq, AppendProperties DEF Counted
<1> HIDE DEF V
<1>2. Rounds(V, Tokens, F, a) /\ \A x \in V, y \in Tokens : F[<<x, y>>] = Counted(x, y)
  <2> HIDE DEF a
  <2> QED BY <1>1 DEF Rounds
<1> HIDE DEF F
<1>3. ASSUME NEW t \in Seq(Tokens) PROVE \E u : LoopOver(V, F, a, t, u) /\ R[t] = u[Len(t)]
  <2> DEFINE Eq(f) == f = [n \in 0..Len(t) |-> IF n = 0 THEN a ELSE Counted(f[n - 1], t[n])]
             w == CHOOSE f : Eq(f)
  <2>1. Len(t) \in Nat /\ \A k \in 1..Len(t) : t[k] \in Tokens
      BY LenProperties, ElementOfSeq
  <2>2. Eq(w)
    <3> HIDE DEF a
    <3>1. PICK u \in [0..Len(t) -> V] : /\ LoopOver(V, F, a, t, u)
                                        /\ \A k \in 1..Len(t) : u[k] = F[<<u[k - 1], t[k]>>]
        BY <1>2, LoopExists
    <3>2. u[0] = a /\ \A k \in 1..Len(t) : u[k] = Counted(u[k - 1], t[k])
      <4>1. u[0] = a
          BY <3>1 DEF LoopOver
      <4>2. ASSUME NEW k \in 1..Len(t) PROVE u[k] = Counted(u[k - 1], t[k])
        <5>1. u[k - 1] \in V
            BY <2>1, <3>1
        <5> QED BY <1>2, <2>1, <3>1, <5>1
      <4> QED BY <4>1, <4>2
    <3>3. Eq(u)
      <4> DEFINE s(k) == Counted(u[k - 1], t[k])
      <4>1. u = [n \in 0..Len(t) |-> u[n]]
          BY <3>1
      <4>2. \A n \in 0..Len(t) : u[n] = IF n = 0 THEN a ELSE s(n)
        <5> HIDE DEF s
        <5>1. u[0] = a /\ \A k \in 1..Len(t) : u[k] = s(k)
            BY <3>2 DEF s
        <5> QED BY <2>1, <5>1
      <4> HIDE DEF s
      <4>3. u = [n \in 0..Len(t) |-> IF n = 0 THEN a ELSE s(n)]
          BY <4>1, <4>2
      <4> QED BY <4>3 DEF s
    <3> HIDE DEF Eq
    <3> QED BY <3>3
  <2>3. R[t] = w[Len(t)]
      BY DEF Meaningful, Counted
  <2> HIDE DEF w, a, R
  <2>4. LoopOver(V, F, a, t, w)
      BY <1>2, <2>1, <2>2 DEF LoopOver
  <2> QED BY <2>3, <2>4
<1>4. LoopResult(V, Tokens, F, a, R)
  <2> HIDE DEF a, R
  <2> QED BY <1>3 DEF LoopResult
<1>5. /\ R[<<>>] = a
      /\ \A s \in Seq(Tokens) : R[s] \in V
      /\ \A s \in Seq(Tokens), c \in Tokens : R[Append(s, c)] = F[<<R[s], c>>]
  <2> HIDE DEF a, R
  <2> QED BY <1>2, <1>4, LoopGoesOn
<1>6. <<>> \in Seq(Tokens) /\ \A s \in Seq(Tokens), c \in Tokens : Append(s, c) \in Seq(Tokens)
    BY EmptySeq, AppendProperties
<1> QED BY <1>2, <1>5, <1>6 DEF V

\* Position i of an object that goes on behind it holds a token of kind k.
Fits(i, k) == \/ i = 1 /\ k = "lbrace"
              \/ i % 4 = 2 /\ k = "string"
              \/ i % 4 = 3 /\ k = "colon"
              \/ i % 4 = 0 /\ k \in {"string", "number"}
              \/ i > 1 /\ i % 4 = 1 /\ k = "comma"

\* An object can end at position n.
MayEnd(n) == n = 2 \/ (n % 4 = 1 /\ n > 4)

\* The first n tokens of m are the start of an object that goes on.
Begins(m, n) == \A i \in 1..n : Fits(i, m[i].kind)

\* m is a flat object.
Flat(m) == MayEnd(Len(m)) /\ Begins(m, Len(m) - 1) /\ m[Len(m)].kind = "rbrace"

\* What the reader looks for tells how far in a pair it is.
Place(at, n) == \/ at = "open" /\ n = 0
                \/ at = "first" /\ n = 1
                \/ at = "colon" /\ n % 4 = 2
                \/ at = "value" /\ n % 4 = 3
                \/ at = "next" /\ n % 4 = 0 /\ n >= 4
                \/ at = "key" /\ n % 4 = 1 /\ n >= 5

\* The remainder by four, one further.
LEMMA NextOfFour ==
    ASSUME NEW n \in Nat
    PROVE  /\ n % 4 = 0 => (n + 1) % 4 = 1
           /\ n % 4 = 1 => (n + 1) % 4 = 2
           /\ n % 4 = 2 => (n + 1) % 4 = 3
           /\ n % 4 = 3 => (n + 1) % 4 = 0
OBVIOUS

\* The reader goes on, ends or fails as the next token does.
LEMMA NextPlace ==
    ASSUME NEW n \in Nat, NEW at, Place(at, n), NEW k \in Kinds \ {"space"}
    PROVE  LET to == NextAt(at, k)
           IN \/ to \notin {"end", "failed"} /\ Place(to, n + 1) /\ Fits(n + 1, k)
              \/ to = "end" /\ MayEnd(n + 1) /\ k = "rbrace"
              \/ to = "failed" /\ ~Fits(n + 1, k) /\ ~(MayEnd(n + 1) /\ k = "rbrace")
<1> DEFINE i == n + 1
           to == NextAt(at, k)
           Goal == \/ to \notin {"end", "failed"} /\ Place(to, i) /\ Fits(i, k)
                   \/ to = "end" /\ MayEnd(i) /\ k = "rbrace"
                   \/ to = "failed" /\ ~Fits(i, k) /\ ~(MayEnd(i) /\ k = "rbrace")
<1>1. ASSUME at = "open" PROVE Goal
  <2>1. i \in Nat /\ i = 1 /\ i % 4 = 1
      BY <1>1 DEF Place
  <2> HIDE DEF i
  <2>2. CASE k = "lbrace"
      BY <1>1, <2>1, <2>2 DEF NextAt, Place, Fits
  <2>3. CASE k # "lbrace"
    <3>1. to = "failed"
        BY <1>1, <2>3 DEF NextAt
    <3>2. ~Fits(i, k) /\ ~MayEnd(i)
        BY <2>1, <2>3 DEF Fits, MayEnd
    <3> HIDE DEF to
    <3> QED BY <3>1, <3>2
  <2> QED BY <2>2, <2>3
<1>2. ASSUME at = "first" PROVE Goal
  <2>1. i \in Nat /\ i = 2 /\ i % 4 = 2
      BY <1>2 DEF Place
  <2> HIDE DEF i
  <2>2. CASE k = "string"
      BY <1>2, <2>1, <2>2 DEF NextAt, Place, Fits
  <2>3. CASE k = "rbrace"
      BY <1>2, <2>1, <2>3 DEF NextAt, MayEnd
  <2>4. CASE k # "string" /\ k # "rbrace"
    <3>1. to = "failed"
        BY <1>2, <2>4 DEF NextAt
    <3>2. ~Fits(i, k)
        BY <2>1, <2>4 DEF Fits
    <3> HIDE DEF to
    <3> QED BY <2>4, <3>1, <3>2
  <2> QED BY <2>2, <2>3, <2>4
<1>3. ASSUME at = "key" PROVE Goal
  <2>1. i \in Nat /\ i > 4 /\ i % 4 = 2
      BY <1>3, NextOfFour DEF Place
  <2> HIDE DEF i
  <2>2. CASE k = "string"
      BY <1>3, <2>1, <2>2 DEF NextAt, Place, Fits
  <2>3. CASE k # "string"
    <3>1. to = "failed"
        BY <1>3, <2>3 DEF NextAt
    <3>2. ~Fits(i, k) /\ ~MayEnd(i)
        BY <2>1, <2>3 DEF Fits, MayEnd
    <3> HIDE DEF to
    <3> QED BY <3>1, <3>2
  <2> QED BY <2>2, <2>3
<1>4. ASSUME at = "colon" PROVE Goal
  <2>1. i \in Nat /\ i > 2 /\ i % 4 = 3
      BY <1>4, NextOfFour DEF Place
  <2> HIDE DEF i
  <2>2. CASE k = "colon"
      BY <1>4, <2>1, <2>2 DEF NextAt, Place, Fits
  <2>3. CASE k # "colon"
    <3>1. to = "failed"
        BY <1>4, <2>3 DEF NextAt
    <3>2. ~Fits(i, k) /\ ~MayEnd(i)
        BY <2>1, <2>3 DEF Fits, MayEnd
    <3> HIDE DEF to
    <3> QED BY <3>1, <3>2
  <2> QED BY <2>2, <2>3
<1>5. ASSUME at = "value" PROVE Goal
  <2>1. i \in Nat /\ i >= 4 /\ i % 4 = 0
      BY <1>5, NextOfFour DEF Place
  <2> HIDE DEF i
  <2>2. CASE k \in {"string", "number"}
      BY <1>5, <2>1, <2>2 DEF NextAt, Place, Fits
  <2>3. CASE k \notin {"string", "number"}
    <3>1. to = "failed"
        BY <1>5, <2>3 DEF NextAt
    <3>2. ~Fits(i, k) /\ ~MayEnd(i)
        BY <2>1, <2>3 DEF Fits, MayEnd
    <3> HIDE DEF to
    <3> QED BY <3>1, <3>2
  <2> QED BY <2>2, <2>3
<1>6. ASSUME at = "next" PROVE Goal
  <2>1. i \in Nat /\ i >= 5 /\ i % 4 = 1
      BY <1>6, NextOfFour DEF Place
  <2> HIDE DEF i
  <2>2. CASE k = "comma"
      BY <1>6, <2>1, <2>2 DEF NextAt, Place, Fits
  <2>3. CASE k = "rbrace"
      BY <1>6, <2>1, <2>3 DEF NextAt, MayEnd
  <2>4. CASE k # "comma" /\ k # "rbrace"
    <3>1. to = "failed"
        BY <1>6, <2>4 DEF NextAt
    <3>2. ~Fits(i, k)
        BY <2>1, <2>4 DEF Fits
    <3> HIDE DEF to
    <3> QED BY <2>4, <3>1, <3>2
  <2> QED BY <2>2, <2>3, <2>4
<1>7. at \in {"open", "first", "key", "colon", "value", "next"}
    BY DEF Place
<1>8. Goal
  <2> HIDE DEF Goal
  <2> QED BY <1>1, <1>2, <1>3, <1>4, <1>5, <1>6, <1>7
<1> HIDE DEF to
<1> QED BY <1>8 DEF to

\* The positions up to n of the keys w in m.
Pairs(m, n, w) == {i \in 1..n : i % 4 = 2 /\ m[i].kind = "string" /\ m[i].str = w}

\* v is the value of the last of these pairs, if there is one.
LastIs(m, n, w, v) == \/ Pairs(m, n, w) = {} /\ v = NoField
                      \/ \E i \in Pairs(m, n, w) : (\A j \in Pairs(m, n, w) : j <= i) /\ v = m[i + 2]

\* obj has the values of the pairs that are complete.
Knows(m, obj) == \A w \in Words : LastIs(m, Len(m) - 2, w, obj[w])

\* Some token makes every text that starts with m other than an object.
Broken(m) == \E k \in 1..Len(m) : /\ ~Fits(k, m[k].kind)
                                  /\ ~(k = Len(m) /\ MayEnd(k) /\ m[k].kind = "rbrace")

\* What the reader is in the middle of, has found, or has failed at, after m.
Follows(m, st) ==
    \/ /\ Place(st.at, Len(m)) /\ Begins(m, Len(m))
       /\ st.at = "colon" => st.key = m[Len(m)].str
       /\ st.at = "value" => st.key = m[Len(m) - 1].str
       /\ Knows(m, st.obj)
    \/ st.at = "end" /\ Flat(m) /\ Knows(m, st.obj)
    \/ st.at = "failed" /\ Broken(m)

\* The remainder of the position before.
LEMMA BeforeOfFour ==
    ASSUME NEW n \in Nat, n >= 1
    PROVE  (n - 1) % 4 = 2 <=> n % 4 = 3
OBVIOUS

\* A token that completes no pair changes no last value.
LEMMA KnowsSame ==
    ASSUME NEW m \in Seq(Tokens), NEW t \in Tokens, NEW obj, Knows(m, obj), Len(m) % 4 # 3
    PROVE  Knows(Append(m, t), obj)
<1> DEFINE u == Append(m, t)
           n == Len(m)
<1>1. n \in Nat /\ Len(u) = n + 1 /\ \A i \in 1..n : u[i] = m[i]
    BY LenProperties, AppendProperties
<1> HIDE DEF u
<1>2. (n + 1) - 2 = n - 1
    BY <1>1
<1>3. ASSUME NEW w \in Words PROVE LastIs(u, n - 1, w, obj[w])
  <2>1. LastIs(m, n - 2, w, obj[w])
      BY DEF Knows
  <2>2. Pairs(u, n - 1, w) = Pairs(m, n - 2, w)
    <3>1. ASSUME NEW i PROVE i \in Pairs(u, n - 1, w) <=> i \in Pairs(m, n - 2, w)
      <4>1. i \in 1..(n - 1) => i \in 1..(n - 2) \/ (i = n - 1 /\ n >= 1)
          BY <1>1
      <4>2. i \in 1..(n - 2) => i \in 1..(n - 1)
          BY <1>1
      <4>3. i \in 1..(n - 1) => u[i] = m[i]
          BY <1>1
      <4>4. i = n - 1 /\ n >= 1 => ~(i % 4 = 2)
          BY <1>1, BeforeOfFour
      <4> HIDE DEF n
      <4> QED BY <4>1, <4>2, <4>3, <4>4 DEF Pairs
    <3> QED BY <3>1
  <2>3. \A i \in Pairs(m, n - 2, w) : u[i + 2] = m[i + 2]
    <3> TAKE i \in Pairs(m, n - 2, w)
    <3>1. i \in 1..(n - 2)
        BY DEF Pairs
    <3>2. i + 2 \in 1..n
        BY <1>1, <3>1
    <3> QED BY <1>1, <3>2
  <2> HIDE DEF n
  <2> QED BY <2>1, <2>2, <2>3 DEF LastIs
<1>4. Len(u) - 2 = n - 1
    BY <1>1
<1>5. Knows(u, obj)
    BY <1>3, <1>4 DEF Knows
<1> QED BY <1>5 DEF u

\* A value completes the pair of its key.
LEMMA KnowsMore ==
    ASSUME NEW m \in Seq(Tokens), NEW t \in Tokens, NEW obj, Knows(m, obj), Len(m) % 4 = 3,
           NEW key, m[Len(m) - 1].kind = "string", m[Len(m) - 1].str = key
    PROVE  Knows(Append(m, t), [k \in Words |-> IF k = key THEN t ELSE obj[k]])
<1> DEFINE u == Append(m, t)
           n == Len(m)
           new == [k \in Words |-> IF k = key THEN t ELSE obj[k]]
<1>1. n \in Nat /\ Len(u) = n + 1 /\ u[n + 1] = t /\ \A i \in 1..n : u[i] = m[i]
    BY LenProperties, AppendProperties
<1>2. n >= 3 /\ (n - 1) % 4 = 2
  <2>1. n # 0 /\ n # 1 /\ n # 2
    <3>1. 0 % 4 # 3 /\ 1 % 4 # 3 /\ 2 % 4 # 3
        OBVIOUS
    <3> QED BY <3>1
  <2>2. n >= 3
      BY <1>1, <2>1
  <2> QED BY <1>1, <2>2, BeforeOfFour
<1> HIDE DEF u
<1>3. ASSUME NEW w \in Words PROVE LastIs(u, n - 1, w, new[w])
  <2>1. LastIs(m, n - 2, w, obj[w])
      BY DEF Knows
  <2>2. ASSUME NEW i PROVE i \in Pairs(u, n - 1, w) <=> i \in Pairs(m, n - 2, w) \/ (i = n - 1 /\ w = key)
    <3>1. i \in 1..(n - 1) <=> i \in 1..(n - 2) \/ i = n - 1
        BY <1>1, <1>2
    <3>2. i \in 1..(n - 1) => u[i] = m[i]
        BY <1>1
    <3>3. i = n - 1 => (i % 4 = 2 /\ m[i].kind = "string" /\ m[i].str = key)
        BY <1>2
    <3> HIDE DEF n
    <3> QED BY <3>1, <3>2, <3>3 DEF Pairs
  <2>3. CASE w = key
    <3>1. n - 1 \in Pairs(u, n - 1, w)
        BY <2>2, <2>3
    <3>2. \A j \in Pairs(u, n - 1, w) : j <= n - 1
        BY <1>1 DEF Pairs
    <3>3. (n - 1) + 2 = n + 1 /\ new[w] = t
        BY <1>1, <2>3
    <3>4. new[w] = u[(n - 1) + 2]
        BY <1>1, <3>3
    <3> HIDE DEF n, new
    <3> QED BY <3>1, <3>2, <3>4 DEF LastIs
  <2>4. CASE w # key
    <3>1. Pairs(u, n - 1, w) = Pairs(m, n - 2, w)
        BY <2>2, <2>4
    <3>2. \A i \in Pairs(m, n - 2, w) : u[i + 2] = m[i + 2]
      <4> TAKE i \in Pairs(m, n - 2, w)
      <4>1. i \in 1..(n - 2)
          BY DEF Pairs
      <4>2. i + 2 \in 1..n
          BY <1>1, <4>1
      <4> QED BY <1>1, <4>2
    <3>3. new[w] = obj[w]
        BY <2>4
    <3> HIDE DEF n, new
    <3> QED BY <2>1, <3>1, <3>2, <3>3 DEF LastIs
  <2> QED BY <2>3, <2>4
<1>4. Len(u) - 2 = n - 1
    BY <1>1
<1> HIDE DEF new
<1>5. Knows(u, new)
    BY <1>3, <1>4 DEF Knows
<1> QED BY <1>5 DEF u, new

\* The reader follows the text, token by token.
LEMMA FollowsStep ==
    ASSUME NEW m \in Seq(Tokens), NEW st \in ObjectStates, Follows(m, st), NEW t \in Tokens
    PROVE  Follows(Counted(m, t), ReadToken(st, t))
<1> DEFINE n == Len(m)
           u == Append(m, t)
           k == t.kind
           new == ReadToken(st, t)
           to == NextAt(st.at, k)
<1>1. /\ new \in ObjectStates
      /\ k = "space" => new = st
      /\ k # "space" =>
            /\ new.at = to
            /\ new.key = IF new.at = "colon" THEN t.str ELSE st.key
            /\ new.obj = IF new.at = "next" THEN [w \in Words |-> IF w = st.key THEN t ELSE st.obj[w]]
                         ELSE st.obj
    BY ReadTokenIs
<1>2. CASE k = "space"
    BY <1>1, <1>2 DEF Counted
<1>3. ASSUME k # "space" PROVE Follows(u, new)
  <2>1. n \in Nat /\ Len(u) = n + 1 /\ u[n + 1] = t /\ \A i \in 1..n : u[i] = m[i]
      BY LenProperties, AppendProperties
  <2>2. k \in Kinds \ {"space"}
      BY <1>3, TokensTyped
  <2> HIDE DEF u, new, k
  <2>3. /\ new.at = to
        /\ new.key = IF to = "colon" THEN t.str ELSE st.key
        /\ new.obj = IF to = "next" THEN [w \in Words |-> IF w = st.key THEN t ELSE st.obj[w]] ELSE st.obj
      BY <1>1, <1>3
  <2>4. CASE /\ Place(st.at, n) /\ Begins(m, n)
             /\ st.at = "colon" => st.key = m[n].str
             /\ st.at = "value" => st.key = m[n - 1].str
             /\ Knows(m, st.obj)
    <3>1. \/ to \notin {"end", "failed"} /\ Place(to, n + 1) /\ Fits(n + 1, k)
          \/ to = "end" /\ MayEnd(n + 1) /\ k = "rbrace"
          \/ to = "failed" /\ ~Fits(n + 1, k) /\ ~(MayEnd(n + 1) /\ k = "rbrace")
      <4> HIDE DEF n
      <4> QED BY <2>1, <2>2, <2>4, NextPlace
    <3>2. /\ to = "next" => st.at = "value"
          /\ to = "value" => st.at = "colon"
          /\ to \notin {"next", "failed"} => st.at # "value"
        BY DEF NextAt
    <3>3. st.at # "value" => n % 4 # 3
      <4>1. Place(st.at, n)
          BY <2>4
      <4> HIDE DEF n
      <4>2. 0 % 4 # 3 /\ 1 % 4 # 3
          OBVIOUS
      <4> QED BY <2>1, <4>1, <4>2 DEF Place
    <3>4. st.at # "value" => Knows(u, st.obj)
        BY <2>4, <3>3, KnowsSame DEF u
    <3>5. CASE to = "failed"
      <4>1. ~Fits(n + 1, k) /\ ~(MayEnd(n + 1) /\ k = "rbrace")
          BY <3>1, <3>5
      <4>2. n + 1 \in 1..Len(u)
          BY <2>1
      <4>3. Broken(u)
          BY <2>1, <4>1, <4>2 DEF Broken, k
      <4> QED BY <2>3, <3>5, <4>3 DEF Follows
    <3>6. CASE to = "end"
      <4>1. MayEnd(n + 1) /\ k = "rbrace" /\ Knows(u, st.obj) /\ new.obj = st.obj
          BY <2>3, <3>1, <3>2, <3>4, <3>6
      <4>2. Len(u) = n + 1 /\ Len(u) - 1 = n
          BY <2>1
      <4>3. Begins(u, n)
          BY <2>1, <2>4 DEF Begins
      <4>4. Flat(u)
          BY <2>1, <4>1, <4>2, <4>3 DEF Flat, k
      <4> QED BY <2>3, <3>6, <4>1, <4>4 DEF Follows
    <3>7. CASE to \notin {"end", "failed"}
      <4>1. Place(to, n + 1) /\ Fits(n + 1, k)
          BY <3>1, <3>7
      <4>2. Begins(u, n + 1)
        <5>1. ASSUME NEW i \in 1..(n + 1) PROVE Fits(i, u[i].kind)
          <6>1. CASE i \in 1..n
              BY <2>1, <2>4, <6>1 DEF Begins
          <6>2. CASE i = n + 1
              BY <2>1, <4>1, <6>2 DEF k
          <6>3. i \in 1..n \/ i = n + 1
              BY <2>1
          <6> QED BY <6>1, <6>2, <6>3
        <5> QED BY <5>1 DEF Begins
      <4>3. new.at = "colon" => new.key = u[Len(u)].str
          BY <2>1, <2>3
      <4>4. new.at = "value" => new.key = u[Len(u) - 1].str
        <5> SUFFICES ASSUME new.at = "value" PROVE new.key = u[Len(u) - 1].str
            OBVIOUS
        <5>1. st.at = "colon" /\ new.key = st.key /\ st.key = m[n].str
            BY <2>3, <2>4, <3>2
        <5>2. n # 0
            BY <2>4, <5>1 DEF Place
        <5>3. Len(u) - 1 = n /\ n \in 1..n
            BY <2>1, <5>2
        <5> QED BY <2>1, <5>1, <5>3
      <4>5. Knows(u, new.obj)
        <5>1. CASE to = "next"
          <6>1. st.at = "value" /\ n % 4 = 3 /\ st.key = m[n - 1].str
              BY <2>4, <3>2, <5>1 DEF Place
          <6>2. m[n - 1].kind = "string"
            <7>1. n >= 1
              <8>1. n # 0
                <9>1. 0 % 4 # 3
                    OBVIOUS
                <9> QED BY <6>1, <9>1
              <8> QED BY <2>1, <8>1
            <7>2. (n - 1) % 4 = 2
                BY <2>1, <6>1, <7>1, BeforeOfFour
            <7> DEFINE p == n - 1
            <7>3. p \in Int /\ p % 4 = 2 /\ (p = 0 \/ p \in 1..n)
                BY <2>1, <7>1, <7>2
            <7> HIDE DEF p
            <7>4. p # 0
              <8>1. 0 % 4 # 2
                  OBVIOUS
              <8> QED BY <7>3, <8>1
            <7>5. Fits(p, m[p].kind)
                BY <2>4, <7>3, <7>4 DEF Begins
            <7>6. m[p].kind = "string"
              <8>1. p # 1
                <9>1. 1 % 4 # 2
                    OBVIOUS
                <9> QED BY <7>3, <9>1
              <8> QED BY <7>3, <7>5, <8>1 DEF Fits
            <7> QED BY <7>6 DEF p
          <6>3. new.obj = [w \in Words |-> IF w = st.key THEN t ELSE st.obj[w]]
              BY <2>3, <5>1
          <6>4. Knows(m, st.obj)
              BY <2>4
          <6>5. Knows(u, [w \in Words |-> IF w = st.key THEN t ELSE st.obj[w]])
            <7> DEFINE obj == st.obj
                       key == st.key
            <7>1. Knows(m, obj) /\ m[Len(m) - 1].str = key
                BY <6>1, <6>4
            <7> HIDE DEF obj, key
            <7>2. Knows(u, [w \in Words |-> IF w = key THEN t ELSE obj[w]])
                BY <6>1, <6>2, <7>1, KnowsMore DEF u
            <7> QED BY <7>2 DEF obj, key
          <6> QED BY <6>3, <6>5
        <5>2. CASE to # "next"
            BY <2>3, <3>2, <3>4, <3>7, <5>2
        <5> QED BY <5>1, <5>2
      <4> HIDE DEF to
      <4> QED BY <2>1, <2>3, <4>1, <4>2, <4>3, <4>4, <4>5 DEF Follows
    <3> QED BY <3>5, <3>6, <3>7
  <2>5. CASE st.at = "end" /\ Flat(m)
    <3>1. to = "failed"
        BY <2>5 DEF NextAt
    <3>2. MayEnd(n) /\ m[n].kind = "rbrace"
        BY <2>5 DEF Flat
    <3>3. n # 0
      <4>1. 0 % 4 # 1
          OBVIOUS
      <4> HIDE DEF n
      <4> QED BY <2>1, <3>2, <4>1 DEF MayEnd
    <3>4. n \in 1..Len(u) /\ n # Len(u) /\ u[n] = m[n]
        BY <2>1, <3>3
    <3>5. ~Fits(n, "rbrace")
        BY DEF Fits
    <3>6. Broken(u)
        BY <3>2, <3>4, <3>5 DEF Broken
    <3> QED BY <2>3, <3>1, <3>6 DEF Follows
  <2>6. CASE st.at = "failed" /\ Broken(m)
    <3>1. to = "failed"
        BY <2>6 DEF NextAt
    <3>2. PICK i \in 1..n : ~Fits(i, m[i].kind)
        BY <2>6 DEF Broken
    <3>3. i \in 1..Len(u) /\ i # Len(u) /\ u[i] = m[i]
        BY <2>1
    <3>4. Broken(u)
        BY <3>2, <3>3 DEF Broken
    <3> QED BY <2>3, <3>1, <3>4 DEF Follows
  <2> QED BY <2>4, <2>5, <2>6 DEF Follows
<1> QED BY <1>2, <1>3 DEF Counted

\* So it does over every payload.
LEMMA ReaderFollows ==
    \A s \in Seq(Tokens) : Meaningful(s) \in Seq(Tokens) /\ Follows(Meaningful(s), ParseFlatObject(s))
<1> DEFINE T == {s \in Seq(Tokens) : Follows(Meaningful(s), ParseFlatObject(s))}
           start == [at |-> "open", key |-> "", obj |-> [w \in Words |-> NoField]]
<1>1. <<>> \in T
  <2>1. <<>> \in Seq(Tokens) /\ Len(<<>>) = 0 /\ Meaningful(<<>>) = <<>> /\ ParseFlatObject(<<>>) = start
      BY EmptySeq, MeaningfulGoesOn, ParseFlatObjectGoesOn
  <2>2. \A w \in Words : Pairs(<<>>, 0 - 2, w) = {} /\ start.obj[w] = NoField
      BY DEF Pairs
  <2>3. Knows(<<>>, start.obj)
      BY <2>1, <2>2 DEF Knows, LastIs
  <2>4. Place("open", 0) /\ Begins(<<>>, 0)
      BY DEF Place, Begins
  <2>5. Follows(<<>>, start)
      BY <2>1, <2>3, <2>4 DEF Follows
  <2> QED BY <2>1, <2>5
<1>2. ASSUME NEW s \in Seq(Tokens), NEW t \in Tokens, s \in T PROVE Append(s, t) \in T
  <2>1. /\ Meaningful(s) \in Seq(Tokens) /\ ParseFlatObject(s) \in ObjectStates
        /\ Meaningful(Append(s, t)) = Counted(Meaningful(s), t)
        /\ ParseFlatObject(Append(s, t)) = ReadToken(ParseFlatObject(s), t)
        /\ Append(s, t) \in Seq(Tokens)
      BY MeaningfulGoesOn, ParseFlatObjectGoesOn, AppendProperties
  <2> QED BY <1>2, <2>1, FollowsStep
<1>3. Seq(Tokens) \subseteq T
  <2> HIDE DEF T
  <2> QED BY <1>1, <1>2, TextInduction
<1> QED BY <1>3, MeaningfulGoesOn

\* The grammar, position by position.
LEMMA IsFlatObjectIs == line \in Seq(Tokens) => (IsFlatObject <=> Flat(Meaningful(line)))
<1> SUFFICES ASSUME line \in Seq(Tokens) PROVE IsFlatObject <=> Flat(Meaningful(line))
    OBVIOUS
<1> DEFINE m == Meaningful(line)
           n == Len(m)
           Pattern(i) == CASE i % 4 = 2 -> m[i].kind = "string"
                           [] i % 4 = 3 -> m[i].kind = "colon"
                           [] i % 4 = 0 -> m[i].kind \in {"string", "number"}
                           [] i % 4 = 1 -> m[i].kind = "comma"
<1>1. m \in Seq(Tokens) /\ n \in Nat
    BY ReaderFollows, LenProperties
<1>2. IsFlatObject <=> /\ MayEnd(n)
                       /\ m[1].kind = "lbrace" /\ m[n].kind = "rbrace"
                       /\ \A i \in 2..(n - 1) : Pattern(i)
    BY DEF IsFlatObject, MayEnd
<1>3. Flat(m) <=> MayEnd(n) /\ Begins(m, n - 1) /\ m[n].kind = "rbrace"
    BY DEF Flat
<1> HIDE DEF n, Pattern, m
<1>4. ASSUME NEW i \in Nat, i >= 2 PROVE Pattern(i) <=> Fits(i, m[i].kind)
  <2> DEFINE r == i % 4
             k == m[i].kind
  <2>1. r \in 0..3
      BY Division
  <2>2. Pattern(i) <=> CASE r = 2 -> k = "string"
                         [] r = 3 -> k = "colon"
                         [] r = 0 -> k \in {"string", "number"}
                         [] r = 1 -> k = "comma"
      BY DEF Pattern
  <2>3. Fits(i, k) <=> \/ i = 1 /\ k = "lbrace"
                       \/ r = 2 /\ k = "string"
                       \/ r = 3 /\ k = "colon"
                       \/ r = 0 /\ k \in {"string", "number"}
                       \/ i > 1 /\ r = 1 /\ k = "comma"
      BY DEF Fits
  <2>4. i # 1 /\ i > 1
      BY <1>4
  <2> HIDE DEF r, k
  <2>5. r = 0 \/ r = 1 \/ r = 2 \/ r = 3
      BY <2>1
  <2>6. CASE r = 0
    <3>1. r # 1 /\ r # 2 /\ r # 3
        BY <2>6
    <3>2. Pattern(i) <=> k \in {"string", "number"}
        BY <2>2, <2>6, <3>1
    <3> QED BY <2>3, <2>4, <2>6, <3>1, <3>2 DEF k
  <2>7. CASE r = 1
    <3>1. r # 0 /\ r # 2 /\ r # 3
        BY <2>7
    <3>2. Pattern(i) <=> k = "comma"
        BY <2>2, <2>7, <3>1
    <3> QED BY <2>3, <2>4, <2>7, <3>1, <3>2 DEF k
  <2>8. CASE r = 2
    <3>1. r # 0 /\ r # 1 /\ r # 3
        BY <2>8
    <3>2. Pattern(i) <=> k = "string"
        BY <2>2, <2>8, <3>1
    <3> QED BY <2>3, <2>4, <2>8, <3>1, <3>2 DEF k
  <2>9. CASE r = 3
    <3>1. r # 0 /\ r # 1 /\ r # 2
        BY <2>9
    <3>2. Pattern(i) <=> k = "colon"
        BY <2>2, <2>9, <3>1
    <3> QED BY <2>3, <2>4, <2>9, <3>1, <3>2 DEF k
  <2> QED BY <2>5, <2>6, <2>7, <2>8, <2>9
<1>5. Fits(1, m[1].kind) <=> m[1].kind = "lbrace"
  <2>1. 1 % 4 # 2 /\ 1 % 4 # 3 /\ 1 % 4 # 0 /\ ~(1 > 1)
      OBVIOUS
  <2> QED BY <2>1 DEF Fits
<1>6. ASSUME MayEnd(n)
      PROVE  Begins(m, n - 1) <=> m[1].kind = "lbrace" /\ \A i \in 2..(n - 1) : Pattern(i)
  <2>1. n >= 2
      BY <1>1, <1>6 DEF MayEnd
  <2>2. \A i : i \in 1..(n - 1) <=> i = 1 \/ (i \in 2..(n - 1) /\ i \in Nat /\ i >= 2)
      BY <1>1, <2>1
  <2>3. \A i \in 2..(n - 1) : i \in Nat /\ i >= 2
      BY <1>1
  <2> QED BY <1>4, <1>5, <2>2, <2>3 DEF Begins
<1> QED BY <1>2, <1>3, <1>6 DEF m

\* The reader ends exactly behind the flat objects.
LEMMA EndsAtObjects ==
    ASSUME NEW m \in Seq(Tokens), NEW st \in ObjectStates, Follows(m, st)
    PROVE  /\ st.at = "end" <=> Flat(m)
           /\ st.at = "end" => Knows(m, st.obj)
<1> DEFINE n == Len(m)
<1>1. n \in Nat
    BY LenProperties
<1>2. \A i : ~Fits(i, "rbrace")
    BY DEF Fits
<1>3. Flat(m) => n >= 1
  <2>1. 0 % 4 # 1
      OBVIOUS
  <2>2. Flat(m) => MayEnd(n)
      BY DEF Flat
  <2> HIDE DEF n
  <2>3. MayEnd(n) => n >= 1
      BY <1>1 DEF MayEnd
  <2> QED BY <2>2, <2>3
<1>4. CASE /\ Place(st.at, n) /\ Begins(m, n)
  <2>1. st.at # "end"
      BY <1>4 DEF Place
  <2>2. ~Flat(m)
    <3> SUFFICES ASSUME Flat(m) PROVE FALSE
        OBVIOUS
    <3>1. n \in 1..n /\ m[n].kind = "rbrace"
        BY <1>1, <1>3 DEF Flat
    <3> QED BY <1>2, <1>4, <3>1 DEF Begins
  <2> QED BY <2>1, <2>2
<1>5. CASE st.at = "end" /\ Flat(m) /\ Knows(m, st.obj)
    BY <1>5
<1>6. CASE st.at = "failed" /\ Broken(m)
  <2>1. PICK i \in 1..n : ~Fits(i, m[i].kind) /\ ~(i = n /\ MayEnd(i) /\ m[i].kind = "rbrace")
      BY <1>6 DEF Broken
  <2>2. ~Flat(m)
    <3> SUFFICES ASSUME Flat(m) PROVE FALSE
        OBVIOUS
    <3>1. i # n
        BY <2>1 DEF Flat
    <3>2. i \in 1..(n - 1)
        BY <1>1, <3>1
    <3> QED BY <2>1, <3>2 DEF Flat, Begins
  <2> QED BY <1>6, <2>2
<1> QED BY <1>4, <1>5, <1>6 DEF Follows

\* What the reader knows of a flat object is the value of the last pair of each key.
LEMMA LastOfPairs ==
    ASSUME NEW m \in Seq(Tokens), Flat(m), NEW w, NEW v, LastIs(m, Len(m) - 2, w, v)
    PROVE  LET pairs == {i \in DOMAIN m : i % 4 = 2 /\ m[i].kind = "string" /\ m[i].str = w}
           IN v = IF pairs = {} THEN NoField ELSE m[Max(pairs) + 2]
<1> DEFINE n == Len(m)
           pairs == {i \in DOMAIN m : i % 4 = 2 /\ m[i].kind = "string" /\ m[i].str = w}
<1>1. n \in Nat /\ DOMAIN m = 1..n
    BY LenProperties
<1>2. MayEnd(n) /\ m[n].kind = "rbrace"
    BY DEF Flat
<1>3. pairs = Pairs(m, n - 2, w)
  <2>1. ASSUME NEW i \in 1..n, i % 4 = 2, m[i].kind = "string" PROVE i \in 1..(n - 2)
    <3>1. i # n
        BY <1>2, <2>1
    <3>2. CASE n = 2
      <4>1. i = 1
          BY <3>1, <3>2
      <4>2. 1 % 4 # 2
          OBVIOUS
      <4> QED BY <2>1, <4>1, <4>2
    <3>3. CASE n % 4 = 1 /\ n > 4
      <4>1. i # n - 1
        <5> SUFFICES ASSUME i = n - 1 PROVE FALSE
            OBVIOUS
        <5>1. n - 1 >= 1 /\ n - 1 \in Nat
            BY <1>1, <3>3
        <5> HIDE DEF n
        <5>2. (n - 1) % 4 = 0
            BY <1>1, <3>3, <5>1
        <5>3. (n - 1) % 4 = 2
            BY <2>1
        <5> QED BY <1>1, <5>1, <5>2, <5>3
      <4> HIDE DEF n
      <4> QED BY <1>1, <3>1, <4>1
    <3> QED BY <1>2, <3>2, <3>3 DEF MayEnd
  <2>2. \A i \in 1..(n - 2) : i \in 1..n
      BY <1>1
  <2> HIDE DEF n
  <2> QED BY <1>1, <2>1, <2>2 DEF Pairs
<1>4. pairs \subseteq Int
    BY <1>1
<1> HIDE DEF pairs
<1>5. CASE pairs = {}
    BY <1>3, <1>5 DEF LastIs, pairs
<1>6. CASE pairs # {}
  <2>1. PICK i \in pairs : (\A j \in pairs : j <= i) /\ v = m[i + 2]
      BY <1>3, <1>6 DEF LastIs
  <2>2. Max(pairs) = i
      BY <1>4, <2>1, MaxIs
  <2> QED BY <1>6, <2>1, <2>2 DEF pairs
<1> QED BY <1>5, <1>6

\* A message is what the reader found, if that has a type.
LEMMA MessageIs ==
    ASSUME NEW s
    PROVE  LET st == ParseFlatObject(s)
               type == IF st.at = "end" THEN TypeOf(st.obj) ELSE "error"
           IN /\ ParseInbound(s).type = type
              /\ \A f \in Fields : ParseInbound(s).fields[f]
                                     = IF type = "error" THEN Absent ELSE ReadField(f, st.obj[f])
BY DEF ParseInbound

\* Exactly the objects with a string under "type" have one.
LEMMA TypeKnown ==
    ASSUME NEW obj
    PROVE  TypeOf(obj) = "error" <=> obj["type"].kind # "string"
<1>1. CASE obj["type"].kind # "string"
    BY <1>1 DEF TypeOf
<1>2. CASE obj["type"].kind = "string"
  <2>1. TypeOf(obj) \in {"NewOrder", "Cancel", "Heartbeat", "Unknown"}
      BY <1>2 DEF TypeOf
  <2> QED BY <1>2, <2>1
<1> QED BY <1>1, <1>2

\* For every set of words and of numbers and every length of payload: the reader
\* accepts exactly the flat objects, and the message is what the last pair with each
\* key says, or an error that names nothing.
LEMMA MessageExactPayload ==
    ASSUME line \in Seq(Tokens)
    PROVE  MessageExact
<1> DEFINE m == Meaningful(line)
           st == ParseFlatObject(line)
           P(key) == {i \in DOMAIN m : i % 4 = 2 /\ m[i].kind = "string" /\ m[i].str = key}
           last(key) == IF P(key) = {} THEN NoField ELSE m[Max(P(key)) + 2]
           in == ParseInbound(line)
<1>1. /\ m \in Seq(Tokens) /\ Follows(m, st) /\ st \in ObjectStates
      /\ IsFlatObject <=> Flat(m)
    BY ReaderFollows, ParseFlatObjectGoesOn, IsFlatObjectIs
<1>2. (st.at = "end" <=> Flat(m)) /\ (st.at = "end" => Knows(m, st.obj))
  <2> HIDE DEF m, st
  <2> QED BY <1>1, EndsAtObjects
<1>3. AcceptsExactly
    BY <1>1, <1>2 DEF AcceptsExactly
<1>4. FieldsExact <=>
        IF IsFlatObject /\ last("type").kind = "string"
        THEN in.type # "error" /\ \A f \in Fields : in.fields[f] = ReadField(f, last(f))
        ELSE in.type = "error" /\ \A f \in Fields : ~in.fields[f].has
    BY DEF FieldsExact
<1> DEFINE type == IF st.at = "end" THEN TypeOf(st.obj) ELSE "error"
<1>5. /\ in.type = type
      /\ \A f \in Fields : in.fields[f] = IF type = "error" THEN Absent ELSE ReadField(f, st.obj[f])
    BY MessageIs
<1>6. ASSUME Flat(m), NEW w \in Words PROVE st.obj[w] = last(w)
  <2>1. LastIs(m, Len(m) - 2, w, st.obj[w])
      BY <1>2, <1>6 DEF Knows
  <2> DEFINE v == st.obj[w]
  <2>2. LastIs(m, Len(m) - 2, w, v)
      BY <2>1
  <2> HIDE DEF m, v
  <2>3. v = last(w)
      BY <1>1, <1>6, <2>2, LastOfPairs
  <2> QED BY <2>3 DEF v
<1> HIDE DEF m, st, last, in
<1>7. "type" \in Words /\ Fields \subseteq Words
    BY PayloadAssumption
<1>8. Absent.has = FALSE
    BY DEF Absent
<1>9. CASE IsFlatObject /\ last("type").kind = "string"
  <2>1. st.at = "end" /\ st.obj["type"].kind = "string"
      BY <1>1, <1>2, <1>6, <1>7, <1>9
  <2>2. type # "error"
      BY <2>1, TypeKnown
  <2>3. \A f \in Fields : in.fields[f] = ReadField(f, last(f))
      BY <1>1, <1>5, <1>6, <1>7, <1>9, <2>2
  <2> HIDE DEF type
  <2> QED BY <1>3, <1>4, <1>5, <1>9, <2>2, <2>3 DEF MessageExact
<1>10. CASE ~(IsFlatObject /\ last("type").kind = "string")
  <2>1. type = "error"
    <3>1. CASE st.at # "end"
        BY <3>1
    <3>2. CASE st.at = "end"
      <4>1. st.obj["type"].kind # "string"
          BY <1>1, <1>2, <1>6, <1>7, <1>10, <3>2
      <4> QED BY <3>2, <4>1, TypeKnown
    <3> QED BY <3>1, <3>2
  <2> HIDE DEF type
  <2>2. \A f \in Fields : ~in.fields[f].has
      BY <1>5, <1>8, <2>1
  <2> QED BY <1>3, <1>4, <1>5, <1>10, <2>1, <2>2 DEF MessageExact
<1> QED BY <1>9, <1>10

\* Every payload of every behaviour becomes the message that it states, or none.
THEOREM MessagesAreExact == WireSpec => []MessageExact
<1>1. WireTypes => MessageExact
    BY MessageExactPayload DEF WireTypes
<1> QED BY <1>1, WireTypesInvariant, PTL
=============================================================================
