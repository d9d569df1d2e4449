-------------------------- MODULE VenueClientProofs --------------------------
(***************************************************************************)
(* wait_for gets the next message of its type, no future is left behind,   *)
(* close() ends the receive task, and handlers are called in order, for    *)
(* any callers, message types, handlers and number of messages.            *)
(*                                                                         *)
(* WaitersExact is inductive: a future that waits is listed, so the next   *)
(* message of its type resolves it, and WaiterGetsNext follows with what   *)
(* CallsOK says of a call's record. QuietAfterClose needs to know how far  *)
(* close() has come when the task ends (CloseOK). DispatchInOrder follows  *)
(* from an invariant of its own: the calls made, together with those the   *)
(* suspended dispatch still has to make, are the calls of all messages.    *)
(* TaskEndsForCause rests on all of these.                                 *)
(***************************************************************************)
EXTENDS VenueClient, SequenceTheorems, WellFoundedInduction, TLAPS

USE FramesAssumption, WaitsAssumption

WaitForCall == [pc : {"idle", "waiting", "resolved", "timedout", "returned"},
                type : Types \cup {"*"}, since : Nat, got : Nat]

\* A call remembers no message from the future, and has none before its future
\* is resolved.
CallsOK ==
    /\ waiters \in [Types -> Seq(Callers)]
    /\ call \in [Callers -> WaitForCall]
    /\ \A c \in Callers : call[c].since <= Len(read)
    /\ \A c \in Callers : call[c].pc \in {"idle", "waiting", "timedout"} => call[c].got = NoMessage

\* Only close() cancels the task, and goes on when the task it cancelled is over.
CloseOK ==
    /\ closer \in {"idle", "joining", "closing", "returned"}
    /\ cancelled \in BOOLEAN /\ closed \in BOOLEAN
    /\ transport \in {"open", "closing", "lost"}
    /\ closer = "idle" => ~cancelled
    /\ cancelled => task # "none"
    /\ closer = "closing" => (cancelled => task = "done")

IInv == WaitersExact /\ WaiterGetsNext /\ QuietAfterClose /\ CallsOK /\ CloseOK

-----------------------------------------------------------------------------
(***************************************************************************)
(* The waiter lists.                                                       *)
(***************************************************************************)
\* Min of a set of naturals with a member is one of them.
LEMMA MinInSet ==
    ASSUME NEW S, S \subseteq Nat, S # {}
    PROVE  Min(S) \in S
<1>1. PICK x \in S : \A y \in S : <<y, x>> \notin OpToRel(<, Nat)
    BY NatLessThanWellFounded, WFMin
<1>2. ASSUME NEW y \in S PROVE x <= y
  <2>1. x \in Nat /\ y \in Nat /\ ~(y < x)
      BY <1>1 DEF OpToRel
  <2> QED BY <2>1
<1> QED BY <1>2 DEF Min

\* Appending a caller that is not listed keeps the list free of repetitions.
LEMMA AppendFacts ==
    ASSUME NEW S, NEW s \in Seq(S), NEW e \in S, IsInjective(s), ~Contains(s, e)
    PROVE  /\ Append(s, e) \in Seq(S) /\ IsInjective(Append(s, e))
           /\ \A d \in S : Contains(Append(s, e), d) <=> Contains(s, d) \/ d = e
<1> DEFINE r == Append(s, e)
<1>1. r \in Seq(S) /\ Len(r) = Len(s) + 1 /\ Len(s) \in Nat
    OBVIOUS
<1>2. \A i \in 1..Len(s) : r[i] = s[i] /\ i \in 1..Len(r)
    OBVIOUS
<1>3. r[Len(s) + 1] = e
    OBVIOUS
<1>4. \A i \in 1..Len(r) : i \in 1..Len(s) \/ i = Len(s) + 1
    BY <1>1
<1>5. DOMAIN s = 1..Len(s) /\ DOMAIN r = 1..Len(r)
    OBVIOUS
<1>6. Len(s) + 1 \in 1..Len(r)
    BY <1>1
<1> HIDE DEF r
<1>7. ASSUME NEW i \in DOMAIN r, NEW j \in DOMAIN r, r[i] = r[j] PROVE i = j
    BY <1>2, <1>3, <1>4, <1>5, <1>7 DEF IsInjective, Contains
<1>8. IsInjective(r)
    BY <1>7 DEF IsInjective
<1>9. ASSUME NEW d \in S PROVE Contains(r, d) <=> Contains(s, d) \/ d = e
    BY <1>1, <1>2, <1>3, <1>4, <1>6 DEF Contains
<1> QED BY <1>1, <1>8, <1>9 DEF r

\* One entry less, the later ones move down.
LEMMA RemoveAtEntries ==
    ASSUME NEW T, NEW v \in Seq(T), NEW i \in 1..Len(v)
    PROVE  /\ RemoveAt(v, i) \in Seq(T) /\ Len(RemoveAt(v, i)) = Len(v) - 1
           /\ \A j \in 1..(Len(v) - 1) : RemoveAt(v, i)[j] = IF j < i THEN v[j] ELSE v[j + 1]
<1> DEFINE n == Len(v)
           front == SubSeq(v, 1, i - 1)
           back  == SubSeq(v, i + 1, n)
<1>1. n \in Nat /\ i \in Nat /\ i >= 1 /\ i <= n /\ \A j \in 1..n : v[j] \in T
    BY LenProperties, ElementOfSeq
<1>2. front \in Seq(T) /\ Len(front) = i - 1 /\ \A j \in 1..(i - 1) : front[j] = v[j]
  <2>1. \A j \in 1..(i - 1) : v[j] \in T
      BY <1>1
  <2>2. /\ front \in Seq(T) /\ Len(front) = (IF 1 <= i - 1 THEN (i - 1) - 1 + 1 ELSE 0)
        /\ \A j \in 1..((i - 1) - 1 + 1) : front[j] = v[1 + j - 1]
      BY <1>1, <2>1, SubSeqProperties, 1 \in Int, i - 1 \in Int
  <2> HIDE DEF front
  <2>3. Len(front) = i - 1
      BY <1>1, <2>2
  <2>4. ASSUME NEW j \in 1..(i - 1) PROVE front[j] = v[j]
    <3>1. j \in 1..((i - 1) - 1 + 1) /\ 1 + j - 1 = j
        BY <1>1
    <3> QED BY <2>2, <3>1
  <2> QED BY <2>2, <2>3, <2>4
<1>3. back \in Seq(T) /\ Len(back) = n - i /\ \A j \in 1..(n - i) : back[j] = v[i + j]
  <2>1. \A j \in (i + 1)..n : v[j] \in T
      BY <1>1
  <2>2. /\ back \in Seq(T) /\ Len(back) = (IF i + 1 <= n THEN n - (i + 1) + 1 ELSE 0)
        /\ \A j \in 1..(n - (i + 1) + 1) : back[j] = v[(i + 1) + j - 1]
      BY <1>1, <2>1, SubSeqProperties, i + 1 \in Int, n \in Int
  <2> HIDE DEF back
  <2>3. Len(back) = n - i
      BY <1>1, <2>2
  <2>4. ASSUME NEW j \in 1..(n - i) PROVE back[j] = v[i + j]
    <3>1. j \in 1..(n - (i + 1) + 1) /\ (i + 1) + j - 1 = i + j
        BY <1>1
    <3> QED BY <2>2, <3>1
  <2> QED BY <2>2, <2>3, <2>4
<1> HIDE DEF front, back
<1>4. RemoveAt(v, i) = front \o back
    BY DEF RemoveAt, front, back
<1>5. /\ front \o back \in Seq(T) /\ Len(front \o back) = Len(front) + Len(back)
      /\ \A j \in 1..(Len(front) + Len(back)) :
            (front \o back)[j] = IF j <= Len(front) THEN front[j] ELSE back[j - Len(front)]
    BY <1>2, <1>3, ConcatProperties
<1>6. Len(front) + Len(back) = n - 1
    BY <1>1, <1>2, <1>3
<1>7. ASSUME NEW j \in 1..(n - 1)
      PROVE  (front \o back)[j] = IF j < i THEN v[j] ELSE v[j + 1]
  <2>1. (front \o back)[j] = IF j <= i - 1 THEN front[j] ELSE back[j - (i - 1)]
      BY <1>2, <1>5, <1>6
  <2>2. CASE j < i
    <3>1. j <= i - 1 /\ j \in 1..(i - 1)
        BY <1>1, <2>2
    <3> QED BY <1>2, <2>1, <2>2, <3>1
  <2>3. CASE ~(j < i)
    <3>1. ~(j <= i - 1) /\ j - (i - 1) \in 1..(n - i) /\ i + (j - (i - 1)) = j + 1
        BY <1>1, <2>3
    <3> QED BY <1>3, <2>1, <2>3, <3>1
  <2> QED BY <2>2, <2>3
<1> QED BY <1>4, <1>5, <1>6, <1>7

\* remove() takes one entry off a list without repetitions: that caller's.
LEMMA RemoveFirstFacts ==
    ASSUME NEW S, NEW s \in Seq(S), NEW e \in S, IsInjective(s)
    PROVE  /\ RemoveFirst(s, e) \in Seq(S) /\ IsInjective(RemoveFirst(s, e))
           /\ \A d \in S : Contains(RemoveFirst(s, e), d) <=> Contains(s, d) /\ d # e
<1>1. CASE ~Contains(s, e)
    BY <1>1 DEF RemoveFirst, Contains
<1>2. CASE Contains(s, e)
  <2> DEFINE I == {i \in 1..Len(s) : s[i] = e}
             k == Min(I)
             r == RemoveAt(s, k)
  <2>1. RemoveFirst(s, e) = r
    <3>1. I # {} /\ RemoveFirst(s, e) = RemoveAt(s, SelectInSeq(s, LAMBDA v : v = e))
        BY <1>2 DEF RemoveFirst, Contains
    <3>2. SelectInSeq(s, LAMBDA v : v = e) = k
        BY <3>1 DEF SelectInSeq
    <3> QED BY <3>1, <3>2
  <2>2. k \in I
    <3>1. I # {} /\ I \subseteq Nat
        BY <1>2 DEF Contains
    <3> HIDE DEF I
    <3> QED BY <3>1, MinInSet
  <2> HIDE DEF k
  <2>3. k \in 1..Len(s) /\ s[k] = e /\ Len(s) \in Nat
      BY <2>2
  <2>4. r \in Seq(S) /\ Len(r) = Len(s) - 1
      BY <2>3, RemoveAtEntries
  <2>5. \A i \in 1..Len(r) : r[i] = IF i < k THEN s[i] ELSE s[i + 1]
      BY <2>3, <2>4, RemoveAtEntries
  <2>6. DOMAIN s = 1..Len(s) /\ DOMAIN r = 1..Len(r)
      BY <2>4
  <2> HIDE DEF r
  <2> DEFINE at(i) == IF i < k THEN i ELSE i + 1
  <2>7. \A i \in 1..Len(r) : r[i] = s[at(i)] /\ at(i) \in 1..Len(s) /\ at(i) # k
      BY <2>3, <2>4, <2>5
  <2>8. \A i, j \in 1..Len(r) : at(i) = at(j) => i = j
      BY <2>3
  <2>9. \A m \in 1..Len(s) : m # k => \E i \in 1..Len(r) : at(i) = m
    <3> SUFFICES ASSUME NEW m \in 1..Len(s), m # k PROVE \E i \in 1..Len(r) : at(i) = m
        OBVIOUS
    <3>1. CASE m < k
        BY <3>1, <2>3, <2>4
    <3>2. CASE m > k
      <4>1. m - 1 \in 1..Len(r) /\ at(m - 1) = m
          BY <3>2, <2>3, <2>4
      <4> QED BY <4>1
    <3> QED BY <3>1, <3>2, <2>3
  <2> HIDE DEF at
  <2>10. IsInjective(r)
      BY <2>6, <2>7, <2>8 DEF IsInjective
  <2>11. \A d \in S : Contains(r, d) <=> Contains(s, d) /\ d # e
    <3> SUFFICES ASSUME NEW d \in S PROVE Contains(r, d) <=> Contains(s, d) /\ d # e
        OBVIOUS
    <3>1. ASSUME Contains(r, d) PROVE Contains(s, d) /\ d # e
      <4>1. PICK i \in 1..Len(r) : r[i] = d
          BY <3>1 DEF Contains
      <4> QED BY <4>1, <2>3, <2>6, <2>7 DEF Contains, IsInjective
    <3>2. ASSUME Contains(s, d), d # e PROVE Contains(r, d)
      <4>1. PICK m \in 1..Len(s) : s[m] = d
          BY <3>2 DEF Contains
      <4>2. PICK i \in 1..Len(r) : at(i) = m
          BY <4>1, <3>2, <2>3, <2>9
      <4> QED BY <4>1, <4>2, <2>7 DEF Contains
    <3> QED BY <3>1, <3>2
  <2> QED BY <2>1, <2>4, <2>10, <2>11
<1> QED BY <1>1, <1>2

-----------------------------------------------------------------------------
(***************************************************************************)
(* Flattening, one sequence at a time.                                     *)
(***************************************************************************)
\* Induction over the numbers, for the members of a set.
LEMMA SetInduction ==
    ASSUME NEW S, 0 \in S, \A n \in Nat : n \in S => n + 1 \in S
    PROVE  Nat \subseteq S
<1> SUFFICES ASSUME Nat \ S # {} PROVE FALSE
    OBVIOUS
<1>1. PICK x \in Nat \ S : \A y \in Nat \ S : <<y, x>> \notin OpToRel(<, Nat)
    BY NatLessThanWellFounded, WFMin
<1>2. x # 0 /\ x \in Nat
    OBVIOUS
<1>4. x - 1 \in Nat /\ x - 1 < x /\ (x - 1) + 1 = x
    BY <1>2
<1>3. x - 1 \in S
    BY <1>1, <1>2, <1>4 DEF OpToRel
<1> QED BY <1>1, <1>2, <1>3, <1>4

\* f[i] joins the first i of the sequences in ss, for i up to n.
Joins(ss, n, f) == f = [i \in 1..n |-> IF i = 1 THEN ss[i] ELSE f[i - 1] \o ss[i]]

\* There are such joins for every number of sequences.
LEMMA JoinsExists ==
    ASSUME NEW ss, NEW n \in Nat
    PROVE  \E f : Joins(ss, n, f)
<1> DEFINE S == {m \in Nat : \E f : Joins(ss, m, f)}
<1>1. 0 \in S
  <2> DEFINE f == [i \in 1..0 |-> <<>>]
  <2>1. Joins(ss, 0, f)
      BY DEF Joins
  <2> QED BY <2>1
<1>2. ASSUME NEW m \in Nat, m \in S PROVE m + 1 \in S
  <2>1. PICK f : Joins(ss, m, f)
      BY <1>2
  <2>2. f = [i \in 1..m |-> IF i = 1 THEN ss[i] ELSE f[i - 1] \o ss[i]]
      BY <2>1 DEF Joins
  <2> DEFINE last == IF m + 1 = 1 THEN ss[m + 1] ELSE f[m] \o ss[m + 1]
             g == [i \in 1..(m + 1) |-> IF i = m + 1 THEN last ELSE f[i]]
             h == [i \in 1..(m + 1) |-> IF i = 1 THEN ss[i] ELSE g[i - 1] \o ss[i]]
  <2>3. ASSUME NEW i \in 1..(m + 1) PROVE g[i] = h[i]
    <3>1. CASE i = m + 1
      <4>1. CASE i = 1
          BY <3>1, <4>1
      <4>2. CASE i # 1
        <5>1. i - 1 \in 1..(m + 1) /\ i - 1 # m + 1 /\ i - 1 = m
            BY <3>1, <4>2
        <5>2. g[i - 1] = f[m]
            BY <5>1
        <5> QED BY <3>1, <4>2, <5>2
      <4> QED BY <4>1, <4>2
    <3>2. CASE i # m + 1
      <4>1. i \in 1..m /\ g[i] = f[i]
          BY <3>2
      <4>2. CASE i = 1
          BY <2>2, <4>1, <4>2
      <4>3. CASE i # 1
        <5>1. i - 1 \in 1..(m + 1) /\ i - 1 # m + 1
            BY <4>1, <4>3
        <5>2. g[i - 1] = f[i - 1]
            BY <5>1
        <5>3. f[i] = f[i - 1] \o ss[i]
            BY <2>2, <4>1, <4>3
        <5> QED BY <4>1, <4>3, <5>2, <5>3
      <4> QED BY <4>2, <4>3
    <3> QED BY <3>1, <3>2
  <2>4. g = h
    <3> HIDE DEF last
    <3>1. g = [i \in 1..(m + 1) |-> g[i]] /\ h = [i \in 1..(m + 1) |-> h[i]]
        OBVIOUS
    <3> HIDE DEF g, h
    <3> QED BY <2>3, <3>1
  <2>5. Joins(ss, m + 1, g)
      BY <2>4 DEF Joins
  <2> QED BY <2>5
<1>3. Nat \subseteq S
  <2> HIDE DEF S
  <2> QED BY <1>1, <1>2, SetInduction
<1> QED BY <1>3

\* The joins of the first n sequences are settled by those n.
LEMMA JoinsAgree ==
    ASSUME NEW T, NEW n \in Nat, NEW m \in Nat, n <= m, NEW ss, NEW tt, NEW f, NEW g,
           Joins(ss, n, f), Joins(tt, m, g), \A i \in 1..n : ss[i] = tt[i] /\ ss[i] \in Seq(T)
    PROVE  \A i \in 1..n : g[i] = f[i] /\ f[i] \in Seq(T)
<1> DEFINE S == {k \in Nat : k \in 1..n => g[k] = f[k] /\ f[k] \in Seq(T)}
<1>1. 0 \in S
    OBVIOUS
<1>2. ASSUME NEW k \in Nat, k \in S PROVE k + 1 \in S
  <2> SUFFICES ASSUME k + 1 \in 1..n PROVE g[k + 1] = f[k + 1] /\ f[k + 1] \in Seq(T)
      OBVIOUS
  <2>1. k + 1 \in 1..m /\ (k + 1) - 1 = k
      OBVIOUS
  <2>2. /\ f[k + 1] = IF k + 1 = 1 THEN ss[k + 1] ELSE f[k] \o ss[k + 1]
        /\ g[k + 1] = IF k + 1 = 1 THEN tt[k + 1] ELSE g[k] \o tt[k + 1]
    <3>1. /\ f = [i \in 1..n |-> IF i = 1 THEN ss[i] ELSE f[i - 1] \o ss[i]]
          /\ g = [i \in 1..m |-> IF i = 1 THEN tt[i] ELSE g[i - 1] \o tt[i]]
        BY DEF Joins
    <3>2. /\ f[k + 1] = IF k + 1 = 1 THEN ss[k + 1] ELSE f[(k + 1) - 1] \o ss[k + 1]
          /\ g[k + 1] = IF k + 1 = 1 THEN tt[k + 1] ELSE g[(k + 1) - 1] \o tt[k + 1]
        BY <2>1, <3>1
    <3> QED BY <2>1, <3>2
  <2>3. ss[k + 1] = tt[k + 1] /\ ss[k + 1] \in Seq(T)
      OBVIOUS
  <2>4. CASE k = 0
      BY <2>2, <2>3, <2>4
  <2>5. CASE k # 0
    <3>1. k \in 1..n
        BY <2>5
    <3>2. g[k] = f[k] /\ f[k] \in Seq(T)
        BY <1>2, <3>1
    <3>3. k + 1 # 1
        BY <2>5
    <3> QED BY <2>2, <2>3, <3>2, <3>3
  <2> QED BY <2>4, <2>5
<1>3. Nat \subseteq S
  <2> HIDE DEF S
  <2> QED BY <1>1, <1>2, SetInduction
<1> QED BY <1>3

\* FlattenSeq of one sequence more.
LEMMA FlattenAppend ==
    ASSUME NEW T, NEW ss \in Seq(Seq(T)), NEW x \in Seq(T)
    PROVE  /\ FlattenSeq(ss) \in Seq(T)
           /\ FlattenSeq(Append(ss, x)) = FlattenSeq(ss) \o x
<1> DEFINE tt == Append(ss, x)
           n == Len(ss)
           f == CHOOSE e : Joins(ss, n, e)
           g == CHOOSE e : Joins(tt, n + 1, e)
<1>1. /\ n \in Nat /\ tt \in Seq(Seq(T)) /\ Len(tt) = n + 1 /\ tt[n + 1] = x
      /\ \A i \in 1..n : ss[i] = tt[i] /\ ss[i] \in Seq(T)
    OBVIOUS
<1>2. FlattenSeq(ss) = IF n = 0 THEN ss ELSE f[n]
    BY DEF FlattenSeq, Joins
<1>3. FlattenSeq(tt) = IF Len(tt) = 0 THEN tt ELSE (CHOOSE e : Joins(tt, Len(tt), e))[Len(tt)]
    BY DEF FlattenSeq, Joins
<1> HIDE DEF tt, n
<1>4. Joins(ss, n, f) /\ Joins(tt, n + 1, g)
  <2>1. (\E e : Joins(ss, n, e)) /\ \E e : Joins(tt, n + 1, e)
    <3>1. n + 1 \in Nat
        BY <1>1
    <3> QED BY <1>1, <3>1, JoinsExists
  <2> QED BY <2>1
<1>5. FlattenSeq(tt) = g[n + 1]
    BY <1>1, <1>3
<1> HIDE DEF f, g
<1>6. g[n + 1] = IF n + 1 = 1 THEN tt[n + 1] ELSE g[(n + 1) - 1] \o tt[n + 1]
  <2>1. n + 1 \in 1..(n + 1)
      BY <1>1
  <2>2. g = [i \in 1..(n + 1) |-> IF i = 1 THEN tt[i] ELSE g[i - 1] \o tt[i]]
      BY <1>4 DEF Joins
  <2> QED BY <2>1, <2>2
<1>7. CASE n = 0
  <2>1. ss = <<>>
      BY <1>7 DEF n
  <2> QED BY <1>1, <1>2, <1>5, <1>6, <1>7, <2>1 DEF tt
<1>8. CASE n # 0
  <2>1. \A i \in 1..n : g[i] = f[i] /\ f[i] \in Seq(T)
    <3>1. n + 1 \in Nat /\ n <= n + 1
        BY <1>1
    <3>2. ASSUME NEW m \in Nat, n <= m, Joins(tt, m, g)
          PROVE  \A i \in 1..n : g[i] = f[i] /\ f[i] \in Seq(T)
        BY <1>1, <1>4, <3>2, JoinsAgree, Zenon
    <3> QED BY <1>4, <3>1, <3>2
  <2>2. n \in 1..n /\ (n + 1) - 1 = n /\ n + 1 # 1
      BY <1>1, <1>8
  <2> QED BY <1>1, <1>2, <1>5, <1>6, <1>8, <2>1, <2>2 DEF tt
<1> QED BY <1>7, <1>8
-----------------------------------------------------------------------------
(***************************************************************************)
(* The steps.                                                              *)
(***************************************************************************)
\* What running handlers may do to the task: go on reading, suspend, or end it.
LEMMA RunHandlersFacts ==
    ASSUME NEW hs, NEW k, RunHandlers(hs, k)
    PROVE  /\ task' \in {"reading", "handling", "done"}
           /\ task' # "handling" => left' = <<>>
           /\ error' \in {error, "handler"}
           /\ closed' = closed \/ closed' = TRUE
           /\ transport' \in {transport, "closing"} /\ (transport = "lost" => transport' = "lost")
BY DEF RunHandlers, EndTask, CloseWriter

\* The futures given the message are not done: no set_result raises, and the message
\* reaches the handlers.
LEMMA ReceiveDispatches ==
    ASSUME NEW t, Receive(t)
    PROVE  call' = Resolve(t, Len(read) + 1) /\ RunHandlers(HandlersFor(t), Len(read) + 1)
BY DEF Receive, Unresolved

\* The initial state satisfies the invariant.
LEMMA InitIInv == Init => IInv
<1> SUFFICES ASSUME Init PROVE IInv
    OBVIOUS
<1>1. CallsOK
    BY DEF Init, CallsOK, NoCall, NoMessage, WaitForCall
<1>2. WaitersExact
    BY DEF Init, WaitersExact, TypeOK, IsInjective, Contains, NoCall
<1>3. WaiterGetsNext /\ QuietAfterClose /\ CloseOK
    BY DEF Init, WaiterGetsNext, NoCall, QuietAfterClose, CloseOK
<1> QED BY <1>1, <1>2, <1>3 DEF IInv

\* A step that leaves calls, waiters and messages alone keeps what is said of them.
LEMMA CallsUntouched ==
    ASSUME IInv, UNCHANGED <<call, waiters, read>>
    PROVE  CallsOK' /\ WaiterGetsNext' /\ (TypeOK' => WaitersExact')
BY DEF IInv, CallsOK, WaiterGetsNext, WaitersExact

\* The types of the task's own variables.
TaskOK ==
    /\ task \in {"none", "created", "reading", "handling", "done"}
    /\ (task # "handling" => left = <<>>)
    /\ error \in {"none", "frame", "eof", "handler", "state"}

\* TypeOK, with what it says of the task under a name.
LEMMA TypeOKParts ==
    TypeOK <=> read \in Seq(Types) /\ TaskOK /\ \A t \in Types : IsInjective(waiters[t])
BY DEF TypeOK, TaskOK

\* A handler, the end of file, a bad frame or a cancel: the receive task's steps
\* other than Receive.
LEMMA TaskStep ==
    ASSUME IInv, TaskStarts \/ HandlerReturns \/ ReadFails \/ TaskCancelled
    PROVE  IInv'
<1>1. UNCHANGED <<call, waiters, read, handlers, cancelled, closer>>
    BY DEF TaskStarts, HandlerReturns, ReadFails, TaskCancelled
<1>2. TaskOK /\ CloseOK /\ QuietAfterClose /\ TypeOK
    BY TypeOKParts DEF IInv, WaitersExact
<1>3. /\ TaskOK' /\ task' # "none" /\ task # "done"
      /\ closed' \in BOOLEAN /\ (closed => closed')
      /\ transport' \in {transport, "closing"} /\ (transport = "lost" => transport' = "lost")
      /\ cancelled => task' = "done"
  <2>1. CASE TaskStarts
      BY <1>2, <2>1 DEF TaskStarts, TaskOK, CloseOK
  <2>2. CASE HandlerReturns
    <3>1. CASE RunHandlers(left, Len(read))
        BY <1>2, <2>2, <3>1, RunHandlersFacts DEF HandlerReturns, TaskOK, CloseOK
    <3>2. CASE EndTask("handler")
        BY <1>2, <2>2, <3>2 DEF HandlerReturns, EndTask, CloseWriter, TaskOK, CloseOK
    <3> QED BY <2>2, <3>1, <3>2 DEF HandlerReturns
  <2>3. CASE ReadFails
      BY <1>2, <2>3 DEF ReadFails, EndTask, CloseWriter, TaskOK, CloseOK
  <2>4. CASE TaskCancelled
    <3>1. CASE task \in {"reading", "handling"} /\ EndTask(error)
        BY <1>2, <3>1 DEF EndTask, CloseWriter, TaskOK, CloseOK
    <3>2. CASE task = "created" /\ task' = "done" /\ UNCHANGED <<left, closed, error, transport>>
        BY <1>2, <3>2 DEF TaskOK, CloseOK
    <3> QED BY <2>4, <3>1, <3>2 DEF TaskCancelled
  <2> QED BY <2>1, <2>2, <2>3, <2>4
<1>4. CloseOK'
    BY <1>1, <1>2, <1>3 DEF CloseOK
<1>5. QuietAfterClose'
    BY <1>1, <1>2, <1>3 DEF QuietAfterClose
<1>6. TypeOK'
    BY <1>1, <1>2, <1>3, TypeOKParts DEF TypeOK, TaskOK
<1> QED BY <1>1, <1>4, <1>5, <1>6, CallsUntouched DEF IInv

\* The connection, close(), on, start and send.
LEMMA OtherStep ==
    ASSUME IInv,
           \/ ConnectionLost \/ Start \/ Send \/ CloseCalled \/ CloseJoined \/ CloseReturns
           \/ \E s \in Subscriptions : On(s[1], s[2])
    PROVE  IInv'
<1>1. UNCHANGED <<call, waiters, read, left, error>>
    BY DEF ConnectionLost, Start, Send, CloseCalled, CloseJoined, CloseReturns, On
<1>2. TaskOK /\ CloseOK /\ QuietAfterClose /\ TypeOK
    BY TypeOKParts DEF IInv, WaitersExact
<1>3. task' = task \/ (task = "none" /\ task' = "created" /\ left = <<>>)
    BY <1>2 DEF ConnectionLost, Start, Send, CloseCalled, CloseJoined, CloseReturns, On, TaskOK
<1>4. TypeOK'
    BY <1>1, <1>2, <1>3 DEF TypeOK
<1>5. CloseOK' /\ QuietAfterClose'
  <2>1. CASE ConnectionLost
      BY <1>2, <2>1 DEF ConnectionLost, CloseOK, QuietAfterClose
  <2>2. CASE Start
      BY <1>2, <2>2 DEF Start, CloseOK, QuietAfterClose
  <2>3. CASE Send
      BY <1>2, <2>3 DEF Send, CloseOK, QuietAfterClose
  <2>4. CASE CloseCalled
      BY <1>2, <2>4 DEF CloseCalled, CloseWriter, CloseOK, QuietAfterClose, TaskOK
  <2>5. CASE CloseJoined
      BY <1>2, <2>5 DEF CloseJoined, CloseWriter, CloseOK, QuietAfterClose
  <2>6. CASE CloseReturns
      BY <1>2, <2>6 DEF CloseReturns, CloseOK, QuietAfterClose
  <2>7. ASSUME NEW s \in Subscriptions, On(s[1], s[2]) PROVE CloseOK' /\ QuietAfterClose'
      BY <1>2, <2>7 DEF On, CloseOK, QuietAfterClose
  <2> QED BY <2>1, <2>2, <2>3, <2>4, <2>5, <2>6, <2>7
<1> QED BY <1>1, <1>4, <1>5, CallsUntouched DEF IInv

\* What is listed is in a call that waits or has timed out, and who waits is listed.
Listed(c, t) ==
    /\ Contains(waiters[t], c) => call[c].pc \in {"waiting", "timedout"} /\ call[c].type = t
    /\ call[c].pc = "waiting" /\ call[c].type = t => Contains(waiters[t], c)

\* WaitersExact, one caller and type at a time.
LEMMA WaitersExactParts ==
    WaitersExact <=> TypeOK /\ \A c \in Callers, t \in Types : Listed(c, t)
BY DEF WaitersExact, Listed

\* The messages of its type that call c of cl could have got, of those in rd.
Later(cl, rd, c) == {k \in DOMAIN rd : k > cl[c].since /\ rd[k] = cl[c].type}

GetsNext(cl, rd, c) ==
    /\ cl[c].got # NoMessage => cl[c].got \in Later(cl, rd, c) /\ \A k \in Later(cl, rd, c) : cl[c].got <= k
    /\ cl[c].pc = "waiting" => Later(cl, rd, c) = {}

\* WaiterGetsNext, one caller at a time.
LEMMA WaiterGetsNextParts ==
    WaiterGetsNext <=> \A c \in Callers : GetsNext(call, read, c)
BY DEF WaiterGetsNext, GetsNext, Later

\* wait_for is called: the new future is listed last and has missed nothing.
LEMMA WaitForStep ==
    ASSUME IInv, NEW c \in Callers, NEW t \in Types, WaitFor(c, t)
    PROVE  IInv'
<1>1. TypeOK /\ CallsOK /\ CloseOK /\ QuietAfterClose /\ TaskOK
      /\ (\A d \in Callers, u \in Types : Listed(d, u))
      /\ (\A d \in Callers : GetsNext(call, read, d))
    BY WaitersExactParts, WaiterGetsNextParts, TypeOKParts DEF IInv
<1> DEFINE new == [pc |-> "waiting", type |-> t, since |-> Len(read), got |-> NoMessage]
<1>2. /\ call[c].pc = "idle" /\ call' = [call EXCEPT ![c] = new]
      /\ waiters' = [waiters EXCEPT ![t] = Append(@, c)]
      /\ task' = IF task = "none" THEN "created" ELSE task
      /\ UNCHANGED <<cancelled, left, closed, error, transport, closer, read>>
    BY DEF WaitFor
<1>3. /\ waiters \in [Types -> Seq(Callers)] /\ call \in [Callers -> WaitForCall]
      /\ read \in Seq(Types) /\ \A u \in Types : IsInjective(waiters[u])
    BY <1>1 DEF CallsOK, TypeOK
<1>4. new \in WaitForCall /\ Len(read) \in Nat
    BY <1>3 DEF WaitForCall, NoMessage
<1>5. /\ call'[c] = new
      /\ \A d \in Callers : d # c => call'[d] = call[d]
      /\ waiters'[t] = Append(waiters[t], c)
      /\ \A u \in Types : u # t => waiters'[u] = waiters[u]
      /\ call' \in [Callers -> WaitForCall]
    BY <1>2, <1>3, <1>4
<1>6. \A u \in Types : ~Contains(waiters[u], c)
    BY <1>1, <1>2 DEF Listed
<1>7. /\ Append(waiters[t], c) \in Seq(Callers) /\ IsInjective(Append(waiters[t], c))
      /\ \A d \in Callers : Contains(Append(waiters[t], c), d) <=> Contains(waiters[t], d) \/ d = c
    BY <1>3, <1>6, AppendFacts
<1>8. CallsOK'
  <2>1. waiters' \in [Types -> Seq(Callers)]
      BY <1>2, <1>3, <1>7
  <2>2. \A d \in Callers : call'[d].since <= Len(read)
      BY <1>1, <1>4, <1>5 DEF CallsOK
  <2>3. ASSUME NEW d \in Callers, call'[d].pc \in {"idle", "waiting", "timedout"}
        PROVE  call'[d].got = NoMessage
    <3>1. CASE d = c
        BY <1>5, <3>1
    <3>2. CASE d # c
      <4>1. call'[d] = call[d]
          BY <1>5, <3>2
      <4> QED BY <1>1, <2>3, <4>1 DEF CallsOK
    <3> QED BY <3>1, <3>2
  <2> QED BY <1>2, <1>5, <2>1, <2>2, <2>3 DEF CallsOK
<1>9. WaitersExact'
  <2>1. \A d \in Callers, u \in Types : Listed(d, u)'
    <3> SUFFICES ASSUME NEW d \in Callers, NEW u \in Types PROVE Listed(d, u)'
        OBVIOUS
    <3>1. Contains(waiters'[u], d) <=> Contains(waiters[u], d) \/ (d = c /\ u = t)
        BY <1>5, <1>7
    <3>2. CASE d = c
      <4>1. call'[d].pc = "waiting" /\ call'[d].type = t
          BY <1>5, <3>2
      <4> QED BY <1>6, <3>1, <3>2, <4>1 DEF Listed
    <3>3. CASE d # c
      <4>1. call'[d] = call[d] /\ Listed(d, u)
          BY <1>1, <1>5, <3>3
      <4> QED BY <3>1, <3>3, <4>1 DEF Listed
    <3> QED BY <3>2, <3>3
  <2>2. TypeOK'
      BY <1>1, <1>2, <1>5, <1>7 DEF TypeOK, TaskOK
  <2> QED BY <2>1, <2>2 DEF WaitersExact, Listed
<1>10. WaiterGetsNext'
  <2>1. \A d \in Callers : GetsNext(call', read, d)
    <3> SUFFICES ASSUME NEW d \in Callers PROVE GetsNext(call', read, d)
        OBVIOUS
    <3>1. CASE d = c
        BY <1>3, <1>4, <1>5, <3>1 DEF GetsNext, Later
    <3>2. CASE d # c
        BY <1>1, <1>5, <3>2 DEF GetsNext, Later
    <3> QED BY <3>1, <3>2
  <2> QED BY <1>2, <2>1 DEF WaiterGetsNext, GetsNext, Later
<1>11. CloseOK' /\ QuietAfterClose'
    BY <1>1, <1>2 DEF CloseOK, QuietAfterClose
<1> QED BY <1>8, <1>9, <1>10, <1>11 DEF IInv

\* The timer of a call fires.
LEMMA TimeOutStep ==
    ASSUME IInv, NEW c \in Callers, TimeOut(c)
    PROVE  IInv'
<1>1. TypeOK /\ CallsOK /\ CloseOK /\ QuietAfterClose
      /\ (\A d \in Callers, u \in Types : Listed(d, u))
      /\ (\A d \in Callers : GetsNext(call, read, d))
    BY WaitersExactParts, WaiterGetsNextParts DEF IInv
<1>2. /\ call[c].pc = "waiting" /\ call' = [call EXCEPT ![c].pc = "timedout"]
      /\ UNCHANGED <<task, cancelled, left, waiters, closed, error, transport, closer, read>>
    BY DEF TimeOut
<1>3. call \in [Callers -> WaitForCall]
    BY <1>1 DEF CallsOK
<1>4. /\ call' \in [Callers -> WaitForCall] /\ \A d \in Callers : d # c => call'[d] = call[d]
      /\ call'[c].pc = "timedout" /\ call'[c].type = call[c].type
      /\ call'[c].since = call[c].since /\ call'[c].got = call[c].got
    BY <1>2, <1>3 DEF WaitForCall
<1>5. CallsOK'
  <2>1. call[c].since <= Len(read) /\ call[c].got = NoMessage
      BY <1>1, <1>2 DEF CallsOK
  <2>2. \A d \in Callers : call'[d].since <= Len(read)
      BY <1>1, <1>4, <2>1 DEF CallsOK
  <2>3. \A d \in Callers : call'[d].pc \in {"idle", "waiting", "timedout"} => call'[d].got = NoMessage
      BY <1>1, <1>4, <2>1 DEF CallsOK
  <2> QED BY <1>1, <1>2, <1>4, <2>2, <2>3 DEF CallsOK
<1>6. WaitersExact'
  <2>1. \A d \in Callers, u \in Types : Listed(d, u)'
      BY <1>1, <1>2, <1>4 DEF Listed
  <2>2. TypeOK'
      BY <1>1, <1>2 DEF TypeOK
  <2> QED BY <2>1, <2>2 DEF WaitersExact, Listed
<1>7. WaiterGetsNext'
  <2>1. \A d \in Callers : GetsNext(call', read, d)
    <3> SUFFICES ASSUME NEW d \in Callers PROVE GetsNext(call', read, d)
        OBVIOUS
    <3>1. Later(call', read, d) = Later(call, read, d) /\ call'[d].got = call[d].got
        BY <1>4 DEF Later
    <3>2. call'[d].pc = "waiting" => call[d].pc = "waiting"
        BY <1>4
    <3> QED BY <1>1, <3>1, <3>2 DEF GetsNext
  <2> QED BY <1>2, <2>1 DEF WaiterGetsNext, GetsNext, Later
<1>8. CloseOK' /\ QuietAfterClose'
    BY <1>1, <1>2 DEF CloseOK, QuietAfterClose
<1> QED BY <1>5, <1>6, <1>7, <1>8 DEF IInv

\* The caller of wait_for runs again and takes its future off the list.
LEMMA WaitForReturnsStep ==
    ASSUME IInv, NEW c \in Callers, WaitForReturns(c)
    PROVE  IInv'
<1>1. TypeOK /\ CallsOK /\ CloseOK /\ QuietAfterClose
      /\ (\A d \in Callers, u \in Types : Listed(d, u))
      /\ (\A d \in Callers : GetsNext(call, read, d))
    BY WaitersExactParts, WaiterGetsNextParts DEF IInv
<1> DEFINE t == call[c].type
<1>2. PICK got \in {call[c].got, NoMessage} :
          call' = [call EXCEPT ![c].pc = "returned", ![c].got = got]
    BY DEF WaitForReturns
<1>3. /\ call[c].pc \in {"resolved", "timedout"}
      /\ waiters' = [waiters EXCEPT ![t] = RemoveFirst(@, c)]
      /\ UNCHANGED <<task, cancelled, left, closed, error, transport, closer, read>>
    BY DEF WaitForReturns
<1>4. /\ call \in [Callers -> WaitForCall] /\ waiters \in [Types -> Seq(Callers)]
      /\ read \in Seq(Types) /\ \A u \in Types : IsInjective(waiters[u])
    BY <1>1 DEF CallsOK, TypeOK
<1>5. /\ call' \in [Callers -> WaitForCall] /\ \A d \in Callers : d # c => call'[d] = call[d]
      /\ call'[c].pc = "returned" /\ call'[c].type = t
      /\ call'[c].since = call[c].since /\ call'[c].got = got
  <2> DEFINE back == [call[c] EXCEPT !.pc = "returned", !.got = got]
  <2>1. call[c] \in WaitForCall /\ got \in Nat
      BY <1>4 DEF WaitForCall, NoMessage
  <2>2. /\ back \in WaitForCall /\ back.pc = "returned" /\ back.type = t
        /\ back.since = call[c].since /\ back.got = got
      BY <2>1 DEF WaitForCall
  <2>3. call' = [call EXCEPT ![c] = back]
      BY <1>2, <1>4
  <2> HIDE DEF back
  <2> QED BY <1>4, <2>2, <2>3
<1>6. t \in Types \cup {"*"}
    BY <1>4 DEF WaitForCall
<1> HIDE DEF t
<1>7. \A u \in Types : waiters'[u] = IF u = t THEN RemoveFirst(waiters[u], c) ELSE waiters[u]
    BY <1>3, <1>4
<1>8. /\ waiters' \in [Types -> Seq(Callers)]
      /\ \A u \in Types : IsInjective(waiters'[u])
      /\ \A u \in Types, d \in Callers :
            Contains(waiters'[u], d) <=> Contains(waiters[u], d) /\ ~(u = t /\ d = c)
  <2>1. ASSUME NEW u \in Types
        PROVE  /\ waiters'[u] \in Seq(Callers) /\ IsInjective(waiters'[u])
               /\ \A d \in Callers : Contains(waiters'[u], d) <=> Contains(waiters[u], d) /\ ~(u = t /\ d = c)
    <3>1. CASE u = t
      <4>1. /\ RemoveFirst(waiters[u], c) \in Seq(Callers) /\ IsInjective(RemoveFirst(waiters[u], c))
            /\ \A d \in Callers : Contains(RemoveFirst(waiters[u], c), d) <=> Contains(waiters[u], d) /\ d # c
          BY <1>4, RemoveFirstFacts
      <4>2. waiters'[u] = RemoveFirst(waiters[u], c)
          BY <1>7, <3>1
      <4> QED BY <4>1, <4>2, <3>1
    <3>2. CASE u # t
      <4>1. waiters'[u] = waiters[u]
          BY <1>7, <3>2
      <4> QED BY <4>1, <1>4, <3>2
    <3> QED BY <3>1, <3>2
  <2>2. waiters' = [u \in Types |-> waiters'[u]]
      BY <1>3, <1>4
  <2>3. waiters' \in [Types -> Seq(Callers)]
      BY <2>1, <2>2
  <2> QED BY <2>1, <2>3
<1>9. CallsOK'
  <2>1. \A d \in Callers : call'[d].since <= Len(read)
      BY <1>1, <1>5 DEF CallsOK
  <2>2. \A d \in Callers : call'[d].pc \in {"idle", "waiting", "timedout"} => call'[d].got = NoMessage
      BY <1>1, <1>5 DEF CallsOK
  <2> QED BY <1>3, <1>5, <1>8, <2>1, <2>2 DEF CallsOK
<1>10. WaitersExact'
  <2>1. \A d \in Callers, u \in Types : Listed(d, u)'
    <3> SUFFICES ASSUME NEW d \in Callers, NEW u \in Types PROVE Listed(d, u)'
        OBVIOUS
    <3>1. Contains(waiters'[u], d) <=> Contains(waiters[u], d) /\ ~(u = t /\ d = c)
        BY <1>8
    <3>2. CASE d = c
      <4>1. ~Contains(waiters'[u], d) /\ call'[d].pc = "returned"
          BY <1>1, <1>5, <3>1, <3>2 DEF Listed, t
      <4> QED BY <4>1 DEF Listed
    <3>3. CASE d # c
      <4>1. call'[d] = call[d] /\ Listed(d, u)
          BY <1>1, <1>5, <3>3
      <4> QED BY <3>1, <3>3, <4>1 DEF Listed
    <3> QED BY <3>2, <3>3
  <2>2. TypeOK'
      BY <1>1, <1>3, <1>8 DEF TypeOK
  <2> QED BY <2>1, <2>2 DEF WaitersExact, Listed
<1>11. WaiterGetsNext'
  <2>1. \A d \in Callers : GetsNext(call', read, d)
    <3> SUFFICES ASSUME NEW d \in Callers PROVE GetsNext(call', read, d)
        OBVIOUS
    <3>1. Later(call', read, d) = Later(call, read, d)
        BY <1>5 DEF Later, t
    <3>2. call'[d].got \in {call[d].got, NoMessage}
        BY <1>5
    <3>3. call'[d].pc = "waiting" => call[d].pc = "waiting"
        BY <1>5
    <3> QED BY <1>1, <3>1, <3>2, <3>3 DEF GetsNext
  <2> QED BY <1>3, <2>1 DEF WaiterGetsNext, GetsNext, Later
<1>12. CloseOK' /\ QuietAfterClose'
    BY <1>1, <1>3 DEF CloseOK, QuietAfterClose
<1> QED BY <1>9, <1>10, <1>11, <1>12 DEF IInv

\* A message is read: who waits for its type has it, and the list is empty.
LEMMA ReceiveStep ==
    ASSUME IInv, NEW t \in Types, Receive(t)
    PROVE  IInv'
<1>1. TypeOK /\ CallsOK /\ CloseOK /\ QuietAfterClose /\ TaskOK
      /\ (\A d \in Callers, u \in Types : Listed(d, u))
      /\ (\A d \in Callers : GetsNext(call, read, d))
    BY WaitersExactParts, WaiterGetsNextParts, TypeOKParts DEF IInv
<1> DEFINE k == Len(read) + 1
<1>2. /\ task = "reading" /\ ~cancelled
      /\ read' = Append(read, t) /\ call' = Resolve(t, k)
      /\ waiters' = [waiters EXCEPT ![t] = <<>>]
      /\ RunHandlers(HandlersFor(t), k)
      /\ UNCHANGED <<cancelled, closer>>
    BY ReceiveDispatches DEF Receive
<1>3. /\ call \in [Callers -> WaitForCall] /\ waiters \in [Types -> Seq(Callers)]
      /\ read \in Seq(Types) /\ \A u \in Types : IsInjective(waiters[u])
    BY <1>1 DEF CallsOK, TypeOK
<1>4. /\ k \in Nat /\ k # NoMessage /\ read' \in Seq(Types) /\ Len(read') = k
      /\ DOMAIN read' = DOMAIN read \cup {k} /\ read'[k] = t
      /\ \A i \in DOMAIN read : read'[i] = read[i] /\ i < k /\ i \in Nat
    BY <1>2, <1>3 DEF NoMessage
<1>5. \A d \in Callers :
          call'[d] = IF Contains(waiters[t], d) /\ call[d].pc = "waiting"
                     THEN [call[d] EXCEPT !.got = k, !.pc = "resolved"] ELSE call[d]
    BY <1>2 DEF Resolve, Unresolved, Done
<1>6. \A d \in Callers : call[d].since <= Len(read) /\ call[d] \in WaitForCall
    BY <1>1, <1>3 DEF CallsOK
<1> HIDE DEF k
\* A call either waited for this type and now has the message, or is as before.
<1>7. ASSUME NEW d \in Callers
      PROVE  \/ /\ call[d].pc = "waiting" /\ call[d].type = t
                /\ call'[d].pc = "resolved" /\ call'[d].got = k
                /\ call'[d].type = t /\ call'[d].since = call[d].since
                /\ call'[d] \in WaitForCall
             \/ /\ call'[d] = call[d]
                /\ ~(call[d].pc = "waiting" /\ call[d].type = t)
  <2>1. CASE Contains(waiters[t], d) /\ call[d].pc = "waiting"
    <3>1. call[d].type = t
        BY <1>1, <2>1 DEF Listed
    <3>2. call'[d] = [call[d] EXCEPT !.got = k, !.pc = "resolved"]
        BY <1>5, <2>1
    <3> QED BY <1>4, <1>6, <2>1, <3>1, <3>2 DEF WaitForCall
  <2>2. CASE ~(Contains(waiters[t], d) /\ call[d].pc = "waiting")
      BY <1>1, <1>5, <2>2 DEF Listed
  <2> QED BY <2>1, <2>2
<1>8. CallsOK'
  <2>1. call' = [d \in Callers |-> call'[d]]
      BY <1>2 DEF Resolve
  <2>2. \A d \in Callers : call'[d] \in WaitForCall
      BY <1>6, <1>7
  <2>3. call' \in [Callers -> WaitForCall]
      BY <2>1, <2>2
  <2>4. waiters' \in [Types -> Seq(Callers)]
      BY <1>2, <1>3
  <2>5. \A d \in Callers : call[d].since \in Nat /\ Len(read) \in Nat
      BY <1>3, <1>6 DEF WaitForCall
  <2>6. \A d \in Callers : call'[d].since <= Len(read')
      BY <1>4, <1>6, <1>7, <2>5 DEF k
  <2>7. \A d \in Callers : call'[d].pc \in {"idle", "waiting", "timedout"} => call'[d].got = NoMessage
      BY <1>1, <1>7 DEF CallsOK
  <2> QED BY <2>3, <2>4, <2>6, <2>7 DEF CallsOK
<1>9. WaitersExact'
  <2>1. /\ waiters'[t] = <<>> /\ \A u \in Types : u # t => waiters'[u] = waiters[u]
        /\ IsInjective(<<>>) /\ \A d : ~Contains(<<>>, d)
      BY <1>2, <1>3 DEF IsInjective, Contains
  <2>2. \A d \in Callers, u \in Types : Listed(d, u)'
    <3> SUFFICES ASSUME NEW d \in Callers, NEW u \in Types PROVE Listed(d, u)'
        OBVIOUS
    <3>1. CASE u = t
      <4>1. ~Contains(waiters'[u], d)
          BY <2>1, <3>1
      <4>2. ~(call'[d].pc = "waiting" /\ call'[d].type = u)
          BY <1>7, <3>1
      <4> QED BY <4>1, <4>2 DEF Listed
    <3>2. CASE u # t
      <4>1. waiters'[u] = waiters[u] /\ Listed(d, u)
          BY <1>1, <2>1, <3>2
      <4>2. call'[d] = call[d] \/ (call[d].type = t /\ call'[d].type = t)
          BY <1>7
      <4> QED BY <4>1, <4>2, <3>2 DEF Listed
    <3> QED BY <3>1, <3>2
  <2>3. TypeOK'
    <3>1. TaskOK'
        BY <1>1, <1>2, RunHandlersFacts DEF TaskOK
    <3>2. \A u \in Types : IsInjective(waiters'[u])
        BY <1>3, <2>1
    <3> QED BY <1>4, <3>1, <3>2 DEF TypeOK, TaskOK
  <2> QED BY <2>2, <2>3 DEF WaitersExact, Listed
<1>10. WaiterGetsNext'
  <2>1. ASSUME NEW d \in Callers PROVE GetsNext(call', read', d)
    <3>1. CASE /\ call[d].pc = "waiting" /\ call[d].type = t
               /\ call'[d].pc = "resolved" /\ call'[d].got = k
               /\ call'[d].type = t /\ call'[d].since = call[d].since
      <4>1. Later(call, read, d) = {}
          BY <1>1, <3>1 DEF GetsNext
      <4>2. call[d].since < k
          BY <1>3, <1>6 DEF WaitForCall, k
      <4>3. Later(call', read', d) = {k}
          BY <1>4, <3>1, <4>1, <4>2 DEF Later
      <4> QED BY <1>4, <3>1, <4>3 DEF GetsNext
    <3>2. CASE call'[d] = call[d] /\ ~(call[d].pc = "waiting" /\ call[d].type = t)
      <4>1. /\ \A i \in Later(call', read', d) : i \in Later(call, read, d) \/ (i = k /\ call[d].type = t)
            /\ \A i \in Later(call, read, d) : i \in Later(call', read', d) /\ i < k
          BY <1>4, <3>2 DEF Later
      <4>2. ASSUME call[d].got # NoMessage
            PROVE  call[d].got \in Later(call', read', d) /\ \A i \in Later(call', read', d) : call[d].got <= i
        <5>1. call[d].got \in Later(call, read, d) /\ \A i \in Later(call, read, d) : call[d].got <= i
            BY <1>1, <4>2 DEF GetsNext
        <5>2. call[d].got < k /\ call[d].got \in Nat
            BY <1>6, <4>1, <5>1 DEF WaitForCall
        <5>3. call[d].got <= k
            BY <1>4, <5>2
        <5> QED BY <4>1, <5>1, <5>3
      <4>3. ASSUME call[d].pc = "waiting" PROVE Later(call', read', d) = {}
        <5>1. Later(call, read, d) = {}
            BY <1>1, <4>3 DEF GetsNext
        <5> QED BY <3>2, <4>1, <4>3, <5>1
      <4> QED BY <3>2, <4>2, <4>3 DEF GetsNext
    <3> QED BY <1>7, <3>1, <3>2
  <2> QED BY <2>1 DEF WaiterGetsNext, GetsNext, Later
<1>11. CloseOK' /\ QuietAfterClose'
  <2>1. /\ task' # "none" /\ closed' \in BOOLEAN /\ (closed => closed')
        /\ transport' \in {transport, "closing"} /\ (transport = "lost" => transport' = "lost")
      BY <1>1, <1>2, RunHandlersFacts DEF CloseOK
  <2>2. CloseOK'
      BY <1>1, <1>2, <2>1 DEF CloseOK
  <2>3. QuietAfterClose'
      BY <1>1, <1>2, <2>1 DEF QuietAfterClose
  <2> QED BY <2>2, <2>3
<1> QED BY <1>8, <1>9, <1>10, <1>11 DEF IInv

\* Every step of any task keeps the invariant.
LEMMA StepIInv == IInv /\ [Next]_vars => IInv'
<1> SUFFICES ASSUME IInv, [Next]_vars PROVE IInv'
    OBVIOUS
<1>1. CASE \E w \in Waits : WaitFor(w[1], w[2])
  <2>1. \A w \in Waits : w[1] \in Callers /\ w[2] \in Types
      OBVIOUS
  <2> QED BY <1>1, <2>1, WaitForStep
<1>2. CASE \E c \in Callers : TimeOut(c) \/ WaitForReturns(c)
    BY <1>2, TimeOutStep, WaitForReturnsStep
<1>3. CASE \E t \in Types : Receive(t)
    BY <1>3, ReceiveStep
<1>4. CASE TaskStarts \/ HandlerReturns \/ ReadFails \/ TaskCancelled
    BY <1>4, TaskStep
<1>5. CASE \/ ConnectionLost \/ Start \/ Send \/ CloseCalled \/ CloseJoined \/ CloseReturns
           \/ \E s \in Subscriptions : On(s[1], s[2])
    BY <1>5, OtherStep
<1>6. CASE UNCHANGED vars
  <2>1. TypeOK'
      BY <1>6 DEF IInv, WaitersExact, TypeOK, vars
  <2>2. QuietAfterClose' /\ CloseOK'
      BY <1>6 DEF IInv, QuietAfterClose, CloseOK, vars
  <2> QED BY <1>6, <2>1, <2>2, CallsUntouched DEF IInv, vars
<1> QED BY <1>1, <1>2, <1>3, <1>4, <1>5, <1>6 DEF Next

-----------------------------------------------------------------------------
(***************************************************************************)
(* The order of the handler calls. What has been called, and what is left  *)
(* to call of the last message, together are the calls of all messages.    *)
(***************************************************************************)
Handlers == {s[2] : s \in Subscriptions}
HandlerCall == Handlers \X Nat

\* The calls of the handlers hs with message k.
Calls(hs, k) == [i \in 1..Len(hs) |-> <<hs[i], k>>]

CallsPerMessage == [k \in DOMAIN read |-> Calls(HandlersFor(read[k]), k)]

DispatchTypes ==
    /\ handlers \in [Types \cup {"*"} -> Seq(Handlers)]
    /\ left \in Seq(Handlers) /\ log \in Seq(HandlerCall) /\ read \in Seq(Types)
    /\ task \in {"none", "created", "reading", "handling", "done"}
    /\ task \in {"none", "created"} => read = <<>> /\ log = <<>>
    /\ task = "handling" => read # <<>>

\* rest are the calls the task has not made and, once it is over, never will.
Remaining(rest) ==
    /\ rest \in Seq(HandlerCall)
    /\ log \o rest = FlattenSeq(CallsPerMessage)
    /\ task = "reading" => rest = <<>>
    /\ task = "handling" => rest = Calls(left, Len(read))
    /\ read # <<>> => Len(rest) <= Len(HandlersFor(read[Len(read)]))

DispatchInv == DispatchTypes /\ \E rest : Remaining(rest)

\* The calls of the handlers hs are as many as the handlers.
LEMMA CallsTyped ==
    ASSUME NEW hs \in Seq(Handlers), NEW k \in Nat
    PROVE  Calls(hs, k) \in Seq(HandlerCall) /\ Len(Calls(hs, k)) = Len(hs)
BY DEF Calls, HandlerCall

\* The handlers a message is dispatched to, those of "*" included.
LEMMA HandlersForTyped ==
    ASSUME DispatchTypes, NEW t \in Types
    PROVE  HandlersFor(t) \in Seq(Handlers)
BY DEF DispatchTypes, HandlersFor

\* Running handlers makes the first of their calls, in order: all when it reads on,
\* up to the one that suspends, or up to the one that raises.
LEMMA RunHandlersCalls ==
    ASSUME NEW hs \in Seq(Handlers), NEW k \in Nat, log \in Seq(HandlerCall), RunHandlers(hs, k)
    PROVE  /\ log' \in Seq(HandlerCall) /\ left' \in Seq(Handlers)
           /\ task' \in {"reading", "handling", "done"}
           /\ \E rest \in Seq(HandlerCall) :
                 /\ log' \o rest = log \o Calls(hs, k)
                 /\ task' = "reading" => rest = <<>>
                 /\ task' = "handling" => rest = Calls(left', k)
                 /\ Len(rest) <= Len(hs)
<1>1. PICK n \in 0..Len(hs) :
          /\ log' = log \o [i \in 1..n |-> <<hs[i], k>>]
          /\ task' \in {"reading", "handling", "done"}
          /\ task' = "reading" => n = Len(hs) /\ left' = <<>>
          /\ task' = "handling" => left' = SubSeq(hs, n + 1, Len(hs))
          /\ task' = "done" => left' = <<>>
  <2>1. Len(hs) \in 0..Len(hs) /\ \A n \in DOMAIN hs : n \in 0..Len(hs)
      OBVIOUS
  <2> QED BY <2>1 DEF RunHandlers, EndTask
<1> DEFINE made == [i \in 1..n |-> <<hs[i], k>>]
           rest == [i \in 1..(Len(hs) - n) |-> <<hs[n + i], k>>]
<1>2. made \in Seq(HandlerCall) /\ Len(made) = n /\ rest \in Seq(HandlerCall) /\ Len(rest) = Len(hs) - n
    BY DEF HandlerCall
<1>3. made \o rest = Calls(hs, k)
  <2>1. /\ made \o rest \in Seq(HandlerCall) /\ Len(made \o rest) = Len(hs)
        /\ Calls(hs, k) \in Seq(HandlerCall) /\ Len(Calls(hs, k)) = Len(hs)
    <3> HIDE DEF made, rest
    <3>1. made \o rest \in Seq(HandlerCall) /\ Len(made \o rest) = Len(made) + Len(rest)
        BY <1>2, ConcatProperties
    <3>2. Len(made) + Len(rest) = Len(hs)
        BY <1>2
    <3> QED BY <3>1, <3>2, CallsTyped
  <2>2. ASSUME NEW i \in 1..Len(hs) PROVE (made \o rest)[i] = Calls(hs, k)[i]
    <3>1. CASE i <= n
        BY <1>2, <3>1 DEF Calls
    <3>2. CASE i > n
        BY <1>2, <3>2 DEF Calls
    <3> QED BY <3>1, <3>2
  <2> HIDE DEF made, rest
  <2> QED BY <2>1, <2>2, SeqEqual
<1>4. left' \in Seq(Handlers) /\ (task' = "handling" => rest = Calls(left', k))
  <2>1. CASE task' = "handling"
    <3>1. /\ SubSeq(hs, n + 1, Len(hs)) \in Seq(Handlers)
          /\ Len(SubSeq(hs, n + 1, Len(hs))) = Len(hs) - n
          /\ \A i \in 1..(Len(hs) - n) : SubSeq(hs, n + 1, Len(hs))[i] = hs[n + i]
        OBVIOUS
    <3>2. left' = SubSeq(hs, n + 1, Len(hs))
        BY <1>1, <2>1
    <3> QED BY <3>1, <3>2 DEF Calls
  <2>2. CASE task' # "handling"
    <3>1. left' = <<>> /\ <<>> \in Seq(Handlers)
        BY <1>1, <2>2
    <3> QED BY <2>2, <3>1
  <2> QED BY <2>1, <2>2
<1>5. log' = log \o made
    BY <1>1
<1> HIDE DEF made, rest
<1>6. log' \o rest = log \o Calls(hs, k) /\ log' \in Seq(HandlerCall)
  <2>1. (log \o made) \o rest = log \o (made \o rest)
      BY SMTT(60), <1>2, ConcatAssociative
  <2>2. log \o made \in Seq(HandlerCall)
      BY <1>2
  <2> QED BY <1>3, <1>5, <2>1, <2>2
<1>7. task' = "reading" => rest = <<>>
    BY <1>1, <1>2
<1>8. Len(rest) <= Len(hs)
    BY <1>2
<1> QED BY <1>1, <1>2, <1>4, <1>6, <1>7, <1>8

\* Nothing is read and nothing called at first.
LEMMA InitDispatch == Init => DispatchInv
<1> SUFFICES ASSUME Init PROVE DispatchInv
    OBVIOUS
<1>1. DispatchTypes
    BY DEF Init, DispatchTypes
<1>2. Remaining(<<>>)
  <2>1. CallsPerMessage = <<>>
      BY DEF Init, CallsPerMessage
  <2>2. FlattenSeq(<<>>) = <<>>
      BY DEF FlattenSeq
  <2> QED BY <2>1, <2>2 DEF Init, Remaining
<1> QED BY <1>1, <1>2 DEF DispatchInv

\* A step that reads no message and registers no handler, and after which the same
\* calls remain.
LEMMA SameRest ==
    ASSUME DispatchInv, DispatchTypes', UNCHANGED <<handlers, read, log>>,
           task' = "reading" => task = "reading" \/ read = <<>>,
           task' = "handling" => task = "handling" /\ left' = left
    PROVE  DispatchInv'
<1>1. PICK rest : Remaining(rest)
    BY DEF DispatchInv
<1>2. CallsPerMessage' = CallsPerMessage
    BY DEF CallsPerMessage, HandlersFor
<1>3. read = <<>> => rest = <<>>
  <2> SUFFICES ASSUME read = <<>> PROVE rest = <<>>
      OBVIOUS
  <2>1. CallsPerMessage = <<>>
      BY DEF CallsPerMessage
  <2>2. FlattenSeq(<<>>) = <<>>
      BY DEF FlattenSeq
  <2> QED BY <1>1, <2>1, <2>2 DEF Remaining, DispatchInv, DispatchTypes
<1>4. Remaining(rest)'
    BY <1>1, <1>2, <1>3 DEF Remaining, HandlersFor
<1> QED BY <1>4 DEF DispatchInv

\* A message more is one more sequence of calls.
LEMMA ReceiveDispatch ==
    ASSUME DispatchInv, NEW t \in Types, Receive(t)
    PROVE  DispatchInv'
<1> DEFINE k == Len(read) + 1
           hs == HandlersFor(t)
<1>1. /\ task = "reading" /\ read' = Append(read, t) /\ RunHandlers(hs, k)
      /\ UNCHANGED handlers
    BY ReceiveDispatches DEF Receive
<1>2. DispatchTypes /\ hs \in Seq(Handlers) /\ k \in Nat /\ log \in Seq(HandlerCall)
    BY HandlersForTyped DEF DispatchInv, DispatchTypes
<1>3. PICK rest : Remaining(rest)
    BY DEF DispatchInv
<1>4. log = FlattenSeq(CallsPerMessage)
    BY <1>1, <1>2, <1>3 DEF Remaining
<1>5. CallsPerMessage \in Seq(Seq(HandlerCall))
  <2>1. \A i \in 1..Len(read) : Calls(HandlersFor(read[i]), i) \in Seq(HandlerCall)
      BY SMTT(60), <1>2, CallsTyped, HandlersForTyped DEF DispatchTypes
  <2>2. DOMAIN read = 1..Len(read) /\ Len(read) \in Nat
      BY <1>2 DEF DispatchTypes
  <2> QED BY <2>1, <2>2 DEF CallsPerMessage
<1>6. CallsPerMessage' = Append(CallsPerMessage, Calls(hs, k))
  <2>1. /\ read \in Seq(Types) /\ DOMAIN read' = 1..k /\ DOMAIN read = 1..Len(read)
        /\ read'[k] = t /\ \A i \in 1..Len(read) : read'[i] = read[i]
      BY <1>1, <1>2 DEF DispatchTypes
  <2>2. CallsPerMessage' = [i \in 1..k |-> Calls(HandlersFor(read'[i]), i)]
      BY <1>1, <2>1 DEF CallsPerMessage, HandlersFor
  <2>3. Len(CallsPerMessage) = Len(read) /\ \A i \in 1..Len(read) : CallsPerMessage[i] = Calls(HandlersFor(read[i]), i)
      BY <2>1 DEF CallsPerMessage
  <2>4. Append(CallsPerMessage, Calls(hs, k)) =
            [i \in 1..k |-> IF i = k THEN Calls(hs, k) ELSE CallsPerMessage[i]]
      BY <1>5, <2>3
  <2>5. ASSUME NEW i \in 1..k
        PROVE  Calls(HandlersFor(read'[i]), i) = IF i = k THEN Calls(hs, k) ELSE CallsPerMessage[i]
    <3>1. CASE i = k
        BY <2>1, <3>1
    <3>2. CASE i # k
      <4>1. i \in 1..Len(read)
          BY <1>2, <3>2 DEF DispatchTypes
      <4> QED BY <2>1, <2>3, <3>2, <4>1
    <3> QED BY <3>1, <3>2
  <2> HIDE DEF k, hs
  <2> QED BY <2>2, <2>4, <2>5
<1> HIDE DEF k, hs
<1>7. FlattenSeq(CallsPerMessage') = log \o Calls(hs, k)
    BY <1>2, <1>4, <1>5, <1>6, CallsTyped, FlattenAppend
<1>8. /\ log' \in Seq(HandlerCall) /\ left' \in Seq(Handlers)
      /\ task' \in {"reading", "handling", "done"}
      /\ \E r \in Seq(HandlerCall) :
            /\ log' \o r = log \o Calls(hs, k)
            /\ task' = "reading" => r = <<>>
            /\ task' = "handling" => r = Calls(left', k)
            /\ Len(r) <= Len(hs)
    BY <1>1, <1>2, RunHandlersCalls
<1>9. PICK r \in Seq(HandlerCall) :
            /\ log' \o r = log \o Calls(hs, k)
            /\ task' = "reading" => r = <<>>
            /\ task' = "handling" => r = Calls(left', k)
            /\ Len(r) <= Len(hs)
    BY <1>8
<1>10. read' \in Seq(Types) /\ read' # <<>> /\ Len(read') = k /\ read'[Len(read')] = t
  <2>1. read \in Seq(Types)
      BY <1>2 DEF DispatchTypes
  <2>2. Append(read, t) \in Seq(Types) /\ Len(Append(read, t)) = k /\ Append(read, t)[k] = t
      BY <2>1 DEF k
  <2>3. Append(read, t) # <<>>
      BY <2>1
  <2> QED BY <1>1, <2>2, <2>3
<1>11. DispatchTypes'
    BY <1>1, <1>2, <1>8, <1>10 DEF DispatchTypes
<1>12. HandlersFor(read[Len(read)])' = hs
    BY <1>1, <1>10 DEF HandlersFor, hs
<1>13. FlattenSeq(CallsPerMessage)' = FlattenSeq(CallsPerMessage')
    OBVIOUS
<1>14. Remaining(r)'
    BY <1>7, <1>9, <1>10, <1>12, <1>13 DEF Remaining
<1> QED BY <1>11, <1>14 DEF DispatchInv

\* The awaited handler returns: the calls that were left go on, or end with it.
LEMMA HandlerReturnsDispatch ==
    ASSUME DispatchInv, HandlerReturns
    PROVE  DispatchInv'
<1>1. task = "handling" /\ UNCHANGED <<handlers, read>>
    BY DEF HandlerReturns
<1>2. DispatchTypes
    BY DEF DispatchInv
<1>3. CASE EndTask("handler") /\ UNCHANGED log
  <2>1. DispatchTypes'
      BY <1>1, <1>2, <1>3 DEF DispatchTypes, EndTask
  <2> QED BY <1>1, <1>3, <2>1, SameRest DEF EndTask
<1>4. CASE RunHandlers(left, Len(read))
  <2> DEFINE k == Len(read)
  <2>1. PICK rest : Remaining(rest)
      BY DEF DispatchInv
  <2>2. rest = Calls(left, k) /\ left \in Seq(Handlers) /\ k \in Nat /\ log \in Seq(HandlerCall)
      BY <1>1, <1>2, <2>1 DEF Remaining, DispatchTypes
  <2> HIDE DEF k
  <2>3. /\ log' \in Seq(HandlerCall) /\ left' \in Seq(Handlers)
        /\ task' \in {"reading", "handling", "done"}
        /\ \E r \in Seq(HandlerCall) :
              /\ log' \o r = log \o Calls(left, k)
              /\ task' = "reading" => r = <<>>
              /\ task' = "handling" => r = Calls(left', k)
              /\ Len(r) <= Len(left)
      BY <1>4, <2>2, RunHandlersCalls DEF k
  <2>4. PICK r \in Seq(HandlerCall) :
              /\ log' \o r = log \o Calls(left, k)
              /\ task' = "reading" => r = <<>>
              /\ task' = "handling" => r = Calls(left', k)
              /\ Len(r) <= Len(left)
      BY <2>3
  <2>5. CallsPerMessage' = CallsPerMessage
      BY <1>1 DEF CallsPerMessage, HandlersFor
  <2>6. Len(rest) = Len(left)
      BY <2>2, CallsTyped
  <2>7. read # <<>> /\ HandlersFor(read[k]) \in Seq(Handlers) /\ Len(left) <= Len(HandlersFor(read[k]))
    <3>1. read # <<>> /\ read[k] \in Types
        BY <1>1, <1>2 DEF DispatchTypes, k
    <3> QED BY <1>2, <2>1, <2>6, <3>1, HandlersForTyped DEF Remaining, k
  <2>8. DispatchTypes'
      BY <1>1, <1>2, <2>3, <2>7 DEF DispatchTypes
  <2>9. Len(r) <= Len(HandlersFor(read[k]))
      BY <2>2, <2>4, <2>7
  <2>10. Remaining(r)'
    <3>1. log' \o r = FlattenSeq(CallsPerMessage)
        BY <2>1, <2>2, <2>4 DEF Remaining
    <3>2. HandlersFor(read[Len(read)])' = HandlersFor(read[k])
        BY <1>1 DEF HandlersFor, k
    <3>3. Len(read') = k /\ read' = read
        BY <1>1 DEF k
    <3> QED BY <2>4, <2>5, <2>9, <3>1, <3>2, <3>3 DEF Remaining
  <2> QED BY <2>8, <2>10 DEF DispatchInv
<1> QED BY <1>3, <1>4 DEF HandlerReturns

\* Every step keeps the order of the calls.
LEMMA StepDispatch == DispatchInv /\ [Next]_vars => DispatchInv'
<1> SUFFICES ASSUME DispatchInv, [Next]_vars PROVE DispatchInv'
    OBVIOUS
<1>1. DispatchTypes
    BY DEF DispatchInv
<1>2. ASSUME NEW s \in Subscriptions, On(s[1], s[2]) PROVE DispatchInv'
  <2>1. read = <<>> /\ log = <<>> /\ task = "none" /\ UNCHANGED <<task, left, read, log>>
      BY <1>1, <1>2 DEF On, DispatchTypes
  <2>2. handlers' = [handlers EXCEPT ![s[1]] = Append(@, s[2])]
      BY <1>2 DEF On
  <2>3. s[2] \in Handlers /\ s[1] \in Types \cup {"*"}
      BY SubscriptionsAssumption DEF Handlers
  <2>4. handlers' \in [Types \cup {"*"} -> Seq(Handlers)]
      BY <1>1, <2>2, <2>3 DEF DispatchTypes
  <2>5. DispatchTypes'
      BY <1>1, <2>1, <2>4 DEF DispatchTypes
  <2>6. CallsPerMessage' = <<>> /\ FlattenSeq(<<>>) = <<>>
      BY <2>1 DEF CallsPerMessage, FlattenSeq
  <2>7. Remaining(<<>>)'
      BY <2>1, <2>6 DEF Remaining
  <2> QED BY <2>5, <2>7 DEF DispatchInv
<1>3. CASE /\ UNCHANGED <<handlers, read, log>>
           /\ \/ UNCHANGED <<task, left>>
              \/ task = "none" /\ task' = "created" /\ UNCHANGED left
              \/ task = "created" /\ task' \in {"reading", "done"} /\ UNCHANGED left
              \/ task' = "done" /\ left' = <<>>
  <2>1. task \in {"none", "created"} => read = <<>>
      BY <1>1 DEF DispatchTypes
  <2>2. left' \in Seq(Handlers)
    <3>1. <<>> \in Seq(Handlers) /\ left \in Seq(Handlers) /\ (left' = left \/ left' = <<>>)
        BY <1>1, <1>3 DEF DispatchTypes
    <3> QED BY <3>1
  <2>3. DispatchTypes'
      BY <1>1, <1>3, <2>2 DEF DispatchTypes
  <2> QED BY <1>3, <2>1, <2>3, SameRest
<1>4. CASE TaskStarts \/ ReadFails \/ TaskCancelled
    BY <1>3, <1>4 DEF TaskStarts, ReadFails, TaskCancelled, EndTask
<1>5. CASE \E w \in Waits : WaitFor(w[1], w[2])
    BY <1>3, <1>5 DEF WaitFor
<1>6. CASE \E c \in Callers : TimeOut(c) \/ WaitForReturns(c)
    BY <1>3, <1>6 DEF TimeOut, WaitForReturns
<1>7. CASE ConnectionLost \/ Start \/ Send \/ CloseCalled \/ CloseJoined \/ CloseReturns
    BY <1>3, <1>7 DEF ConnectionLost, Start, Send, CloseCalled, CloseJoined, CloseReturns
<1>8. CASE UNCHANGED vars
    BY <1>3, <1>8 DEF vars
<1> QED
    BY <1>2, <1>4, <1>5, <1>6, <1>7, <1>8, ReceiveDispatch, HandlerReturnsDispatch DEF Next

\* The invariant of the dispatch implies the property.
LEMMA DispatchOrdered == DispatchInv => DispatchInOrder
<1> SUFFICES ASSUME DispatchInv PROVE DispatchInOrder
    OBVIOUS
<1> DEFINE expected == FlattenSeq(CallsPerMessage)
<1>1. PICK rest : Remaining(rest)
    BY DEF DispatchInv
<1>2. /\ rest \in Seq(HandlerCall) /\ log \in Seq(HandlerCall) /\ log \o rest = expected
      /\ task = "reading" => rest = <<>>
      /\ read # <<>> => Len(rest) <= Len(HandlersFor(read[Len(read)]))
    BY <1>1 DEF DispatchInv, DispatchTypes, Remaining
<1>3. CallsPerMessage = [k \in DOMAIN read |->
          [i \in DOMAIN (handlers[read[k]] \o handlers["*"]) |->
              <<(handlers[read[k]] \o handlers["*"])[i], k>>]]
  <2>1. \A k \in DOMAIN read : HandlersFor(read[k]) \in Seq(Handlers)
      BY HandlersForTyped DEF DispatchInv, DispatchTypes
  <2>2. \A k \in DOMAIN read : DOMAIN HandlersFor(read[k]) = 1..Len(HandlersFor(read[k]))
      BY <2>1
  <2> QED BY <2>2 DEF CallsPerMessage, Calls, HandlersFor
<1> HIDE DEF expected
<1>4. IsPrefix(log, expected) /\ Len(expected) = Len(log) + Len(rest)
  <2>1. Len(log \o rest) = Len(log) + Len(rest) /\ Len(log) \in Nat /\ Len(rest) \in Nat
      BY <1>2
  <2>2. SubSeq(log, 1, Len(log)) = SubSeq(log \o rest, 1, Len(log))
      BY <1>2
  <2> QED BY <1>2, <2>1, <2>2 DEF IsPrefix
<1>5. task = "reading" => log = expected
    BY <1>2
<1>6. ASSUME read # <<>>
      PROVE  Len(log) >= Len(expected) - Len(Calls(HandlersFor(read[Len(read)]), Len(read)))
  <2>1. read \in Seq(Types) /\ read[Len(read)] \in Types /\ Len(read) \in Nat
      BY <1>6 DEF DispatchInv, DispatchTypes
  <2>2. HandlersFor(read[Len(read)]) \in Seq(Handlers)
      BY <2>1, HandlersForTyped DEF DispatchInv
  <2> DEFINE most == Len(HandlersFor(read[Len(read)]))
  <2>3. Len(Calls(HandlersFor(read[Len(read)]), Len(read))) = most /\ most \in Nat
      BY <2>1, <2>2, CallsTyped
  <2>4. Len(rest) <= most /\ Len(rest) \in Nat /\ Len(log) \in Nat
      BY <1>2, <1>6
  <2> HIDE DEF most
  <2> QED BY <1>4, <2>3, <2>4
<1>7. ASSUME read # <<>>
      PROVE  Calls(HandlersFor(read[Len(read)]), Len(read)) =
                 [i \in DOMAIN (handlers[read[Len(read)]] \o handlers["*"]) |->
                     <<(handlers[read[Len(read)]] \o handlers["*"])[i], Len(read)>>]
  <2>1. read[Len(read)] \in Types
      BY <1>7 DEF DispatchInv, DispatchTypes
  <2>2. HandlersFor(read[Len(read)]) \in Seq(Handlers)
      BY <2>1, HandlersForTyped DEF DispatchInv
  <2>3. DOMAIN HandlersFor(read[Len(read)]) = 1..Len(HandlersFor(read[Len(read)]))
      BY <2>2
  <2> QED BY <2>3 DEF Calls, HandlersFor
<1> QED BY <1>3, <1>4, <1>5, <1>6, <1>7 DEF DispatchInOrder, expected

-----------------------------------------------------------------------------
(***************************************************************************)
(* Why the receive task ends. While a handler is awaited, the call made    *)
(* last is its call with the message read last, which is what the task     *)
(* ends with if the handler raises.                                        *)
(***************************************************************************)
CauseInv ==
    /\ TaskEndsForCause
    /\ task = "handling" => Last(log)[2] = Len(read)

\* The handler that suspends or raises is the one called last.
LEMMA RunHandlersCause ==
    ASSUME NEW hs \in Seq(Handlers), NEW k \in Nat, log \in Seq(HandlerCall), RunHandlers(hs, k)
    PROVE  /\ task' = "done" => error' = "handler" /\ Last(log')[1] \in Failing
           /\ task' # "done" => error' = error
           /\ task' \in {"handling", "done"} => Last(log')[2] = k
<1>1. CASE task' = "reading" /\ error' = error
    BY <1>1
<1>2. ASSUME NEW n \in DOMAIN hs, log' = log \o [i \in 1..n |-> <<hs[i], k>>]
      PROVE  Last(log') = <<hs[n], k>>
  <2> DEFINE made == [i \in 1..n |-> <<hs[i], k>>]
  <2>1. n \in 1..Len(hs) /\ n \in Nat /\ n >= 1
      OBVIOUS
  <2>2. made \in Seq(HandlerCall) /\ Len(made) = n /\ made[n] = <<hs[n], k>>
      BY <2>1 DEF HandlerCall
  <2> HIDE DEF made
  <2>3. Len(log \o made) = Len(log) + n /\ (log \o made)[Len(log) + n] = made[n]
      BY <2>1, <2>2
  <2> QED BY <1>2, <2>2, <2>3 DEF Last, made
<1>3. CASE \E n \in DOMAIN hs :
              /\ log' = log \o [i \in 1..n |-> <<hs[i], k>>]
              /\ task' = "handling" /\ error' = error
  <2>1. PICK n \in DOMAIN hs :
              /\ log' = log \o [i \in 1..n |-> <<hs[i], k>>]
              /\ task' = "handling" /\ error' = error
      BY <1>3
  <2>2. Last(log') = <<hs[n], k>>
      BY <1>2, <2>1
  <2>3. Last(log')[1] = hs[n] /\ Last(log')[2] = k
      BY <2>2
  <2> QED BY <2>1, <2>3
<1>4. CASE \E n \in DOMAIN hs :
              /\ log' = log \o [i \in 1..n |-> <<hs[i], k>>]
              /\ hs[n] \in Failing /\ task' = "done" /\ error' = "handler"
  <2>1. PICK n \in DOMAIN hs :
              /\ log' = log \o [i \in 1..n |-> <<hs[i], k>>]
              /\ hs[n] \in Failing /\ task' = "done" /\ error' = "handler"
      BY <1>4
  <2>2. Last(log') = <<hs[n], k>>
      BY <1>2, <2>1
  <2>3. Last(log')[1] = hs[n] /\ Last(log')[2] = k
      BY <2>2
  <2> QED BY <2>1, <2>3
<1> QED BY <1>1, <1>3, <1>4 DEF RunHandlers, EndTask

\* Every step keeps the cause: a task that goes on has no error, and one that is
\* over takes no further step.
LEMMA StepCause == CauseInv /\ IInv /\ DispatchInv /\ [Next]_vars => CauseInv'
<1> SUFFICES ASSUME CauseInv, IInv, DispatchInv, [Next]_vars PROVE CauseInv'
    OBVIOUS
<1>1. DispatchTypes /\ CloseOK /\ TaskOK
    BY TypeOKParts DEF DispatchInv, IInv, WaitersExact
<1>2. ASSUME NEW t \in Types, Receive(t) PROVE CauseInv'
  <2> DEFINE k == Len(read) + 1
  <2>1. RunHandlers(HandlersFor(t), k) /\ task = "reading" /\ read' = Append(read, t)
      BY <1>2, ReceiveDispatches DEF Receive
  <2>2. k \in Nat /\ Len(read') = k /\ HandlersFor(t) \in Seq(Handlers) /\ log \in Seq(HandlerCall)
      BY <1>1, <2>1, HandlersForTyped DEF DispatchTypes
  <2> HIDE DEF k
  <2>3. error = "none"
      BY <1>1, <2>1 DEF CauseInv, TaskEndsForCause
  <2> QED BY <2>1, <2>2, <2>3, RunHandlersCause, RunHandlersFacts DEF CauseInv, TaskEndsForCause
<1>3. CASE HandlerReturns
  <2>1. /\ task = "handling" /\ error = "none" /\ UNCHANGED read
        /\ Last(log)[2] = Len(read)
      BY <1>1, <1>3 DEF HandlerReturns, CauseInv, TaskEndsForCause
  <2>2. CASE RunHandlers(left, Len(read))
    <3>1. Len(read) \in Nat /\ left \in Seq(Handlers) /\ log \in Seq(HandlerCall)
        BY <1>1 DEF DispatchTypes
    <3> QED BY <2>1, <2>2, <3>1, RunHandlersCause, RunHandlersFacts DEF CauseInv, TaskEndsForCause
  <2>3. CASE log[Len(log)][1] \in Failing /\ EndTask("handler") /\ UNCHANGED log
      BY <2>1, <2>3 DEF EndTask, Last, CauseInv, TaskEndsForCause
  <2> QED BY <1>3, <2>2, <2>3 DEF HandlerReturns
<1>4. CASE ReadFails
    BY <1>4 DEF ReadFails, EndTask, CauseInv, TaskEndsForCause
<1>5. CASE TaskStarts \/ TaskCancelled
  <2>1. task \in {"created", "reading", "handling"} /\ UNCHANGED <<cancelled, read, log>>
      BY <1>5 DEF TaskStarts, TaskCancelled
  <2>2. error = "none" /\ error' = "none"
      BY <1>5, <2>1 DEF TaskStarts, TaskCancelled, EndTask, CauseInv, TaskEndsForCause
  <2>3. task' = "reading" \/ (task' = "done" /\ cancelled)
      BY <1>5 DEF TaskStarts, TaskCancelled, EndTask
  <2> QED BY <2>1, <2>2, <2>3 DEF CauseInv, TaskEndsForCause
<1>6. CASE /\ UNCHANGED <<error, log, read>>
           /\ UNCHANGED task \/ (task = "none" /\ task' = "created")
           /\ UNCHANGED cancelled \/ CloseCalled
  <2>1. task = "done" /\ error = "none" => cancelled' /\ UNCHANGED cancelled
    <3>1. CASE cancelled' = cancelled
        BY <3>1 DEF CauseInv, TaskEndsForCause
    <3>2. CASE CloseCalled
      <4>1. ~cancelled
          BY <1>1, <3>2 DEF CloseCalled, CloseOK
      <4>2. ~(task = "done" /\ error = "none")
          BY <4>1 DEF CauseInv, TaskEndsForCause
      <4> QED BY <4>2
    <3> QED BY <1>6, <3>1, <3>2
  <2>2. task # "done" => task' # "done"
      BY <1>6
  <2>3. task = "none" => error = "none"
      BY DEF CauseInv, TaskEndsForCause
  <2> QED BY <1>6, <2>1, <2>2, <2>3 DEF CauseInv, TaskEndsForCause
<1>7. CASE \/ ConnectionLost \/ Start \/ Send \/ CloseCalled \/ CloseJoined \/ CloseReturns
           \/ \E s \in Subscriptions : On(s[1], s[2])
           \/ \E w \in Waits : WaitFor(w[1], w[2])
           \/ \E c \in Callers : TimeOut(c) \/ WaitForReturns(c)
    BY <1>6, <1>7 DEF ConnectionLost, Start, Send, CloseCalled, CloseJoined, CloseReturns, On,
        WaitFor, TimeOut, WaitForReturns
<1>8. CASE UNCHANGED vars
    BY <1>6, <1>8 DEF vars
<1> QED BY <1>2, <1>3, <1>4, <1>5, <1>7, <1>8 DEF Next

-----------------------------------------------------------------------------
\* The inductive invariant of the client's tasks.
THEOREM ClientInvariant == Spec => []IInv
<1>1. Init => IInv
    BY InitIInv
<1>2. IInv /\ [Next]_vars => IInv'
    BY StepIInv
<1> QED BY <1>1, <1>2, PTL DEF Spec

\* For any callers and types, _waiters lists exactly the calls that could still get
\* a message, and every future that waits is among them.
THEOREM WaitersStayExact == Spec => []WaitersExact
BY ClientInvariant, PTL DEF IInv

\* What wait_for returns is the first message of its type read after the call.
THEOREM NextMessageDelivered == Spec => []WaiterGetsNext
BY ClientInvariant, PTL DEF IInv

\* Once close() has returned, the task it cancelled is over and the connection gone.
THEOREM CloseLeavesQuiet == Spec => []QuietAfterClose
BY ClientInvariant, PTL DEF IInv

\* Handlers are called with the messages in the order they were read, each once,
\* also when a handler awaits, raises, or the task is cancelled in between.
THEOREM DispatchStaysInOrder == Spec => []DispatchInOrder
<1>1. Init => DispatchInv
    BY InitDispatch
<1>2. DispatchInv /\ [Next]_vars => DispatchInv'
    BY StepDispatch
<1>3. DispatchInv => DispatchInOrder
    BY DispatchOrdered
<1> QED BY <1>1, <1>2, <1>3, PTL DEF Spec

\* The receive task ends only by an error of the connection, an exception of the
\* handler it called last, or the cancel of close(): for any number of calls that
\* time out while messages arrive, none ends it with an InvalidStateError.
THEOREM TaskEndsOnlyForCause == Spec => []TaskEndsForCause
<1>1. Init => CauseInv
    BY DEF Init, CauseInv, TaskEndsForCause
<1>2. Init => DispatchInv
    BY InitDispatch
<1>3. DispatchInv /\ [Next]_vars => DispatchInv'
    BY StepDispatch
<1>4. CauseInv /\ IInv /\ DispatchInv /\ [Next]_vars => CauseInv'
    BY StepCause
<1>5. CauseInv => TaskEndsForCause
    BY DEF CauseInv
<1> QED BY <1>1, <1>2, <1>3, <1>4, <1>5, ClientInvariant, PTL DEF Spec
=============================================================================

