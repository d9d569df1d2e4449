--------------------------- MODULE OrderBookProofs ---------------------------
(***************************************************************************)
(* The engine's lists, level vectors, index and pool agree at every round  *)
(* of the match loop, the levels' totals are the sums of their queues, and *)
(* the engine implements MatchingBook, for every capacity and all orders.  *)
(***************************************************************************)
EXTENDS OrderBook, SequenceTheorems, FiniteSetTheorems, WellFoundedInduction, TLAPS

-----------------------------------------------------------------------------
(***************************************************************************)
(* The pool. Chain(h, n, s) says that s lists the free slots of heap h in  *)
(* the order the links visit them. FreeListIntact hides s behind an        *)
(* existential; the proofs carry it: allocate shifts the list by one,      *)
(* deallocate prepends.                                                    *)
(***************************************************************************)
Chain(h, n, s) ==
    /\ s \in [1..n -> Slots]
    /\ \A i, j \in 1..n : s[i] = s[j] => i = j
    /\ \A o \in Slots : h.isAllocated[o] <=> \A i \in 1..n : s[i] # o
    /\ h.freeList = IF n = 0 THEN Null ELSE s[1]
    /\ \A i \in 1..n : h.next[s[i]] = IF i = n THEN Null ELSE s[i + 1]

\* FreeListIntact, with its witness made explicit.
LEMMA IntactIsChain ==
    FreeListIntact <=> \E s : Chain(heap, heap.freeCount, s)
BY DEF FreeListIntact, Chain

\* The list of a fresh pool is the array in address order.
LEMMA InitChain ==
    Chain(HeapInit, Capacity, [i \in 1..Capacity |-> i])
BY CapacityAssumption DEF Chain, HeapInit, Slots, Null

\* A slot is never the null pointer.
LEMMA SlotsNotNull ==
    /\ Null \notin Slots
    /\ Slots \subseteq Nat
BY CapacityAssumption DEF Slots, Null

\* allocate() keeps the members in range.
LEMMA AllocateType ==
    ASSUME NEW h \in Heap, CanAllocate(h)
    PROVE  Allocate(h) \in Heap
<1>1. h.freeList \in Slots
    BY DEF Heap, CanAllocate, Ptr
<1>2. h.freeCount - 1 \in 0..Capacity
    BY CapacityAssumption DEF Heap, CanAllocate
<1>3. h.next[h.freeList] \in Ptr /\ Null \in Ptr
    BY <1>1 DEF Heap, Ptr
<1> QED
    BY <1>1, <1>2, <1>3 DEF Heap, Allocate

\* After allocate() the list is the old one without its first slot.
LEMMA AllocateChain ==
    ASSUME NEW h \in Heap, CanAllocate(h), NEW s, Chain(h, h.freeCount, s)
    PROVE  Chain(Allocate(h), h.freeCount - 1, [i \in 1..(h.freeCount - 1) |-> s[i + 1]])
<1> DEFINE n == h.freeCount
           t == [i \in 1..(n - 1) |-> s[i + 1]]
           g == Allocate(h)
<1>1. n \in Nat /\ n > 0 /\ s[1] = h.freeList /\ s[1] \in Slots
    BY CapacityAssumption DEF Heap, CanAllocate, Chain, Null
<1>2. /\ g.next = [h.next EXCEPT ![s[1]] = Null]
      /\ g.freeList = h.next[s[1]]
      /\ g.isAllocated = [h.isAllocated EXCEPT ![s[1]] = TRUE]
    BY <1>1 DEF Allocate
<1>3. \A i \in 1..(n - 1) : i + 1 \in 1..n /\ t[i] = s[i + 1]
    BY <1>1
<1>4. t \in [1..(n - 1) -> Slots]
    BY <1>3 DEF Chain
<1>5. \A i, j \in 1..(n - 1) : t[i] = t[j] => i = j
    BY <1>1, <1>3 DEF Chain
<1>6. \A i \in 1..(n - 1) : t[i] # s[1]
    BY <1>1, <1>3 DEF Chain
<1>7. \A o \in Slots : g.isAllocated[o] <=> \A i \in 1..(n - 1) : t[i] # o
  <2> TAKE o \in Slots
  <2>1. CASE o = s[1]
      BY <2>1, <1>2, <1>6, <1>1 DEF Heap
  <2>2. CASE o # s[1]
    <3>1. g.isAllocated[o] = h.isAllocated[o]
        BY <2>2, <1>2, <1>1 DEF Heap
    <3>2. (\A i \in 1..n : s[i] # o) <=> (\A i \in 1..(n - 1) : t[i] # o)
      <4>1. ASSUME \A i \in 1..(n - 1) : t[i] # o, NEW i \in 1..n
            PROVE  s[i] # o
        <5>1. CASE i = 1
            BY <5>1, <2>2
        <5>2. CASE i # 1
          <6>1. i - 1 \in 1..(n - 1) /\ (i - 1) + 1 = i
              BY <5>2, <1>1
          <6>2. t[i - 1] = s[i]
              BY <6>1, <1>3
          <6> QED BY <6>1, <6>2, <4>1
        <5> QED BY <5>1, <5>2
      <4> QED BY <4>1, <1>3
    <3> QED BY <3>1, <3>2 DEF Chain
  <2> QED BY <2>1, <2>2
<1>8. g.freeList = IF n - 1 = 0 THEN Null ELSE t[1]
    BY SMTT(60), <1>1, <1>2, <1>3 DEF Chain
<1>9. ASSUME NEW i \in 1..(n - 1)
      PROVE  g.next[t[i]] = IF i = n - 1 THEN Null ELSE t[i + 1]
  <2>1. t[i] \in Slots /\ g.next[t[i]] = h.next[s[i + 1]]
      BY <1>2, <1>3, <1>4, <1>6 DEF Heap
  <2>2. h.next[s[i + 1]] = IF i + 1 = n THEN Null ELSE s[i + 2]
      BY <1>1, <1>3 DEF Chain
  <2>3. i # n - 1 => t[i + 1] = s[i + 2]
      BY <1>1, <1>3
  <2> QED BY <1>1, <2>1, <2>2, <2>3
<1> QED
    BY <1>4, <1>5, <1>7, <1>8, <1>9 DEF Chain

\* deallocate() keeps the members in range.
LEMMA DeallocateType ==
    ASSUME NEW h \in Heap, NEW o \in Slots, h.freeCount < Capacity
    PROVE  Deallocate(h, o) \in Heap
<1>1. h.freeCount + 1 \in 0..Capacity
    BY CapacityAssumption DEF Heap
<1>2. o \in Ptr
    BY DEF Ptr
<1> QED
    BY <1>1, <1>2 DEF Heap, Deallocate

\* After deallocate(o) the list is o followed by the old one.
LEMMA DeallocateChain ==
    ASSUME NEW h \in Heap, NEW o \in Slots, h.isAllocated[o],
           NEW s, Chain(h, h.freeCount, s)
    PROVE  Chain(Deallocate(h, o), h.freeCount + 1,
                 [i \in 1..(h.freeCount + 1) |-> IF i = 1 THEN o ELSE s[i - 1]])
<1> DEFINE n == h.freeCount
           t == [i \in 1..(n + 1) |-> IF i = 1 THEN o ELSE s[i - 1]]
           g == Deallocate(h, o)
<1>1. n \in Nat
    BY CapacityAssumption DEF Heap
<1>2. /\ g.next = [h.next EXCEPT ![o] = h.freeList]
      /\ g.freeList = o
      /\ g.isAllocated = [h.isAllocated EXCEPT ![o] = FALSE]
    BY DEF Deallocate
<1>3. t[1] = o /\ \A i \in 1..n : i + 1 \in 1..(n + 1) /\ t[i + 1] = s[i]
    BY <1>1
<1>4. \A i \in 1..(n + 1) : i # 1 => i - 1 \in 1..n /\ t[i] = s[i - 1]
    BY <1>1
<1>5. \A i \in 1..n : s[i] \in Slots /\ s[i] # o
    BY DEF Chain
<1>6. t \in [1..(n + 1) -> Slots]
    BY <1>4, <1>5, <1>1
<1>7. ASSUME NEW i \in 1..(n + 1), NEW j \in 1..(n + 1), t[i] = t[j]
      PROVE  i = j
  <2>1. CASE i = 1 \/ j = 1
      BY <2>1, <1>7, <1>3, <1>4, <1>5
  <2>2. CASE i # 1 /\ j # 1
    <3>1. s[i - 1] = s[j - 1] /\ i - 1 \in 1..n /\ j - 1 \in 1..n
        BY <2>2, <1>7, <1>4
    <3>2. i - 1 = j - 1
        BY <3>1 DEF Chain
    <3> QED BY <3>2, <1>1
  <2> QED BY <2>1, <2>2
<1>8. ASSUME NEW p \in Slots
      PROVE  g.isAllocated[p] <=> \A i \in 1..(n + 1) : t[i] # p
  <2>1. CASE p = o
      BY <2>1, <1>1, <1>2, <1>3 DEF Heap
  <2>2. CASE p # o
    <3>1. g.isAllocated[p] = h.isAllocated[p]
        BY <2>2, <1>2 DEF Heap
    <3>2. (\A i \in 1..n : s[i] # p) <=> (\A i \in 1..(n + 1) : t[i] # p)
      <4>1. ASSUME \A i \in 1..n : s[i] # p, NEW i \in 1..(n + 1)
            PROVE  t[i] # p
          BY <4>1, <2>2, <1>3, <1>4
      <4> QED BY <4>1, <1>3
    <3> QED BY <3>1, <3>2 DEF Chain
  <2> QED BY <2>1, <2>2
<1>9. ASSUME NEW i \in 1..(n + 1)
      PROVE  g.next[t[i]] = IF i = n + 1 THEN Null ELSE t[i + 1]
  <2>1. CASE i = 1
    <3>1. g.next[t[i]] = h.freeList
        BY <2>1, <1>2, <1>3 DEF Heap
    <3>2. h.freeList = IF n = 0 THEN Null ELSE s[1]
        BY DEF Chain
    <3>3. n # 0 => t[2] = s[1]
        BY <1>1
    <3> QED BY <2>1, <3>1, <3>2, <3>3, <1>1
  <2>2. CASE i # 1
    <3>1. i - 1 \in 1..n /\ t[i] = s[i - 1] /\ s[i - 1] \in Slots /\ s[i - 1] # o
        BY <2>2, <1>4, <1>5
    <3>2. g.next[t[i]] = h.next[s[i - 1]]
        BY <3>1, <1>2 DEF Heap
    <3>3. h.next[s[i - 1]] = IF i - 1 = n THEN Null ELSE s[(i - 1) + 1]
        BY <3>1 DEF Chain
    <3>4. (i - 1) + 1 = i /\ (i - 1 = n <=> i = n + 1)
        BY <1>1
    <3>5. i # n + 1 => t[i + 1] = s[i]
        BY <1>1, <2>2
    <3> QED BY <3>2, <3>3, <3>4, <3>5
  <2> QED BY <2>1, <2>2
<1>10. g.freeList = IF n + 1 = 0 THEN Null ELSE t[1]
    BY <1>1, <1>2, <1>3
<1>11. Chain(g, n + 1, t)
  <2> HIDE DEF g, t, n
  <2> QED
      BY <1>6, <1>7, <1>8, <1>9, <1>10 DEF Chain
<1> QED
    BY <1>11

\* While an order is in use the free list cannot be full (pigeonhole).
LEMMA InUseNotFull ==
    ASSUME NEW h \in Heap, NEW o \in Slots, h.isAllocated[o],
           NEW s, Chain(h, h.freeCount, s)
    PROVE  h.freeCount < Capacity
<1>1. Capacity \in Nat /\ Capacity > 0 /\ h.freeCount \in 0..Capacity
    BY CapacityAssumption DEF Heap
<1>2. SUFFICES ASSUME h.freeCount = Capacity PROVE FALSE
    BY <1>1
<1>3. IsFiniteSet(Slots) /\ Cardinality(Slots) = Capacity
  <2>1. /\ IsFiniteSet(1..Capacity)
        /\ Cardinality(1..Capacity) = IF 1 > Capacity THEN 0 ELSE Capacity - 1 + 1
      BY <1>1, FS_Interval, 1 \in Int, Capacity \in Int
  <2> QED
      BY <1>1, <2>1 DEF Slots
<1>4. IsFiniteSet(Slots \ {o}) /\ Cardinality(Slots \ {o}) = Capacity - 1
    BY <1>3, FS_RemoveElement
<1>5. s \in [Slots -> Slots \ {o}]
    BY <1>2 DEF Chain, Slots
<1>6. \E x, y \in Slots : x # y /\ s[x] = s[y]
  <2>1. Cardinality(Slots \ {o}) < Cardinality(Slots)
      BY <1>1, <1>3, <1>4
  <2> QED
      BY <1>3, <1>4, <1>5, <2>1, FS_PigeonHole
<1> QED
    BY <1>2, <1>6 DEF Chain, Slots

\* A price level that relinks an order in use does not touch the free list.
LEMMA RelinkChain ==
    ASSUME NEW h \in Heap, NEW o \in Slots, h.isAllocated[o], NEW n \in Ptr, NEW p \in Ptr,
           NEW s, Chain(h, h.freeCount, s)
    PROVE  LET g == [h EXCEPT !.next[o] = n, !.prev[o] = p]
           IN g \in Heap /\ g.freeCount = h.freeCount /\ Chain(g, h.freeCount, s)
<1> DEFINE g == [h EXCEPT !.next[o] = n, !.prev[o] = p]
<1>1. /\ g \in Heap
      /\ g.freeCount = h.freeCount
      /\ g.freeList = h.freeList
      /\ g.isAllocated = h.isAllocated
      /\ g.next = [h.next EXCEPT ![o] = n]
    BY DEF Heap
<1>2. \A i \in 1..h.freeCount : s[i] \in Slots /\ g.next[s[i]] = h.next[s[i]]
    BY <1>1 DEF Chain, Heap
<1>3. Chain(g, h.freeCount, s)
  <2> HIDE DEF g
  <2> QED
      BY <1>1, <1>2 DEF Chain
<1> QED
    BY <1>1, <1>3

\* The inductive invariant: FreeListIntact needs only the type of the members.
Inv == TypeOK /\ FreeListIntact

\* A step of the pool or of its users keeps the members in range and the free
\* list intact.
LEMMA StepInv ==
    ASSUME Inv, [Next]_heap
    PROVE  Inv'
<1> USE DEF Inv, TypeOK
<1>1. heap \in Heap
    OBVIOUS
<1>2. PICK s : Chain(heap, heap.freeCount, s)
    BY IntactIsChain
<1>3. SUFFICES heap' \in Heap /\ \E t : Chain(heap', heap'.freeCount, t)
    BY DEF FreeListIntact, Chain
<1>4. CASE AllocateOrder
  <2>1. CanAllocate(heap) /\ heap' = Allocate(heap)
      BY <1>4 DEF AllocateOrder
  <2>2. heap'.freeCount = heap.freeCount - 1
      BY <2>1 DEF Allocate
  <2> QED
      BY <1>1, <1>2, <2>1, <2>2, AllocateType, AllocateChain
<1>5. ASSUME NEW o \in Slots, DeallocateOrder(o)
      PROVE  heap' \in Heap /\ \E t : Chain(heap', heap'.freeCount, t)
  <2>1. heap.isAllocated[o] /\ heap' = Deallocate(heap, o)
      BY <1>5 DEF DeallocateOrder
  <2>2. heap.freeCount < Capacity
      BY <1>1, <1>2, <2>1, InUseNotFull
  <2>3. heap'.freeCount = heap.freeCount + 1
      BY <2>1 DEF Deallocate
  <2> QED
      BY <1>1, <1>2, <2>1, <2>2, <2>3, DeallocateType, DeallocateChain
<1>6. ASSUME NEW o \in Slots, NEW n \in Ptr, NEW p \in Ptr, RelinkOrder(o, n, p)
      PROVE  heap' \in Heap /\ \E t : Chain(heap', heap'.freeCount, t)
    BY <1>1, <1>2, <1>6, RelinkChain DEF RelinkOrder
<1>7. CASE UNCHANGED heap
    BY <1>1, <1>2, <1>7
<1> QED
    BY <1>4, <1>5, <1>6, <1>7 DEF Next

\* The free list of the pool is intact in every reachable state, for every
\* capacity: allocate() never hands out an order that is in use.
THEOREM FreeListStaysIntact == Spec => [](TypeOK /\ FreeListIntact)
<1>1. Init => Inv
  <2>1. HeapInit \in Heap
      BY CapacityAssumption DEF HeapInit, Heap, Slots, Ptr, Null
  <2>2. HeapInit.freeCount = Capacity
      BY DEF HeapInit
  <2>3. Init => \E s : Chain(heap, heap.freeCount, s)
      BY InitChain, <2>2 DEF Init
  <2> QED
      BY <2>1, <2>3, IntactIsChain DEF Init, Inv, TypeOK
<1>2. Inv /\ [Next]_heap => Inv'
    BY StepInv
<1> QED
    BY <1>1, <1>2, PTL DEF Spec, Inv

\* The assertions of allocate() and deallocate() can fail only when the pool is
\* really exhausted or an order is really freed twice.
THEOREM PoolAssertionsHold == Spec => []AssertionsHold
<1>1. Inv => AssertionsHold
  <2> SUFFICES ASSUME Inv PROVE AssertionsHold
      OBVIOUS
  <2>1. heap \in Heap
      BY DEF Inv, TypeOK
  <2>2. PICK s : Chain(heap, heap.freeCount, s)
      BY IntactIsChain DEF Inv
  <2>3. \A o \in Slots : heap.isAllocated[o] => CanDeallocate(heap, o)
      BY <2>1, <2>2, InUseNotFull DEF CanDeallocate
  <2>4. (heap.freeList = Null) <=> (heap.freeCount = 0)
      BY <2>1, <2>2, SlotsNotNull, CapacityAssumption DEF Chain, Heap
  <2> QED
      BY <2>3, <2>4 DEF AssertionsHold
<1>2. Spec => []Inv
    BY FreeListStaysIntact, PTL DEF Inv
<1> QED
    BY <1>1, <1>2, PTL

-----------------------------------------------------------------------------
(***************************************************************************)
(* Lists.                                                                  *)
(***************************************************************************)
Later(S, s, arrival)   == {t \in S : arrival[s] < arrival[t]}
Earlier(S, s, arrival) == {t \in S : arrival[t] < arrival[s]}

\* The links of all slots but those of S are the same.
SameOutside(S, g, h) == \A s \in Slots \ S : g.next[s] = h.next[s] /\ g.prev[s] = h.prev[s]

\* No two orders of S arrived together.
Ordered(S, arrival) ==
    /\ S \subseteq Slots /\ arrival \in [Slots -> Nat]
    /\ \A s, t \in S : arrival[s] = arrival[t] => s = t

\* A list depends on nothing but the links and arrivals of its own orders.
LEMMA SameLinks ==
    ASSUME NEW h, NEW g, NEW pl, NEW ql, NEW S, NEW arrival, NEW arrival2,
           WellLinked(h, pl, S, arrival), ql.head = pl.head, ql.tail = pl.tail,
           \A s \in S : g.next[s] = h.next[s] /\ g.prev[s] = h.prev[s],
           \A s \in S : arrival2[s] = arrival[s]
    PROVE  WellLinked(g, ql, S, arrival2)
<1>1. \A x : \A T \in SUBSET S : IsFirst(x, T, arrival) <=> IsFirst(x, T, arrival2)
    BY DEF IsFirst
<1>2. \A x : \A T \in SUBSET S : IsLast(x, T, arrival) <=> IsLast(x, T, arrival2)
    BY DEF IsLast
<1>3. IsFirst(ql.head, S, arrival2) /\ IsLast(ql.tail, S, arrival2)
    BY <1>1, <1>2 DEF WellLinked
<1>4. ASSUME NEW s \in S
      PROVE  /\ IsFirst(g.next[s], {t \in S : arrival2[s] < arrival2[t]}, arrival2)
             /\ IsLast(g.prev[s], {t \in S : arrival2[t] < arrival2[s]}, arrival2)
  <2>1. /\ {t \in S : arrival2[s] < arrival2[t]} = {t \in S : arrival[s] < arrival[t]}
        /\ {t \in S : arrival2[t] < arrival2[s]} = {t \in S : arrival[t] < arrival[s]}
      OBVIOUS
  <2>2. /\ {t \in S : arrival[s] < arrival[t]} \in SUBSET S
        /\ {t \in S : arrival[t] < arrival[s]} \in SUBSET S
      OBVIOUS
  <2>3. /\ IsFirst(h.next[s], {t \in S : arrival[s] < arrival[t]}, arrival)
        /\ IsLast(h.prev[s], {t \in S : arrival[t] < arrival[s]}, arrival)
      BY DEF WellLinked
  <2> QED BY <1>1, <1>2, <2>1, <2>2, <2>3
<1> QED BY <1>3, <1>4 DEF WellLinked

\* What addToTail does to the links.
LEMMA AddToTailFields ==
    ASSUME NEW h \in Heap, NEW pl \in PriceLevels, NEW o \in Slots, NEW q \in Nat
    PROVE  LET r == AddToTail(h, pl, o, q)
           IN /\ r.heap \in Heap /\ r.level \in PriceLevels
              /\ r.heap.freeList = h.freeList /\ r.heap.freeCount = h.freeCount
              /\ r.heap.isAllocated = h.isAllocated
              /\ r.heap.prev = [h.prev EXCEPT ![o] = pl.tail]
              /\ r.heap.next = IF pl.head = Null THEN [h.next EXCEPT ![o] = Null]
                               ELSE [[h.next EXCEPT ![o] = Null] EXCEPT ![pl.tail] = o]
              /\ r.level.head = (IF pl.head = Null THEN o ELSE pl.head)
              /\ r.level.tail = o /\ r.level.price = pl.price
<1> DEFINE linked == [h EXCEPT !.next[o] = Null, !.prev[o] = pl.tail]
           g == IF IsEmpty(pl) THEN linked ELSE [linked EXCEPT !.next[pl.tail] = o]
           l == [pl EXCEPT !.head = IF IsEmpty(pl) THEN o ELSE @,
                           !.tail = o,
                           !.totalQuantity = (@ + q) % Modulus]
<1>1. pl.head \in Ptr /\ pl.tail \in Ptr /\ o \in Ptr /\ Null \in Ptr
    BY DEF PriceLevels, Ptr
<1>2. /\ linked \in Heap
      /\ linked.freeList = h.freeList /\ linked.freeCount = h.freeCount
      /\ linked.isAllocated = h.isAllocated
      /\ linked.prev = [h.prev EXCEPT ![o] = pl.tail]
      /\ linked.next = [h.next EXCEPT ![o] = Null]
    BY <1>1 DEF Heap
<1> HIDE DEF linked
<1>3. /\ g \in Heap
      /\ g.freeList = h.freeList /\ g.freeCount = h.freeCount
      /\ g.isAllocated = h.isAllocated
      /\ g.prev = [h.prev EXCEPT ![o] = pl.tail]
      /\ g.next = IF pl.head = Null THEN [h.next EXCEPT ![o] = Null]
                  ELSE [[h.next EXCEPT ![o] = Null] EXCEPT ![pl.tail] = o]
  <2>1. CASE IsEmpty(pl)
      BY <1>2, <2>1 DEF IsEmpty
  <2>2. CASE ~IsEmpty(pl)
    <3>1. g = [linked EXCEPT !.next[pl.tail] = o] /\ pl.head # Null
        BY <2>2 DEF IsEmpty
    <3> HIDE DEF g
    <3> QED BY <1>1, <1>2, <3>1 DEF Heap
  <2> QED BY <2>1, <2>2
<1>4. /\ l \in PriceLevels /\ l.head = (IF pl.head = Null THEN o ELSE pl.head)
      /\ l.tail = o /\ l.price = pl.price
  <2>1. (pl.totalQuantity + q) % Modulus \in 0..(Modulus - 1)
      BY ModulusAssumption DEF PriceLevels
  <2> QED BY <1>1, <2>1 DEF PriceLevels, IsEmpty
<1>5. AddToTail(h, pl, o, q) = [heap |-> g, level |-> l]
    BY DEF AddToTail, linked
<1> HIDE DEF g, l
<1> QED BY <1>3, <1>4, <1>5

\* What addToTail leaves of the pool and makes of the level.
LEMMA AddToTailType ==
    ASSUME NEW h \in Heap, NEW pl \in PriceLevels, NEW o \in Slots, NEW q \in Nat
    PROVE  LET r == AddToTail(h, pl, o, q)
           IN /\ r.heap \in Heap /\ r.level \in PriceLevels
              /\ r.heap.freeList = h.freeList /\ r.heap.freeCount = h.freeCount
              /\ r.heap.isAllocated = h.isAllocated
              /\ r.level.head = (IF pl.head = Null THEN o ELSE pl.head)
              /\ r.level.price = pl.price
<1> DEFINE r == AddToTail(h, pl, o, q)
<1>1. /\ r.heap \in Heap /\ r.level \in PriceLevels
      /\ r.heap.freeList = h.freeList /\ r.heap.freeCount = h.freeCount
      /\ r.heap.isAllocated = h.isAllocated
      /\ r.heap.prev = [h.prev EXCEPT ![o] = pl.tail]
      /\ r.heap.next = IF pl.head = Null THEN [h.next EXCEPT ![o] = Null]
                       ELSE [[h.next EXCEPT ![o] = Null] EXCEPT ![pl.tail] = o]
      /\ r.level.head = (IF pl.head = Null THEN o ELSE pl.head)
      /\ r.level.tail = o /\ r.level.price = pl.price
    BY SMTT(60), AddToTailFields
<1> HIDE DEF r
<1> QED BY <1>1 DEF r

\* The youngest order goes to the tail.
LEMMA AddToTailLinks ==
    ASSUME NEW h \in Heap, NEW pl \in PriceLevels, NEW S, NEW arrival, NEW o \in Slots, NEW q \in Nat,
           Ordered(S, arrival), o \notin S, \A s \in S : arrival[s] < arrival[o],
           WellLinked(h, pl, S, arrival)
    PROVE  LET r == AddToTail(h, pl, o, q)
           IN /\ WellLinked(r.heap, r.level, S \cup {o}, arrival)
              /\ SameOutside(S \cup {o}, r.heap, h)
<1> DEFINE r == AddToTail(h, pl, o, q)
           g == r.heap
           U == S \cup {o}
<1>1. /\ g.prev = [h.prev EXCEPT ![o] = pl.tail]
      /\ g.next = IF pl.head = Null THEN [h.next EXCEPT ![o] = Null]
                  ELSE [[h.next EXCEPT ![o] = Null] EXCEPT ![pl.tail] = o]
      /\ r.level.head = (IF pl.head = Null THEN o ELSE pl.head) /\ r.level.tail = o
    BY SMTT(60), AddToTailFields
<1> HIDE DEF r
<1>2. /\ h.next \in [Slots -> Ptr] /\ h.prev \in [Slots -> Ptr]
      /\ S \subseteq Slots /\ arrival \in [Slots -> Nat] /\ Null \notin Slots
      /\ \A s, t \in S : arrival[s] = arrival[t] => s = t
    BY SlotsNotNull DEF Heap, Ordered
<1>3. /\ IsFirst(pl.head, S, arrival) /\ IsLast(pl.tail, S, arrival)
      /\ \A s \in S : /\ IsFirst(h.next[s], Later(S, s, arrival), arrival)
                      /\ IsLast(h.prev[s], Earlier(S, s, arrival), arrival)
    BY DEF WellLinked, Later, Earlier
<1>4. IsFirst(r.level.head, U, arrival) /\ IsLast(r.level.tail, U, arrival)
    BY <1>1, <1>2, <1>3 DEF IsFirst, IsLast
<1>5. CASE S = {}
  <2>1. pl.head = Null /\ pl.tail = Null /\ U = {o}
      BY <1>3, <1>5 DEF IsFirst, IsLast
  <2>2. g.next[o] = Null /\ g.prev[o] = Null
      BY <1>1, <1>2, <2>1
  <2>3. {t \in U : arrival[o] < arrival[t]} = {} /\ {t \in U : arrival[t] < arrival[o]} = {}
      BY <1>2, <2>1
  <2>4. WellLinked(g, r.level, U, arrival)
      BY <1>4, <2>1, <2>2, <2>3 DEF WellLinked, IsFirst, IsLast
  <2>5. SameOutside(U, g, h)
      BY <1>1, <1>2, <2>1 DEF SameOutside
  <2> QED BY <2>4, <2>5 DEF r
<1>6. CASE S # {}
  <2>1. pl.head # Null /\ pl.tail \in S /\ \A s \in S : arrival[s] <= arrival[pl.tail]
      BY <1>2, <1>3, <1>6 DEF IsFirst, IsLast
  <2>2. /\ g.next[o] = Null /\ g.prev[o] = pl.tail /\ g.next[pl.tail] = o
        /\ \A s \in Slots : s # o => g.prev[s] = h.prev[s]
        /\ \A s \in Slots : s # o /\ s # pl.tail => g.next[s] = h.next[s]
      BY <1>1, <1>2, <2>1
  <2>3. ASSUME NEW s \in U
        PROVE  IsFirst(g.next[s], {t \in U : arrival[s] < arrival[t]}, arrival)
    <3>1. CASE s = o
      <4>1. {t \in U : arrival[s] < arrival[t]} = {}
          BY <1>2, <3>1
      <4> QED BY <2>2, <3>1, <4>1 DEF IsFirst
    <3>2. CASE s = pl.tail
      <4>1. {t \in U : arrival[s] < arrival[t]} = {o}
          BY <1>2, <2>1, <3>2
      <4>2. arrival[o] <= arrival[o]
          BY <1>2
      <4> QED BY <2>2, <3>2, <4>1, <4>2 DEF IsFirst
    <3>3. CASE s # o /\ s # pl.tail
      <4>1. s \in S /\ arrival[s] < arrival[pl.tail] /\ pl.tail \in Later(S, s, arrival)
          BY <1>2, <2>1, <3>3 DEF Later
      <4>2. g.next[s] \in Later(S, s, arrival)
            /\ \A t \in Later(S, s, arrival) : arrival[g.next[s]] <= arrival[t]
          BY <1>2, <1>3, <2>2, <3>3, <4>1 DEF IsFirst
      <4>3. {t \in U : arrival[s] < arrival[t]} = Later(S, s, arrival) \cup {o}
          BY <4>1 DEF Later
      <4>4. arrival[g.next[s]] <= arrival[o]
          BY <1>2, <4>2 DEF Later
      <4> QED BY <4>2, <4>3, <4>4 DEF IsFirst
    <3> QED BY <3>1, <3>2, <3>3
  <2>4. ASSUME NEW s \in U
        PROVE  IsLast(g.prev[s], {t \in U : arrival[t] < arrival[s]}, arrival)
    <3>1. CASE s = o
      <4>1. {t \in U : arrival[t] < arrival[s]} = S
          BY <1>2, <3>1
      <4> QED BY <1>3, <2>2, <3>1, <4>1
    <3>2. CASE s # o
      <4>1. {t \in U : arrival[t] < arrival[s]} = Earlier(S, s, arrival)
          BY <1>2, <3>2 DEF Earlier
      <4> QED BY <1>2, <1>3, <2>2, <3>2, <4>1
    <3> QED BY <3>1, <3>2
  <2>5. WellLinked(g, r.level, U, arrival)
      BY <1>4, <2>3, <2>4 DEF WellLinked
  <2>6. SameOutside(U, g, h)
      BY <2>1, <2>2 DEF SameOutside
  <2> QED BY <2>5, <2>6 DEF r
<1> QED BY <1>5, <1>6

\* What remove does to the links.
LEMMA RemoveFields ==
    ASSUME NEW h \in Heap, NEW pl \in PriceLevels, NEW o \in Slots, NEW q \in Nat
    PROVE  LET r == RemoveOrder(h, pl, o, q)
               n == h.next[o]
               p == h.prev[o]
           IN /\ r.heap \in Heap /\ r.level \in PriceLevels
              /\ r.heap.freeList = h.freeList /\ r.heap.freeCount = h.freeCount
              /\ r.heap.isAllocated = h.isAllocated
              /\ \A s \in Slots :
                    /\ r.heap.next[s] = IF s = o THEN Null ELSE IF s = p THEN n ELSE h.next[s]
                    /\ r.heap.prev[s] = IF s = o THEN Null ELSE IF s = n THEN p ELSE h.prev[s]
              /\ r.level.head = (IF p = Null THEN n ELSE pl.head)
              /\ r.level.tail = (IF n = Null THEN p ELSE pl.tail)
              /\ r.level.price = pl.price
<1> DEFINE n == h.next[o]
           p == h.prev[o]
           nexts == [s \in Slots |-> IF s = o THEN Null ELSE IF s = p THEN n ELSE h.next[s]]
           prevs == [s \in Slots |-> IF s = o THEN Null ELSE IF s = n THEN p ELSE h.prev[s]]
           g == [h EXCEPT !.next = nexts, !.prev = prevs]
           l == [pl EXCEPT !.head = IF p = Null THEN n ELSE @,
                           !.tail = IF n = Null THEN p ELSE @,
                           !.totalQuantity = (@ - q) % Modulus]
<1>1. n \in Ptr /\ p \in Ptr /\ Null \in Ptr /\ h.next \in [Slots -> Ptr] /\ h.prev \in [Slots -> Ptr]
    BY DEF Heap, Ptr
<1>2. nexts \in [Slots -> Ptr] /\ prevs \in [Slots -> Ptr]
    BY <1>1
<1>3. RemoveOrder(h, pl, o, q) = [heap |-> g, level |-> l]
  <2>1. /\ [s \in Slots |-> IF s = o THEN Null ELSE IF s = h.prev[o] THEN h.next[o] ELSE h.next[s]] = nexts
        /\ [s \in Slots |-> IF s = o THEN Null ELSE IF s = h.next[o] THEN h.prev[o] ELSE h.prev[s]] = prevs
      OBVIOUS
  <2> QED BY <2>1 DEF RemoveOrder
<1>4. \A s \in Slots :
         /\ nexts[s] = IF s = o THEN Null ELSE IF s = p THEN n ELSE h.next[s]
         /\ prevs[s] = IF s = o THEN Null ELSE IF s = n THEN p ELSE h.prev[s]
    OBVIOUS
<1> HIDE DEF nexts, prevs
<1>5. /\ g \in Heap /\ g.next = nexts /\ g.prev = prevs
      /\ g.freeList = h.freeList /\ g.freeCount = h.freeCount /\ g.isAllocated = h.isAllocated
    BY <1>2 DEF Heap
<1>6. /\ l \in PriceLevels /\ l.head = (IF p = Null THEN n ELSE pl.head)
      /\ l.tail = (IF n = Null THEN p ELSE pl.tail) /\ l.price = pl.price
  <2>1. (pl.totalQuantity - q) % Modulus \in 0..(Modulus - 1)
      BY ModulusAssumption DEF PriceLevels
  <2> QED BY <1>1, <2>1 DEF PriceLevels
<1> HIDE DEF g, l
<1> QED BY <1>3, <1>4, <1>5, <1>6

\* An order leaves the list from any place in it.
LEMMA RemoveLinks ==
    ASSUME NEW h \in Heap, NEW pl \in PriceLevels, NEW S, NEW arrival, NEW o \in S, NEW q \in Nat,
           Ordered(S, arrival), WellLinked(h, pl, S, arrival)
    PROVE  LET r == RemoveOrder(h, pl, o, q)
           IN /\ WellLinked(r.heap, r.level, S \ {o}, arrival)
              /\ SameOutside(S, r.heap, h)
<1> DEFINE r == RemoveOrder(h, pl, o, q)
           g == r.heap
           n == h.next[o]
           p == h.prev[o]
           U == S \ {o}
           After  == Later(S, o, arrival)
           Before == Earlier(S, o, arrival)
<1>1. /\ \A s \in Slots :
            /\ g.next[s] = IF s = o THEN Null ELSE IF s = p THEN n ELSE h.next[s]
            /\ g.prev[s] = IF s = o THEN Null ELSE IF s = n THEN p ELSE h.prev[s]
      /\ r.level.head = (IF p = Null THEN n ELSE pl.head)
      /\ r.level.tail = (IF n = Null THEN p ELSE pl.tail)
    BY RemoveFields DEF Ordered
<1> HIDE DEF r
<1>2. /\ S \subseteq Slots /\ arrival \in [Slots -> Nat] /\ Null \notin Slots
      /\ \A s, t \in S : arrival[s] = arrival[t] => s = t
    BY SlotsNotNull DEF Ordered
<1>3. /\ IsFirst(pl.head, S, arrival) /\ IsLast(pl.tail, S, arrival)
      /\ \A s \in S : /\ IsFirst(h.next[s], Later(S, s, arrival), arrival)
                      /\ IsLast(h.prev[s], Earlier(S, s, arrival), arrival)
    BY DEF WellLinked, Later, Earlier
<1>4. /\ After \subseteq S /\ o \notin After /\ Before \subseteq S /\ o \notin Before
      /\ \A s \in S : s # o => s \in After \/ s \in Before
      /\ ~\E s \in S : s \in After /\ s \in Before
    BY <1>2 DEF Later, Earlier
<1>5. /\ IF After = {} THEN n = Null ELSE n \in After /\ \A s \in After : arrival[n] <= arrival[s]
      /\ IF Before = {} THEN p = Null ELSE p \in Before /\ \A s \in Before : arrival[s] <= arrival[p]
    BY <1>3 DEF IsFirst, IsLast
<1>6. /\ \A s \in After : arrival[o] < arrival[s]
      /\ \A s \in Before : arrival[s] < arrival[o]
      /\ \A s \in S : arrival[s] \in Nat
    BY <1>2 DEF Later, Earlier
<1>7. (n = Null <=> After = {}) /\ (p = Null <=> Before = {})
    BY <1>2, <1>4, <1>5
<1> HIDE DEF After, Before, n, p
<1>8. IsFirst(r.level.head, U, arrival)
  <2>1. CASE Before = {}
    <3>1. U = After /\ r.level.head = n
        BY <1>1, <1>4, <1>7, <2>1
    <3> QED BY <1>5, <3>1 DEF IsFirst
  <2>2. CASE Before # {}
    <3>1. r.level.head = pl.head /\ p \in S /\ arrival[p] < arrival[o]
        BY <1>1, <1>4, <1>5, <1>6, <1>7, <2>2
    <3>2. pl.head \in S /\ \A s \in S : arrival[pl.head] <= arrival[s]
        BY <1>3 DEF IsFirst
    <3>3. pl.head # o
        BY <1>6, <3>1, <3>2
    <3> QED BY <3>1, <3>2, <3>3 DEF IsFirst
  <2> QED BY <2>1, <2>2
<1>9. IsLast(r.level.tail, U, arrival)
  <2>1. CASE After = {}
    <3>1. U = Before /\ r.level.tail = p
        BY <1>1, <1>4, <1>7, <2>1
    <3> QED BY <1>5, <3>1 DEF IsLast
  <2>2. CASE After # {}
    <3>1. r.level.tail = pl.tail /\ n \in S /\ arrival[o] < arrival[n]
        BY <1>1, <1>4, <1>5, <1>6, <1>7, <2>2
    <3>2. pl.tail \in S /\ \A s \in S : arrival[s] <= arrival[pl.tail]
        BY <1>3 DEF IsLast
    <3>3. pl.tail # o
        BY <1>6, <3>1, <3>2
    <3> QED BY <3>1, <3>2, <3>3 DEF IsLast
  <2> QED BY <2>1, <2>2
<1>10. ASSUME NEW s \in U
       PROVE  IsFirst(g.next[s], {t \in U : arrival[s] < arrival[t]}, arrival)
  <2>1. {t \in U : arrival[s] < arrival[t]} = Later(S, s, arrival) \ {o}
      BY DEF Later
  <2>2. IF Later(S, s, arrival) = {} THEN h.next[s] = Null
        ELSE /\ h.next[s] \in Later(S, s, arrival)
             /\ \A t \in Later(S, s, arrival) : arrival[h.next[s]] <= arrival[t]
      BY <1>3 DEF IsFirst
  <2>3. CASE s = p
    <3>1. p \in Before
        BY <1>2, <1>5, <1>7, <2>3
    <3>2. ASSUME NEW t \in S
          PROVE  t \in After <=> (t # o /\ arrival[p] < arrival[t])
      <4>1. CASE t \in After
          BY <1>4, <1>6, <3>1, <4>1
      <4>2. CASE t \in Before
          BY <1>4, <1>5, <1>6, <3>1, <4>2
      <4>3. CASE t = o
          BY <1>4, <4>3
      <4> QED BY <1>4, <4>1, <4>2, <4>3
    <3>3. Later(S, s, arrival) \ {o} = After
        BY <1>4, <2>3, <3>2 DEF Later
    <3>4. g.next[s] = n
        BY <1>1, <1>2, <2>3
    <3> QED BY <1>5, <2>1, <3>3, <3>4 DEF IsFirst
  <2>4. CASE s # p
    <3>1. g.next[s] = h.next[s]
        BY <1>1, <1>2, <2>4
    <3>2. CASE o \notin Later(S, s, arrival)
        BY <2>1, <2>2, <3>1, <3>2 DEF IsFirst
    <3>3. CASE o \in Later(S, s, arrival)
      <4>1. s \in Before
          BY <3>3 DEF Later, Earlier, Before
      <4>2. p \in Before /\ arrival[s] <= arrival[p]
          BY <1>5, <4>1
      <4>3. arrival[s] # arrival[p]
          BY <1>2, <1>4, <2>4, <4>2
      <4>4. p \in Later(S, s, arrival)
          BY <1>4, <1>6, <4>2, <4>3 DEF Later
      <4>5. /\ h.next[s] \in Later(S, s, arrival)
            /\ \A t \in Later(S, s, arrival) : arrival[h.next[s]] <= arrival[t]
          BY <2>2, <3>3
      <4>6. arrival[h.next[s]] <= arrival[p] /\ arrival[p] < arrival[o] /\ h.next[s] \in S
          BY <1>6, <4>2, <4>4, <4>5 DEF Later
      <4>7. h.next[s] # o
          BY <1>4, <1>6, <4>2, <4>6
      <4> QED BY <2>1, <3>1, <4>5, <4>7 DEF IsFirst
    <3> QED BY <3>2, <3>3
  <2> QED BY <2>3, <2>4
<1>11. ASSUME NEW s \in U
       PROVE  IsLast(g.prev[s], {t \in U : arrival[t] < arrival[s]}, arrival)
  <2>1. {t \in U : arrival[t] < arrival[s]} = Earlier(S, s, arrival) \ {o}
      BY DEF Earlier
  <2>2. IF Earlier(S, s, arrival) = {} THEN h.prev[s] = Null
        ELSE /\ h.prev[s] \in Earlier(S, s, arrival)
             /\ \A t \in Earlier(S, s, arrival) : arrival[t] <= arrival[h.prev[s]]
      BY <1>3 DEF IsLast
  <2>3. CASE s = n
    <3>1. n \in After
        BY <1>2, <1>5, <1>7, <2>3
    <3>2. ASSUME NEW t \in S
          PROVE  t \in Before <=> (t # o /\ arrival[t] < arrival[n])
      <4>1. CASE t \in Before
          BY <1>4, <1>6, <3>1, <4>1
      <4>2. CASE t \in After
          BY <1>4, <1>5, <1>6, <3>1, <4>2
      <4>3. CASE t = o
          BY <1>4, <4>3
      <4> QED BY <1>4, <4>1, <4>2, <4>3
    <3>3. Earlier(S, s, arrival) \ {o} = Before
        BY <1>4, <2>3, <3>2 DEF Earlier
    <3>4. g.prev[s] = p
        BY <1>1, <1>2, <2>3
    <3> QED BY <1>5, <2>1, <3>3, <3>4 DEF IsLast
  <2>4. CASE s # n
    <3>1. g.prev[s] = h.prev[s]
        BY <1>1, <1>2, <2>4
    <3>2. CASE o \notin Earlier(S, s, arrival)
        BY <2>1, <2>2, <3>1, <3>2 DEF IsLast
    <3>3. CASE o \in Earlier(S, s, arrival)
      <4>1. s \in After
          BY <3>3 DEF Later, Earlier, After
      <4>2. n \in After /\ arrival[n] <= arrival[s]
          BY <1>5, <4>1
      <4>3. arrival[s] # arrival[n]
          BY <1>2, <1>4, <2>4, <4>2
      <4>4. n \in Earlier(S, s, arrival)
          BY <1>4, <1>6, <4>2, <4>3 DEF Earlier
      <4>5. /\ h.prev[s] \in Earlier(S, s, arrival)
            /\ \A t \in Earlier(S, s, arrival) : arrival[t] <= arrival[h.prev[s]]
          BY <2>2, <3>3
      <4>6. arrival[n] <= arrival[h.prev[s]] /\ arrival[o] < arrival[n] /\ h.prev[s] \in S
          BY <1>6, <4>2, <4>4, <4>5 DEF Earlier
      <4>7. h.prev[s] # o
          BY <1>4, <1>6, <4>2, <4>6
      <4> QED BY <2>1, <3>1, <4>5, <4>7 DEF IsLast
    <3> QED BY <3>2, <3>3
  <2> QED BY <2>3, <2>4
<1>12. WellLinked(g, r.level, U, arrival)
    BY <1>8, <1>9, <1>10, <1>11 DEF WellLinked
<1>13. SameOutside(S, g, h)
  <2>1. ASSUME NEW s \in Slots \ S PROVE g.next[s] = h.next[s] /\ g.prev[s] = h.prev[s]
      BY <1>1, <1>2, <1>4, <1>5, <1>7
  <2> QED BY <2>1 DEF SameOutside
<1> QED BY <1>12, <1>13 DEF r

-----------------------------------------------------------------------------
(***************************************************************************)
(* Level vectors.                                                          *)
(***************************************************************************)
\* vector::insert: one more entry, the later ones move up.
LEMMA InsertAtEntries ==
    ASSUME NEW T, NEW v \in Seq(T), NEW i \in 1..(Len(v) + 1), NEW x \in T
    PROVE  /\ InsertAt(v, i, x) \in Seq(T) /\ Len(InsertAt(v, i, x)) = Len(v) + 1
           /\ \A j \in 1..(Len(v) + 1) :
                 InsertAt(v, i, x)[j] = IF j < i THEN v[j] ELSE IF j = i THEN x ELSE v[j - 1]
<1> DEFINE n == Len(v)
           front == SubSeq(v, 1, i - 1)
           back  == SubSeq(v, i, n)
<1>1. n \in Nat /\ i \in Nat /\ i >= 1 /\ i <= n + 1 /\ \A j \in 1..n : v[j] \in T
    BY LenProperties, ElementOfSeq
<1>2. front \in Seq(T) /\ Len(front) = i - 1 /\ \A j \in 1..(i - 1) : front[j] = v[j]
  <2>1. \A j \in 1..(i - 1) : v[j] \in T
      BY <1>1
  <2>2. /\ front \in Seq(T) /\ Len(front) = (IF 1 <= i - 1 THEN (i - 1) - 1 + 1 ELSE 0)
        /\ \A j \in 1..((i - 1) - 1 + 1) : front[j] = v[1 + j - 1]
      BY <1>1, <2>1, SubSeqProperties, 1 \in Int, i - 1 \in Int
  <2> HIDE DEF front
  <2>3. Len(front) = i - 1
      BY <1>1, <2>2
  <2>4. ASSUME NEW j \in 1..(i - 1) PROVE front[j] = v[j]
    <3>1. j \in 1..((i - 1) - 1 + 1) /\ 1 + j - 1 = j
        BY <1>1
    <3> QED BY <2>2, <3>1
  <2> QED BY <2>2, <2>3, <2>4
<1>3. back \in Seq(T) /\ Len(back) = n - i + 1 /\ \A j \in 1..(n - i + 1) : back[j] = v[i + j - 1]
  <2>1. \A j \in i..n : v[j] \in T
      BY <1>1
  <2>2. /\ back \in Seq(T) /\ Len(back) = (IF i <= n THEN n - i + 1 ELSE 0)
        /\ \A j \in 1..(n - i + 1) : back[j] = v[i + j - 1]
      BY <1>1, <2>1, SubSeqProperties, i \in Int, n \in Int
  <2> HIDE DEF back
  <2>3. Len(back) = n - i + 1
      BY <1>1, <2>2
  <2> QED BY <2>2, <2>3
<1> HIDE DEF front, back
<1> DEFINE head == front \o <<x>>
<1>4. head \in Seq(T) /\ Len(head) = i /\ \A j \in 1..i : head[j] = IF j < i THEN v[j] ELSE x
  <2>1. <<x>> \in Seq(T) /\ Len(<<x>>) = 1 /\ <<x>>[1] = x
      OBVIOUS
  <2>2. /\ head \in Seq(T) /\ Len(head) = Len(front) + Len(<<x>>)
        /\ \A j \in 1..(Len(front) + Len(<<x>>)) :
              head[j] = IF j <= Len(front) THEN front[j] ELSE <<x>>[j - Len(front)]
      BY <1>2, <2>1, ConcatProperties
  <2> HIDE DEF head
  <2>3. Len(head) = i
      BY <1>1, <1>2, <2>1, <2>2
  <2>4. ASSUME NEW j \in 1..i PROVE head[j] = IF j < i THEN v[j] ELSE x
    <3>1. head[j] = IF j <= i - 1 THEN front[j] ELSE <<x>>[j - (i - 1)]
        BY SMTT(60), <1>1, <1>2, <2>1, <2>2
    <3>2. CASE j < i
      <4>1. j <= i - 1 /\ j \in 1..(i - 1)
          BY <1>1, <3>2
      <4> QED BY <1>2, <3>1, <3>2, <4>1
    <3>3. CASE ~(j < i)
      <4>1. ~(j <= i - 1) /\ j - (i - 1) = 1
          BY <1>1, <3>3
      <4> QED BY <2>1, <3>1, <3>3, <4>1
    <3> QED BY <3>2, <3>3
  <2> QED BY <2>2, <2>3, <2>4
<1> HIDE DEF head
<1>5. InsertAt(v, i, x) = head \o back
    BY DEF InsertAt, head, front, back
<1>6. /\ head \o back \in Seq(T) /\ Len(head \o back) = Len(head) + Len(back)
      /\ \A j \in 1..(Len(head) + Len(back)) :
            (head \o back)[j] = IF j <= Len(head) THEN head[j] ELSE back[j - Len(head)]
    BY <1>3, <1>4, ConcatProperties
<1>7. Len(head) + Len(back) = n + 1
    BY <1>1, <1>3, <1>4
<1>8. ASSUME NEW j \in 1..(n + 1)
      PROVE  (head \o back)[j] = IF j < i THEN v[j] ELSE IF j = i THEN x ELSE v[j - 1]
  <2>1. (head \o back)[j] = IF j <= i THEN head[j] ELSE back[j - i]
      BY <1>4, <1>6, <1>7
  <2>2. CASE j <= i
    <3>1. j \in 1..i /\ (j < i \/ j = i)
        BY <1>1, <2>2
    <3> QED BY <1>1, <1>4, <2>1, <2>2, <3>1
  <2>3. CASE ~(j <= i)
    <3>1. j - i \in 1..(n - i + 1) /\ i + (j - i) - 1 = j - 1 /\ ~(j < i) /\ j # i
        BY <1>1, <2>3
    <3>2. back[j - i] = v[j - 1]
        BY <1>3, <3>1
    <3> QED BY <2>1, <2>3, <3>1, <3>2
  <2> QED BY <2>2, <2>3
<1> QED BY <1>5, <1>6, <1>7, <1>8

\* vector::erase: one entry less, the later ones move down.
LEMMA RemoveAtEntries ==
    ASSUME NEW T, NEW v \in Seq(T), NEW i \in 1..Len(v)
    PROVE  /\ RemoveAt(v, i) \in Seq(T) /\ Len(RemoveAt(v, i)) = Len(v) - 1
           /\ \A j \in 1..(Len(v) - 1) : RemoveAt(v, i)[j] = IF j < i THEN v[j] ELSE v[j + 1]
<1> DEFINE n == Len(v)
           front == SubSeq(v, 1, i - 1)
           back  == SubSeq(v, i + 1, n)
<1>1. n \in Nat /\ i \in Nat /\ i >= 1 /\ i <= n /\ \A j \in 1..n : v[j] \in T
    BY LenProperties, ElementOfSeq
<1>2. front \in Seq(T) /\ Len(front) = i - 1 /\ \A j \in 1..(i - 1) : front[j] = v[j]
  <2>1. \A j \in 1..(i - 1) : v[j] \in T
      BY <1>1
  <2>2. /\ front \in Seq(T) /\ Len(front) = (IF 1 <= i - 1 THEN (i - 1) - 1 + 1 ELSE 0)
        /\ \A j \in 1..((i - 1) - 1 + 1) : front[j] = v[1 + j - 1]
      BY <1>1, <2>1, SubSeqProperties, 1 \in Int, i - 1 \in Int
  <2> HIDE DEF front
  <2>3. Len(front) = i - 1
      BY <1>1, <2>2
  <2>4. ASSUME NEW j \in 1..(i - 1) PROVE front[j] = v[j]
    <3>1. j \in 1..((i - 1) - 1 + 1) /\ 1 + j - 1 = j
        BY <1>1
    <3> QED BY <2>2, <3>1
  <2> QED BY <2>2, <2>3, <2>4
<1>3. back \in Seq(T) /\ Len(back) = n - i /\ \A j \in 1..(n - i) : back[j] = v[i + j]
  <2>1. \A j \in (i + 1)..n : v[j] \in T
      BY <1>1
  <2>2. /\ back \in Seq(T) /\ Len(back) = (IF i + 1 <= n THEN n - (i + 1) + 1 ELSE 0)
        /\ \A j \in 1..(n - (i + 1) + 1) : back[j] = v[(i + 1) + j - 1]
      BY <1>1, <2>1, SubSeqProperties, i + 1 \in Int, n \in Int
  <2> HIDE DEF back
  <2>3. Len(back) = n - i
      BY <1>1, <2>2
  <2>4. ASSUME NEW j \in 1..(n - i) PROVE back[j] = v[i + j]
    <3>1. j \in 1..(n - (i + 1) + 1) /\ (i + 1) + j - 1 = i + j
        BY <1>1
    <3> QED BY <2>2, <3>1
  <2> QED BY <2>2, <2>3, <2>4
<1> HIDE DEF front, back
<1>4. RemoveAt(v, i) = front \o back
    BY DEF RemoveAt, front, back
<1>5. /\ front \o back \in Seq(T) /\ Len(front \o back) = Len(front) + Len(back)
      /\ \A j \in 1..(Len(front) + Len(back)) :
            (front \o back)[j] = IF j <= Len(front) THEN front[j] ELSE back[j - Len(front)]
    BY <1>2, <1>3, ConcatProperties
<1>6. Len(front) + Len(back) = n - 1
    BY <1>1, <1>2, <1>3
<1>7. ASSUME NEW j \in 1..(n - 1)
      PROVE  (front \o back)[j] = IF j < i THEN v[j] ELSE v[j + 1]
  <2>1. (front \o back)[j] = IF j <= i - 1 THEN front[j] ELSE back[j - (i - 1)]
      BY <1>2, <1>5, <1>6
  <2>2. CASE j < i
    <3>1. j <= i - 1 /\ j \in 1..(i - 1)
        BY <1>1, <2>2
    <3> QED BY <1>2, <2>1, <2>2, <3>1
  <2>3. CASE ~(j < i)
    <3>1. ~(j <= i - 1) /\ j - (i - 1) \in 1..(n - i) /\ i + (j - (i - 1)) = j + 1
        BY <1>1, <2>3
    <3> QED BY <1>3, <2>1, <2>3, <3>1
  <2> QED BY <2>2, <2>3
<1> QED BY <1>4, <1>5, <1>6, <1>7

\* A vector of levels in its order, with no price twice.
SortedLevels(v, side) ==
    /\ v \in Seq(PriceLevels)
    /\ \A i, j \in DOMAIN v : i < j => SortsBefore(side, v[i].price, v[j].price)

\* FindLevel in the vector v, which may be that of the next state.
Position(v, side, price) == 1 + Cardinality({i \in DOMAIN v : SortsBefore(side, v[i].price, price)})

\* What std::lower_bound returns: the levels before it are those that sort before
\* the price.
LEMMA PositionExact ==
    ASSUME NEW side \in Sides, NEW price \in Prices, NEW v, SortedLevels(v, side)
    PROVE  /\ Position(v, side, price) \in 1..(Len(v) + 1)
           /\ \A j \in DOMAIN v : j < Position(v, side, price) <=> SortsBefore(side, v[j].price, price)
<1> DEFINE n == Len(v)
           B == {i \in DOMAIN v : SortsBefore(side, v[i].price, price)}
           k == Cardinality(B)
<1>1. v \in Seq(PriceLevels) /\ n \in Nat /\ DOMAIN v = 1..n /\ \A j \in 1..n : v[j].price \in Nat
  <2>1. v \in Seq(PriceLevels)
      BY DEF SortedLevels
  <2>2. n \in Nat /\ DOMAIN v = 1..n
      BY <2>1, LenProperties
  <2>3. \A j \in 1..n : v[j] \in PriceLevels
      BY <2>1, ElementOfSeq
  <2> QED BY <2>1, <2>2, <2>3, OrderBookAssumption DEF PriceLevels
<1>2. price \in Nat
    BY OrderBookAssumption
<1>3. ASSUME NEW i \in B, NEW j \in 1..n, j < i PROVE j \in B
  <2>1. SortsBefore(side, v[j].price, v[i].price) /\ SortsBefore(side, v[i].price, price)
      BY <1>1, <1>3 DEF SortedLevels
  <2> QED BY <1>1, <1>2, <2>1 DEF SortsBefore
<1>4. IsFiniteSet(1..n) /\ Cardinality(1..n) = n
    BY SMTT(60), <1>1, FS_Interval, 1 \in Int, n \in Int
<1>5. IsFiniteSet(B) /\ k \in Nat /\ k <= n
  <2>1. B \in SUBSET (1..n)
      BY <1>1
  <2> HIDE DEF B
  <2>2. IsFiniteSet(B) /\ Cardinality(B) <= n
      BY <1>4, <2>1, FS_Subset
  <2> QED BY <2>2, FS_CardinalityType
<1>6. ASSUME NEW i \in B PROVE i <= k
  <2>1. i \in 1..n /\ 1..i \subseteq B
      BY <1>1, <1>3
  <2>2. Cardinality(1..i) = i
      BY <1>1, <2>1, FS_Interval, 1 \in Int, i \in Int
  <2> HIDE DEF B
  <2>3. Cardinality(1..i) <= Cardinality(B)
      BY <1>5, <2>1, FS_Subset
  <2> QED BY <2>2, <2>3
<1>7. B = 1..k
  <2>1. B \in SUBSET (1..k)
      BY <1>1, <1>5, <1>6
  <2>2. IsFiniteSet(1..k) /\ Cardinality(1..k) = k
      BY <1>5, FS_Interval, 1 \in Int, k \in Int
  <2> HIDE DEF B
  <2> QED BY <2>1, <2>2, FS_Subset
<1>8. Position(v, side, price) = 1 + k
    BY DEF Position
<1> HIDE DEF k
<1>9. \A j \in 1..n : j < 1 + k <=> j \in B
    BY <1>5, <1>7
<1> QED BY <1>1, <1>5, <1>8, <1>9

\* It finds a price that is there.
LEMMA PositionFound ==
    ASSUME NEW side \in Sides, NEW price \in Prices, NEW v, SortedLevels(v, side),
           NEW i \in DOMAIN v, v[i].price = price
    PROVE  Position(v, side, price) = i
<1> DEFINE f == Position(v, side, price)
<1>1. v \in Seq(PriceLevels) /\ Len(v) \in Nat /\ DOMAIN v = 1..Len(v) /\ price \in Nat
    BY LenProperties, OrderBookAssumption DEF SortedLevels
<1>2. f \in 1..(Len(v) + 1) /\ \A j \in 1..Len(v) : j < f <=> SortsBefore(side, v[j].price, price)
    BY <1>1, PositionExact
<1> HIDE DEF f
<1>3. ~(i < f)
    BY <1>1, <1>2 DEF SortsBefore
<1>4. ASSUME f < i PROVE FALSE
  <2>1. f \in 1..Len(v) /\ SortsBefore(side, v[f].price, price)
      BY <1>1, <1>2, <1>4 DEF SortedLevels
  <2>2. f < f
      BY <1>2, <2>1
  <2> QED BY <1>2, <2>2
<1> QED BY <1>1, <1>2, <1>3, <1>4 DEF f

\* The same of findBidLevel/findAskLevel in this state.
LEMMA LevelFound ==
    ASSUME NEW side \in Sides, NEW price \in Prices, SortedLevels(levels[side], side),
           NEW i \in DOMAIN levels[side], levels[side][i].price = price
    PROVE  FindLevel(side, price) = i /\ HasLevel(side, price)
<1>1. FindLevel(side, price) = Position(levels[side], side, price)
    BY DEF FindLevel, Position
<1>2. FindLevel(side, price) = i
    BY <1>1, PositionFound
<1> QED BY <1>2 DEF HasLevel

-----------------------------------------------------------------------------
(***************************************************************************)
(* The pool under the book.                                                *)
(***************************************************************************)
FreeOK(h) == h \in Heap /\ \E s : Chain(h, h.freeCount, s)

\* allocate() hands out a slot that was free and leaves the other links alone.
LEMMA AllocateFree ==
    ASSUME NEW h, FreeOK(h), CanAllocate(h)
    PROVE  /\ FreeOK(Allocate(h)) /\ h.freeList \in Slots /\ ~h.isAllocated[h.freeList]
           /\ Allocate(h).isAllocated = [h.isAllocated EXCEPT ![h.freeList] = TRUE]
           /\ \A s \in Slots : s # h.freeList =>
                 Allocate(h).next[s] = h.next[s] /\ Allocate(h).prev[s] = h.prev[s]
<1>1. PICK s : Chain(h, h.freeCount, s)
    BY DEF FreeOK
<1>2. h \in Heap /\ h.freeCount \in Nat /\ h.freeCount > 0
    BY CapacityAssumption DEF FreeOK, CanAllocate, Heap
<1>3. h.freeList = s[1] /\ 1 \in 1..h.freeCount
    BY <1>1, <1>2 DEF Chain
<1>4. h.freeList \in Slots /\ ~h.isAllocated[h.freeList]
    BY <1>1, <1>3 DEF Chain
<1>5. Allocate(h).freeCount = h.freeCount - 1
    BY DEF Allocate
<1>6. FreeOK(Allocate(h))
    BY <1>1, <1>2, <1>5, AllocateType, AllocateChain DEF FreeOK
<1>7. \A t \in Slots : t # h.freeList =>
         Allocate(h).next[t] = h.next[t] /\ Allocate(h).prev[t] = h.prev[t]
    BY <1>2 DEF Allocate, Heap
<1> QED BY <1>4, <1>6, <1>7 DEF Allocate

\* deallocate(o) takes o out of use and leaves the other links alone.
LEMMA DeallocateFree ==
    ASSUME NEW h, FreeOK(h), NEW o \in Slots, h.isAllocated[o]
    PROVE  /\ FreeOK(Deallocate(h, o))
           /\ Deallocate(h, o).isAllocated = [h.isAllocated EXCEPT ![o] = FALSE]
           /\ \A s \in Slots : s # o =>
                 Deallocate(h, o).next[s] = h.next[s] /\ Deallocate(h, o).prev[s] = h.prev[s]
<1>1. PICK s : Chain(h, h.freeCount, s)
    BY DEF FreeOK
<1>2. h \in Heap
    BY DEF FreeOK
<1>3. h.freeCount < Capacity
    BY <1>1, <1>2, InUseNotFull
<1>4. Deallocate(h, o).freeCount = h.freeCount + 1
    BY DEF Deallocate
<1>5. FreeOK(Deallocate(h, o))
    BY <1>1, <1>2, <1>3, <1>4, DeallocateType, DeallocateChain DEF FreeOK
<1>6. \A t \in Slots : t # o =>
         Deallocate(h, o).next[t] = h.next[t] /\ Deallocate(h, o).prev[t] = h.prev[t]
    BY <1>2 DEF Deallocate, Heap
<1> QED BY <1>5, <1>6 DEF Deallocate

\* A level that relinks its own orders does not touch the free list.
LEMMA RelinkFree ==
    ASSUME NEW h, NEW g \in Heap, FreeOK(h), g.freeList = h.freeList, g.freeCount = h.freeCount,
           g.isAllocated = h.isAllocated,
           \A s \in Slots : ~h.isAllocated[s] => g.next[s] = h.next[s]
    PROVE  FreeOK(g)
<1>1. PICK s : Chain(h, h.freeCount, s)
    BY DEF FreeOK
<1>2. \A i \in 1..h.freeCount : s[i] \in Slots /\ ~h.isAllocated[s[i]]
    BY <1>1 DEF Chain
<1>3. Chain(g, g.freeCount, s)
    BY <1>1, <1>2 DEF Chain
<1> QED BY <1>3 DEF FreeOK

-----------------------------------------------------------------------------
(***************************************************************************)
(* The inductive invariant. Beside what the runs check, it says that       *)
(* orders are numbered in order of arrival, that the incoming order is the *)
(* youngest, and that nothing it could still trade with is left when it    *)
(* comes to rest.                                                          *)
(***************************************************************************)
ArrivalOK ==
    /\ \A s \in Slots : heap.isAllocated[s] =>
          /\ ord[s].orderId = ord[s].sequence + 1 /\ ord[s].sequence < sequence
          /\ ord[s].price \in Prices /\ ord[s].participantId \in Participants
    /\ \A s \in Resting, o \in InFlight : ord[s].sequence < ord[o].sequence

CallOK ==
    /\ call.pc = "match" => call.numLevels \in 0..Len(Book)
    /\ call.pc = "rest" /\ Incoming.quantity > 0 =>
          \A i \in DOMAIN Book : ~Crosses(Incoming.side, Incoming.price, Book[i].price)

IInv == StructuresIntact /\ ArrivalOK /\ CallOK

\* The orders of a level, and the facts about them that every step starts from.
LEMMA BookFacts ==
    ASSUME IInv
    PROVE  /\ FreeOK(heap) /\ heap \in Heap /\ Arrival \in [Slots -> Nat]
           /\ \A s \in Slots : ord[s] \in Order /\ Arrival[s] = ord[s].sequence
           /\ \A side \in Sides :
                 /\ SortedLevels(levels[side], side) /\ Len(levels[side]) \in Nat
                 /\ DOMAIN levels[side] = 1..Len(levels[side])
                 /\ \A i \in DOMAIN levels[side] : levels[side][i] \in PriceLevels
           /\ \A side \in Sides, price \in Prices : Ordered(OrdersAt(side, price), Arrival)
           /\ \A s \in Resting : s \in Slots /\ heap.isAllocated[s] /\ s \in OrdersAt(ord[s].side, ord[s].price)
           /\ \A s \in InFlight : s \in Slots /\ heap.isAllocated[s] /\ s \notin Resting
           /\ \A s \in Slots : heap.isAllocated[s] => s \in Resting \/ s \in InFlight
<1>1. FreeOK(heap) /\ heap \in Heap
    BY IntactIsChain DEF IInv, StructuresIntact, SlotsAccountedFor, OrderBookTypeOK, FreeOK
<1>2. \A s \in Slots : ord[s] \in Order /\ Arrival[s] = ord[s].sequence /\ ord[s].sequence \in Nat
    BY OrderBookAssumption DEF IInv, StructuresIntact, OrderBookTypeOK, Arrival, Order
<1>3. Arrival \in [Slots -> Nat]
    BY <1>2 DEF Arrival
<1>4. ASSUME NEW side \in Sides
      PROVE  /\ SortedLevels(levels[side], side) /\ Len(levels[side]) \in Nat
             /\ DOMAIN levels[side] = 1..Len(levels[side])
             /\ \A i \in DOMAIN levels[side] : levels[side][i] \in PriceLevels
  <2>1. levels[side] \in Seq(PriceLevels)
      BY DEF IInv, StructuresIntact, OrderBookTypeOK
  <2>2. SortedLevels(levels[side], side)
      BY <2>1 DEF IInv, StructuresIntact, LevelsSorted, SortedLevels
  <2> QED BY <2>1, <2>2, LenProperties, ElementOfSeq
<1>5. \A s, t \in Resting : Arrival[s] = Arrival[t] => s = t
    BY DEF IInv, StructuresIntact, QueuesIntact
<1>6. \A side \in Sides, price \in Prices : Ordered(OrdersAt(side, price), Arrival)
    BY <1>3, <1>5 DEF Ordered, OrdersAt, Resting
<1>7. \A s \in Resting : s \in Slots /\ heap.isAllocated[s] /\ s \in OrdersAt(ord[s].side, ord[s].price)
    BY DEF Resting, OrdersAt
<1>8. \A s \in InFlight : s \in Slots /\ heap.isAllocated[s] /\ s \notin Resting
    BY DEF IInv, StructuresIntact, SlotsAccountedFor, Resting
<1>9. \A s \in Slots : heap.isAllocated[s] => s \in Resting \/ s \in InFlight
    BY DEF Resting
<1> QED BY <1>1, <1>2, <1>3, <1>4, <1>6, <1>7, <1>8, <1>9

\* No two orders in use have the same id.
LEMMA IdsUnique ==
    ASSUME IInv, NEW s \in Slots, NEW t \in Slots, heap.isAllocated[s], heap.isAllocated[t],
           ord[s].orderId = ord[t].orderId
    PROVE  s = t
<1>1. ord[s].sequence = ord[t].sequence
  <2>1. ord[s].sequence \in Nat /\ ord[t].sequence \in Nat
      BY BookFacts, OrderBookAssumption DEF Order
  <2> QED BY <2>1 DEF IInv, ArrivalOK
<1>2. CASE s \in Resting /\ t \in Resting
    BY <1>1, <1>2, BookFacts DEF IInv, StructuresIntact, QueuesIntact
<1>3. CASE s \in InFlight /\ t \in InFlight
    BY <1>3 DEF InFlight
<1>4. CASE s \in InFlight /\ t \in Resting
  <2>1. ord[t].sequence < ord[s].sequence /\ ord[t].sequence \in Nat
      BY <1>4, BookFacts, OrderBookAssumption DEF IInv, ArrivalOK, Order
  <2> QED BY <1>1, <2>1
<1>5. CASE s \in Resting /\ t \in InFlight
  <2>1. ord[s].sequence < ord[t].sequence /\ ord[t].sequence \in Nat
      BY <1>5, BookFacts, OrderBookAssumption DEF IInv, ArrivalOK, Order
  <2> QED BY <1>1, <2>1
<1> QED BY <1>2, <1>3, <1>4, <1>5, BookFacts

\* Two levels share no order.
LEMMA LevelsDisjoint ==
    ASSUME IInv, NEW side \in Sides, NEW i \in DOMAIN levels[side],
           NEW side2 \in Sides, NEW j \in DOMAIN levels[side2], side2 # side \/ j # i
    PROVE  OrdersAt(side, levels[side][i].price) \cap OrdersAt(side2, levels[side2][j].price) = {}
<1>1. side2 # side \/ levels[side2][j].price # levels[side][i].price
  <2>1. CASE side2 = side
    <3>1. \A k, l \in DOMAIN levels[side] :
             k < l => SortsBefore(side, levels[side][k].price, levels[side][l].price)
        BY BookFacts DEF SortedLevels
    <3>2. i \in Nat /\ j \in Nat /\ j # i
      <4>1. DOMAIN levels[side] = 1..Len(levels[side]) /\ Len(levels[side]) \in Nat
          BY BookFacts
      <4> QED BY <2>1, <4>1
    <3>3. levels[side][i].price \in Nat
        BY BookFacts, OrderBookAssumption DEF PriceLevels
    <3> QED BY <2>1, <3>1, <3>2, <3>3 DEF SortsBefore
  <2> QED BY <2>1
<1> QED BY <1>1 DEF OrdersAt

\* remove(o) and deallocate(o) on a level, whose total may just have changed: its
\* list loses o, and neither another list nor the free list notices.
LEMMA RemovedHeap ==
    ASSUME IInv, NEW side \in Sides, NEW i \in DOMAIN levels[side],
           NEW o \in OrdersAt(side, levels[side][i].price), NEW q \in Nat,
           NEW pl \in PriceLevels, pl.head = levels[side][i].head, pl.tail = levels[side][i].tail
    PROVE  LET r == RemoveOrder(heap, pl, o, q)
               g == Deallocate(r.heap, o)
           IN /\ FreeOK(g) /\ g.isAllocated = [heap.isAllocated EXCEPT ![o] = FALSE]
              /\ r.level \in PriceLevels /\ r.level.price = pl.price
              /\ WellLinked(g, r.level, OrdersAt(side, levels[side][i].price) \ {o}, Arrival)
              /\ \A side2 \in Sides : \A j \in DOMAIN levels[side2] : side2 # side \/ j # i =>
                    /\ o \notin OrdersAt(side2, levels[side2][j].price)
                    /\ WellLinked(g, levels[side2][j], OrdersAt(side2, levels[side2][j].price), Arrival)
<1> DEFINE r == RemoveOrder(heap, pl, o, q)
           g == Deallocate(r.heap, o)
           S == OrdersAt(side, levels[side][i].price)
<1>1. heap \in Heap /\ FreeOK(heap) /\ Ordered(S, Arrival)
    BY BookFacts DEF PriceLevels
<1>2. o \in S /\ o \in Slots /\ heap.isAllocated[o] /\ S \subseteq Slots /\ \A s \in S : heap.isAllocated[s]
    BY DEF OrdersAt, Resting
<1>3. WellLinked(heap, pl, S, Arrival)
  <2>1. WellLinked(heap, levels[side][i], S, Arrival)
      BY DEF IInv, StructuresIntact, QueuesIntact
  <2> HIDE DEF S
  <2> QED BY <2>1, SameLinks
<1>4. /\ r.heap \in Heap /\ r.level \in PriceLevels
      /\ r.heap.freeList = heap.freeList /\ r.heap.freeCount = heap.freeCount
      /\ r.heap.isAllocated = heap.isAllocated /\ r.level.price = pl.price
    BY <1>1, <1>2, RemoveFields
<1>5. /\ WellLinked(r.heap, r.level, S \ {o}, Arrival)
      /\ SameOutside(S, r.heap, heap)
  <2> HIDE DEF S
  <2> QED BY <1>1, <1>2, <1>3, RemoveLinks
<1> HIDE DEF r
<1>6. FreeOK(r.heap)
    BY <1>1, <1>2, <1>4, <1>5, RelinkFree DEF SameOutside
<1>7. /\ FreeOK(g) /\ g.isAllocated = [heap.isAllocated EXCEPT ![o] = FALSE]
      /\ \A s \in Slots : s # o => g.next[s] = r.heap.next[s] /\ g.prev[s] = r.heap.prev[s]
  <2>1. r.heap.isAllocated[o]
      BY <1>2, <1>4
  <2>2. /\ FreeOK(g) /\ g.isAllocated = [r.heap.isAllocated EXCEPT ![o] = FALSE]
        /\ \A s \in Slots : s # o => g.next[s] = r.heap.next[s] /\ g.prev[s] = r.heap.prev[s]
      BY <1>2, <1>6, <2>1, DeallocateFree
  <2> QED BY <1>4, <2>2
<1> HIDE DEF g
<1>8. WellLinked(g, r.level, S \ {o}, Arrival)
  <2>1. \A s \in S \ {o} : g.next[s] = r.heap.next[s] /\ g.prev[s] = r.heap.prev[s]
      BY <1>2, <1>7
  <2> HIDE DEF S
  <2> QED BY <1>5, <2>1, SameLinks
<1>9. ASSUME NEW side2 \in Sides, NEW j \in DOMAIN levels[side2], side2 # side \/ j # i
      PROVE  /\ o \notin OrdersAt(side2, levels[side2][j].price)
             /\ WellLinked(g, levels[side2][j], OrdersAt(side2, levels[side2][j].price), Arrival)
  <2> DEFINE T == OrdersAt(side2, levels[side2][j].price)
  <2>1. S \cap T = {}
      BY <1>9, LevelsDisjoint
  <2>2. T \cap S = {} /\ T \subseteq Slots
      BY <2>1 DEF OrdersAt, Resting
  <2>3. \A s \in T : g.next[s] = heap.next[s] /\ g.prev[s] = heap.prev[s]
      BY <1>2, <1>5, <1>7, <2>2 DEF SameOutside
  <2>4. WellLinked(heap, levels[side2][j], T, Arrival)
      BY DEF IInv, StructuresIntact, QueuesIntact
  <2>5. WellLinked(g, levels[side2][j], T, Arrival)
    <3> HIDE DEF T
    <3> QED BY <2>3, <2>4, SameLinks
  <2> QED BY <2>2, <2>5
<1> QED BY <1>4, <1>7, <1>8, <1>9 DEF r, g

\* A price that does not cross the level at the back of what is left crosses none
\* of the levels before it.
LEMMA NoneCrosses ==
    ASSUME NEW side \in Sides, NEW price \in Nat, NEW v, SortedLevels(v, Opposite(side)),
           NEW n \in 1..Len(v), ~Crosses(side, price, v[n].price), NEW i \in 1..n
    PROVE  ~Crosses(side, price, v[i].price)
<1>1. v \in Seq(PriceLevels) /\ Len(v) \in Nat /\ DOMAIN v = 1..Len(v)
    BY LenProperties DEF SortedLevels
<1>2. i \in 1..Len(v) /\ v[i].price \in Nat /\ v[n].price \in Nat
  <2>1. i \in 1..Len(v)
      BY <1>1
  <2>2. v[i] \in PriceLevels /\ v[n] \in PriceLevels
      BY <1>1, <2>1, ElementOfSeq
  <2> QED BY <2>1, <2>2, OrderBookAssumption DEF PriceLevels
<1>3. CASE i = n
    BY <1>3
<1>4. CASE i # n
  <2>1. i < n /\ n \in DOMAIN v /\ i \in DOMAIN v
      BY <1>1, <1>2, <1>4
  <2>2. SortsBefore(Opposite(side), v[i].price, v[n].price)
      BY <2>1 DEF SortedLevels
  <2> QED BY <1>2, <2>2 DEF SortsBefore, Opposite, Crosses, Sides
<1> QED BY <1>3, <1>4

-----------------------------------------------------------------------------
(***************************************************************************)
(* Every step keeps IInv.                                                  *)
(***************************************************************************)
\* The book starts empty.
LEMMA BookStarts == OrderBookInit => IInv
<1> SUFFICES ASSUME OrderBookInit PROVE IInv
    OBVIOUS
<1>1. heap \in Heap /\ FreeListIntact
  <2>1. HeapInit \in Heap /\ HeapInit.freeCount = Capacity
      BY CapacityAssumption DEF HeapInit, Heap, Slots, Ptr, Null
  <2> QED BY <2>1, InitChain, IntactIsChain DEF OrderBookInit
<1>2. Resting = {} /\ InFlight = {} /\ \A s \in Slots : ~heap.isAllocated[s]
    BY DEF OrderBookInit, HeapInit, Resting, InFlight, Idle
<1>3. \A side \in Sides : levels[side] = <<>> /\ DOMAIN levels[side] = {}
    BY DEF OrderBookInit
<1>4. OrderBookTypeOK
  <2>1. ord \in [Slots -> Order]
    <3>1. 0 \in 0..(Modulus - 1) /\ 0 \in 0..MaxSequence
        BY ModulusAssumption, OrderBookAssumption
    <3>2. Unused \in Order
        BY <3>1 DEF Unused, Order, Sides
    <3> QED BY <3>2 DEF OrderBookInit
  <2>2. levels \in [Sides -> Seq(PriceLevels)]
      BY DEF OrderBookInit
  <2>3. DOMAIN orderIndex \subseteq Ids /\ orderIndex \in [DOMAIN orderIndex -> Slots]
      BY DEF OrderBookInit
  <2>4. sequence \in 0..MaxSequence
      BY OrderBookAssumption DEF OrderBookInit
  <2>5. call \in [pc : {"idle", "match", "rest", "aborted"}, order : Ptr, numLevels : Nat]
      BY DEF OrderBookInit, Idle, Ptr
  <2> QED BY <1>1, <2>1, <2>2, <2>3, <2>4, <2>5 DEF OrderBookTypeOK
<1>5. QueuesIntact /\ LevelsSorted
    BY <1>2, <1>3 DEF QueuesIntact, LevelsSorted
<1>6. IndexExact
    BY <1>2 DEF IndexExact, OrderBookInit
<1>7. SlotsAccountedFor /\ ArrivalOK
    BY <1>1, <1>2 DEF SlotsAccountedFor, ArrivalOK
<1>8. CallOK
    BY DEF CallOK, OrderBookInit, Idle
<1> QED BY <1>4, <1>5, <1>6, <1>7, <1>8 DEF IInv, StructuresIntact

\* A submitted order takes a free slot and is the youngest; nothing else changes.
LEMMA AddKeeps ==
    ASSUME IInv, NEW side \in Sides, NEW price \in Prices, NEW quantity \in Quantities,
           NEW id \in Ids, NEW p \in Participants, AddLimitOrder(side, price, quantity, id, p)
    PROVE  /\ IInv'
           /\ Resting' = Resting /\ InFlight = {} /\ InFlight' = {call'.order}
           /\ call'.order \in Slots /\ call'.order \notin Resting
           /\ \A s \in Resting : ord'[s] = ord[s]
           /\ Incoming' = [orderId |-> id, price |-> price, quantity |-> quantity,
                           sequence |-> sequence, participantId |-> p, side |-> side]
<1> DEFINE o == heap.freeList
           new == [orderId |-> id, price |-> price, quantity |-> quantity,
                   sequence |-> sequence, participantId |-> p, side |-> side]
           book == levels[Opposite(side)]
<1>1. /\ call.pc = "idle" /\ CanAllocate(heap) /\ id = sequence + 1 /\ heap' = Allocate(heap)
      /\ ord' = [ord EXCEPT ![o] = new] /\ sequence' = sequence + 1
      /\ call' = [pc |-> IF book # <<>> /\ Crosses(side, price, Last(book).price) THEN "match" ELSE "rest",
                  order |-> o, numLevels |-> Len(book)]
      /\ levels' = levels /\ orderIndex' = orderIndex
    BY DEF AddLimitOrder
<1>2. /\ FreeOK(heap) /\ Opposite(side) \in Sides
      /\ \A sd \in Sides : /\ SortedLevels(levels[sd], sd) /\ Len(levels[sd]) \in Nat
                           /\ DOMAIN levels[sd] = 1..Len(levels[sd])
    BY BookFacts DEF Opposite, Sides
<1>3. /\ FreeOK(heap') /\ o \in Slots /\ ~heap.isAllocated[o]
      /\ heap'.isAllocated = [heap.isAllocated EXCEPT ![o] = TRUE]
      /\ \A s \in Slots : s # o => heap'.next[s] = heap.next[s] /\ heap'.prev[s] = heap.prev[s]
    BY <1>1, <1>2, AllocateFree
<1>4. heap \in Heap /\ ord \in [Slots -> Order] /\ sequence \in 0..MaxSequence
    BY DEF IInv, StructuresIntact, OrderBookTypeOK
<1>5. /\ \A s \in Slots : heap'.isAllocated[s] <=> heap.isAllocated[s] \/ s = o
      /\ \A s \in Slots : s # o => ord'[s] = ord[s]
      /\ ord'[o] = new
  <2>1. heap.isAllocated \in [Slots -> BOOLEAN]
      BY <1>4 DEF Heap
  <2> QED BY <1>1, <1>3, <1>4, <2>1
<1>6. /\ call'.order = o /\ call'.numLevels = Len(book) /\ call'.pc \in {"match", "rest"}
      /\ InFlight = {} /\ InFlight' = {o} /\ Incoming' = new
    BY <1>1, <1>5 DEF InFlight, Incoming
<1>7. Resting' = Resting /\ o \notin Resting /\ Resting \subseteq Slots
    BY <1>3, <1>5, <1>6 DEF Resting
<1>8. \A s \in Resting : ord'[s] = ord[s] /\ Arrival'[s] = Arrival[s] /\ Arrival[s] = ord[s].sequence
    BY <1>5, <1>7 DEF Arrival
<1>9. \A sd, pr : OrdersAt(sd, pr)' = OrdersAt(sd, pr)
    BY <1>7, <1>8 DEF OrdersAt
<1>10. OrderBookTypeOK'
  <2>1. new \in Order
    <3>1. quantity \in 0..(Modulus - 1)
        BY OrderBookAssumption
    <3> QED BY <1>4, <3>1 DEF Order
  <2>2. ord' \in [Slots -> Order]
      BY <1>1, <1>4, <2>1
  <2>3. sequence' \in 0..MaxSequence
      BY <1>1, OrderBookAssumption DEF Ids
  <2>4. call' \in [pc : {"idle", "match", "rest", "aborted"}, order : Ptr, numLevels : Nat]
      BY <1>1, <1>2, <1>3 DEF Ptr
  <2> QED BY <1>1, <1>3, <2>2, <2>3, <2>4 DEF OrderBookTypeOK, IInv, StructuresIntact, FreeOK
<1>11. QueuesIntact'
  <2>1. ASSUME NEW sd \in Sides, NEW i \in DOMAIN levels[sd]
        PROVE  WellLinked(heap, levels[sd][i], OrdersAt(sd, levels[sd][i].price), Arrival)'
    <3> DEFINE S == OrdersAt(sd, levels[sd][i].price)
    <3>1. WellLinked(heap, levels[sd][i], S, Arrival)
        BY DEF IInv, StructuresIntact, QueuesIntact
    <3>2. \A s \in S : s \in Resting
        BY DEF OrdersAt
    <3>3. /\ \A s \in S : heap'.next[s] = heap.next[s] /\ heap'.prev[s] = heap.prev[s]
          /\ \A s \in S : Arrival'[s] = Arrival[s]
        BY <1>3, <1>7, <1>8, <3>2
    <3>4. WellLinked(heap', levels[sd][i], S, Arrival')
      <4> HIDE DEF S
      <4> QED BY <3>1, <3>3, SameLinks
    <3> QED BY <1>1, <1>9, <3>4
  <2>2. \A s, t \in Resting' : Arrival'[s] = Arrival'[t] => s = t
      BY <1>7, <1>8 DEF IInv, StructuresIntact, QueuesIntact
  <2>3. \A s \in Resting' : ord'[s].quantity > 0
      BY <1>7, <1>8 DEF IInv, StructuresIntact, QueuesIntact
  <2> QED BY <1>1, <2>1, <2>2, <2>3 DEF QueuesIntact
<1>12. LevelsSorted'
  <2>1. ASSUME NEW sd \in Sides, NEW i \in DOMAIN levels[sd]
        PROVE  ~IsEmpty(levels[sd][i]) /\ (sd = Opposite(side) => ~(i > Len(book)))
    <3>1. ~IsEmpty(levels[sd][i])
        BY <1>1 DEF IInv, StructuresIntact, LevelsSorted
    <3>2. sd = Opposite(side) => ~(i > Len(book))
        BY <1>2
    <3> QED BY <3>1, <3>2
  <2> QED BY <1>1, <1>6, <2>1 DEF IInv, StructuresIntact, LevelsSorted, SortsBefore
<1>13. IndexExact'
  <2>1. {ord'[s].orderId : s \in Resting'} = {ord[s].orderId : s \in Resting}
      BY <1>7, <1>8
  <2> QED BY <1>1, <1>6, <1>7, <1>8, <2>1 DEF IInv, StructuresIntact, IndexExact
<1>14. SlotsAccountedFor'
  <2>1. FreeListIntact'
      BY <1>3 DEF FreeOK, FreeListIntact, Chain
  <2>2. \A s \in InFlight' : s \in Slots /\ heap'.isAllocated[s]
      BY <1>3, <1>5, <1>6
  <2>3. \A s \in Resting' : \E i \in DOMAIN levels'[ord'[s].side] :
            levels'[ord'[s].side][i].price = ord'[s].price
    <3>1. \A s \in Resting : \E i \in DOMAIN levels[ord[s].side] :
              levels[ord[s].side][i].price = ord[s].price
        BY DEF IInv, StructuresIntact, SlotsAccountedFor
    <3>2. ASSUME NEW s \in Resting'
          PROVE  \E i \in DOMAIN levels'[ord'[s].side] : levels'[ord'[s].side][i].price = ord'[s].price
      <4>1. s \in Resting /\ ord'[s] = ord[s]
          BY <1>7, <1>8, <3>2
      <4> QED BY <1>1, <3>1, <4>1
    <3> QED BY <3>2
  <2> QED BY <2>1, <2>2, <2>3 DEF SlotsAccountedFor
<1>15. ArrivalOK'
  <2>1. ASSUME NEW s \in Slots, heap'.isAllocated[s]
        PROVE  /\ ord'[s].orderId = ord'[s].sequence + 1 /\ ord'[s].sequence < sequence'
               /\ ord'[s].price \in Prices /\ ord'[s].participantId \in Participants
    <3>1. CASE s = o
        BY <1>1, <1>4, <1>5, <3>1
    <3>2. CASE s # o
      <4>1. ord[s].sequence \in Nat /\ heap.isAllocated[s] /\ ord'[s] = ord[s]
          BY <1>4, <1>5, <2>1, <3>2, OrderBookAssumption DEF Order
      <4> QED BY <1>1, <1>4, <4>1 DEF IInv, ArrivalOK
    <3> QED BY <3>1, <3>2
  <2>2. ASSUME NEW s \in Resting' PROVE ord'[s].sequence < ord'[o].sequence
      BY <1>5, <1>7, <1>8, BookFacts DEF IInv, ArrivalOK
  <2> QED BY <1>6, <2>1, <2>2 DEF ArrivalOK
<1>16. CallOK'
  <2>1. Book' = book
      BY <1>1, <1>6 DEF Book
  <2>2. call'.numLevels \in 0..Len(Book')
      BY <1>2, <1>6, <2>1
  <2>3. ASSUME call'.pc = "rest", NEW i \in DOMAIN book
        PROVE  ~Crosses(side, price, book[i].price)
    <3>1. book # <<>> /\ Len(book) \in 1..Len(book) /\ i \in 1..Len(book)
        BY <1>2
    <3>2. ~Crosses(side, price, book[Len(book)].price)
        BY <1>1, <2>3, <3>1 DEF Last
    <3>3. price \in Nat /\ SortedLevels(book, Opposite(side))
        BY <1>2, OrderBookAssumption
    <3> QED BY <3>1, <3>2, <3>3, NoneCrosses
  <2> QED BY <1>6, <2>1, <2>2, <2>3 DEF CallOK
<1> QED BY <1>3, <1>5, <1>6, <1>7, <1>10, <1>11, <1>12, <1>13, <1>14, <1>15, <1>16
        DEF IInv, StructuresIntact

\* One level of a vector is overwritten, with the same price.
LEMMA LevelStored ==
    ASSUME NEW v \in [Sides -> Seq(PriceLevels)], NEW side \in Sides, NEW i \in DOMAIN v[side],
           NEW pl \in PriceLevels, pl.price = v[side][i].price
    PROVE  LET w == [v EXCEPT ![side][i] = pl]
           IN /\ w \in [Sides -> Seq(PriceLevels)]
              /\ \A sd \in Sides :
                    /\ DOMAIN w[sd] = DOMAIN v[sd] /\ Len(w[sd]) = Len(v[sd])
                    /\ \A j \in DOMAIN v[sd] : /\ w[sd][j] = IF sd = side /\ j = i THEN pl ELSE v[sd][j]
                                               /\ w[sd][j].price = v[sd][j].price
<1> DEFINE u == [v[side] EXCEPT ![i] = pl]
           w == [v EXCEPT ![side][i] = pl]
<1>1. v[side] \in Seq(PriceLevels) /\ DOMAIN v[side] = 1..Len(v[side])
    BY LenProperties
<1>2. /\ u \in Seq(PriceLevels) /\ Len(u) = Len(v[side]) /\ DOMAIN u = DOMAIN v[side]
      /\ \A j \in DOMAIN v[side] : u[j] = IF j = i THEN pl ELSE v[side][j]
  <2>1. u \in Seq(PriceLevels) /\ Len(u) = Len(v[side])
      BY <1>1, ExceptSeq
  <2> QED BY <1>1, <2>1
<1>3. w = [v EXCEPT ![side] = u]
    OBVIOUS
<1> HIDE DEF u
<1>4. w[side] = u /\ \A sd \in Sides : sd # side => w[sd] = v[sd]
    BY <1>3
<1>5. w \in [Sides -> Seq(PriceLevels)]
    BY <1>2, <1>3
<1> HIDE DEF w
<1>6. ASSUME NEW sd \in Sides
      PROVE  /\ DOMAIN w[sd] = DOMAIN v[sd] /\ Len(w[sd]) = Len(v[sd])
             /\ \A j \in DOMAIN v[sd] : /\ w[sd][j] = IF sd = side /\ j = i THEN pl ELSE v[sd][j]
                                        /\ w[sd][j].price = v[sd][j].price
  <2>1. CASE sd = side
      BY <1>2, <1>4, <2>1
  <2>2. CASE sd # side
      BY <1>4, <2>2
  <2> QED BY <2>1, <2>2
<1> QED BY <1>5, <1>6 DEF w

\* Inside the match loop: the incoming order, the best level of the other side and
\* the order at its head.
LEMMA InLoopFacts ==
    ASSUME IInv, call.pc = "match", call.numLevels > 0
    PROVE  LET side == Opposite(Incoming.side)
               i    == call.numLevels
               pl   == Book[i]
               r    == pl.head
           IN /\ InFlight = {call.order} /\ call.order \in Slots /\ call.order \notin Resting
              /\ heap.isAllocated[call.order] /\ Incoming \in Order
              /\ side \in Sides /\ side # Incoming.side /\ Book = levels[side]
              /\ i \in DOMAIN levels[side] /\ pl \in PriceLevels
              /\ r \in OrdersAt(side, pl.price) /\ r \in Resting /\ r \in Slots /\ r # call.order
              /\ heap.isAllocated[r] /\ ord[r].side = side /\ ord[r].price = pl.price
              /\ \A s \in OrdersAt(side, pl.price) : ord[r].sequence <= ord[s].sequence
<1> DEFINE side == Opposite(Incoming.side)
           i    == call.numLevels
           pl   == Book[i]
           r    == pl.head
<1>1. /\ InFlight = {call.order} /\ call.order \in Slots /\ heap.isAllocated[call.order]
      /\ call.order \notin Resting /\ Incoming \in Order
    BY BookFacts DEF InFlight, Incoming
<1>2. side \in Sides /\ side # Incoming.side /\ Book = levels[side]
    BY <1>1 DEF Opposite, Sides, Order, Book
<1>3. i \in DOMAIN levels[side]
    BY <1>2, BookFacts DEF IInv, CallOK
<1>4. pl \in PriceLevels
    BY <1>2, <1>3, BookFacts
<1>5. ~IsEmpty(pl)
  <2>1. IsEmpty(levels[side][i]) => i > call.numLevels
      BY <1>2, <1>3 DEF IInv, StructuresIntact, LevelsSorted
  <2>2. i \in Nat
      BY <1>2, <1>3, BookFacts
  <2> QED BY <1>2, <2>1, <2>2
<1>6. WellLinked(heap, pl, OrdersAt(side, pl.price), Arrival)
    BY <1>2, <1>3 DEF IInv, StructuresIntact, QueuesIntact
<1>7. /\ r \in OrdersAt(side, pl.price)
      /\ \A s \in OrdersAt(side, pl.price) : Arrival[r] <= Arrival[s]
    BY <1>5, <1>6 DEF WellLinked, IsFirst, IsEmpty
<1>8. /\ r \in Resting /\ r \in Slots /\ heap.isAllocated[r] /\ ord[r].side = side /\ ord[r].price = pl.price
      /\ \A s \in OrdersAt(side, pl.price) : s \in Slots
    BY <1>7 DEF OrdersAt, Resting
<1>9. \A s \in OrdersAt(side, pl.price) : ord[r].sequence <= ord[s].sequence
    BY <1>7, <1>8 DEF Arrival
<1>10. r # call.order
    BY <1>1, <1>8
<1> QED BY <1>1, <1>2, <1>3, <1>4, <1>7, <1>8, <1>9, <1>10

\* The orders that a round of the match loop takes out of the book.
Gone(r) == IF ord'[r].quantity = 0 THEN {r} ELSE {}

\* What a fill does, whether the resting order is spent or not.
LEMMA FillEffect ==
    ASSUME IInv, MatchFill
    PROVE  LET side == Opposite(Incoming.side)
               i    == call.numLevels
               pl   == Book[i]
               r    == pl.head
               qty  == Lesser(Incoming.quantity, ord[r].quantity)
           IN /\ qty \in Nat /\ qty > 0 /\ Incoming.quantity - qty \in 0..(Modulus - 1)
              /\ ord[r].quantity - qty \in 0..(Modulus - 1)
              /\ ord'[call.order] = [ord[call.order] EXCEPT !.quantity = @ - qty]
              /\ ord'[r] = [ord[r] EXCEPT !.quantity = @ - qty]
              /\ \A s \in Slots : s # r /\ s # call.order => ord'[s] = ord[s]
              /\ ord' \in [Slots -> Order]
              /\ FreeOK(heap')
              /\ \A s \in Slots : heap'.isAllocated[s] <=> heap.isAllocated[s] /\ s \notin Gone(r)
              /\ orderIndex' = [id \in DOMAIN orderIndex \ {ord[s].orderId : s \in Gone(r)} |-> orderIndex[id]]
              /\ \E after \in PriceLevels :
                    /\ after.price = pl.price
                    /\ levels' = [levels EXCEPT ![side][i] = after]
                    /\ WellLinked(heap', after, OrdersAt(side, pl.price) \ Gone(r), Arrival)
                    /\ call' = IF IsEmpty(after) THEN [call EXCEPT !.numLevels = @ - 1] ELSE call
              /\ \A sd \in Sides : \A j \in DOMAIN levels[sd] : sd # side \/ j # i =>
                    /\ r \notin OrdersAt(sd, levels[sd][j].price)
                    /\ WellLinked(heap', levels[sd][j], OrdersAt(sd, levels[sd][j].price), Arrival)
              /\ sequence' = sequence
<1> DEFINE side == Opposite(Incoming.side)
           i    == call.numLevels
           pl   == Book[i]
           r    == pl.head
           qty  == Lesser(Incoming.quantity, ord[r].quantity)
           left == ord[r].quantity - qty
           filled == TakeQuantity(pl, qty)
           removed == RemoveOrder(heap, filled, r, left)
           after == IF left = 0 THEN removed.level ELSE filled
<1>1. call.pc = "match" /\ call.numLevels > 0 /\ Incoming.quantity > 0
    BY DEF MatchFill, InLoop
<1>2. /\ call.order \in Slots /\ call.order \notin Resting /\ heap.isAllocated[call.order] /\ Incoming \in Order
      /\ side \in Sides /\ side # Incoming.side /\ Book = levels[side]
      /\ i \in DOMAIN levels[side] /\ pl \in PriceLevels
      /\ r \in OrdersAt(side, pl.price) /\ r \in Resting /\ r \in Slots /\ r # call.order
      /\ heap.isAllocated[r]
    BY <1>1, InLoopFacts
<1>3. /\ ord' = [ord EXCEPT ![call.order].quantity = @ - qty, ![r].quantity = left]
      /\ heap' = IF left = 0 THEN Deallocate(removed.heap, r) ELSE heap
      /\ orderIndex' = IF left = 0 THEN Unindexed(ord[r].orderId) ELSE orderIndex
      /\ levels' = [levels EXCEPT ![side][i] = after]
      /\ call' = IF IsEmpty(after) THEN [call EXCEPT !.numLevels = @ - 1] ELSE call
      /\ sequence' = sequence
    BY DEF MatchFill
<1> HIDE DEF pl, r
<1>4. ord \in [Slots -> Order] /\ heap \in Heap /\ FreeOK(heap) /\ levels \in [Sides -> Seq(PriceLevels)]
    BY BookFacts DEF IInv, StructuresIntact, OrderBookTypeOK
<1>5. /\ qty \in Nat /\ qty > 0 /\ Incoming.quantity - qty \in 0..(Modulus - 1)
      /\ left \in 0..(Modulus - 1)
  <2>1. ord[r].quantity \in 0..(Modulus - 1) /\ Incoming.quantity \in 0..(Modulus - 1)
      BY <1>2, <1>4 DEF Order
  <2>2. ord[r].quantity > 0
      BY <1>2 DEF IInv, StructuresIntact, QueuesIntact
  <2> QED BY <1>1, <2>1, <2>2, ModulusAssumption DEF Lesser
<1> HIDE DEF qty, left
<1>6. /\ ord'[call.order] = [ord[call.order] EXCEPT !.quantity = @ - qty]
      /\ ord'[r] = [ord[r] EXCEPT !.quantity = @ - qty]
      /\ ord'[r].quantity = left
      /\ \A s \in Slots : s # r /\ s # call.order => ord'[s] = ord[s]
      /\ ord' \in [Slots -> Order]
  <2> DEFINE mid == [ord EXCEPT ![call.order].quantity = @ - qty]
  <2>1. /\ mid \in [Slots -> Order] /\ mid[call.order] = [ord[call.order] EXCEPT !.quantity = @ - qty]
        /\ \A s \in Slots : s # call.order => mid[s] = ord[s]
      BY <1>2, <1>4, <1>5 DEF Order, Incoming
  <2>2. ord' = [mid EXCEPT ![r].quantity = left]
      BY <1>3
  <2> HIDE DEF mid
  <2>3. /\ ord' \in [Slots -> Order] /\ ord'[r] = [mid[r] EXCEPT !.quantity = left]
        /\ \A s \in Slots : s # r => ord'[s] = mid[s]
      BY <1>2, <1>5, <2>1, <2>2 DEF Order
  <2>4. mid[r] = ord[r] /\ left = ord[r].quantity - qty /\ ord[r] \in Order
      BY <1>2, <1>4, <2>1 DEF left
  <2>5. [ord[r] EXCEPT !.quantity = left] = [ord[r] EXCEPT !.quantity = @ - qty]
      BY <2>4
  <2>6. [ord[r] EXCEPT !.quantity = left].quantity = left
      BY <2>4 DEF Order
  <2> QED BY <1>2, <2>1, <2>3, <2>4, <2>5, <2>6
<1>7. /\ filled \in PriceLevels /\ filled.price = pl.price
      /\ filled.head = pl.head /\ filled.tail = pl.tail
  <2>1. (pl.totalQuantity - qty) % Modulus \in 0..(Modulus - 1)
      BY <1>2, <1>5, ModulusAssumption DEF PriceLevels
  <2> QED BY <1>2, <2>1 DEF TakeQuantity, PriceLevels
<1> HIDE DEF filled
<1>8. WellLinked(heap, pl, OrdersAt(side, pl.price), Arrival) /\ pl = levels[side][i]
    BY <1>2 DEF IInv, StructuresIntact, QueuesIntact, pl
<1>9. CASE left = 0
  <2>1. Gone(r) = {r}
      BY <1>6, <1>9 DEF Gone
  <2>2. left \in Nat
      BY <1>9
  <2>3. /\ FreeOK(Deallocate(removed.heap, r))
        /\ Deallocate(removed.heap, r).isAllocated = [heap.isAllocated EXCEPT ![r] = FALSE]
        /\ removed.level \in PriceLevels /\ removed.level.price = filled.price
        /\ WellLinked(Deallocate(removed.heap, r), removed.level, OrdersAt(side, pl.price) \ {r}, Arrival)
        /\ \A sd \in Sides : \A j \in DOMAIN levels[sd] : sd # side \/ j # i =>
              /\ r \notin OrdersAt(sd, levels[sd][j].price)
              /\ WellLinked(Deallocate(removed.heap, r), levels[sd][j], OrdersAt(sd, levels[sd][j].price), Arrival)
      BY SMTT(60), <1>2, <1>7, <1>8, <2>2, RemovedHeap
  <2>4. heap' = Deallocate(removed.heap, r) /\ after = removed.level /\ orderIndex' = Unindexed(ord[r].orderId)
      BY <1>3, <1>9
  <2>5. \A s \in Slots : heap'.isAllocated[s] <=> heap.isAllocated[s] /\ s \notin Gone(r)
      BY <1>2, <1>4, <2>1, <2>3, <2>4 DEF Heap
  <2>6. orderIndex' = [id \in DOMAIN orderIndex \ {ord[s].orderId : s \in Gone(r)} |-> orderIndex[id]]
    <3>1. {ord[s].orderId : s \in Gone(r)} = {ord[r].orderId}
        BY <2>1
    <3> QED BY <2>4, <3>1 DEF Unindexed, Restrict
  <2> HIDE DEF removed
  <2>7. \E af \in PriceLevels :
            /\ af.price = pl.price
            /\ levels' = [levels EXCEPT ![side][i] = af]
            /\ WellLinked(heap', af, OrdersAt(side, pl.price) \ Gone(r), Arrival)
            /\ call' = IF IsEmpty(af) THEN [call EXCEPT !.numLevels = @ - 1] ELSE call
    <3>1. after \in PriceLevels /\ after.price = pl.price
        BY <1>7, <2>3, <2>4
    <3>2. WellLinked(heap', after, OrdersAt(side, pl.price) \ Gone(r), Arrival)
        BY <2>1, <2>3, <2>4
    <3> HIDE DEF after
    <3> QED BY <1>3, <3>1, <3>2
  <2>8. \A sd \in Sides : \A j \in DOMAIN levels[sd] : sd # side \/ j # i =>
            /\ r \notin OrdersAt(sd, levels[sd][j].price)
            /\ WellLinked(heap', levels[sd][j], OrdersAt(sd, levels[sd][j].price), Arrival)
      BY <2>3, <2>4
  <2>9. FreeOK(heap')
      BY <2>3, <2>4
  <2> HIDE DEF after
  <2> QED BY <1>3, <1>5, <1>6, <2>5, <2>6, <2>7, <2>8, <2>9 DEF pl, r, qty, left
<1>10. CASE left # 0
  <2>1. Gone(r) = {} /\ heap' = heap /\ orderIndex' = orderIndex /\ after = filled
      BY <1>3, <1>6, <1>10 DEF Gone
  <2>2. \A s \in Slots : heap'.isAllocated[s] <=> heap.isAllocated[s] /\ s \notin Gone(r)
      BY <2>1
  <2>3. orderIndex' = [id \in DOMAIN orderIndex \ {ord[s].orderId : s \in Gone(r)} |-> orderIndex[id]]
    <3>1. DOMAIN orderIndex \ {ord[s].orderId : s \in Gone(r)} = DOMAIN orderIndex
        BY <2>1
    <3>2. orderIndex = [id \in DOMAIN orderIndex |-> orderIndex[id]]
        BY DEF IInv, StructuresIntact, OrderBookTypeOK
    <3> QED BY <2>1, <3>1, <3>2
  <2>4. \E af \in PriceLevels :
            /\ af.price = pl.price
            /\ levels' = [levels EXCEPT ![side][i] = af]
            /\ WellLinked(heap', af, OrdersAt(side, pl.price) \ Gone(r), Arrival)
            /\ call' = IF IsEmpty(af) THEN [call EXCEPT !.numLevels = @ - 1] ELSE call
    <3>1. WellLinked(heap, filled, OrdersAt(side, pl.price), Arrival)
        BY <1>7, <1>8, SameLinks
    <3>2. OrdersAt(side, pl.price) \ Gone(r) = OrdersAt(side, pl.price)
        BY <2>1
    <3>3. WellLinked(heap', filled, OrdersAt(side, pl.price) \ Gone(r), Arrival)
        BY <2>1, <3>1, <3>2
    <3> HIDE DEF after
    <3> QED BY <1>3, <1>7, <2>1, <3>3
  <2>5. ASSUME NEW sd \in Sides, NEW j \in DOMAIN levels[sd], sd # side \/ j # i
        PROVE  /\ r \notin OrdersAt(sd, levels[sd][j].price)
               /\ WellLinked(heap', levels[sd][j], OrdersAt(sd, levels[sd][j].price), Arrival)
    <3>1. r \notin OrdersAt(sd, levels[sd][j].price)
      <4>1. OrdersAt(side, levels[side][i].price) \cap OrdersAt(sd, levels[sd][j].price) = {}
          BY <1>2, <2>5, LevelsDisjoint
      <4> QED BY <1>2, <1>8, <4>1
    <3>2. WellLinked(heap, levels[sd][j], OrdersAt(sd, levels[sd][j].price), Arrival)
        BY DEF IInv, StructuresIntact, QueuesIntact
    <3> QED BY <2>1, <3>1, <3>2
  <2>6. FreeOK(heap')
      BY <1>4, <2>1
  <2> HIDE DEF after
  <2> QED BY <1>3, <1>5, <1>6, <2>2, <2>3, <2>4, <2>5, <2>6 DEF pl, r, qty, left
<1> QED BY <1>9, <1>10

\* A round that trades.
LEMMA FillKeeps ==
    ASSUME IInv, MatchFill
    PROVE  LET r == Book[call.numLevels].head
           IN /\ IInv'
              /\ Resting' = Resting \ Gone(r) /\ InFlight' = {call.order} /\ InFlight = {call.order}
              /\ call'.order = call.order /\ call'.pc = "match"
              /\ \A s \in Slots : s # r /\ s # call.order => ord'[s] = ord[s]
<1> DEFINE side == Opposite(Incoming.side)
           i    == call.numLevels
           pl   == Book[i]
           r    == pl.head
           qty  == Lesser(Incoming.quantity, ord[r].quantity)
<1>1. call.pc = "match" /\ call.numLevels > 0
    BY DEF MatchFill, InLoop
<1>2. /\ InFlight = {call.order} /\ call.order \in Slots /\ call.order \notin Resting
      /\ heap.isAllocated[call.order] /\ Incoming \in Order
      /\ side \in Sides /\ side # Incoming.side /\ Book = levels[side]
      /\ i \in DOMAIN levels[side] /\ pl \in PriceLevels
      /\ r \in OrdersAt(side, pl.price) /\ r \in Resting /\ r \in Slots /\ r # call.order
      /\ heap.isAllocated[r]
    BY <1>1, InLoopFacts
<1>3. /\ ord'[call.order] = [ord[call.order] EXCEPT !.quantity = @ - qty]
      /\ ord'[r] = [ord[r] EXCEPT !.quantity = @ - qty]
      /\ \A s \in Slots : s # r /\ s # call.order => ord'[s] = ord[s]
      /\ ord' \in [Slots -> Order]
      /\ FreeOK(heap')
      /\ \A s \in Slots : heap'.isAllocated[s] <=> heap.isAllocated[s] /\ s \notin Gone(r)
      /\ orderIndex' = [id \in DOMAIN orderIndex \ {ord[s].orderId : s \in Gone(r)} |-> orderIndex[id]]
      /\ \A sd \in Sides : \A j \in DOMAIN levels[sd] : sd # side \/ j # i =>
            /\ r \notin OrdersAt(sd, levels[sd][j].price)
            /\ WellLinked(heap', levels[sd][j], OrdersAt(sd, levels[sd][j].price), Arrival)
      /\ sequence' = sequence
    BY FillEffect
<1>4. PICK after \in PriceLevels :
         /\ after.price = pl.price
         /\ levels' = [levels EXCEPT ![side][i] = after]
         /\ WellLinked(heap', after, OrdersAt(side, pl.price) \ Gone(r), Arrival)
         /\ call' = IF IsEmpty(after) THEN [call EXCEPT !.numLevels = @ - 1] ELSE call
    BY FillEffect
<1> HIDE DEF pl, r, qty
<1>5. /\ OrderBookTypeOK /\ QueuesIntact /\ LevelsSorted /\ IndexExact /\ SlotsAccountedFor
      /\ ArrivalOK /\ CallOK
    BY DEF IInv, StructuresIntact
<1>6. /\ \A sd \in Sides : /\ SortedLevels(levels[sd], sd) /\ Len(levels[sd]) \in Nat
                           /\ DOMAIN levels[sd] = 1..Len(levels[sd])
      /\ \A s \in Slots : ord[s] \in Order /\ Arrival[s] = ord[s].sequence
      /\ \A s \in Resting : s \in Slots /\ heap.isAllocated[s]
    BY BookFacts
<1>7. call \in [pc : {"idle", "match", "rest", "aborted"}, order : Ptr, numLevels : Nat]
      /\ i \in Nat /\ i - 1 \in Nat
    BY <1>1, <1>5 DEF OrderBookTypeOK
<1>8. /\ call' \in [pc : {"idle", "match", "rest", "aborted"}, order : Ptr, numLevels : Nat]
      /\ call'.pc = "match" /\ call'.order = call.order
      /\ call'.numLevels = IF IsEmpty(after) THEN i - 1 ELSE i
  <2>1. CASE IsEmpty(after)
      BY <1>1, <1>4, <1>7, <2>1
  <2>2. CASE ~IsEmpty(after)
      BY <1>1, <1>4, <1>7, <2>2
  <2> QED BY <2>1, <2>2
<1>9. /\ levels' \in [Sides -> Seq(PriceLevels)]
      /\ \A sd \in Sides :
            /\ DOMAIN levels'[sd] = DOMAIN levels[sd] /\ Len(levels'[sd]) = Len(levels[sd])
            /\ \A j \in DOMAIN levels[sd] :
                  /\ levels'[sd][j] = IF sd = side /\ j = i THEN after ELSE levels[sd][j]
                  /\ levels'[sd][j].price = levels[sd][j].price
  <2>1. levels \in [Sides -> Seq(PriceLevels)] /\ pl = levels[side][i]
      BY <1>2, <1>5 DEF OrderBookTypeOK, pl
  <2> QED BY <1>2, <1>4, <2>1, LevelStored
<1>10. \A s \in Slots : /\ ord'[s].side = ord[s].side /\ ord'[s].price = ord[s].price
                        /\ ord'[s].sequence = ord[s].sequence /\ ord'[s].orderId = ord[s].orderId
                        /\ ord'[s].participantId = ord[s].participantId
  <2> SUFFICES ASSUME NEW s \in Slots
               PROVE  /\ ord'[s].side = ord[s].side /\ ord'[s].price = ord[s].price
                      /\ ord'[s].sequence = ord[s].sequence /\ ord'[s].orderId = ord[s].orderId
                      /\ ord'[s].participantId = ord[s].participantId
      OBVIOUS
  <2>1. ord[s] \in Order
      BY <1>6
  <2>2. CASE s = r
      BY <1>3, <2>1, <2>2 DEF Order
  <2>3. CASE s = call.order
      BY <1>3, <2>1, <2>3 DEF Order
  <2>4. CASE s # r /\ s # call.order
      BY <1>3, <2>4
  <2> QED BY <2>2, <2>3, <2>4
<1>11. /\ InFlight' = {call.order} /\ Resting' = Resting \ Gone(r)
       /\ \A s \in Slots : Arrival'[s] = Arrival[s]
  <2>1. InFlight' = {call.order}
      BY <1>8 DEF InFlight
  <2> QED BY <1>2, <1>3, <1>10, <2>1 DEF Resting, Arrival
<1>12. \A sd, pr : OrdersAt(sd, pr)' = OrdersAt(sd, pr) \ Gone(r)
    BY <1>6, <1>10, <1>11 DEF OrdersAt
<1>13. Gone(r) \subseteq {r}
    BY DEF Gone
<1>14. OrderBookTypeOK'
  <2>1. DOMAIN orderIndex' \subseteq Ids /\ orderIndex' \in [DOMAIN orderIndex' -> Slots]
      BY <1>3, <1>5 DEF OrderBookTypeOK
  <2> QED BY <1>3, <1>5, <1>8, <1>9, <2>1 DEF OrderBookTypeOK, FreeOK
<1>15. QueuesIntact'
  <2>1. ASSUME NEW sd \in Sides, NEW j \in DOMAIN levels'[sd]
        PROVE  WellLinked(heap, levels[sd][j], OrdersAt(sd, levels[sd][j].price), Arrival)'
    <3> DEFINE T == OrdersAt(sd, levels[sd][j].price) \ Gone(r)
    <3>1. j \in DOMAIN levels[sd] /\ T \subseteq Slots
        BY <1>6, <1>9 DEF OrdersAt
    <3>2. WellLinked(heap', levels'[sd][j], T, Arrival)
      <4>1. CASE sd = side /\ j = i
        <5>1. levels'[sd][j] = after /\ levels[sd][j] = pl
            BY <1>2, <1>9, <3>1, <4>1 DEF pl
        <5> QED BY <1>4, <4>1, <5>1
      <4>2. CASE ~(sd = side /\ j = i)
        <5>1. /\ r \notin OrdersAt(sd, levels[sd][j].price)
              /\ WellLinked(heap', levels[sd][j], OrdersAt(sd, levels[sd][j].price), Arrival)
            BY <1>3, <3>1, <4>2
        <5>2. T = OrdersAt(sd, levels[sd][j].price)
            BY <1>13, <5>1
        <5> QED BY <1>9, <3>1, <4>2, <5>1, <5>2
      <4> QED BY <4>1, <4>2
    <3>3. \A s \in T : Arrival'[s] = Arrival[s]
        BY <1>11, <3>1
    <3>4. WellLinked(heap', levels'[sd][j], T, Arrival')
      <4> HIDE DEF T
      <4> QED BY <3>2, <3>3, SameLinks
    <3>5. levels'[sd][j].price = levels[sd][j].price
        BY <1>9, <3>1
    <3> QED BY <1>12, <3>4, <3>5
  <2>2. \A s, t \in Resting' : Arrival'[s] = Arrival'[t] => s = t
      BY <1>5, <1>6, <1>11 DEF QueuesIntact
  <2>3. ASSUME NEW s \in Resting' PROVE ord'[s].quantity > 0
    <3>1. s \in Resting /\ s \in Slots /\ s # call.order /\ s \notin Gone(r)
        BY <1>2, <1>6, <1>11
    <3>2. CASE s = r
      <4>1. ord'[r].quantity # 0 /\ ord'[r].quantity \in Nat
          BY <1>3, <3>1, <3>2 DEF Gone, Order
      <4> QED BY <3>2, <4>1
    <3>3. CASE s # r
        BY <1>3, <1>5, <3>1, <3>3 DEF QueuesIntact
    <3> QED BY <3>2, <3>3
  <2> QED BY <2>1, <2>2, <2>3 DEF QueuesIntact
<1>16. Incoming'.side = Incoming.side /\ Incoming'.price = Incoming.price /\ Book' = levels'[side]
    BY <1>2, <1>8, <1>10 DEF Incoming, Book
<1>17. LevelsSorted'
  <2>1. ASSUME NEW sd \in Sides, NEW j \in DOMAIN levels'[sd], NEW k \in DOMAIN levels'[sd], j < k
        PROVE  SortsBefore(sd, levels'[sd][j].price, levels'[sd][k].price)
      BY <1>5, <1>9, <2>1 DEF LevelsSorted
  <2>2. ASSUME NEW sd \in Sides, NEW j \in DOMAIN levels'[sd]
        PROVE  IsEmpty(levels'[sd][j]) <=> sd = side /\ j > call'.numLevels
    <3>1. j \in DOMAIN levels[sd] /\ j \in Nat
        BY <1>6, <1>9
    <3>2. IsEmpty(levels[sd][j]) <=> sd = side /\ j > i
        BY <1>1, <1>5, <3>1 DEF LevelsSorted
    <3>3. CASE sd = side /\ j = i
        BY <1>7, <1>8, <1>9, <3>1, <3>3
    <3>4. CASE ~(sd = side /\ j = i)
      <4>1. levels'[sd][j] = levels[sd][j]
          BY <1>9, <3>1, <3>4
      <4>2. sd = side => (j > call'.numLevels <=> j > i)
          BY <1>7, <1>8, <3>1, <3>4
      <4> QED BY <3>2, <4>1, <4>2
    <3> QED BY <3>3, <3>4
  <2> QED BY <1>8, <1>16, <2>1, <2>2 DEF LevelsSorted
<1>18. IndexExact'
  <2>1. \A s \in Resting : s \notin Gone(r) => ord[s].orderId \notin {ord[t].orderId : t \in Gone(r)}
      BY <1>2, <1>6, <1>13, IdsUnique
  <2>2. DOMAIN orderIndex' = {ord[s].orderId : s \in Resting} \ {ord[s].orderId : s \in Gone(r)}
      BY <1>3, <1>5 DEF IndexExact
  <2>3. DOMAIN orderIndex' = {ord'[s].orderId : s \in Resting'}
    <3>1. {ord'[s].orderId : s \in Resting'} = {ord[s].orderId : s \in Resting \ Gone(r)}
        BY <1>6, <1>10, <1>11
    <3>2. {ord[s].orderId : s \in Resting \ Gone(r)}
             = {ord[s].orderId : s \in Resting} \ {ord[s].orderId : s \in Gone(r)}
        BY <2>1
    <3> QED BY <2>2, <3>1, <3>2
  <2>4. ASSUME NEW s \in Resting' PROVE orderIndex'[ord'[s].orderId] = s
    <3>1. s \in Resting /\ s \in Slots /\ ord'[s].orderId = ord[s].orderId
        BY <1>6, <1>10, <1>11
    <3>2. ord[s].orderId \in DOMAIN orderIndex'
        BY <2>3, <3>1
    <3>3. orderIndex'[ord[s].orderId] = orderIndex[ord[s].orderId]
        BY <1>3, <3>2
    <3> QED BY <1>5, <3>1, <3>3 DEF IndexExact
  <2> QED BY <1>8, <2>3, <2>4 DEF IndexExact
<1>19. SlotsAccountedFor'
  <2>1. FreeListIntact'
      BY <1>3 DEF FreeOK, FreeListIntact, Chain
  <2>2. \A s \in InFlight' : s \in Slots /\ heap'.isAllocated[s]
      BY <1>2, <1>3, <1>11, <1>13
  <2>3. \A s \in Resting' : \E j \in DOMAIN levels'[ord'[s].side] :
            levels'[ord'[s].side][j].price = ord'[s].price
    <3> SUFFICES ASSUME NEW s \in Resting'
                 PROVE  \E j \in DOMAIN levels'[ord'[s].side] : levels'[ord'[s].side][j].price = ord'[s].price
        OBVIOUS
    <3>1. s \in Resting /\ s \in Slots /\ ord'[s].side = ord[s].side /\ ord'[s].price = ord[s].price
          /\ ord[s].side \in Sides
        BY <1>6, <1>10, <1>11 DEF Order
    <3>2. PICK j \in DOMAIN levels[ord[s].side] : levels[ord[s].side][j].price = ord[s].price
        BY <1>5, <3>1 DEF SlotsAccountedFor
    <3> QED BY <1>9, <3>1, <3>2
  <2> QED BY <2>1, <2>2, <2>3 DEF SlotsAccountedFor
<1>20. ArrivalOK'
  <2>1. \A s \in Slots : heap'.isAllocated[s] => heap.isAllocated[s]
      BY <1>3
  <2>2. \A s \in Resting' : s \in Resting /\ s \in Slots
      BY <1>6, <1>11
  <2> QED BY <1>2, <1>3, <1>5, <1>10, <1>11, <2>1, <2>2 DEF ArrivalOK
<1>21. CallOK'
  <2>1. call'.numLevels \in 0..Len(Book')
      BY <1>2, <1>6, <1>7, <1>8, <1>9, <1>16
  <2> QED BY <1>8, <2>1 DEF CallOK
<1>22. IInv'
    BY <1>14, <1>15, <1>17, <1>18, <1>19, <1>20, <1>21 DEF IInv, StructuresIntact
<1> QED BY <1>2, <1>3, <1>8, <1>11, <1>22 DEF r, pl

\* A round that meets the same participant.
LEMMA SelfKeeps ==
    ASSUME IInv, MatchSelf
    PROVE  IInv' /\ Resting' = Resting /\ InFlight' = InFlight /\ call.order \notin Resting
           /\ \A s \in Slots : s # call.order => ord'[s] = ord[s]
<1>1. call.pc = "match" /\ call.numLevels > 0
    BY DEF MatchSelf, InLoop
<1>2. InFlight = {call.order} /\ call.order \in Slots /\ call.order \notin Resting
    BY <1>1, InLoopFacts
<1>3. /\ OrderBookTypeOK /\ QueuesIntact /\ LevelsSorted /\ IndexExact /\ SlotsAccountedFor
      /\ ArrivalOK /\ CallOK
    BY DEF IInv, StructuresIntact
<1>4. /\ ord' = [ord EXCEPT ![call.order].quantity = 0]
      /\ UNCHANGED <<heap, levels, orderIndex, sequence, call, trade>>
    BY DEF MatchSelf
<1>5. /\ \A s \in Slots : ord[s] \in Order /\ Arrival[s] = ord[s].sequence
      /\ \A s \in Resting : s \in Slots
      /\ \A sd \in Sides : \A pr : OrdersAt(sd, pr) \subseteq Slots
    BY BookFacts DEF OrdersAt
<1>6. ord' \in [Slots -> Order] /\ \A s \in Slots : s # call.order => ord'[s] = ord[s]
  <2>1. ord \in [Slots -> Order] /\ 0 \in 0..(Modulus - 1)
      BY <1>3, ModulusAssumption DEF OrderBookTypeOK
  <2>2. [ord[call.order] EXCEPT !.quantity = 0] \in Order
      BY <1>2, <2>1 DEF Order
  <2> QED BY <1>2, <1>4, <2>1, <2>2
<1>7. \A s \in Slots : /\ ord'[s].side = ord[s].side /\ ord'[s].price = ord[s].price
                       /\ ord'[s].sequence = ord[s].sequence /\ ord'[s].orderId = ord[s].orderId
                       /\ ord'[s].participantId = ord[s].participantId
  <2> SUFFICES ASSUME NEW s \in Slots
               PROVE  /\ ord'[s].side = ord[s].side /\ ord'[s].price = ord[s].price
                      /\ ord'[s].sequence = ord[s].sequence /\ ord'[s].orderId = ord[s].orderId
                      /\ ord'[s].participantId = ord[s].participantId
      OBVIOUS
  <2>1. ord[s] \in Order /\ ord \in [Slots -> Order]
      BY <1>3, <1>5 DEF OrderBookTypeOK
  <2>2. CASE s = call.order
      BY <1>4, <2>1, <2>2 DEF Order
  <2>3. CASE s # call.order
      BY <1>6, <2>3
  <2> QED BY <2>2, <2>3
<1>8. InFlight' = InFlight /\ Resting' = Resting /\ \A s \in Slots : Arrival'[s] = Arrival[s]
    BY <1>4, <1>7 DEF InFlight, Resting, Arrival
<1>9. \A sd, pr : OrdersAt(sd, pr)' = OrdersAt(sd, pr)
    BY <1>5, <1>7, <1>8 DEF OrdersAt
<1>10. OrderBookTypeOK'
    BY <1>3, <1>4, <1>6 DEF OrderBookTypeOK
<1>11. QueuesIntact'
  <2>1. ASSUME NEW sd \in Sides, NEW j \in DOMAIN levels'[sd]
        PROVE  WellLinked(heap, levels[sd][j], OrdersAt(sd, levels[sd][j].price), Arrival)'
    <3> DEFINE T == OrdersAt(sd, levels[sd][j].price)
    <3>1. WellLinked(heap, levels[sd][j], T, Arrival) /\ T \subseteq Slots
        BY <1>3, <1>4, <1>5 DEF QueuesIntact
    <3>2. \A s \in T : Arrival'[s] = Arrival[s]
        BY <1>8, <3>1
    <3>3. WellLinked(heap, levels[sd][j], T, Arrival')
      <4> HIDE DEF T
      <4> QED BY <3>1, <3>2, SameLinks
    <3> QED BY <1>4, <1>9, <3>3
  <2>2. \A s, t \in Resting' : Arrival'[s] = Arrival'[t] => s = t
      BY <1>3, <1>5, <1>8 DEF QueuesIntact
  <2>3. \A s \in Resting' : ord'[s].quantity > 0
      BY <1>2, <1>3, <1>5, <1>6, <1>8 DEF QueuesIntact
  <2> QED BY <2>1, <2>2, <2>3 DEF QueuesIntact
<1>12. Incoming'.side = Incoming.side /\ Book' = Book
    BY <1>2, <1>4, <1>7 DEF Incoming, Book
<1>13. LevelsSorted'
    BY <1>3, <1>4, <1>12 DEF LevelsSorted
<1>14. IndexExact'
  <2>1. {ord'[s].orderId : s \in Resting'} = {ord[s].orderId : s \in Resting}
      BY <1>5, <1>7, <1>8
  <2> QED BY <1>1, <1>3, <1>4, <1>5, <1>7, <1>8, <2>1 DEF IndexExact
<1>15. SlotsAccountedFor'
  <2>1. FreeListIntact'
    <3>1. FreeOK(heap')
        BY <1>4, BookFacts
    <3> QED BY <3>1 DEF FreeOK, FreeListIntact, Chain
  <2> QED BY <1>3, <1>4, <1>5, <1>7, <1>8, <2>1 DEF SlotsAccountedFor
<1>16. ArrivalOK'
    BY <1>2, <1>3, <1>4, <1>5, <1>7, <1>8 DEF ArrivalOK
<1>17. CallOK'
    BY <1>1, <1>3, <1>4, <1>12 DEF CallOK
<1> QED BY <1>2, <1>6, <1>8, <1>10, <1>11, <1>13, <1>14, <1>15, <1>16, <1>17 DEF IInv, StructuresIntact

\* The end of the match loop: one resize drops the emptied levels.
LEMMA DoneKeeps ==
    ASSUME IInv, MatchDone
    PROVE  IInv' /\ Resting' = Resting /\ InFlight' = InFlight /\ ord' = ord
<1> DEFINE side == Opposite(Incoming.side)
           n    == call.numLevels
           kept == SubSeq(levels[side], 1, n)
<1>1. /\ call.pc = "match" /\ ~InLoop
      /\ levels' = [levels EXCEPT ![side] = kept]
      /\ call' = [call EXCEPT !.pc = "rest"]
      /\ UNCHANGED <<heap, ord, orderIndex, sequence, trade>>
    BY DEF MatchDone, Resize
<1>2. /\ OrderBookTypeOK /\ QueuesIntact /\ LevelsSorted /\ IndexExact /\ SlotsAccountedFor
      /\ ArrivalOK /\ CallOK
    BY DEF IInv, StructuresIntact
<1>3. /\ \A sd \in Sides : /\ SortedLevels(levels[sd], sd) /\ Len(levels[sd]) \in Nat
                           /\ DOMAIN levels[sd] = 1..Len(levels[sd])
                           /\ \A j \in DOMAIN levels[sd] : levels[sd][j] \in PriceLevels
      /\ \A s \in Slots : ord[s] \in Order
      /\ \A s \in Resting : s \in Slots /\ s \in OrdersAt(ord[s].side, ord[s].price)
      /\ FreeOK(heap)
    BY BookFacts
<1>4. InFlight = {call.order} /\ call.order \in Slots
    BY <1>1, <1>2 DEF InFlight, SlotsAccountedFor
<1>5. Incoming \in Order /\ side \in Sides /\ side # Incoming.side /\ Book = levels[side]
    BY <1>3, <1>4 DEF Incoming, Book, Opposite, Sides, Order
<1>6. n \in Nat /\ n <= Len(levels[side])
    BY <1>1, <1>2, <1>3, <1>5 DEF CallOK
<1>7. kept \in Seq(PriceLevels) /\ Len(kept) = n /\ DOMAIN kept = 1..n
      /\ \A j \in 1..n : kept[j] = levels[side][j]
  <2>1. \A j \in 1..n : levels[side][j] \in PriceLevels
      BY <1>3, <1>5, <1>6
  <2>2. /\ kept \in Seq(PriceLevels) /\ Len(kept) = (IF 1 <= n THEN n - 1 + 1 ELSE 0)
        /\ \A j \in 1..(n - 1 + 1) : kept[j] = levels[side][1 + j - 1]
      BY <1>6, <2>1, SubSeqProperties, 1 \in Int, n \in Int
  <2> HIDE DEF kept
  <2>3. Len(kept) = n /\ n - 1 + 1 = n
      BY <1>6, <2>2
  <2>4. ASSUME NEW j \in 1..n PROVE kept[j] = levels[side][j]
    <3>1. j \in 1..(n - 1 + 1) /\ 1 + j - 1 = j
        BY <1>6
    <3> QED BY <2>2, <3>1
  <2> QED BY <2>2, <2>3, <2>4, LenProperties
<1> HIDE DEF kept, n
<1>8. /\ call' \in [pc : {"idle", "match", "rest", "aborted"}, order : Ptr, numLevels : Nat]
      /\ call'.pc = "rest" /\ call'.order = call.order /\ call'.numLevels = n
    BY <1>1, <1>2 DEF OrderBookTypeOK, n
<1>9. InFlight' = InFlight /\ Resting' = Resting /\ Arrival' = Arrival
      /\ Incoming' = Incoming /\ Book' = kept
  <2>1. levels'[side] = kept
      BY <1>1, <1>2, <1>5 DEF OrderBookTypeOK
  <2> QED BY <1>1, <1>8, <2>1 DEF InFlight, Resting, Arrival, Incoming, Book
<1>10. \A sd, pr : OrdersAt(sd, pr)' = OrdersAt(sd, pr)
    BY <1>1, <1>9 DEF OrdersAt
<1>11. ASSUME NEW sd \in Sides
       PROVE  /\ levels'[sd] = IF sd = side THEN kept ELSE levels[sd]
              /\ levels'[sd] \in Seq(PriceLevels)
              /\ \A j \in DOMAIN levels'[sd] :
                    /\ j \in DOMAIN levels[sd] /\ levels'[sd][j] = levels[sd][j]
                    /\ ~IsEmpty(levels[sd][j])
  <2>1. levels'[sd] = IF sd = side THEN kept ELSE levels[sd]
      BY <1>1, <1>2 DEF OrderBookTypeOK
  <2>2. CASE sd = side
    <3>1. ASSUME NEW j \in 1..n PROVE j \in DOMAIN levels[sd] /\ ~IsEmpty(levels[sd][j])
      <4>1. j \in DOMAIN levels[sd] /\ ~(j > n)
          BY <1>3, <1>6, <2>2
      <4> QED BY <1>2, <4>1 DEF LevelsSorted, n
    <3> QED BY <1>7, <2>1, <2>2, <3>1
  <2>3. CASE sd # side
    <3>1. \A j \in DOMAIN levels[sd] : ~IsEmpty(levels[sd][j])
        BY <1>2, <2>3 DEF LevelsSorted
    <3> QED BY <1>2, <2>1, <2>3, <3>1 DEF OrderBookTypeOK
  <2> QED BY <2>2, <2>3, <2>1
<1>12. OrderBookTypeOK'
  <2>1. levels' \in [Sides -> Seq(PriceLevels)]
    <3>1. levels' = [sd \in Sides |-> levels'[sd]]
        BY <1>1, <1>2 DEF OrderBookTypeOK
    <3> QED BY <1>11, <3>1
  <2> QED BY <1>1, <1>2, <1>8, <2>1 DEF OrderBookTypeOK
<1>13. QueuesIntact'
  <2>1. ASSUME NEW sd \in Sides, NEW j \in DOMAIN levels'[sd]
        PROVE  WellLinked(heap, levels[sd][j], OrdersAt(sd, levels[sd][j].price), Arrival)'
    <3>1. WellLinked(heap, levels[sd][j], OrdersAt(sd, levels[sd][j].price), Arrival)
        BY <1>2, <1>11 DEF QueuesIntact
    <3>2. levels'[sd][j] = levels[sd][j]
        BY <1>11
    <3> QED BY <1>1, <1>9, <1>10, <3>1, <3>2
  <2> QED BY <1>1, <1>2, <1>9, <2>1 DEF QueuesIntact
<1>14. LevelsSorted'
  <2>1. ASSUME NEW sd \in Sides, NEW j \in DOMAIN levels'[sd], NEW k \in DOMAIN levels'[sd], j < k
        PROVE  SortsBefore(sd, levels'[sd][j].price, levels'[sd][k].price)
      BY <1>2, <1>11, <2>1 DEF LevelsSorted
  <2>2. \A sd \in Sides : \A j \in DOMAIN levels'[sd] : ~IsEmpty(levels'[sd][j])
      BY <1>11
  <2> QED BY <1>8, <2>1, <2>2 DEF LevelsSorted
<1>15. IndexExact'
    BY <1>1, <1>2, <1>8, <1>9 DEF IndexExact
<1>16. SlotsAccountedFor'
  <2>1. FreeListIntact'
    <3>1. FreeOK(heap')
        BY <1>1, <1>3
    <3> QED BY <3>1 DEF FreeOK, FreeListIntact, Chain
  <2>2. ASSUME NEW s \in Resting
        PROVE  \E j \in DOMAIN levels'[ord[s].side] : levels'[ord[s].side][j].price = ord[s].price
    <3> DEFINE sd == ord[s].side
    <3>1. sd \in Sides /\ s \in OrdersAt(sd, ord[s].price)
        BY <1>3 DEF Order
    <3>2. PICK j \in DOMAIN levels[sd] : levels[sd][j].price = ord[s].price
        BY <1>2 DEF SlotsAccountedFor
    <3>3. WellLinked(heap, levels[sd][j], OrdersAt(sd, ord[s].price), Arrival)
        BY <1>2, <3>1, <3>2 DEF QueuesIntact
    <3>4. levels[sd][j].head \in OrdersAt(sd, ord[s].price)
        BY <3>1, <3>3 DEF WellLinked, IsFirst
    <3>5. ~IsEmpty(levels[sd][j])
        BY <3>4, SlotsNotNull DEF IsEmpty, OrdersAt, Resting
    <3>6. CASE sd = side
      <4>1. ~(j > n)
          BY <1>1, <1>2, <3>1, <3>2, <3>5, <3>6 DEF LevelsSorted, n
      <4>2. j \in 1..n
          BY <1>3, <1>6, <3>1, <3>2, <4>1
      <4> QED BY <1>7, <1>11, <3>1, <3>2, <3>6, <4>2
    <3>7. CASE sd # side
        BY <1>11, <3>1, <3>2, <3>7
    <3> QED BY <3>6, <3>7
  <2> QED BY <1>1, <1>2, <1>9, <2>1, <2>2 DEF SlotsAccountedFor
<1>17. ArrivalOK'
    BY <1>1, <1>2, <1>9 DEF ArrivalOK
<1>18. CallOK'
  <2>1. ASSUME Incoming.quantity > 0, NEW j \in DOMAIN kept
        PROVE  ~Crosses(Incoming.side, Incoming.price, kept[j].price)
    <3>1. j \in 1..n /\ n > 0 /\ n \in 1..Len(levels[side])
        BY <1>6, <1>7
    <3>2. ~Crosses(Incoming.side, Incoming.price, levels[side][n].price)
        BY <1>1, <1>5, <2>1, <3>1 DEF InLoop, n
    <3>3. Incoming.price \in Nat
        BY <1>1, <1>2, <1>4, OrderBookAssumption DEF ArrivalOK, SlotsAccountedFor, Incoming
    <3>4. ~Crosses(Incoming.side, Incoming.price, levels[side][j].price)
      <4>1. SortedLevels(levels[side], side) /\ Incoming.side \in Sides
          BY <1>3, <1>5 DEF Order
      <4> QED BY <3>1, <3>2, <3>3, <4>1, NoneCrosses
    <3> QED BY <1>7, <3>1, <3>4
  <2> QED BY <1>8, <1>9, <2>1 DEF CallOK
<1> QED BY <1>1, <1>9, <1>12, <1>13, <1>14, <1>15, <1>16, <1>17, <1>18 DEF IInv, StructuresIntact

\* LevelFound in the next state.
LEMMA LevelFoundNext ==
    ASSUME NEW side \in Sides, NEW price \in Prices, SortedLevels(levels'[side], side),
           NEW i \in DOMAIN levels'[side], levels'[side][i].price = price
    PROVE  HasLevel(side, price)'
<1>1. FindLevel(side, price)' = Position(levels'[side], side, price)
    BY DEF FindLevel, Position
<1>2. FindLevel(side, price)' = i
    BY <1>1, PositionFound
<1> QED BY <1>2 DEF HasLevel

\* The assertion of findOrCreate fails: the process ends as it stands.
LEMMA AbortKeeps ==
    ASSUME IInv, RestAborts
    PROVE  IInv' /\ Resting' = Resting /\ InFlight' = InFlight
<1>1. /\ call.pc = "rest" /\ call' = [call EXCEPT !.pc = "aborted"]
      /\ UNCHANGED <<heap, ord, levels, orderIndex, sequence, trade>>
    BY DEF RestAborts
<1>2. /\ OrderBookTypeOK /\ QueuesIntact /\ LevelsSorted /\ IndexExact /\ SlotsAccountedFor
      /\ ArrivalOK /\ FreeOK(heap)
    BY BookFacts DEF IInv, StructuresIntact
<1>3. /\ call' \in [pc : {"idle", "match", "rest", "aborted"}, order : Ptr, numLevels : Nat]
      /\ call'.pc = "aborted" /\ call'.order = call.order
    BY <1>1, <1>2 DEF OrderBookTypeOK
<1>4. InFlight' = InFlight /\ Resting' = Resting /\ Arrival' = Arrival
    BY <1>1, <1>3 DEF InFlight, Resting, Arrival
<1>5. \A sd, pr : OrdersAt(sd, pr)' = OrdersAt(sd, pr)
    BY <1>1, <1>4 DEF OrdersAt
<1>6. OrderBookTypeOK' /\ LevelsSorted' /\ IndexExact' /\ ArrivalOK' /\ CallOK'
    BY <1>1, <1>2, <1>3, <1>4 DEF OrderBookTypeOK, LevelsSorted, IndexExact, ArrivalOK, CallOK
<1>7. QueuesIntact'
    BY <1>1, <1>2, <1>4, <1>5 DEF QueuesIntact
<1>8. SlotsAccountedFor'
  <2>1. FreeListIntact'
    <3>1. FreeOK(heap')
        BY <1>1, <1>2
    <3> QED BY <3>1 DEF FreeOK, FreeListIntact, Chain
  <2> QED BY <1>1, <1>2, <1>4, <2>1 DEF SlotsAccountedFor
<1> QED BY <1>4, <1>6, <1>7, <1>8 DEF IInv, StructuresIntact

\* A spent order goes back to the pool.
LEMMA DropKeeps ==
    ASSUME IInv, DropOrder
    PROVE  IInv' /\ Resting' = Resting /\ InFlight' = {} /\ InFlight = {call.order}
<1>1. /\ call.pc = "rest" /\ call' = Idle /\ heap' = Deallocate(heap, call.order)
      /\ UNCHANGED <<ord, levels, orderIndex, sequence, trade>>
    BY DEF DropOrder
<1>2. /\ OrderBookTypeOK /\ QueuesIntact /\ LevelsSorted /\ IndexExact /\ SlotsAccountedFor
      /\ ArrivalOK
    BY DEF IInv, StructuresIntact
<1>3. /\ InFlight = {call.order} /\ call.order \in Slots /\ heap.isAllocated[call.order]
      /\ call.order \notin Resting
    BY <1>1, <1>2 DEF InFlight, SlotsAccountedFor, Resting
<1>4. /\ FreeOK(heap) /\ heap \in Heap
      /\ \A s \in Slots : ord[s] \in Order
      /\ \A sd \in Sides : SortedLevels(levels[sd], sd)
      /\ \A s \in Resting : s \in Slots /\ heap.isAllocated[s]
    BY BookFacts
<1>5. /\ FreeOK(heap')
      /\ heap'.isAllocated = [heap.isAllocated EXCEPT ![call.order] = FALSE]
      /\ \A s \in Slots : s # call.order => heap'.next[s] = heap.next[s] /\ heap'.prev[s] = heap.prev[s]
    BY <1>1, <1>3, <1>4, DeallocateFree
<1>6. call'.pc = "idle" /\ call' \in [pc : {"idle", "match", "rest", "aborted"}, order : Ptr, numLevels : Nat]
    BY <1>1 DEF Idle, Ptr
<1>7. \A s \in Slots : heap'.isAllocated[s] <=> heap.isAllocated[s] /\ s # call.order
    BY <1>4, <1>5 DEF Heap
<1>8. InFlight' = {} /\ Resting' = Resting /\ Arrival' = Arrival
    BY <1>1, <1>3, <1>6, <1>7 DEF InFlight, Resting, Arrival
<1>9. \A sd, pr : OrdersAt(sd, pr)' = OrdersAt(sd, pr)
    BY <1>1, <1>8 DEF OrdersAt
<1>10. OrderBookTypeOK'
    BY <1>1, <1>2, <1>5, <1>6 DEF OrderBookTypeOK, FreeOK
<1>11. QueuesIntact'
  <2>1. ASSUME NEW sd \in Sides, NEW j \in DOMAIN levels[sd]
        PROVE  WellLinked(heap, levels[sd][j], OrdersAt(sd, levels[sd][j].price), Arrival)'
    <3> DEFINE T == OrdersAt(sd, levels[sd][j].price)
    <3>1. WellLinked(heap, levels[sd][j], T, Arrival) /\ T \subseteq Resting
        BY <1>2 DEF QueuesIntact, OrdersAt
    <3>2. \A s \in T : heap'.next[s] = heap.next[s] /\ heap'.prev[s] = heap.prev[s]
        BY <1>3, <1>4, <1>5, <3>1
    <3>3. WellLinked(heap', levels[sd][j], T, Arrival)
      <4> HIDE DEF T
      <4> QED BY <3>1, <3>2, SameLinks
    <3> QED BY <1>1, <1>8, <1>9, <3>3
  <2> QED BY <1>1, <1>2, <1>8, <2>1 DEF QueuesIntact
<1>12. LevelsSorted' /\ ArrivalOK' /\ CallOK'
  <2>1. LevelsSorted'
      BY <1>1, <1>2, <1>6 DEF LevelsSorted
  <2>2. ArrivalOK'
      BY <1>1, <1>2, <1>7, <1>8 DEF ArrivalOK
  <2> QED BY <1>6, <2>1, <2>2 DEF CallOK
<1>13. SlotsAccountedFor'
  <2>1. FreeListIntact'
      BY <1>5 DEF FreeOK, FreeListIntact, Chain
  <2> QED BY <1>1, <1>2, <1>8, <2>1 DEF SlotsAccountedFor
<1>14. IndexExact'
  <2>1. ASSUME NEW s \in Resting PROVE HasLevel(ord[s].side, ord[s].price)'
    <3>1. ord[s].side \in Sides /\ ord[s].price \in Prices
        BY <1>2, <1>4 DEF ArrivalOK, Order
    <3>2. PICK j \in DOMAIN levels[ord[s].side] : levels[ord[s].side][j].price = ord[s].price
        BY <1>2 DEF SlotsAccountedFor
    <3>3. HasLevel(ord[s].side, ord[s].price)
        BY <1>4, <3>1, <3>2, LevelFound
    <3> QED BY <1>1, <3>3 DEF HasLevel, FindLevel
  <2> QED BY <1>1, <1>2, <1>8, <2>1 DEF IndexExact
<1> QED BY <1>3, <1>8, <1>10, <1>11, <1>12, <1>13, <1>14 DEF IInv, StructuresIntact

\* findOrCreate returns a vector that has the price's level in its place, with the
\* price's orders in it, and the other levels as they were.
LEMMA LevelFoundOrCreated ==
    ASSUME IInv, call.pc # "match", NEW side \in Sides, NEW price \in Prices
    PROVE  LET i    == FindLevel(side, price)
               book == FindOrCreateLevel(side, price)
           IN /\ SortedLevels(book, side) /\ DOMAIN book = 1..Len(book) /\ Len(book) \in Nat
              /\ i \in DOMAIN book /\ book[i] \in PriceLevels /\ book[i].price = price
              /\ WellLinked(heap, book[i], OrdersAt(side, price), Arrival)
              /\ \A j \in DOMAIN book : j # i =>
                    /\ book[j].price # price
                    /\ \E k \in DOMAIN levels[side] : book[j] = levels[side][k]
              /\ \A k \in DOMAIN levels[side] : \E j \in DOMAIN book : book[j].price = levels[side][k].price
<1> DEFINE i    == FindLevel(side, price)
           book == FindOrCreateLevel(side, price)
           v    == levels[side]
           n    == Len(v)
<1>1. /\ SortedLevels(v, side) /\ n \in Nat /\ DOMAIN v = 1..n /\ price \in Nat
      /\ \A j \in DOMAIN v : v[j] \in PriceLevels /\ v[j].price \in Nat
    BY BookFacts, OrderBookAssumption DEF PriceLevels
<1>2. i \in 1..(n + 1) /\ \A j \in 1..n : j < i <=> SortsBefore(side, v[j].price, price)
  <2>1. i = Position(v, side, price)
      BY DEF FindLevel, Position
  <2> HIDE DEF i
  <2> QED BY <1>1, <2>1, PositionExact
<1>3. \A j \in DOMAIN v : WellLinked(heap, v[j], OrdersAt(side, v[j].price), Arrival)
    BY DEF IInv, StructuresIntact, QueuesIntact
<1>4. CASE HasLevel(side, price)
  <2>1. book = v /\ i \in DOMAIN v /\ v[i].price = price
      BY <1>4 DEF FindOrCreateLevel, HasLevel
  <2> HIDE DEF i, book
  <2>2. ASSUME NEW j \in DOMAIN v, j # i PROVE v[j].price # price
    <3>1. SortsBefore(side, v[j].price, v[i].price) \/ SortsBefore(side, v[i].price, v[j].price)
        BY <1>1, <1>2, <2>1, <2>2 DEF SortedLevels
    <3> QED BY <1>1, <2>1, <3>1 DEF SortsBefore
  <2> QED BY <1>1, <1>3, <2>1, <2>2 DEF i, book
<1>5. CASE ~HasLevel(side, price)
  <2> DEFINE new == PriceLevelOf(price)
  <2>1. book = InsertAt(v, i, new)
      BY <1>5 DEF FindOrCreateLevel
  <2> HIDE DEF i, book
  <2>2. ASSUME NEW j \in DOMAIN v PROVE v[j].price # price
      BY <1>1, <1>5, LevelFound
  <2>3. new \in PriceLevels /\ new.price = price /\ new.head = Null /\ new.tail = Null
      BY ModulusAssumption DEF PriceLevelOf, PriceLevels, Ptr
  <2> HIDE DEF new
  <2>4. /\ book \in Seq(PriceLevels) /\ Len(book) = n + 1
        /\ \A j \in 1..(n + 1) : book[j] = IF j < i THEN v[j] ELSE IF j = i THEN new ELSE v[j - 1]
    <3>1. v \in Seq(PriceLevels)
        BY <1>1 DEF SortedLevels
    <3>2. i \in 1..(Len(v) + 1)
        BY <1>2
    <3> HIDE DEF v
    <3>3. /\ InsertAt(v, i, new) \in Seq(PriceLevels) /\ Len(InsertAt(v, i, new)) = Len(v) + 1
          /\ \A j \in 1..(Len(v) + 1) :
                InsertAt(v, i, new)[j] = IF j < i THEN v[j] ELSE IF j = i THEN new ELSE v[j - 1]
        BY <2>3, <3>1, <3>2, InsertAtEntries
    <3> QED BY <2>1, <3>3
  <2>5. DOMAIN book = 1..(n + 1)
      BY <2>4, LenProperties
  <2>6. book[i] = new
      BY <1>1, <1>2, <2>4
  <2>7. ASSUME NEW j \in 1..(n + 1)
        PROVE  /\ j < i => j \in 1..n /\ book[j] = v[j]
               /\ j > i => j - 1 \in 1..n /\ book[j] = v[j - 1]
    <3>1. i \in Int /\ j \in Int /\ i >= 1 /\ i <= n + 1
        BY <1>1, <1>2
    <3>2. j < i => j \in 1..n
        BY <1>1, <3>1
    <3>3. j > i => j - 1 \in 1..n /\ ~(j < i) /\ j # i
        BY <1>1, <3>1
    <3> QED BY <2>4, <3>2, <3>3
  <2>8. ASSUME NEW j \in 1..(n + 1), NEW k \in 1..(n + 1), j < k
        PROVE  SortsBefore(side, book[j].price, book[k].price)
    <3>1. i \in Int /\ j \in Int /\ k \in Int
        BY <1>1, <1>2
    <3>2. \A a, b \in 1..n : a < b => SortsBefore(side, v[a].price, v[b].price)
        BY <1>1 DEF SortedLevels
    <3>3. CASE k < i
        BY <2>7, <2>8, <3>1, <3>2, <3>3
    <3>4. CASE k = i
      <4>1. j < i
          BY <2>8, <3>4
      <4>2. j \in 1..n /\ book[j] = v[j]
          BY <2>7, <4>1
      <4> QED BY <1>2, <2>3, <2>6, <3>4, <4>1, <4>2
    <3>5. CASE k > i /\ j < i
      <4>1. j \in 1..n /\ book[j] = v[j] /\ k - 1 \in 1..n /\ book[k] = v[k - 1]
          BY <2>7, <3>5
      <4>2. j < k - 1
          BY <3>1, <3>5
      <4> QED BY <3>2, <4>1, <4>2
    <3>6. CASE k > i /\ j = i
      <4>1. k - 1 \in 1..n /\ book[k] = v[k - 1]
          BY <2>7, <3>6
      <4>2. ~SortsBefore(side, v[k - 1].price, price) /\ v[k - 1].price # price
        <5>1. ~(k - 1 < i)
            BY <3>1, <3>6
        <5> QED BY <1>1, <1>2, <2>2, <4>1, <5>1
      <4>3. v[k - 1].price \in Nat
          BY <1>1, <4>1
      <4> QED BY <1>1, <2>3, <2>6, <3>6, <4>1, <4>2, <4>3 DEF SortsBefore
    <3>7. CASE k > i /\ j > i
      <4>1. j - 1 \in 1..n /\ book[j] = v[j - 1] /\ k - 1 \in 1..n /\ book[k] = v[k - 1]
          BY <2>7, <3>7
      <4>2. j - 1 < k - 1
          BY <2>8, <3>1
      <4> QED BY <3>2, <4>1, <4>2
    <3> QED BY <3>1, <3>3, <3>4, <3>5, <3>6, <3>7
  <2>9. SortedLevels(book, side)
      BY <2>4, <2>5, <2>8 DEF SortedLevels
  <2>10. ASSUME NEW j \in DOMAIN book, j # i
         PROVE  /\ book[j].price # price
                /\ \E k \in DOMAIN v : book[j] = v[k]
    <3>1. j \in 1..(n + 1) /\ (j < i \/ j > i)
        BY <1>1, <1>2, <2>5, <2>10
    <3>2. PICK k \in 1..n : book[j] = v[k]
        BY <2>7, <3>1
    <3> QED BY <1>1, <2>2, <3>2
  <2>11. ASSUME NEW k \in DOMAIN v PROVE \E j \in DOMAIN book : book[j].price = v[k].price
    <3>1. k \in Int /\ k \in 1..n /\ i \in Int
        BY <1>1, <1>2
    <3>2. CASE k < i
      <4>1. k \in 1..(n + 1)
          BY <1>1, <3>1
      <4> QED BY <2>5, <2>7, <3>2, <4>1
    <3>3. CASE ~(k < i)
      <4>1. k + 1 \in 1..(n + 1) /\ k + 1 > i /\ (k + 1) - 1 = k
          BY <1>1, <3>1, <3>3
      <4>2. book[k + 1] = v[k]
          BY <2>7, <4>1
      <4> QED BY <2>5, <4>1, <4>2
    <3> QED BY <3>2, <3>3
  <2>12. OrdersAt(side, price) = {}
    <3>1. SUFFICES ASSUME NEW s \in OrdersAt(side, price) PROVE FALSE
        OBVIOUS
    <3>2. s \in Resting /\ ord[s].side = side /\ ord[s].price = price
        BY <3>1 DEF OrdersAt
    <3> QED BY <2>2, <3>2 DEF IInv, StructuresIntact, SlotsAccountedFor
  <2>13. WellLinked(heap, book[i], OrdersAt(side, price), Arrival)
      BY <2>3, <2>6, <2>12 DEF WellLinked, IsFirst, IsLast
  <2> QED BY <1>1, <1>2, <2>3, <2>4, <2>5, <2>6, <2>9, <2>10, <2>11, <2>13 DEF i, book
<1> QED BY <1>4, <1>5

\* What is left of an order joins the queue of its price.
LEMMA RestKeeps ==
    ASSUME IInv, RestOrder
    PROVE  IInv' /\ Resting' = Resting \cup {call.order} /\ InFlight' = {} /\ InFlight = {call.order}
<1> DEFINE side  == Incoming.side
           price == Incoming.price
           o     == call.order
           i     == FindLevel(side, price)
           book  == FindOrCreateLevel(side, price)
           added == AddToTail(heap, book[i], o, Incoming.quantity)
           S     == OrdersAt(side, price)
           w     == [book EXCEPT ![i] = added.level]
<1>1. /\ call.pc = "rest" /\ Incoming.quantity > 0 /\ call' = Idle
      /\ heap' = added.heap /\ levels' = [levels EXCEPT ![side] = w]
      /\ orderIndex' = [k \in DOMAIN orderIndex \cup {Incoming.orderId} |->
                           IF k \in DOMAIN orderIndex THEN orderIndex[k] ELSE o]
      /\ UNCHANGED <<ord, sequence, trade>>
    BY DEF RestOrder
<1>2. /\ OrderBookTypeOK /\ QueuesIntact /\ LevelsSorted /\ IndexExact /\ SlotsAccountedFor
      /\ ArrivalOK /\ CallOK
    BY DEF IInv, StructuresIntact
<1>3. /\ InFlight = {o} /\ o \in Slots /\ heap.isAllocated[o] /\ o \notin Resting
    BY <1>1, <1>2 DEF InFlight, SlotsAccountedFor, Resting
<1>4. /\ FreeOK(heap) /\ heap \in Heap /\ Arrival \in [Slots -> Nat]
      /\ \A s \in Slots : ord[s] \in Order /\ Arrival[s] = ord[s].sequence
      /\ \A sd \in Sides : SortedLevels(levels[sd], sd)
      /\ \A s \in Resting : s \in Slots /\ heap.isAllocated[s] /\ s \in OrdersAt(ord[s].side, ord[s].price)
      /\ \A sd \in Sides, pr \in Prices : Ordered(OrdersAt(sd, pr), Arrival)
    BY BookFacts
<1>5. Incoming = ord[o] /\ Incoming \in Order /\ side \in Sides /\ price \in Prices /\ Incoming.quantity \in Nat
    BY <1>2, <1>3, <1>4 DEF Incoming, Order, ArrivalOK
<1>6. /\ SortedLevels(book, side) /\ DOMAIN book = 1..Len(book) /\ Len(book) \in Nat
      /\ i \in DOMAIN book /\ book[i] \in PriceLevels /\ book[i].price = price
      /\ WellLinked(heap, book[i], S, Arrival)
      /\ \A j \in DOMAIN book : j # i =>
            /\ book[j].price # price
            /\ \E k \in DOMAIN levels[side] : book[j] = levels[side][k]
      /\ \A k \in DOMAIN levels[side] : \E j \in DOMAIN book : book[j].price = levels[side][k].price
    BY SMTT(60), <1>1, <1>5, LevelFoundOrCreated
<1> HIDE DEF i, book, side, price, o
<1>7. /\ S \subseteq Resting /\ o \notin S /\ Ordered(S, Arrival)
      /\ \A s \in S : Arrival[s] < Arrival[o]
  <2>1. S \subseteq Resting
      BY DEF OrdersAt
  <2>2. \A s \in Resting : ord[s].sequence < ord[o].sequence
      BY <1>2, <1>3 DEF ArrivalOK
  <2> QED BY <1>3, <1>4, <1>5, <2>1, <2>2
<1>8. /\ added.heap \in Heap /\ added.level \in PriceLevels
      /\ added.heap.freeList = heap.freeList /\ added.heap.freeCount = heap.freeCount
      /\ added.heap.isAllocated = heap.isAllocated
      /\ added.level.head # Null /\ added.level.price = price
  <2>1. /\ added.heap \in Heap /\ added.level \in PriceLevels
        /\ added.heap.freeList = heap.freeList /\ added.heap.freeCount = heap.freeCount
        /\ added.heap.isAllocated = heap.isAllocated
        /\ added.level.head = (IF book[i].head = Null THEN o ELSE book[i].head)
        /\ added.level.price = book[i].price
    <3>1. heap \in Heap /\ book[i] \in PriceLevels /\ o \in Slots /\ Incoming.quantity \in Nat
        BY <1>3, <1>4, <1>5, <1>6
    <3> QED BY <3>1, AddToTailType
  <2> QED BY <1>3, <1>6, <2>1, SlotsNotNull
<1>9. /\ WellLinked(added.heap, added.level, S \cup {o}, Arrival)
      /\ SameOutside(S \cup {o}, added.heap, heap)
  <2> HIDE DEF S
  <2> QED BY <1>3, <1>4, <1>5, <1>6, <1>7, AddToTailLinks
<1> HIDE DEF added
<1>10. FreeOK(heap')
  <2>1. \A s \in Slots : ~heap.isAllocated[s] => s \notin S \cup {o}
      BY <1>3, <1>4, <1>7
  <2>2. \A s \in Slots : ~heap.isAllocated[s] => added.heap.next[s] = heap.next[s]
      BY <1>9, <2>1 DEF SameOutside
  <2> QED BY <1>1, <1>4, <1>8, <2>2, RelinkFree
<1>11. call'.pc = "idle" /\ call' \in [pc : {"idle", "match", "rest", "aborted"}, order : Ptr, numLevels : Nat]
    BY <1>1 DEF Idle, Ptr
<1>12. InFlight' = {} /\ Resting' = Resting \cup {o} /\ Arrival' = Arrival
    BY <1>1, <1>3, <1>8, <1>11 DEF InFlight, Resting, Arrival
<1>13. \A sd, pr : OrdersAt(sd, pr)' = IF sd = side /\ pr = price THEN S \cup {o} ELSE OrdersAt(sd, pr)
  <2>1. ord[o].side = side /\ ord[o].price = price
      BY <1>5 DEF side, price
  <2>2. ASSUME NEW sd, NEW pr
        PROVE  OrdersAt(sd, pr)' = IF sd = side /\ pr = price THEN S \cup {o} ELSE OrdersAt(sd, pr)
      BY <1>1, <1>12, <2>1 DEF OrdersAt
  <2> QED BY <2>2
<1>14. /\ w \in Seq(PriceLevels) /\ DOMAIN w = DOMAIN book /\ w[i] = added.level
       /\ \A j \in DOMAIN book : j # i => w[j] = book[j]
       /\ \A j \in DOMAIN book : w[j].price = book[j].price
  <2>1. book \in Seq(PriceLevels)
      BY <1>6 DEF SortedLevels
  <2>2. w \in Seq(PriceLevels) /\ Len(w) = Len(book) /\ DOMAIN w = DOMAIN book
    <3>1. w \in Seq(PriceLevels) /\ Len(w) = Len(book)
        BY <1>6, <1>8, <2>1, ExceptSeq
    <3> HIDE DEF w
    <3> QED BY <1>6, <3>1, LenProperties
  <2>3. w[i] = added.level /\ \A j \in DOMAIN book : j # i => w[j] = book[j]
      BY <1>6
  <2> HIDE DEF w
  <2> QED BY <1>6, <1>8, <2>2, <2>3
<1> HIDE DEF w
<1>15. \A sd \in Sides : levels'[sd] = IF sd = side THEN w ELSE levels[sd]
    BY <1>1, <1>2, <1>5 DEF OrderBookTypeOK
<1>16. ASSUME NEW sd \in Sides, NEW j \in DOMAIN levels'[sd], ~(sd = side /\ j = i)
       PROVE  \E k \in DOMAIN levels[sd] : /\ levels'[sd][j] = levels[sd][k]
                                           /\ sd # side \/ levels[sd][k].price # price
  <2>1. CASE sd = side
    <3>1. j \in DOMAIN book /\ j # i /\ levels'[sd][j] = book[j]
        BY <1>14, <1>15, <1>16, <2>1
    <3> QED BY <1>6, <2>1, <3>1
  <2>2. CASE sd # side
      BY <1>15, <2>2
  <2> QED BY <2>1, <2>2
<1>17. OrderBookTypeOK'
  <2>1. levels' \in [Sides -> Seq(PriceLevels)]
      BY <1>1, <1>2, <1>5, <1>14 DEF OrderBookTypeOK
  <2>2. DOMAIN orderIndex' \subseteq Ids /\ orderIndex' \in [DOMAIN orderIndex' -> Slots]
    <3>1. Incoming.orderId \in Ids
      <4>1. Incoming.orderId = Incoming.sequence + 1 /\ Incoming.sequence \in 0..MaxSequence
            /\ Incoming.sequence < sequence /\ sequence \in 0..MaxSequence
          BY <1>2, <1>3, <1>5 DEF ArrivalOK, OrderBookTypeOK, Order
      <4> QED BY <4>1, OrderBookAssumption DEF Ids
    <3> QED BY <1>1, <1>2, <1>3, <3>1 DEF OrderBookTypeOK
  <2> QED BY <1>1, <1>2, <1>8, <1>11, <2>1, <2>2 DEF OrderBookTypeOK
<1>18. QueuesIntact'
  <2>1. ASSUME NEW sd \in Sides, NEW j \in DOMAIN levels'[sd]
        PROVE  WellLinked(heap, levels[sd][j], OrdersAt(sd, levels[sd][j].price), Arrival)'
    <3>1. CASE sd = side /\ j = i
      <4>1. levels'[sd][j] = added.level /\ levels'[sd][j].price = price
          BY <1>5, <1>8, <1>14, <1>15, <3>1
      <4> QED BY <1>1, <1>9, <1>12, <1>13, <3>1, <4>1
    <3>2. CASE ~(sd = side /\ j = i)
      <4>1. PICK k \in DOMAIN levels[sd] : /\ levels'[sd][j] = levels[sd][k]
                                           /\ sd # side \/ levels[sd][k].price # price
          BY <1>16, <3>2
      <4> DEFINE T == OrdersAt(sd, levels[sd][k].price)
      <4>2. WellLinked(heap, levels[sd][k], T, Arrival)
          BY <1>2 DEF QueuesIntact
      <4>3. T \cap (S \cup {o}) = {} /\ T \subseteq Slots
        <5>1. T \subseteq Resting /\ T \cap S = {}
            BY <4>1 DEF OrdersAt
        <5> QED BY <1>3, <1>4, <5>1
      <4>4. \A s \in T : heap'.next[s] = heap.next[s] /\ heap'.prev[s] = heap.prev[s]
          BY <1>1, <1>9, <4>3 DEF SameOutside
      <4>5. WellLinked(heap', levels[sd][k], T, Arrival)
        <5> HIDE DEF T
        <5> QED BY <4>2, <4>4, SameLinks
      <4> QED BY <1>12, <1>13, <4>1, <4>5
    <3> QED BY <3>1, <3>2
  <2>2. \A s, t \in Resting' : Arrival'[s] = Arrival'[t] => s = t
    <3>1. \A s \in Resting : Arrival[s] < Arrival[o] /\ Arrival[s] \in Nat
        BY <1>2, <1>3, <1>4 DEF ArrivalOK
    <3>2. \A s, t \in Resting : Arrival[s] = Arrival[t] => s = t
        BY <1>2 DEF QueuesIntact
    <3> QED BY <1>12, <3>1, <3>2
  <2>3. \A s \in Resting' : ord'[s].quantity > 0
      BY <1>1, <1>2, <1>5, <1>12 DEF QueuesIntact
  <2> QED BY <2>1, <2>2, <2>3 DEF QueuesIntact
<1>19. LevelsSorted'
  <2>1. ASSUME NEW sd \in Sides, NEW j \in DOMAIN levels'[sd], NEW k \in DOMAIN levels'[sd], j < k
        PROVE  SortsBefore(sd, levels'[sd][j].price, levels'[sd][k].price)
    <3>1. CASE sd = side
      <4>1. j \in DOMAIN book /\ k \in DOMAIN book
            /\ levels'[sd][j].price = book[j].price /\ levels'[sd][k].price = book[k].price
          BY <1>14, <1>15, <3>1
      <4> QED BY <1>6, <2>1, <3>1, <4>1 DEF SortedLevels
    <3>2. CASE sd # side
        BY <1>2, <1>15, <2>1, <3>2 DEF LevelsSorted
    <3> QED BY <3>1, <3>2
  <2>2. ASSUME NEW sd \in Sides, NEW j \in DOMAIN levels'[sd] PROVE ~IsEmpty(levels'[sd][j])
    <3>1. CASE sd = side /\ j = i
        BY <1>8, <1>14, <1>15, <3>1 DEF IsEmpty
    <3>2. CASE ~(sd = side /\ j = i)
      <4>1. PICK k \in DOMAIN levels[sd] : levels'[sd][j] = levels[sd][k]
          BY <1>16, <3>2
      <4> QED BY <1>1, <1>2, <4>1 DEF LevelsSorted
    <3> QED BY <3>1, <3>2
  <2> QED BY <1>11, <2>1, <2>2 DEF LevelsSorted
<1>20. SlotsAccountedFor'
  <2>1. FreeListIntact'
      BY <1>10 DEF FreeOK, FreeListIntact, Chain
  <2>2. ASSUME NEW s \in Resting'
        PROVE  \E j \in DOMAIN levels'[ord[s].side] : levels'[ord[s].side][j].price = ord[s].price
    <3>1. CASE s = o
      <4>1. ord[o].side = side /\ ord[o].price = price
          BY <1>5 DEF side, price
      <4>2. i \in DOMAIN levels'[side] /\ levels'[side][i].price = price
          BY <1>5, <1>6, <1>14, <1>15
      <4> QED BY <3>1, <4>1, <4>2
    <3>2. CASE s \in Resting
      <4>1. ord[s].side \in Sides
          BY <1>4, <3>2 DEF Order
      <4>2. PICK k \in DOMAIN levels[ord[s].side] : levels[ord[s].side][k].price = ord[s].price
          BY <1>2, <3>2 DEF SlotsAccountedFor
      <4>3. CASE ord[s].side = side
        <5>1. PICK j \in DOMAIN book : book[j].price = ord[s].price
            BY <1>6, <4>2, <4>3
        <5> QED BY <1>14, <1>15, <4>1, <4>3, <5>1
      <4>4. CASE ord[s].side # side
          BY <1>15, <4>1, <4>2, <4>4
      <4> QED BY <4>3, <4>4
    <3> QED BY <1>12, <3>1, <3>2
  <2> QED BY <1>1, <1>12, <2>1, <2>2 DEF SlotsAccountedFor
<1>21. ArrivalOK'
    BY <1>1, <1>2, <1>8, <1>12 DEF ArrivalOK
<1>22. CallOK'
    BY <1>11 DEF CallOK
<1>23. IndexExact'
  <2>1. Incoming.orderId \notin DOMAIN orderIndex
    <3>1. \A s \in Resting : ord[s].orderId # Incoming.orderId
        BY <1>3, <1>4, <1>5, IdsUnique
    <3> QED BY <1>2, <3>1 DEF IndexExact
  <2>2. DOMAIN orderIndex' = {ord'[s].orderId : s \in Resting'}
      BY <1>1, <1>2, <1>5, <1>12 DEF IndexExact
  <2>3. ASSUME NEW s \in Resting' PROVE orderIndex'[ord'[s].orderId] = s
    <3>1. CASE s = o
        BY <1>1, <1>5, <2>1, <3>1
    <3>2. CASE s \in Resting
      <4>1. ord[s].orderId \in DOMAIN orderIndex
          BY <1>2, <3>2 DEF IndexExact
      <4> QED BY <1>1, <1>2, <3>2, <4>1 DEF IndexExact
    <3> QED BY <1>12, <3>1, <3>2
  <2>4. ASSUME NEW s \in Resting' PROVE HasLevel(ord[s].side, ord[s].price)'
    <3>1. s \in Slots /\ ord[s].side \in Sides /\ ord[s].price \in Prices /\ ord'[s] = ord[s]
        BY <1>1, <1>2, <1>3, <1>4, <1>12 DEF ArrivalOK, Order
    <3>2. PICK j \in DOMAIN levels'[ord[s].side] : levels'[ord[s].side][j].price = ord[s].price
        BY <1>20, <3>1 DEF SlotsAccountedFor
    <3>3. SortedLevels(levels'[ord[s].side], ord[s].side)
        BY <1>17, <1>19, <3>1 DEF SortedLevels, LevelsSorted, OrderBookTypeOK
    <3>4. HasLevel(ord[s].side, ord[s].price)'
        BY <1>1, <3>1, <3>2, <3>3, LevelFoundNext
    <3> QED BY <3>4
  <2> QED BY <1>1, <2>2, <2>3, <2>4 DEF IndexExact
<1> QED BY <1>3, <1>12, <1>17, <1>18, <1>19, <1>20, <1>21, <1>22, <1>23 DEF IInv, StructuresIntact, o

\* Storing the level that remove() was applied to, or erasing it.
LEMMA StoredLevel ==
    ASSUME NEW side \in Sides, NEW v, SortedLevels(v, side), NEW i \in DOMAIN v,
           NEW pl \in PriceLevels, pl.price = v[i].price
    PROVE  LET w == StoreLevel(v, i, pl)
           IN /\ SortedLevels(w, side)
              /\ \A j \in DOMAIN w :
                    \/ ~IsEmpty(pl) /\ w[j] = pl
                    \/ \E k \in DOMAIN v : k # i /\ w[j] = v[k]
              /\ \A k \in DOMAIN v :
                    k # i \/ ~IsEmpty(pl) => \E j \in DOMAIN w : w[j].price = v[k].price
<1> DEFINE n == Len(v)
           w == StoreLevel(v, i, pl)
<1>1. v \in Seq(PriceLevels) /\ n \in Nat /\ DOMAIN v = 1..n /\ i \in 1..n
      /\ \A a, b \in 1..n : a < b => SortsBefore(side, v[a].price, v[b].price)
  <2>1. v \in Seq(PriceLevels)
      BY DEF SortedLevels
  <2> QED BY <2>1, LenProperties DEF SortedLevels
<1>2. CASE ~IsEmpty(pl)
  <2>1. w = [v EXCEPT ![i] = pl]
      BY <1>2 DEF StoreLevel
  <2>2. w \in Seq(PriceLevels) /\ Len(w) = n
      BY <1>1, <2>1, ExceptSeq
  <2>3. DOMAIN w = 1..n
      BY <2>2, LenProperties
  <2>4. \A j \in 1..n : w[j] = IF j = i THEN pl ELSE v[j]
      BY <1>1, <2>1
  <2>5. \A j \in 1..n : w[j].price = v[j].price
      BY <2>4
  <2> HIDE DEF w
  <2>6. SortedLevels(w, side)
      BY <1>1, <2>2, <2>3, <2>5 DEF SortedLevels
  <2>7. ASSUME NEW j \in DOMAIN w
        PROVE  \/ ~IsEmpty(pl) /\ w[j] = pl
               \/ \E k \in DOMAIN v : k # i /\ w[j] = v[k]
      BY <1>1, <1>2, <2>3, <2>4
  <2>8. ASSUME NEW k \in DOMAIN v PROVE \E j \in DOMAIN w : w[j].price = v[k].price
      BY <1>1, <2>3, <2>5
  <2> QED BY <2>6, <2>7, <2>8 DEF w
<1>3. CASE IsEmpty(pl)
  <2>1. w = RemoveAt(v, i)
      BY <1>3 DEF StoreLevel
  <2> HIDE DEF w
  <2>2. /\ w \in Seq(PriceLevels) /\ Len(w) = n - 1
        /\ \A j \in 1..(n - 1) : w[j] = IF j < i THEN v[j] ELSE v[j + 1]
      BY <1>1, <2>1, RemoveAtEntries
  <2>3. DOMAIN w = 1..(n - 1)
      BY <2>2, LenProperties
  <2>4. ASSUME NEW j \in 1..(n - 1)
        PROVE  /\ j \in 1..n /\ j + 1 \in 1..n
               /\ j < i => w[j] = v[j]
               /\ ~(j < i) => w[j] = v[j + 1]
      BY <1>1, <2>2
  <2>5. ASSUME NEW j \in 1..(n - 1), NEW k \in 1..(n - 1), j < k
        PROVE  SortsBefore(side, w[j].price, w[k].price)
    <3>1. j \in Int /\ k \in Int /\ i \in Int
        BY <1>1
    <3>2. CASE k < i
      <4>1. j < i
          BY <2>5, <3>1, <3>2
      <4>2. w[j] = v[j] /\ w[k] = v[k] /\ j \in 1..n /\ k \in 1..n
          BY <2>4, <3>2, <4>1
      <4> QED BY <1>1, <2>5, <4>2
    <3>3. CASE ~(k < i) /\ j < i
      <4>1. w[j] = v[j] /\ w[k] = v[k + 1] /\ j < k + 1 /\ j \in 1..n /\ k + 1 \in 1..n
          BY <2>4, <2>5, <3>1, <3>3
      <4> QED BY <1>1, <4>1
    <3>4. CASE ~(k < i) /\ ~(j < i)
      <4>1. w[j] = v[j + 1] /\ w[k] = v[k + 1] /\ j + 1 < k + 1 /\ j + 1 \in 1..n /\ k + 1 \in 1..n
          BY <2>4, <2>5, <3>1, <3>4
      <4> QED BY <1>1, <4>1
    <3> QED BY <2>5, <3>1, <3>2, <3>3, <3>4
  <2>6. SortedLevels(w, side)
      BY <2>2, <2>3, <2>5 DEF SortedLevels
  <2>7. ASSUME NEW j \in DOMAIN w PROVE \E k \in DOMAIN v : k # i /\ w[j] = v[k]
    <3>1. j \in 1..(n - 1) /\ j \in Int /\ i \in Int
        BY <1>1, <2>3
    <3>2. CASE j < i
      <4>1. j \in 1..n /\ j # i /\ w[j] = v[j]
          BY <2>4, <3>1, <3>2
      <4> QED BY <1>1, <4>1
    <3>3. CASE ~(j < i)
      <4>1. j + 1 \in 1..n /\ j + 1 # i /\ w[j] = v[j + 1]
          BY <2>4, <3>1, <3>3
      <4> QED BY <1>1, <4>1
    <3> QED BY <3>2, <3>3
  <2>8. ASSUME NEW k \in DOMAIN v, k # i PROVE \E j \in DOMAIN w : w[j].price = v[k].price
    <3>1. k \in 1..n /\ k \in Int /\ i \in Int
        BY <1>1
    <3>2. CASE k < i
      <4>1. k \in 1..(n - 1)
          BY <1>1, <3>1, <3>2
      <4> QED BY <2>3, <2>4, <3>2, <4>1
    <3>3. CASE ~(k < i)
      <4>1. k - 1 \in 1..(n - 1) /\ ~(k - 1 < i) /\ (k - 1) + 1 = k
          BY <1>1, <2>8, <3>1, <3>3
      <4>2. w[k - 1] = v[k]
          BY <2>4, <4>1
      <4> QED BY <2>3, <4>1, <4>2
    <3> QED BY <3>2, <3>3
  <2> QED BY <1>3, <2>6, <2>7, <2>8 DEF w
<1> QED BY <1>2, <1>3

\* A cancelled order leaves its queue, and an emptied level leaves its vector.
LEMMA CancelKeeps ==
    ASSUME IInv, NEW id \in Ids, CancelOrder(id)
    PROVE  /\ IInv' /\ Resting' = Resting \ {orderIndex[id]} /\ InFlight' = {} /\ InFlight = {}
<1> DEFINE o    == orderIndex[id]
           side == ord[o].side
           i    == FindLevel(side, ord[o].price)
           removed == RemoveOrder(heap, levels[side][i], o, ord[o].quantity)
           w    == StoreLevel(levels[side], i, removed.level)
           S    == OrdersAt(side, ord[o].price)
<1>1. /\ call.pc = "idle" /\ id \in DOMAIN orderIndex
      /\ levels' = [levels EXCEPT ![side] = w]
      /\ heap' = Deallocate(removed.heap, o)
      /\ orderIndex' = [k \in DOMAIN orderIndex \ {id} |-> orderIndex[k]]
      /\ UNCHANGED <<ord, sequence, call, trade>>
    BY DEF CancelOrder, Unindexed, Restrict
<1>2. /\ OrderBookTypeOK /\ QueuesIntact /\ LevelsSorted /\ IndexExact /\ SlotsAccountedFor
      /\ ArrivalOK /\ CallOK
    BY DEF IInv, StructuresIntact
<1>3. InFlight = {}
    BY <1>1 DEF InFlight
<1>4. o \in Resting /\ ord[o].orderId = id
    BY <1>1, <1>2 DEF IndexExact
<1>5. /\ heap \in Heap
      /\ \A s \in Slots : ord[s] \in Order /\ Arrival[s] = ord[s].sequence
      /\ \A sd \in Sides : /\ SortedLevels(levels[sd], sd) /\ levels[sd] \in Seq(PriceLevels)
                           /\ DOMAIN levels[sd] = 1..Len(levels[sd])
                           /\ \A j \in DOMAIN levels[sd] : levels[sd][j] \in PriceLevels
      /\ \A s \in Resting : s \in Slots /\ heap.isAllocated[s] /\ s \in OrdersAt(ord[s].side, ord[s].price)
    BY BookFacts DEF SortedLevels
<1>6. side \in Sides /\ ord[o].price \in Prices /\ ord[o].quantity \in Nat /\ o \in Slots
    BY <1>2, <1>4, <1>5 DEF ArrivalOK, Order
<1>7. i \in DOMAIN levels[side] /\ levels[side][i].price = ord[o].price
  <2>1. PICK k \in DOMAIN levels[side] : levels[side][k].price = ord[o].price
      BY <1>2, <1>4 DEF SlotsAccountedFor
  <2>2. i = k
      BY <1>5, <1>6, <2>1, LevelFound
  <2> QED BY <2>1, <2>2
<1> HIDE DEF i
<1>8. levels[side][i] \in PriceLevels /\ o \in S
    BY <1>4, <1>5, <1>6, <1>7
<1>9. /\ FreeOK(heap') /\ heap'.isAllocated = [heap.isAllocated EXCEPT ![o] = FALSE]
      /\ removed.level \in PriceLevels /\ removed.level.price = levels[side][i].price
      /\ WellLinked(heap', removed.level, S \ {o}, Arrival)
      /\ \A side2 \in Sides : \A j \in DOMAIN levels[side2] : side2 # side \/ j # i =>
            /\ o \notin OrdersAt(side2, levels[side2][j].price)
            /\ WellLinked(heap', levels[side2][j], OrdersAt(side2, levels[side2][j].price), Arrival)
  <2> HIDE DEF side, o
  <2> DEFINE g == Deallocate(removed.heap, o)
  <2>1. o \in OrdersAt(side, levels[side][i].price) /\ ord[o].quantity \in Nat
      BY <1>6, <1>7, <1>8
  <2>2. /\ FreeOK(g) /\ g.isAllocated = [heap.isAllocated EXCEPT ![o] = FALSE]
        /\ removed.level \in PriceLevels /\ removed.level.price = levels[side][i].price
        /\ WellLinked(g, removed.level, OrdersAt(side, levels[side][i].price) \ {o}, Arrival)
        /\ \A side2 \in Sides : \A j \in DOMAIN levels[side2] : side2 # side \/ j # i =>
              /\ o \notin OrdersAt(side2, levels[side2][j].price)
              /\ WellLinked(g, levels[side2][j], OrdersAt(side2, levels[side2][j].price), Arrival)
      BY ZenonT(40), <1>6, <1>7, <1>8, <2>1, RemovedHeap
  <2> HIDE DEF removed
  <2> QED BY <1>1, <1>7, <2>2
<1> HIDE DEF removed
<1>10. /\ SortedLevels(w, side)
       /\ \A j \in DOMAIN w :
             \/ ~IsEmpty(removed.level) /\ w[j] = removed.level
             \/ \E k \in DOMAIN levels[side] : k # i /\ w[j] = levels[side][k]
       /\ \A k \in DOMAIN levels[side] :
             k # i \/ ~IsEmpty(removed.level) => \E j \in DOMAIN w : w[j].price = levels[side][k].price
  <2> HIDE DEF side
  <2> DEFINE v == levels[side]
  <2>1. /\ side \in Sides /\ SortedLevels(v, side) /\ i \in DOMAIN v
        /\ removed.level \in PriceLevels /\ removed.level.price = v[i].price
      BY <1>5, <1>6, <1>7, <1>9
  <2>2. w = StoreLevel(v, i, removed.level)
      OBVIOUS
  <2> HIDE DEF v, w
  <2>3. /\ SortedLevels(w, side)
        /\ \A j \in DOMAIN w :
              \/ ~IsEmpty(removed.level) /\ w[j] = removed.level
              \/ \E k \in DOMAIN v : k # i /\ w[j] = v[k]
        /\ \A k \in DOMAIN v :
              k # i \/ ~IsEmpty(removed.level) => \E j \in DOMAIN w : w[j].price = v[k].price
      BY <2>1, <2>2, StoredLevel
  <2> QED BY <2>3 DEF v
<1> HIDE DEF w, side
<1>11. \A sd \in Sides : levels'[sd] = IF sd = side THEN w ELSE levels[sd]
    BY <1>1, <1>2, <1>6 DEF OrderBookTypeOK
<1>12. ASSUME NEW sd \in Sides, NEW j \in DOMAIN levels'[sd]
       PROVE  \/ sd = side /\ ~IsEmpty(removed.level) /\ levels'[sd][j] = removed.level
              \/ \E k \in DOMAIN levels[sd] : (sd # side \/ k # i) /\ levels'[sd][j] = levels[sd][k]
  <2>1. CASE sd = side
      BY <1>10, <1>11, <2>1
  <2>2. CASE sd # side
      BY <1>11, <2>2
  <2> QED BY <2>1, <2>2
<1>13. InFlight' = {} /\ Resting' = Resting \ {o} /\ Arrival' = Arrival
  <2>1. \A s \in Slots : heap'.isAllocated[s] <=> heap.isAllocated[s] /\ s # o
      BY <1>5, <1>6, <1>9 DEF Heap
  <2>2. InFlight' = {}
      BY <1>1 DEF InFlight
  <2> QED BY <1>1, <1>3, <2>1, <2>2 DEF Resting, Arrival
<1>14. \A sd, pr : OrdersAt(sd, pr)' = OrdersAt(sd, pr) \ {o}
    BY <1>1, <1>13 DEF OrdersAt
<1>15. OrderBookTypeOK'
  <2>1. levels' \in [Sides -> Seq(PriceLevels)]
      BY <1>1, <1>2, <1>6, <1>10 DEF OrderBookTypeOK, SortedLevels
  <2>2. DOMAIN orderIndex' \subseteq Ids /\ orderIndex' \in [DOMAIN orderIndex' -> Slots]
      BY <1>1, <1>2 DEF OrderBookTypeOK
  <2> QED BY <1>1, <1>2, <1>9, <2>1, <2>2 DEF OrderBookTypeOK, FreeOK
<1>16. QueuesIntact'
  <2>1. ASSUME NEW sd \in Sides, NEW j \in DOMAIN levels'[sd]
        PROVE  WellLinked(heap, levels[sd][j], OrdersAt(sd, levels[sd][j].price), Arrival)'
    <3>1. CASE sd = side /\ ~IsEmpty(removed.level) /\ levels'[sd][j] = removed.level
      <4>1. levels'[sd][j].price = ord[o].price
          BY <1>7, <1>9, <3>1
      <4> QED BY <1>9, <1>13, <1>14, <3>1, <4>1
    <3>2. CASE \E k \in DOMAIN levels[sd] : (sd # side \/ k # i) /\ levels'[sd][j] = levels[sd][k]
      <4>1. PICK k \in DOMAIN levels[sd] : (sd # side \/ k # i) /\ levels'[sd][j] = levels[sd][k]
          BY <3>2
      <4> DEFINE T == OrdersAt(sd, levels[sd][k].price)
      <4>2. o \notin T /\ WellLinked(heap', levels[sd][k], T, Arrival)
          BY <1>9, <4>1
      <4>3. T \ {o} = T
          BY <4>2
      <4> QED BY <1>13, <1>14, <4>1, <4>2, <4>3
    <3> QED BY <1>12, <3>1, <3>2
  <2> QED BY <1>1, <1>2, <1>13, <2>1 DEF QueuesIntact
<1>17. LevelsSorted'
  <2>1. \A sd \in Sides : SortedLevels(levels'[sd], sd)
      BY <1>5, <1>10, <1>11
  <2>2. ASSUME NEW sd \in Sides, NEW j \in DOMAIN levels'[sd] PROVE ~IsEmpty(levels'[sd][j])
    <3>1. \A k \in DOMAIN levels[sd] : ~IsEmpty(levels[sd][k])
        BY <1>1, <1>2 DEF LevelsSorted
    <3> QED BY <1>12, <3>1
  <2> QED BY <1>1, <2>1, <2>2 DEF LevelsSorted, SortedLevels
<1>18. SlotsAccountedFor'
  <2>1. FreeListIntact'
      BY <1>9 DEF FreeOK, FreeListIntact, Chain
  <2>2. ASSUME NEW s \in Resting'
        PROVE  \E j \in DOMAIN levels'[ord[s].side] : levels'[ord[s].side][j].price = ord[s].price
    <3>1. s \in Resting /\ s # o /\ s \in Slots /\ ord[s].side \in Sides
          /\ s \in OrdersAt(ord[s].side, ord[s].price)
        BY <1>5, <1>13 DEF Order
    <3>2. PICK k \in DOMAIN levels[ord[s].side] : levels[ord[s].side][k].price = ord[s].price
        BY <1>2, <3>1 DEF SlotsAccountedFor
    <3>3. CASE ord[s].side # side
        BY <1>11, <3>1, <3>2, <3>3
    <3>4. CASE ord[s].side = side /\ k # i
        BY <1>10, <1>11, <3>1, <3>2, <3>4
    <3>5. CASE ord[s].side = side /\ k = i
      <4>1. s \in S \ {o}
          BY <1>7, <3>1, <3>2, <3>5
      <4>2. removed.level.head \in S \ {o}
          BY <1>9, <4>1 DEF WellLinked, IsFirst
      <4>3. ~IsEmpty(removed.level)
          BY <4>2, SlotsNotNull DEF IsEmpty, OrdersAt, Resting
      <4> QED BY <1>10, <1>11, <3>1, <3>2, <3>5, <4>3
    <3> QED BY <3>3, <3>4, <3>5
  <2> QED BY <1>1, <1>13, <2>1, <2>2 DEF SlotsAccountedFor
<1>19. ArrivalOK'
  <2>1. \A s \in Slots : heap'.isAllocated[s] => heap.isAllocated[s]
      BY <1>5, <1>6, <1>9 DEF Heap
  <2> QED BY <1>1, <1>2, <1>13, <2>1 DEF ArrivalOK
<1>20. CallOK'
    BY <1>1 DEF CallOK
<1>21. IndexExact'
  <2>1. \A s \in Resting : s # o => ord[s].orderId # id
      BY <1>4, <1>5, IdsUnique
  <2>2. DOMAIN orderIndex' = {ord'[s].orderId : s \in Resting'}
    <3>1. DOMAIN orderIndex' = {ord[s].orderId : s \in Resting} \ {id}
        BY <1>1, <1>2 DEF IndexExact
    <3>2. {ord'[s].orderId : s \in Resting'} = {ord[s].orderId : s \in Resting \ {o}}
        BY <1>1, <1>13
    <3> QED BY <1>4, <2>1, <3>1, <3>2
  <2>3. ASSUME NEW s \in Resting' PROVE orderIndex'[ord'[s].orderId] = s
    <3>1. s \in Resting /\ ord[s].orderId \in DOMAIN orderIndex'
        BY <1>1, <1>13, <2>2
    <3> QED BY <1>1, <1>2, <3>1 DEF IndexExact
  <2>4. ASSUME NEW s \in Resting' PROVE HasLevel(ord[s].side, ord[s].price)'
    <3>1. s \in Slots /\ ord[s].side \in Sides /\ ord[s].price \in Prices /\ ord'[s] = ord[s]
        BY <1>1, <1>2, <1>5, <1>13 DEF ArrivalOK, Order
    <3>2. PICK j \in DOMAIN levels'[ord[s].side] : levels'[ord[s].side][j].price = ord[s].price
        BY <1>18, <3>1 DEF SlotsAccountedFor
    <3>3. SortedLevels(levels'[ord[s].side], ord[s].side)
        BY <1>15, <1>17, <3>1 DEF SortedLevels, LevelsSorted, OrderBookTypeOK
    <3>4. HasLevel(ord[s].side, ord[s].price)'
        BY <1>1, <3>1, <3>2, <3>3, LevelFoundNext
    <3> QED BY <3>4
  <2> QED BY <1>1, <2>2, <2>3, <2>4 DEF IndexExact
<1> QED BY <1>3, <1>13, <1>15, <1>16, <1>17, <1>18, <1>19, <1>20, <1>21 DEF IInv, StructuresIntact

\* A step that changes nothing, cancelOrder of an unknown id included.
LEMMA UnchangedKeeps == ASSUME IInv, UNCHANGED vars PROVE IInv'
<1>1. UNCHANGED <<heap, ord, levels, orderIndex, sequence, call>>
    BY DEF vars
<1>2. InFlight' = InFlight /\ Resting' = Resting /\ Arrival' = Arrival /\ Incoming' = Incoming /\ Book' = Book
    BY <1>1 DEF InFlight, Resting, Arrival, Incoming, Book
<1>3. \A sd, pr : OrdersAt(sd, pr)' = OrdersAt(sd, pr)
    BY <1>1, <1>2 DEF OrdersAt
<1>4. OrderBookTypeOK' /\ LevelsSorted' /\ ArrivalOK' /\ CallOK'
    BY <1>1, <1>2 DEF IInv, StructuresIntact, OrderBookTypeOK, LevelsSorted, ArrivalOK, CallOK
<1>5. QueuesIntact'
    BY <1>1, <1>2, <1>3 DEF IInv, StructuresIntact, QueuesIntact
<1>6. IndexExact'
  <2>1. \A sd, pr : HasLevel(sd, pr)' = HasLevel(sd, pr)
      BY <1>1 DEF HasLevel, FindLevel
  <2> QED BY <1>1, <1>2, <2>1 DEF IInv, StructuresIntact, IndexExact
<1>7. SlotsAccountedFor'
  <2>1. FreeOK(heap')
      BY <1>1, BookFacts
  <2>2. FreeListIntact'
      BY <2>1 DEF FreeOK, FreeListIntact, Chain
  <2> QED BY <1>1, <1>2, <2>2 DEF IInv, StructuresIntact, SlotsAccountedFor
<1> QED BY <1>4, <1>5, <1>6, <1>7 DEF IInv, StructuresIntact

\* Every step of the book.
LEMMA BookKeeps == IInv /\ [OrderBookNext]_vars => IInv'
<1> SUFFICES ASSUME IInv, [OrderBookNext]_vars PROVE IInv'
    OBVIOUS
<1>1. CASE \E side \in Sides, price \in Prices, quantity \in Quantities, id \in Ids, p \in Participants :
               AddLimitOrder(side, price, quantity, id, p)
    BY <1>1, AddKeeps
<1>2. CASE MatchFill
    BY <1>2, FillKeeps
<1>3. CASE MatchSelf
    BY <1>3, SelfKeeps
<1>4. CASE MatchDone
    BY <1>4, DoneKeeps
<1>5. CASE RestOrder
    BY <1>5, RestKeeps
<1>6. CASE RestAborts
    BY <1>6, AbortKeeps
<1>7. CASE DropOrder
    BY <1>7, DropKeeps
<1>8. CASE \E id \in Ids : CancelUnknown(id)
    BY <1>8, UnchangedKeeps DEF CancelUnknown
<1>9. CASE \E id \in Ids : CancelOrder(id)
    BY <1>9, CancelKeeps
<1>10. CASE UNCHANGED vars
    BY <1>10, UnchangedKeeps
<1> QED BY <1>1, <1>2, <1>3, <1>4, <1>5, <1>6, <1>7, <1>8, <1>9, <1>10 DEF OrderBookNext

-----------------------------------------------------------------------------
(***************************************************************************)
(* The theorems.                                                           *)
(***************************************************************************)
\* IInv holds in every reachable state of the engine.
THEOREM BookInvariant == OrderBookSpec => []IInv
<1>1. OrderBookInit => IInv
    BY BookStarts
<1>2. IInv /\ [OrderBookNext]_vars => IInv'
    BY BookKeeps
<1> QED BY <1>1, <1>2, PTL DEF OrderBookSpec

\* Queues, level vectors, index and pool agree at every round of the match loop,
\* for every pool size, price set and sequence of calls.
THEOREM BookStructuresIntact == OrderBookSpec => []StructuresIntact
<1>1. IInv => StructuresIntact
    BY DEF IInv
<1> QED BY <1>1, BookInvariant, PTL

\* A round of the match loop spends the incoming order, or takes an order out of
\* the book; it puts none in.
RoundCounts ==
    MatchFill \/ MatchSelf =>
        /\ call'.order = call.order
        /\ Resting' \subseteq Resting
        /\ ord'[call.order].quantity = 0 \/ Resting' # Resting

\* A fill is as large as the smaller of its two orders, and spends it.
LEMMA FillCounts ==
    ASSUME IInv, MatchFill
    PROVE  RoundCounts
<1> DEFINE r   == Book[call.numLevels].head
           qty == Lesser(Incoming.quantity, ord[r].quantity)
<1>1. call.pc = "match" /\ call.numLevels > 0
    BY DEF MatchFill, InLoop
<1>2. call.order \in Slots /\ r \in Resting /\ r \in Slots /\ InFlight = {call.order}
      /\ Incoming \in Order /\ ord[r] \in Order
    BY <1>1, InLoopFacts, BookFacts
<1>3. /\ ord'[call.order] = [ord[call.order] EXCEPT !.quantity = @ - qty]
      /\ ord'[r] = [ord[r] EXCEPT !.quantity = @ - qty]
      /\ \A s \in Slots : heap'.isAllocated[s] <=> heap.isAllocated[s] /\ s \notin Gone(r)
    BY FillEffect
<1>4. call'.order = call.order /\ call'.pc = "match"
  <2>1. call' = [call EXCEPT !.numLevels = @ - 1] \/ call' = call
      BY DEF MatchFill
  <2>2. call \in [pc : {"idle", "match", "rest", "aborted"}, order : Ptr, numLevels : Nat]
      BY DEF IInv, StructuresIntact, OrderBookTypeOK
  <2> QED BY <1>1, <2>1, <2>2
<1> HIDE DEF r
<1>5. ord'[call.order].quantity = Incoming.quantity - qty /\ ord'[r].quantity = ord[r].quantity - qty
    BY <1>2, <1>3 DEF Order, Incoming
<1>6. Incoming.quantity \in Nat /\ ord[r].quantity \in Nat
    BY <1>2, ModulusAssumption DEF Order
<1>7. ord'[call.order].quantity = 0 \/ ord'[r].quantity = 0
    BY <1>5, <1>6 DEF Lesser
<1>8. InFlight' = {call.order}
    BY <1>4 DEF InFlight
<1>9. Resting' \subseteq Resting
    BY <1>2, <1>3, <1>8 DEF Resting
<1>10. CASE ord'[r].quantity = 0
  <2>1. r \notin Resting'
      BY <1>2, <1>3, <1>10 DEF Gone, Resting
  <2> QED BY <1>2, <1>4, <1>9, <2>1 DEF RoundCounts
<1>11. CASE ord'[call.order].quantity = 0
    BY <1>4, <1>9, <1>11 DEF RoundCounts
<1> QED BY <1>7, <1>10, <1>11

\* No order takes part in a match loop for ever: with n orders in the book, matchBuy
\* and matchSell end after at most n + 1 rounds, for every capacity, price set and
\* history of the book.
THEOREM MatchLoopBounded == OrderBookSpec => [][RoundCounts]_vars
<1>1. ASSUME IInv, [OrderBookNext]_vars PROVE [RoundCounts]_vars
  <2>1. CASE MatchFill
      BY <1>1, <2>1, FillCounts
  <2>2. CASE MatchSelf
    <3>1. Resting' = Resting /\ call' = call /\ call.order \in Slots
        BY <1>1, <2>2, SelfKeeps, InLoopFacts DEF MatchSelf, InLoop
    <3>2. ord \in [Slots -> Order]
        BY <1>1 DEF IInv, StructuresIntact, OrderBookTypeOK
    <3>3. ord'[call.order].quantity = 0
        BY <2>2, <3>1, <3>2 DEF MatchSelf, Order
    <3> QED BY <3>1, <3>3 DEF RoundCounts
  <2> QED BY <2>1, <2>2 DEF RoundCounts
<1> QED BY <1>1, BookInvariant, PTL DEF OrderBookSpec

-----------------------------------------------------------------------------
(***************************************************************************)
(* Refinement. The abstract book holds one order for every slot that rests *)
(* or is in flight, under its id.                                          *)
(***************************************************************************)
Live == Resting \cup InFlight

LiveExact ==
    /\ LiveById = [i \in DOMAIN LiveById |-> LiveById[i]]
    /\ DOMAIN LiveById = {ord[s].orderId : s \in Live}
    /\ \A s \in Live : LiveById[ord[s].orderId] = AbstractOrder(ord[s])
    /\ \A s, t \in Live : ord[s].orderId = ord[t].orderId => s = t
    /\ \A s \in Live : s \in Slots /\ ord[s].orderId \in Nat \ {0} /\ ord[s] \in Order

\* The index and the order in flight describe exactly the orders in use.
LEMMA InvLiveExact == IInv => LiveExact
<1> SUFFICES ASSUME IInv PROVE LiveExact
    OBVIOUS
<1>1. \A s \in Live : s \in Slots /\ heap.isAllocated[s] /\ ord[s] \in Order
    BY BookFacts DEF Live
<1>2. \A s, t \in Live : ord[s].orderId = ord[t].orderId => s = t
    BY <1>1, IdsUnique
<1>3. /\ DOMAIN orderIndex = {ord[s].orderId : s \in Resting}
      /\ \A s \in Resting : orderIndex[ord[s].orderId] = s
    BY DEF IInv, StructuresIntact, IndexExact
<1>4. DOMAIN LiveById = DOMAIN orderIndex \cup {ord[s].orderId : s \in InFlight}
    BY DEF LiveById
<1>5. DOMAIN LiveById = {ord[s].orderId : s \in Live}
    BY <1>3, <1>4 DEF Live
<1>6. ASSUME NEW s \in Live PROVE LiveById[ord[s].orderId] = AbstractOrder(ord[s])
  <2>1. LiveById[ord[s].orderId] =
           AbstractOrder(IF ord[s].orderId \in DOMAIN orderIndex THEN ord[orderIndex[ord[s].orderId]] ELSE Incoming)
      BY <1>4, <1>5 DEF LiveById
  <2>2. CASE s \in Resting
      BY <1>3, <2>1, <2>2
  <2>3. CASE s \in InFlight
    <3>1. ord[s].orderId \notin DOMAIN orderIndex
      <4>1. \A t \in Resting : t \in Live /\ t # s
          BY <2>3, BookFacts DEF Live
      <4> QED BY <1>2, <1>3, <4>1
    <3>2. Incoming = ord[s]
        BY <2>3 DEF InFlight, Incoming
    <3> QED BY <2>1, <3>1, <3>2
  <2> QED BY <2>2, <2>3 DEF Live
<1>7. \A s \in Live : ord[s].orderId \in Nat \ {0}
  <2> SUFFICES ASSUME NEW s \in Live PROVE ord[s].orderId \in Nat \ {0}
      OBVIOUS
  <2>1. ord[s].orderId = ord[s].sequence + 1 /\ ord[s].sequence \in Nat
      BY <1>1, OrderBookAssumption DEF IInv, ArrivalOK, Order
  <2> QED BY <2>1
<1>8. LiveById = [i \in DOMAIN LiveById |-> LiveById[i]]
    BY DEF LiveById
<1> QED BY <1>1, <1>2, <1>5, <1>6, <1>7, <1>8 DEF LiveExact

\* The fields of a live order.
LEMMA LiveFields ==
    ASSUME IInv, NEW s \in Live
    PROVE  /\ LiveById[ord[s].orderId].side = ord[s].side
           /\ LiveById[ord[s].orderId].price = ord[s].price
           /\ LiveById[ord[s].orderId].qty = ord[s].quantity
           /\ LiveById[ord[s].orderId].seq = ord[s].sequence
           /\ LiveById[ord[s].orderId].owner = ord[s].participantId
<1>1. LiveById[ord[s].orderId] = AbstractOrder(ord[s])
    BY InvLiveExact DEF LiveExact
<1> QED BY <1>1 DEF AbstractOrder

\* The same after a step.
LEMMA InvLiveExactNext == IInv' => LiveExact'
BY InvLiveExact, PTL

Taker == IF call.pc = "idle" THEN 0 ELSE Incoming.orderId

\* The order inside addLimitOrder, as the abstract book sees it.
LEMMA TakerFacts ==
    ASSUME IInv, call.pc # "idle"
    PROVE  /\ Taker = Incoming.orderId /\ Taker \in Nat \ {0} /\ Taker \in DOMAIN LiveById
           /\ LiveById[Taker] = AbstractOrder(Incoming)
           /\ DOMAIN LiveById \ {Taker} = {ord[s].orderId : s \in Resting}
           /\ InFlight = {call.order} /\ call.order \in Live /\ call.order \notin Resting
<1>1. LiveExact /\ InFlight = {call.order} /\ Taker = Incoming.orderId /\ Incoming = ord[call.order]
    BY InvLiveExact DEF InFlight, Taker, Incoming
<1>2. call.order \in Live /\ call.order \notin Resting /\ Live = Resting \cup {call.order}
    BY <1>1, BookFacts DEF Live
<1>3. DOMAIN LiveById \ {Taker} = {ord[s].orderId : s \in Resting}
  <2>1. \A s \in Resting : ord[s].orderId # Taker
      BY <1>1, <1>2 DEF LiveExact
  <2>2. DOMAIN LiveById = {ord[s].orderId : s \in Resting} \cup {Taker}
      BY <1>1, <1>2 DEF LiveExact
  <2> QED BY <2>1, <2>2
<1> QED BY <1>1, <1>2, <1>3 DEF LiveExact

\* The contra orders of the order in flight, in the engine's terms.
LEMMA ContraExact ==
    ASSUME IInv, call.pc # "idle"
    PROVE  Abstract!Contra(LiveById[Taker].side, LiveById[Taker].price) =
             {ord[s].orderId : s \in {t \in Resting : /\ ord[t].side # Incoming.side
                                                      /\ Crosses(Incoming.side, Incoming.price, ord[t].price)}}
<1>1. /\ LiveById[Taker].side = Incoming.side /\ LiveById[Taker].price = Incoming.price
      /\ DOMAIN LiveById \ {Taker} = {ord[s].orderId : s \in Resting}
    BY TakerFacts DEF AbstractOrder
<1>2. \A s \in Resting : /\ LiveById[ord[s].orderId].side = ord[s].side
                         /\ LiveById[ord[s].orderId].price = ord[s].price
    BY LiveFields DEF Live
<1>3. Abstract!Resting = {ord[s].orderId : s \in Resting}
    BY <1>1 DEF Abstract!Resting, Taker
<1>4. \A side, price, p : Abstract!Crosses(side, price, p) = Crosses(side, price, p)
    BY DEF Abstract!Crosses, Crosses
<1> QED BY <1>1, <1>2, <1>3, <1>4 DEF Abstract!Contra

\* The head of the level at numLevels is the best order to trade with.
LEMMA HeadIsBest ==
    ASSUME IInv, InLoop
    PROVE  LET r == Book[call.numLevels].head
           IN Abstract!IsBestContra(ord[r].orderId)
<1> DEFINE side == Opposite(Incoming.side)
           i    == call.numLevels
           pl   == Book[i]
           r    == pl.head
<1>1. call.pc = "match" /\ call.numLevels > 0 /\ call.pc # "idle"
      /\ Crosses(Incoming.side, Incoming.price, pl.price)
    BY DEF InLoop
<1>2. /\ Incoming \in Order /\ side \in Sides /\ side # Incoming.side /\ Book = levels[side]
      /\ i \in DOMAIN levels[side]
      /\ r \in Resting /\ ord[r].side = side /\ ord[r].price = pl.price
      /\ \A s \in OrdersAt(side, pl.price) : ord[r].sequence <= ord[s].sequence
    BY <1>1, InLoopFacts
<1>3. /\ LiveExact /\ Incoming.side \in Sides
      /\ Abstract!Contra(LiveById[Taker].side, LiveById[Taker].price) =
             {ord[s].orderId : s \in {t \in Resting : /\ ord[t].side # Incoming.side
                                                      /\ Crosses(Incoming.side, Incoming.price, ord[t].price)}}
    BY <1>1, <1>2, InvLiveExact, ContraExact DEF Order
<1> HIDE DEF r
<1>4. ord[r].orderId \in Abstract!Contra(LiveById[Taker].side, LiveById[Taker].price)
    BY <1>1, <1>2, <1>3
<1>5. ASSUME NEW t \in Resting, ord[t].side # Incoming.side
      PROVE  Abstract!Before(ord[r].orderId, ord[t].orderId)
  <2>1. ord[t].side = side /\ t \in OrdersAt(side, ord[t].price) /\ t \in Slots
    <3>1. ord[t].side \in Sides /\ t \in OrdersAt(ord[t].side, ord[t].price) /\ t \in Slots
        BY BookFacts DEF Order
    <3> QED BY <1>2, <1>3, <1>5, <3>1 DEF Sides
  <2>2. PICK k \in DOMAIN levels[side] : levels[side][k].price = ord[t].price
      BY <2>1 DEF IInv, StructuresIntact, SlotsAccountedFor
  <2>3. WellLinked(heap, levels[side][k], OrdersAt(side, ord[t].price), Arrival)
      BY <1>2, <2>2 DEF IInv, StructuresIntact, QueuesIntact
  <2>4. levels[side][k].head \in OrdersAt(side, ord[t].price)
      BY <2>1, <2>3 DEF WellLinked, IsFirst
  <2>5. ~IsEmpty(levels[side][k])
      BY <2>4, SlotsNotNull DEF IsEmpty, OrdersAt, Resting
  <2>6. ~(k > i)
      BY <1>1, <1>2, <2>2, <2>5 DEF IInv, StructuresIntact, LevelsSorted
  <2>7. k \in Nat /\ i \in Nat /\ (k < i \/ k = i)
    <3>1. DOMAIN levels[side] = 1..Len(levels[side]) /\ Len(levels[side]) \in Nat
        BY <1>2, BookFacts
    <3> QED BY <1>2, <2>2, <2>6, <3>1
  <2>8. /\ LiveById[ord[r].orderId].side = side /\ LiveById[ord[r].orderId].price = pl.price
        /\ LiveById[ord[r].orderId].seq = ord[r].sequence
        /\ LiveById[ord[t].orderId].price = ord[t].price
        /\ LiveById[ord[t].orderId].seq = ord[t].sequence
      BY <1>2, LiveFields DEF Live
  <2>9. CASE k = i
    <3>1. pl.price = ord[t].price
        BY <1>2, <2>2, <2>9
    <3>2. ord[r].sequence <= ord[t].sequence
        BY <1>2, <2>1, <3>1
    <3> QED BY <2>8, <3>1, <3>2 DEF Abstract!Before
  <2>10. CASE k < i
    <3>1. SortsBefore(side, ord[t].price, pl.price)
        BY <1>2, <2>2, <2>10, BookFacts DEF SortedLevels
    <3>2. ord[t].price \in Nat /\ pl.price \in Nat
      <4>1. levels[side][k] \in PriceLevels /\ pl \in PriceLevels
          BY <1>2, <2>2, BookFacts
      <4> QED BY <2>2, <4>1, OrderBookAssumption DEF PriceLevels
    <3> QED BY <1>2, <2>8, <3>1, <3>2 DEF Abstract!Before, SortsBefore, Sides
  <2> QED BY <2>7, <2>9, <2>10
<1>6. \A q \in Abstract!Contra(LiveById[Taker].side, LiveById[Taker].price) :
         Abstract!Before(ord[r].orderId, q)
    BY <1>3, <1>5
<1> QED BY <1>4, <1>6 DEF Abstract!IsBestContra, Taker, r

\* Two maps with the ids of the same orders and the same values are the same map.
LEMMA SameMap ==
    ASSUME NEW f, NEW g, NEW K, f = [i \in DOMAIN f |-> f[i]], g = [i \in DOMAIN g |-> g[i]],
           DOMAIN f = K, DOMAIN g = K, \A k \in K : f[k] = g[k]
    PROVE  f = g
<1>1. f = [i \in K |-> f[i]] /\ g = [i \in K |-> g[i]]
    OBVIOUS
<1>2. [i \in K |-> f[i]] = [i \in K |-> g[i]]
    OBVIOUS
<1> QED BY <1>1, <1>2

\* The first part of addLimitOrder submits the order.
LEMMA AddRefines ==
    ASSUME IInv, NEW side \in Sides, NEW price \in Prices, NEW quantity \in Quantities,
           NEW id \in Ids, NEW p \in Participants, AddLimitOrder(side, price, quantity, id, p)
    PROVE  Abstract!Submit(id, side, price, quantity, p)
<1> DEFINE new == [side |-> side, price |-> price, qty |-> quantity, seq |-> sequence, owner |-> p]
           after == [i \in DOMAIN LiveById \cup {id} |-> IF i = id THEN new ELSE LiveById[i]]
<1>1. /\ IInv'
      /\ Resting' = Resting /\ InFlight = {} /\ InFlight' = {call'.order}
      /\ call'.order \in Slots /\ call'.order \notin Resting
      /\ \A s \in Resting : ord'[s] = ord[s]
      /\ Incoming' = [orderId |-> id, price |-> price, quantity |-> quantity,
                      sequence |-> sequence, participantId |-> p, side |-> side]
    BY AddKeeps
<1>2. call.pc = "idle" /\ call'.pc # "idle" /\ id = sequence + 1 /\ sequence' = sequence + 1 /\ trade' = trade
    BY DEF AddLimitOrder
<1>3. LiveExact /\ LiveExact'
    BY <1>1, InvLiveExact, InvLiveExactNext
<1>4. Live = Resting /\ Live' = Resting \cup {call'.order}
    BY <1>1 DEF Live
<1>5. ord'[call'.order] = Incoming' /\ Incoming'.orderId = id /\ AbstractOrder(Incoming') = new
    BY <1>1 DEF Incoming, AbstractOrder
<1>6. id \notin DOMAIN LiveById
  <2>1. ASSUME NEW s \in Resting PROVE ord[s].orderId # id
    <3>1. /\ ord[s].orderId = ord[s].sequence + 1 /\ ord[s].sequence < sequence
          /\ ord[s].sequence \in Nat /\ sequence \in Nat
        BY BookFacts, OrderBookAssumption
        DEF IInv, ArrivalOK, Order, StructuresIntact, OrderBookTypeOK
    <3> QED BY <1>2, <3>1
  <2> QED BY <1>3, <1>4, <2>1 DEF LiveExact
<1>7. DOMAIN LiveById' = DOMAIN LiveById \cup {id}
    BY <1>1, <1>3, <1>4, <1>5 DEF LiveExact
<1>8. ASSUME NEW i \in DOMAIN LiveById \cup {id} PROVE LiveById'[i] = after[i]
  <2>1. CASE i = id
    <3>1. LiveById'[id] = AbstractOrder(Incoming')
        BY <1>3, <1>4, <1>5 DEF LiveExact
    <3> QED BY <1>5, <2>1, <3>1
  <2>2. CASE i # id
    <3>1. PICK s \in Resting : i = ord[s].orderId
        BY <1>3, <1>4, <2>2 DEF LiveExact
    <3>2. LiveById[i] = AbstractOrder(ord[s]) /\ LiveById'[i] = AbstractOrder(ord[s])
        BY <1>1, <1>3, <1>4, <3>1 DEF LiveExact
    <3> QED BY <2>2, <3>2
  <2> QED BY <2>1, <2>2
<1>9. LiveById' = after
  <2>1. LiveById' = [i \in DOMAIN LiveById' |-> LiveById'[i]]
      BY <1>3 DEF LiveExact
  <2> QED BY <1>7, <1>8, <2>1
<1>10. Taker = 0 /\ Taker' = id
    BY <1>2, <1>5 DEF Taker
<1> QED BY <1>2, <1>6, <1>9, <1>10 DEF Abstract!Submit, Abstract!NoTaker, Taker

\* A round that trades is a fill of the best contra order.
LEMMA FillRefines ==
    ASSUME IInv, MatchFill
    PROVE  \E q \in DOMAIN LiveById : Abstract!Fill(q)
<1> DEFINE side == Opposite(Incoming.side)
           i    == call.numLevels
           pl   == Book[i]
           r    == pl.head
           o    == call.order
           qty  == Lesser(Incoming.quantity, ord[r].quantity)
           rid  == ord[r].orderId
           filled == [LiveById EXCEPT ![Taker].qty = @ - qty, ![rid].qty = @ - qty]
<1>1. InLoop /\ call.pc = "match" /\ call.numLevels > 0 /\ Incoming.quantity > 0 /\ call.pc # "idle"
    BY DEF MatchFill, InLoop
<1>2. /\ Incoming \in Order /\ side # Incoming.side /\ side \in Sides /\ o \in Slots /\ o # r
      /\ r \in Resting /\ r \in Slots /\ ord[r].side = side /\ ord[r].price = pl.price
    BY <1>1, InLoopFacts
<1>3. /\ ord'[o] = [ord[o] EXCEPT !.quantity = @ - qty]
      /\ ord'[r] = [ord[r] EXCEPT !.quantity = @ - qty]
      /\ \A s \in Slots : s # r /\ s # o => ord'[s] = ord[s]
      /\ sequence' = sequence
    BY FillEffect
<1>4. /\ IInv' /\ Resting' = Resting \ Gone(r) /\ InFlight' = {o} /\ InFlight = {o}
      /\ call'.order = o /\ call'.pc = "match"
    BY FillKeeps
<1>5. /\ ord[r].participantId # Incoming.participantId
      /\ trade' = [buyOrderId  |-> ord[IF Incoming.side = "Buy" THEN o ELSE r].orderId,
                   sellOrderId |-> ord[IF Incoming.side = "Buy" THEN r ELSE o].orderId,
                   price       |-> pl.price,
                   quantity    |-> qty]
    BY DEF MatchFill
<1>6. Abstract!IsBestContra(rid)
    BY <1>1, HeadIsBest
<1> HIDE DEF r, qty, o
<1>7. /\ LiveExact /\ LiveExact'
      /\ Taker = Incoming.orderId /\ Taker \in Nat \ {0} /\ Taker \in DOMAIN LiveById
      /\ o \in Live /\ r \in Live /\ Incoming = ord[o]
    BY <1>1, <1>2, <1>4, InvLiveExact, InvLiveExactNext, TakerFacts DEF Live, o, Incoming
<1>8. Live' = Live \ Gone(r) /\ Gone(r) \subseteq {r} /\ o \notin Gone(r)
    BY <1>2, <1>4 DEF Live, Gone
<1>9. /\ LiveById[Taker].qty = Incoming.quantity /\ LiveById[Taker].side = Incoming.side
      /\ LiveById[Taker].owner = Incoming.participantId
      /\ LiveById[rid].qty = ord[r].quantity /\ LiveById[rid].price = pl.price
      /\ LiveById[rid].owner = ord[r].participantId
    BY <1>2, <1>7, LiveFields
<1>10. rid # Taker /\ rid \in DOMAIN LiveById
    BY <1>2, <1>7 DEF LiveExact
<1>11. Incoming'.orderId = Incoming.orderId /\ Taker' = Taker
  <2>1. Incoming'.orderId = Incoming.orderId
      BY <1>2, <1>3, <1>4, <1>7 DEF Incoming, Order
  <2> QED BY <1>1, <1>4, <2>1 DEF Taker
<1>12. \A s \in Live : /\ ord'[s].orderId = ord[s].orderId
                       /\ filled[ord[s].orderId] = AbstractOrder(ord'[s])
  <2> SUFFICES ASSUME NEW s \in Live
               PROVE  /\ ord'[s].orderId = ord[s].orderId
                      /\ filled[ord[s].orderId] = AbstractOrder(ord'[s])
      OBVIOUS
  <2>1. ord[s] \in Order /\ s \in Slots /\ LiveById[ord[s].orderId] = AbstractOrder(ord[s])
        /\ ord[s].orderId \in DOMAIN LiveById
      BY <1>7 DEF LiveExact
  <2>2. CASE s = o
    <3>1. ord[s].orderId = Taker /\ ord'[s] = [ord[s] EXCEPT !.quantity = @ - qty]
        BY <1>3, <1>7, <2>2
    <3>2. filled[Taker] = [LiveById[Taker] EXCEPT !.qty = @ - qty]
        BY <1>7, <1>10
    <3>3. [AbstractOrder(ord[s]) EXCEPT !.qty = @ - qty] = AbstractOrder([ord[s] EXCEPT !.quantity = @ - qty])
        BY <2>1 DEF AbstractOrder, Order
    <3>4. ord'[s].orderId = ord[s].orderId
        BY <2>1, <3>1 DEF Order
    <3> QED BY <2>1, <3>1, <3>2, <3>3, <3>4
  <2>3. CASE s = r
    <3>1. ord[s].orderId = rid /\ ord'[s] = [ord[s] EXCEPT !.quantity = @ - qty]
        BY <1>3, <2>3
    <3>2. filled[rid] = [LiveById[rid] EXCEPT !.qty = @ - qty]
        BY <1>7, <1>10
    <3>3. [AbstractOrder(ord[s]) EXCEPT !.qty = @ - qty] = AbstractOrder([ord[s] EXCEPT !.quantity = @ - qty])
        BY <2>1 DEF AbstractOrder, Order
    <3>4. ord'[s].orderId = ord[s].orderId
        BY <2>1, <3>1 DEF Order
    <3> QED BY <2>1, <3>1, <3>2, <3>3, <3>4
  <2>4. CASE s # o /\ s # r
    <3>1. ord'[s] = ord[s]
        BY <1>3, <2>1, <2>4
    <3>2. ord[s].orderId # Taker /\ ord[s].orderId # rid
        BY <1>7, <2>4 DEF LiveExact
    <3> QED BY <1>7, <2>1, <3>1, <3>2
  <2> QED BY <2>2, <2>3, <2>4
<1>13. DOMAIN filled = DOMAIN LiveById /\ filled = [x \in DOMAIN filled |-> filled[x]]
    OBVIOUS
<1>14. filled[rid].qty = ord'[r].quantity
  <2>1. filled[rid] = AbstractOrder(ord'[r])
      BY <1>7, <1>12
  <2> HIDE DEF filled
  <2> QED BY <2>1 DEF AbstractOrder
<1> HIDE DEF filled, rid
<1>15. LiveById' = IF filled[rid].qty = 0 THEN Abstract!Erase(filled, {rid}) ELSE filled
  <2>1. \A s \in Live' : LiveById'[ord'[s].orderId] = filled[ord'[s].orderId]
      BY <1>7, <1>8, <1>12 DEF LiveExact
  <2>2. LiveById' = [x \in DOMAIN LiveById' |-> LiveById'[x]]
      BY <1>7 DEF LiveExact
  <2>3. DOMAIN LiveById' = {ord[s].orderId : s \in Live \ Gone(r)}
      BY <1>7, <1>8, <1>12 DEF LiveExact
  <2>4. DOMAIN LiveById = {ord[s].orderId : s \in Live}
      BY <1>7 DEF LiveExact
  <2>5. \A x \in DOMAIN LiveById' : LiveById'[x] = filled[x]
      BY <1>8, <1>12, <2>1, <2>3
  <2>6. CASE ord'[r].quantity = 0
    <3>1. Gone(r) = {r}
        BY <2>6 DEF Gone
    <3>2. DOMAIN LiveById' = DOMAIN filled \ {rid}
      <4>1. \A s \in Live : s # r => ord[s].orderId # rid
          BY <1>7 DEF LiveExact, rid
      <4> QED BY <1>7, <1>13, <2>3, <2>4, <3>1, <4>1 DEF rid
    <3>3. LiveById' = [x \in DOMAIN filled \ {rid} |-> filled[x]]
        BY <2>2, <2>5, <3>2
    <3> QED BY <1>14, <2>6, <3>3 DEF Abstract!Erase
  <2>7. CASE ord'[r].quantity # 0
    <3>1. Gone(r) = {}
        BY <2>7 DEF Gone
    <3>2. DOMAIN LiveById' = DOMAIN filled
        BY <1>13, <2>3, <2>4, <3>1
    <3> QED BY <1>13, <1>14, <2>2, <2>5, <2>7, <3>2
  <2> QED BY <2>6, <2>7
<1>16. Abstract!Lesser(LiveById[Taker].qty, LiveById[rid].qty) = qty
    BY <1>9 DEF Abstract!Lesser, Lesser, qty
<1>17. trade' = [buyOrderId  |-> IF LiveById[Taker].side = "Buy" THEN Taker ELSE rid,
                 sellOrderId |-> IF LiveById[Taker].side = "Buy" THEN rid ELSE Taker,
                 price       |-> LiveById[rid].price,
                 quantity    |-> qty]
    BY <1>5, <1>7, <1>9 DEF rid
<1>18. Abstract!Fill(rid)
  <2>1. Taker # 0 /\ LiveById[Taker].qty > 0 /\ LiveById[rid].owner # LiveById[Taker].owner
      BY <1>1, <1>5, <1>7, <1>9
  <2> QED BY <1>3, <1>6, <1>11, <1>15, <1>16, <1>17, <2>1
          DEF Abstract!Fill, Abstract!NoTaker, Taker, filled
<1> QED BY <1>10, <1>18

\* A round that meets the same participant is self-match prevention.
LEMMA SelfRefines ==
    ASSUME IInv, MatchSelf
    PROVE  \E q \in DOMAIN LiveById : Abstract!SelfMatch(q)
<1> DEFINE r   == Book[call.numLevels].head
           o   == call.order
           rid == ord[r].orderId
           spent == [LiveById EXCEPT ![Taker].qty = 0]
<1>1. /\ InLoop /\ call.pc = "match" /\ call.numLevels > 0 /\ Incoming.quantity > 0 /\ call.pc # "idle"
      /\ ord[r].participantId = Incoming.participantId
      /\ ord' = [ord EXCEPT ![o].quantity = 0]
      /\ UNCHANGED <<heap, levels, orderIndex, sequence, call, trade>>
    BY DEF MatchSelf, InLoop
<1>2. r \in Resting /\ r \in Slots /\ o \in Slots
    BY <1>1, InLoopFacts
<1>3. IInv' /\ Resting' = Resting /\ InFlight' = InFlight /\ \A s \in Slots : s # o => ord'[s] = ord[s]
    BY SelfKeeps
<1>4. Abstract!IsBestContra(rid)
    BY <1>1, HeadIsBest
<1> HIDE DEF r, o
<1>5. /\ LiveExact /\ LiveExact' /\ Live' = Live
      /\ Taker = Incoming.orderId /\ Taker \in Nat \ {0} /\ Taker \in DOMAIN LiveById
      /\ o \in Live /\ r \in Live /\ Incoming = ord[o]
    BY <1>1, <1>2, <1>3, InvLiveExact, InvLiveExactNext, TakerFacts DEF Live, o, Incoming
<1>6. /\ LiveById[Taker].qty = Incoming.quantity /\ LiveById[Taker].owner = Incoming.participantId
      /\ LiveById[rid].owner = ord[r].participantId
    BY <1>5, LiveFields
<1>7. rid \in DOMAIN LiveById
    BY <1>5 DEF LiveExact
<1>8. ord'[o] = [ord[o] EXCEPT !.quantity = 0] /\ ord[o] \in Order
    BY <1>1, <1>2, BookFacts DEF IInv, StructuresIntact, OrderBookTypeOK
<1>9. Taker' = Taker
  <2>1. Incoming'.orderId = Incoming.orderId
      BY <1>1, <1>5, <1>8 DEF Incoming, Order, o
  <2> QED BY <1>1, <2>1 DEF Taker
<1>10. \A s \in Live : /\ ord'[s].orderId = ord[s].orderId
                       /\ spent[ord[s].orderId] = AbstractOrder(ord'[s])
  <2> SUFFICES ASSUME NEW s \in Live
               PROVE  /\ ord'[s].orderId = ord[s].orderId
                      /\ spent[ord[s].orderId] = AbstractOrder(ord'[s])
      OBVIOUS
  <2>1. ord[s] \in Order /\ s \in Slots /\ LiveById[ord[s].orderId] = AbstractOrder(ord[s])
        /\ ord[s].orderId \in DOMAIN LiveById
      BY <1>5 DEF LiveExact
  <2>2. CASE s = o
    <3>1. ord[s].orderId = Taker /\ ord'[s] = [ord[s] EXCEPT !.quantity = 0]
        BY <1>5, <1>8, <2>2
    <3>2. spent[Taker] = [LiveById[Taker] EXCEPT !.qty = 0]
        BY <1>5
    <3>3. [AbstractOrder(ord[s]) EXCEPT !.qty = 0] = AbstractOrder([ord[s] EXCEPT !.quantity = 0])
        BY <2>1 DEF AbstractOrder, Order
    <3>4. ord'[s].orderId = ord[s].orderId
        BY <2>1, <3>1 DEF Order
    <3> QED BY <2>1, <3>1, <3>2, <3>3, <3>4
  <2>3. CASE s # o
    <3>1. ord'[s] = ord[s]
        BY <1>3, <2>1, <2>3
    <3>2. ord[s].orderId # Taker
        BY <1>5, <2>3 DEF LiveExact
    <3> QED BY <2>1, <3>1, <3>2
  <2> QED BY <2>2, <2>3
<1>11. LiveById' = spent
  <2>1. DOMAIN spent = DOMAIN LiveById /\ spent = [x \in DOMAIN spent |-> spent[x]]
      OBVIOUS
  <2> HIDE DEF spent
  <2>2. DOMAIN LiveById' = DOMAIN LiveById
      BY <1>5, <1>10 DEF LiveExact
  <2>3. \A s \in Live : LiveById'[ord[s].orderId] = spent[ord[s].orderId]
      BY <1>5, <1>10 DEF LiveExact
  <2>4. \A x \in DOMAIN LiveById : LiveById'[x] = spent[x]
      BY <1>5, <2>3 DEF LiveExact
  <2>5. LiveById' = [x \in DOMAIN LiveById' |-> LiveById'[x]]
      BY <1>5 DEF LiveExact
  <2> QED BY <2>1, <2>2, <2>4, <2>5
<1>12. Abstract!SelfMatch(rid)
  <2>1. Taker # 0 /\ LiveById[Taker].qty > 0 /\ LiveById[rid].owner = LiveById[Taker].owner
      BY <1>1, <1>5, <1>6
  <2> QED BY <1>1, <1>4, <1>9, <1>11, <2>1 DEF Abstract!SelfMatch, Abstract!NoTaker, Taker
<1> QED BY <1>7, <1>12

\* Steps after which the same orders are live, with the same fields.
LEMMA SameLive ==
    ASSUME IInv, IInv', Live' = Live, \A s \in Live : ord'[s] = ord[s]
    PROVE  LiveById' = LiveById
<1>1. LiveExact /\ LiveExact'
    BY InvLiveExact, InvLiveExactNext
<1>2. DOMAIN LiveById' = DOMAIN LiveById
    BY <1>1 DEF LiveExact
<1>3. \A s \in Live : LiveById'[ord[s].orderId] = LiveById[ord[s].orderId]
    BY <1>1 DEF LiveExact
<1>4. \A x \in DOMAIN LiveById : LiveById'[x] = LiveById[x]
    BY <1>1, <1>3 DEF LiveExact
<1>5. /\ LiveById' = [x \in DOMAIN LiveById' |-> LiveById'[x]]
      /\ LiveById = [x \in DOMAIN LiveById |-> LiveById[x]]
    BY <1>1 DEF LiveExact
<1> QED BY <1>2, <1>4, <1>5

\* Steps that take one order out of the book.
LEMMA OneGone ==
    ASSUME IInv, IInv', NEW o \in Live, Live' = Live \ {o}, \A s \in Live : ord'[s] = ord[s]
    PROVE  LiveById' = Abstract!Erase(LiveById, {ord[o].orderId})
<1>1. LiveExact /\ LiveExact'
    BY InvLiveExact, InvLiveExactNext
<1>2. DOMAIN LiveById' = DOMAIN LiveById \ {ord[o].orderId}
    BY <1>1 DEF LiveExact
<1>3. \A s \in Live' : LiveById'[ord[s].orderId] = LiveById[ord[s].orderId]
    BY <1>1 DEF LiveExact
<1>4. \A x \in DOMAIN LiveById' : LiveById'[x] = LiveById[x]
    BY <1>1, <1>3 DEF LiveExact
<1>5. LiveById' = [x \in DOMAIN LiveById' |-> LiveById'[x]]
    BY <1>1 DEF LiveExact
<1>6. LiveById' = [x \in DOMAIN LiveById \ {ord[o].orderId} |-> LiveById[x]]
    BY <1>2, <1>4, <1>5
<1> QED BY <1>6 DEF Abstract!Erase

\* An order that came to rest, or was spent, settles.
LEMMA SettleRefines ==
    ASSUME IInv, RestOrder \/ DropOrder
    PROVE  Abstract!Settle
<1>1. /\ call.pc = "rest" /\ call.pc # "idle" /\ call'.pc = "idle" /\ UNCHANGED <<ord, sequence, trade>>
      /\ IInv' /\ InFlight' = {} /\ InFlight = {call.order}
  <2>1. CASE RestOrder
      BY <2>1, RestKeeps DEF RestOrder, Idle
  <2>2. CASE DropOrder
      BY <2>2, DropKeeps DEF DropOrder, Idle
  <2> QED BY <2>1, <2>2
<1>2. /\ Taker = Incoming.orderId /\ Taker \in Nat \ {0} /\ LiveById[Taker].qty = Incoming.quantity
      /\ call.order \in Live /\ Incoming = ord[call.order]
  <2>1. Taker = Incoming.orderId /\ Taker \in Nat \ {0} /\ LiveById[Taker] = AbstractOrder(Incoming)
        /\ call.order \in Live
      BY <1>1, TakerFacts
  <2>2. AbstractOrder(Incoming).qty = Incoming.quantity
      BY DEF AbstractOrder
  <2> QED BY <2>1, <2>2 DEF Incoming
<1>3. Incoming.quantity > 0 => Abstract!Contra(LiveById[Taker].side, LiveById[Taker].price) = {}
  <2>1. SUFFICES ASSUME Incoming.quantity > 0, NEW s \in Resting, ord[s].side # Incoming.side,
                        Crosses(Incoming.side, Incoming.price, ord[s].price)
                 PROVE  FALSE
      BY <1>1, ContraExact
  <2>2. ord[s].side = Opposite(Incoming.side)
    <3>1. ord[s].side \in Sides /\ Incoming.side \in Sides
      <4>1. ord[s] \in Order /\ Incoming \in Order
          BY <1>1, <1>2, BookFacts
      <4> QED BY <4>1 DEF Order
    <3> QED BY <2>1, <3>1 DEF Sides, Opposite
  <2>3. PICK k \in DOMAIN Book : Book[k].price = ord[s].price
      BY <2>2 DEF IInv, StructuresIntact, SlotsAccountedFor, Book
  <2> QED BY <1>1, <2>1, <2>3 DEF IInv, CallOK
<1>4. LiveById' = IF Incoming.quantity > 0 THEN LiveById ELSE Abstract!Erase(LiveById, {Taker})
  <2>1. CASE RestOrder
    <3>1. Live' = Live /\ Incoming.quantity > 0
        BY <2>1, RestKeeps DEF Live, RestOrder
    <3> QED BY <1>1, <3>1, SameLive
  <2>2. CASE DropOrder
    <3>1. Live' = Live \ {call.order} /\ Incoming.quantity = 0
        BY <1>1, <2>2, DropKeeps, BookFacts DEF Live, DropOrder
    <3> QED BY <1>1, <1>2, <3>1, OneGone
  <2> QED BY <2>1, <2>2
<1>5. Taker' = 0
    BY <1>1 DEF Taker
<1> QED BY <1>1, <1>2, <1>3, <1>4, <1>5 DEF Abstract!Settle, Abstract!NoTaker, Taker

\* cancelOrder takes one order out.
LEMMA CancelRefines ==
    ASSUME IInv, NEW id \in Ids, CancelOrder(id)
    PROVE  Abstract!CancelOrders({id})
<1>1. /\ IInv' /\ Resting' = Resting \ {orderIndex[id]} /\ InFlight' = {} /\ InFlight = {}
    BY CancelKeeps
<1>2. call.pc = "idle" /\ id \in DOMAIN orderIndex /\ UNCHANGED <<ord, sequence, call, trade>>
    BY DEF CancelOrder
<1>3. orderIndex[id] \in Live /\ ord[orderIndex[id]].orderId = id
    BY <1>2 DEF IInv, StructuresIntact, IndexExact, Live
<1>4. LiveById' = Abstract!Erase(LiveById, {id})
  <2>1. Live' = Live \ {orderIndex[id]}
      BY <1>1 DEF Live
  <2> QED BY <1>1, <1>2, <1>3, <2>1, OneGone
<1> QED BY <1>2, <1>4 DEF Abstract!CancelOrders, Abstract!NoTaker

\* The steps the abstract book does not see.
LEMMA InternalRefines ==
    ASSUME IInv, MatchDone \/ RestAborts \/ UNCHANGED vars
    PROVE  UNCHANGED Abstract!bookVars
<1>1. /\ IInv' /\ ord' = ord /\ Resting' = Resting /\ InFlight' = InFlight /\ sequence' = sequence
      /\ trade' = trade /\ (call'.pc = "idle" <=> call.pc = "idle") /\ call'.order = call.order
  <2>0. call \in [pc : {"idle", "match", "rest", "aborted"}, order : Ptr, numLevels : Nat]
      BY DEF IInv, StructuresIntact, OrderBookTypeOK
  <2>1. CASE MatchDone
      BY <2>0, <2>1, DoneKeeps DEF MatchDone
  <2>2. CASE RestAborts
      BY <2>0, <2>2, AbortKeeps DEF RestAborts
  <2>3. CASE UNCHANGED vars
      BY <2>3, UnchangedKeeps DEF vars, InFlight, Resting
  <2> QED BY <2>1, <2>2, <2>3
<1>2. Live' = Live /\ Incoming' = Incoming
    BY <1>1 DEF Live, Incoming
<1>3. LiveById' = LiveById
    BY <1>1, <1>2, SameLive
<1> QED BY <1>1, <1>2, <1>3 DEF Abstract!bookVars

\* Every behaviour of the engine's data structures is one of price-time priority
\* matching: each trade is with the best-priced, earliest contra order.
THEOREM EngineImplementsMatchingBook == OrderBookSpec => ImplementsMatchingBook
<1>1. OrderBookInit => Abstract!BookInit
  <2> SUFFICES ASSUME OrderBookInit PROVE Abstract!BookInit
      OBVIOUS
  <2>1. call.pc = "idle" /\ orderIndex = [i \in {} |-> Null] /\ sequence = 0 /\ trade = NoTrade
      BY DEF OrderBookInit, Idle
  <2>2. LiveById = [i \in {} |-> 0]
      BY <2>1 DEF LiveById, InFlight
  <2> QED BY <2>1, <2>2 DEF Abstract!BookInit, Abstract!NoTaker, Abstract!NoTrade, NoTrade
<1>2. IInv /\ [OrderBookNext]_vars => [Abstract!BookNext]_(Abstract!bookVars)
  <2> SUFFICES ASSUME IInv, [OrderBookNext]_vars PROVE [Abstract!BookNext]_(Abstract!bookVars)
      OBVIOUS
  <2>1. CASE \E side \in Sides, price \in Prices, quantity \in Quantities, id \in Ids, p \in Participants :
                 AddLimitOrder(side, price, quantity, id, p)
    <3>1. PICK side \in Sides, price \in Prices, quantity \in Quantities, id \in Ids, p \in Participants :
              AddLimitOrder(side, price, quantity, id, p)
        BY <2>1
    <3>2. Abstract!Submit(id, side, price, quantity, p)
        BY <3>1, AddRefines
    <3> QED BY <3>2 DEF Abstract!BookNext, Abstract!Sides, Sides
  <2>2. CASE MatchFill
      BY <2>2, FillRefines DEF Abstract!BookNext
  <2>3. CASE MatchSelf
      BY <2>3, SelfRefines DEF Abstract!BookNext
  <2>4. CASE RestOrder \/ DropOrder
      BY <2>4, SettleRefines DEF Abstract!BookNext
  <2>5. CASE MatchDone \/ RestAborts \/ UNCHANGED vars
      BY <2>5, InternalRefines
  <2>6. CASE \E id \in Ids : CancelUnknown(id)
      BY <2>6, InternalRefines DEF CancelUnknown
  <2>7. CASE \E id \in Ids : CancelOrder(id)
    <3>1. PICK id \in Ids : CancelOrder(id)
        BY <2>7
    <3>2. Abstract!CancelOrders({id})
        BY <3>1, CancelRefines
    <3> QED BY <3>2 DEF Abstract!BookNext
  <2> QED BY <2>1, <2>2, <2>3, <2>4, <2>5, <2>6, <2>7 DEF OrderBookNext
<1> QED BY <1>1, <1>2, BookInvariant, PTL DEF OrderBookSpec, ImplementsMatchingBook, Abstract!BookSpec
-----------------------------------------------------------------------------
(***************************************************************************)
(* Sums of quantities. A sum over the slots is a function of the number of *)
(* slots; the induction over it is the well-foundedness of < on Nat, for   *)
(* the members of a set.                                                   *)
(***************************************************************************)
\* Induction over the numbers, for the members of a set.
LEMMA NatInSet ==
    ASSUME NEW S, 0 \in S, \A n \in Nat : n \in S => n + 1 \in S
    PROVE  Nat \subseteq S
<1> SUFFICES ASSUME Nat \ S # {} PROVE FALSE
    OBVIOUS
<1>1. PICK x \in Nat \ S : \A y \in Nat \ S : <<y, x>> \notin OpToRel(<, Nat)
    BY NatLessThanWellFounded, WFMin
<1>2. x # 0 /\ x \in Nat
    OBVIOUS
<1>3. x - 1 \in Nat /\ x - 1 < x /\ (x - 1) + 1 = x
    BY <1>2
<1>4. x - 1 \in S
    BY <1>1, <1>3 DEF OpToRel
<1> QED BY <1>3, <1>4

\* What slot k adds to the quantities of S, with the orders o in the slots.
Amount(o, S, k) == IF k \in S THEN o[k].quantity ELSE 0

\* f are the sums over the first slots.
Sums(o, S, n, f) == f = [k \in 0..n |-> IF k = 0 THEN 0 ELSE f[k - 1] + Amount(o, S, k)]

\* There are such sums.
LEMMA SumsExist ==
    ASSUME NEW o, NEW S, NEW n \in Nat
    PROVE  \E f : Sums(o, S, n, f)
<1> DEFINE A == {m \in Nat : \E f : Sums(o, S, m, f)}
<1>1. 0 \in A
  <2> DEFINE f == [k \in 0..0 |-> 0]
  <2>1. f = [k \in 0..0 |-> IF k = 0 THEN 0 ELSE f[k - 1] + Amount(o, S, k)]
      OBVIOUS
  <2> QED BY <2>1 DEF Sums
<1>2. ASSUME NEW m \in Nat, m \in A PROVE m + 1 \in A
  <2>1. PICK f : Sums(o, S, m, f)
      BY <1>2
  <2>2. f = [k \in 0..m |-> IF k = 0 THEN 0 ELSE f[k - 1] + Amount(o, S, k)]
      BY <2>1 DEF Sums
  <2> DEFINE last == f[m] + Amount(o, S, m + 1)
             g == [k \in 0..(m + 1) |-> IF k = m + 1 THEN last ELSE f[k]]
             h == [k \in 0..(m + 1) |-> IF k = 0 THEN 0 ELSE g[k - 1] + Amount(o, S, k)]
  <2>3. ASSUME NEW k \in 0..(m + 1) PROVE g[k] = h[k]
    <3>1. CASE k = m + 1
      <4>1. k - 1 = m /\ m \in 0..(m + 1) /\ m # m + 1 /\ k # 0
          BY <3>1
      <4>2. g[m] = f[m]
          BY <4>1
      <4> QED BY <3>1, <4>1, <4>2
    <3>2. CASE k # m + 1
      <4>1. k \in 0..m /\ g[k] = f[k]
          BY <3>2
      <4>2. CASE k = 0
          BY <2>2, <4>1, <4>2
      <4>3. CASE k # 0
        <5>1. k - 1 \in 0..(m + 1) /\ k - 1 # m + 1
            BY <4>1, <4>3
        <5>2. g[k - 1] = f[k - 1]
            BY <5>1
        <5>3. f[k] = f[k - 1] + Amount(o, S, k)
            BY <2>2, <4>1, <4>3
        <5> QED BY <4>1, <4>3, <5>2, <5>3
      <4> QED BY <4>2, <4>3
    <3> QED BY <3>1, <3>2
  <2>4. g = h
    <3> HIDE DEF last
    <3>1. g = [k \in 0..(m + 1) |-> g[k]] /\ h = [k \in 0..(m + 1) |-> h[k]]
        OBVIOUS
    <3> HIDE DEF g, h
    <3> QED BY <2>3, <3>1
  <2>5. Sums(o, S, m + 1, g)
      BY <2>4 DEF Sums
  <2> QED BY <2>5
<1>3. Nat \subseteq A
  <2> HIDE DEF A
  <2> QED BY <1>1, <1>2, NatInSet
<1> QED BY <1>3

\* The last of them is the sum over all slots.
SumOf(o, S) == (CHOOSE f : Sums(o, S, Capacity, f))[Capacity]

\* That is the model's sum.
LEMMA QuantitySumIs ==
    ASSUME NEW S
    PROVE  QuantitySum(S) = SumOf(ord, S)
BY DEF QuantitySum, SumOf, Sums, Amount

\* The orders p of T have the quantities of the orders o of S, but for slot s.
SameBut(o, S, p, T, s) ==
    \A k \in Slots : /\ Amount(o, S, k) \in Nat /\ Amount(p, T, k) \in Nat
                     /\ k # s => Amount(p, T, k) = Amount(o, S, k)

\* When one slot's quantity changes the sum changes by as much.
LEMMA SumChanges ==
    ASSUME NEW o, NEW S, NEW p, NEW T, NEW s \in Slots, SameBut(o, S, p, T, s)
    PROVE  /\ SumOf(o, S) \in Nat
           /\ SumOf(p, T) = SumOf(o, S) + Amount(p, T, s) - Amount(o, S, s)
<1> DEFINE n == Capacity
           f == CHOOSE e : Sums(o, S, n, e)
           g == CHOOSE e : Sums(p, T, n, e)
           d == Amount(p, T, s) - Amount(o, S, s)
           Differ(k) == f[k] \in Nat /\ g[k] \in Int /\ g[k] = f[k] + (IF k < s THEN 0 ELSE d)
           A == {k \in Nat : k \in 0..n => Differ(k)}
<1>0. n \in Nat /\ Slots = 1..n /\ s \in 1..n
    BY CapacityAssumption DEF Slots
<1>1. Sums(o, S, n, f) /\ Sums(p, T, n, g)
    BY <1>0, SumsExist
<1>2. /\ f = [k \in 0..n |-> IF k = 0 THEN 0 ELSE f[k - 1] + Amount(o, S, k)]
      /\ g = [k \in 0..n |-> IF k = 0 THEN 0 ELSE g[k - 1] + Amount(p, T, k)]
    BY <1>1 DEF Sums
<1>3. d \in Int /\ \A k \in 1..n : /\ Amount(o, S, k) \in Nat
                                   /\ Amount(p, T, k) = Amount(o, S, k) + (IF k = s THEN d ELSE 0)
    BY <1>0 DEF SameBut
<1> HIDE DEF n, f, g, d
<1>4. 0 \in A
  <2>1. f[0] = 0 /\ g[0] = 0 /\ 0 < s
      BY <1>0, <1>2
  <2> QED BY <2>1
<1>5. ASSUME NEW k \in Nat, k \in A PROVE k + 1 \in A
  <2> SUFFICES ASSUME k + 1 \in 0..n PROVE Differ(k + 1)
      OBVIOUS
  <2>1. k \in 0..n /\ k + 1 \in 1..n /\ (k + 1) - 1 = k /\ k + 1 # 0
      BY <1>0
  <2>2. Differ(k)
      BY <1>5, <2>1
  <2>3. f[k + 1] = f[(k + 1) - 1] + Amount(o, S, k + 1) /\ g[k + 1] = g[(k + 1) - 1] + Amount(p, T, k + 1)
      BY <1>2, <2>1
  <2>4. f[k + 1] = f[k] + Amount(o, S, k + 1) /\ g[k + 1] = g[k] + Amount(p, T, k + 1)
      BY <2>1, <2>3
  <2>5. Amount(o, S, k + 1) \in Nat /\ Amount(p, T, k + 1) = Amount(o, S, k + 1) + (IF k + 1 = s THEN d ELSE 0)
      BY <1>3, <2>1
  <2> DEFINE x == Amount(o, S, k + 1)
             y == Amount(p, T, k + 1)
  <2>6. f[k + 1] = f[k] + x /\ g[k + 1] = g[k] + y /\ x \in Nat /\ y = x + (IF k + 1 = s THEN d ELSE 0)
      BY <2>4, <2>5
  <2> HIDE DEF x, y
  <2>7. CASE k + 1 < s
    <3>1. k < s /\ k + 1 # s
        BY <1>0, <2>7
    <3> QED BY <1>3, <2>2, <2>6, <2>7, <3>1
  <2>8. CASE k + 1 = s
    <3>1. k < s /\ ~(k + 1 < s)
        BY <1>0, <2>8
    <3> QED BY <1>3, <2>2, <2>6, <2>8, <3>1
  <2>9. CASE s < k + 1
    <3>1. ~(k < s) /\ ~(k + 1 < s) /\ k + 1 # s
        BY <1>0, <2>9
    <3> QED BY <1>3, <2>2, <2>6, <3>1
  <2> QED BY <1>0, <2>7, <2>8, <2>9
<1>6. Nat \subseteq A
  <2> HIDE DEF A
  <2> QED BY <1>4, <1>5, NatInSet
<1>7. n \in A /\ n \in 0..n /\ ~(n < s)
    BY <1>0, <1>6
<1>8. f[n] \in Nat /\ g[n] = f[n] + d
    BY <1>7
<1>9. SumOf(o, S) = f[n] /\ SumOf(p, T) = g[n]
    BY DEF SumOf, f, g, n
<1>10. Amount(p, T, s) \in Nat /\ Amount(o, S, s) \in Nat
    BY DEF SameBut
<1> QED BY <1>8, <1>9, <1>10 DEF d

\* No orders, no quantity.
LEMMA SumOfNone ==
    ASSUME NEW o
    PROVE  SumOf(o, {}) = 0
<1> DEFINE n == Capacity
           f == CHOOSE e : Sums(o, {}, n, e)
           A == {k \in Nat : k \in 0..n => f[k] = 0}
<1>1. n \in Nat /\ n \in 0..n
    BY CapacityAssumption
<1>2. Sums(o, {}, n, f)
    BY <1>1, SumsExist
<1>3. f = [k \in 0..n |-> IF k = 0 THEN 0 ELSE f[k - 1] + Amount(o, {}, k)]
    BY <1>2 DEF Sums
<1> HIDE DEF n, f
<1>4. 0 \in A
    BY <1>1, <1>3
<1>5. ASSUME NEW k \in Nat, k \in A PROVE k + 1 \in A
  <2> SUFFICES ASSUME k + 1 \in 0..n PROVE f[k + 1] = 0
      OBVIOUS
  <2>1. k \in 0..n /\ (k + 1) - 1 = k /\ k + 1 # 0
      BY <1>1
  <2>2. f[k + 1] = f[(k + 1) - 1] + Amount(o, {}, k + 1)
      BY <1>3, <2>1
  <2>3. f[k] = 0 /\ Amount(o, {}, k + 1) = 0
      BY <1>5, <2>1 DEF Amount
  <2> QED BY <2>1, <2>2, <2>3
<1>6. Nat \subseteq A
  <2> HIDE DEF A
  <2> QED BY <1>4, <1>5, NatInSet
<1> QED BY <1>1, <1>6 DEF SumOf, f, n

\* A counter modulo m goes on from the remainder as it would from the number.
LEMMA ModGoesOn ==
    ASSUME NEW m \in Nat \ {0}, NEW a \in Nat, NEW d \in Int, a + d \in Nat
    PROVE  ((a % m) + d) % m = (a + d) % m
<1> DEFINE q == a \div m
           r == a % m
           b == r + d
           p == b \div m
           s == b % m
<1>1. q \in Nat /\ r \in 0..(m - 1) /\ a = m * q + r
    OBVIOUS
<1>2. b \in Int
    BY <1>1
<1> HIDE DEF q, r, b
<1>3. p \in Int /\ s \in 0..(m - 1) /\ b = m * p + s
    BY <1>2
<1> HIDE DEF p, s
<1>4. m * (q + p) = m * q + m * p /\ m * q \in Int /\ m * p \in Int
    BY <1>1, <1>3
<1>5. a + d = m * (q + p) + s
  <2> DEFINE x == m * q
             y == m * p
             z == m * (q + p)
  <2>1. x \in Int /\ y \in Int /\ z = x + y /\ a = x + r /\ b = y + s /\ b = r + d /\ r \in Int /\ s \in Int
      BY <1>1, <1>3, <1>4 DEF b
  <2> HIDE DEF x, y, z
  <2>2. a + d = z + s
      BY <2>1
  <2> QED BY <2>2 DEF z
<1>6. (a + d) % m = s
  <2> DEFINE c == a + d
             e == q + p
  <2>1. c \in Nat /\ e \in Int /\ c = m * e + s
      BY <1>1, <1>3, <1>5
  <2> HIDE DEF c, e
  <2>2. c % m = s
      BY <1>3, <2>1
  <2> QED BY <2>2 DEF c
<1> QED BY <1>6 DEF b, r, s

-----------------------------------------------------------------------------
(***************************************************************************)
(* The totals of the levels.                                               *)
(***************************************************************************)
\* TotalQuantityTracksQueue, with the sums spelled out.
LEMMA TotalsSpelled ==
    TotalQuantityTracksQueue <=>
        \A side \in Sides : \A i \in DOMAIN levels[side] :
            levels[side][i].totalQuantity = SumOf(ord, OrdersAt(side, levels[side][i].price)) % Modulus
BY DEF TotalQuantityTracksQueue, QuantitySum, SumOf, Sums, Amount

\* The same, after a step.
LEMMA TotalsSpelledNext ==
    TotalQuantityTracksQueue' <=>
        \A side \in Sides : \A i \in DOMAIN levels'[side] :
            levels'[side][i].totalQuantity = SumOf(ord', OrdersAt(side, levels[side][i].price)') % Modulus
BY DEF TotalQuantityTracksQueue, QuantitySum, SumOf, Sums, Amount

\* The orders of a level keep their quantities: so does their sum.
LEMMA SumUnchanged ==
    ASSUME NEW o, NEW p, NEW S, \A k \in S : k \in Slots /\ o[k].quantity \in Nat /\ p[k].quantity = o[k].quantity
    PROVE  SumOf(p, S) = SumOf(o, S)
<1>1. 1 \in Slots
    BY CapacityAssumption DEF Slots
<1>2. SameBut(o, S, p, S, 1) /\ Amount(p, S, 1) = Amount(o, S, 1) /\ Amount(o, S, 1) \in Nat
    BY <1>1 DEF SameBut, Amount
<1>3. SumOf(o, S) \in Nat /\ SumOf(p, S) = SumOf(o, S) + Amount(p, S, 1) - Amount(o, S, 1)
    BY <1>1, <1>2, SumChanges
<1> QED BY <1>2, <1>3

\* A step that leaves the resting orders alone and at most drops levels.
LEMMA QuietKeeps ==
    ASSUME IInv, TotalQuantityTracksQueue, Resting' = Resting, \A s \in Resting : ord'[s] = ord[s],
           \A side \in Sides : \A j \in DOMAIN levels'[side] :
               \E k \in DOMAIN levels[side] : levels'[side][j] = levels[side][k]
    PROVE  TotalQuantityTracksQueue'
<1>1. \A sd, pr : OrdersAt(sd, pr)' = OrdersAt(sd, pr)
    BY DEF OrdersAt
<1>2. ASSUME NEW side \in Sides, NEW j \in DOMAIN levels'[side]
      PROVE  levels'[side][j].totalQuantity = SumOf(ord', OrdersAt(side, levels[side][j].price)') % Modulus
  <2>1. PICK k \in DOMAIN levels[side] : levels'[side][j] = levels[side][k]
      OBVIOUS
  <2> DEFINE S == OrdersAt(side, levels[side][k].price)
  <2>2. levels[side][k].totalQuantity = SumOf(ord, S) % Modulus
      BY TotalsSpelled
  <2>3. OrdersAt(side, levels[side][j].price)' = S
      BY <1>1, <2>1 DEF OrdersAt
  <2>4. \A s \in S : s \in Slots /\ ord[s].quantity \in Nat /\ ord'[s].quantity = ord[s].quantity
    <3>1. \A s \in S : s \in Resting
        BY DEF OrdersAt
    <3>2. \A s \in Resting : s \in Slots /\ ord[s] \in Order
        BY BookFacts
    <3> QED BY <3>1, <3>2 DEF Order
  <2> HIDE DEF S
  <2>5. SumOf(ord', S) = SumOf(ord, S)
      BY <2>4, SumUnchanged
  <2> QED BY <2>1, <2>2, <2>3, <2>5
<1> QED BY <1>2, TotalsSpelledNext

\* What a level loses or gains, in the level that step changes: the price is p, its
\* orders become T, and slot s is the only one whose quantity counts differently.
LEMMA TotalGoesOn ==
    ASSUME NEW o, NEW S, NEW p, NEW T, NEW s \in Slots, SameBut(o, S, p, T, s),
           NEW total, total = SumOf(o, S) % Modulus,
           NEW d \in Int, d = Amount(p, T, s) - Amount(o, S, s)
    PROVE  (total + d) % Modulus = SumOf(p, T) % Modulus
<1>1. SumOf(o, S) \in Nat /\ SumOf(p, T) = SumOf(o, S) + Amount(p, T, s) - Amount(o, S, s)
    BY SumChanges
<1>2. SumOf(p, T) \in Nat
  <2>1. SameBut(p, T, o, S, s)
      BY DEF SameBut
  <2> QED BY <2>1, SumChanges
<1>3. Amount(p, T, s) \in Nat /\ Amount(o, S, s) \in Nat
    BY DEF SameBut
<1> DEFINE a == SumOf(o, S)
           b == SumOf(p, T)
<1>4. a \in Nat /\ b \in Nat /\ a + d = b
    BY <1>1, <1>2, <1>3
<1> HIDE DEF a, b
<1>5. ((a % Modulus) + d) % Modulus = (a + d) % Modulus
    BY <1>4, ModulusAssumption, ModGoesOn
<1> QED BY <1>4, <1>5 DEF a, b

\* A step in which one order, s, comes, goes or shrinks, in the queue of this side and
\* price: that level's total, so far `total`, follows the order's quantity, by d, and
\* every other level stays, or is dropped.
OneOrderStep(side, price, s, total, d) ==
    /\ side \in Sides /\ s \in Slots /\ d \in Int
    /\ total = SumOf(ord, OrdersAt(side, price)) % Modulus
    /\ s \in Resting => ord[s].side = side /\ ord[s].price = price
    /\ s \in Resting' => ord'[s].side = side /\ ord'[s].price = price /\ ord'[s].quantity \in Nat
    /\ \A t \in Slots : t # s => (t \in Resting' <=> t \in Resting) /\ (t \in Resting => ord'[t] = ord[t])
    /\ d = (IF s \in Resting' THEN ord'[s].quantity ELSE 0) - (IF s \in Resting THEN ord[s].quantity ELSE 0)
    /\ \A sd \in Sides : \A j \in DOMAIN levels'[sd] :
          \/ sd = side /\ levels'[sd][j].price = price /\ levels'[sd][j].totalQuantity = (total + d) % Modulus
          \/ /\ sd # side \/ levels'[sd][j].price # price
             /\ \E k \in DOMAIN levels[sd] : levels'[sd][j] = levels[sd][k]

LEMMA OneOrderChanges ==
    ASSUME IInv, TotalQuantityTracksQueue, NEW side, NEW price, NEW s, NEW total, NEW d,
           OneOrderStep(side, price, s, total, d)
    PROVE  TotalQuantityTracksQueue'
<1> USE DEF OneOrderStep
<1> DEFINE After(sd, pr) == {t \in Resting' : ord'[t].side = sd /\ ord'[t].price = pr}
<1>1. /\ Resting \subseteq Slots /\ Resting' \subseteq Slots
      /\ \A t \in Slots : ord[t] \in Order /\ ord[t].quantity \in Nat
  <2>1. \A t \in Slots : ord[t] \in Order
      BY BookFacts
  <2> QED BY <2>1 DEF Resting, Order
<1>2. ASSUME NEW sd \in Sides, NEW j \in DOMAIN levels'[sd]
      PROVE  levels'[sd][j].totalQuantity = SumOf(ord', OrdersAt(sd, levels[sd][j].price)') % Modulus
  <2>1. OrdersAt(sd, levels[sd][j].price)' = After(sd, levels'[sd][j].price)
      BY DEF OrdersAt
  <2>2. CASE sd = side /\ levels'[sd][j].price = price /\ levels'[sd][j].totalQuantity = (total + d) % Modulus
    <3> DEFINE S == OrdersAt(side, price)
               T == After(side, price)
    <3>1. \A t \in Slots : t # s => (t \in T <=> t \in S) /\ (t \in S => ord'[t] = ord[t])
        BY DEF OrdersAt
    <3>2. (s \in S <=> s \in Resting) /\ (s \in T <=> s \in Resting')
        BY DEF OrdersAt
    <3> HIDE DEF S, T
    <3>3. SameBut(ord, S, ord', T, s)
        BY <1>1, <3>1, <3>2 DEF SameBut, Amount
    <3>4. d = Amount(ord', T, s) - Amount(ord, S, s)
        BY <3>2 DEF Amount
    <3>5. (total + d) % Modulus = SumOf(ord', T) % Modulus
        BY <3>3, <3>4, TotalGoesOn DEF S
    <3> QED BY <2>1, <2>2, <3>5 DEF T
  <2>3. CASE /\ sd # side \/ levels'[sd][j].price # price
             /\ \E k \in DOMAIN levels[sd] : levels'[sd][j] = levels[sd][k]
    <3>1. PICK k \in DOMAIN levels[sd] : levels'[sd][j] = levels[sd][k]
        BY <2>3
    <3> DEFINE S == OrdersAt(sd, levels[sd][k].price)
    <3>2. levels[sd][k].totalQuantity = SumOf(ord, S) % Modulus
        BY TotalsSpelled
    <3>3. After(sd, levels'[sd][j].price) = S
        BY <1>1, <2>3, <3>1 DEF OrdersAt
    <3>4. \A t \in S : t \in Slots /\ ord[t].quantity \in Nat /\ ord'[t].quantity = ord[t].quantity
        BY <1>1, <2>3, <3>1 DEF OrdersAt
    <3> HIDE DEF S
    <3>5. SumOf(ord', S) = SumOf(ord, S)
        BY <3>4, SumUnchanged
    <3> QED BY <2>1, <3>1, <3>2, <3>3, <3>5
  <2> QED BY <2>2, <2>3
<1> QED BY <1>2, TotalsSpelledNext

\* A round that trades takes what it fills from the total of the best level.
LEMMA FillKeepsTotals ==
    ASSUME IInv, TotalQuantityTracksQueue, MatchFill
    PROVE  TotalQuantityTracksQueue'
<1> DEFINE side == Opposite(Incoming.side)
           i    == call.numLevels
           pl   == Book[i]
           r    == pl.head
           qty  == Lesser(Incoming.quantity, ord[r].quantity)
           left == ord[r].quantity - qty
           filled == TakeQuantity(pl, qty)
           removed == RemoveOrder(heap, filled, r, left)
           after == IF left = 0 THEN removed.level ELSE filled
<1>1. call.pc = "match" /\ call.numLevels > 0
    BY DEF MatchFill, InLoop
<1>2. /\ call.order \in Slots /\ call.order \notin Resting
      /\ side \in Sides /\ Book = levels[side] /\ i \in DOMAIN levels[side] /\ pl \in PriceLevels
      /\ r \in Resting /\ r \in Slots /\ r # call.order /\ ord[r].side = side /\ ord[r].price = pl.price
    BY <1>1, InLoopFacts
<1>3. levels' = [levels EXCEPT ![side][i] = after]
    BY DEF MatchFill
<1>4. /\ qty \in Nat /\ left \in 0..(Modulus - 1) /\ ord'[r] = [ord[r] EXCEPT !.quantity = @ - qty]
      /\ \A s \in Slots : s # r /\ s # call.order => ord'[s] = ord[s]
    BY FillEffect
<1>5. Resting' = Resting \ Gone(r)
    BY FillKeeps
<1>6. ord[r] \in Order /\ levels \in [Sides -> Seq(PriceLevels)] /\ SortedLevels(levels[side], side)
    BY <1>2, BookFacts DEF IInv, StructuresIntact, OrderBookTypeOK
<1> HIDE DEF r, pl
<1>7. ord'[r].quantity = left /\ ord'[r].side = side /\ ord'[r].price = pl.price
    BY <1>2, <1>4, <1>6 DEF Order, left
<1>8. /\ pl.totalQuantity \in 0..(Modulus - 1) /\ filled \in PriceLevels
      /\ filled.price = pl.price /\ filled.totalQuantity = (pl.totalQuantity - qty) % Modulus
  <2>1. pl.totalQuantity \in 0..(Modulus - 1) /\ (pl.totalQuantity - qty) % Modulus \in 0..(Modulus - 1)
      BY <1>2, <1>4, ModulusAssumption DEF PriceLevels
  <2> QED BY <1>2, <2>1 DEF TakeQuantity, PriceLevels
<1>9. after \in PriceLevels /\ after.price = pl.price /\ after.totalQuantity = (pl.totalQuantity - qty) % Modulus
  <2> HIDE DEF filled, left
  <2>1. left \in Nat /\ heap \in Heap
      BY <1>4, BookFacts
  <2>2. removed.level \in PriceLevels /\ removed.level.price = filled.price
      BY <1>2, <1>8, <2>1, RemoveFields
  <2>3. removed.level.totalQuantity = (filled.totalQuantity - left) % Modulus
      BY <1>8 DEF RemoveOrder, PriceLevels
  <2> HIDE DEF removed
  <2>4. left = 0 => removed.level.totalQuantity = filled.totalQuantity
    <3>1. filled.totalQuantity \in 0..(Modulus - 1)
        BY <1>8 DEF PriceLevels
    <3>2. \A x \in 0..(Modulus - 1) : (x - 0) % Modulus = x
        BY ModulusAssumption
    <3> QED BY <2>3, <3>1, <3>2
  <2> QED BY <1>8, <2>2, <2>4
<1> HIDE DEF after
<1>10. \A sd \in Sides :
           /\ DOMAIN levels'[sd] = DOMAIN levels[sd]
           /\ \A j \in DOMAIN levels[sd] :
                 levels'[sd][j] = IF sd = side /\ j = i THEN after ELSE levels[sd][j]
  <2>1. pl = levels[side][i]
      BY <1>2 DEF pl
  <2> QED BY <1>2, <1>3, <1>6, <1>9, <2>1, LevelStored
<1>11. pl = levels[side][i] /\ pl.totalQuantity = SumOf(ord, OrdersAt(side, pl.price)) % Modulus
  <2>1. pl = levels[side][i]
      BY <1>2 DEF pl
  <2> QED BY <1>2, <2>1, TotalsSpelled
<1>12. \A j \in DOMAIN levels[side] : j # i => levels[side][j].price # pl.price
  <2>1. pl = levels[side][i] /\ pl.price \in Prices
      BY <1>2, <1>11 DEF PriceLevels
  <2> QED BY <1>2, <1>6, <2>1, LevelFound
<1>13. (r \in Resting' <=> left # 0) /\ \A s \in Slots : s # r => (s \in Resting' <=> s \in Resting)
    BY <1>2, <1>5, <1>7 DEF Gone
<1>14. - qty \in Int /\ - qty = (IF r \in Resting' THEN ord'[r].quantity ELSE 0) - ord[r].quantity
  <2>1. ord[r].quantity \in Nat
      BY <1>6 DEF Order
  <2> QED BY <1>4, <1>7, <1>13, <2>1
<1>15. after.totalQuantity = (pl.totalQuantity + (- qty)) % Modulus
    BY <1>4, <1>8, <1>9
<1> HIDE DEF side, qty, left, i
<1>16. \A sd \in Sides : \A j \in DOMAIN levels'[sd] :
           \/ sd = side /\ levels'[sd][j].price = pl.price
              /\ levels'[sd][j].totalQuantity = (pl.totalQuantity + (- qty)) % Modulus
           \/ /\ sd # side \/ levels'[sd][j].price # pl.price
              /\ \E k \in DOMAIN levels[sd] : levels'[sd][j] = levels[sd][k]
    BY <1>9, <1>10, <1>12, <1>15
<1>17. \A t \in Slots : t # r => (t \in Resting' <=> t \in Resting) /\ (t \in Resting => ord'[t] = ord[t])
    BY <1>2, <1>4, <1>13
<1>18. r \in Resting' => ord'[r].side = side /\ ord'[r].price = pl.price /\ ord'[r].quantity \in Nat
    BY <1>4, <1>7
<1>19. OneOrderStep(side, pl.price, r, pl.totalQuantity, - qty)
    BY <1>2, <1>11, <1>14, <1>16, <1>17, <1>18 DEF OneOrderStep
<1> QED BY <1>19, OneOrderChanges
\* The level an order comes to rest in has the total of the orders before it.
LEMMA FoundOrCreatedTotal ==
    ASSUME IInv, TotalQuantityTracksQueue, call.pc # "match", NEW side \in Sides, NEW price \in Prices
    PROVE  FindOrCreateLevel(side, price)[FindLevel(side, price)].totalQuantity
             = SumOf(ord, OrdersAt(side, price)) % Modulus
<1> DEFINE i    == FindLevel(side, price)
           book == FindOrCreateLevel(side, price)
           v    == levels[side]
           S    == OrdersAt(side, price)
<1>1. CASE HasLevel(side, price)
  <2>1. book = v /\ i \in DOMAIN v /\ v[i].price = price
      BY <1>1 DEF FindOrCreateLevel, HasLevel
  <2> HIDE DEF i, book
  <2>2. v[i].totalQuantity = SumOf(ord, OrdersAt(side, v[i].price)) % Modulus
      BY <2>1, TotalsSpelled
  <2> QED BY <2>1, <2>2 DEF i, book
<1>2. CASE ~HasLevel(side, price)
  <2> DEFINE new == PriceLevelOf(price)
  <2>1. book = InsertAt(v, i, new)
      BY <1>2 DEF FindOrCreateLevel
  <2>2. new \in PriceLevels /\ new.head = Null /\ new.totalQuantity = 0
      BY ModulusAssumption DEF PriceLevelOf, PriceLevels, Ptr
  <2>3. SortedLevels(v, side) /\ v \in Seq(PriceLevels)
      BY BookFacts DEF SortedLevels
  <2>4. i \in 1..(Len(v) + 1)
    <3>1. i = Position(v, side, price)
        BY DEF FindLevel, Position
    <3> HIDE DEF i
    <3> QED BY <2>3, <3>1, PositionExact
  <2>5. WellLinked(heap, book[i], S, Arrival)
      BY <1>2, LevelFoundOrCreated
  <2> HIDE DEF i, book, new
  <2>6. book[i] = new
      BY <2>1, <2>2, <2>3, <2>4, InsertAtEntries
  <2>7. S = {}
    <3>1. Null \notin S
        BY SlotsNotNull DEF OrdersAt, Resting
    <3> QED BY <2>2, <2>5, <2>6, <3>1 DEF WellLinked, IsFirst
  <2>8. 0 % Modulus = 0
      BY ModulusAssumption
  <2> QED BY <2>2, <2>6, <2>7, <2>8, SumOfNone DEF i, book
<1> QED BY <1>1, <1>2

\* addToTail adds the order's quantity to the total of its level.
LEMMA RestKeepsTotals ==
    ASSUME IInv, TotalQuantityTracksQueue, RestOrder
    PROVE  TotalQuantityTracksQueue'
<1> DEFINE side  == Incoming.side
           price == Incoming.price
           o     == call.order
           q     == Incoming.quantity
           i     == FindLevel(side, price)
           book  == FindOrCreateLevel(side, price)
           added == AddToTail(heap, book[i], o, q)
           w     == [book EXCEPT ![i] = added.level]
           total == book[i].totalQuantity
<1>1. call.pc = "rest" /\ levels' = [levels EXCEPT ![side] = w] /\ ord' = ord
    BY DEF RestOrder
<1>2. Resting' = Resting \cup {o} /\ InFlight = {o}
    BY RestKeeps
<1>3. o \in Slots /\ o \notin Resting /\ Incoming = ord[o] /\ Incoming \in Order
    BY <1>2, BookFacts DEF Incoming
<1>4. side \in Sides /\ price \in Prices /\ q \in Nat
    BY <1>2, <1>3, BookFacts DEF IInv, ArrivalOK, Order
<1>5. /\ SortedLevels(book, side) /\ i \in DOMAIN book /\ book[i] \in PriceLevels /\ book[i].price = price
      /\ \A j \in DOMAIN book : j # i =>
            book[j].price # price /\ \E k \in DOMAIN levels[side] : book[j] = levels[side][k]
    BY SMTT(60), <1>1, <1>4, LevelFoundOrCreated
<1>6. total = SumOf(ord, OrdersAt(side, price)) % Modulus
    BY <1>1, <1>4, FoundOrCreatedTotal
<1> HIDE DEF book, i
<1>7. added.level.price = price /\ added.level.totalQuantity = (total + q) % Modulus
    BY <1>5 DEF AddToTail, PriceLevels
<1> HIDE DEF added
<1>8. DOMAIN w = DOMAIN book /\ w[i] = added.level /\ \A j \in DOMAIN book : j # i => w[j] = book[j]
    BY <1>5 DEF SortedLevels
<1> HIDE DEF w
<1>9. levels \in [Sides -> Seq(PriceLevels)]
    BY DEF IInv, StructuresIntact, OrderBookTypeOK
<1>10. ord[o].side = side /\ ord[o].price = price /\ ord[o].quantity = q
    BY <1>3
<1> HIDE DEF side, price, o, q, total
<1>11. \A sd \in Sides : \A j \in DOMAIN levels'[sd] :
           \/ sd = side /\ levels'[sd][j].price = price /\ levels'[sd][j].totalQuantity = (total + q) % Modulus
           \/ /\ sd # side \/ levels'[sd][j].price # price
              /\ \E k \in DOMAIN levels[sd] : levels'[sd][j] = levels[sd][k]
  <2>1. \A sd \in Sides : levels'[sd] = IF sd = side THEN w ELSE levels[sd]
      BY <1>1, <1>4, <1>9
  <2> QED BY <1>5, <1>7, <1>8, <2>1
<1>12. q = (IF o \in Resting' THEN ord'[o].quantity ELSE 0) - (IF o \in Resting THEN ord[o].quantity ELSE 0)
    BY <1>1, <1>2, <1>3, <1>4, <1>10
<1>13. o \in Resting' => ord'[o].side = side /\ ord'[o].price = price /\ ord'[o].quantity \in Nat
    BY <1>1, <1>4, <1>10
<1>14. \A t \in Slots : t # o => (t \in Resting' <=> t \in Resting) /\ (t \in Resting => ord'[t] = ord[t])
    BY <1>1, <1>2
<1>15. q \in Int /\ (o \in Resting => ord[o].side = side /\ ord[o].price = price)
    BY <1>3, <1>4
<1>16. OneOrderStep(side, price, o, total, q)
    BY <1>3, <1>4, <1>6, <1>11, <1>12, <1>13, <1>14, <1>15 DEF OneOrderStep
<1> QED BY <1>16, OneOrderChanges

\* cancelOrder takes the order's quantity from the total of its level.
LEMMA CancelKeepsTotals ==
    ASSUME IInv, TotalQuantityTracksQueue, NEW id \in Ids, CancelOrder(id)
    PROVE  TotalQuantityTracksQueue'
<1> DEFINE o    == orderIndex[id]
           side == ord[o].side
           price == ord[o].price
           q    == ord[o].quantity
           i    == FindLevel(side, price)
           v    == levels[side]
           removed == RemoveOrder(heap, v[i], o, q)
           w    == StoreLevel(v, i, removed.level)
           total == v[i].totalQuantity
<1>1. call.pc = "idle" /\ id \in DOMAIN orderIndex /\ levels' = [levels EXCEPT ![side] = w] /\ ord' = ord
    BY DEF CancelOrder
<1>2. Resting' = Resting \ {o}
    BY CancelKeeps
<1>3. o \in Resting
  <2>1. IndexExact
      BY DEF IInv, StructuresIntact
  <2> QED BY <1>1, <2>1 DEF IndexExact
<1>4. o \in Slots /\ ord[o] \in Order /\ heap \in Heap
    BY <1>3, BookFacts
<1>5. side \in Sides /\ price \in Prices /\ q \in Nat /\ SortedLevels(v, side)
    BY <1>3, <1>4, BookFacts DEF IInv, ArrivalOK, Order
<1>6. i \in DOMAIN v /\ v[i].price = price
  <2>1. PICK k \in DOMAIN v : v[k].price = price
      BY <1>3 DEF IInv, StructuresIntact, SlotsAccountedFor
  <2>2. i = k
      BY <1>5, <2>1, LevelFound
  <2> QED BY <2>1, <2>2
<1>7. \A j \in DOMAIN v : j # i => v[j].price # price
    BY <1>5, LevelFound
<1> HIDE DEF i
<1>8. total = SumOf(ord, OrdersAt(side, price)) % Modulus /\ v[i] \in PriceLevels /\ total \in Nat
  <2>1. total = SumOf(ord, OrdersAt(side, price)) % Modulus /\ v[i] \in PriceLevels
      BY <1>5, <1>6, TotalsSpelled, BookFacts
  <2> QED BY <2>1 DEF PriceLevels
<1>9. removed.level \in PriceLevels /\ removed.level.price = price
    BY <1>4, <1>5, <1>6, <1>8, RemoveFields
<1>10. removed.level.totalQuantity = (total + (- q)) % Modulus
  <2>1. removed.level.totalQuantity = (total - q) % Modulus
      BY <1>8 DEF RemoveOrder, PriceLevels
  <2> QED BY <1>5, <1>8, <2>1
<1> HIDE DEF removed
<1>11. \A j \in DOMAIN w : w[j] = removed.level \/ \E k \in DOMAIN v : k # i /\ w[j] = v[k]
    BY <1>5, <1>6, <1>9, StoredLevel
<1> HIDE DEF w
<1>12. levels \in [Sides -> Seq(PriceLevels)]
    BY DEF IInv, StructuresIntact, OrderBookTypeOK
<1>13. \A sd \in Sides : levels'[sd] = IF sd = side THEN w ELSE levels[sd]
    BY <1>1, <1>5, <1>12
<1> HIDE DEF side, price, o, q, total
<1>14. \A sd \in Sides : \A j \in DOMAIN levels'[sd] :
           \/ sd = side /\ levels'[sd][j].price = price /\ levels'[sd][j].totalQuantity = (total + (- q)) % Modulus
           \/ /\ sd # side \/ levels'[sd][j].price # price
              /\ \E k \in DOMAIN levels[sd] : levels'[sd][j] = levels[sd][k]
    BY <1>7, <1>9, <1>10, <1>11, <1>13
<1>15. - q \in Int /\ - q = (IF o \in Resting' THEN ord'[o].quantity ELSE 0)
                             - (IF o \in Resting THEN ord[o].quantity ELSE 0)
  <2>1. o \in Resting /\ o \notin Resting' /\ ord[o].quantity = q
      BY <1>2, <1>3 DEF q
  <2> QED BY <1>5, <2>1
<1>16. \A t \in Slots : t # o => (t \in Resting' <=> t \in Resting) /\ (t \in Resting => ord'[t] = ord[t])
    BY <1>1, <1>2
<1>17. /\ o \in Resting => ord[o].side = side /\ ord[o].price = price
       /\ o \in Resting' => ord'[o].side = side /\ ord'[o].price = price /\ ord'[o].quantity \in Nat
    BY <1>2 DEF side, price
<1>18. OneOrderStep(side, price, o, total, - q)
    BY <1>4, <1>5, <1>8, <1>14, <1>15, <1>16, <1>17 DEF OneOrderStep
<1> QED BY <1>18, OneOrderChanges
\* The steps that leave the resting orders and their levels as they are.
LEMMA OthersKeepTotals ==
    ASSUME IInv, TotalQuantityTracksQueue, levels' = levels, Resting' = Resting,
           \A s \in Resting : ord'[s] = ord[s]
    PROVE  TotalQuantityTracksQueue'
BY QuietKeeps

\* resize drops levels and changes none.
LEMMA DoneKeepsTotals ==
    ASSUME IInv, TotalQuantityTracksQueue, MatchDone
    PROVE  TotalQuantityTracksQueue'
<1> DEFINE side == Opposite(Incoming.side)
           n    == call.numLevels
           kept == SubSeq(levels[side], 1, n)
<1>1. call.pc = "match" /\ levels' = [levels EXCEPT ![side] = kept]
    BY DEF MatchDone, Resize
<1>2. Resting' = Resting /\ ord' = ord
    BY DoneKeeps
<1>3. side \in Sides /\ Book = levels[side]
    BY DEF Opposite, Sides, Book
<1>4. /\ levels \in [Sides -> Seq(PriceLevels)] /\ n \in 0..Len(levels[side]) /\ Len(levels[side]) \in Nat
      /\ DOMAIN levels[side] = 1..Len(levels[side])
    BY <1>1, <1>3, BookFacts DEF IInv, StructuresIntact, OrderBookTypeOK, CallOK
<1>5. DOMAIN kept = 1..n /\ \A j \in 1..n : kept[j] = levels[side][j]
    BY <1>3, <1>4
<1> HIDE DEF side, kept, n
<1>6. \A sd \in Sides : levels'[sd] = IF sd = side THEN kept ELSE levels[sd]
    BY <1>1, <1>3, <1>4
<1>7. \A sd \in Sides : \A j \in DOMAIN levels'[sd] :
          \E k \in DOMAIN levels[sd] : levels'[sd][j] = levels[sd][k]
    BY <1>4, <1>5, <1>6
<1> QED BY <1>2, <1>7, QuietKeeps

\* Every step keeps the totals.
LEMMA TotalsKept ==
    ASSUME IInv, TotalQuantityTracksQueue, [OrderBookNext]_vars
    PROVE  TotalQuantityTracksQueue'
<1>1. CASE \E side \in Sides, price \in Prices, quantity \in Quantities, id \in Ids, p \in Participants :
               AddLimitOrder(side, price, quantity, id, p)
  <2>1. PICK side \in Sides, price \in Prices, quantity \in Quantities, id \in Ids, p \in Participants :
            AddLimitOrder(side, price, quantity, id, p)
      BY <1>1
  <2>2. levels' = levels
      BY <2>1 DEF AddLimitOrder
  <2>3. Resting' = Resting /\ \A s \in Resting : ord'[s] = ord[s]
      BY <2>1, AddKeeps
  <2> QED BY <2>2, <2>3, OthersKeepTotals
<1>2. CASE MatchFill
    BY <1>2, FillKeepsTotals
<1>3. CASE MatchSelf
  <2>1. Resting' = Resting /\ \A s \in Resting : ord'[s] = ord[s]
      BY <1>3, SelfKeeps DEF Resting
  <2> QED BY <1>3, <2>1, OthersKeepTotals DEF MatchSelf
<1>4. CASE MatchDone
    BY <1>4, DoneKeepsTotals
<1>5. CASE RestOrder
    BY <1>5, RestKeepsTotals
<1>6. CASE RestAborts
    BY <1>6, AbortKeeps, OthersKeepTotals DEF RestAborts
<1>7. CASE DropOrder
    BY <1>7, DropKeeps, OthersKeepTotals DEF DropOrder
<1>8. CASE UNCHANGED vars \/ \E id \in Ids : CancelUnknown(id)
  <2>1. UNCHANGED <<heap, ord, levels, call>>
      BY <1>8 DEF CancelUnknown, vars
  <2> QED BY <2>1, OthersKeepTotals DEF Resting, InFlight
<1>9. CASE \E id \in Ids : CancelOrder(id)
    BY <1>9, CancelKeepsTotals
<1> QED BY <1>1, <1>2, <1>3, <1>4, <1>5, <1>6, <1>7, <1>8, <1>9 DEF OrderBookNext

\* After any sequence of calls, of any length, the total quantity of every level is the sum
\* of its orders' quantities modulo the width of the counter, so it is exact again
\* as soon as the sum fits.
THEOREM TotalQuantityStaysExact == OrderBookSpec => []TotalQuantityTracksQueue
<1>1. OrderBookInit => TotalQuantityTracksQueue
  <2> SUFFICES ASSUME OrderBookInit PROVE TotalQuantityTracksQueue
      OBVIOUS
  <2>1. \A side \in Sides : levels[side] = <<>>
      BY DEF OrderBookInit
  <2>2. \A side \in Sides : DOMAIN levels[side] = {}
      BY <2>1
  <2> QED BY <2>2, TotalsSpelled
<1>2. IInv /\ TotalQuantityTracksQueue /\ [OrderBookNext]_vars => TotalQuantityTracksQueue'
    BY TotalsKept
<1> QED BY <1>1, <1>2, BookInvariant, PTL DEF OrderBookSpec
=============================================================================
