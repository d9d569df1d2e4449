------------------------------ MODULE PriceLevel -----------------------------
(***************************************************************************)
(* A price level: the intrusive doubly linked FIFO queue of the orders     *)
(* resting at one price (include/price_level.h, src/price_level.cpp). The  *)
(* operations take the heap and the level and return both, changed.        *)
(***************************************************************************)
EXTENDS OrderPool, Sequences

CONSTANT Modulus       \* 2^32: the width of Order::quantity and totalQuantity

ASSUME ModulusAssumption == Modulus \in Nat \ {0}

PriceLevelOf(price) == [price |-> price, totalQuantity |-> 0, head |-> Null, tail |-> Null]

IsEmpty(pl) == pl.head = Null

\* addToTail(o) with an unbounded total.
Mut_AddToTail(h, pl, o, quantity) ==
    LET linked == [h EXCEPT !.next[o] = Null, !.prev[o] = pl.tail]
    IN [heap  |-> IF IsEmpty(pl) THEN linked ELSE [linked EXCEPT !.next[pl.tail] = o],
        level |-> [pl EXCEPT !.head = IF IsEmpty(pl) THEN o ELSE @,
                             !.tail = o,
                             !.totalQuantity = @ + quantity]]

\* addToTail(o), where quantity is o->quantity.
AddToTail(h, pl, o, quantity) ==
    LET linked == [h EXCEPT !.next[o] = Null, !.prev[o] = pl.tail]
    IN [heap  |-> IF IsEmpty(pl) THEN linked ELSE [linked EXCEPT !.next[pl.tail] = o],
        level |-> [pl EXCEPT !.head = IF IsEmpty(pl) THEN o ELSE @,
                             !.tail = o,
                             !.totalQuantity = (@ + quantity) % Modulus]]

\* remove(o) that forgets the back link of o's successor.
Mut_RemoveOrder(h, pl, o, quantity) ==
    LET n == h.next[o]
        p == h.prev[o]
    IN [heap  |-> [h EXCEPT !.next = [s \in Slots |-> IF s = o THEN Null ELSE IF s = p THEN n ELSE @[s]],
                            !.prev[o] = Null],
        level |-> [pl EXCEPT !.head = IF p = Null THEN n ELSE @,
                             !.tail = IF n = Null THEN p ELSE @,
                             !.totalQuantity = (@ - quantity) % Modulus]]

\* remove(o), where quantity is o->quantity.
RemoveOrder(h, pl, o, quantity) ==
    LET n == h.next[o]
        p == h.prev[o]
    IN [heap  |-> [h EXCEPT !.next = [s \in Slots |-> IF s = o THEN Null ELSE IF s = p THEN n ELSE @[s]],
                            !.prev = [s \in Slots |-> IF s = o THEN Null ELSE IF s = n THEN p ELSE @[s]]],
        level |-> [pl EXCEPT !.head = IF p = Null THEN n ELSE @,
                             !.tail = IF n = Null THEN p ELSE @,
                             !.totalQuantity = (@ - quantity) % Modulus]]

\* x is the earliest, or the latest, order of S by arrival; Null when S is empty.
IsFirst(x, S, arrival) == IF S = {} THEN x = Null ELSE x \in S /\ \A s \in S : arrival[x] <= arrival[s]
IsLast(x, S, arrival)  == IF S = {} THEN x = Null ELSE x \in S /\ \A s \in S : arrival[s] <= arrival[x]

\* The list runs through exactly the orders S in order of arrival, in both
\* directions: no cycle, shared node or dangling link.
WellLinked(h, pl, S, arrival) ==
    /\ IsFirst(pl.head, S, arrival) /\ IsLast(pl.tail, S, arrival)
    /\ \A s \in S : /\ IsFirst(h.next[s], {t \in S : arrival[s] < arrival[t]}, arrival)
                    /\ IsLast(h.prev[s], {t \in S : arrival[t] < arrival[s]}, arrival)
=============================================================================
