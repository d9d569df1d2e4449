------------------------------ MODULE OrderPool ------------------------------
(***************************************************************************)
(* The fixed-size pool of Order objects behind an order book               *)
(* (include/order_pool.h, src/order_pool.cpp).                             *)
(*                                                                         *)
(* The pool threads its free list through the same `next` pointer that a   *)
(* price level uses to queue resting orders, so an order is safe only as   *)
(* long as nobody writes the links of an order that has been given back.   *)
(* Addresses are slot numbers 1..Capacity and Null is the null pointer.    *)
(***************************************************************************)
EXTENDS Integers, FiniteSets

CONSTANT Capacity      \* number of Order objects in the array orders_

ASSUME CapacityAssumption == Capacity \in Nat \ {0}

Slots == 1..Capacity
Null  == 0
Ptr   == Slots \cup {Null}

VARIABLE heap          \* the link fields of the orders and the pool's members

(***************************************************************************)
(* The members as one record, so that the book can run several pool and    *)
(* list operations in one step.                                            *)
(***************************************************************************)
Heap == [next        : [Slots -> Ptr],       \* Order::next
         prev        : [Slots -> Ptr],       \* Order::prev
         freeList    : Ptr,
         freeCount   : 0..Capacity,
         isAllocated : [Slots -> BOOLEAN]]

\* The constructor chains the array in address order.
HeapInit ==
    [next        |-> [s \in Slots |-> IF s < Capacity THEN s + 1 ELSE Null],
     prev        |-> [s \in Slots |-> Null],
     freeList    |-> 1,
     freeCount   |-> Capacity,
     isAllocated |-> [s \in Slots |-> FALSE]]

\* The two assertions that open allocate().
CanAllocate(h) == h.freeList # Null /\ h.freeCount > 0

\* An allocate() that does not count the order it hands out.
Mut_Allocate(h) ==
    [h EXCEPT !.next[h.freeList] = Null, !.prev[h.freeList] = Null,
              !.freeList = h.next[h.freeList], !.isAllocated[h.freeList] = TRUE]

\* allocate(): pops the head of the free list, h.freeList, and clears its links.
Allocate(h) ==
    LET o == h.freeList IN
    [next        |-> [h.next EXCEPT ![o] = Null],
     prev        |-> [h.prev EXCEPT ![o] = Null],
     freeList    |-> h.next[o],
     freeCount   |-> h.freeCount - 1,
     isAllocated |-> [h.isAllocated EXCEPT ![o] = TRUE]]

\* The assertions of deallocate(o): room on the free list, no double free.
CanDeallocate(h, o) == o \in Slots /\ h.freeCount < Capacity /\ h.isAllocated[o]

\* A deallocate() that forgets to chain the order to the old free list.
Mut_Deallocate(h, o) ==
    [h EXCEPT !.isAllocated[o] = FALSE, !.freeList = o, !.freeCount = @ + 1]

\* deallocate(o): pushes o on the free list; o's prev keeps its old value.
Deallocate(h, o) ==
    [next        |-> [h.next EXCEPT ![o] = h.freeList],
     prev        |-> h.prev,
     freeList    |-> o,
     freeCount   |-> h.freeCount + 1,
     isAllocated |-> [h.isAllocated EXCEPT ![o] = FALSE]]

-----------------------------------------------------------------------------
(***************************************************************************)
(* The pool on its own, with the least its users promise: they deallocate  *)
(* what they hold, and otherwise write only the links of orders they hold. *)
(***************************************************************************)
Init == heap = HeapInit

AllocateOrder == CanAllocate(heap) /\ heap' = Allocate(heap)

DeallocateOrder(o) == heap.isAllocated[o] /\ heap' = Deallocate(heap, o)

\* A price level relinks an order that is in use (PriceLevel::addToTail/remove).
RelinkOrder(o, n, p) ==
    /\ heap.isAllocated[o]
    /\ heap' = [heap EXCEPT !.next[o] = n, !.prev[o] = p]

Next == \/ AllocateOrder
        \/ \E o \in Slots : DeallocateOrder(o)
        \/ \E o \in Slots, n, p \in Ptr : RelinkOrder(o, n, p)

Spec == Init /\ [][Next]_heap

-----------------------------------------------------------------------------
\* The members stay in range.
TypeOK == heap \in Heap

\* Following `next` from freeList_ visits exactly the slots that are not
\* allocated, each once, in freeCount_ steps, and ends at the null pointer: no
\* order in use can be handed out again, none is lost and the chain has no cycle.
FreeListIntact ==
    \E s \in [1..heap.freeCount -> Slots] :
        /\ \A i, j \in 1..heap.freeCount : s[i] = s[j] => i = j
        /\ \A o \in Slots : heap.isAllocated[o] <=> \A i \in 1..heap.freeCount : s[i] # o
        /\ heap.freeList = IF heap.freeCount = 0 THEN Null ELSE s[1]
        /\ \A i \in 1..heap.freeCount :
              heap.next[s[i]] = IF i = heap.freeCount THEN Null ELSE s[i + 1]

\* The assertions of deallocate() hold for every order in use, and the two
\* assertions of allocate() agree: the list is empty exactly when the count is 0.
AssertionsHold ==
    /\ \A o \in Slots : heap.isAllocated[o] => CanDeallocate(heap, o)
    /\ (heap.freeList = Null) <=> (heap.freeCount = 0)
=============================================================================
