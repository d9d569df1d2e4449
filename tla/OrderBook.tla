------------------------------ MODULE OrderBook ------------------------------
(***************************************************************************)
(* The matching engine (include/order_book.h) with the data structures it  *)
(* really uses: orders in pool slots, linked into the queue of their price *)
(* level, levels in two vectors sorted so that the best one is at the      *)
(* back, and an index from order id to slot.                               *)
(*                                                                         *)
(* addLimitOrder runs as several steps, one per round of the match loop,   *)
(* because each round calls back into the venue while the levels it has    *)
(* emptied are still in the vector. Nothing else runs in between.          *)
(* matchBuy and matchSell are the same code with the comparisons mirrored  *)
(* and are one set of actions over `side`.                                 *)
(***************************************************************************)
EXTENDS PriceLevel, SequencesExt

CONSTANTS Participants, Prices, Quantities,
          MaxPriceLevels,   \* kDefaultMaxPriceLevels, the reserved vector capacity
          MaxSequence       \* bound: orders submitted in one behaviour

ASSUME OrderBookAssumption ==
    /\ Prices \subseteq Nat
    /\ Quantities \subseteq 1..(Modulus - 1)
    /\ MaxPriceLevels \in Nat /\ MaxSequence \in Nat

VARIABLES ord,          \* the fields Order::init sets, by slot
          levels,       \* bids_ (ascending price) and asks_ (descending price)
          orderIndex,   \* orderIndex_: live resting order id -> slot
          sequence,     \* sequence_
          call,         \* the addLimitOrder in progress and its locals
          trade         \* argument of the last trade callback

vars == <<heap, ord, levels, orderIndex, sequence, call, trade>>

Sides == {"Buy", "Sell"}
Lesser(a, b) == IF a < b THEN a ELSE b
Opposite(side) == IF side = "Buy" THEN "Sell" ELSE "Buy"
NoTrade == [buyOrderId |-> 0, sellOrderId |-> 0, price |-> 0, quantity |-> 0]
Unused  == [orderId |-> 0, price |-> 0, quantity |-> 0, sequence |-> 0, participantId |-> 0, side |-> "Buy"]

\* pc: "idle"; "match" in matchBuy/matchSell; "rest" after it; "aborted" by assert.
Ids  == 1..MaxSequence
Idle == [pc |-> "idle", order |-> Null, numLevels |-> 0]

OrderBookInit ==
    /\ heap = HeapInit
    /\ ord = [s \in Slots |-> Unused]
    /\ levels = [side \in Sides |-> <<>>]
    /\ orderIndex = [i \in {} |-> Null]
    /\ sequence = 0
    /\ call = Idle
    /\ trade = NoTrade

-----------------------------------------------------------------------------
\* The comparison of addLimitOrder and of the match loop.
Crosses(side, price, restingPrice) ==
    IF side = "Buy" THEN price >= restingPrice ELSE price <= restingPrice

\* The bids' comparator used for both sides.
Mut_SortsBefore(side, levelPrice, price) == levelPrice < price

\* The comparators of findBidLevel and findAskLevel.
SortsBefore(side, levelPrice, price) ==
    IF side = "Buy" THEN levelPrice < price ELSE levelPrice > price

\* findBidLevel / findAskLevel: std::lower_bound, as a 1-based position.
FindLevel(side, price) ==
    1 + Cardinality({i \in DOMAIN levels[side] : SortsBefore(side, levels[side][i].price, price)})

HasLevel(side, price) ==
    LET i == FindLevel(side, price)
    IN i \in DOMAIN levels[side] /\ levels[side][i].price = price

\* findOrCreateBidLevel / findOrCreateAskLevel.
FindOrCreateLevel(side, price) ==
    IF HasLevel(side, price) THEN levels[side]
    ELSE InsertAt(levels[side], FindLevel(side, price), PriceLevelOf(price))

\* The assertion of findOrCreate: the insertion must not outgrow the vector.
LevelFits(side, price) == HasLevel(side, price) \/ Len(levels[side]) < MaxPriceLevels

-----------------------------------------------------------------------------
\* addLimitOrder up to the match loop. The caller keeps the pool from running
\* out and numbers its orders 1, 2, ... (Venue::nextEngineId_).
AddLimitOrder(side, price, quantity, id, participantId) ==
    /\ call.pc = "idle"
    /\ CanAllocate(heap)
    /\ id = sequence + 1
    /\ LET o    == heap.freeList
           book == levels[Opposite(side)]
       IN /\ heap' = Allocate(heap)
          /\ ord' = [ord EXCEPT ![o] = [orderId |-> id, price |-> price, quantity |-> quantity,
                                        sequence |-> sequence, participantId |-> participantId,
                                        side |-> side]]
          /\ call' = [pc |-> IF book # <<>> /\ Crosses(side, price, Last(book).price)
                             THEN "match" ELSE "rest",
                      order |-> o, numLevels |-> Len(book)]
    /\ sequence' = sequence + 1
    /\ UNCHANGED <<levels, orderIndex, trade>>

Incoming == ord[call.order]
Book     == levels[Opposite(Incoming.side)]

\* A loop that goes on with a spent order.
Mut_InLoop ==
    /\ call.pc = "match"
    /\ call.numLevels > 0
    /\ Crosses(Incoming.side, Incoming.price, Book[call.numLevels].price)

\* The loop condition of matchBuy/matchSell with the price test that opens its body.
InLoop ==
    /\ call.pc = "match"
    /\ Incoming.quantity > 0
    /\ call.numLevels > 0
    /\ Crosses(Incoming.side, Incoming.price, Book[call.numLevels].price)

\* A fill that leaves the level's total alone.
Mut_TakeQuantity(pl, fillQty) == pl

\* level.totalQuantity -= fillQty.
TakeQuantity(pl, fillQty) == [pl EXCEPT !.totalQuantity = (@ - fillQty) % Modulus]

\* Keeps the id of an order that left the book.
Mut_Unindexed(id) == orderIndex

\* orderIndex_.erase(id).
Unindexed(id) == Restrict(orderIndex, DOMAIN orderIndex \ {id})

\* A round that trades with the head of the best level.
MatchFill ==
    /\ InLoop
    /\ LET pl      == Book[call.numLevels]
           resting == pl.head
           fillQty == Lesser(Incoming.quantity, ord[resting].quantity)
           left    == ord[resting].quantity - fillQty
           filled  == TakeQuantity(pl, fillQty)
           removed == RemoveOrder(heap, filled, resting, left)
           after   == IF left = 0 THEN removed.level ELSE filled
       IN /\ ord[resting].participantId # Incoming.participantId
          /\ ord' = [ord EXCEPT ![call.order].quantity = @ - fillQty, ![resting].quantity = left]
          /\ trade' = [buyOrderId  |-> ord[IF Incoming.side = "Buy" THEN call.order ELSE resting].orderId,
                       sellOrderId |-> ord[IF Incoming.side = "Buy" THEN resting ELSE call.order].orderId,
                       price       |-> pl.price,
                       quantity    |-> fillQty]
          /\ heap' = IF left = 0 THEN Deallocate(removed.heap, resting) ELSE heap
          /\ orderIndex' = IF left = 0 THEN Unindexed(ord[resting].orderId) ELSE orderIndex
          /\ levels' = [levels EXCEPT ![Opposite(Incoming.side)][call.numLevels] = after]
          /\ call' = IF IsEmpty(after) THEN [call EXCEPT !.numLevels = @ - 1] ELSE call
    /\ UNCHANGED sequence

\* A round that meets the same participant: the incoming order is spent.
MatchSelf ==
    /\ InLoop
    /\ ord[Book[call.numLevels].head].participantId = Incoming.participantId
    /\ ord' = [ord EXCEPT ![call.order].quantity = 0]
    /\ UNCHANGED <<heap, levels, orderIndex, sequence, call, trade>>

\* A resize that keeps the first of the emptied levels.
Mut_Resize(book, n) == SubSeq(book, 1, Lesser(n + 1, Len(book)))

\* asks_.resize(numLevels): drops the emptied levels behind the n live ones.
Resize(book, n) == SubSeq(book, 1, n)

\* The end of matchBuy/matchSell: one resize drops the emptied levels.
MatchDone ==
    /\ call.pc = "match" /\ ~InLoop
    /\ levels' = [levels EXCEPT ![Opposite(Incoming.side)] = Resize(@, call.numLevels)]
    /\ call' = [call EXCEPT !.pc = "rest"]
    /\ UNCHANGED <<heap, ord, orderIndex, sequence, trade>>

\* The end of addLimitOrder for an order with quantity left.
RestOrder ==
    /\ call.pc = "rest" /\ Incoming.quantity > 0
    /\ LevelFits(Incoming.side, Incoming.price)
    /\ LET side  == Incoming.side
           i     == FindLevel(side, Incoming.price)
           book  == FindOrCreateLevel(side, Incoming.price)
           added == AddToTail(heap, book[i], call.order, Incoming.quantity)
       IN /\ heap' = added.heap
          /\ levels' = [levels EXCEPT ![side] = [book EXCEPT ![i] = added.level]]
    /\ orderIndex' = [i \in DOMAIN orderIndex \cup {Incoming.orderId} |->
                        IF i \in DOMAIN orderIndex THEN orderIndex[i] ELSE call.order]
    /\ call' = Idle
    /\ UNCHANGED <<ord, sequence, trade>>

\* The same, when the new level would not fit: assert() ends the process.
RestAborts ==
    /\ call.pc = "rest" /\ Incoming.quantity > 0
    /\ ~LevelFits(Incoming.side, Incoming.price)
    /\ call' = [call EXCEPT !.pc = "aborted"]
    /\ UNCHANGED <<heap, ord, levels, orderIndex, sequence, trade>>

\* Leaks the slot of a spent order.
Mut_DropOrder ==
    /\ call.pc = "rest" /\ Incoming.quantity = 0
    /\ call' = Idle
    /\ UNCHANGED <<heap, ord, levels, orderIndex, sequence, trade>>

\* The end of addLimitOrder for a spent order.
DropOrder ==
    /\ call.pc = "rest" /\ Incoming.quantity = 0
    /\ heap' = Deallocate(heap, call.order)
    /\ call' = Idle
    /\ UNCHANGED <<ord, levels, orderIndex, sequence, trade>>

\* Level i after remove(): erased from the vector when it is empty.
StoreLevel(book, i, pl) == IF IsEmpty(pl) THEN RemoveAt(book, i) ELSE [book EXCEPT ![i] = pl]

\* cancelOrder of an id that is not in the index.
CancelUnknown(id) == call.pc = "idle" /\ id \notin DOMAIN orderIndex /\ UNCHANGED vars

\* cancelOrder of a resting order.
CancelOrder(id) ==
    /\ call.pc = "idle"
    /\ id \in DOMAIN orderIndex
    /\ LET o       == orderIndex[id]
           side    == ord[o].side
           i       == FindLevel(side, ord[o].price)
           removed == RemoveOrder(heap, levels[side][i], o, ord[o].quantity)
       IN /\ levels' = [levels EXCEPT ![side] = StoreLevel(@, i, removed.level)]
          /\ heap' = Deallocate(removed.heap, o)
    /\ orderIndex' = Unindexed(id)
    /\ UNCHANGED <<ord, sequence, call, trade>>

OrderBookNext ==
    \/ \E side \in Sides, price \in Prices, quantity \in Quantities, id \in Ids, p \in Participants :
           AddLimitOrder(side, price, quantity, id, p)
    \/ MatchFill
    \/ MatchSelf
    \/ MatchDone
    \/ RestOrder
    \/ RestAborts
    \/ DropOrder
    \/ \E id \in Ids : CancelUnknown(id)
    \/ \E id \in Ids : CancelOrder(id)

OrderBookSpec == OrderBookInit /\ [][OrderBookNext]_vars

\* addLimitOrder is a function call: once entered, the thread goes on with it.
OrderBookFairSpec ==
    /\ OrderBookSpec
    /\ WF_vars(MatchFill \/ MatchSelf \/ MatchDone \/ RestOrder \/ RestAborts \/ DropOrder)

-----------------------------------------------------------------------------
(***************************************************************************)
(* Correctness. The resting orders are those allocated and not held by the *)
(* addLimitOrder in progress.                                              *)
(***************************************************************************)
InFlight == IF call.pc = "idle" THEN {} ELSE {call.order}
Resting  == {s \in Slots : heap.isAllocated[s]} \ InFlight
Arrival  == [s \in Slots |-> ord[s].sequence]

OrdersAt(side, price) == {s \in Resting : ord[s].side = side /\ ord[s].price = price}

\* The quantities of these orders, added slot by slot.
QuantitySum(slots) ==
    LET upTo[n \in 0..Capacity] ==
            IF n = 0 THEN 0 ELSE upTo[n - 1] + (IF n \in slots THEN ord[n].quantity ELSE 0)
    IN upTo[Capacity]

Order == [orderId : Ids \cup {0}, price : Prices \cup {0}, quantity : 0..(Modulus - 1),
          sequence : 0..MaxSequence, participantId : Participants \cup {0}, side : Sides]
PriceLevels == [price : Prices, totalQuantity : 0..(Modulus - 1), head : Ptr, tail : Ptr]

OrderBookTypeOK ==
    /\ heap \in Heap
    /\ ord \in [Slots -> Order]
    /\ levels \in [Sides -> Seq(PriceLevels)]
    /\ DOMAIN orderIndex \subseteq Ids /\ orderIndex \in [DOMAIN orderIndex -> Slots]
    /\ sequence \in 0..MaxSequence
    /\ call \in [pc : {"idle", "match", "rest", "aborted"}, order : Ptr, numLevels : Nat]

\* Every level is a properly linked queue of the live orders of its own side and
\* price, in order of arrival ("FIFO order preserved via sequence", "Linked
\* lists contain no cycles" in the engine's README), after any mix of fills at
\* the head, cancels anywhere in the list and reuse of the freed slots.
QueuesIntact ==
    /\ \A s, t \in Resting : Arrival[s] = Arrival[t] => s = t
    /\ \A s \in Resting : ord[s].quantity > 0
    /\ \A side \in Sides : \A i \in DOMAIN levels[side] :
          WellLinked(heap, levels[side][i], OrdersAt(side, levels[side][i].price), Arrival)

\* Every slot is in exactly one place: on the free list, in the queue of one
\* level, or held by the addLimitOrder in progress. The links of an order never
\* serve the free list and a queue at once, and no order is leaked.
SlotsAccountedFor ==
    /\ \A s \in InFlight : s \in Slots /\ heap.isAllocated[s]
    /\ \A s \in Resting : \E i \in DOMAIN levels[ord[s].side] : levels[ord[s].side][i].price = ord[s].price
    /\ FreeListIntact

\* orderIndex_ maps the id of every resting order to its slot and nothing else
\* ("orderIndex[id] is correct or absent"), so cancelOrder's assertions hold.
IndexExact ==
    /\ DOMAIN orderIndex = {ord[s].orderId : s \in Resting}
    /\ \A s \in Resting : /\ orderIndex[ord[s].orderId] = s
                          /\ call.pc = "idle" => HasLevel(ord[s].side, ord[s].price)

\* Levels are sorted with no price twice, so lower_bound is meaningful, and "No
\* empty levels remain stored" outside the match loop; inside it the empty ones
\* are exactly those behind numLevels, which resize() will drop.
LevelsSorted ==
    \A side \in Sides :
        /\ \A i, j \in DOMAIN levels[side] :
              i < j => SortsBefore(side, levels[side][i].price, levels[side][j].price)
        /\ \A i \in DOMAIN levels[side] :
              IsEmpty(levels[side][i]) <=>
                  call.pc = "match" /\ side = Opposite(Incoming.side) /\ i > call.numLevels

\* The engine's data structures agree with each other at every round of the match
\* loop: queues, level vectors, index, pool.
StructuresIntact ==
    OrderBookTypeOK /\ QueuesIntact /\ LevelsSorted /\ IndexExact /\ SlotsAccountedFor

\* A level's totalQuantity is the sum of its orders' quantities modulo the width
\* of the counter, through fills, partial fills, cancels and wrap-around.
TotalQuantityTracksQueue ==
    \A side \in Sides : \A i \in DOMAIN levels[side] :
        levels[side][i].totalQuantity = QuantitySum(OrdersAt(side, levels[side][i].price)) % Modulus

\* "totalQuantity matches the sum of quantities in the list" as the engine's
\* README states it, with no allowance for the counter's 32 bits.
TotalQuantityMatchesSum ==
    \A side \in Sides : \A i \in DOMAIN levels[side] :
        levels[side][i].totalQuantity = QuantitySum(OrdersAt(side, levels[side][i].price))

\* addLimitOrder comes to an end, whatever mix of partial fills, emptied orders,
\* emptied levels and self-matches its loop goes through: no round leaves both
\* sides as they were, and none is entered with nothing left to trade.
CallReturns == []<>(call.pc \in {"idle", "aborted"})

\* The assertion in findOrCreateBidLevel/findOrCreateAskLevel never fails.
LevelCapacityAsserted == call.pc # "aborted"

(***************************************************************************)
(* Refinement: the orders in the index, which IndexExact shows to be the   *)
(* queued ones, and the order in flight form the abstract book.            *)
(***************************************************************************)
AbstractOrder(o) == [side |-> o.side, price |-> o.price, qty |-> o.quantity,
                     seq |-> o.sequence, owner |-> o.participantId]

LiveById ==
    [i \in DOMAIN orderIndex \cup {ord[s].orderId : s \in InFlight} |->
        AbstractOrder(IF i \in DOMAIN orderIndex THEN ord[orderIndex[i]] ELSE Incoming)]

Abstract == INSTANCE MatchingBook
              WITH orders <- LiveById,
                   taker  <- IF call.pc = "idle" THEN 0 ELSE Incoming.orderId,
                   OrderIds <- Ids

\* The engine implements price-time priority matching: every round of its loop
\* trades with the best-priced, earliest contra order, whatever the state of the
\* lists and vectors, and leaves the order exactly when nothing is left to trade.
ImplementsMatchingBook == Abstract!BookSpec
=============================================================================
