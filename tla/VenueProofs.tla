----------------------------- MODULE VenueProofs -----------------------------
(***************************************************************************)
(* The book of MatchingBook is never crossed, the venue's tables agree     *)
(* with the book in every reachable state, and the auditor's blotter is    *)
(* the truth for every connected client, for any connections, ids, prices, *)
(* quantities, messages and soft cap.                                      *)
(*                                                                         *)
(* IInv is the inductive invariant. Besides the properties themselves it   *)
(* needs that ids are fresh (or an ACK could overwrite a live order) and   *)
(* that no two orders of one connection cross (what wouldSelfCross checks  *)
(* at the door, kept because prices of live orders never change).          *)
(***************************************************************************)
EXTENDS VenueAudit, FiniteSetTheorems, SequenceTheorems, WellFoundedInduction, TLAPS

USE OrderIdsAssumption, PricesAssumption, QuantitiesAssumption

(***************************************************************************)
(* The abstract book, whoever uses it. NotCrossed is inductive together    *)
(* with the types: an order only joins the resting ones in Settle, whose   *)
(* guard says that nothing resting crosses it.                             *)
(***************************************************************************)
BookInv == BookTypeOK /\ NotCrossed

\* What a fill does to the book, order by order.
LEMMA FillFacts ==
    ASSUME BookTypeOK, NEW r \in DOMAIN orders, Fill(r)
    PROVE  /\ taker \in DOMAIN orders /\ r # taker /\ taker' = taker
           /\ orders[r].side # orders[taker].side
           /\ Crosses(orders[taker].side, orders[taker].price, orders[r].price)
           /\ trade'.quantity \in Nat \ {0}
           /\ trade'.quantity <= orders[taker].qty /\ trade'.quantity <= orders[r].qty
           /\ trade'.quantity = orders[taker].qty \/ trade'.quantity = orders[r].qty
           /\ trade'.price = orders[r].price
           /\ orders[taker].side = "Buy" => trade'.buyOrderId = taker /\ trade'.sellOrderId = r
           /\ orders[taker].side = "Sell" => trade'.buyOrderId = r /\ trade'.sellOrderId = taker
           /\ DOMAIN orders' = {i \in DOMAIN orders : i = r => orders[r].qty > trade'.quantity}
           /\ \A i \in DOMAIN orders' :
                 orders'[i] = [side |-> orders[i].side, price |-> orders[i].price,
                               qty |-> IF i \in {taker, r} THEN orders[i].qty - trade'.quantity
                                       ELSE orders[i].qty,
                               seq |-> orders[i].seq, owner |-> orders[i].owner]
<1> DEFINE fillQty == Lesser(orders[taker].qty, orders[r].qty)
           filled  == [orders EXCEPT ![taker].qty = @ - fillQty, ![r].qty = @ - fillQty]
<1>1. /\ taker \in DOMAIN orders /\ r \in Resting /\ r # taker
      /\ orders[taker] \in Order /\ orders[r] \in Order
      /\ orders[taker].qty > 0 /\ orders[r].qty > 0
      /\ orders[r].side # orders[taker].side
      /\ Crosses(orders[taker].side, orders[taker].price, orders[r].price)
    BY DEF BookTypeOK, Fill, IsBestContra, Contra, Resting, NoTaker
<1>2. /\ orders[taker].qty \in Nat /\ orders[r].qty \in Nat
      /\ fillQty \in Nat \ {0}
      /\ fillQty <= orders[taker].qty /\ fillQty <= orders[r].qty
      /\ fillQty = orders[taker].qty \/ fillQty = orders[r].qty
    BY <1>1 DEF Order, Lesser
<1>3. /\ trade'.quantity = fillQty /\ trade'.price = orders[r].price
      /\ trade'.buyOrderId = (IF orders[taker].side = "Buy" THEN taker ELSE r)
      /\ trade'.sellOrderId = (IF orders[taker].side = "Buy" THEN r ELSE taker)
      /\ taker' = taker
      /\ orders' = IF filled[r].qty = 0 THEN Erase(filled, {r}) ELSE filled
    BY DEF Fill
<1>4. /\ DOMAIN filled = DOMAIN orders
      /\ \A i \in DOMAIN orders :
            filled[i] = [side |-> orders[i].side, price |-> orders[i].price,
                         qty |-> IF i \in {taker, r} THEN orders[i].qty - fillQty ELSE orders[i].qty,
                         seq |-> orders[i].seq, owner |-> orders[i].owner]
  <2>1. DOMAIN filled = DOMAIN orders
      OBVIOUS
  <2>2. ASSUME NEW i \in DOMAIN orders
        PROVE  filled[i] = [side |-> orders[i].side, price |-> orders[i].price,
                            qty |-> IF i \in {taker, r} THEN orders[i].qty - fillQty ELSE orders[i].qty,
                            seq |-> orders[i].seq, owner |-> orders[i].owner]
    <3>1. orders[i] \in Order
        BY DEF BookTypeOK
    <3>2. CASE i \notin {taker, r}
        BY <3>1, <3>2 DEF Order
    <3>3. CASE i = taker
        BY <3>1, <3>3, <1>1 DEF Order
    <3>4. CASE i = r
        BY <3>1, <3>4, <1>1 DEF Order
    <3> QED BY <3>2, <3>3, <3>4
  <2> QED BY <2>1, <2>2
<1> HIDE DEF filled, fillQty
<1>5. filled[r].qty = orders[r].qty - fillQty
    BY <1>4
<1>6. filled[r].qty = 0 <=> ~(orders[r].qty > fillQty)
    BY <1>2, <1>5
<1>7. /\ DOMAIN orders' = {i \in DOMAIN orders : i = r => orders[r].qty > fillQty}
      /\ \A i \in DOMAIN orders' : orders'[i] = filled[i]
    BY <1>3, <1>4, <1>6 DEF Erase
<1>8. orders[taker].side \in Sides
    BY <1>1 DEF Order
<1> QED
    BY <1>1, <1>2, <1>3, <1>4, <1>7, <1>8 DEF Sides

\* A new order enters as the incoming one and disturbs nothing that rests.
LEMMA SubmitBook ==
    ASSUME BookInv, NEW id \in OrderIds, NEW side \in Sides, NEW price \in Prices,
           NEW quantity \in Quantities, NEW owner \in Participants,
           Submit(id, side, price, quantity, owner)
    PROVE  BookInv'
<1> USE DEF BookInv
<1>1. /\ DOMAIN orders' = DOMAIN orders \cup {id} /\ id \notin DOMAIN orders
      /\ orders'[id] = [side |-> side, price |-> price, qty |-> quantity,
                        seq |-> sequence, owner |-> owner]
      /\ \A i \in DOMAIN orders : orders'[i] = orders[i]
      /\ taker = NoTaker /\ taker' = id /\ sequence' = sequence + 1
    BY DEF Submit
<1>2. NoTaker \notin DOMAIN orders
    BY DEF BookTypeOK, NoTaker
<1>3. Resting' = Resting
    BY <1>1, <1>2 DEF Resting
<1>4. BookTypeOK'
  <2>1. orders'[id] \in Order
    <3>1. quantity \in Nat /\ sequence \in Nat
        BY DEF BookTypeOK
    <3> QED BY <1>1, <3>1 DEF Order
  <2> QED
      BY <1>1, <1>3, <2>1 DEF BookTypeOK, Resting
<1>5. NotCrossed'
    BY <1>1, <1>3 DEF NotCrossed, Resting
<1> QED
    BY <1>4, <1>5

\* A fill only lowers quantities and removes a spent resting order.
LEMMA FillBook ==
    ASSUME BookInv, NEW r \in DOMAIN orders, Fill(r)
    PROVE  BookInv'
<1> USE DEF BookInv
<1> DEFINE q == trade'.quantity
<1>1. /\ taker \in DOMAIN orders /\ r # taker /\ taker' = taker
      /\ q \in Nat \ {0} /\ q <= orders[taker].qty /\ q <= orders[r].qty
      /\ DOMAIN orders' = {i \in DOMAIN orders : i = r => orders[r].qty > q}
      /\ \A i \in DOMAIN orders' :
            orders'[i] = [side |-> orders[i].side, price |-> orders[i].price,
                          qty |-> IF i \in {taker, r} THEN orders[i].qty - q ELSE orders[i].qty,
                          seq |-> orders[i].seq, owner |-> orders[i].owner]
    BY FillFacts
<1>2. sequence' = sequence
    BY DEF Fill
<1> HIDE DEF q
<1>3. Resting' \subseteq Resting
    BY <1>1 DEF Resting
<1>4. ASSUME NEW i \in DOMAIN orders'
      PROVE  /\ orders'[i] \in Order /\ (i # taker => orders'[i].qty > 0)
             /\ orders'[i].side = orders[i].side /\ orders'[i].price = orders[i].price
  <2>1. orders[i] \in Order /\ (i # taker => orders[i].qty > 0)
      BY <1>1 DEF BookTypeOK, Resting
  <2> DEFINE left == IF i \in {taker, r} THEN orders[i].qty - q ELSE orders[i].qty
  <2>2. left \in Nat /\ (i # taker => left > 0)
    <3>1. orders[i].qty \in Nat
        BY <2>1 DEF Order
    <3> QED BY <3>1, <2>1, <1>1
  <2>3. orders'[i] = [side |-> orders[i].side, price |-> orders[i].price, qty |-> left,
                      seq |-> orders[i].seq, owner |-> orders[i].owner]
      BY <1>1
  <2> HIDE DEF left
  <2> QED
      BY <2>1, <2>2, <2>3 DEF Order
<1>5. BookTypeOK'
    BY <1>1, <1>2, <1>4 DEF BookTypeOK, Resting
<1>6. NotCrossed'
    BY <1>3, <1>4 DEF NotCrossed, Resting
<1> QED
    BY <1>5, <1>6

\* Self-match prevention changes the incoming order only.
LEMMA SelfMatchBook ==
    ASSUME BookInv, NEW r \in DOMAIN orders, SelfMatch(r)
    PROVE  BookInv'
<1> USE DEF BookInv
<1>1. /\ taker \in DOMAIN orders /\ taker' = taker /\ sequence' = sequence
      /\ orders' = [orders EXCEPT ![taker].qty = 0]
    BY DEF SelfMatch, BookTypeOK
<1>2. /\ DOMAIN orders' = DOMAIN orders /\ Resting' = Resting
      /\ \A i \in Resting : orders'[i] = orders[i]
      /\ orders'[taker] \in Order
    BY <1>1 DEF BookTypeOK, Order, Resting
<1>3. BookTypeOK'
    BY <1>1, <1>2 DEF BookTypeOK, Resting
<1>4. NotCrossed'
    BY <1>2 DEF NotCrossed
<1> QED
    BY <1>3, <1>4

\* The incoming order rests only when nothing resting crosses it.
LEMMA SettleBook ==
    ASSUME BookInv, Settle
    PROVE  BookInv'
<1> USE DEF BookInv
<1>1. /\ taker \in DOMAIN orders /\ taker' = NoTaker /\ sequence' = sequence
      /\ NoTaker \notin DOMAIN orders
      /\ orders[taker] \in Order
    BY DEF Settle, BookTypeOK, NoTaker
<1>2. CASE orders[taker].qty > 0
  <2>1. /\ orders' = orders /\ Resting' = DOMAIN orders
        /\ Contra(orders[taker].side, orders[taker].price) = {}
      BY <1>1, <1>2 DEF Settle, Resting
  <2>2. BookTypeOK'
      BY <1>1, <1>2, <2>1 DEF BookTypeOK, Resting
  <2>3. ASSUME NEW b \in DOMAIN orders, NEW s \in DOMAIN orders,
               orders[b].side = "Buy", orders[s].side = "Sell"
        PROVE  orders[b].price < orders[s].price
    <3>1. orders[b].price \in Nat /\ orders[s].price \in Nat
        BY DEF BookTypeOK, Order
    <3>2. CASE b = taker
        BY <3>1, <3>2, <2>1, <2>3 DEF Contra, Crosses, Resting
    <3>3. CASE s = taker
        BY <3>1, <3>3, <2>1, <2>3 DEF Contra, Crosses, Resting
    <3>4. CASE b # taker /\ s # taker
        BY <3>4, <2>3 DEF NotCrossed, Resting
    <3> QED BY <3>2, <3>3, <3>4
  <2> QED
      BY <2>1, <2>2, <2>3 DEF NotCrossed
<1>3. CASE ~(orders[taker].qty > 0)
  <2>1. /\ DOMAIN orders' = DOMAIN orders \ {taker} /\ Resting' = Resting
        /\ \A i \in Resting : orders'[i] = orders[i]
      BY <1>1, <1>3 DEF Settle, Erase, Resting
  <2>2. BookTypeOK'
      BY <1>1, <2>1 DEF BookTypeOK, Resting
  <2>3. NotCrossed'
      BY <2>1 DEF NotCrossed
  <2> QED
      BY <2>2, <2>3
<1> QED
    BY <1>2, <1>3

\* A cancel takes orders off a book that is not being matched.
LEMMA CancelBook ==
    ASSUME BookInv, NEW ids, CancelOrders(ids)
    PROVE  BookInv'
<1> USE DEF BookInv
<1>1. /\ DOMAIN orders' = DOMAIN orders \ ids /\ taker = NoTaker /\ taker' = NoTaker
      /\ \A i \in DOMAIN orders' : orders'[i] = orders[i]
      /\ sequence' = sequence /\ Resting' \subseteq Resting
    BY DEF CancelOrders, Erase, Resting
<1>2. BookTypeOK'
    BY <1>1 DEF BookTypeOK, Resting
<1>3. NotCrossed'
    BY <1>1 DEF NotCrossed, Resting
<1> QED
    BY <1>2, <1>3

\* The book stays well typed and is never crossed.
THEOREM BookNeverCrossed == BookSpec => [](BookTypeOK /\ NotCrossed)
<1>1. BookInit => BookInv
    BY DEF BookInit, BookInv, BookTypeOK, NotCrossed, Resting, NoTaker
<1>2. BookInv /\ [BookNext]_bookVars => BookInv'
  <2> SUFFICES ASSUME BookInv, [BookNext]_bookVars PROVE BookInv'
      OBVIOUS
  <2>1. CASE UNCHANGED bookVars
      BY <2>1 DEF bookVars, BookInv, BookTypeOK, NotCrossed, Resting
  <2> QED
      BY <2>1, SubmitBook, FillBook, SelfMatchBook, SettleBook, CancelBook DEF BookNext
<1> QED
    BY <1>1, <1>2, PTL DEF BookSpec, BookInv

-----------------------------------------------------------------------------
(***************************************************************************)
(* The venue.                                                              *)
(***************************************************************************)
USE MessagesAssumption, SoftCapAssumption

\* No connection has a bid that reaches one of its own asks.
NoOwnCross ==
    \A i, j \in DOMAIN orders :
        orders[i].owner = orders[j].owner /\ orders[i].side = "Buy" /\ orders[j].side = "Sell"
            => orders[i].price < orders[j].price

\* Every engine id in use was handed out before.
IdsFresh ==
    /\ \A i \in DOMAIN orders : i < nextEngineId
    /\ \A conn \in Conns, cid \in Cids : byConn[conn][cid].engineId < nextEngineId

PoolInv == IsFiniteSet(DOMAIN orders) /\ PoolBounded

IInv ==
    /\ TypeOK
    /\ NotCrossed
    /\ LiveOrdersMatchBook
    /\ RecordsMatchLiveOrders
    /\ DroppedLeavesNothing
    /\ NoOwnCross
    /\ IdsFresh
    /\ PoolInv

-----------------------------------------------------------------------------
\* u is the tables after a fill of q for order id of the tables live and records:
\* the entry loses the quantity, or goes and its record becomes Filled.
Routed(u, live, records, id, q) ==
    /\ u = [live |-> u.live, records |-> u.records, out |-> u.out]
    /\ DOMAIN u.live = {i \in DOMAIN live : i = id => live[id].remaining > q}
    /\ \A i \in DOMAIN u.live :
          /\ u.live[i] = [owner |-> live[i].owner, clientOrderId |-> live[i].clientOrderId,
                          side |-> live[i].side, priceTicks |-> live[i].priceTicks,
                          remaining |-> IF i = id THEN live[i].remaining - q ELSE live[i].remaining]
          /\ u.live[i] \in LiveOrder
    /\ u.records \in [Conns -> [Cids -> ClientRecord]]
    /\ \A c \in Conns, d \in Cids :
          u.records[c][d] =
              IF c = live[id].owner /\ d = live[id].clientOrderId /\ live[id].remaining = q
              THEN [state |-> "Filled", engineId |-> records[c][d].engineId]
              ELSE records[c][d]

\* routeFill of an order that is in the table.
LEMMA RouteFillFacts ==
    ASSUME NEW live, NEW records \in [Conns -> [Cids -> ClientRecord]], NEW out,
           NEW id \in DOMAIN live, NEW price, NEW q \in Nat,
           \A i \in DOMAIN live : live[i] \in LiveOrder,
           q <= live[id].remaining,
           records[live[id].owner][live[id].clientOrderId].state # "Absent"
    PROVE  Routed(RouteFill([live |-> live, records |-> records, out |-> out], id, price, q),
                  live, records, id, q)
<1> DEFINE t  == [live |-> live, records |-> records, out |-> out]
           lo == live[id]
           after == IF lo.remaining > q THEN lo.remaining - q ELSE 0
           u  == RouteFill(t, id, price, q)
           newLive == IF after = 0 THEN Erase(live, {id}) ELSE [live EXCEPT ![id].remaining = after]
           newRecords == IF after = 0 THEN [records EXCEPT ![lo.owner][lo.clientOrderId].state = "Filled"]
                         ELSE records
<1>1. /\ u.live = newLive /\ u.records = newRecords
      /\ u = [live |-> u.live, records |-> u.records, out |-> u.out]
    BY DEF RouteFill
<1>2. lo \in LiveOrder /\ lo.owner \in Conns /\ lo.clientOrderId \in Cids /\ lo.remaining \in Nat
    BY DEF LiveOrder
<1>3. /\ after \in Nat
      /\ after = 0 <=> lo.remaining = q
      /\ after = 0 <=> ~(lo.remaining > q)
      /\ after = lo.remaining - q
    BY <1>2
<1>4. DOMAIN newLive = {i \in DOMAIN live : i = id => lo.remaining > q}
    BY <1>3 DEF Erase
<1>5. ASSUME NEW i \in DOMAIN newLive
      PROVE  /\ newLive[i] = [owner |-> live[i].owner, clientOrderId |-> live[i].clientOrderId,
                              side |-> live[i].side, priceTicks |-> live[i].priceTicks,
                              remaining |-> IF i = id THEN live[i].remaining - q ELSE live[i].remaining]
             /\ newLive[i] \in LiveOrder
  <2>1. i \in DOMAIN live /\ live[i] \in LiveOrder
      BY <1>4
  <2>2. CASE i = id
    <3>1. newLive[i] = [live[i] EXCEPT !.remaining = after]
        BY <2>2, <1>3, <1>4
    <3> HIDE DEF newLive, after
    <3> QED
        BY <2>1, <2>2, <3>1, <1>3 DEF LiveOrder
  <2>3. CASE i # id
    <3>1. newLive[i] = live[i]
        BY <2>1, <2>3 DEF Erase
    <3> HIDE DEF newLive
    <3> QED
        BY <2>1, <2>3, <3>1 DEF LiveOrder
  <2> QED BY <2>2, <2>3
<1>6. ASSUME NEW c \in Conns, NEW d \in Cids
      PROVE  newRecords[c][d] = IF c = lo.owner /\ d = lo.clientOrderId /\ lo.remaining = q
                                THEN [state |-> "Filled", engineId |-> records[c][d].engineId]
                                ELSE records[c][d]
  <2>1. records[c][d] \in ClientRecord
      OBVIOUS
  <2>2. CASE after = 0 /\ c = lo.owner /\ d = lo.clientOrderId
    <3>1. newRecords[c][d] = [records[c][d] EXCEPT !.state = "Filled"]
        BY <2>2, <1>2
    <3> QED BY <3>1, <2>1, <2>2, <1>3 DEF ClientRecord
  <2>3. CASE after # 0
      BY <2>3, <1>3
  <2>4. CASE after = 0 /\ ~(c = lo.owner /\ d = lo.clientOrderId)
      BY <2>4, <1>2
  <2> QED BY <2>2, <2>3, <2>4
<1>7. newRecords \in [Conns -> [Cids -> ClientRecord]]
  <2>1. [records[lo.owner][lo.clientOrderId] EXCEPT !.state = "Filled"] \in ClientRecord
      BY <1>2 DEF ClientRecord
  <2> QED
      BY <1>2, <2>1
<1>8. /\ DOMAIN u.live = {i \in DOMAIN live : i = id => live[id].remaining > q}
      /\ u.records \in [Conns -> [Cids -> ClientRecord]]
    BY <1>1, <1>4, <1>7
<1>9. ASSUME NEW i \in DOMAIN u.live
      PROVE  /\ u.live[i] = [owner |-> live[i].owner, clientOrderId |-> live[i].clientOrderId,
                             side |-> live[i].side, priceTicks |-> live[i].priceTicks,
                             remaining |-> IF i = id THEN live[i].remaining - q ELSE live[i].remaining]
             /\ u.live[i] \in LiveOrder
  <2> HIDE DEF u, newLive
  <2> QED BY <1>1, <1>5
<1>10. ASSUME NEW c \in Conns, NEW d \in Cids
       PROVE  u.records[c][d] =
                IF c = live[id].owner /\ d = live[id].clientOrderId /\ live[id].remaining = q
                THEN [state |-> "Filled", engineId |-> records[c][d].engineId]
                ELSE records[c][d]
  <2> HIDE DEF u, newRecords
  <2> QED BY <1>1, <1>6
<1> QED
    BY <1>1, <1>8, <1>9, <1>10 DEF Routed

\* The entry and the record of an order with quantity left.
LEMMA LiveFacts ==
    ASSUME IInv, NEW i \in DOMAIN orders, orders[i].qty > 0
    PROVE  /\ i \in DOMAIN byEngineId
           /\ byEngineId[i] \in LiveOrder
           /\ byEngineId[i].remaining = orders[i].qty
           /\ byEngineId[i].owner = orders[i].owner
           /\ byConn[byEngineId[i].owner][byEngineId[i].clientOrderId] =
                 [state |-> "Resting", engineId |-> i]
BY DEF IInv, TypeOK, LiveOrdersMatchBook, RecordsMatchLiveOrders

\* The tables after the callback of a trade of q between orders i and j.
TablesAfterFill(i, j, q) ==
    /\ DOMAIN byEngineId' = {k \in DOMAIN byEngineId : k \in {i, j} => byEngineId[k].remaining > q}
    /\ \A k \in DOMAIN byEngineId' :
          /\ byEngineId'[k] = [owner |-> byEngineId[k].owner,
                               clientOrderId |-> byEngineId[k].clientOrderId,
                               side |-> byEngineId[k].side, priceTicks |-> byEngineId[k].priceTicks,
                               remaining |-> IF k \in {i, j} THEN byEngineId[k].remaining - q
                                             ELSE byEngineId[k].remaining]
          /\ byEngineId'[k] \in LiveOrder
    /\ byConn' \in [Conns -> [Cids -> ClientRecord]]
    /\ \A c \in Conns, d \in Cids :
          byConn'[c][d] =
              IF \E k \in {i, j} : /\ c = byEngineId[k].owner /\ d = byEngineId[k].clientOrderId
                                   /\ byEngineId[k].remaining = q
              THEN [state |-> "Filled", engineId |-> byConn[c][d].engineId]
              ELSE byConn[c][d]

\* onTrade for two different live orders.
LEMMA OnTradeFacts ==
    ASSUME IInv, NEW i \in DOMAIN byEngineId, NEW j \in DOMAIN byEngineId, i # j,
           NEW price, NEW q \in Nat, q <= byEngineId[i].remaining, q <= byEngineId[j].remaining,
           NEW t0, t0 = [live |-> byEngineId, records |-> byConn, out |-> <<>>],
           NEW t2, t2 = RouteFill(RouteFill(t0, i, price, q), j, price, q),
           byEngineId' = t2.live, byConn' = t2.records
    PROVE  TablesAfterFill(i, j, q)
<1> DEFINE t1 == RouteFill(t0, i, price, q)
           rec(k) == byConn[byEngineId[k].owner][byEngineId[k].clientOrderId]
<1>1. /\ byConn \in [Conns -> [Cids -> ClientRecord]]
      /\ \A k \in DOMAIN byEngineId : byEngineId[k] \in LiveOrder
      /\ \A k \in DOMAIN byEngineId : rec(k) = [state |-> "Resting", engineId |-> k]
    BY DEF IInv, TypeOK, RecordsMatchLiveOrders
<1>2. Routed(t1, byEngineId, byConn, i, q)
  <2>1. rec(i).state # "Absent"
    <3>1. rec(i) = [state |-> "Resting", engineId |-> i]
        BY <1>1
    <3> HIDE DEF rec
    <3> QED BY <3>1
  <2> QED
      BY <1>1, <2>1, RouteFillFacts
<1> HIDE DEF t1
<1>3. /\ j \in DOMAIN t1.live
      /\ t1.live[j].owner = byEngineId[j].owner /\ t1.live[j].clientOrderId = byEngineId[j].clientOrderId
      /\ t1.live[j].remaining = byEngineId[j].remaining
      /\ t1 = [live |-> t1.live, records |-> t1.records, out |-> t1.out]
      /\ t1.records \in [Conns -> [Cids -> ClientRecord]]
      /\ \A k \in DOMAIN t1.live : t1.live[k] \in LiveOrder
  <2>1. j \in DOMAIN t1.live
      BY <1>2 DEF Routed
  <2>2. t1.live[j] = [owner |-> byEngineId[j].owner, clientOrderId |-> byEngineId[j].clientOrderId,
                      side |-> byEngineId[j].side, priceTicks |-> byEngineId[j].priceTicks,
                      remaining |-> byEngineId[j].remaining]
      BY <1>2, <2>1 DEF Routed
  <2>3. /\ t1 = [live |-> t1.live, records |-> t1.records, out |-> t1.out]
        /\ t1.records \in [Conns -> [Cids -> ClientRecord]]
        /\ \A k \in DOMAIN t1.live : t1.live[k] \in LiveOrder
      BY <1>2, Zenon DEF Routed
  <2> QED
      BY <2>1, <2>2, <2>3
<1>4. t1.records[t1.live[j].owner][t1.live[j].clientOrderId].state # "Absent"
  <2>1. byEngineId[j].owner \in Conns /\ byEngineId[j].clientOrderId \in Cids
      BY <1>1 DEF LiveOrder
  <2>2. \/ t1.records[byEngineId[j].owner][byEngineId[j].clientOrderId] =
              [state |-> "Filled", engineId |-> rec(j).engineId]
        \/ t1.records[byEngineId[j].owner][byEngineId[j].clientOrderId] = rec(j)
      BY <1>2, <2>1 DEF Routed
  <2>3. rec(j) = [state |-> "Resting", engineId |-> j]
      BY <1>1
  <2> HIDE DEF rec
  <2> QED
      BY <2>2, <2>3, <1>3
<1>5. Routed(t2, t1.live, t1.records, j, q)
  <2>1. t2 = RouteFill([live |-> t1.live, records |-> t1.records, out |-> t1.out], j, price, q)
      BY <1>3 DEF t1
  <2> QED
      BY <1>3, <1>4, <2>1, RouteFillFacts
<1>6. DOMAIN byEngineId' = {k \in DOMAIN byEngineId : k \in {i, j} => byEngineId[k].remaining > q}
    BY <1>2, <1>3, <1>5 DEF Routed
<1>7. ASSUME NEW k \in DOMAIN byEngineId'
      PROVE  /\ byEngineId'[k] = [owner |-> byEngineId[k].owner,
                                  clientOrderId |-> byEngineId[k].clientOrderId,
                                  side |-> byEngineId[k].side, priceTicks |-> byEngineId[k].priceTicks,
                                  remaining |-> IF k \in {i, j} THEN byEngineId[k].remaining - q
                                                ELSE byEngineId[k].remaining]
             /\ byEngineId'[k] \in LiveOrder
  <2>1. /\ k \in DOMAIN t2.live /\ k \in DOMAIN t1.live /\ k \in DOMAIN byEngineId
        /\ byEngineId'[k] = t2.live[k] /\ t2.live[k] \in LiveOrder
      BY <1>2, <1>5 DEF Routed
  <2>2. t1.live[k] = [owner |-> byEngineId[k].owner, clientOrderId |-> byEngineId[k].clientOrderId,
                      side |-> byEngineId[k].side, priceTicks |-> byEngineId[k].priceTicks,
                      remaining |-> IF k = i THEN byEngineId[k].remaining - q
                                    ELSE byEngineId[k].remaining]
      BY <1>2, <2>1 DEF Routed
  <2>3. t2.live[k] = [owner |-> t1.live[k].owner, clientOrderId |-> t1.live[k].clientOrderId,
                      side |-> t1.live[k].side, priceTicks |-> t1.live[k].priceTicks,
                      remaining |-> IF k = j THEN t1.live[k].remaining - q ELSE t1.live[k].remaining]
      BY <1>5, <2>1 DEF Routed
  <2> QED
      BY <2>1, <2>2, <2>3
<1>8. ASSUME NEW c \in Conns, NEW d \in Cids
      PROVE  byConn'[c][d] =
                 IF \E k \in {i, j} : /\ c = byEngineId[k].owner /\ d = byEngineId[k].clientOrderId
                                      /\ byEngineId[k].remaining = q
                 THEN [state |-> "Filled", engineId |-> byConn[c][d].engineId]
                 ELSE byConn[c][d]
  <2>1. t1.records[c][d] =
            IF c = byEngineId[i].owner /\ d = byEngineId[i].clientOrderId /\ byEngineId[i].remaining = q
            THEN [state |-> "Filled", engineId |-> byConn[c][d].engineId]
            ELSE byConn[c][d]
      BY <1>2 DEF Routed
  <2>2. t2.records[c][d] =
            IF c = byEngineId[j].owner /\ d = byEngineId[j].clientOrderId /\ byEngineId[j].remaining = q
            THEN [state |-> "Filled", engineId |-> t1.records[c][d].engineId]
            ELSE t1.records[c][d]
      BY <1>3, <1>5 DEF Routed
  <2>3. t1.records[c][d].engineId = byConn[c][d].engineId
      BY <2>1
  <2> QED
      BY <2>1, <2>2, <2>3
<1> QED
    BY <1>5, <1>6, <1>7, <1>8 DEF TablesAfterFill, Routed

-----------------------------------------------------------------------------
\* Taking orders off the book never breaks the bound.
LEMMA PoolShrinks ==
    ASSUME PoolInv, DOMAIN orders' \subseteq DOMAIN orders
    PROVE  PoolInv'
<1>1. /\ IsFiniteSet(DOMAIN orders') /\ Cardinality(DOMAIN orders') <= Cardinality(DOMAIN orders)
    BY FS_Subset DEF PoolInv
<1>2. Cardinality(DOMAIN orders) \in Nat /\ Cardinality(DOMAIN orders') \in Nat
    BY <1>1, FS_CardinalityType DEF PoolInv
<1> QED
    BY <1>1, <1>2 DEF PoolInv, PoolBounded

\* What the early returns of handleNewOrder leave through.
LEMMA AdmittedFacts ==
    ASSUME TypeOK, NEW conn \in Conns, NEW m \in Messages, RejectReason(conn, m) = "none"
    PROVE  /\ m.clientOrderId \in Cids /\ m.side \in Sides
           /\ m.priceTicks \in Prices /\ m.qty \in Quantities
           /\ byConn[conn][m.clientOrderId].state = "Absent"
           /\ ~VenueFull
           /\ ~WouldSelfCross(conn, m.side, m.priceTicks)
<1>1. m \in InboundMessage /\ (m.hasClientOrderId => m.clientOrderId \in Cids)
                           /\ (m.hasPrice => m.priceTicks \in Prices)
    OBVIOUS
<1>2. /\ m.hasClientOrderId /\ m.hasPrice /\ m.qty # 0
      /\ byConn[conn][m.clientOrderId].state = "Absent"
      /\ ~VenueFull
      /\ ~WouldSelfCross(conn, m.side, m.priceTicks)
    BY DEF RejectReason
<1> QED
    BY <1>1, <1>2 DEF InboundMessage

\* Accepting an order enters it in the book and in both tables under a fresh id.
LEMMA AcceptNewOrderInv ==
    ASSUME IInv, NEW conn \in Conns, NEW m \in Messages, AcceptNewOrder(conn, m)
    PROVE  IInv'
<1> DEFINE id  == nextEngineId
           cid == m.clientOrderId
<1> USE DEF IInv
<1>1. /\ cid \in Cids /\ m.side \in Sides /\ m.priceTicks \in Prices /\ m.qty \in Quantities
      /\ byConn[conn][cid].state = "Absent"
      /\ ~VenueFull /\ ~WouldSelfCross(conn, m.side, m.priceTicks)
    BY AdmittedFacts DEF AcceptNewOrder
<1>2. /\ taker = NoTaker /\ conn \notin dropped /\ dropped' = dropped
      /\ id \in OrderIds /\ id \in Nat /\ nextEngineId' = id + 1
      /\ Submit(id, m.side, m.priceTicks, m.qty, conn)
    BY DEF AcceptNewOrder, Receives, TypeOK
<1>3. /\ DOMAIN orders' = DOMAIN orders \cup {id} /\ id \notin DOMAIN orders
      /\ orders'[id] = [side |-> m.side, price |-> m.priceTicks, qty |-> m.qty,
                        seq |-> sequence, owner |-> conn]
      /\ \A i \in DOMAIN orders : orders'[i] = orders[i]
    BY <1>2 DEF Submit
<1>4. /\ DOMAIN byEngineId' = DOMAIN byEngineId \cup {id}
      /\ byEngineId'[id] = [owner |-> conn, clientOrderId |-> cid, side |-> m.side,
                            priceTicks |-> m.priceTicks, remaining |-> m.qty]
      /\ \A i \in DOMAIN byEngineId : i # id => byEngineId'[i] = byEngineId[i]
    BY DEF AcceptNewOrder
<1>5. /\ \A c \in Conns, d \in Cids :
            byConn'[c][d] = IF c = conn /\ d = cid THEN [state |-> "Resting", engineId |-> id]
                            ELSE byConn[c][d]
      /\ byConn' \in [Conns -> [Cids -> ClientRecord]]
  <2>1. byConn \in [Conns -> [Cids -> ClientRecord]]
      BY DEF TypeOK
  <2>2. byConn' = [byConn EXCEPT ![conn][cid] = [state |-> "Resting", engineId |-> id]]
      BY DEF AcceptNewOrder
  <2>3. [state |-> "Resting", engineId |-> id] \in ClientRecord
      BY <1>2 DEF ClientRecord
  <2> QED
      BY <1>1, <2>1, <2>2, <2>3
<1>6. DOMAIN byEngineId = DOMAIN orders /\ id \notin DOMAIN byEngineId
  <2>1. NoTaker \notin DOMAIN orders
      BY DEF TypeOK, BookTypeOK, NoTaker
  <2> QED
      BY <1>2, <1>3, <2>1 DEF TypeOK, BookTypeOK, Resting, LiveOrdersMatchBook
<1>7. BookInv'
    BY <1>1, <1>2, SubmitBook DEF BookInv, TypeOK, Conns
<1>8. TypeOK'
  <2>1. byEngineId'[id] \in LiveOrder
    <3>1. m.qty \in Nat
        BY <1>1
    <3> QED
        BY <1>1, <1>4, <3>1 DEF LiveOrder
  <2> QED
      BY <1>2, <1>4, <1>5, <1>6, <1>7, <2>1 DEF TypeOK, BookInv
<1>9. LiveOrdersMatchBook'
  <2>1. orders'[id].qty > 0
    <3>1. m.qty \in Nat \ {0}
        BY <1>1
    <3> QED BY <3>1, <1>3
  <2> QED
      BY <1>3, <1>4, <1>6, <2>1 DEF LiveOrdersMatchBook
<1>10. RecordsMatchLiveOrders'
  <2>1. ASSUME NEW i \in DOMAIN byEngineId'
        PROVE  byConn'[byEngineId'[i].owner][byEngineId'[i].clientOrderId] =
                   [state |-> "Resting", engineId |-> i]
    <3>1. CASE i = id
        BY <3>1, <1>1, <1>4, <1>5
    <3>2. CASE i # id
      <4>1. /\ i \in DOMAIN byEngineId /\ byEngineId'[i] = byEngineId[i]
            /\ byEngineId[i].owner \in Conns /\ byEngineId[i].clientOrderId \in Cids
          BY <3>2, <1>4 DEF TypeOK, LiveOrder
      <4>2. byConn[byEngineId[i].owner][byEngineId[i].clientOrderId] =
                [state |-> "Resting", engineId |-> i]
          BY <4>1 DEF RecordsMatchLiveOrders
      <4>3. ~(byEngineId[i].owner = conn /\ byEngineId[i].clientOrderId = cid)
          BY <4>2, <1>1
      <4> QED
          BY <4>1, <4>2, <4>3, <1>5
    <3> QED BY <3>1, <3>2
  <2>2. ASSUME NEW c \in Conns, NEW d \in Cids, byConn'[c][d].state = "Resting"
        PROVE  /\ byConn'[c][d].engineId \in DOMAIN byEngineId'
               /\ byEngineId'[byConn'[c][d].engineId].owner = c
               /\ byEngineId'[byConn'[c][d].engineId].clientOrderId = d
    <3>1. CASE c = conn /\ d = cid
        BY <3>1, <1>4, <1>5
    <3>2. CASE ~(c = conn /\ d = cid)
      <4>1. byConn'[c][d] = byConn[c][d]
          BY <3>2, <1>5
      <4> QED
          BY <4>1, <2>2, <1>4, <1>6 DEF RecordsMatchLiveOrders
    <3> QED BY <3>1, <3>2
  <2> QED
      BY <2>1, <2>2 DEF RecordsMatchLiveOrders
<1>11. DroppedLeavesNothing'
    BY <1>2, <1>3, <1>5 DEF DroppedLeavesNothing, TypeOK
<1>12. NoOwnCross'
  <2>1. ASSUME NEW i \in DOMAIN orders', NEW j \in DOMAIN orders',
               orders'[i].owner = orders'[j].owner,
               orders'[i].side = "Buy", orders'[j].side = "Sell"
        PROVE  orders'[i].price < orders'[j].price
    <3>1. \A k \in DOMAIN orders : /\ orders[k].price \in Nat /\ orders[k].side = byEngineId[k].side
                                   /\ orders[k].price = byEngineId[k].priceTicks
                                   /\ orders[k].owner = byEngineId[k].owner
        BY <1>6 DEF TypeOK, BookTypeOK, Order, LiveOrdersMatchBook
    <3>2. m.priceTicks \in Nat
        BY <1>1
    <3>3. CASE i = id /\ j # id
        BY <3>1, <3>2, <3>3, <2>1, <1>1, <1>3, <1>6 DEF WouldSelfCross, Crosses
    <3>4. CASE j = id /\ i # id
        BY <3>1, <3>2, <3>4, <2>1, <1>1, <1>3, <1>6 DEF WouldSelfCross, Crosses
    <3>5. CASE i # id /\ j # id
        BY <3>5, <2>1, <1>3 DEF NoOwnCross
    <3> QED BY <3>3, <3>4, <3>5, <2>1
  <2> QED
      BY <2>1 DEF NoOwnCross
<1>13. IdsFresh'
  <2>1. \A i \in DOMAIN orders : i \in Nat
      BY DEF TypeOK, BookTypeOK
  <2>2. \A c \in Conns, d \in Cids : byConn[c][d].engineId \in Nat
      BY DEF TypeOK, ClientRecord
  <2>3. \A i \in DOMAIN orders' : i < nextEngineId'
      BY <1>2, <1>3, <2>1 DEF IdsFresh
  <2>4. \A c \in Conns, d \in Cids : byConn'[c][d].engineId < nextEngineId'
      BY <1>2, <1>5, <2>2 DEF IdsFresh
  <2> QED
      BY <2>3, <2>4 DEF IdsFresh
<1>14. PoolInv'
  <2>1. /\ IsFiniteSet(DOMAIN orders') /\ Cardinality(DOMAIN orders') = Cardinality(DOMAIN orders) + 1
      BY <1>3, FS_AddElement DEF PoolInv
  <2>2. Cardinality(DOMAIN orders) \in Nat /\ Cardinality(DOMAIN orders) < SoftCap
      BY <1>1, <1>6, FS_CardinalityType DEF VenueFull, PoolInv
  <2> QED
      BY <2>1, <2>2 DEF PoolInv, PoolBounded
<1> QED
    BY <1>7, <1>8, <1>9, <1>10, <1>11, <1>12, <1>13, <1>14 DEF BookInv

\* The book and the tables after one round of the match loop and its callback.
LEMMA FillTables ==
    ASSUME IInv, NEW r \in DOMAIN orders, FillAndRoute(r)
    PROVE  /\ Fill(r) /\ taker \in DOMAIN byEngineId /\ r \in DOMAIN byEngineId
           /\ byEngineId[taker].remaining = orders[taker].qty /\ byEngineId[r].remaining = orders[r].qty
           /\ byEngineId[taker].owner = orders[taker].owner /\ byEngineId[r].owner = orders[r].owner
           /\ TablesAfterFill(taker, r, trade'.quantity)
<1> DEFINE q == trade'.quantity
<1> USE DEF IInv
<1>1. Fill(r) /\ BookTypeOK /\ BookInv
    BY DEF FillAndRoute, TypeOK, BookInv
<1>2. /\ taker \in DOMAIN orders /\ r # taker /\ taker' = taker
      /\ q \in Nat \ {0} /\ q <= orders[taker].qty /\ q <= orders[r].qty
      /\ orders[taker].side = "Buy" => trade'.buyOrderId = taker /\ trade'.sellOrderId = r
      /\ orders[taker].side = "Sell" => trade'.buyOrderId = r /\ trade'.sellOrderId = taker
      /\ DOMAIN orders' = {i \in DOMAIN orders : i = r => orders[r].qty > q}
      /\ \A i \in DOMAIN orders' :
            orders'[i] = [side |-> orders[i].side, price |-> orders[i].price,
                          qty |-> IF i \in {taker, r} THEN orders[i].qty - q ELSE orders[i].qty,
                          seq |-> orders[i].seq, owner |-> orders[i].owner]
    BY <1>1, FillFacts
<1>3. nextEngineId' = nextEngineId /\ dropped' = dropped
    BY DEF FillAndRoute
<1>4. /\ taker \in DOMAIN byEngineId /\ r \in DOMAIN byEngineId
      /\ byEngineId[taker].remaining = orders[taker].qty /\ byEngineId[r].remaining = orders[r].qty
      /\ byEngineId[taker].owner = orders[taker].owner /\ byEngineId[r].owner = orders[r].owner
  <2>1. orders[taker].qty \in Nat /\ orders[r].qty \in Nat
      BY <1>1, <1>2 DEF BookTypeOK, Order
  <2>2. orders[taker].qty > 0 /\ orders[r].qty > 0
      BY <1>2, <2>1
  <2> QED
      BY <1>2, <2>2, LiveFacts
<1>5. TablesAfterFill(taker, r, q)
  <2>1. /\ byEngineId' = OnTrade([live |-> byEngineId, records |-> byConn, out |-> <<>>], trade').live
        /\ byConn' = OnTrade([live |-> byEngineId, records |-> byConn, out |-> <<>>], trade').records
      BY DEF FillAndRoute
  <2>2. orders[taker].side \in Sides
      BY <1>1, <1>2 DEF BookTypeOK, Order
  <2>3. CASE orders[taker].side = "Buy"
      BY <2>1, <2>3, <1>2, <1>4, OnTradeFacts DEF OnTrade
  <2>4. CASE orders[taker].side = "Sell"
    <3>1. TablesAfterFill(r, taker, q)
        BY <2>1, <2>4, <1>2, <1>4, OnTradeFacts DEF OnTrade
    <3> QED
        BY <3>1, {taker, r} = {r, taker} DEF TablesAfterFill
  <2> QED BY <2>2, <2>3, <2>4 DEF Sides
<1> QED
    BY <1>1, <1>4, <1>5

\* A fill changes the quantity of both orders in the book and in the table, and
\* takes a spent resting order out of both, a spent incoming one out of the table.
LEMMA FillAndRouteInv ==
    ASSUME IInv, NEW r \in DOMAIN orders, FillAndRoute(r)
    PROVE  IInv'
<1> DEFINE q == trade'.quantity
<1> USE DEF IInv
<1>1. Fill(r) /\ BookTypeOK /\ BookInv
    BY DEF FillAndRoute, TypeOK, BookInv
<1>2. /\ taker \in DOMAIN orders /\ r # taker /\ taker' = taker
      /\ q \in Nat \ {0} /\ q <= orders[taker].qty /\ q <= orders[r].qty
      /\ DOMAIN orders' = {i \in DOMAIN orders : i = r => orders[r].qty > q}
      /\ \A i \in DOMAIN orders' :
            orders'[i] = [side |-> orders[i].side, price |-> orders[i].price,
                          qty |-> IF i \in {taker, r} THEN orders[i].qty - q ELSE orders[i].qty,
                          seq |-> orders[i].seq, owner |-> orders[i].owner]
    BY <1>1, FillFacts
<1>3. nextEngineId' = nextEngineId /\ dropped' = dropped
    BY DEF FillAndRoute
<1>4. /\ taker \in DOMAIN byEngineId /\ r \in DOMAIN byEngineId
      /\ byEngineId[taker].remaining = orders[taker].qty /\ byEngineId[r].remaining = orders[r].qty
      /\ byEngineId[taker].owner = orders[taker].owner /\ byEngineId[r].owner = orders[r].owner
    BY FillTables
<1>5. TablesAfterFill(taker, r, q)
    BY FillTables
<1>6. BookInv'
    BY <1>1, FillBook
<1> HIDE DEF q
<1>7. TypeOK'
    BY <1>3, <1>5, <1>6 DEF TypeOK, BookInv, TablesAfterFill
<1>8. \A i \in DOMAIN orders' : /\ orders'[i].owner = orders[i].owner /\ orders'[i].side = orders[i].side
                                /\ orders'[i].price = orders[i].price
                                /\ orders'[i].qty = IF i \in {taker, r} THEN orders[i].qty - q
                                                    ELSE orders[i].qty
  <2> TAKE i \in DOMAIN orders'
  <2> DEFINE left == IF i \in {taker, r} THEN orders[i].qty - q ELSE orders[i].qty
  <2>1. orders'[i] = [side |-> orders[i].side, price |-> orders[i].price, qty |-> left,
                      seq |-> orders[i].seq, owner |-> orders[i].owner]
      BY <1>2
  <2> HIDE DEF left
  <2>2. orders'[i].owner = orders[i].owner /\ orders'[i].side = orders[i].side
        /\ orders'[i].price = orders[i].price /\ orders'[i].qty = left
      BY <2>1
  <2> QED
      BY <2>2 DEF left
<1> DEFINE spent(c, d) == \E k \in {taker, r} : /\ c = byEngineId[k].owner
                                                 /\ d = byEngineId[k].clientOrderId
                                                 /\ byEngineId[k].remaining = q
<1>rec. \A c \in Conns, d \in Cids :
          byConn'[c][d] = IF spent(c, d) THEN [state |-> "Filled", engineId |-> byConn[c][d].engineId]
                          ELSE byConn[c][d]
    BY <1>5 DEF TablesAfterFill
<1>9. LiveOrdersMatchBook'
  <2>1. \A i \in DOMAIN orders : orders[i].qty \in Nat
      BY <1>1 DEF BookTypeOK, Order
  <2>2. DOMAIN byEngineId = {i \in DOMAIN orders : orders[i].qty > 0}
      BY DEF LiveOrdersMatchBook
  <2>3. DOMAIN byEngineId' = {k \in DOMAIN byEngineId : k \in {taker, r} => byEngineId[k].remaining > q}
      BY <1>5 DEF TablesAfterFill
  <2>4. DOMAIN byEngineId' = {i \in DOMAIN orders' : orders'[i].qty > 0}
      BY <1>2, <1>4, <1>8, <2>1, <2>2, <2>3
  <2>5. ASSUME NEW i \in DOMAIN byEngineId'
        PROVE  /\ byEngineId'[i].owner = orders'[i].owner
               /\ byEngineId'[i].side = orders'[i].side
               /\ byEngineId'[i].priceTicks = orders'[i].price
               /\ byEngineId'[i].remaining = orders'[i].qty
    <3>1. i \in DOMAIN byEngineId /\ i \in DOMAIN orders'
        BY <2>3, <2>4
    <3>2. byEngineId'[i] = [owner |-> byEngineId[i].owner,
                            clientOrderId |-> byEngineId[i].clientOrderId,
                            side |-> byEngineId[i].side, priceTicks |-> byEngineId[i].priceTicks,
                            remaining |-> IF i \in {taker, r} THEN byEngineId[i].remaining - q
                                          ELSE byEngineId[i].remaining]
        BY <1>5 DEF TablesAfterFill
    <3> QED
        BY <3>1, <3>2, <1>8 DEF LiveOrdersMatchBook
  <2> QED
      BY <2>4, <2>5 DEF LiveOrdersMatchBook
<1>10. RecordsMatchLiveOrders'
  <2>1. ASSUME NEW k \in DOMAIN byEngineId'
        PROVE  /\ k \in DOMAIN byEngineId
               /\ byEngineId'[k].owner = byEngineId[k].owner
               /\ byEngineId'[k].clientOrderId = byEngineId[k].clientOrderId
               /\ byEngineId[k].owner \in Conns /\ byEngineId[k].clientOrderId \in Cids
               /\ k \in {taker, r} => byEngineId[k].remaining # q
    <3>1. k \in DOMAIN byEngineId /\ (k \in {taker, r} => byEngineId[k].remaining > q)
        BY <1>5 DEF TablesAfterFill
    <3>2. byEngineId'[k].owner = byEngineId[k].owner /\ byEngineId'[k].clientOrderId = byEngineId[k].clientOrderId
      <4> DEFINE left == IF k \in {taker, r} THEN byEngineId[k].remaining - q ELSE byEngineId[k].remaining
      <4>1. byEngineId'[k] = [owner |-> byEngineId[k].owner,
                              clientOrderId |-> byEngineId[k].clientOrderId,
                              side |-> byEngineId[k].side, priceTicks |-> byEngineId[k].priceTicks,
                              remaining |-> left]
          BY <1>5 DEF TablesAfterFill
      <4> HIDE DEF left
      <4> QED BY <4>1
    <3>3. byEngineId[k] \in LiveOrder
        BY <3>1 DEF TypeOK
    <3> QED
        BY <3>1, <3>2, <3>3, <1>2 DEF LiveOrder
  <2>2. ASSUME NEW k \in DOMAIN byEngineId'
        PROVE  byConn'[byEngineId'[k].owner][byEngineId'[k].clientOrderId] =
                   [state |-> "Resting", engineId |-> k]
    <3> DEFINE c == byEngineId[k].owner
               d == byEngineId[k].clientOrderId
    <3>1. byConn[c][d] = [state |-> "Resting", engineId |-> k]
        BY <2>1 DEF RecordsMatchLiveOrders
    <3>2. \A i \in {taker, r} : c = byEngineId[i].owner /\ d = byEngineId[i].clientOrderId => i = k
      <4>1. \A i \in {taker, r} : byConn[byEngineId[i].owner][byEngineId[i].clientOrderId] =
                                      [state |-> "Resting", engineId |-> i]
          BY <1>4 DEF RecordsMatchLiveOrders
      <4> QED BY <3>1, <4>1
    <3>3. ~ \E i \in {taker, r} : c = byEngineId[i].owner /\ d = byEngineId[i].clientOrderId
                                    /\ byEngineId[i].remaining = q
        BY <3>2, <2>1
    <3>4. byConn'[c][d] = byConn[c][d]
        BY ZenonT(40), <3>3, <2>1, <1>5 DEF TablesAfterFill
    <3> QED
        BY <3>1, <3>4, <2>1
  <2>3. ASSUME NEW c \in Conns, NEW d \in Cids, byConn'[c][d].state = "Resting"
        PROVE  /\ byConn'[c][d].engineId \in DOMAIN byEngineId'
               /\ byEngineId'[byConn'[c][d].engineId].owner = c
               /\ byEngineId'[byConn'[c][d].engineId].clientOrderId = d
    <3>1. /\ byConn'[c][d] = byConn[c][d]
          /\ ~ \E i \in {taker, r} : c = byEngineId[i].owner /\ d = byEngineId[i].clientOrderId
                                       /\ byEngineId[i].remaining = q
      <4>1. ~spent(c, d)
        <5>1. ASSUME spent(c, d) PROVE FALSE
          <6>1. byConn'[c][d] = [state |-> "Filled", engineId |-> byConn[c][d].engineId]
              BY <5>1, <1>rec
          <6> QED BY <6>1, <2>3
        <5> QED BY <5>1
      <4>2. byConn'[c][d] = byConn[c][d]
          BY <4>1, <1>rec
      <4> QED BY <4>1, <4>2
    <3> DEFINE k == byConn[c][d].engineId
    <3>2. k \in DOMAIN byEngineId /\ byEngineId[k].owner = c /\ byEngineId[k].clientOrderId = d
        BY <3>1, <2>3 DEF RecordsMatchLiveOrders
    <3>3. k \in {taker, r} => byEngineId[k].remaining > q
      <4>1. k \in {taker, r} => byEngineId[k].remaining # q
          BY <3>1, <3>2
      <4>2. k \in {taker, r} => byEngineId[k].remaining >= q /\ byEngineId[k].remaining \in Nat
          BY <1>2, <1>4, <1>1 DEF BookTypeOK, Order
      <4> QED BY <4>1, <4>2, <1>2
    <3>4. k \in DOMAIN byEngineId'
        BY <3>2, <3>3, <1>5 DEF TablesAfterFill
    <3> QED
        BY <3>1, <3>2, <3>4, <2>1
  <2> QED
      BY <2>2, <2>3 DEF RecordsMatchLiveOrders
<1>11. DroppedLeavesNothing'
  <2>1. ASSUME NEW c \in dropped, NEW d \in Cids
        PROVE  byConn'[c][d] = byConn[c][d]
    <3>1. c \in Conns
        BY DEF TypeOK
    <3>2. byEngineId[taker].owner # c /\ byEngineId[r].owner # c
        BY <1>2, <1>4 DEF DroppedLeavesNothing
    <3>3. ~spent(c, d)
        BY <3>2
    <3> QED
        BY <3>1, <3>3, <1>rec
  <2> QED
      BY <2>1, <1>2, <1>3, <1>8 DEF DroppedLeavesNothing
<1>12. NoOwnCross'
    BY <1>2, <1>8 DEF NoOwnCross
<1>13. IdsFresh'
  <2>1. ASSUME NEW c \in Conns, NEW d \in Cids
        PROVE  byConn'[c][d].engineId = byConn[c][d].engineId
    <3>1. \/ byConn'[c][d] = [state |-> "Filled", engineId |-> byConn[c][d].engineId]
          \/ byConn'[c][d] = byConn[c][d]
        BY <1>rec
    <3> QED BY <3>1
  <2> QED
      BY <2>1, <1>2, <1>3 DEF IdsFresh
<1>14. PoolInv'
    BY <1>2, PoolShrinks
<1> QED
    BY <1>6, <1>7, <1>9, <1>10, <1>11, <1>12, <1>13, <1>14 DEF BookInv

\* A spent incoming order is no longer in the table when it leaves the book.
LEMMA SettleOrderInv ==
    ASSUME IInv, SettleOrder
    PROVE  IInv'
<1> USE DEF IInv
<1>1. Settle /\ UNCHANGED <<nextEngineId, byEngineId, byConn, dropped>>
    BY DEF SettleOrder
<1>2. BookInv'
    BY <1>1, SettleBook DEF BookInv, TypeOK
<1>3. /\ DOMAIN orders' = {i \in DOMAIN orders : i = taker => orders[i].qty > 0}
      /\ \A i \in DOMAIN orders' : orders'[i] = orders[i]
    BY <1>1 DEF Settle, Erase
<1>4. TypeOK' /\ RecordsMatchLiveOrders'
    BY <1>1, <1>2 DEF TypeOK, RecordsMatchLiveOrders, BookInv
<1>5. LiveOrdersMatchBook'
    BY <1>1, <1>3 DEF LiveOrdersMatchBook
<1>6. DroppedLeavesNothing' /\ NoOwnCross' /\ IdsFresh'
    BY <1>1, <1>3 DEF DroppedLeavesNothing, NoOwnCross, IdsFresh
<1>7. PoolInv'
    BY <1>3, PoolShrinks
<1> QED
    BY <1>2, <1>4, <1>5, <1>6, <1>7 DEF BookInv

\* Cancelling ids in the book and erasing them from byEngineId_ keeps the two in
\* step, whoever the orders belong to.
LEMMA EraseInv ==
    ASSUME IInv, NEW ids, CancelOrders(ids), byEngineId' = Erase(byEngineId, ids)
    PROVE  /\ BookInv' /\ LiveOrdersMatchBook' /\ NoOwnCross' /\ PoolInv'
           /\ DOMAIN orders' = DOMAIN orders \ ids
           /\ \A i \in DOMAIN orders' : orders'[i] = orders[i]
           /\ DOMAIN byEngineId' = DOMAIN byEngineId \ ids
           /\ \A i \in DOMAIN byEngineId' : byEngineId'[i] = byEngineId[i]
<1> USE DEF IInv
<1>1. BookInv'
    BY CancelBook DEF BookInv, TypeOK
<1>2. /\ DOMAIN orders' = DOMAIN orders \ ids
      /\ \A i \in DOMAIN orders' : orders'[i] = orders[i]
      /\ DOMAIN byEngineId' = DOMAIN byEngineId \ ids
      /\ \A i \in DOMAIN byEngineId' : byEngineId'[i] = byEngineId[i]
    BY DEF CancelOrders, Erase
<1>3. LiveOrdersMatchBook'
    BY <1>2 DEF LiveOrdersMatchBook
<1>4. NoOwnCross'
    BY <1>2 DEF NoOwnCross
<1>5. PoolInv'
    BY <1>2, PoolShrinks
<1> QED
    BY <1>1, <1>2, <1>3, <1>4, <1>5

\* An acknowledged cancel removes the one live order its record stands for.
LEMMA AcceptCancelInv ==
    ASSUME IInv, NEW conn \in Conns, NEW m \in Messages, AcceptCancel(conn, m)
    PROVE  IInv'
<1> DEFINE cid == m.clientOrderId
           id  == byConn[conn][cid].engineId
<1> USE DEF IInv
<1>1. /\ cid \in Cids /\ conn \notin dropped
      /\ CancelOrders({id}) /\ byEngineId' = Erase(byEngineId, {id})
      /\ nextEngineId' = nextEngineId /\ dropped' = dropped
      /\ byConn' = [byConn EXCEPT ![conn][cid].state = "Cancelled"]
      /\ byConn[conn][cid].state \notin {"Absent", "Filled", "Cancelled"}
    BY DEF AcceptCancel, Receives, CancelRejectReason
<1>2. /\ byConn \in [Conns -> [Cids -> ClientRecord]]
      /\ byConn[conn][cid] \in ClientRecord /\ byConn[conn][cid].state = "Resting"
    BY <1>1 DEF TypeOK, ClientRecord
<1>3. id \in DOMAIN byEngineId /\ byEngineId[id].owner = conn /\ byEngineId[id].clientOrderId = cid
    BY <1>1, <1>2 DEF RecordsMatchLiveOrders
<1>4. /\ BookInv' /\ LiveOrdersMatchBook' /\ NoOwnCross' /\ PoolInv'
      /\ DOMAIN orders' = DOMAIN orders \ {id}
      /\ \A i \in DOMAIN orders' : orders'[i] = orders[i]
      /\ DOMAIN byEngineId' = DOMAIN byEngineId \ {id}
      /\ \A i \in DOMAIN byEngineId' : byEngineId'[i] = byEngineId[i]
    BY <1>1, EraseInv
<1>5. /\ \A c \in Conns, d \in Cids :
            byConn'[c][d] = IF c = conn /\ d = cid THEN [state |-> "Cancelled", engineId |-> id]
                            ELSE byConn[c][d]
      /\ byConn' \in [Conns -> [Cids -> ClientRecord]]
  <2>1. [byConn[conn][cid] EXCEPT !.state = "Cancelled"] = [state |-> "Cancelled", engineId |-> id]
      BY <1>2 DEF ClientRecord
  <2>2. [state |-> "Cancelled", engineId |-> id] \in ClientRecord
      BY <1>2 DEF ClientRecord
  <2>3. byConn' = [byConn EXCEPT ![conn][cid] = [state |-> "Cancelled", engineId |-> id]]
      BY <1>1, <2>1
  <2> QED
      BY <1>1, <1>2, <2>2, <2>3
<1>6. TypeOK'
    BY <1>1, <1>4, <1>5 DEF TypeOK, BookInv
<1>7. RecordsMatchLiveOrders'
  <2>1. ASSUME NEW i \in DOMAIN byEngineId'
        PROVE  byConn'[byEngineId'[i].owner][byEngineId'[i].clientOrderId] =
                   [state |-> "Resting", engineId |-> i]
    <3>1. /\ i \in DOMAIN byEngineId /\ i # id /\ byEngineId'[i] = byEngineId[i]
          /\ byEngineId[i].owner \in Conns /\ byEngineId[i].clientOrderId \in Cids
        BY <1>4 DEF TypeOK, LiveOrder
    <3>2. byConn[byEngineId[i].owner][byEngineId[i].clientOrderId] =
              [state |-> "Resting", engineId |-> i]
        BY <3>1 DEF RecordsMatchLiveOrders
    <3>3. ~(byEngineId[i].owner = conn /\ byEngineId[i].clientOrderId = cid)
        BY <3>1, <3>2
    <3> QED
        BY <3>1, <3>2, <3>3, <1>5
  <2>2. ASSUME NEW c \in Conns, NEW d \in Cids, byConn'[c][d].state = "Resting"
        PROVE  /\ byConn'[c][d].engineId \in DOMAIN byEngineId'
               /\ byEngineId'[byConn'[c][d].engineId].owner = c
               /\ byEngineId'[byConn'[c][d].engineId].clientOrderId = d
    <3>1. ~(c = conn /\ d = cid) /\ byConn'[c][d] = byConn[c][d]
        BY <2>2, <1>5
    <3>2. /\ byConn[c][d].engineId \in DOMAIN byEngineId
          /\ byEngineId[byConn[c][d].engineId].owner = c
          /\ byEngineId[byConn[c][d].engineId].clientOrderId = d
        BY <2>2, <3>1 DEF RecordsMatchLiveOrders
    <3> QED
        BY <3>1, <3>2, <1>3, <1>4
  <2> QED
      BY <2>1, <2>2 DEF RecordsMatchLiveOrders
<1>8. DroppedLeavesNothing'
    BY <1>1, <1>4, <1>5 DEF DroppedLeavesNothing, TypeOK
<1>9. IdsFresh'
    BY <1>1, <1>4, <1>5 DEF IdsFresh
<1> QED
    BY <1>4, <1>6, <1>7, <1>8, <1>9 DEF BookInv

\* Dropping a connection removes all of its orders and records and no other.
LEMMA DropConnectionInv ==
    ASSUME IInv, NEW conn \in Conns, DropConnection(conn)
    PROVE  IInv'
<1> DEFINE owned == {i \in DOMAIN byEngineId : byEngineId[i].owner = conn}
<1> USE DEF IInv
<1>1. /\ CancelOrders(owned) /\ byEngineId' = Erase(byEngineId, owned)
      /\ nextEngineId' = nextEngineId /\ dropped' = dropped \cup {conn}
      /\ byConn' = [byConn EXCEPT ![conn] = [cid \in Cids |-> Absent]]
    BY DEF DropConnection
<1>2. /\ BookInv' /\ LiveOrdersMatchBook' /\ NoOwnCross' /\ PoolInv'
      /\ DOMAIN orders' = DOMAIN orders \ owned
      /\ \A i \in DOMAIN orders' : orders'[i] = orders[i]
      /\ DOMAIN byEngineId' = DOMAIN byEngineId \ owned
      /\ \A i \in DOMAIN byEngineId' : byEngineId'[i] = byEngineId[i]
    BY <1>1, EraseInv
<1>3. /\ \A c \in Conns, d \in Cids :
            byConn'[c][d] = IF c = conn THEN Absent ELSE byConn[c][d]
      /\ byConn' \in [Conns -> [Cids -> ClientRecord]]
    BY <1>1 DEF TypeOK, ClientRecord, Absent
<1>4. DOMAIN byEngineId = DOMAIN orders
  <2>1. taker = NoTaker /\ NoTaker \notin DOMAIN orders
      BY <1>1 DEF CancelOrders, TypeOK, BookTypeOK, NoTaker
  <2> QED
      BY <2>1 DEF TypeOK, BookTypeOK, Resting, LiveOrdersMatchBook
<1>5. TypeOK'
    BY <1>1, <1>2, <1>3 DEF TypeOK, BookInv
<1>6. RecordsMatchLiveOrders'
  <2>1. ASSUME NEW i \in DOMAIN byEngineId'
        PROVE  byConn'[byEngineId'[i].owner][byEngineId'[i].clientOrderId] =
                   [state |-> "Resting", engineId |-> i]
    <3>1. /\ i \in DOMAIN byEngineId /\ byEngineId[i].owner # conn /\ byEngineId'[i] = byEngineId[i]
          /\ byEngineId[i].owner \in Conns /\ byEngineId[i].clientOrderId \in Cids
        BY <1>2 DEF TypeOK, LiveOrder
    <3> QED
        BY <3>1, <1>3 DEF RecordsMatchLiveOrders
  <2>2. ASSUME NEW c \in Conns, NEW d \in Cids, byConn'[c][d].state = "Resting"
        PROVE  /\ byConn'[c][d].engineId \in DOMAIN byEngineId'
               /\ byEngineId'[byConn'[c][d].engineId].owner = c
               /\ byEngineId'[byConn'[c][d].engineId].clientOrderId = d
    <3>1. c # conn /\ byConn'[c][d] = byConn[c][d]
        BY <2>2, <1>3 DEF Absent
    <3> QED
        BY <3>1, <2>2, <1>2 DEF RecordsMatchLiveOrders
  <2> QED
      BY <2>1, <2>2 DEF RecordsMatchLiveOrders
<1>7. DroppedLeavesNothing'
  <2>1. \A i \in DOMAIN orders' : orders'[i].owner # conn
      BY <1>2, <1>4 DEF LiveOrdersMatchBook
  <2> QED
      BY <2>1, <1>1, <1>2, <1>3 DEF DroppedLeavesNothing, TypeOK
<1>8. IdsFresh'
  <2>1. \A c \in Conns, d \in Cids : byConn'[c][d].engineId < nextEngineId'
    <3>1. nextEngineId \in Nat /\ nextEngineId > 0 /\ Absent.engineId = 0
        BY DEF TypeOK, Absent
    <3> QED
        BY <3>1, <1>1, <1>3 DEF IdsFresh
  <2> QED
      BY <2>1, <1>1, <1>2 DEF IdsFresh
<1> QED
    BY <1>2, <1>5, <1>6, <1>7, <1>8 DEF BookInv

\* Replies that change no table, and stuttering.
LEMMA UnchangedInv ==
    ASSUME IInv, UNCHANGED <<bookVars, nextEngineId, byEngineId, byConn, dropped>>
    PROVE  IInv'
<1>1. UNCHANGED <<orders, taker, sequence, nextEngineId, byEngineId, byConn, dropped>>
    BY DEF bookVars
<1> QED
    BY <1>1 DEF IInv, TypeOK, BookTypeOK, Resting, NotCrossed, LiveOrdersMatchBook,
        RecordsMatchLiveOrders, DroppedLeavesNothing, NoOwnCross, IdsFresh, PoolInv, PoolBounded

-----------------------------------------------------------------------------
LEMMA InitInv == Init => IInv
<1> SUFFICES ASSUME Init PROVE IInv
    OBVIOUS
<1>1. /\ DOMAIN orders = {} /\ taker = NoTaker /\ sequence = 0 /\ nextEngineId = 1
      /\ DOMAIN byEngineId = {} /\ dropped = {}
      /\ byConn = [c \in Conns |-> [cid \in Cids |-> Absent]]
    BY DEF Init, BookInit
<1>2. byConn \in [Conns -> [Cids -> ClientRecord]] /\ \A c \in Conns, d \in Cids : byConn[c][d] = Absent
    BY <1>1 DEF ClientRecord, Absent
<1>3. TypeOK
    BY <1>1, <1>2 DEF TypeOK, BookTypeOK, Resting
<1>4. NotCrossed /\ LiveOrdersMatchBook /\ DroppedLeavesNothing /\ NoOwnCross
    BY <1>1 DEF NotCrossed, Resting, LiveOrdersMatchBook, DroppedLeavesNothing, NoOwnCross
<1>5. RecordsMatchLiveOrders /\ IdsFresh
    BY <1>1, <1>2 DEF RecordsMatchLiveOrders, IdsFresh, Absent
<1>6. PoolInv
    BY <1>1, FS_EmptySet DEF PoolInv, PoolBounded
<1> QED
    BY <1>3, <1>4, <1>5, <1>6 DEF IInv

LEMMA NextInv == IInv /\ [Next]_vars => IInv'
<1> SUFFICES ASSUME IInv, [Next]_vars PROVE IInv'
    OBVIOUS
<1>1. ASSUME NEW conn \in Conns, NEW m \in Messages,
             \/ HandleUnknown(conn, m) \/ HandleHeartbeat(conn, m)
             \/ RejectNewOrder(conn, m) \/ RejectCancel(conn, m)
      PROVE  IInv'
    BY <1>1, UnchangedInv DEF HandleUnknown, HandleHeartbeat, RejectNewOrder, RejectCancel
<1>2. CASE UNCHANGED vars
    BY <1>2, UnchangedInv DEF vars, tableVars
<1> QED
    BY <1>1, <1>2, AcceptNewOrderInv, AcceptCancelInv, FillAndRouteInv, SettleOrderInv,
       DropConnectionInv DEF Next

\* The inductive invariant holds in every reachable state.
THEOREM VenueInvariant == Spec => []IInv
BY InitInv, NextInv, PTL DEF Spec

\* The venue's state is well typed, in particular only an incoming order is spent.
THEOREM VenueWellTyped == Spec => []TypeOK
<1>1. IInv => TypeOK
    BY DEF IInv
<1> QED
    BY <1>1, VenueInvariant, PTL

\* byEngineId_ agrees with the book and byConn_ with byEngineId_ after every
\* handler and every trade callback.
THEOREM TablesAgree == Spec => []TablesMatch
<1>1. IInv => TablesMatch
    BY DEF IInv, TablesMatch
<1> QED
    BY <1>1, VenueInvariant, PTL

\* The book's self-match branch is dead code under the venue: the check at the
\* door is enough for the whole match, however many rounds it takes.
THEOREM NoSelfMatch == Spec => []SelfMatchUnreachable
<1>1. IInv => SelfMatchUnreachable
  <2> SUFFICES ASSUME IInv, taker # NoTaker, NEW r \in DOMAIN orders, IsBestContra(r)
               PROVE  orders[r].owner # orders[taker].owner
      BY DEF SelfMatchUnreachable
  <2>1. /\ taker \in DOMAIN orders /\ orders[taker] \in Order /\ orders[r] \in Order
        /\ orders[r].side # orders[taker].side
        /\ Crosses(orders[taker].side, orders[taker].price, orders[r].price)
      BY DEF IInv, TypeOK, BookTypeOK, IsBestContra, Contra
  <2>2. orders[taker].price \in Nat /\ orders[r].price \in Nat
      BY <2>1 DEF Order
  <2>3. CASE orders[taker].side = "Buy" /\ orders[r].side = "Sell"
      BY <2>1, <2>2, <2>3 DEF IInv, NoOwnCross, Crosses
  <2>4. CASE orders[taker].side = "Sell" /\ orders[r].side = "Buy"
      BY <2>1, <2>2, <2>4 DEF IInv, NoOwnCross, Crosses
  <2> QED
      BY <2>1, <2>3, <2>4 DEF Order, Sides
<1> QED
    BY <1>1, VenueInvariant, PTL

\* The pool never runs out: the book holds at most softCap_ orders, the incoming
\* one included.
THEOREM PoolNeverRunsOut == Spec => []PoolBounded
<1>1. IInv => PoolBounded
    BY DEF IInv, PoolInv
<1> QED
    BY <1>1, VenueInvariant, PTL

\* Nothing of a closed connection is left in the book or the tables.
THEOREM DropIsClean == Spec => []DroppedLeavesNothing
<1>1. IInv => DroppedLeavesNothing
    BY DEF IInv
<1> QED
    BY <1>1, VenueInvariant, PTL

\* The venue's book is never crossed.
THEOREM VenueNotCrossed == Spec => []NotCrossed
<1>1. IInv => NotCrossed
    BY DEF IInv
<1> QED
    BY <1>1, VenueInvariant, PTL

-----------------------------------------------------------------------------
\* A fill turns Resting records into Filled ones and touches no other.
LEMMA FillRecords ==
    ASSUME IInv, NEW r \in DOMAIN orders, FillAndRoute(r)
    PROVE  RecordsStep
<1> DEFINE q == trade'.quantity
<1>1. /\ taker \in DOMAIN byEngineId /\ r \in DOMAIN byEngineId
      /\ TablesAfterFill(taker, r, q)
    BY FillTables
<1> HIDE DEF q
<1>2. ASSUME NEW c \in Conns, NEW d \in Cids
      PROVE  \/ byConn'[c][d] = byConn[c][d]
             \/ /\ byConn[c][d].state = "Resting"
                /\ byConn'[c][d] = [state |-> "Filled", engineId |-> byConn[c][d].engineId]
  <2>1. CASE \E k \in {taker, r} : /\ c = byEngineId[k].owner /\ d = byEngineId[k].clientOrderId
                                   /\ byEngineId[k].remaining = q
    <3>1. byConn'[c][d] = [state |-> "Filled", engineId |-> byConn[c][d].engineId]
        BY <1>1, <2>1 DEF TablesAfterFill
    <3>2. PICK k \in {taker, r} : c = byEngineId[k].owner /\ d = byEngineId[k].clientOrderId
        BY <2>1
    <3>3. byConn[c][d] = [state |-> "Resting", engineId |-> k]
        BY <1>1, <3>2 DEF IInv, RecordsMatchLiveOrders
    <3> QED
        BY <3>1, <3>3
  <2>2. CASE ~ \E k \in {taker, r} : /\ c = byEngineId[k].owner /\ d = byEngineId[k].clientOrderId
                                     /\ byEngineId[k].remaining = q
      BY <1>1, <2>2 DEF TablesAfterFill
  <2> QED BY <2>1, <2>2
<1>3. ASSUME NEW c \in Conns, NEW d \in Cids
      PROVE  /\ byConn'[c][d].engineId = byConn[c][d].engineId
             /\ byConn[c][d].state # "Resting" => byConn'[c][d] = byConn[c][d]
  <2>1. CASE byConn'[c][d] = byConn[c][d]
      BY <2>1
  <2>2. CASE /\ byConn[c][d].state = "Resting"
             /\ byConn'[c][d] = [state |-> "Filled", engineId |-> byConn[c][d].engineId]
      BY <2>2
  <2> QED BY <1>2, <2>1, <2>2
<1>4. SUFFICES ASSUME NEW c \in Conns \ dropped', NEW d \in Cids
               PROVE  /\ byConn[c][d].state # "Absent" => byConn'[c][d].engineId = byConn[c][d].engineId
                      /\ byConn[c][d].state \in {"Filled", "Cancelled"} => byConn'[c][d] = byConn[c][d]
                      /\ ~(byConn[c][d].state = "Absent" /\ byConn'[c][d].state # "Absent")
    BY DEF RecordsStep
<1>5. /\ byConn[c][d].state \in {"Filled", "Cancelled"} => byConn[c][d].state # "Resting"
      /\ byConn[c][d].state = "Absent" => byConn[c][d].state # "Resting"
    OBVIOUS
<1> QED
    BY <1>3, <1>5

\* An accepted order's record is new and its engine id has never been used.
LEMMA AcceptRecords ==
    ASSUME IInv, NEW conn \in Conns, NEW m \in Messages, AcceptNewOrder(conn, m)
    PROVE  RecordsStep
<1>1. m.clientOrderId \in Cids /\ byConn[conn][m.clientOrderId].state = "Absent"
    BY AdmittedFacts DEF AcceptNewOrder, IInv
<1>2. /\ byConn \in [Conns -> [Cids -> ClientRecord]]
      /\ byConn' = [byConn EXCEPT ![conn][m.clientOrderId] =
                      [state |-> "Resting", engineId |-> nextEngineId]]
    BY DEF AcceptNewOrder, IInv, TypeOK
<1>3. \A c \in Conns, d \in Cids : byConn[c][d].engineId # nextEngineId
  <2>1. \A c \in Conns, d \in Cids : byConn[c][d].engineId \in Nat /\ nextEngineId \in Nat
      BY <1>2 DEF ClientRecord, IInv, TypeOK
  <2> QED
      BY <2>1 DEF IInv, IdsFresh
<1>4. ASSUME NEW c \in Conns, NEW d \in Cids
      PROVE  \/ byConn'[c][d] = byConn[c][d]
             \/ /\ byConn[c][d].state = "Absent"
                /\ byConn'[c][d] = [state |-> "Resting", engineId |-> nextEngineId]
    BY <1>1, <1>2
<1>5. ASSUME NEW c \in Conns, NEW d \in Cids
      PROVE  /\ byConn[c][d].state # "Absent" => byConn'[c][d] = byConn[c][d]
             /\ byConn[c][d].state = "Absent" /\ byConn'[c][d].state # "Absent" =>
                   \A e \in Conns, f \in Cids : byConn[e][f].engineId # byConn'[c][d].engineId
  <2>1. CASE byConn'[c][d] = byConn[c][d]
      BY <2>1
  <2>2. CASE /\ byConn[c][d].state = "Absent"
             /\ byConn'[c][d] = [state |-> "Resting", engineId |-> nextEngineId]
    <3>1. byConn'[c][d].engineId = nextEngineId
        BY <2>2
    <3> QED BY <2>2, <3>1, <1>3
  <2> QED BY <1>4, <2>1, <2>2
<1>6. SUFFICES ASSUME NEW c \in Conns \ dropped', NEW d \in Cids
               PROVE  /\ byConn[c][d].state # "Absent" => byConn'[c][d].engineId = byConn[c][d].engineId
                      /\ byConn[c][d].state \in {"Filled", "Cancelled"} => byConn'[c][d] = byConn[c][d]
                      /\ byConn[c][d].state = "Absent" /\ byConn'[c][d].state # "Absent" =>
                            \A e \in Conns, f \in Cids : byConn[e][f].engineId # byConn'[c][d].engineId
    BY DEF RecordsStep
<1>7. byConn[c][d].state \in {"Filled", "Cancelled"} => byConn[c][d].state # "Absent"
    OBVIOUS
<1> QED
    BY <1>5, <1>7

\* A cancel turns one Resting record into a Cancelled one.
LEMMA CancelRecords ==
    ASSUME IInv, NEW conn \in Conns, NEW m \in Messages, AcceptCancel(conn, m)
    PROVE  RecordsStep
<1> DEFINE cid == m.clientOrderId
<1>1. /\ cid \in Cids
      /\ byConn' = [byConn EXCEPT ![conn][cid].state = "Cancelled"]
      /\ byConn[conn][cid].state \notin {"Absent", "Filled", "Cancelled"}
    BY DEF AcceptCancel, CancelRejectReason
<1>2. byConn \in [Conns -> [Cids -> ClientRecord]]
    BY DEF IInv, TypeOK
<1>3. ASSUME NEW c \in Conns, NEW d \in Cids
      PROVE  \/ byConn'[c][d] = byConn[c][d]
             \/ /\ byConn[c][d].state \notin {"Absent", "Filled", "Cancelled"}
                /\ byConn'[c][d].engineId = byConn[c][d].engineId
  <2>1. CASE c = conn /\ d = cid
    <3>1. byConn[conn][cid] \in ClientRecord
        BY <1>1, <1>2
    <3>2. byConn'[c][d] = [byConn[conn][cid] EXCEPT !.state = "Cancelled"]
        BY <2>1, <1>1, <1>2
    <3> QED
        BY <2>1, <3>1, <3>2, <1>1 DEF ClientRecord
  <2>2. CASE ~(c = conn /\ d = cid)
      BY <2>2, <1>1, <1>2
  <2> QED BY <2>1, <2>2
<1> QED
    BY <1>3 DEF RecordsStep

\* Filled and Cancelled are final, a record keeps its engine id and no engine id
\* is ever given to a second order, for as long as the connection lives.
THEOREM RecordsAreFinal == Spec => RecordsFinal
<1>1. IInv /\ [Next]_vars => [RecordsStep]_byConn
  <2> SUFFICES ASSUME IInv, Next PROVE RecordsStep
      BY DEF vars, tableVars
  <2>1. ASSUME byConn' = byConn PROVE RecordsStep
      BY <2>1 DEF RecordsStep
  <2>2. ASSUME NEW conn \in Conns, DropConnection(conn) PROVE RecordsStep
    <3>1. /\ dropped' = dropped \cup {conn}
          /\ \A c \in Conns \ dropped' : byConn'[c] = byConn[c]
        BY <2>2 DEF DropConnection, IInv, TypeOK
    <3> QED
        BY <3>1 DEF RecordsStep
  <2>3. ASSUME NEW conn \in Conns, NEW m \in Messages,
               \/ HandleUnknown(conn, m) \/ HandleHeartbeat(conn, m)
               \/ RejectNewOrder(conn, m) \/ RejectCancel(conn, m)
        PROVE  RecordsStep
      BY <2>1, <2>3 DEF HandleUnknown, HandleHeartbeat, RejectNewOrder, RejectCancel
  <2>4. CASE SettleOrder
      BY <2>1, <2>4 DEF SettleOrder
  <2> QED
      BY <2>2, <2>3, <2>4, AcceptRecords, CancelRecords, FillRecords DEF Next
<1> QED
    BY <1>1, VenueInvariant, PTL DEF RecordsFinal, Spec

-----------------------------------------------------------------------------
(***************************************************************************)
(* What a trade reports.                                                   *)
(***************************************************************************)
\* A step with two messages.
LEMMA TwoMessages ==
    ASSUME NEW m1, NEW m2, NEW out, out = Append(Append(<<>>, m1), m2)
    PROVE  out # <<>> /\ Len(out) = 2 /\ DOMAIN out = {1, 2} /\ out[1] = m1 /\ out[2] = m2
<1> DEFINE S == {m1, m2}
<1>1. Append(<<>>, m1) = <<m1>> /\ <<m1>> \in Seq(S) /\ m2 \in S /\ Len(<<m1>>) = 1 /\ <<m1>>[1] = m1
    OBVIOUS
<1> HIDE DEF S
<1>2. out = Append(<<m1>>, m2)
    BY <1>1
<1> DEFINE one == <<m1>>
<1> HIDE DEF one
<1>3. one \in Seq(S) /\ Len(one) = 1 /\ one[1] = m1 /\ out = Append(one, m2)
    BY <1>1, <1>2 DEF one
<1>4. out \in Seq(S) /\ out # <<>> /\ Len(out) = 2 /\ out[1] = m1 /\ out[2] = m2
    BY <1>1, <1>3, AppendProperties
<1> QED BY <1>4

\* A FILL message that is fair to the live order lo of the given side.
FairTo(f, lo, side, q, p) ==
    /\ f.type = "FILL" /\ f.fillQty = q /\ f.fillPrice = p
    /\ f.to = lo.owner /\ f.to \notin dropped
    /\ f.clientOrderId = lo.clientOrderId
    /\ f.remainingQty = lo.remaining - f.fillQty
    /\ lo.side = side
    /\ IF side = "Buy" THEN f.fillPrice <= lo.priceTicks ELSE f.fillPrice >= lo.priceTicks

\* Both messages of a trade are fair, the buyer's first.
LEMMA TradeIsFair ==
    ASSUME IInv, NEW r \in DOMAIN orders, FillAndRoute(r),
           NEW i \in {taker, r}, NEW j \in {taker, r}, i # j,
           trade'.buyOrderId = i, trade'.sellOrderId = j,
           orders[i].side = "Buy", orders[j].side = "Sell"
    PROVE  \E m1, m2 : /\ sent' = Append(Append(<<>>, m1), m2)
                       /\ m1.exchangeId = i /\ m2.exchangeId = j
                       /\ FairTo(m1, byEngineId[i], "Buy", trade'.quantity, trade'.price)
                       /\ FairTo(m2, byEngineId[j], "Sell", trade'.quantity, trade'.price)
<1> DEFINE q == trade'.quantity
           p == trade'.price
           t0 == [live |-> byEngineId, records |-> byConn, out |-> <<>>]
           t1 == RouteFill(t0, i, p, q)
           t2 == RouteFill(t1, j, p, q)
           restI == IF byEngineId[i].remaining > q THEN byEngineId[i].remaining - q ELSE 0
           restJ == IF t1.live[j].remaining > q THEN t1.live[j].remaining - q ELSE 0
           m1 == FillReport(byEngineId[i], i, q, p, restI)
           m2 == FillReport(t1.live[j], j, q, p, restJ)
<1>1. /\ byConn \in [Conns -> [Cids -> ClientRecord]]
      /\ \A k \in DOMAIN byEngineId : byEngineId[k] \in LiveOrder
      /\ BookTypeOK
    BY DEF IInv, TypeOK
<1>2. /\ taker \in DOMAIN orders /\ q \in Nat \ {0} /\ p = orders[r].price
      /\ q <= orders[taker].qty /\ q <= orders[r].qty
      /\ Crosses(orders[taker].side, orders[taker].price, orders[r].price)
      /\ orders[taker].price \in Nat /\ orders[r].price \in Nat
  <2>1. Fill(r)
      BY DEF FillAndRoute
  <2>2. orders[taker].price \in Nat /\ orders[r].price \in Nat
      BY <1>1, <2>1, FillFacts, PricesAssumption DEF BookTypeOK, Order
  <2> QED BY <1>1, <2>1, <2>2, FillFacts
<1>3. /\ i \in DOMAIN byEngineId /\ j \in DOMAIN byEngineId
      /\ q <= byEngineId[i].remaining /\ q <= byEngineId[j].remaining
      /\ byEngineId[i].remaining \in Nat /\ byEngineId[j].remaining \in Nat
      /\ byEngineId[i].owner \notin dropped /\ byEngineId[j].owner \notin dropped
      /\ byEngineId[i].side = "Buy" /\ byEngineId[j].side = "Sell"
      /\ byEngineId[i].priceTicks = orders[i].price /\ byEngineId[j].priceTicks = orders[j].price
  <2>1. /\ taker \in DOMAIN byEngineId /\ r \in DOMAIN byEngineId
        /\ byEngineId[taker].remaining = orders[taker].qty /\ byEngineId[r].remaining = orders[r].qty
        /\ byEngineId[taker].owner = orders[taker].owner /\ byEngineId[r].owner = orders[r].owner
      BY FillTables
  <2>2. orders[taker].owner \notin dropped /\ orders[r].owner \notin dropped
      BY <1>2 DEF IInv, DroppedLeavesNothing
  <2>3. i \in DOMAIN byEngineId /\ j \in DOMAIN byEngineId
      BY <2>1
  <2>4. /\ byEngineId[i].side = "Buy" /\ byEngineId[j].side = "Sell"
        /\ byEngineId[i].priceTicks = orders[i].price /\ byEngineId[j].priceTicks = orders[j].price
      BY <2>3 DEF IInv, LiveOrdersMatchBook
  <2>5. byEngineId[i].remaining \in Nat /\ byEngineId[j].remaining \in Nat
      BY <1>1, <2>3 DEF LiveOrder
  <2> QED BY <1>2, <2>1, <2>2, <2>3, <2>4, <2>5
<1>4. p <= byEngineId[i].priceTicks /\ p >= byEngineId[j].priceTicks
    BY <1>2, <1>3 DEF Crosses
<1>5. sent' = t2.out
    BY DEF FillAndRoute, OnTrade
<1> HIDE DEF q, p
<1>6. Routed(t1, byEngineId, byConn, i, q)
  <2>1. byConn[byEngineId[i].owner][byEngineId[i].clientOrderId].state # "Absent"
    <3>1. byConn[byEngineId[i].owner][byEngineId[i].clientOrderId] = [state |-> "Resting", engineId |-> i]
        BY <1>3 DEF IInv, RecordsMatchLiveOrders
    <3> QED BY <3>1
  <2> QED BY <1>1, <1>2, <1>3, <2>1, RouteFillFacts
<1>7. t1.out = Append(<<>>, m1)
    BY <1>3 DEF RouteFill
<1>8. j \in DOMAIN t1.live /\ t2.out = Append(t1.out, m2)
  <2> HIDE DEF t1
  <2>1. j \in DOMAIN t1.live
      BY <1>3, <1>6 DEF Routed
  <2> QED BY <2>1 DEF RouteFill
<1> HIDE DEF t1, t2
<1>9. /\ t1.live[j].owner = byEngineId[j].owner /\ t1.live[j].clientOrderId = byEngineId[j].clientOrderId
      /\ t1.live[j].remaining = byEngineId[j].remaining
  <2>1. t1.live[j] = [owner |-> byEngineId[j].owner, clientOrderId |-> byEngineId[j].clientOrderId,
                      side |-> byEngineId[j].side, priceTicks |-> byEngineId[j].priceTicks,
                      remaining |-> byEngineId[j].remaining]
      BY <1>6, <1>8 DEF Routed
  <2> QED BY <2>1
<1>10. m1.exchangeId = i /\ FairTo(m1, byEngineId[i], "Buy", q, p)
  <2>1. restI = byEngineId[i].remaining - q
      BY <1>2, <1>3
  <2> HIDE DEF restI
  <2>2. /\ m1.exchangeId = i /\ m1.type = "FILL" /\ m1.fillQty = q /\ m1.fillPrice = p
        /\ m1.to = byEngineId[i].owner /\ m1.clientOrderId = byEngineId[i].clientOrderId
        /\ m1.remainingQty = restI
      BY DEF FillReport
  <2> HIDE DEF m1
  <2> QED BY <1>3, <1>4, <2>1, <2>2 DEF FairTo
<1>11. m2.exchangeId = j /\ FairTo(m2, byEngineId[j], "Sell", q, p)
  <2>1. restJ = byEngineId[j].remaining - q
      BY <1>2, <1>3, <1>9
  <2> HIDE DEF restJ
  <2>2. /\ m2.exchangeId = j /\ m2.type = "FILL" /\ m2.fillQty = q /\ m2.fillPrice = p
        /\ m2.to = t1.live[j].owner /\ m2.clientOrderId = t1.live[j].clientOrderId
        /\ m2.remainingQty = restJ
      BY DEF FillReport
  <2> HIDE DEF m2
  <2> QED BY <1>3, <1>4, <1>9, <2>1, <2>2 DEF FairTo
<1> HIDE DEF m1, m2
<1> QED BY <1>5, <1>7, <1>8, <1>10, <1>11 DEF q, p

\* A trade between orders i and j is reported to the buyer i, then to the seller j.
Reported(i, j) ==
    \E m1, m2 : /\ sent' = Append(Append(<<>>, m1), m2)
                /\ m1.exchangeId = i /\ m2.exchangeId = j
                /\ FairTo(m1, byEngineId[i], "Buy", trade'.quantity, trade'.price)
                /\ FairTo(m2, byEngineId[j], "Sell", trade'.quantity, trade'.price)

\* Each round of the match loop.
LEMMA RoundIsFair ==
    ASSUME IInv, NEW r \in DOMAIN orders, FillAndRoute(r)
    PROVE  \E i, j \in {taker, r} :
              orders[i].side = "Buy" /\ orders[j].side = "Sell" /\ Reported(i, j)
<1>1. /\ r # taker /\ taker \in DOMAIN orders /\ orders[taker].side \in Sides
      /\ orders[r].side \in Sides /\ orders[r].side # orders[taker].side
      /\ orders[taker].side = "Buy" => trade'.buyOrderId = taker /\ trade'.sellOrderId = r
      /\ orders[taker].side = "Sell" => trade'.buyOrderId = r /\ trade'.sellOrderId = taker
  <2>1. BookTypeOK /\ Fill(r)
      BY DEF IInv, TypeOK, FillAndRoute
  <2>2. /\ r # taker /\ taker \in DOMAIN orders /\ orders[r].side # orders[taker].side
        /\ orders[taker].side = "Buy" => trade'.buyOrderId = taker /\ trade'.sellOrderId = r
        /\ orders[taker].side = "Sell" => trade'.buyOrderId = r /\ trade'.sellOrderId = taker
      BY <2>1, FillFacts
  <2> QED BY <2>1, <2>2 DEF BookTypeOK, Order
<1>2. PICK i, j \in {taker, r} :
          /\ i # j /\ trade'.buyOrderId = i /\ trade'.sellOrderId = j
          /\ orders[i].side = "Buy" /\ orders[j].side = "Sell"
    BY <1>1 DEF Sides
<1>3. Reported(i, j)
    BY <1>2, TradeIsFair DEF Reported
<1> QED BY <1>2, <1>3

\* Every trade is reported to both sides, both still connected, at one price and
\* quantity within the limits of both orders, for no more than each had left.
THEOREM FillsStayFair == Spec => FillsFair
<1>1. ASSUME IInv, NEW r \in DOMAIN orders, FillAndRoute(r) PROVE FillsFairStep
  <2>0. \E x, y : Reported(x, y)
      BY <1>1, RoundIsFair
  <2>1. PICK m1, m2 : /\ sent' = Append(Append(<<>>, m1), m2)
                      /\ FairTo(m1, byEngineId[m1.exchangeId], "Buy", trade'.quantity, trade'.price)
                      /\ FairTo(m2, byEngineId[m2.exchangeId], "Sell", trade'.quantity, trade'.price)
      BY <2>0 DEF Reported
  <2>2. Len(sent') = 2 /\ sent'[1] = m1 /\ sent'[2] = m2
      BY <2>1, TwoMessages
  <2>3. \A i \in 1..2 : i = 1 \/ i = 2
      OBVIOUS
  <2> QED BY <2>1, <2>2, <2>3 DEF FillsFairStep, FairTo
<1>2. ASSUME Next, \A r \in DOMAIN orders : ~FillAndRoute(r) PROVE trade' = trade
  <2>1. ASSUME NEW conn \in Conns, NEW m \in Messages,
               \/ HandleUnknown(conn, m) \/ HandleHeartbeat(conn, m)
               \/ RejectNewOrder(conn, m) \/ AcceptNewOrder(conn, m)
               \/ RejectCancel(conn, m) \/ AcceptCancel(conn, m)
        PROVE  trade' = trade
      BY <2>1 DEF HandleUnknown, HandleHeartbeat, RejectNewOrder, AcceptNewOrder, RejectCancel,
         AcceptCancel, bookVars, Submit, CancelOrders
  <2>2. ASSUME NEW conn \in Conns, DropConnection(conn) PROVE trade' = trade
      BY <2>2 DEF DropConnection, CancelOrders
  <2>3. CASE SettleOrder
      BY <2>3 DEF SettleOrder, Settle
  <2> QED BY <1>2, <2>1, <2>2, <2>3 DEF Next
<1>3. IInv /\ [Next]_vars => [FillsFairStep]_vars
  <2> SUFFICES ASSUME IInv, Next PROVE FillsFairStep
      OBVIOUS
  <2>1. CASE \E r \in DOMAIN orders : FillAndRoute(r)
      BY <1>1, <2>1
  <2>2. CASE \A r \in DOMAIN orders : ~FillAndRoute(r)
      BY <1>2, <2>2 DEF FillsFairStep
  <2> QED BY <2>1, <2>2
<1> QED BY <1>3, VenueInvariant, PTL DEF FillsFair, Spec

-----------------------------------------------------------------------------
\* Induction over the numbers, for the members of a set.
LEMMA SetInduction ==
    ASSUME NEW S, 0 \in S, \A n \in Nat : n \in S => n + 1 \in S
    PROVE  Nat \subseteq S
<1> SUFFICES ASSUME Nat \ S # {} PROVE FALSE
    OBVIOUS
<1>1. PICK x \in Nat \ S : \A y \in Nat \ S : <<y, x>> \notin OpToRel(<, Nat)
    BY NatLessThanWellFounded, WFMin
<1>2. x # 0 /\ x \in Nat
    OBVIOUS
<1>4. x - 1 \in Nat /\ x - 1 < x /\ (x - 1) + 1 = x
    BY <1>2
<1>3. x - 1 \in S
    BY <1>1, <1>2, <1>4 DEF OpToRel
<1> QED BY <1>1, <1>2, <1>3, <1>4

-----------------------------------------------------------------------------
(***************************************************************************)
(* The venue as its clients see it. The blotter is compared with the       *)
(* venue's tables, which change in the same steps (every live order is     *)
(* open with the same quantity left, and a record says what the blotter    *)
(* says), and the theorems above relate the tables to the book.            *)
(***************************************************************************)
BlotterEntry == [owner : Conns, clientOrderId : Cids, side : Sides, filled : Nat, left : Nat,
                 status : {"Open", "Filled", "Cancelled"}]

\* Every order of the table live is open, with what the table says is left.
Tracks(b, live) ==
    \A i \in DOMAIN live :
        /\ i \in DOMAIN b /\ b[i].status = "Open"
        /\ b[i].owner = live[i].owner /\ b[i].clientOrderId = live[i].clientOrderId
        /\ b[i].side = live[i].side /\ b[i].left = live[i].remaining

\* The state of a client's record of an order with this status.
StateOf(status) == IF status = "Open" THEN "Resting" ELSE status

\* What the records say of the orders of connected clients.
Recorded(b, live, records, gone) ==
    \A i \in DOMAIN b : b[i].owner \notin gone =>
        /\ b[i].status = "Open" => i \in DOMAIN live
        /\ records[b[i].owner][b[i].clientOrderId] = [state |-> StateOf(b[i].status), engineId |-> i]

\* Every record is of an order the blotter has.
Known(b, records) ==
    \A c \in Conns, d \in Cids :
        LET i == records[c][d].engineId
        IN records[c][d].state # "Absent" =>
              i \in DOMAIN b /\ b[i].owner = c /\ b[i].clientOrderId = d

BlotterOK ==
    /\ anomaly = FALSE
    /\ blotter \in [1..(nextEngineId - 1) -> BlotterEntry]
    /\ Tracks(blotter, byEngineId)
    /\ Recorded(blotter, byEngineId, byConn, dropped)
    /\ Known(blotter, byConn)
    /\ ReportsBalance

AuditInv == IInv /\ BlotterOK

-----------------------------------------------------------------------------
(***************************************************************************)
(* Totals, one entry at a time.                                            *)
(***************************************************************************)
\* What entry k adds to the total of a side.
Part(b, side, k) == IF b[k].side = side THEN b[k].filled ELSE 0

\* f[k] is the total of a side over the entries 1..k, for k up to n.
Totals(b, side, n, f) == f = [k \in 0..n |-> IF k = 0 THEN 0 ELSE f[k - 1] + Part(b, side, k)]

\* There are such totals for every number of entries.
LEMMA TotalsExist ==
    ASSUME NEW b, NEW side, NEW n \in Nat
    PROVE  \E f : Totals(b, side, n, f)
<1> DEFINE S == {m \in Nat : \E f : Totals(b, side, m, f)}
<1>1. 0 \in S
  <2> DEFINE f == [k \in 0..0 |-> 0]
  <2>1. Totals(b, side, 0, f)
    <3>1. f = [k \in 0..0 |-> IF k = 0 THEN 0 ELSE f[k - 1] + Part(b, side, k)]
        OBVIOUS
    <3> QED BY <3>1 DEF Totals
  <2> QED BY <2>1
<1>2. ASSUME NEW m \in Nat, m \in S PROVE m + 1 \in S
  <2>1. PICK f : Totals(b, side, m, f)
      BY <1>2
  <2>2. f = [k \in 0..m |-> IF k = 0 THEN 0 ELSE f[k - 1] + Part(b, side, k)]
      BY <2>1 DEF Totals
  <2> DEFINE last == f[m] + Part(b, side, m + 1)
             g == [k \in 0..(m + 1) |-> IF k = m + 1 THEN last ELSE f[k]]
             h == [k \in 0..(m + 1) |-> IF k = 0 THEN 0 ELSE g[k - 1] + Part(b, side, k)]
  <2>3. ASSUME NEW k \in 0..(m + 1) PROVE g[k] = h[k]
    <3>1. CASE k = m + 1
      <4>1. k # 0 /\ k - 1 \in 0..(m + 1) /\ k - 1 # m + 1 /\ k - 1 = m
          BY <3>1
      <4>2. g[k - 1] = f[m]
          BY <4>1
      <4> QED BY <3>1, <4>1, <4>2
    <3>2. CASE k # m + 1
      <4>1. k \in 0..m /\ g[k] = f[k]
          BY <3>2
      <4>2. CASE k = 0
          BY <2>2, <4>1, <4>2
      <4>3. CASE k # 0
        <5>1. k - 1 \in 0..(m + 1) /\ k - 1 # m + 1
            BY <4>1, <4>3
        <5>2. g[k - 1] = f[k - 1]
            BY <5>1
        <5>3. f[k] = f[k - 1] + Part(b, side, k)
            BY <2>2, <4>1, <4>3
        <5> QED BY <4>1, <4>3, <5>2, <5>3
      <4> QED BY <4>2, <4>3
    <3> QED BY <3>1, <3>2
  <2>4. g = h
    <3> HIDE DEF last
    <3>1. g = [k \in 0..(m + 1) |-> g[k]] /\ h = [k \in 0..(m + 1) |-> h[k]]
        OBVIOUS
    <3> HIDE DEF g, h
    <3> QED BY <2>3, <3>1
  <2>5. Totals(b, side, m + 1, g)
      BY <2>4 DEF Totals
  <2> QED BY <2>5
<1>3. Nat \subseteq S
  <2> HIDE DEF S
  <2> QED BY <1>1, <1>2, SetInduction
<1> QED BY <1>3

\* The total is the last of the totals.
LEMMA TotalFilledIs ==
    ASSUME NEW b, NEW side, NEW n \in Nat
    PROVE  \E f : Totals(b, side, n, f) /\ TotalFilled(b, side, n) = f[n]
<1> DEFINE f == CHOOSE e : Totals(b, side, n, e)
<1>1. Totals(b, side, n, f)
    BY TotalsExist
<1>2. TotalFilled(b, side, n) = f[n]
    BY DEF TotalFilled, Totals, Part
<1> QED BY <1>1, <1>2

\* Entry i of c adds d more to the total than entry i of b, the others the same.
PartsDiffer(b, c, side, n, i, d) ==
    \A k \in 1..n : /\ Part(b, side, k) \in Nat
                    /\ Part(c, side, k) = Part(b, side, k) + (IF k = i THEN d ELSE 0)

\* The totals g are d ahead of the totals f from entry i on.
Ahead(f, g, n, i, d) == \A k \in 0..n : f[k] \in Nat /\ g[k] = f[k] + (IF k < i THEN 0 ELSE d)

\* Entries that agree but for d more filled in entry i have totals that agree
\* up to i and differ by d from there.
LEMMA TotalsDiffer ==
    ASSUME NEW b, NEW c, NEW side, NEW n \in Nat, NEW m \in Nat, n <= m, NEW f, NEW g,
           Totals(b, side, n, f), Totals(c, side, m, g), NEW i \in Nat \ {0}, NEW d \in Nat,
           PartsDiffer(b, c, side, n, i, d)
    PROVE  Ahead(f, g, n, i, d)
<1> DEFINE S == {k \in Nat : k \in 0..n => f[k] \in Nat /\ g[k] = f[k] + (IF k < i THEN 0 ELSE d)}
<1>0. /\ f = [k \in 0..n |-> IF k = 0 THEN 0 ELSE f[k - 1] + Part(b, side, k)]
      /\ g = [k \in 0..m |-> IF k = 0 THEN 0 ELSE g[k - 1] + Part(c, side, k)]
    BY DEF Totals
<1>1. 0 \in S
  <2>1. 0 \in 0..n /\ 0 \in 0..m /\ 0 < i
      OBVIOUS
  <2>2. f[0] = 0 /\ g[0] = 0
      BY <1>0, <2>1
  <2> QED BY <2>1, <2>2
<1>2. ASSUME NEW k \in Nat, k \in S PROVE k + 1 \in S
  <2> SUFFICES ASSUME k + 1 \in 0..n
               PROVE  f[k + 1] \in Nat /\ g[k + 1] = f[k + 1] + (IF k + 1 < i THEN 0 ELSE d)
      OBVIOUS
  <2>1. k \in 0..n /\ k + 1 \in 1..n /\ k + 1 \in 0..m /\ (k + 1) - 1 = k /\ k + 1 # 0
      OBVIOUS
  <2>2. f[k] \in Nat /\ g[k] = f[k] + (IF k < i THEN 0 ELSE d)
      BY <1>2, <2>1
  <2>3. f[k + 1] = f[(k + 1) - 1] + Part(b, side, k + 1) /\ g[k + 1] = g[(k + 1) - 1] + Part(c, side, k + 1)
      BY <1>0, <2>1
  <2>4. f[k + 1] = f[k] + Part(b, side, k + 1) /\ g[k + 1] = g[k] + Part(c, side, k + 1)
      BY <2>1, <2>3
  <2>5. Part(b, side, k + 1) \in Nat /\ Part(c, side, k + 1) = Part(b, side, k + 1) + (IF k + 1 = i THEN d ELSE 0)
      BY <2>1 DEF PartsDiffer
  <2> QED BY <2>2, <2>4, <2>5
<1>3. Nat \subseteq S
  <2> HIDE DEF S
  <2> QED BY <1>1, <1>2, SetInduction
<1> QED BY <1>3 DEF Ahead

\* The entries 1..n of c are those of b with d more filled of entry i.
FilledMore(b, c, n, i, d) ==
    \A k \in 1..n : /\ b[k].filled \in Nat /\ c[k].side = b[k].side
                    /\ c[k].filled = IF k = i THEN b[k].filled + d ELSE b[k].filled

\* The total of a side when d more is filled of entry i.
LEMMA TotalAfterFill ==
    ASSUME NEW b, NEW c, NEW side, NEW n \in Nat, NEW i \in 1..n, NEW d \in Nat,
           FilledMore(b, c, n, i, d)
    PROVE  /\ TotalFilled(b, side, n) \in Nat
           /\ TotalFilled(c, side, n) = TotalFilled(b, side, n) + (IF b[i].side = side THEN d ELSE 0)
<1> DEFINE e == IF b[i].side = side THEN d ELSE 0
<1>1. PICK f : Totals(b, side, n, f) /\ TotalFilled(b, side, n) = f[n]
    BY TotalFilledIs
<1>2. PICK g : Totals(c, side, n, g) /\ TotalFilled(c, side, n) = g[n]
    BY TotalFilledIs
<1>3. PartsDiffer(b, c, side, n, i, e)
    BY DEF PartsDiffer, Part, FilledMore
<1>4. i \in Nat \ {0} /\ e \in Nat /\ n <= n /\ n \in 0..n /\ ~(n < i)
    OBVIOUS
<1> HIDE DEF e
<1>5. Ahead(f, g, n, i, e)
    BY <1>1, <1>2, <1>3, <1>4, TotalsDiffer
<1>6. f[n] \in Nat /\ g[n] = f[n] + e
    BY <1>4, <1>5 DEF Ahead
<1> QED BY <1>1, <1>2, <1>6 DEF e

\* The total of a side when one entry is added, with nothing filled.
LEMMA TotalAfterOpen ==
    ASSUME NEW b, NEW c, NEW side, NEW n \in Nat, c[n + 1].filled = 0,
           \A k \in 1..n : b[k].filled \in Nat /\ c[k] = b[k]
    PROVE  TotalFilled(c, side, n + 1) = TotalFilled(b, side, n)
<1>1. PICK f : Totals(b, side, n, f) /\ TotalFilled(b, side, n) = f[n]
    BY TotalFilledIs
<1>2. PICK g : Totals(c, side, n + 1, g) /\ TotalFilled(c, side, n + 1) = g[n + 1]
    BY TotalFilledIs
<1>3. PartsDiffer(b, c, side, n, 1, 0)
    BY DEF PartsDiffer, Part
<1>4. 1 \in Nat \ {0} /\ 0 \in Nat /\ n + 1 \in Nat /\ n <= n + 1 /\ n \in 0..n
    OBVIOUS
<1>5. Ahead(f, g, n, 1, 0)
    BY <1>1, <1>2, <1>3, <1>4, TotalsDiffer
<1>6. f[n] \in Nat /\ g[n] = f[n]
    BY <1>4, <1>5 DEF Ahead
<1>7. g[n + 1] = g[n]
  <2>1. n + 1 \in 0..(n + 1) /\ n + 1 # 0 /\ (n + 1) - 1 = n
      OBVIOUS
  <2>2. g = [k \in 0..(n + 1) |-> IF k = 0 THEN 0 ELSE g[k - 1] + Part(c, side, k)]
      BY <1>2 DEF Totals
  <2>3. g[n + 1] = g[(n + 1) - 1] + Part(c, side, n + 1)
      BY <2>1, <2>2
  <2>4. Part(c, side, n + 1) = 0
      BY DEF Part
  <2> QED BY <1>6, <2>1, <2>3, <2>4
<1> QED BY <1>1, <1>2, <1>6, <1>7

-----------------------------------------------------------------------------
(***************************************************************************)
(* Reading messages.                                                       *)
(***************************************************************************)
\* What the client of the incoming order knows of it.
Asked == IF taker' = NoTaker THEN [side |-> "Buy", qty |-> 0] ELSE orders'[taker']

\* A step that sends nothing leaves the blotter alone.
LEMMA ReadNothing ==
    ASSUME AuditNext, sent' = <<>>
    PROVE  blotter' = blotter /\ anomaly' = anomaly
BY DEF AuditNext

\* One message that the blotter explains.
LEMMA ReadOne ==
    ASSUME AuditNext, anomaly = FALSE, NEW msg, sent' = <<msg>>, Explained(blotter, msg)
    PROVE  blotter' = Note(blotter, msg, Asked) /\ anomaly' = FALSE
<1>1. sent' # <<>> /\ Len(sent') = 1 /\ sent'[1] = msg
    OBVIOUS
<1> DEFINE start == [b |-> blotter, bad |-> anomaly]
<1>2. start.bad = FALSE /\ start.b = blotter
    OBVIOUS
<1>3. blotter' = Heard(start, msg, Asked).b /\ anomaly' = Heard(start, msg, Asked).bad
    BY <1>1 DEF AuditNext, Asked
<1>4. Heard(start, msg, Asked) = [start EXCEPT !.b = Note(start.b, msg, Asked)]
    BY <1>2 DEF Heard
<1> QED BY <1>3, <1>4

\* Two messages, the second explained by the blotter after the first.
LEMMA ReadTwo ==
    ASSUME AuditNext, anomaly = FALSE, NEW m1, NEW m2, sent' = Append(Append(<<>>, m1), m2),
           Explained(blotter, m1), Explained(Note(blotter, m1, Asked), m2)
    PROVE  blotter' = Note(Note(blotter, m1, Asked), m2, Asked) /\ anomaly' = FALSE
<1>1. sent' # <<>> /\ Len(sent') = 2 /\ sent'[1] = m1 /\ sent'[2] = m2
    BY TwoMessages
<1> DEFINE start == [b |-> blotter, bad |-> anomaly]
           then  == Heard(start, m1, Asked)
<1>2. start.bad = FALSE /\ start.b = blotter
    OBVIOUS
<1>3. blotter' = Heard(then, m2, Asked).b /\ anomaly' = Heard(then, m2, Asked).bad
    BY <1>1 DEF AuditNext, Asked
<1>4. then = [start EXCEPT !.b = Note(start.b, m1, Asked)]
    BY <1>2 DEF Heard
<1>5. then.b = Note(blotter, m1, Asked) /\ then.bad = FALSE
    BY <1>4
<1> HIDE DEF then
<1>6. Heard(then, m2, Asked) = [then EXCEPT !.b = Note(then.b, m2, Asked)]
    BY <1>5 DEF Heard
<1>7. then = [b |-> then.b, bad |-> then.bad]
    BY <1>4
<1> QED BY <1>3, <1>5, <1>6, <1>7

\* The blotter after a FILL that leaves `remainingQty`.
LEMMA NoteFill ==
    ASSUME NEW D, NEW b \in [D -> BlotterEntry], NEW i \in D, NEW msg, NEW asked,
           NEW q \in Nat, NEW rest \in Nat,
           msg.type = "FILL", msg.exchangeId = i, msg.fillQty = q, msg.remainingQty = rest
    PROVE  /\ Note(b, msg, asked) \in [D -> BlotterEntry]
           /\ Note(b, msg, asked)[i] =
                 [owner |-> b[i].owner, clientOrderId |-> b[i].clientOrderId, side |-> b[i].side,
                  filled |-> b[i].filled + q, left |-> rest,
                  status |-> IF rest = 0 THEN "Filled" ELSE "Open"]
           /\ \A k \in D : k # i => Note(b, msg, asked)[k] = b[k]
<1> DEFINE status == IF rest = 0 THEN "Filled" ELSE "Open"
           entry == [b[i] EXCEPT !.filled = @ + q, !.left = rest, !.status = status]
<1>1. Note(b, msg, asked) = [b EXCEPT ![i].filled = @ + q, ![i].left = rest, ![i].status = status]
    BY DEF Note
<1>2. Note(b, msg, asked) = [b EXCEPT ![i] = entry]
    BY <1>1
<1>3. b[i] \in BlotterEntry /\ status \in {"Open", "Filled", "Cancelled"}
    OBVIOUS
<1> HIDE DEF status
<1>4. entry = [owner |-> b[i].owner, clientOrderId |-> b[i].clientOrderId, side |-> b[i].side,
               filled |-> b[i].filled + q, left |-> rest, status |-> status]
  <2> DEFINE o  == b[i].owner
             c  == b[i].clientOrderId
             sd == b[i].side
             f0 == b[i].filled
             l0 == b[i].left
             t0 == b[i].status
             f  == b[i].filled + q
             e  == [owner |-> o, clientOrderId |-> c, side |-> sd, filled |-> f0, left |-> l0, status |-> t0]
  <2>1. b[i] = e
      BY <1>3 DEF BlotterEntry
  <2>2. entry = [b[i] EXCEPT !.filled = f, !.left = rest, !.status = status]
      BY <2>1
  <2> HIDE DEF entry, o, c, sd, f0, l0, t0, f
  <2>3. [e EXCEPT !.filled = f, !.left = rest, !.status = status] =
            [owner |-> o, clientOrderId |-> c, side |-> sd, filled |-> f, left |-> rest, status |-> status]
    <3>1. [e EXCEPT !.filled = f, !.left = rest, !.status = status] =
              [[[e EXCEPT !.filled = f] EXCEPT !.left = rest] EXCEPT !.status = status]
        OBVIOUS
    <3>2. [e EXCEPT !.filled = f] =
              [owner |-> o, clientOrderId |-> c, side |-> sd, filled |-> f, left |-> l0, status |-> t0]
        OBVIOUS
    <3>3. [[owner |-> o, clientOrderId |-> c, side |-> sd, filled |-> f, left |-> l0, status |-> t0]
              EXCEPT !.left = rest] =
              [owner |-> o, clientOrderId |-> c, side |-> sd, filled |-> f, left |-> rest, status |-> t0]
        OBVIOUS
    <3>4. [[owner |-> o, clientOrderId |-> c, side |-> sd, filled |-> f, left |-> rest, status |-> t0]
              EXCEPT !.status = status] =
              [owner |-> o, clientOrderId |-> c, side |-> sd, filled |-> f, left |-> rest, status |-> status]
        OBVIOUS
    <3> HIDE DEF e
    <3> QED BY <3>1, <3>2, <3>3, <3>4
  <2>4. entry = [owner |-> o, clientOrderId |-> c, side |-> sd, filled |-> f, left |-> rest, status |-> status]
      BY <2>1, <2>2, <2>3
  <2> QED BY <2>4 DEF o, c, sd, f
<1>5. entry \in BlotterEntry
    BY <1>3, <1>4 DEF BlotterEntry
<1> HIDE DEF entry
<1> QED BY <1>2, <1>4, <1>5 DEF status

\* u is the tables after a fill of q for order i: one message was sent, which the
\* blotter b explains, and b with the message noted follows the tables.
FillHeard(D, b, live, records, out, i, price, q, gone, asked, u) ==
    LET msg == FillReport(live[i], i, q, price, live[i].remaining - q)
    IN /\ Routed(u, live, records, i, q)
       /\ u.out = Append(out, msg)
       /\ Explained(b, msg)
       /\ Note(b, msg, asked) \in [D -> BlotterEntry]
       /\ Tracks(Note(b, msg, asked), u.live)
       /\ Recorded(Note(b, msg, asked), u.live, u.records, gone)
       /\ Known(Note(b, msg, asked), u.records)
       /\ \A k \in D : /\ Note(b, msg, asked)[k].side = b[k].side
                       /\ Note(b, msg, asked)[k].filled = IF k = i THEN b[k].filled + q ELSE b[k].filled

\* routeFill of a live order of a connected client.
LEMMA HearFill ==
    ASSUME NEW D, NEW b \in [D -> BlotterEntry], NEW live, NEW records \in [Conns -> [Cids -> ClientRecord]],
           NEW out, NEW i \in DOMAIN live, NEW price, NEW q \in Nat \ {0}, NEW gone, NEW asked,
           \A k \in DOMAIN live : live[k] \in LiveOrder,
           q <= live[i].remaining, Tracks(b, live), Recorded(b, live, records, gone),
           Known(b, records),
           live[i].owner \notin gone,
           NEW u, u = RouteFill([live |-> live, records |-> records, out |-> out], i, price, q)
    PROVE  FillHeard(D, b, live, records, out, i, price, q, gone, asked, u)
<1> DEFINE rest == live[i].remaining - q
           msg == FillReport(live[i], i, q, price, rest)
           nb == Note(b, msg, asked)
<1>1. /\ live[i] \in LiveOrder /\ live[i].remaining \in Nat /\ rest \in Nat
      /\ live[i].owner \in Conns /\ live[i].clientOrderId \in Cids
      /\ i \in D /\ DOMAIN b = D
      /\ b[i].status = "Open" /\ b[i].owner = live[i].owner
      /\ b[i].clientOrderId = live[i].clientOrderId /\ b[i].left = live[i].remaining
    BY DEF LiveOrder, Tracks
<1>2. records[live[i].owner][live[i].clientOrderId] = [state |-> "Resting", engineId |-> i]
    BY <1>1 DEF Recorded, StateOf
<1>3. Routed(u, live, records, i, q)
    BY <1>1, <1>2, RouteFillFacts
<1>4. rest = IF live[i].remaining > q THEN live[i].remaining - q ELSE 0
    BY <1>1
<1>5. u.out = Append(out, msg)
    BY <1>4 DEF RouteFill
<1>6. /\ msg.type = "FILL" /\ msg.exchangeId = i /\ msg.fillQty = q /\ msg.remainingQty = rest
      /\ msg.to = live[i].owner /\ msg.clientOrderId = live[i].clientOrderId
    BY DEF FillReport
<1> HIDE DEF msg
<1>7. Explained(b, msg)
  <2>1. live[i].remaining = q + rest
      BY <1>1
  <2> QED BY <1>1, <1>6, <2>1 DEF Explained, Open
<1>8. /\ nb \in [D -> BlotterEntry]
      /\ nb[i] = [owner |-> b[i].owner, clientOrderId |-> b[i].clientOrderId, side |-> b[i].side,
                  filled |-> b[i].filled + q, left |-> rest,
                  status |-> IF rest = 0 THEN "Filled" ELSE "Open"]
      /\ \A k \in D : k # i => nb[k] = b[k]
    BY <1>1, <1>6, NoteFill
<1> HIDE DEF nb
<1>9. /\ DOMAIN u.live = {k \in DOMAIN live : k = i => rest # 0}
      /\ \A k \in DOMAIN u.live :
            /\ u.live[k].owner = live[k].owner /\ u.live[k].clientOrderId = live[k].clientOrderId
            /\ u.live[k].side = live[k].side
            /\ u.live[k].remaining = IF k = i THEN rest ELSE live[k].remaining
  <2>1. DOMAIN u.live = {k \in DOMAIN live : k = i => rest # 0}
    <3>1. live[i].remaining > q <=> rest # 0
        BY <1>1
    <3> HIDE DEF rest
    <3> QED BY <1>3, <3>1 DEF Routed
  <2>2. ASSUME NEW k \in DOMAIN u.live
        PROVE  u.live[k] = [owner |-> live[k].owner, clientOrderId |-> live[k].clientOrderId,
                            side |-> live[k].side, priceTicks |-> live[k].priceTicks,
                            remaining |-> IF k = i THEN rest ELSE live[k].remaining]
    <3>1. u.live[k] = [owner |-> live[k].owner, clientOrderId |-> live[k].clientOrderId,
                       side |-> live[k].side, priceTicks |-> live[k].priceTicks,
                       remaining |-> IF k = i THEN live[k].remaining - q ELSE live[k].remaining]
        BY <1>3, <2>2 DEF Routed
    <3> QED BY <3>1
  <2> HIDE DEF rest
  <2>3. ASSUME NEW k \in DOMAIN u.live
        PROVE  /\ u.live[k].owner = live[k].owner /\ u.live[k].clientOrderId = live[k].clientOrderId
               /\ u.live[k].side = live[k].side
               /\ u.live[k].remaining = IF k = i THEN rest ELSE live[k].remaining
    <3> DEFINE o == live[k].owner
               c == live[k].clientOrderId
               s == live[k].side
               p == live[k].priceTicks
               r == IF k = i THEN rest ELSE live[k].remaining
    <3>1. u.live[k] = [owner |-> o, clientOrderId |-> c, side |-> s, priceTicks |-> p, remaining |-> r]
        BY <2>2, <2>3
    <3> HIDE DEF o, c, s, p, r
    <3>2. u.live[k].owner = o /\ u.live[k].clientOrderId = c /\ u.live[k].side = s /\ u.live[k].remaining = r
        BY <3>1
    <3> QED BY <3>2 DEF o, c, s, p, r
  <2> QED BY <2>1, <2>3
<1>10. Tracks(nb, u.live)
  <2> SUFFICES ASSUME NEW k \in DOMAIN u.live
               PROVE  /\ k \in DOMAIN nb /\ nb[k].status = "Open"
                      /\ nb[k].owner = u.live[k].owner /\ nb[k].clientOrderId = u.live[k].clientOrderId
                      /\ nb[k].side = u.live[k].side /\ nb[k].left = u.live[k].remaining
      BY DEF Tracks
  <2>1. k \in DOMAIN live /\ k \in D /\ DOMAIN nb = D /\ (k = i => rest # 0)
      BY <1>1, <1>8, <1>9 DEF Tracks
  <2>2. /\ b[k].status = "Open" /\ b[k].owner = live[k].owner
        /\ b[k].clientOrderId = live[k].clientOrderId
        /\ b[k].side = live[k].side /\ b[k].left = live[k].remaining
      BY <2>1 DEF Tracks
  <2>3. CASE k = i
      BY <1>8, <1>9, <2>1, <2>2, <2>3
  <2>4. CASE k # i
      BY <1>8, <1>9, <2>1, <2>2, <2>4
  <2> QED BY <2>3, <2>4
<1>11. Recorded(nb, u.live, u.records, gone)
  <2> SUFFICES ASSUME NEW k \in D, nb[k].owner \notin gone
               PROVE  /\ nb[k].status = "Open" => k \in DOMAIN u.live
                      /\ u.records[nb[k].owner][nb[k].clientOrderId] =
                            [state |-> StateOf(nb[k].status), engineId |-> k]
      BY <1>8 DEF Recorded
  <2>1. nb[k].owner = b[k].owner /\ nb[k].clientOrderId = b[k].clientOrderId
      BY <1>8
  <2>2. b[k].owner \in Conns /\ b[k].clientOrderId \in Cids
      BY DEF BlotterEntry
  <2>3. /\ b[k].status = "Open" => k \in DOMAIN live
        /\ records[b[k].owner][b[k].clientOrderId] = [state |-> StateOf(b[k].status), engineId |-> k]
      BY <1>1, <2>1 DEF Recorded
  <2>4. u.records[b[k].owner][b[k].clientOrderId] =
            IF b[k].owner = live[i].owner /\ b[k].clientOrderId = live[i].clientOrderId /\ rest = 0
            THEN [state |-> "Filled", engineId |-> k]
            ELSE records[b[k].owner][b[k].clientOrderId]
    <3>1. u.records[b[k].owner][b[k].clientOrderId] =
            IF b[k].owner = live[i].owner /\ b[k].clientOrderId = live[i].clientOrderId
               /\ live[i].remaining = q
            THEN [state |-> "Filled", engineId |-> records[b[k].owner][b[k].clientOrderId].engineId]
            ELSE records[b[k].owner][b[k].clientOrderId]
        BY <1>3, <2>2 DEF Routed
    <3>2. records[b[k].owner][b[k].clientOrderId].engineId = k
        BY <2>3
    <3>3. live[i].remaining = q <=> rest = 0
      <4> DEFINE l == live[i].remaining
      <4>1. l \in Nat /\ q \in Nat
          BY <1>1
      <4> HIDE DEF l
      <4>2. l = q <=> l - q = 0
          BY <4>1
      <4> QED BY <4>2 DEF l
    <3> QED BY <3>1, <3>2, <3>3
  <2>5. b[k].owner = live[i].owner /\ b[k].clientOrderId = live[i].clientOrderId <=> k = i
    <3>1. ASSUME b[k].owner = live[i].owner, b[k].clientOrderId = live[i].clientOrderId PROVE k = i
      <4>1. [state |-> StateOf(b[k].status), engineId |-> k].engineId = i
          BY <1>2, <2>3, <3>1
      <4> QED BY <4>1
    <3> QED BY <1>1, <3>1
  <2>6. CASE k = i
    <3>1. CASE rest = 0
        BY <1>8, <2>1, <2>4, <2>5, <2>6, <3>1 DEF StateOf
    <3>2. CASE rest # 0
        BY <1>1, <1>8, <1>9, <2>1, <2>3, <2>4, <2>6, <3>2 DEF StateOf
    <3> QED BY <3>1, <3>2
  <2>7. CASE k # i
      BY <1>8, <1>9, <2>1, <2>3, <2>4, <2>5, <2>7
  <2> QED BY <2>6, <2>7
<1>12. Known(nb, u.records)
  <2> SUFFICES ASSUME NEW c \in Conns, NEW d \in Cids, u.records[c][d].state # "Absent"
               PROVE  LET k == u.records[c][d].engineId
                      IN k \in DOMAIN nb /\ nb[k].owner = c /\ nb[k].clientOrderId = d
      BY DEF Known
  <2>1. records[c][d].state # "Absent" /\ u.records[c][d].engineId = records[c][d].engineId
    <3>1. CASE u.records[c][d] = records[c][d]
        BY <3>1
    <3>2. CASE u.records[c][d] # records[c][d]
      <4>1. /\ c = live[i].owner /\ d = live[i].clientOrderId
            /\ u.records[c][d] = [state |-> "Filled", engineId |-> records[c][d].engineId]
          BY <1>3, <3>2 DEF Routed
      <4> QED BY <1>2, <4>1
    <3> QED BY <3>1, <3>2
  <2> DEFINE k == records[c][d].engineId
  <2>2. k \in D /\ b[k].owner = c /\ b[k].clientOrderId = d
      BY <1>1, <2>1 DEF Known
  <2>3. nb[k].owner = b[k].owner /\ nb[k].clientOrderId = b[k].clientOrderId
      BY <1>8, <2>2
  <2>4. DOMAIN nb = D
      BY <1>8
  <2> QED BY <2>1, <2>2, <2>3, <2>4
<1>13. ASSUME NEW k \in D
       PROVE  nb[k].side = b[k].side /\ nb[k].filled = IF k = i THEN b[k].filled + q ELSE b[k].filled
    BY <1>8, <1>13
<1> QED BY <1>3, <1>5, <1>7, <1>8, <1>10, <1>11, <1>12, <1>13 DEF nb, msg, FillHeard

-----------------------------------------------------------------------------
(***************************************************************************)
(* The steps.                                                              *)
(***************************************************************************)
\* A step that changes no table and no entry.
LEMMA BlotterUnchanged ==
    ASSUME AuditInv, UNCHANGED <<nextEngineId, byEngineId, byConn, dropped, blotter, anomaly>>
    PROVE  BlotterOK'
BY DEF AuditInv, BlotterOK, Tracks, Recorded, Known, ReportsBalance

\* A reply that tells the blotter nothing: a REJECT or a CANCEL_REJECT.
LEMMA HearReply ==
    ASSUME AuditInv, AuditNext, UNCHANGED <<nextEngineId, byEngineId, byConn, dropped>>,
           NEW msg, sent' = <<msg>>, msg.type \in {"REJECT", "CANCEL_REJECT"}
    PROVE  BlotterOK'
<1>1. anomaly = FALSE
    BY DEF AuditInv, BlotterOK
<1>2. Explained(blotter, msg)
    BY DEF Explained
<1>3. Note(blotter, msg, Asked) = blotter
    BY DEF Note
<1>4. blotter' = blotter /\ anomaly' = FALSE
    BY <1>1, <1>2, <1>3, ReadOne
<1> QED BY <1>1, <1>4, BlotterUnchanged

\* An ACK opens the order it answers, under an id the blotter does not have.
LEMMA HearAck ==
    ASSUME AuditInv, AuditNext, NEW conn \in Conns, NEW m \in Messages, AcceptNewOrder(conn, m)
    PROVE  BlotterOK'
<1> DEFINE id  == nextEngineId
           cid == m.clientOrderId
           msg == Ack(conn, cid, id)
           entry == [owner |-> conn, clientOrderId |-> cid, side |-> m.side, filled |-> 0,
                     left |-> m.qty, status |-> "Open"]
<1>1. /\ TypeOK /\ anomaly = FALSE /\ blotter \in [1..(id - 1) -> BlotterEntry]
      /\ Tracks(blotter, byEngineId) /\ Recorded(blotter, byEngineId, byConn, dropped)
      /\ Known(blotter, byConn) /\ ReportsBalance
    BY DEF AuditInv, IInv, BlotterOK
<1>2. /\ cid \in Cids /\ m.side \in Sides /\ m.qty \in Quantities /\ m.qty \in Nat
      /\ byConn[conn][cid].state = "Absent"
    BY <1>1, AdmittedFacts, QuantitiesAssumption DEF AcceptNewOrder
<1>3. /\ id \in OrderIds /\ id \in Nat \ {0} /\ nextEngineId' = id + 1 /\ dropped' = dropped
      /\ Submit(id, m.side, m.priceTicks, m.qty, conn)
      /\ sent' = <<msg>>
      /\ DOMAIN byEngineId' = DOMAIN byEngineId \cup {id}
      /\ byEngineId'[id] = [owner |-> conn, clientOrderId |-> cid, side |-> m.side,
                            priceTicks |-> m.priceTicks, remaining |-> m.qty]
      /\ \A i \in DOMAIN byEngineId : i # id => byEngineId'[i] = byEngineId[i]
      /\ byConn' = [byConn EXCEPT ![conn][cid] = [state |-> "Resting", engineId |-> id]]
    BY <1>1 DEF AcceptNewOrder, TypeOK
<1>4. Asked.side = m.side /\ Asked.qty = m.qty
  <2>1. taker' = id /\ id # NoTaker
      BY <1>3 DEF Submit, NoTaker
  <2>2. orders'[id] = [side |-> m.side, price |-> m.priceTicks, qty |-> m.qty,
                       seq |-> sequence, owner |-> conn]
      BY <1>3 DEF Submit
  <2> QED BY <2>1, <2>2 DEF Asked
<1>5. /\ msg.type = "ACK" /\ msg.exchangeId = id /\ msg.to = conn /\ msg.clientOrderId = cid
    BY DEF Ack
<1>6. DOMAIN blotter = 1..(id - 1) /\ id \notin 1..(id - 1) /\ 1..((id + 1) - 1) = 1..(id - 1) \cup {id}
  <2>1. id \notin 1..(id - 1)
      BY <1>3
  <2>2. 1..((id + 1) - 1) = 1..(id - 1) \cup {id}
      BY <1>3
  <2> QED BY <1>1, <2>1, <2>2
<1> HIDE DEF msg
<1>7. Explained(blotter, msg)
    BY <1>5, <1>6 DEF Explained
<1>8. Note(blotter, msg, Asked) =
          [i \in DOMAIN blotter \cup {id} |-> IF i = id THEN entry ELSE blotter[i]]
    BY <1>4, <1>5 DEF Note
<1>9. /\ anomaly' = FALSE
      /\ blotter' = [i \in 1..(id - 1) \cup {id} |-> IF i = id THEN entry ELSE blotter[i]]
    BY <1>1, <1>3, <1>6, <1>7, <1>8, ReadOne
<1>10. entry \in BlotterEntry
    BY <1>2 DEF BlotterEntry
<1>11. /\ entry.owner = conn /\ entry.clientOrderId = cid /\ entry.side = m.side
       /\ entry.left = m.qty /\ entry.status = "Open"
    OBVIOUS
<1> HIDE DEF entry, id, cid
<1>12. /\ DOMAIN blotter' = 1..(id - 1) \cup {id} /\ blotter'[id] = entry
       /\ \A i \in 1..(id - 1) : blotter'[i] = blotter[i]
    BY <1>6, <1>9
<1>13. blotter' \in [1..(nextEngineId' - 1) -> BlotterEntry]
    BY <1>1, <1>3, <1>6, <1>9, <1>10
<1>14. Tracks(blotter', byEngineId')
  <2> SUFFICES ASSUME NEW i \in DOMAIN byEngineId'
               PROVE  /\ i \in DOMAIN blotter' /\ blotter'[i].status = "Open"
                      /\ blotter'[i].owner = byEngineId'[i].owner
                      /\ blotter'[i].clientOrderId = byEngineId'[i].clientOrderId
                      /\ blotter'[i].side = byEngineId'[i].side
                      /\ blotter'[i].left = byEngineId'[i].remaining
      BY DEF Tracks
  <2>1. CASE i = id
      BY <1>3, <1>11, <1>12, <2>1
  <2>2. CASE i # id
    <3>1. i \in DOMAIN byEngineId /\ byEngineId'[i] = byEngineId[i] /\ i \in 1..(id - 1)
        BY <1>1, <1>3, <1>6, <2>2 DEF Tracks
    <3>2. blotter'[i] = blotter[i]
        BY <1>12, <3>1
    <3> QED BY <1>1, <1>12, <3>1, <3>2 DEF Tracks
  <2> QED BY <2>1, <2>2
<1>15. Recorded(blotter', byEngineId', byConn', dropped')
  <2> SUFFICES ASSUME NEW i \in DOMAIN blotter', blotter'[i].owner \notin dropped
               PROVE  /\ blotter'[i].status = "Open" => i \in DOMAIN byEngineId'
                      /\ byConn'[blotter'[i].owner][blotter'[i].clientOrderId] =
                            [state |-> StateOf(blotter'[i].status), engineId |-> i]
      BY <1>3 DEF Recorded
  <2>1. byConn \in [Conns -> [Cids -> ClientRecord]]
      BY <1>1 DEF TypeOK
  <2>2. CASE i = id
      BY <1>2, <1>3, <1>11, <1>12, <2>1, <2>2 DEF StateOf
  <2>3. CASE i # id
    <3> DEFINE o == blotter[i].owner
               d == blotter[i].clientOrderId
    <3>1. i \in 1..(id - 1) /\ blotter'[i] = blotter[i]
        BY <1>12, <2>3
    <3>2. o \in Conns /\ d \in Cids
        BY <1>1, <3>1 DEF BlotterEntry
    <3>3. /\ blotter[i].status = "Open" => i \in DOMAIN byEngineId
          /\ byConn[o][d] = [state |-> StateOf(blotter[i].status), engineId |-> i]
        BY <1>1, <1>6, <3>1 DEF Recorded
    <3>4. StateOf(blotter[i].status) # "Absent"
        BY <1>1, <3>1 DEF BlotterEntry, StateOf
    <3>5. byConn[o][d].state = StateOf(blotter[i].status)
        BY <3>3
    <3>6. ~(o = conn /\ d = cid)
        BY <1>2, <3>4, <3>5
    <3>7. byConn'[o][d] = byConn[o][d]
        BY <1>2, <1>3, <2>1, <3>2, <3>6
    <3> QED BY <1>3, <3>1, <3>3, <3>7
  <2> QED BY <2>2, <2>3
<1>16. Known(blotter', byConn')
  <2> SUFFICES ASSUME NEW c \in Conns, NEW d \in Cids, byConn'[c][d].state # "Absent"
               PROVE  LET k == byConn'[c][d].engineId
                      IN k \in DOMAIN blotter' /\ blotter'[k].owner = c /\ blotter'[k].clientOrderId = d
      BY DEF Known
  <2>1. byConn \in [Conns -> [Cids -> ClientRecord]]
      BY <1>1 DEF TypeOK
  <2>2. CASE c = conn /\ d = cid
    <3>1. byConn'[c][d].engineId = id
        BY <1>2, <1>3, <2>1, <2>2
    <3> QED BY <1>11, <1>12, <2>2, <3>1
  <2>3. CASE ~(c = conn /\ d = cid)
    <3>1. byConn'[c][d] = byConn[c][d]
        BY <1>2, <1>3, <2>1, <2>3
    <3> QED BY <1>1, <1>6, <1>12, <3>1 DEF Known
  <2> QED BY <2>2, <2>3
<1>17. ReportsBalance'
  <2> DEFINE n == id - 1
  <2>1. n \in Nat /\ n + 1 = id /\ nextEngineId' - 1 = n + 1
      BY <1>3
  <2>2. blotter'[n + 1].filled = 0
      BY <1>12, <2>1 DEF entry
  <2>3. \A k \in 1..n : blotter[k].filled \in Nat /\ blotter'[k] = blotter[k]
      BY <1>1, <1>12 DEF BlotterEntry
  <2> HIDE DEF n
  <2>4. \A side \in Sides : TotalFilled(blotter', side, n + 1) = TotalFilled(blotter, side, n)
      BY <2>1, <2>2, <2>3, TotalAfterOpen
  <2>5. TotalFilled(blotter, "Buy", n) = TotalFilled(blotter, "Sell", n)
      BY <1>1 DEF ReportsBalance, n, id
  <2> QED BY <2>1, <2>4, <2>5 DEF ReportsBalance, Sides
<1> QED BY <1>9, <1>13, <1>14, <1>15, <1>16, <1>17 DEF BlotterOK

\* A CANCEL_ACK closes the order its record stands for.
LEMMA HearCancelAck ==
    ASSUME AuditInv, AuditNext, NEW conn \in Conns, NEW m \in Messages, AcceptCancel(conn, m)
    PROVE  BlotterOK'
<1> DEFINE cid == m.clientOrderId
           id  == byConn[conn][cid].engineId
           msg == CancelAck(conn, cid, id)
           D   == 1..(nextEngineId - 1)
<1>1. /\ IInv /\ anomaly = FALSE /\ blotter \in [D -> BlotterEntry]
      /\ Tracks(blotter, byEngineId) /\ Recorded(blotter, byEngineId, byConn, dropped)
      /\ Known(blotter, byConn) /\ ReportsBalance
    BY DEF AuditInv, BlotterOK
<1>2. /\ cid \in Cids /\ conn \notin dropped
      /\ byEngineId' = Erase(byEngineId, {id}) /\ sent' = <<msg>>
      /\ nextEngineId' = nextEngineId /\ dropped' = dropped
      /\ byConn' = [byConn EXCEPT ![conn][cid].state = "Cancelled"]
      /\ byConn[conn][cid].state \notin {"Absent", "Filled", "Cancelled"}
    BY MessagesAssumption DEF AcceptCancel, Receives, CancelRejectReason
<1>3. /\ byConn \in [Conns -> [Cids -> ClientRecord]]
      /\ byConn[conn][cid] \in ClientRecord /\ byConn[conn][cid].state = "Resting"
    BY <1>1, <1>2 DEF IInv, TypeOK, ClientRecord
<1>4. id \in DOMAIN byEngineId /\ byEngineId[id].owner = conn /\ byEngineId[id].clientOrderId = cid
    BY <1>1, <1>2, <1>3 DEF IInv, RecordsMatchLiveOrders
<1>5. /\ id \in D /\ blotter[id].status = "Open" /\ DOMAIN blotter = D
      /\ blotter[id].owner = conn /\ blotter[id].clientOrderId = cid
    BY <1>1, <1>4 DEF Tracks
<1>6. /\ msg.type = "CANCEL_ACK" /\ msg.exchangeId = id /\ msg.to = conn /\ msg.clientOrderId = cid
    BY DEF CancelAck
<1>7. /\ DOMAIN byEngineId' = DOMAIN byEngineId \ {id}
      /\ \A i \in DOMAIN byEngineId' : byEngineId'[i] = byEngineId[i]
    BY <1>2 DEF Erase
<1>8. /\ byConn'[conn][cid] = [state |-> "Cancelled", engineId |-> id]
      /\ \A c \in Conns, d \in Cids : ~(c = conn /\ d = cid) => byConn'[c][d] = byConn[c][d]
  <2>1. [byConn[conn][cid] EXCEPT !.state = "Cancelled"] = [state |-> "Cancelled", engineId |-> id]
      BY <1>3 DEF ClientRecord
  <2> QED BY <1>2, <1>3, <2>1
<1> HIDE DEF msg, id, cid, D
<1>9. Explained(blotter, msg)
    BY <1>5, <1>6 DEF Explained, Open
<1>10. blotter' = [blotter EXCEPT ![id].status = "Cancelled"] /\ anomaly' = FALSE
  <2>1. Note(blotter, msg, Asked) = [blotter EXCEPT ![id].status = "Cancelled"]
      BY <1>6 DEF Note
  <2> QED BY <1>1, <1>2, <1>9, <2>1, ReadOne
<1>11. /\ blotter' \in [D -> BlotterEntry] /\ blotter'[id].status = "Cancelled"
       /\ blotter'[id].owner = conn /\ blotter'[id].clientOrderId = cid
       /\ blotter'[id].side = blotter[id].side /\ blotter'[id].filled = blotter[id].filled
       /\ \A i \in D : i # id => blotter'[i] = blotter[i]
  <2>1. blotter[id] \in BlotterEntry
      BY <1>1, <1>5
  <2>2. /\ [blotter[id] EXCEPT !.status = "Cancelled"] \in BlotterEntry
        /\ [blotter[id] EXCEPT !.status = "Cancelled"].status = "Cancelled"
        /\ [blotter[id] EXCEPT !.status = "Cancelled"].owner = blotter[id].owner
        /\ [blotter[id] EXCEPT !.status = "Cancelled"].clientOrderId = blotter[id].clientOrderId
        /\ [blotter[id] EXCEPT !.status = "Cancelled"].side = blotter[id].side
        /\ [blotter[id] EXCEPT !.status = "Cancelled"].filled = blotter[id].filled
      BY <2>1 DEF BlotterEntry
  <2>3. blotter' = [blotter EXCEPT ![id] = [blotter[id] EXCEPT !.status = "Cancelled"]]
      BY <1>10
  <2> QED BY <1>1, <1>5, <2>2, <2>3
<1>12. Tracks(blotter', byEngineId')
    BY <1>1, <1>5, <1>7, <1>11 DEF Tracks
<1>13. Recorded(blotter', byEngineId', byConn', dropped')
  <2> SUFFICES ASSUME NEW i \in D, blotter'[i].owner \notin dropped
               PROVE  /\ blotter'[i].status = "Open" => i \in DOMAIN byEngineId'
                      /\ byConn'[blotter'[i].owner][blotter'[i].clientOrderId] =
                            [state |-> StateOf(blotter'[i].status), engineId |-> i]
      BY <1>2, <1>11 DEF Recorded
  <2>1. CASE i = id
      BY <1>8, <1>11, <2>1 DEF StateOf
  <2>2. CASE i # id
    <3> DEFINE o == blotter[i].owner
               d == blotter[i].clientOrderId
    <3>1. blotter'[i] = blotter[i] /\ i \in DOMAIN blotter
        BY <1>5, <1>11, <2>2
    <3>2. o \in Conns /\ d \in Cids
        BY <1>1 DEF BlotterEntry
    <3>3. /\ blotter[i].status = "Open" => i \in DOMAIN byEngineId
          /\ byConn[o][d] = [state |-> StateOf(blotter[i].status), engineId |-> i]
        BY <1>1, <3>1 DEF Recorded
    <3>4. byConn[o][d].engineId = i /\ byConn[conn][cid].engineId = id
        BY <3>3 DEF id
    <3>5. byConn'[o][d] = byConn[o][d]
        BY <1>8, <2>2, <3>2, <3>4
    <3> QED BY <1>7, <2>2, <3>1, <3>3, <3>5
  <2> QED BY <2>1, <2>2
<1>14. Known(blotter', byConn')
  <2> SUFFICES ASSUME NEW c \in Conns, NEW d \in Cids, byConn'[c][d].state # "Absent"
               PROVE  LET k == byConn'[c][d].engineId
                      IN k \in DOMAIN blotter' /\ blotter'[k].owner = c /\ blotter'[k].clientOrderId = d
      BY DEF Known
  <2>1. CASE c = conn /\ d = cid
    <3>1. byConn'[c][d].engineId = id
        BY <1>8, <2>1
    <3> QED BY <1>5, <1>11, <2>1, <3>1
  <2>2. CASE ~(c = conn /\ d = cid)
    <3>1. byConn'[c][d] = byConn[c][d]
        BY <1>8, <2>2
    <3> DEFINE k == byConn[c][d].engineId
    <3>2. k \in D /\ blotter[k].owner = c /\ blotter[k].clientOrderId = d
        BY <1>1, <1>5, <3>1 DEF Known
    <3> HIDE DEF k
    <3>3. blotter'[k].owner = c /\ blotter'[k].clientOrderId = d
        BY <1>5, <1>11, <3>2
    <3> QED BY <1>11, <3>1, <3>2, <3>3 DEF k
  <2> QED BY <2>1, <2>2
<1>15. ReportsBalance'
  <2> DEFINE n == nextEngineId - 1
  <2>1. n \in Nat /\ id \in 1..n /\ 0 \in Nat /\ nextEngineId' - 1 = n
      BY <1>1, <1>2, <1>5 DEF D, IInv, TypeOK
  <2>2. FilledMore(blotter, blotter', n, id, 0)
      BY <1>1, <1>11 DEF BlotterEntry, D, FilledMore
  <2> HIDE DEF n
  <2>3. ASSUME NEW side \in Sides
        PROVE  TotalFilled(blotter', side, n) = TotalFilled(blotter, side, n)
    <3>1. /\ TotalFilled(blotter, side, n) \in Nat
          /\ TotalFilled(blotter', side, n) =
                TotalFilled(blotter, side, n) + (IF blotter[id].side = side THEN 0 ELSE 0)
        BY <2>1, <2>2, TotalAfterFill
    <3> QED BY <3>1
  <2>4. TotalFilled(blotter, "Buy", n) = TotalFilled(blotter, "Sell", n)
      BY <1>1 DEF ReportsBalance, n
  <2> QED BY <2>1, <2>3, <2>4 DEF ReportsBalance, Sides
<1> QED BY <1>2, <1>10, <1>11, <1>12, <1>13, <1>14, <1>15 DEF BlotterOK, D

\* The entries of a connection that is dropped are nobody's any more.
LEMMA HearDrop ==
    ASSUME AuditInv, AuditNext, NEW conn \in Conns, DropConnection(conn)
    PROVE  BlotterOK'
<1> DEFINE owned == {i \in DOMAIN byEngineId : byEngineId[i].owner = conn}
<1>1. /\ IInv /\ anomaly = FALSE /\ blotter \in [1..(nextEngineId - 1) -> BlotterEntry]
      /\ Tracks(blotter, byEngineId) /\ Recorded(blotter, byEngineId, byConn, dropped)
      /\ Known(blotter, byConn) /\ ReportsBalance
    BY DEF AuditInv, BlotterOK
<1>2. /\ byEngineId' = Erase(byEngineId, owned) /\ sent' = <<>>
      /\ nextEngineId' = nextEngineId /\ dropped' = dropped \cup {conn}
      /\ byConn' = [byConn EXCEPT ![conn] = [cid \in Cids |-> Absent]]
    BY DEF DropConnection
<1>3. blotter' = blotter /\ anomaly' = FALSE
    BY <1>1, <1>2, ReadNothing
<1>4. /\ DOMAIN byEngineId' = DOMAIN byEngineId \ owned
      /\ \A i \in DOMAIN byEngineId' : byEngineId'[i] = byEngineId[i]
    BY <1>2 DEF Erase
<1>5. Tracks(blotter', byEngineId')
    BY <1>1, <1>3, <1>4 DEF Tracks
<1>6. Recorded(blotter', byEngineId', byConn', dropped')
  <2> SUFFICES ASSUME NEW i \in DOMAIN blotter, blotter[i].owner \notin dropped \cup {conn}
               PROVE  /\ blotter[i].status = "Open" => i \in DOMAIN byEngineId'
                      /\ byConn'[blotter[i].owner][blotter[i].clientOrderId] =
                            [state |-> StateOf(blotter[i].status), engineId |-> i]
      BY <1>2, <1>3 DEF Recorded
  <2>1. /\ blotter[i].status = "Open" => i \in DOMAIN byEngineId
        /\ byConn[blotter[i].owner][blotter[i].clientOrderId] =
              [state |-> StateOf(blotter[i].status), engineId |-> i]
      BY <1>1 DEF Recorded
  <2>2. i \in DOMAIN byEngineId => byEngineId[i].owner = blotter[i].owner
      BY <1>1 DEF Tracks
  <2>3. blotter[i].owner \in Conns /\ byConn \in [Conns -> [Cids -> ClientRecord]]
      BY <1>1 DEF BlotterEntry, IInv, TypeOK
  <2>4. byConn'[blotter[i].owner] = byConn[blotter[i].owner]
      BY <1>2, <2>3
  <2> QED BY <1>4, <2>1, <2>2, <2>4
<1>7. Known(blotter', byConn')
  <2>1. byConn \in [Conns -> [Cids -> ClientRecord]]
      BY <1>1 DEF IInv, TypeOK
  <2>2. \A c \in Conns, d \in Cids : byConn'[c][d] = IF c = conn THEN Absent ELSE byConn[c][d]
      BY <1>2, <2>1
  <2> QED BY <1>1, <1>3, <2>2 DEF Known, Absent
<1>8. ReportsBalance'
    BY <1>1, <1>2, <1>3 DEF ReportsBalance
<1> QED BY <1>1, <1>2, <1>3, <1>5, <1>6, <1>7, <1>8 DEF BlotterOK

\* The two FILL messages of a trade, in the order onTrade routes them: orders i
\* and j are the buyer and the seller.
LEMMA HearTrade ==
    ASSUME AuditInv, AuditNext, NEW r \in DOMAIN orders, FillAndRoute(r),
           NEW i \in {taker, r}, NEW j \in {taker, r}, i # j,
           trade'.buyOrderId = i, trade'.sellOrderId = j,
           orders[i].side = "Buy", orders[j].side = "Sell"
    PROVE  /\ BlotterOK'
           /\ \E m1, m2 : /\ sent' = Append(Append(<<>>, m1), m2)
                          /\ m1.type = "FILL" /\ m2.type = "FILL"
<1> DEFINE q == trade'.quantity
           p == trade'.price
           D == 1..(nextEngineId - 1)
           t0 == [live |-> byEngineId, records |-> byConn, out |-> <<>>]
           t1 == RouteFill(t0, i, p, q)
           t2 == RouteFill(t1, j, p, q)
           m1 == FillReport(byEngineId[i], i, q, p, byEngineId[i].remaining - q)
           m2 == FillReport(t1.live[j], j, q, p, t1.live[j].remaining - q)
           b1 == Note(blotter, m1, Asked)
           b2 == Note(b1, m2, Asked)
<1>1. /\ IInv /\ anomaly = FALSE /\ blotter \in [D -> BlotterEntry]
      /\ Tracks(blotter, byEngineId) /\ Recorded(blotter, byEngineId, byConn, dropped)
      /\ Known(blotter, byConn) /\ ReportsBalance
      /\ byConn \in [Conns -> [Cids -> ClientRecord]]
      /\ \A k \in DOMAIN byEngineId : byEngineId[k] \in LiveOrder
    BY DEF AuditInv, BlotterOK, IInv, TypeOK
<1>2. /\ taker \in DOMAIN orders /\ q \in Nat \ {0}
      /\ q <= orders[taker].qty /\ q <= orders[r].qty
    BY <1>1, FillFacts DEF FillAndRoute, IInv, TypeOK, BookInv
<1>3. /\ i \in DOMAIN byEngineId /\ j \in DOMAIN byEngineId
      /\ q <= byEngineId[i].remaining /\ q <= byEngineId[j].remaining
      /\ byEngineId[i].owner \notin dropped /\ byEngineId[j].owner \notin dropped
      /\ blotter[i].side = "Buy" /\ blotter[j].side = "Sell" /\ i \in D /\ j \in D
  <2>1. /\ taker \in DOMAIN byEngineId /\ r \in DOMAIN byEngineId
        /\ byEngineId[taker].remaining = orders[taker].qty /\ byEngineId[r].remaining = orders[r].qty
        /\ byEngineId[taker].owner = orders[taker].owner /\ byEngineId[r].owner = orders[r].owner
      BY <1>1, FillTables
  <2>2. orders[taker].owner \notin dropped /\ orders[r].owner \notin dropped
      BY <1>1, <1>2 DEF IInv, DroppedLeavesNothing
  <2>3. /\ i \in DOMAIN byEngineId /\ j \in DOMAIN byEngineId
        /\ blotter[i].side = "Buy" /\ blotter[j].side = "Sell" /\ i \in D /\ j \in D
      BY <1>1, <2>1 DEF Tracks, IInv, LiveOrdersMatchBook
  <2> QED BY <1>2, <2>1, <2>2, <2>3
<1>4. /\ byEngineId' = t2.live /\ byConn' = t2.records /\ sent' = t2.out
      /\ nextEngineId' = nextEngineId /\ dropped' = dropped
    BY DEF FillAndRoute, OnTrade
<1> HIDE DEF q, p, D
<1>5. /\ Routed(t1, byEngineId, byConn, i, q)
      /\ t1.out = Append(<<>>, m1)
      /\ Explained(blotter, m1)
      /\ b1 \in [D -> BlotterEntry]
      /\ Tracks(b1, t1.live) /\ Recorded(b1, t1.live, t1.records, dropped)
      /\ Known(b1, t1.records)
      /\ \A k \in D : /\ b1[k].side = blotter[k].side
                      /\ b1[k].filled = IF k = i THEN blotter[k].filled + q ELSE blotter[k].filled
  <2>1. t1 = RouteFill([live |-> byEngineId, records |-> byConn, out |-> <<>>], i, p, q)
      OBVIOUS
  <2> HIDE DEF t1
  <2>2. FillHeard(D, blotter, byEngineId, byConn, <<>>, i, p, q, dropped, Asked, t1)
      BY <1>1, <1>2, <1>3, <2>1, HearFill
  <2> QED BY <2>2 DEF FillHeard
<1>6. /\ j \in DOMAIN t1.live /\ t1.live[j].owner = byEngineId[j].owner
      /\ t1.live[j].remaining = byEngineId[j].remaining
      /\ t1 = [live |-> t1.live, records |-> t1.records, out |-> t1.out]
      /\ t1.records \in [Conns -> [Cids -> ClientRecord]]
      /\ \A k \in DOMAIN t1.live : t1.live[k] \in LiveOrder
  <2> HIDE DEF t1
  <2>1. j \in DOMAIN t1.live
      BY <1>3, <1>5 DEF Routed
  <2>2. t1.live[j] = [owner |-> byEngineId[j].owner, clientOrderId |-> byEngineId[j].clientOrderId,
                      side |-> byEngineId[j].side, priceTicks |-> byEngineId[j].priceTicks,
                      remaining |-> byEngineId[j].remaining]
      BY <1>5, <2>1 DEF Routed
  <2>3. /\ t1 = [live |-> t1.live, records |-> t1.records, out |-> t1.out]
        /\ t1.records \in [Conns -> [Cids -> ClientRecord]]
        /\ \A k \in DOMAIN t1.live : t1.live[k] \in LiveOrder
      BY <1>5, Zenon DEF Routed
  <2> QED BY <2>1, <2>2, <2>3
<1>7. t2 = RouteFill([live |-> t1.live, records |-> t1.records, out |-> t1.out], j, p, q)
    BY <1>6
<1> HIDE DEF t1, t2, b1
<1>8. /\ t2.out = Append(t1.out, m2)
      /\ Explained(b1, m2)
      /\ b2 \in [D -> BlotterEntry]
      /\ Tracks(b2, t2.live) /\ Recorded(b2, t2.live, t2.records, dropped)
      /\ Known(b2, t2.records)
      /\ \A k \in D : /\ b2[k].side = b1[k].side
                      /\ b2[k].filled = IF k = j THEN b1[k].filled + q ELSE b1[k].filled
  <2>1. q <= t1.live[j].remaining /\ t1.live[j].owner \notin dropped
      BY <1>3, <1>6
  <2>2. FillHeard(D, b1, t1.live, t1.records, t1.out, j, p, q, dropped, Asked, t2)
      BY <1>2, <1>5, <1>6, <1>7, <2>1, HearFill
  <2> QED BY <2>2 DEF FillHeard
<1>type. m1.type = "FILL" /\ m2.type = "FILL"
    BY DEF FillReport
<1> HIDE DEF m1, m2, b2
<1>9. sent' = Append(Append(<<>>, m1), m2)
    BY <1>4, <1>5, <1>8
<1>10. blotter' = b2 /\ anomaly' = FALSE
    BY <1>1, <1>5, <1>8, <1>9, ReadTwo DEF b1, b2
<1>11. ReportsBalance'
  <2> DEFINE n == nextEngineId - 1
  <2>1. n \in Nat /\ i \in 1..n /\ j \in 1..n /\ nextEngineId' - 1 = n /\ q \in Nat
      BY <1>1, <1>2, <1>3, <1>4 DEF D, IInv, TypeOK
  <2>2. FilledMore(blotter, b1, n, i, q) /\ FilledMore(b1, b2, n, j, q)
    <3>1. \A k \in D : blotter[k].filled \in Nat /\ b1[k].filled \in Nat
        BY <1>1, <1>5 DEF BlotterEntry
    <3> QED BY <1>5, <1>8, <3>1 DEF FilledMore, D
  <2> HIDE DEF n
  <2>4. ASSUME NEW side \in Sides
        PROVE  /\ TotalFilled(blotter, side, n) \in Nat
               /\ TotalFilled(b1, side, n) =
                     TotalFilled(blotter, side, n) + (IF blotter[i].side = side THEN q ELSE 0)
               /\ TotalFilled(b2, side, n) =
                     TotalFilled(b1, side, n) + (IF b1[j].side = side THEN q ELSE 0)
      BY <2>1, <2>2, TotalAfterFill
  <2>5. blotter[i].side = "Buy" /\ b1[j].side = "Sell" /\ q \in Nat
      BY <1>2, <1>3, <1>5
  <2>6. /\ TotalFilled(b2, "Buy", n) = TotalFilled(blotter, "Buy", n) + q
        /\ TotalFilled(b2, "Sell", n) = TotalFilled(blotter, "Sell", n) + q
      BY <2>4, <2>5 DEF Sides
  <2>7. TotalFilled(blotter, "Buy", n) = TotalFilled(blotter, "Sell", n)
      BY <1>1 DEF ReportsBalance, n
  <2> QED BY <1>10, <2>1, <2>6, <2>7 DEF ReportsBalance
<1>12. BlotterOK'
    BY <1>4, <1>8, <1>10, <1>11 DEF BlotterOK, D
<1> QED BY <1>9, <1>12, <1>type

\* A round of the match loop.
LEMMA HearRound ==
    ASSUME AuditInv, AuditNext, NEW r \in DOMAIN orders, FillAndRoute(r)
    PROVE  /\ BlotterOK'
           /\ \E m1, m2 : /\ sent' = Append(Append(<<>>, m1), m2)
                          /\ m1.type = "FILL" /\ m2.type = "FILL"
<1>1. /\ r # taker /\ taker \in DOMAIN orders /\ orders[taker].side \in Sides
      /\ orders[r].side \in Sides /\ orders[r].side # orders[taker].side
      /\ orders[taker].side = "Buy" => trade'.buyOrderId = taker /\ trade'.sellOrderId = r
      /\ orders[taker].side = "Sell" => trade'.buyOrderId = r /\ trade'.sellOrderId = taker
  <2>1. BookTypeOK /\ BookInv /\ Fill(r)
      BY DEF AuditInv, IInv, TypeOK, BookInv, FillAndRoute
  <2>2. /\ r # taker /\ taker \in DOMAIN orders /\ orders[r].side # orders[taker].side
        /\ orders[taker].side = "Buy" => trade'.buyOrderId = taker /\ trade'.sellOrderId = r
        /\ orders[taker].side = "Sell" => trade'.buyOrderId = r /\ trade'.sellOrderId = taker
      BY <2>1, FillFacts
  <2> QED BY <2>1, <2>2 DEF BookTypeOK, Order
<1>2. CASE orders[taker].side = "Buy"
    BY <1>1, <1>2, HearTrade DEF Sides
<1>3. CASE orders[taker].side = "Sell"
    BY <1>1, <1>3, HearTrade DEF Sides
<1> QED BY <1>1, <1>2, <1>3 DEF Sides

\* Every step of the venue keeps the blotter true.
LEMMA BlotterStep ==
    ASSUME AuditInv, AuditNext
    PROVE  BlotterOK'
<1>1. ASSUME NEW conn \in Conns, NEW m \in Messages, HandleUnknown(conn, m)
      PROVE  BlotterOK'
  <2>1. sent' = <<Reject(conn, EchoCid(m), "malformed")>>
        /\ UNCHANGED <<nextEngineId, byEngineId, byConn, dropped>>
      BY <1>1 DEF HandleUnknown
  <2>2. Reject(conn, EchoCid(m), "malformed").type = "REJECT"
      BY DEF Reject
  <2> QED BY <2>1, <2>2, HearReply
<1>2. ASSUME NEW conn \in Conns, NEW m \in Messages, RejectNewOrder(conn, m)
      PROVE  BlotterOK'
  <2>1. sent' = <<Reject(conn, EchoCid(m), RejectReason(conn, m))>>
        /\ UNCHANGED <<nextEngineId, byEngineId, byConn, dropped>>
      BY <1>2 DEF RejectNewOrder
  <2>2. Reject(conn, EchoCid(m), RejectReason(conn, m)).type = "REJECT"
      BY DEF Reject
  <2> QED BY <2>1, <2>2, HearReply
<1>3. ASSUME NEW conn \in Conns, NEW m \in Messages, RejectCancel(conn, m)
      PROVE  BlotterOK'
  <2>1. sent' = <<CancelReject(conn, EchoCid(m), CancelRejectReason(conn, m))>>
        /\ UNCHANGED <<nextEngineId, byEngineId, byConn, dropped>>
      BY <1>3 DEF RejectCancel
  <2>2. CancelReject(conn, EchoCid(m), CancelRejectReason(conn, m)).type = "CANCEL_REJECT"
      BY DEF CancelReject
  <2> QED BY <2>1, <2>2, HearReply
<1>4. ASSUME sent' = <<>>, UNCHANGED <<nextEngineId, byEngineId, byConn, dropped>>
      PROVE  BlotterOK'
    BY <1>4, ReadNothing, BlotterUnchanged
<1>5. ASSUME NEW conn \in Conns, NEW m \in Messages, HandleHeartbeat(conn, m)
      PROVE  BlotterOK'
    BY <1>4, <1>5 DEF HandleHeartbeat
<1>6. CASE SettleOrder
    BY <1>4, <1>6 DEF SettleOrder
<1> QED
    BY <1>1, <1>2, <1>3, <1>5, <1>6, HearRound, HearAck, HearCancelAck, HearDrop DEF AuditNext, Next

LEMMA AuditInitInv == AuditInit => AuditInv
<1> SUFFICES ASSUME AuditInit PROVE AuditInv
    OBVIOUS
<1>1. /\ Init /\ IInv /\ blotter = [i \in {} |-> 0] /\ anomaly = FALSE
      /\ nextEngineId = 1 /\ DOMAIN byEngineId = {}
      /\ byConn = [c \in Conns |-> [cid \in Cids |-> Absent]]
    BY InitInv DEF AuditInit, Init
<1>2. blotter \in [1..(nextEngineId - 1) -> BlotterEntry]
    BY <1>1
<1>3. Tracks(blotter, byEngineId) /\ Recorded(blotter, byEngineId, byConn, dropped)
    BY <1>1 DEF Tracks, Recorded
<1>4. Known(blotter, byConn)
    BY <1>1 DEF Known, Absent
<1>5. ReportsBalance
  <2>1. ASSUME NEW side PROVE TotalFilled(blotter, side, 0) = 0
    <3>1. PICK f : Totals(blotter, side, 0, f) /\ TotalFilled(blotter, side, 0) = f[0]
        BY TotalFilledIs
    <3>2. f = [k \in 0..0 |-> IF k = 0 THEN 0 ELSE f[k - 1] + Part(blotter, side, k)]
        BY <3>1 DEF Totals
    <3>3. 0 \in 0..0
        OBVIOUS
    <3> QED BY <3>1, <3>2, <3>3
  <2>2. nextEngineId - 1 = 0
      BY <1>1
  <2> QED BY <2>1, <2>2 DEF ReportsBalance
<1> QED BY <1>1, <1>2, <1>3, <1>4, <1>5 DEF AuditInv, BlotterOK

LEMMA AuditNextInv == AuditInv /\ [AuditNext]_auditVars => AuditInv'
<1> SUFFICES ASSUME AuditInv, [AuditNext]_auditVars PROVE AuditInv'
    OBVIOUS
<1>1. CASE AuditNext
  <2>1. IInv'
      BY <1>1, NextInv DEF AuditInv, AuditNext
  <2> QED BY <1>1, <2>1, BlotterStep DEF AuditInv
<1>2. CASE UNCHANGED auditVars
  <2>1. IInv'
      BY <1>2, NextInv DEF AuditInv, auditVars
  <2>2. UNCHANGED <<nextEngineId, byEngineId, byConn, dropped, blotter, anomaly>>
      BY <1>2 DEF auditVars, vars, tableVars
  <2> QED BY <2>1, <2>2, BlotterUnchanged DEF AuditInv
<1> QED BY <1>1, <1>2

\* The auditor's inductive invariant holds in every reachable state.
THEOREM AuditInvariant == AuditSpec => []AuditInv
BY AuditInitInv, AuditNextInv, PTL DEF AuditSpec

\* What the venue reports is consistent (no message contradicts the ones before
\* it), complete (between handlers every connected client's blotter is the truth)
\* and balanced (as much is reported bought as sold), though the fills are sent by
\* the callback in the middle of addLimitOrder.
THEOREM ReportsStayTruthful == AuditSpec => []ReportsTruthful
<1>1. ASSUME AuditInv PROVE BlotterIsTruth
  <2> SUFFICES ASSUME taker = NoTaker, NEW i \in 1..(nextEngineId - 1), blotter[i].owner \notin dropped
               PROVE  /\ blotter[i].status = "Open" <=> i \in DOMAIN orders
                      /\ i \in DOMAIN orders => blotter[i].left = orders[i].qty
                      /\ byConn[blotter[i].owner][blotter[i].clientOrderId] =
                            [state |-> StateOf(blotter[i].status), engineId |-> i]
      BY DEF BlotterIsTruth, StateOf
  <2>1. /\ IInv /\ i \in DOMAIN blotter
        /\ Tracks(blotter, byEngineId) /\ Recorded(blotter, byEngineId, byConn, dropped)
      BY <1>1 DEF AuditInv, BlotterOK
  <2>2. DOMAIN byEngineId = DOMAIN orders
    <3>1. NoTaker \notin DOMAIN orders
        BY <2>1, OrderIdsAssumption DEF IInv, TypeOK, BookTypeOK, NoTaker
    <3> QED BY <2>1, <3>1 DEF IInv, TypeOK, BookTypeOK, Resting, LiveOrdersMatchBook
  <2> QED BY <2>1, <2>2 DEF Tracks, Recorded, IInv, LiveOrdersMatchBook
<1>2. AuditInv => ReportsTruthful
    BY <1>1 DEF AuditInv, BlotterOK, ReportsTruthful, MessagesConsistent
<1> QED BY <1>2, AuditInvariant, PTL

\* The message of a cancel that is refused.
LEMMA RefusalIsRight ==
    ASSUME AuditInv, NEW conn \in Conns, NEW m \in Messages, RejectCancel(conn, m),
           NEW msg, msg = CancelReject(conn, EchoCid(m), CancelRejectReason(conn, m))
    PROVE  RefusalAgrees(blotter, msg)
<1> DEFINE cid == EchoCid(m)
           why == CancelRejectReason(conn, m)
           mine == {j \in DOMAIN blotter : blotter[j].owner = conn /\ blotter[j].clientOrderId = cid}
<1> SUFFICES IF mine = {} THEN why = "not_found"
             ELSE \A j \in mine : \/ blotter[j].status = "Filled" /\ why = "already_filled"
                                  \/ blotter[j].status = "Cancelled" /\ why = "already_cancelled"
                                  \/ cid = EmptyCid /\ why = "not_found"
  <2>1. msg.to = conn /\ msg.clientOrderId = cid /\ msg.reason = why
      BY DEF CancelReject
  <2> HIDE DEF cid, why
  <2> QED BY <2>1 DEF RefusalAgrees
<1>1. CASE ~m.hasClientOrderId
    BY <1>1 DEF EchoCid, CancelRejectReason
<1>2. CASE m.hasClientOrderId
  <2>1. cid = m.clientOrderId /\ cid \in Cids /\ why # "none" /\ conn \notin dropped
      BY <1>2, MessagesAssumption DEF EchoCid, RejectCancel, Receives
  <2> DEFINE rec == byConn[conn][cid]
  <2>2. why = IF rec.state = "Absent" THEN "not_found"
              ELSE IF rec.state = "Filled" THEN "already_filled"
              ELSE IF rec.state = "Cancelled" THEN "already_cancelled"
              ELSE "none"
      BY <1>2, <2>1 DEF CancelRejectReason
  <2>3. ASSUME rec.state # "Absent" PROVE rec.engineId \in mine
      BY <2>1, <2>3 DEF AuditInv, BlotterOK, Known
  <2>4. ASSUME NEW j \in mine
        PROVE  /\ rec.state = StateOf(blotter[j].status)
               /\ blotter[j].status \in {"Open", "Filled", "Cancelled"}
    <3>1. rec = [state |-> StateOf(blotter[j].status), engineId |-> j]
        BY <2>1 DEF AuditInv, BlotterOK, Recorded
    <3>2. blotter[j] \in BlotterEntry
        BY DEF AuditInv, BlotterOK
    <3> HIDE DEF rec
    <3> QED BY <3>1, <3>2 DEF BlotterEntry
  <2> HIDE DEF rec
  <2>5. CASE mine = {}
      BY <2>2, <2>3, <2>5
  <2>6. CASE mine # {}
    <3>1. ASSUME NEW j \in mine
          PROVE  \/ blotter[j].status = "Filled" /\ why = "already_filled"
                 \/ blotter[j].status = "Cancelled" /\ why = "already_cancelled"
        BY <2>1, <2>2, <2>4 DEF StateOf
    <3> QED BY <2>6, <3>1
  <2> QED BY <2>5, <2>6
<1> QED BY <1>1, <1>2

\* Only a refused cancel sends a CANCEL_REJECT.
LEMMA OnlyRejectCancel ==
    ASSUME AuditInv, AuditNext, \A conn \in Conns, m \in Messages : ~RejectCancel(conn, m)
    PROVE  \A i \in DOMAIN sent' : sent'[i].type # "CANCEL_REJECT"
<1>1. ASSUME sent' = <<>> PROVE \A i \in DOMAIN sent' : sent'[i].type # "CANCEL_REJECT"
    BY <1>1
<1>2. ASSUME NEW msg, sent' = <<msg>>, msg.type # "CANCEL_REJECT"
      PROVE  \A i \in DOMAIN sent' : sent'[i].type # "CANCEL_REJECT"
  <2>1. DOMAIN sent' = {1} /\ sent'[1] = msg
      BY <1>2
  <2> QED BY <1>2, <2>1
<1>3. ASSUME NEW conn \in Conns, NEW m \in Messages,
             \/ HandleUnknown(conn, m) \/ HandleHeartbeat(conn, m)
             \/ RejectNewOrder(conn, m) \/ AcceptNewOrder(conn, m) \/ AcceptCancel(conn, m)
      PROVE  \A i \in DOMAIN sent' : sent'[i].type # "CANCEL_REJECT"
  <2>1. CASE HandleUnknown(conn, m)
      BY <1>2, <2>1 DEF HandleUnknown, Reject
  <2>2. CASE HandleHeartbeat(conn, m)
      BY <1>1, <2>2 DEF HandleHeartbeat
  <2>3. CASE RejectNewOrder(conn, m)
      BY <1>2, <2>3 DEF RejectNewOrder, Reject
  <2>4. CASE AcceptNewOrder(conn, m)
      BY <1>2, <2>4 DEF AcceptNewOrder, Ack
  <2>5. CASE AcceptCancel(conn, m)
      BY <1>2, <2>5 DEF AcceptCancel, CancelAck
  <2> QED BY <1>3, <2>1, <2>2, <2>3, <2>4, <2>5
<1>4. ASSUME NEW r \in DOMAIN orders, FillAndRoute(r)
      PROVE  \A i \in DOMAIN sent' : sent'[i].type # "CANCEL_REJECT"
  <2>1. PICK m1, m2 : sent' = Append(Append(<<>>, m1), m2) /\ m1.type = "FILL" /\ m2.type = "FILL"
      BY <1>4, HearRound
  <2>2. DOMAIN sent' = {1, 2} /\ sent'[1] = m1 /\ sent'[2] = m2
      BY <2>1, TwoMessages
  <2> QED BY <2>1, <2>2
<1>5. CASE SettleOrder
    BY <1>1, <1>5 DEF SettleOrder
<1>6. ASSUME NEW conn \in Conns, DropConnection(conn)
      PROVE  \A i \in DOMAIN sent' : sent'[i].type # "CANCEL_REJECT"
    BY <1>1, <1>6 DEF DropConnection
<1> QED BY <1>3, <1>4, <1>5, <1>6 DEF AuditNext, Next

\* A client's cancel is answered by what its own messages already told it, whatever
\* fills and drops came between them.
THEOREM CancelAnswersStayTrue == AuditSpec => CancelAnswersAgree
<1>1. ASSUME AuditInv, AuditNext PROVE CancelAnswersStep
  <2>1. CASE \A conn \in Conns, m \in Messages : ~RejectCancel(conn, m)
      BY <1>1, <2>1, OnlyRejectCancel DEF CancelAnswersStep
  <2>2. ASSUME NEW conn \in Conns, NEW m \in Messages, RejectCancel(conn, m) PROVE CancelAnswersStep
    <3> DEFINE msg == CancelReject(conn, EchoCid(m), CancelRejectReason(conn, m))
    <3>1. sent' = <<msg>>
        BY <2>2 DEF RejectCancel
    <3>2. RefusalAgrees(blotter, msg)
        BY <1>1, <2>2, RefusalIsRight
    <3> HIDE DEF msg
    <3>3. DOMAIN sent' = {1} /\ sent'[1] = msg
        BY <3>1
    <3> QED BY <3>2, <3>3 DEF CancelAnswersStep
  <2> QED BY <2>1, <2>2
<1>2. AuditInv /\ [AuditNext]_auditVars => [CancelAnswersStep]_auditVars
    BY <1>1
<1> QED BY <1>2, AuditInvariant, PTL DEF AuditSpec, CancelAnswersAgree
=============================================================================
