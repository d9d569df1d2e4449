----------------------------- MODULE MatchingBook -----------------------------
(***************************************************************************)
(* What an OrderBook promises its caller (include/order_book.h), with the  *)
(* pool, the lists and the level vectors left out: a set of live orders    *)
(* matched by price, then by arrival. addLimitOrder is split where it      *)
(* calls back into the venue: Submit, one Fill per trade, Settle. OrderBook*)
(* is shown to implement this module, and Venue is built on top of it.     *)
(***************************************************************************)
EXTENDS Integers, FiniteSets

CONSTANTS OrderIds,       \* ids a caller may give to orders, never 0
          Participants,   \* participantId: the venue passes the connection id
          Prices,         \* price in ticks, a uint32_t
          Quantities      \* order quantities, all > 0

ASSUME OrderIdsAssumption == OrderIds \subseteq Nat \ {0}
ASSUME PricesAssumption == Prices \subseteq Nat
ASSUME QuantitiesAssumption == Quantities \subseteq Nat \ {0}

VARIABLES orders,         \* live orders by id: the resting ones and the incoming one
          taker,          \* id of the order inside addLimitOrder, or NoTaker
          sequence,       \* sequence_: arrival number of the next order
          trade           \* argument of the last trade callback, or NoTrade

bookVars == <<orders, taker, sequence, trade>>

NoTaker  == 0
NoTrade  == [buyOrderId |-> 0, sellOrderId |-> 0, price |-> 0, quantity |-> 0]
Sides    == {"Buy", "Sell"}

Order == [side : Sides, price : Prices, qty : Nat, seq : Nat, owner : Participants]

Lesser(a, b) == IF a < b THEN a ELSE b

\* Map f with the given keys erased.
Erase(f, keys) == [x \in DOMAIN f \ keys |-> f[x]]

\* The price comparison of matchBuy and matchSell: may an order at `price` on
\* `side` trade with a resting order of the other side at `restingPrice`?
Mut_Crosses(side, price, restingPrice) ==
    IF side = "Buy" THEN price > restingPrice ELSE price < restingPrice

Crosses(side, price, restingPrice) ==
    IF side = "Buy" THEN price >= restingPrice ELSE price <= restingPrice

Resting == DOMAIN orders \ {taker}

\* The resting orders that an order at `price` on `side` may trade with.
Contra(side, price) ==
    {r \in Resting : orders[r].side # side /\ Crosses(side, price, orders[r].price)}

\* r goes before q on their side: better price, or the same price and earlier.
Before(r, q) ==
    \/ orders[r].price = orders[q].price /\ orders[r].seq <= orders[q].seq
    \/ orders[r].price < orders[q].price /\ orders[r].side = "Sell"
    \/ orders[r].price > orders[q].price /\ orders[r].side = "Buy"

\* r is the head of the best level the incoming order may trade with.
IsBestContra(r) ==
    LET contra == Contra(orders[taker].side, orders[taker].price)
    IN r \in contra /\ \A q \in contra : Before(r, q)

BookInit == /\ orders = [i \in {} |-> 0]
            /\ taker = NoTaker
            /\ sequence = 0
            /\ trade = NoTrade

\* addLimitOrder(side, price, quantity, id, owner) up to the match loop.
Submit(id, side, price, quantity, owner) ==
    /\ taker = NoTaker
    /\ taker' = id
    /\ id \notin DOMAIN orders
    /\ orders' = [i \in DOMAIN orders \cup {id} |->
                    IF i = id THEN [side |-> side, price |-> price, qty |-> quantity,
                                    seq |-> sequence, owner |-> owner]
                    ELSE orders[i]]
    /\ sequence' = sequence + 1
    /\ UNCHANGED trade

\* One round of the match loop against another participant's order r.
Fill(r) ==
    /\ taker # NoTaker /\ orders[taker].qty > 0
    /\ IsBestContra(r)
    /\ orders[r].owner # orders[taker].owner
    /\ LET fillQty == Lesser(orders[taker].qty, orders[r].qty)
           filled  == [orders EXCEPT ![taker].qty = @ - fillQty, ![r].qty = @ - fillQty]
           taken   == orders[taker].side = "Buy"
       IN /\ trade' = [buyOrderId  |-> IF taken THEN taker ELSE r,
                       sellOrderId |-> IF taken THEN r ELSE taker,
                       price       |-> orders[r].price,
                       quantity    |-> fillQty]
          /\ orders' = IF filled[r].qty = 0 THEN Erase(filled, {r}) ELSE filled
    /\ UNCHANGED <<taker, sequence>>

\* Self-match prevention: the incoming order loses its remaining quantity.
SelfMatch(r) ==
    /\ taker # NoTaker /\ orders[taker].qty > 0
    /\ IsBestContra(r)
    /\ orders[r].owner = orders[taker].owner
    /\ orders' = [orders EXCEPT ![taker].qty = 0]
    /\ UNCHANGED <<taker, sequence, trade>>

\* An addLimitOrder that rests a spent order.
Mut_Settle ==
    /\ taker # NoTaker
    /\ orders[taker].qty > 0 => Contra(orders[taker].side, orders[taker].price) = {}
    /\ taker' = NoTaker
    /\ UNCHANGED <<orders, sequence, trade>>

\* The end of addLimitOrder: what is left rests, a spent order is given back.
Settle ==
    /\ taker # NoTaker
    /\ orders[taker].qty > 0 => Contra(orders[taker].side, orders[taker].price) = {}
    /\ orders' = IF orders[taker].qty > 0 THEN orders ELSE Erase(orders, {taker})
    /\ taker' = NoTaker
    /\ UNCHANGED <<sequence, trade>>

\* cancelOrder for each of ids, between two calls of addLimitOrder; an id that is
\* not in the book is ignored.
CancelOrders(ids) ==
    /\ taker = NoTaker
    /\ orders' = Erase(orders, ids)
    /\ UNCHANGED <<taker, sequence, trade>>

BookNext ==
    \/ \E id \in OrderIds, side \in Sides, price \in Prices,
          quantity \in Quantities, owner \in Participants :
             Submit(id, side, price, quantity, owner)
    \/ \E r \in DOMAIN orders : Fill(r)
    \/ \E r \in DOMAIN orders : SelfMatch(r)
    \/ Settle
    \/ \E id \in OrderIds : CancelOrders({id})

BookSpec == BookInit /\ [][BookNext]_bookVars

-----------------------------------------------------------------------------
\* Every live order is well typed and only the incoming order may be spent.
BookTypeOK ==
    /\ DOMAIN orders \subseteq OrderIds
    /\ \A i \in DOMAIN orders : orders[i] \in Order
    /\ taker \in DOMAIN orders \cup {NoTaker}
    /\ sequence \in Nat
    /\ \A r \in Resting : orders[r].qty > 0

\* The resting book is never crossed: an order rests only after everything it
\* could have traded with at its price has been taken or has left.
NotCrossed ==
    \A b, s \in Resting :
        orders[b].side = "Buy" /\ orders[s].side = "Sell" => orders[b].price < orders[s].price
=============================================================================
