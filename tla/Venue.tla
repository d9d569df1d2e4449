-------------------------------- MODULE Venue --------------------------------
(***************************************************************************)
(* The venue (venue/venue.cpp): turns client messages into calls of the    *)
(* order book and keeps two tables beside it, byEngineId_ (the live orders)*)
(* and byConn_ (what each connection's client order ids stand for). Fills  *)
(* reach the tables through the trade callback, in the middle of           *)
(* addLimitOrder; the tables must agree with the book all the same.        *)
(*                                                                         *)
(* One thread runs everything, so a handler is not interrupted by another. *)
(* handleNewOrder is split at the rounds of the match loop it starts.      *)
(***************************************************************************)
EXTENDS MatchingBook, Sequences

CONSTANTS Cids,        \* client order ids
          EmptyCid,    \* the "" an error reply echoes when there was no id
          Messages,    \* the inbound messages clients send
          SoftCap      \* softCap_: most live orders admitted

\* A frame after parseInbound. A field with has... = FALSE was absent or invalid
\* and holds its default; "Unknown" is also the type after a parse error.
InboundMessage ==
    [type          : {"NewOrder", "Cancel", "Heartbeat", "Unknown"},
     hasClientOrderId : BOOLEAN, clientOrderId : Cids \cup {EmptyCid},
     symbolKnown   : BOOLEAN,                       \* hasSymbol and symbol = kSymbol
     hasSide       : BOOLEAN, side : Sides,
     hasPrice      : BOOLEAN, priceTicks : Prices \cup {0},
     hasQty        : BOOLEAN, qty : Quantities \cup {0}]

\* What parseInbound guarantees of a field it accepts. Any uint32_t may be a
\* price or a quantity, 0 included.
ASSUME MessagesAssumption ==
    /\ Messages \subseteq InboundMessage
    /\ \A m \in Messages : /\ m.hasClientOrderId => m.clientOrderId \in Cids
                           /\ m.hasPrice => m.priceTicks \in Prices
ASSUME SoftCapAssumption == SoftCap \in Nat

VARIABLES nextEngineId,   \* nextEngineId_; exchange_order_id is "e-" and this number
          byEngineId,     \* byEngineId_: engine id -> LiveOrder
          byConn,         \* byConn_: connection -> client order id -> ClientRecord
          dropped,        \* connections the server has closed; their ids are never reused
          sent            \* messages passed to send_ by the last step, in order

tableVars == <<nextEngineId, byEngineId, byConn, dropped, sent>>
vars == <<bookVars, tableVars>>

Conns == Participants

LiveOrder == [owner : Conns, clientOrderId : Cids, side : Sides, priceTicks : Prices, remaining : Nat]

ClientRecord == [state : {"Absent", "Resting", "Filled", "Cancelled"}, engineId : Nat]
Absent == [state |-> "Absent", engineId |-> 0]      \* no entry in the map

Init ==
    /\ BookInit
    /\ nextEngineId = 1
    /\ byEngineId = [i \in {} |-> 0]
    /\ byConn = [c \in Conns |-> [cid \in Cids |-> Absent]]
    /\ dropped = {}
    /\ sent = <<>>

-----------------------------------------------------------------------------
(***************************************************************************)
(* Outbound messages (the encode... functions of protocol.cpp).            *)
(***************************************************************************)
Ack(to, cid, id)           == [to |-> to, type |-> "ACK", clientOrderId |-> cid, exchangeId |-> id]
CancelAck(to, cid, id)     == [to |-> to, type |-> "CANCEL_ACK", clientOrderId |-> cid, exchangeId |-> id]
Reject(to, cid, why)       == [to |-> to, type |-> "REJECT", clientOrderId |-> cid, reason |-> why]
CancelReject(to, cid, why) == [to |-> to, type |-> "CANCEL_REJECT", clientOrderId |-> cid, reason |-> why]
FillReport(lo, id, quantity, price, remainingQty) ==
    [to |-> lo.owner, type |-> "FILL", exchangeId |-> id, clientOrderId |-> lo.clientOrderId,
     fillQty |-> quantity, fillPrice |-> price, remainingQty |-> remainingQty]

\* The id an error reply echoes.
EchoCid(m) == IF m.hasClientOrderId THEN m.clientOrderId ELSE EmptyCid

-----------------------------------------------------------------------------
\* wouldSelfCross that only looks at orders of the same price.
Mut_WouldSelfCross(conn, side, priceTicks) ==
    \E i \in DOMAIN byEngineId : /\ byEngineId[i].owner = conn
                                 /\ byEngineId[i].side # side
                                 /\ priceTicks = byEngineId[i].priceTicks

WouldSelfCross(conn, side, priceTicks) ==
    \E i \in DOMAIN byEngineId : /\ byEngineId[i].owner = conn
                                 /\ byEngineId[i].side # side
                                 /\ Crosses(side, priceTicks, byEngineId[i].priceTicks)

\* An admission test that lets one order too many in.
Mut_VenueFull == Cardinality(DOMAIN byEngineId) > SoftCap

VenueFull == Cardinality(DOMAIN byEngineId) >= SoftCap

\* The early returns of handleNewOrder, in order.
RejectReason(conn, m) ==
    IF ~m.hasClientOrderId THEN "missing_client_order_id"
    ELSE IF ~m.symbolKnown THEN "unknown_symbol"
    ELSE IF ~m.hasSide THEN "bad_side"
    ELSE IF ~m.hasPrice THEN "bad_price"
    ELSE IF ~m.hasQty \/ m.qty = 0 THEN "bad_qty"
    ELSE IF byConn[conn][m.clientOrderId].state # "Absent" THEN "duplicate_client_order_id"
    ELSE IF VenueFull THEN "venue_full"
    ELSE IF WouldSelfCross(conn, m.side, m.priceTicks) THEN "self_match"
    ELSE "none"

\* A handleCancel that does not look for a filled order.
Mut_CancelRejectReason(conn, m) ==
    IF ~m.hasClientOrderId \/ byConn[conn][m.clientOrderId].state = "Absent" THEN "not_found"
    ELSE IF byConn[conn][m.clientOrderId].state = "Cancelled" THEN "already_cancelled"
    ELSE "none"

\* The early returns of handleCancel, in order.
CancelRejectReason(conn, m) ==
    IF ~m.hasClientOrderId \/ byConn[conn][m.clientOrderId].state = "Absent" THEN "not_found"
    ELSE IF byConn[conn][m.clientOrderId].state = "Filled" THEN "already_filled"
    ELSE IF byConn[conn][m.clientOrderId].state = "Cancelled" THEN "already_cancelled"
    ELSE "none"

\* routeFills that leave the client's record Resting, or forget it, when the
\* order is filled.
Mut_RouteFill(t, engineId, priceTicks, quantity) ==
    IF engineId \notin DOMAIN t.live THEN t
    ELSE LET lo == t.live[engineId]
             remainingAfter == IF lo.remaining > quantity THEN lo.remaining - quantity ELSE 0
         IN [live    |-> IF remainingAfter = 0 THEN Erase(t.live, {engineId})
                         ELSE [t.live EXCEPT ![engineId].remaining = remainingAfter],
             records |-> t.records,
             out     |-> Append(t.out, FillReport(lo, engineId, quantity, priceTicks, remainingAfter))]

Mut_ForgetFilled(t, engineId, priceTicks, quantity) ==
    IF engineId \notin DOMAIN t.live THEN t
    ELSE LET lo == t.live[engineId]
             remainingAfter == IF lo.remaining > quantity THEN lo.remaining - quantity ELSE 0
         IN [live    |-> IF remainingAfter = 0 THEN Erase(t.live, {engineId})
                         ELSE [t.live EXCEPT ![engineId].remaining = remainingAfter],
             records |-> IF remainingAfter = 0
                         THEN [t.records EXCEPT ![lo.owner][lo.clientOrderId] = Absent]
                         ELSE t.records,
             out     |-> Append(t.out, FillReport(lo, engineId, quantity, priceTicks, remainingAfter))]

\* routeFill, as a function of the two tables and the messages sent so far.
RouteFill(t, engineId, priceTicks, quantity) ==
    IF engineId \notin DOMAIN t.live THEN t
    ELSE LET lo == t.live[engineId]
             remainingAfter == IF lo.remaining > quantity THEN lo.remaining - quantity ELSE 0
         IN [live    |-> IF remainingAfter = 0 THEN Erase(t.live, {engineId})
                         ELSE [t.live EXCEPT ![engineId].remaining = remainingAfter],
             records |-> IF remainingAfter = 0 /\ t.records[lo.owner][lo.clientOrderId].state # "Absent"
                         THEN [t.records EXCEPT ![lo.owner][lo.clientOrderId].state = "Filled"]
                         ELSE t.records,
             out     |-> Append(t.out, FillReport(lo, engineId, quantity, priceTicks, remainingAfter))]

\* An onTrade that routes the trade to the buyer only.
Mut_OnTrade(t, tr) == RouteFill(t, tr.buyOrderId, tr.price, tr.quantity)

\* onTrade: the buyer's table entries and report first, then the seller's.
OnTrade(t, tr) ==
    RouteFill(RouteFill(t, tr.buyOrderId, tr.price, tr.quantity),
              tr.sellOrderId, tr.price, tr.quantity)

-----------------------------------------------------------------------------
(***************************************************************************)
(* handleLine. The server calls it only for connections it has not closed. *)
(***************************************************************************)
Receives(conn, m, type) == taker = NoTaker /\ conn \notin dropped /\ m.type = type

HandleUnknown(conn, m) ==
    /\ Receives(conn, m, "Unknown")
    /\ sent' = <<Reject(conn, EchoCid(m), "malformed")>>
    /\ UNCHANGED <<bookVars, nextEngineId, byEngineId, byConn, dropped>>

HandleHeartbeat(conn, m) ==
    /\ Receives(conn, m, "Heartbeat")
    /\ sent' = <<>>
    /\ UNCHANGED <<bookVars, nextEngineId, byEngineId, byConn, dropped>>

RejectNewOrder(conn, m) ==
    /\ Receives(conn, m, "NewOrder")
    /\ RejectReason(conn, m) # "none"
    /\ sent' = <<Reject(conn, EchoCid(m), RejectReason(conn, m))>>
    /\ UNCHANGED <<bookVars, nextEngineId, byEngineId, byConn, dropped>>

\* handleNewOrder of an admissible order, up to the match loop. The tables hold
\* the order, and its ACK is out, before the book sees it.
AcceptNewOrder(conn, m) ==
    /\ Receives(conn, m, "NewOrder")
    /\ RejectReason(conn, m) = "none"
    /\ nextEngineId \in OrderIds
    /\ Submit(nextEngineId, m.side, m.priceTicks, m.qty, conn)
    /\ nextEngineId' = nextEngineId + 1
    /\ byEngineId' = [i \in DOMAIN byEngineId \cup {nextEngineId} |->
                        IF i = nextEngineId
                        THEN [owner |-> conn, clientOrderId |-> m.clientOrderId, side |-> m.side,
                              priceTicks |-> m.priceTicks, remaining |-> m.qty]
                        ELSE byEngineId[i]]
    /\ byConn' = [byConn EXCEPT ![conn][m.clientOrderId] =
                    [state |-> "Resting", engineId |-> nextEngineId]]
    /\ sent' = <<Ack(conn, m.clientOrderId, nextEngineId)>>
    /\ UNCHANGED dropped

\* A round of the match loop with its callback. (The self-match round of the
\* book is not here: SelfMatchUnreachable shows it is never enabled.)
FillAndRoute(r) ==
    /\ Fill(r)
    /\ LET t == OnTrade([live |-> byEngineId, records |-> byConn, out |-> <<>>], trade')
       IN byEngineId' = t.live /\ byConn' = t.records /\ sent' = t.out
    /\ UNCHANGED <<nextEngineId, dropped>>

\* addLimitOrder and handleNewOrder return.
SettleOrder ==
    /\ Settle
    /\ sent' = <<>>
    /\ UNCHANGED <<nextEngineId, byEngineId, byConn, dropped>>

RejectCancel(conn, m) ==
    /\ Receives(conn, m, "Cancel")
    /\ CancelRejectReason(conn, m) # "none"
    /\ sent' = <<CancelReject(conn, EchoCid(m), CancelRejectReason(conn, m))>>
    /\ UNCHANGED <<bookVars, nextEngineId, byEngineId, byConn, dropped>>

AcceptCancel(conn, m) ==
    /\ Receives(conn, m, "Cancel")
    /\ CancelRejectReason(conn, m) = "none"
    /\ LET id == byConn[conn][m.clientOrderId].engineId
       IN /\ CancelOrders({id})
          /\ byEngineId' = Erase(byEngineId, {id})
          /\ sent' = <<CancelAck(conn, m.clientOrderId, id)>>
    /\ byConn' = [byConn EXCEPT ![conn][m.clientOrderId].state = "Cancelled"]
    /\ UNCHANGED <<nextEngineId, dropped>>

\* A dropConnection that cleans the tables and forgets the book.
Mut_DropConnection(conn) ==
    /\ taker = NoTaker /\ conn \notin dropped
    /\ byEngineId' = Erase(byEngineId, {i \in DOMAIN byEngineId : byEngineId[i].owner = conn})
    /\ byConn' = [byConn EXCEPT ![conn] = [cid \in Cids |-> Absent]]
    /\ dropped' = dropped \cup {conn}
    /\ sent' = <<>>
    /\ UNCHANGED <<bookVars, nextEngineId>>

\* dropConnection: the server closes a connection between two handlers.
DropConnection(conn) ==
    /\ conn \notin dropped
    /\ LET owned == {i \in DOMAIN byEngineId : byEngineId[i].owner = conn}
       IN /\ CancelOrders(owned)
          /\ byEngineId' = Erase(byEngineId, owned)
    /\ byConn' = [byConn EXCEPT ![conn] = [cid \in Cids |-> Absent]]
    /\ dropped' = dropped \cup {conn}
    /\ sent' = <<>>
    /\ UNCHANGED nextEngineId

Next ==
    \/ \E conn \in Conns, m \in Messages :
          \/ HandleUnknown(conn, m)
          \/ HandleHeartbeat(conn, m)
          \/ RejectNewOrder(conn, m)
          \/ AcceptNewOrder(conn, m)
          \/ RejectCancel(conn, m)
          \/ AcceptCancel(conn, m)
    \/ \E r \in DOMAIN orders : FillAndRoute(r)
    \/ SettleOrder
    \/ \E conn \in Conns : DropConnection(conn)

Spec == Init /\ [][Next]_vars

-----------------------------------------------------------------------------
TypeOK ==
    /\ BookTypeOK
    /\ nextEngineId \in Nat \ {0}
    /\ DOMAIN byEngineId \subseteq OrderIds
    /\ \A i \in DOMAIN byEngineId : byEngineId[i] \in LiveOrder
    /\ byConn \in [Conns -> [Cids -> ClientRecord]]
    /\ dropped \subseteq Conns

\* byEngineId_ holds exactly the orders of the book with quantity left, with the
\* same owner, side, price and remaining quantity, after every callback as well
\* as between handlers. Only the incoming order can be spent and still in the book.
LiveOrdersMatchBook ==
    /\ DOMAIN byEngineId = {i \in DOMAIN orders : orders[i].qty > 0}
    /\ \A i \in DOMAIN byEngineId :
          /\ byEngineId[i].owner = orders[i].owner
          /\ byEngineId[i].side = orders[i].side
          /\ byEngineId[i].priceTicks = orders[i].price
          /\ byEngineId[i].remaining = orders[i].qty

\* byConn_ and byEngineId_ point at each other: a live order is the Resting
\* record of its owner, and a Resting record is a live order. So a cancel that is
\* acknowledged takes a live order off the book, never nothing or someone else's.
RecordsMatchLiveOrders ==
    /\ \A i \in DOMAIN byEngineId :
          byConn[byEngineId[i].owner][byEngineId[i].clientOrderId] =
              [state |-> "Resting", engineId |-> i]
    /\ \A conn \in Conns, cid \in Cids :
          LET rec == byConn[conn][cid]
          IN rec.state = "Resting" =>
                /\ rec.engineId \in DOMAIN byEngineId
                /\ byEngineId[rec.engineId].owner = conn
                /\ byEngineId[rec.engineId].clientOrderId = cid

\* The book and the venue's two tables are three copies of the same facts.
TablesMatch == LiveOrdersMatchBook /\ RecordsMatchLiveOrders

\* dropConnection leaves nothing of a connection behind, in the book or in the
\* tables: no order of it can trade later.
DroppedLeavesNothing ==
    \A conn \in dropped :
        /\ \A i \in DOMAIN orders : orders[i].owner # conn
        /\ \A cid \in Cids : byConn[conn][cid] = Absent

\* The incoming order never meets an order of its own connection: "Reject
\* self-crosses before the core's cancel-remainder path can desync venue tables"
\* (venue.cpp). The check scans byEngineId_, the match loop the book.
SelfMatchUnreachable ==
    taker # NoTaker /\ orders[taker].qty > 0 =>
        \A r \in DOMAIN orders : IsBestContra(r) => orders[r].owner # orders[taker].owner

\* The book never holds more orders than softCap_, the incoming one included, so
\* OrderPool::allocate, with a pool of softCap_ + 64 (main.cpp), never runs out.
PoolBounded == Cardinality(DOMAIN orders) <= SoftCap

\* Filled and Cancelled are final for as long as the connection lives, a record
\* keeps its engine id, and an engine id is never given to a second order.
RecordsStep ==
    \A conn \in Conns \ dropped', cid \in Cids :
        LET was == byConn[conn][cid]
            now == byConn'[conn][cid]
        IN /\ was.state # "Absent" => now.engineId = was.engineId
           /\ was.state \in {"Filled", "Cancelled"} => now = was
           /\ was.state = "Absent" /\ now.state # "Absent" =>
                 \A c \in Conns, d \in Cids : byConn[c][d].engineId # now.engineId

RecordsFinal == [][RecordsStep]_byConn

\* Every trade is reported to both sides, both still connected, at one price and
\* quantity, within the limit of both orders, for no more than each had left.
FillsFairStep ==
    trade' # trade =>
        /\ Len(sent') = 2
        /\ \A i \in 1..2 :
              LET f  == sent'[i]
                  lo == byEngineId[f.exchangeId]
              IN /\ f.type = "FILL" /\ f.fillQty = trade'.quantity /\ f.fillPrice = trade'.price
                 /\ f.to = lo.owner /\ f.to \notin dropped
                 /\ f.clientOrderId = lo.clientOrderId
                 /\ f.remainingQty = lo.remaining - f.fillQty
                 /\ lo.side = IF i = 1 THEN "Buy" ELSE "Sell"
                 /\ IF i = 1 THEN f.fillPrice <= lo.priceTicks ELSE f.fillPrice >= lo.priceTicks

FillsFair == [][FillsFairStep]_vars
=============================================================================
