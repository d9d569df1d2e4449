------------------------------- MODULE MCVenue -------------------------------
(***************************************************************************)
(* A small audited venue for TLC. Clients send every well-formed order and *)
(* cancel over the constants and one message for each fault the handlers   *)
(* answer.                                                                 *)
(***************************************************************************)
EXTENDS VenueAudit, TLC

Blank == [type |-> "Unknown", hasClientOrderId |-> FALSE, clientOrderId |-> EmptyCid,
          symbolKnown |-> FALSE, hasSide |-> FALSE, side |-> "Buy",
          hasPrice |-> FALSE, priceTicks |-> 0, hasQty |-> FALSE, qty |-> 0]

NewOrders == [type : {"NewOrder"}, hasClientOrderId : {TRUE}, clientOrderId : Cids,
              symbolKnown : {TRUE}, hasSide : {TRUE}, side : Sides,
              hasPrice : {TRUE}, priceTicks : Prices, hasQty : {TRUE}, qty : Quantities]

Cancels == {[Blank EXCEPT !.type = "Cancel", !.hasClientOrderId = TRUE, !.clientOrderId = cid] : cid \in Cids}

\* Each spoils one field of a good order. One id is enough and keeps the symmetry:
\* the fault is found before the id is looked at, and only the reply, which is not
\* in AuditView, echoes it.
BadOrders ==
    LET good == CHOOSE m \in NewOrders : m.side = "Buy" /\ m.priceTicks = 1 /\ m.qty = 1
    IN {[good EXCEPT !.hasClientOrderId = FALSE, !.clientOrderId = EmptyCid],
        [good EXCEPT !.symbolKnown = FALSE], [good EXCEPT !.hasSide = FALSE],
        [good EXCEPT !.hasPrice = FALSE], [good EXCEPT !.hasQty = FALSE],
        [good EXCEPT !.qty = 0]}

MCMessages == NewOrders \cup Cancels \cup BadOrders
                \cup {Blank, [Blank EXCEPT !.type = "Heartbeat"], [Blank EXCEPT !.type = "Cancel"]}

Symmetry == Permutations(Conns) \cup Permutations(Cids)

\* The last trade and the messages of the last step influence no later step, and
\* only action properties, which are checked on every step, mention them.
AuditView == <<orders, taker, sequence, nextEngineId, byEngineId, byConn, dropped, blotter, anomaly>>
=============================================================================
