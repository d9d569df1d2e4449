------------------------------ MODULE VenueAudit ------------------------------
(***************************************************************************)
(* The venue as its clients see it. An auditor reads every message the     *)
(* venue sends, in order, and nothing else but the quantity and side of an *)
(* accepted order (the client knows what it asked for), and keeps a blotter*)
(* of the orders. If the messages are right, the blotter is the truth.     *)
(***************************************************************************)
EXTENDS Venue

VARIABLES blotter,      \* exchange order id -> what the messages say of the order
          anomaly       \* a message came that no order on the blotter explains

auditVars == <<vars, blotter, anomaly>>

AuditInit == Init /\ blotter = [i \in {} |-> 0] /\ anomaly = FALSE

Open(b, i) == i \in DOMAIN b /\ b[i].status = "Open"

\* An ACK opens an order; FILL and CANCEL_ACK need an open one of the same
\* client and id; a FILL closes it when it says nothing remains.
Explained(b, msg) ==
    CASE msg.type = "ACK"  -> msg.exchangeId \notin DOMAIN b
      [] msg.type = "FILL" -> /\ Open(b, msg.exchangeId)
                              /\ b[msg.exchangeId].owner = msg.to
                              /\ b[msg.exchangeId].clientOrderId = msg.clientOrderId
                              /\ b[msg.exchangeId].left = msg.fillQty + msg.remainingQty
                              /\ msg.fillQty > 0
      [] msg.type = "CANCEL_ACK" -> /\ Open(b, msg.exchangeId)
                                    /\ b[msg.exchangeId].owner = msg.to
                                    /\ b[msg.exchangeId].clientOrderId = msg.clientOrderId
      [] OTHER -> TRUE

\* The blotter after one message; `asked` is the order an ACK answers.
Note(b, msg, asked) ==
    CASE msg.type = "ACK" ->
            [i \in DOMAIN b \cup {msg.exchangeId} |->
                IF i = msg.exchangeId
                THEN [owner |-> msg.to, clientOrderId |-> msg.clientOrderId, side |-> asked.side,
                      filled |-> 0, left |-> asked.qty, status |-> "Open"]
                ELSE b[i]]
      [] msg.type = "FILL" ->
            [b EXCEPT ![msg.exchangeId].filled = @ + msg.fillQty,
                      ![msg.exchangeId].left = msg.remainingQty,
                      ![msg.exchangeId].status = IF msg.remainingQty = 0 THEN "Filled" ELSE "Open"]
      [] msg.type = "CANCEL_ACK" -> [b EXCEPT ![msg.exchangeId].status = "Cancelled"]
      [] OTHER -> b

\* The auditor reads one message: a message it cannot explain ends the audit.
Heard(acc, msg, asked) ==
    IF acc.bad \/ ~Explained(acc.b, msg) THEN [acc EXCEPT !.bad = TRUE]
    ELSE [acc EXCEPT !.b = Note(acc.b, msg, asked)]

\* A step sends at most two messages.
AuditNext ==
    /\ Next
    /\ LET asked == IF taker' = NoTaker THEN [side |-> "Buy", qty |-> 0] ELSE orders'[taker']
           start == [b |-> blotter, bad |-> anomaly]
           read  == CASE sent' = <<>> -> start
                      [] Len(sent') = 1 -> Heard(start, sent'[1], asked)
                      [] Len(sent') = 2 -> Heard(Heard(start, sent'[1], asked), sent'[2], asked)
       IN blotter' = read.b /\ anomaly' = read.bad

AuditSpec == AuditInit /\ [][AuditNext]_auditVars

-----------------------------------------------------------------------------
\* No message contradicts the ones before it: an order is acknowledged before its
\* first fill, remaining_qty counts down by the fill quantities to 0, and nothing
\* follows the fill or cancel that ends an order, though fills are sent from
\* inside addLimitOrder and cancels race with the fills of other clients' orders.
MessagesConsistent == ~anomaly

\* Between handlers the blotter is the truth for every connected client: the
\* orders it has open, with what it believes is left of each, are the ones in the
\* book; a client that follows its messages never holds a phantom order or misses
\* a live one.
BlotterIsTruth ==
    taker = NoTaker =>
        \A i \in 1..(nextEngineId - 1) :
            blotter[i].owner \notin dropped =>
                /\ blotter[i].status = "Open" <=> i \in DOMAIN orders
                /\ i \in DOMAIN orders => blotter[i].left = orders[i].qty
                /\ byConn[blotter[i].owner][blotter[i].clientOrderId] =
                      [state |-> IF blotter[i].status = "Open" THEN "Resting" ELSE blotter[i].status,
                       engineId |-> i]

\* The quantity that the entries 1..last of one side report filled.
TotalFilled(b, side, last) ==
    LET upTo[n \in 0..last] ==
            IF n = 0 THEN 0 ELSE upTo[n - 1] + (IF b[n].side = side THEN b[n].filled ELSE 0)
    IN upTo[last]

\* The quantities reported bought and sold are equal in total at every step:
\* no fill is lost, duplicated or reported to one side only.
ReportsBalance ==
    TotalFilled(blotter, "Buy", nextEngineId - 1) = TotalFilled(blotter, "Sell", nextEngineId - 1)

\* What the venue reports is consistent, complete and balanced.
ReportsTruthful == MessagesConsistent /\ BlotterIsTruth /\ ReportsBalance

\* A refused cancel's answer and what the blotter says of the orders under its id.
\* (A cancel without an id is not found either; its answer echoes "", which is
\* also an id a client may use.)
RefusalAgrees(b, msg) ==
    LET mine == {j \in DOMAIN b : b[j].owner = msg.to /\ b[j].clientOrderId = msg.clientOrderId}
    IN IF mine = {} THEN msg.reason = "not_found"
       ELSE \A j \in mine : \/ b[j].status = "Filled" /\ msg.reason = "already_filled"
                            \/ b[j].status = "Cancelled" /\ msg.reason = "already_cancelled"
                            \/ msg.clientOrderId = EmptyCid /\ msg.reason = "not_found"

\* A client's cancel is answered by what its own messages already told it: an id
\* it never saw acknowledged is not found, an order the blotter has closed is
\* refused with the reason that closed it, and an open one is never refused.
CancelAnswersStep ==
    \A i \in DOMAIN sent' : sent'[i].type = "CANCEL_REJECT" => RefusalAgrees(blotter, sent'[i])

CancelAnswersAgree == [][CancelAnswersStep]_auditVars
=============================================================================
