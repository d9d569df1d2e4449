------------------------------- MODULE Trading -------------------------------
(***************************************************************************)
(* The whole trading loop: a market maker (market_maker/main.py) and a     *)
(* noise trader (flow_generator/noise_trader.py), each on one TCP          *)
(* connection to the venue. Every message is in flight for a while: orders *)
(* and cancels on their way to the venue, fills and market data on their   *)
(* way back, in order on each connection.                                  *)
(*                                                                         *)
(* A client is one asyncio thread: its loop and its message handlers       *)
(* interleave only where the loop awaits, so an action of a client runs    *)
(* from one await to the next. (drain() waits only while the transport's   *)
(* buffer is above its high-water mark; the actions allow it every time.)  *)
(* Of what the venue sends, the channels hold what a handler acts on: the  *)
(* market maker's FILLs and the noise trader's MARKET_DATA. Both clients   *)
(* have seen the venue live when the model starts.                         *)
(***************************************************************************)
EXTENDS Venue, SequencesExt

CONSTANTS MM, NT,            \* the two connections
          Unit,              \* fair values and the quoting constants count 1/Unit of a tick
          FairValues,        \* what RandomWalkFairValue.next() may return
          Spread, SkewK,     \* SPREAD and SKEW_K
          QuoteSize,         \* QUOTE_SIZE
          NoiseQuantities,   \* rng.randint(1, 5)
          MaxTicks,          \* max_ticks of market_maker.run
          MaxFires,          \* max_fires of noise_trader.run
          Interrupted        \* a client may be cancelled at any await

ASSUME ClientsAssumption == Participants = {MM, NT} /\ MM # NT
\* With an odd Unit no price is half way between two ticks.
ASSUME QuotingAssumption ==
    /\ Unit \in Nat /\ Unit % 2 = 1
    /\ FairValues \subseteq Nat /\ Spread \in Nat /\ Spread % 2 = 0 /\ SkewK \in Nat
    /\ {QuoteSize} \cup NoiseQuantities \subseteq Quantities
ASSUME LengthAssumption == MaxTicks \in Nat /\ MaxFires \in Nat /\ Interrupted \in BOOLEAN

VARIABLES toVenue,      \* connection -> frames sent and not yet handled by the venue
          toClient,     \* connection -> messages sent and not yet handled by the client
          lastTop,      \* Server::lastTop_, without the last trade
          pc,           \* where the market maker's loop awaits
          position,     \* PositionState: inventory and cash
          quote,        \* Quote: bid and ask of this tick
          todo,         \* what is left of `for oid in resting`
          resting,      \* the pair placed by the last complete tick
          orderSide,    \* order_side: client order id -> side
          placed,       \* ids next_id() has given out
          ticks,
          top,          \* the noise trader's best_bid and best_ask
          fires,
          open,         \* the noise trader has not closed its client
          booked,       \* ghost: the market maker's position by the venue's fills
          late,         \* ghost: a tick began before the cancels of the last were answered
          missed        \* ghost: the fills the market maker dropped, and their orders

makerVars == <<pc, position, quote, todo, resting, orderSide, placed, ticks>>
noiseVars == <<top, fires, open>>
ghostVars == <<booked, late, missed>>
tradingVars == <<vars, toVenue, toClient, lastTop, makerVars, noiseVars, ghostVars>>

NoPrice == -1        \* None, null
NoTop == [bid |-> NoPrice, ask |-> NoPrice]
Flat == [inventory |-> 0, cash |-> 0]

TradingInit ==
    /\ Init
    /\ toVenue = [c \in Conns |-> <<>>] /\ toClient = [c \in Conns |-> <<>>]
    /\ lastTop = NoTop
    /\ pc = "sleep" /\ position = Flat /\ quote = NoTop
    /\ todo = <<>> /\ resting = <<>> /\ orderSide = [cid \in {} |-> 0]
    /\ placed = 0 /\ ticks = 0
    /\ top = NoTop /\ fires = 0 /\ open = TRUE
    /\ booked = Flat /\ late = FALSE /\ missed = [inventory |-> 0, cash |-> 0, ids |-> {}]

-----------------------------------------------------------------------------
\* A frame of the client once the venue has parsed it. A price that is negative or
\* too large is not a decimal the venue accepts.
NewOrder(cid, side, price, qty) ==
    [type |-> "NewOrder", hasClientOrderId |-> TRUE, clientOrderId |-> cid,
     symbolKnown |-> TRUE, hasSide |-> TRUE, side |-> side,
     hasPrice |-> price \in Prices, priceTicks |-> IF price \in Prices THEN price ELSE 0,
     hasQty |-> TRUE, qty |-> qty]

Cancel(cid) ==
    [type |-> "Cancel", hasClientOrderId |-> TRUE, clientOrderId |-> cid,
     symbolKnown |-> FALSE, hasSide |-> FALSE, side |-> "Buy",
     hasPrice |-> FALSE, priceTicks |-> 0, hasQty |-> FALSE, qty |-> 0]

\* The venue's messages are those the two programs can send.
ASSUME SessionAssumption ==
    \A cid \in 1..(2 * MaxTicks) \cup 1..MaxFires :
        /\ Cancel(cid) \in Messages
        /\ \A side \in Sides, price \in Prices \cup {NoPrice}, qty \in Quantities :
              NewOrder(cid, side, price, qty) \in Messages

Send(conn, m) == toVenue' = [toVenue EXCEPT ![conn] = Append(@, m)]

\* round(x, 2): the nearest tick.
Round(x) == (2 * x + Unit) \div (2 * Unit)

\* A compute_quote that skews the bid only.
Mut_ComputeQuote(fairValue, inventory) ==
    [bid |-> Round(fairValue - SkewK * inventory - Spread \div 2),
     ask |-> Round(fairValue + Spread \div 2)]

\* reservation_price and compute_quote.
ComputeQuote(fairValue, inventory) ==
    LET rp == fairValue - SkewK * inventory
    IN [bid |-> Round(rp - Spread \div 2), ask |-> Round(rp + Spread \div 2)]

\* An apply_fill that pays for what it sells.
Mut_ApplyFill(p, side, fillQty, fillPrice) ==
    [inventory |-> p.inventory + (IF side = "Buy" THEN fillQty ELSE -fillQty),
     cash |-> p.cash - fillQty * fillPrice]

\* PositionState.apply_fill, of a position kept as a record.
ApplyFill(p, side, fillQty, fillPrice) ==
    IF side = "Buy"
    THEN [inventory |-> p.inventory + fillQty, cash |-> p.cash - fillQty * fillPrice]
    ELSE [inventory |-> p.inventory - fillQty, cash |-> p.cash + fillQty * fillPrice]

\* What a trade f does to a position, by the venue's books.
Booked(p, f) ==
    LET sign == IF f.side = "Buy" THEN 1 ELSE -1
    IN [p EXCEPT !.inventory = @ + sign * f.fillQty, !.cash = @ - sign * f.fillQty * f.fillPrice]

\* The sum of a sequence of numbers.
Total(amounts) ==
    LET upTo[n \in 0..Len(amounts)] == IF n = 0 THEN 0 ELSE upTo[n - 1] + amounts[n]
    IN upTo[Len(amounts)]

\* A position after the trades in fills.
BookedAll(p, fills) ==
    [inventory |-> p.inventory + Total([i \in DOMAIN fills |-> Booked(Flat, fills[i]).inventory]),
     cash      |-> p.cash + Total([i \in DOMAIN fills |-> Booked(Flat, fills[i]).cash])]

-----------------------------------------------------------------------------
(***************************************************************************)
(* The market maker's loop.                                                *)
(***************************************************************************)
\* An order_side that keeps only the pair about to be placed.
Mut_Prune(old) == [cid \in {} |-> 0]

\* An order_side that keeps every order ever placed.
Mut_PruneNothing(old) == old

\* order_side = {oid: order_side[oid] for oid in resting if oid in order_side}
Prune(old) == Restrict(old, {resting[i] : i \in DOMAIN resting} \cap DOMAIN old)

\* The old pair is cancelled; prune, take two ids and send the bid.
PlaceBid(q) ==
    /\ orderSide' = [cid \in DOMAIN Prune(orderSide) \cup {placed + 1, placed + 2} |->
                        IF cid \in DOMAIN Prune(orderSide) THEN orderSide[cid]
                        ELSE IF cid = placed + 1 THEN "Buy" ELSE "Sell"]
    /\ placed' = placed + 2
    /\ Send(MM, NewOrder(placed + 1, "Buy", q.bid, QuoteSize))
    /\ todo' = <<>> /\ pc' = "ask"

\* A loop that sends the new pair and leaves the cancels for later.
Mut_CancelOrPlaceBid(cancels, q) == PlaceBid(q)

\* The next cancel, or the bid when no cancel is left.
CancelOrPlaceBid(cancels, q) ==
    \/ /\ cancels # <<>>
       /\ Send(MM, Cancel(Head(cancels)))
       /\ todo' = Tail(cancels) /\ pc' = "cancel"
       /\ UNCHANGED <<orderSide, placed>>
    \/ cancels = <<>> /\ PlaceBid(q)

\* Every cancel has been handled, and no fill of the pair it is for is in flight.
CancelsAnswered ==
    /\ \A i \in DOMAIN toVenue[MM] : toVenue[MM][i].type # "Cancel"
    /\ \A i \in DOMAIN toClient[MM] : toClient[MM][i].clientOrderId \in {resting[j] : j \in DOMAIN resting}

\* From the end of sleep: the quote, then the first send.
Tick ==
    /\ pc = "sleep" /\ ticks < MaxTicks
    /\ late' = (late \/ ~CancelsAnswered)
    /\ \E fairValue \in FairValues : quote' = ComputeQuote(fairValue, position.inventory)
    /\ CancelOrPlaceBid(resting, quote')
    /\ UNCHANGED <<vars, toClient, lastTop, position, resting, ticks, noiseVars, booked, missed>>

\* The loop continues after the drain of a cancel.
ContinueTick ==
    /\ pc = "cancel"
    /\ CancelOrPlaceBid(todo, quote)
    /\ UNCHANGED <<vars, toClient, lastTop, position, quote, resting, ticks, noiseVars, ghostVars>>

\* The ask; after its drain nothing but local variables changes before sleep.
PlaceAsk ==
    /\ pc = "ask"
    /\ Send(MM, NewOrder(placed, "Sell", quote.ask, QuoteSize))
    /\ resting' = <<placed - 1, placed>>
    /\ ticks' = ticks + 1 /\ pc' = "sleep"
    /\ UNCHANGED <<vars, toClient, lastTop, position, quote, todo, orderSide, placed, noiseVars, ghostVars>>

\* The receive task: _on_fill.
MakerReceives ==
    /\ pc # "closed" /\ toClient[MM] # <<>>
    /\ LET msg == Head(toClient[MM])
       IN IF msg.clientOrderId \in DOMAIN orderSide
          THEN /\ position' = ApplyFill(position, orderSide[msg.clientOrderId], msg.fillQty, msg.fillPrice)
               /\ UNCHANGED missed
          ELSE /\ missed' = [Booked(missed, msg) EXCEPT !.ids = @ \cup {msg.clientOrderId}]
               /\ UNCHANGED position
    /\ toClient' = [toClient EXCEPT ![MM] = Tail(@)]
    /\ UNCHANGED <<vars, toVenue, lastTop, pc, quote, todo, resting, orderSide, placed, ticks, noiseVars, booked, late>>

\* `finally: await client.close()`: after max_ticks, or cancelled at any await.
MakerCloses ==
    /\ (pc = "sleep" /\ ticks = MaxTicks) \/ (Interrupted /\ pc # "closed")
    /\ pc' = "closed"
    /\ UNCHANGED <<vars, toVenue, toClient, lastTop, position, quote, todo, resting, orderSide,
                   placed, ticks, noiseVars, ghostVars>>

-----------------------------------------------------------------------------
(***************************************************************************)
(* The noise trader's loop. An attempt that finds no price changes nothing.*)
(***************************************************************************)
\* After the last fire the loop ends and top is not read again.
Listens == open /\ fires < MaxFires

Fire ==
    /\ open /\ fires < MaxFires
    /\ \E side \in Sides, qty \in NoiseQuantities :
          LET price == IF side = "Buy" THEN top.ask ELSE top.bid
          IN price # NoPrice /\ Send(NT, NewOrder(fires + 1, side, price, qty))
    /\ fires' = fires + 1
    /\ toClient' = IF fires' = MaxFires THEN [toClient EXCEPT ![NT] = <<>>] ELSE toClient
    /\ UNCHANGED <<vars, lastTop, makerVars, top, open, ghostVars>>

\* The receive task: _update_top.
NoiseReceives ==
    /\ Listens /\ toClient[NT] # <<>>
    /\ top' = Head(toClient[NT])
    /\ toClient' = [toClient EXCEPT ![NT] = Tail(@)]
    /\ UNCHANGED <<vars, toVenue, lastTop, makerVars, fires, open, ghostVars>>

\* After max_fires, at once behind the last order, or cancelled at any await.
NoiseCloses ==
    /\ open /\ (fires = MaxFires \/ Interrupted)
    /\ open' = FALSE
    /\ toClient' = [toClient EXCEPT ![NT] = <<>>]
    /\ UNCHANGED <<vars, toVenue, lastTop, makerVars, top, fires, ghostVars>>

-----------------------------------------------------------------------------
(***************************************************************************)
(* The venue's side: the actions of Venue on the frames that arrive.       *)
(***************************************************************************)
\* A message of the venue as the market maker's connection gets it: its FILLs. A
\* FILL has no side; the ghost takes it from the venue's table.
ToMaker(msg) ==
    IF msg.type = "FILL" /\ msg.to = MM
    THEN <<[clientOrderId |-> msg.clientOrderId, side |-> byEngineId[msg.exchangeId].side,
            fillQty |-> msg.fillQty, fillPrice |-> msg.fillPrice]>>
    ELSE <<>>

\* What send_ puts on the market maker's connection, and the ghost of it.
Deliver ==
    LET fills == FlattenSeq([i \in DOMAIN sent' |-> ToMaker(sent'[i])])
    IN /\ toClient' = [toClient EXCEPT ![MM] = @ \o fills]
       /\ booked' = BookedAll(booked, fills)

\* handleReadable decodes the next frame of conn and hands it to handleLine.
VenueHandles(conn) ==
    /\ toVenue[conn] # <<>>
    /\ LET m == Head(toVenue[conn])
       IN \/ RejectNewOrder(conn, m) \/ AcceptNewOrder(conn, m)
          \/ RejectCancel(conn, m)   \/ AcceptCancel(conn, m)
    /\ toVenue' = [toVenue EXCEPT ![conn] = Tail(@)]
    /\ UNCHANGED <<toClient, lastTop, makerVars, noiseVars, ghostVars>>

VenueMatches ==
    /\ \/ \E r \in DOMAIN orders : FillAndRoute(r)
       \/ SettleOrder
    /\ Deliver
    /\ UNCHANGED <<toVenue, lastTop, makerVars, noiseVars, late, missed>>

\* The end of file of a client that has closed: handleReadable closes the
\* connection, and loses the frames it read together with the end of file.
VenueDrops(conn) ==
    /\ conn = MM => pc = "closed"
    /\ conn = NT => ~open
    /\ DropConnection(conn)
    /\ toVenue' = [toVenue EXCEPT ![conn] = <<>>]
    /\ UNCHANGED <<toClient, lastTop, makerVars, noiseVars, ghostVars>>

\* currentTop: the best price of each side of the book.
CurrentTop ==
    LET prices(side) == {orders[i].price : i \in {j \in DOMAIN orders : orders[j].side = side}}
    IN [bid |-> IF prices("Buy") = {} THEN NoPrice ELSE Max(prices("Buy")),
        ask |-> IF prices("Sell") = {} THEN NoPrice ELSE Min(prices("Sell"))]

\* The coalesced market data at the end of a pass of the event loop.
PublishTop ==
    /\ taker = NoTaker /\ CurrentTop # lastTop
    /\ lastTop' = CurrentTop
    /\ toClient' = IF Listens THEN [toClient EXCEPT ![NT] = Append(@, CurrentTop)] ELSE toClient
    /\ UNCHANGED <<vars, toVenue, makerVars, noiseVars, ghostVars>>

\* What a handler of the venue sends leaves the process only after it returned,
\* so a client's step during the match loop is the same step before it.
TradingNext ==
    \/ /\ taker = NoTaker
       /\ \/ Tick \/ ContinueTick \/ PlaceAsk \/ MakerReceives \/ MakerCloses
          \/ Fire \/ NoiseReceives \/ NoiseCloses
    \/ \E conn \in Conns : VenueHandles(conn) \/ VenueDrops(conn)
    \/ VenueMatches \/ PublishTop

TradingSpec == TradingInit /\ [][TradingNext]_tradingVars

\* The venue's event loop serves every connection, addLimitOrder waits for
\* nothing, and both clients end: the market maker after max_ticks ticks, the
\* noise trader when it is stopped.
TradingFairness ==
    /\ \A conn \in Conns : WF_tradingVars(VenueHandles(conn)) /\ WF_tradingVars(VenueDrops(conn))
    /\ WF_tradingVars(VenueMatches)
    /\ WF_tradingVars(Tick \/ ContinueTick \/ PlaceAsk)
    /\ WF_tradingVars(MakerCloses)
    /\ WF_tradingVars(NoiseCloses)

TradingFairSpec == TradingSpec /\ TradingFairness

-----------------------------------------------------------------------------
MakerOrders(side) == {i \in DOMAIN orders : orders[i].owner = MM /\ orders[i].side = side}

TradingTypeOK ==
    /\ TypeOK
    /\ \A conn \in Conns : \A i \in DOMAIN toVenue[conn] : toVenue[conn][i] \in Messages
    /\ pc \in {"sleep", "cancel", "ask", "closed"}
    /\ position \in [inventory : Int, cash : Int]
    /\ DOMAIN orderSide \subseteq Cids /\ Cardinality(DOMAIN orderSide) <= 4

\* The market maker's books agree with the venue's fills: inventory and cash,
\* with the fills still on the wire and the ones _on_fill dropped, add up to what
\* the venue traded for it; and nothing is dropped as long as the venue answers
\* a tick's cancels before the next tick ("Keep one previous pair for delayed
\* fills", main.py).
PositionAccounted ==
    LET pending == BookedAll(position, toClient[MM])
    IN /\ booked.inventory = pending.inventory + missed.inventory
       /\ booked.cash = pending.cash + missed.cash
       /\ ~late => missed.ids = {}

\* A fill is only ever dropped for an order at least two pairs old, whose cancel
\* left a whole tick ago.
MissedOnlyAfterGrace ==
    [][\A cid \in missed'.ids \ missed.ids : cid <= placed - 4]_tradingVars

\* The venue holds at most one bid and one ask of the market maker, so it risks
\* no more than QuoteSize on a side, however the cancels, the new pair and the
\* noise trader's orders interleave.
OnePairResting == TradingTypeOK /\ \A side \in Sides : Cardinality(MakerOrders(side)) <= 1

\* The venue never rejects an order of the market maker: the new pair does not
\* cross the old one, which is gone by then, nor itself, and ids do not repeat.
MakerNeverRejected ==
    [][\A i \in DOMAIN sent' : ~(sent'[i].to = MM /\ sent'[i].type = "REJECT")]_tradingVars

\* Once both clients have ended, by themselves or cut off in the middle of a
\* tick, the book is empty and stays so.
BookEmpties == <>[](DOMAIN orders = {})
=============================================================================
