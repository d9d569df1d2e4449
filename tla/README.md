# Verification of the exchange venue, its matching engine and its trading clients

TLA+ models of the trading system in this repository, the TLC configurations
that check them on small instances, and TLAPS proofs that hold for every value
of the constants. `PROJECT.json` lists the runs, the source lines behind every
definition, the mutants that show each property can fail, and the hazards.

## The system

| Component | State | Operations | Who calls it |
|---|---|---|---|
| Order pool (`include/order_pool.h`, `src/order_pool.cpp`) | array of orders, free list through `Order::next`, free count, allocated flags | construct, `allocate`, `deallocate` | order book |
| Price level (`price_level.*`) | price, total quantity (32 bit), head and tail of an intrusive FIFO | `addToTail`, `remove`, `isEmpty`, `front` | order book |
| Order book (`include/order_book.h`) | pool, two sorted vectors of levels, index id -> order, sequence | `addLimitOrder`, `cancelOrder`, `bestBid`, `bestAsk`; calls a trade callback in the middle of `addLimitOrder` | venue |
| Venue (`venue/venue.*`) | next engine id, live orders `byEngineId_`, per-connection records `byConn_`, last trade | `handleLine` (new order, cancel, heartbeat), `onTrade` from the book, `dropConnection`, `currentTop`; sends through a callback | server |
| Protocol (`venue/protocol.*`) | none | flat JSON parser, decimal to ticks, encoders | venue, server |
| Framing (`venue/framing.*`) | buffered bytes, sticky error | `feed`, `next`, `encodeFrame` | server |
| Server (`venue/server.*`) | connections with decoder and out buffer, fd/connection maps, heartbeat sequence, last top | one `poll` loop: accept, read, write, close, heartbeat, market data on change | clients over TCP |
| Entry point (`venue/main.cpp`) | port, capacity, heartbeat period | parse arguments, size the pool | - |
| Venue client (`ops-layer/venue_client`) | handlers, waiters, receive task | `send`, `wait_for`, `start`, `close`, `_receive_loop` | market maker, flow generator |
| Market maker (`ops-layer/market_maker`) | inventory, cash, resting pair, `order_side` | requote loop; fill handler | venue client |
| Flow generator (`ops-layer/flow_generator`) | last top | fire loop; market-data handler | venue client |

Everything in the venue process runs on one thread, so handlers do not
interleave. What is hard there is not parallelism but re-entry and sharing: the
book calls back into the venue in the middle of a match; the pool and the levels
share one link field; book and tables are separate copies of the same facts; and
counters and vectors have limits. Between processes, messages of several clients
interleave in every order, clients disconnect at any moment, and what a client
believes lags behind the venue. Within a client, the receive task and the
program's own loop interleave at every await.

What makes each part correct:

* pool: no order handed out twice, none lost, no cycle in the free list;
* level and book: queues properly linked and in arrival order, levels sorted and
  never empty outside the match loop, index exact, price-time priority, book
  never crossed;
* venue: tables agree with the book after every callback, no self-match, pool
  never exhausted, a disconnect leaves nothing behind, order states only move
  forward, reports to clients are complete, balanced and free of contradictions;
* server and framing: every chunking of the stream gives the same frames, no
  connection is served after its close, no reply reaches the next user of a
  descriptor, the last market data is the current top;
* protocol: numbers and strings convert exactly or are refused, a message is what
  the payload says, what the venue echoes reads back;
* venue client: messages dispatched once and in order, a waiter gets the next
  message of its type, no future left behind, `wait_for` and `close` return;
* market maker and flow generator: inventory and cash equal the fills the venue
  reported, at most one quote per side in the book, nothing left behind when a
  client goes.

## Modules

| Module | Models | Built on |
|---|---|---|
| `OrderPool` | pool, and its most general user | - |
| `PriceLevel` | level operations on the pool's heap | `OrderPool` |
| `MatchingBook` | abstract specification of an order book: price-time priority | - |
| `OrderBook` | the engine with its real data structures; refines `MatchingBook` | `PriceLevel` |
| `Venue` | the venue on top of `MatchingBook` | `MatchingBook` |
| `VenueAudit` | the venue and an auditor that believes its messages | `Venue` |
| `Framing` | frame encoder and decoder, and how the server reads one stream | - |
| `Server` | the poll loop, its clients and an abstract venue | - |
| `Codec` | numbers, prices and strings of the wire format, on characters | - |
| `Protocol` | the JSON object reader and `parseInbound`, on tokens | `Codec` |
| `Launch` | the start of the venue process, from the environment to the event loop | - |
| `VenueClient` | the asyncio client: receive task, `wait_for`, `send`, `close` | - |
| `Trading` | market maker, noise trader and venue over TCP connections | `Venue` |
| `OrderBookProofs` (with `OrderPool`), `VenueProofs` (with `MatchingBook` and `VenueAudit`), `ServerProofs`, `VenueClientProofs`, `TradingProofs`, `FramingProofs`, `ProtocolProofs` (with `Codec`), `LaunchProofs` | theorems | the modules they name |
| `MCOrderBook`, `MCVenue`, `MCFraming`, `MCProtocol`, `MCVenueClient`, `MCTrading` | message sets, streams, views and symmetries for TLC | |

Definitions whose name starts with `Mut_` are plausible bugs, next to the
definition they would replace; no specification uses them.

### OrderPool and PriceLevel

Addresses are slot numbers and 0 is the null pointer. `heap` is a record of the
link fields of all orders and the members of the pool, so that the book can run
several operations in one step (`Allocate(h)` is a heap, not an action). The
pool's own specification lets a user do the least it promises: deallocate what
it holds and write any links into orders it holds. `PriceLevel` keeps the 32-bit
width of the counters as `Modulus`.

### OrderBook

`matchBuy` and `matchSell` mirror each other and are one set of actions with
`Opposite(side)` and `Crosses`. `addLimitOrder` is `AddLimitOrder` (allocate,
`init`, the test before the loop), then `MatchFill` or `MatchSelf` per round,
`MatchDone` (the resize), and `RestOrder`, `RestAborts` or `DropOrder`. It is
split because the callback runs between rounds; `call` holds its locals and no
other operation runs until it is idle again. A round's callback and the removal
of the filled order are one step: the callback reads nothing of the book.
`RestAborts` is the failing assertion in `findOrCreate...Level`, after which the
process is gone. Ids are 1, 2, ... as the venue numbers them, so an id is never
submitted twice; `orderIndex_.try_emplace` is modelled as written all the same.

`ImplementsMatchingBook` maps the indexed orders and the order in flight to the
abstract book. Emptied levels, list links, slots and the vectors disappear.

### Venue and VenueAudit

`Messages` are the frames after `parseInbound`, with its presence flags; a
member of `BadOrders` spoils one field. `handleNewOrder` is `RejectNewOrder` or
`AcceptNewOrder`, then one `FillAndRoute` per trade callback and `SettleOrder`.
`RejectReason` and `CancelRejectReason` keep the order of the early returns.
`trade` is also `hasLastTrade_`/`lastTradeTicks_`. `sent` holds the messages of
the last step; `DropConnection` is the server's `closeConn`, between two
handlers. The book's `SelfMatch` round is not among the venue's actions:
`SelfMatchUnreachable` shows that it is never enabled.

`VenueAudit` adds an observer that reads only messages and keeps a blotter. One
message tells it less than it says: a cancel that is refused before its id is
known is answered with the id `""`, which is also an id a client may give an
order, so `RefusalAgrees` draws no conclusion from a refusal of `""`.

### Framing

A peer's stream is a sequence of items: payloads it frames with `EncodeFrame`,
or bytes that are no frame, which begin with a header the decoder has to refuse
(`ItemOK`). That leaves no bytes out: whatever a peer sends is some good frames,
then the beginning of a further frame or a header to refuse. `Recv(n)` takes any number of bytes, so the stream is
cut in every possible way; `RecvWouldBlock` ends the recv loop and
`DecodeFrame`, `DecodeWaits` and `DecodeFails` are the three outcomes of
`FrameDecoder::next`. The header's layout is a parameter (base of a byte, magic,
length field, largest payload). The reference the properties compare with,
`Whole` and `BadHeaderArrived`, is stated on the items, not on bytes. `error_`
needs no guard of its own: the server closes the connection at once.

### Server

`run()` is a loop over `pc`: `Poll` copies the descriptors with events into
`events`; `Beat` or `NoBeat`; `AcceptNew` per accepted client and `AcceptEnds`;
then the entries of `events` in any order (`conns_` is a hash map), each by
`HangUp`, or by `Read`/`ReadClosed`, `HandleLine` per frame,
`FramingError`/`LinesDone`, and `Write`/`WriteFails`; at the end `TopMoved` or
`TopUnmoved`. Clients act between any two of these steps, so what poll reported
is stale by the time a handler runs: a client may have sent more, closed or reset
since. Descriptors are given out lowest first and are reused.

Streams are sequences of frames here, as `Framing` shows the cuts to be
invisible. The venue is reduced to what the server can observe: a frame may move
the top and have messages sent to connections the venue knows; a drop may move
the top and makes the venue forget the connection. Frames received together with
the end of the stream are discarded (`ReadClosed`), as in the code. The test
"closed earlier this pass" is not an action, because `EventsOpen` shows that no
entry of a pass refers to a closed connection when its turn comes. A failing
`poll()`, which ends the process, is an action of `Launch`.

### Codec and Protocol

`Codec` has one operator per function of `protocol.cpp` that converts a scalar:
`ParseString`/`QuoteJson`, `ParseNumber`, `ParseUint32`, `ParseDecimalToTicks`,
`TicksToDecimal`. A loop over the characters is a recursive function of the
number of rounds done (`upTo`), in
a small base (3 for 10) with a small limit (31 for 2^32 - 1), so that the limit
lies inside the numbers that can be spelled. Characters are the classes the code
tells apart; `\t` and `\r` behave like `\n`, and the escaped slash like the
escaped quote, and are left out. The behaviours spell every text of up to
`MaxLength` characters, and the properties compare the operators with what the
text means: positional value, the grammar of a number, a JSON reader.
The proofs hold for every base, limit and length of text.

`Protocol` is `parseFlatObject` on tokens (`ReadToken` is its position after each
token) and `parseInbound`. The keys the code looks up are among the words a
string may hold (`PayloadAssumption`). A payload is only extended while the reader has not
failed: it stops at the first token it cannot use, so what follows does not
matter, and all payloads whose reading gets that far are still enumerated. The
reference is the grammar (`IsFlatObject`, by the token's position) and the last
pair with a key.

### Launch

`ReadEnv`, one action per option, `Construct` (the pool), the system calls of
`setupListen`, and every exit with its code. `ParseU64` has `strtoull`'s
saturation and its negation modulo 2^64. The numbers of the code are constants.

### VenueClient

Tasks of one asyncio loop; an action runs from one await to the next. `task` is
where the receive task is; `left` what a dispatch suspended in a coroutine
handler has still to call. A frame is seen only when it is read, so the model
has no buffer: while `task` is reading, any message, a bad frame or the end of
file may come (`Receive`, `ReadFails`), and the venue may reset the connection
at any time (`ConnectionLost`). `close()` is `CloseCalled` (cancel), `CloseJoined`
and `CloseReturns`; a task cancelled before its first step never runs its
`finally` (`TaskCancelled`). A future that is resolved or has timed out stays
listed until its caller runs again, which is where `fut.done()` matters:
`Unresolved` are the futures `_dispatch` goes on to resolve, and a `set_result` on
one that is done raises in the receive task (`Receive`), as in asyncio. What
`asyncio.wait_for` returns when the timeout comes between `set_result` and the
caller's next step depends on the Python version; both outcomes are allowed.

`QuietAfterClose` speaks of the task that `close()` cancelled: a `wait_for` on a
client that was closed before it was ever started does start a task afterwards.

### Trading

The venue's actions, driven by two clients over FIFO connections (`toVenue`,
`toClient`); of what the venue sends, the channels keep what a handler acts on.
The market maker's loop is `Tick` (quote, first cancel or bid), `ContinueTick`,
`PlaceAsk`, with `pc` at the await it is suspended in and `MakerReceives`
(`_on_fill`) in between. `drain()` really suspends only while the transport is
above its high-water mark; the model lets it suspend every time, which includes
the behaviours in which it does not. Prices are ticks; fair values and the
quoting constants count thirds of a tick, and `Round` is the nearest tick. What
the venue sends leaves its process only after the handler has returned (output is
queued), so a client's step during a match is the same step before it, and
`TradingNext` takes it there. `VenueDrops` loses the frames that were read
together with the end of file. With `Interrupted` a client may be cut off at any
await. `booked` is the position by the venue's own fills, `missed` what
`_on_fill` dropped, and `late` records that a tick began before the cancels of
the one before were answered, the case the grace pair does not cover. `BookedAll`
adds the fills of a step, or those in flight, to a position: their signed
quantities and their notional, each a `Total`. A price outside `Prices` reaches the
venue as an invalid field, and `SessionAssumption` says that the venue's
`Messages` include all the two programs can send.

## Runs

| Run | Bounds | Shows |
|---|---|---|
| `order_pool` | 3 slots | free list, assertions, under any relinking of orders in use |
| `engine` | 4 slots, 3 prices, room for 2 levels, quantities 1 and 3, counters modulo 4, 4 orders | lists, vectors, index, pool and totals agree at every step; the engine implements `MatchingBook`; `addLimitOrder` ends |
| `engine_total_quantity` | 3 slots | finding: `totalQuantity` wraps |
| `engine_level_capacity` | room for 1 level | finding: the level assertion can fail |
| `venue` | 2 clients, 2 ids each, 2 prices, quantities 1 and 2, 4 orders, soft cap 3 | table agreement, clean drop, finality, pool bound, fairness of fills, truth of the messages |
| `framing` | 2 items per stream, bits for bytes, magic and length of 2, payloads up to 2 (and 3) | any cut gives the same frames; errors are exact |
| `server` | 3 clients, 2 descriptors, 1 frame, 1 heartbeat, 2 tops | the maps agree, no handler runs on a closed connection; after every pass each connection has been sent the current top |
| `server_progress` | 2 clients, 2 descriptors, 2 frames, 2 tops | every frame of a client that stays is handled; clients that stay catch up |
| `trading` | 3 ticks of size 1, 1 noise order of size 2, clients cut off anywhere | position accounted, one pair resting, no reject of the market maker, the book ends empty |
| `venue_client` | 2 messages of 2 types, 2 `wait_for` calls, a plain and a coroutine handler that may raise | dispatch in order, waiters exact, calls end, quiet after close, the receive task ends only for a cause, senders learn of it |
| `wire` | texts of 5 characters, payloads of 9 tokens | conversions exact, strings contained, messages exact |
| `launch` | 4 options, numbers around every limit | the configuration that is served survives the casts and leaves headroom |

Several properties are conjunctions of named parts, each with its comment:
`StructuresIntact` (types, `QueuesIntact`, `LevelsSorted`, `IndexExact`,
`SlotsAccountedFor`), `TablesMatch` (`LiveOrdersMatchBook`,
`RecordsMatchLiveOrders`), `ReportsTruthful` (`MessagesConsistent`,
`BlotterIsTruth`, `ReportsBalance`), `ConnectionsExact` (types, `MapsAgree`,
`EventsOpen`), `ScalarsExact`, `EchoExact` and `MessageExact`; where several parts
could go wrong in different ways there is a mutant for each.

Why the bounds are enough. Four slots and four orders let a slot be freed and
reused while up to three orders are queued at a price, so removals at the head,
the middle and the tail and reuse all happen; quantities 1 and 3 give partial
fills, several fills per incoming order and, modulo 4, wrap-around. Three prices
give an incoming order two levels to sweep and one that stops it, and room for
two levels lets the assertion fail; an order meets up to three resting ones, at one
level or two, so a call has up to three rounds. The venue's run needs only two prices, as
matching over three is the engine's run; its four orders of two clients fill the
cap of three, sweep two orders, and leave room for a cancel or a disconnect at
each point. Most of its properties are also proved for every instance. `LiveView`
and `AuditView` leave out fields no later step reads; action properties are still
checked on every step, and liveness in `engine` as well, since no step of
a call leaves the view as it was. In `framing` payloads contain every bit pattern a header
has and lengths 0, the limit and one above it, and two items give a cut in, at
and across the boundary. In `server` the third client finds the descriptors
exhausted, or gets one that an earlier client has left; a frame and its
sender's disconnect may move the top, there and back in one pass or in two, around an accept, a heartbeat and a
stalled client. In `server_progress` two frames are two in one recv, one in each of
two passes, or two senders in one pass; a second client may take over the
descriptor of the first. In `trading` three ticks are the
first number for which an order is old enough to be pruned; a noise order larger
than the quote leaves a remainder that rests, and that a later quote trades with,
the market maker then being the incoming side and two units short. In
`venue_client` two calls may wait for the same type, and two messages let one
arrive while the handlers of the other are suspended. Nine tokens are an object
with two pairs, so a key can repeat; five characters spell values below, at and
above the limit with and without decimals, and strings in which every pair of
special characters is adjacent. (A payload with a known `type` and another key
given twice has three pairs; that one is covered by the theorem only.)

Deadlock is checked in `order_pool` and the server's runs. In the others the
bound on the number of orders or texts, the end of a stream, an aborted process,
clients that have all gone or an exit may end a behaviour.

Fairness. In `engine`, a call of `addLimitOrder` goes on (weak fairness of
its steps; one thread runs it and waits for nothing). In `framing`, TCP delivers what was sent and the loop serves the
connection (weak fairness of the next-state relation). In `server_progress`, the loop
never stops: every poll ends at the latest when the heartbeat is due and all
sockets are non-blocking (weak fairness of `Run`); and a client that stays
connected keeps reading, as the Python client's receive task does (weak fairness
of `ClientReads`). Heartbeats are not assumed to come. In `trading`, the venue
handles what arrives and notices the end of a connection, `addLimitOrder`, once
called, waits for nothing, the market maker's loop goes on (its awaits are a
drain and a sleep), and both clients end, by `max_ticks` or by being stopped;
nothing is assumed of the receive tasks. In `venue_client`, the asyncio loop runs
every task that can run, timers fire, handlers return, a closing transport is
able to flush its buffer (the venue reads or the connection breaks), and the
sender goes on sending; no frame and no end of file is assumed to come.

### Findings

* `totalQuantity` is the sum of the queue only modulo 2^32
  (`TotalQuantityMatchesSum` is violated, `TotalQuantityTracksQueue` holds); the
  engine's README states the invariant without the width.
* The assertion that a level vector has room can fail: admission limits orders,
  not distinct prices (`LevelCapacityAsserted` is violated).

Two more remarks, which the models show without a run of their own. A capacity in
the last 64 values of `std::size_t` (`--capacity -1` writes one) wraps the pool's
size below the cap; `ServesValidConfig` therefore excepts them. An order of the
noise trader can reach the venue after the quote it was priced from is gone; it
then rests instead of trading, until it is met by a later quote or its client
goes (`BookEmpties`).

## Proofs

Each proof module extends the module it is about; all constants are arbitrary,
under the assumptions named in the modules: a capacity of at least 1; prices and
quantities natural, quantities positive; order ids positive; messages as
`parseInbound` delivers them; the calls of `wait_for` name a type and the
handlers of a type are a sequence; the two trading programs are the venue's
clients, fair values, spread and skew are natural numbers of a unit of which a
tick has an odd number (so that rounding never meets a half), and what the
programs can send is among the venue's messages; a frame header is not empty and
every payload a peer frames has a length its length field can hold; the limits of `main.cpp` fit
into its integers; the base of the numerals is at least 2, and the words of a
payload include the keys and `type`.

* Order pool (in `OrderBookProofs`): `FreeListStaysIntact`, `PoolAssertionsHold`. `FreeListIntact` is
  inductive together with the types: it states the free list as a sequence of
  distinct slots that is complementary to the allocated ones. Allocation drops
  the head of that sequence, deallocation prepends, and a relink touches only a
  slot outside of it.
* Abstract book (in `VenueProofs`): `BookNeverCrossed`. `NotCrossed` over the resting orders is
  inductive with the types: the only step that makes an order rest is `Settle`,
  which needs the incoming order spent or no contra order at its price.
* Order book: `BookInvariant`, `BookStructuresIntact`,
  `EngineImplementsMatchingBook`. `StructuresIntact` alone is not inductive. It
  takes `ArrivalOK` (ids are given out in order of arrival, every queue is sorted
  by id, and the order in flight is the youngest) and `CallOK` (the round's count
  of levels is in range, an order that comes to rest has nothing left to cross).
  A queue is described by the arrival order of its members, not by a sequence of
  slots that has to be exhibited: the successor of a member is the next younger
  one at that price. Then `remove` and `addToTail` are local changes. From the
  invariant each action maps to one step of `MatchingBook` (`Submit`, `Fill`,
  `SelfMatch`, `Settle`, `Cancel`) or, for `MatchDone`, `RestAborts` and an
  unknown cancel, to a stutter. With `BookNeverCrossed`, the engine's book is
  never crossed.
* Match loop (in `OrderBookProofs`): `MatchLoopBounded`. A round fills the smaller
  of its two orders, so it spends the incoming one or takes the resting one out
  of the book, and none comes in. With n orders resting the loop ends after at
  most n + 1 rounds; this is the measure behind `CallReturns`.
* Total quantities (in `OrderBookProofs`): `TotalQuantityStaysExact`. The total of
  a level is a sum over the slots of the pool, those not in its queue counting
  nothing. That changing the term of one slot changes the sum by as much is proved
  by well-founded induction over the partial sums; the wrap-around is then a fact
  about remainders. The loop fills one order at a time, and `remove` and
  `addToTail` take off and add exactly the quantity of the slot they relink, which
  is what the invariant of the structures says of a queue's members.
* Venue: `VenueInvariant`. The inductive invariant `IInv` joins the types, both
  table agreements, `NotCrossed`, clean drops and the pool bound with three facts
  that the properties alone do not carry: engine ids in use are below
  `nextEngineId_` (fresh ids), no client has crossing orders on both sides (the
  check at the door, kept by every later step), and the number of live orders
  counts the incoming one. From it: `VenueWellTyped`, `TablesAgree`,
  `NoSelfMatch`, `PoolNeverRunsOut`, `DropIsClean`, `VenueNotCrossed`, and the
  action properties `RecordsAreFinal` and `FillsStayFair`. The latter needs only
  that a round trades with the first order in price-time priority.
* Audit: `AuditInvariant`, `ReportsStayTruthful`, `CancelAnswersStayTrue`.
  `AuditInv` compares the blotter with the venue's own tables
  order by order (`Tracks`, `Recorded`, `Known`) on top of `IInv`. That the two
  sides' fills balance is a sum over the messages of a step: `TotalFilled` adds
  by blotter entry, and a lemma shows that one fill changes the total of its side
  by its quantity.
* Server: `ServerInvariant`, `ConnectionsStayExact`, `MarketDataStaysCurrent`.
  `ConnectionsExact` needs the rule that the entries of a pass still to be
  handled refer to open connections (`LoopOK`: a pass closes only the connection
  it is at, and accepts before it takes the entries), and `MarketDataCurrent`
  that what was last sent to a connection is the last published top, which is
  the venue's whenever no handler has run since (`MdOK`).
* Venue client: `ClientInvariant`, `WaitersStayExact`, `NextMessageDelivered`,
  `CloseLeavesQuiet`, `DispatchStaysInOrder`, `TaskEndsOnlyForCause`. `CallsOK`
  relates each call's position to its future and to the list of waiters,
  `CloseOK` the stages of `close()` to the receive task, and `DispatchInv` states
  that the handler calls made, followed by those the suspended dispatch has left,
  are the calls of all messages received. For the cause of the task's end
  `CauseInv` adds that the call a suspended dispatch awaits is the last one made,
  with the message read last.
* Trading: `TradingInvariant`, `OnePairStaysResting`, `PositionStaysAccounted`,
  `MissedStaysAfterGrace`, `MakerStaysAccepted`. The market maker's messages form one FIFO sequence:
  two NewOrders, then for every further tick two Cancels and two NewOrders.
  `Place` is the position of a NewOrder in it and `PlaceOf` that of any message.
  `InOrder(h)` says that the venue has handled the first `h` messages and the
  channel holds the following ones; `LiveOK(h)`, that a live order of the market
  maker has its NewOrder among the first `h` and its Cancel not. Its position is
  therefore `h` or one before, and no two orders of one side are that close
  (`PlaceGaps`): at most one bid and one ask. `TakerAlone` says the same while an
  order is being matched, which may be spent and not yet forgotten. For the
  dropped fills, `GraceOK(h)` bounds `h` from below as long as no tick began
  before the cancels were answered. The positions are sums over the fills in
  flight; that a sum continues when fills are appended or the first is taken off
  (`SumsContinue`) is proved by well-founded induction over its partial sums.

  `MakerStaysAccepted` is the one theorem with hypotheses beyond the named
  assumptions, for it is false without them. `QuotingConditions`: the spread is a
  tick at least (a smaller one can round bid and ask to one price, and the ask
  then crosses the bid), and `SoftCap` leaves room for two orders beside all those
  of the noise trader. `[]QuotesLegal`: at every position the market maker reaches,
  the quote for every fair value is a price the venue takes; nothing in the code
  bounds the inventory that skews it, and a price below zero is refused. The
  `trading` run meets both, with its `Unit` of 3, `Spread` of 6, cap of 6 and one
  noise order, and with quotes that stay within its `Prices`. `MakerInv` says that
  the venue knows no id of the market maker before its NewOrder arrives; that
  prices by id exist (`Priced`) which its orders on the way and in the book have
  and in which each bid is below the ask that follows it; and that the noise
  trader's orders are numbered, so at most `MaxFires` of them are live. When a
  NewOrder arrives, `LiveOK` and `PlaceGaps` leave at most one live order of the
  market maker, the bid of the same pair: so there is room (`RoomForNext`), and
  the order crosses none of its own (`NextAdmitted`).
* Framing: `FramingInvariant`, `WholeFramesDelivered`, `ErrorsAreExact`.
  `FramingInv` states that the delivered payloads are those of the first items,
  and that the decoder's buffer followed by the wire is exactly the bytes of the
  others (`InPlace`), which no cut changes; that the decoder goes back to poll
  only when the item it is at is incomplete (`Waiting`); and that it fails only at
  an item to refuse (`Refused`). A step is then a fact about the first item of
  those bytes: its header reads the same at every cut once it is there
  (`SameHeader`), it is refused exactly if the item is no good frame (`ItemFacts`),
  and a length field reads back as the length that was written (`LengthRoundTrip`,
  by induction on the digits). `Sent`, `Power` and the value of the length field
  are recursive functions; that they are what they are said to be, and that the
  first items are a prefix of the bytes, is shown by well-founded induction.
* Codec and protocol: `ScalarsAreExact`, `PricesSurvive`, `EchoIsExact`,
  `MessagesAreExact`. The invariant (`WireTypes`) only says that a text is a
  sequence of characters and a payload one of tokens; the theorems are about every
  such sequence. A loop is a recursive function, which `LoopGoesOn` shows to take
  one step of the code for each character more, and `TextInduction` is induction
  over texts; both come from the library's well-founded induction over sets. Then
  the accumulating loop holds the value of the digits read, or has refused and the
  value is beyond the limit, since a value only grows with further digits. A
  decimal is split at its first point (`splits` of `TicksExact` has at most one
  element), and a number at the first characters that are not digits. A numeral
  reads back by strong induction on the number it writes. An escaped character is
  read back by the client as the character, and by the venue's own reader too
  unless it is a control character, so a quoted text is read to its closing quote.
  For payloads the reader is compared with the tokens that are not white space:
  where it is follows from their number modulo four, it has failed exactly if one
  of them is out of place, and under each key it holds the value of the last pair.
* Launch: `ServedConfigIsValid`. Every value is kept only after its test, and
  `parseU64` stays within the type; `HeadroomLeft` is the arithmetic of the sum.

Only model-checked, and why:

* liveness (`CallReturns`, `BookEmpties`, `EveryFrameHandled`,
  `ClientsCatchUp`, `FramesHandled`, `CallsEnd`, `SenderLearns`): out of the
  prover's reach.

## Not modelled

* Text: timestamps, the order of fields in outbound messages, logging, the profit
  the market maker prints.
* `connect_and_quote_once`, which only tests call, and the clients' wait for the
  venue to be live: `Trading` starts when both clients have seen it.
* In `VenueClient`: a handler that calls `close()`, and a second `close()`;
  neither program does either. Nor a handler registered after the start or twice;
  both programs register theirs once, before starting.
* A failing `fcntl` on an accepted socket, which the server ignores.
* The acceptance and evidence tools and the benchmarks: harnesses around the
  operations that are modelled, with no state of the system.

Some hazards have no property because the code promises nothing there: its out
buffers, a connection's records and the time one client can hold the loop have no
bound, and the last order of a client that closes behind it may be lost.

## Plan

Done: all parts of the system as above are model-checked, and every safety
property of a passing run is proved for all values of the constants
(`MakerNeverRejected` under the hypotheses named above): the pool, both books and
the refinement between them, the venue, its audit, the server, the venue client,
the trading loop, framing, the codec, the payload reader and the start of the
process. Liveness stays with TLC.
