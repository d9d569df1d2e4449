---------------------------- MODULE TradingProofs ----------------------------
(***************************************************************************)
(* The market maker's position, its pair of orders and the fills it drops, *)
(* for any quoting constants, session lengths, quantities and venue.       *)
(*                                                                         *)
(* The market maker's messages form one sequence, new, new, then cancel,   *)
(* cancel, new, new for every further tick, and the venue handles them in  *)
(* that order. So the number of messages it has handled decides which      *)
(* orders of the market maker can be in the book: those whose NewOrder is  *)
(* among them and whose Cancel is not.                                     *)
(*                                                                         *)
(* So an arriving NewOrder meets at most one live order of the market      *)
(* maker, the bid of its own pair, and has room when the noise trader's    *)
(* orders leave room for a pair: it is never rejected while the quotes are *)
(* prices the venue takes.                                                 *)
(***************************************************************************)
EXTENDS Trading, VenueProofs

\* The place of the NewOrder of id c, and of any message, in what is sent.
Place(c) == 2 * c - 2 + (c % 2)

PlaceOf(m) == IF m.type = "Cancel" THEN Place(m.clientOrderId) + 2 ELSE Place(m.clientOrderId)

\* Bids have odd ids.
SideOf(c) == IF c % 2 = 1 THEN "Buy" ELSE "Sell"

Money == [inventory : Int, cash : Int]

Fills == [clientOrderId : Nat, side : Sides, fillQty : Nat, fillPrice : Nat]

\* The loop: each tick cancels the pair of the tick before and places the next.
LoopOK ==
    /\ pc \in {"sleep", "cancel", "ask", "closed"}
    /\ ticks \in 0..MaxTicks /\ placed \in 0..(2 * MaxTicks)
    /\ pc # "closed" =>
          /\ placed = IF pc = "ask" THEN 2 * ticks + 2 ELSE 2 * ticks
          /\ resting = IF ticks = 0 THEN <<>> ELSE <<2 * ticks - 1, 2 * ticks>>
    /\ pc \in {"cancel", "ask"} => ticks < MaxTicks
    /\ pc = "cancel" => ticks > 0 /\ todo \in {<<2 * ticks>>, <<>>}

\* order_side has the pair being placed and the one before, with their sides.
SidesOK ==
    orderSide = [c \in {d \in 1..placed : d > placed - 4} |-> SideOf(c)]

\* The messages the market maker has sent.
SentByMaker ==
    CASE pc = "sleep"  -> IF ticks = 0 THEN 0 ELSE 4 * ticks - 2
      [] pc = "cancel" -> IF todo = <<>> THEN 4 * ticks ELSE 4 * ticks - 1
      [] OTHER         -> 4 * ticks + 1

\* What the clients have sent can be in the venue's Messages.
MailTyped ==
    /\ toVenue \in [Conns -> Seq(Messages)] /\ DOMAIN toClient = Conns
    /\ fires \in 0..MaxFires

\* What the market maker may have in flight to the venue.
WellSent(m, ids) ==
    /\ m.type \in {"NewOrder", "Cancel"} /\ m.hasClientOrderId /\ m.clientOrderId \in 1..ids
    /\ m.type = "NewOrder" => m.side = SideOf(m.clientOrderId)

\* The venue has handled the first h messages of the market maker.
InOrder(h) ==
    \A i \in DOMAIN toVenue[MM] : WellSent(toVenue[MM][i], placed) /\ PlaceOf(toVenue[MM][i]) = h + i

\* The NewOrder of its live orders is among the first h messages and the Cancel not.
LiveOK(h) ==
    \A i \in DOMAIN byEngineId :
        LET c == byEngineId[i].clientOrderId
        IN byEngineId[i].owner = MM =>
              c \in 1..placed /\ byEngineId[i].side = SideOf(c) /\ h \in {Place(c), Place(c) + 1}

MailOK(h) ==
    /\ InOrder(h) /\ LiveOK(h)
    /\ pc # "closed" => h + Len(toVenue[MM]) = SentByMaker

\* The incoming order, also when it is spent, is the only one of the market maker
\* on its side.
TakerAlone ==
    taker # NoTaker /\ orders[taker].owner = MM =>
        \A i \in DOMAIN orders :
            orders[i].owner = MM /\ orders[i].side = orders[taker].side => i = taker

\* The fills on their way are of orders placed, with the order's side.
FillsOK ==
    /\ toClient[MM] \in Seq(Fills)
    /\ \A i \in DOMAIN toClient[MM] :
          LET f == toClient[MM][i]
          IN f.clientOrderId \in 1..placed /\ f.side = SideOf(f.clientOrderId)

AccountOK ==
    /\ position \in Money /\ booked \in Money
    /\ missed \in [inventory : Int, cash : Int, ids : SUBSET Nat]
    /\ booked.inventory = BookedAll(position, toClient[MM]).inventory + missed.inventory
    /\ booked.cash = BookedAll(position, toClient[MM]).cash + missed.cash

\* While the cancels of a tick are answered before the next tick begins, live
\* orders and fills on their way are of the pairs order_side has.
GraceOK(h) ==
    ~late =>
        /\ missed.ids = {}
        /\ pc \in {"sleep", "ask"} =>
              /\ h >= 2 * placed - 8
              /\ \A i \in DOMAIN toClient[MM] : toClient[MM][i].clientOrderId > placed - 4
        /\ pc = "cancel" =>
              /\ h >= 2 * placed - 4
              /\ \A i \in DOMAIN toClient[MM] : toClient[MM][i].clientOrderId > placed - 2

TradingInv ==
    /\ IInv /\ LoopOK /\ SidesOK /\ MailTyped /\ TakerAlone /\ FillsOK /\ AccountOK
    /\ \E h \in Nat : MailOK(h) /\ GraceOK(h)

-----------------------------------------------------------------------------
(***************************************************************************)
(* Places: 1 and 2 for the NewOrders of the first tick, then four for each *)
(* tick, cancels first.                                                    *)
(***************************************************************************)
LEMMA PlaceBounds ==
    ASSUME NEW c \in Nat \ {0}
    PROVE  /\ Place(c) \in Nat \ {0}
           /\ c % 2 = 0 => Place(c) = 2 * c - 2
           /\ c % 2 = 1 => Place(c) = 2 * c - 1
           /\ c % 2 \in {0, 1}
BY DEF Place

\* An even number is two times another, an odd one that and one more.
LEMMA Halves ==
    ASSUME NEW c \in Nat \ {0}
    PROVE  \E k \in Nat : c = 2 * k + (c % 2)
<1>1. c = 2 * (c \div 2) + (c % 2) /\ c \div 2 \in Nat
    OBVIOUS
<1> QED BY <1>1

\* No NewOrder comes two places after another, and none of the same side one
\* place after another.
LEMMA PlaceGaps ==
    ASSUME NEW c \in Nat \ {0}, NEW d \in Nat \ {0}
    PROVE  /\ Place(c) = Place(d) => c = d
           /\ Place(c) # Place(d) + 2
           /\ SideOf(c) = SideOf(d) => Place(c) # Place(d) + 1
<1>1. PICK j \in Nat : c = 2 * j + (c % 2)
    BY Halves
<1>2. PICK k \in Nat : d = 2 * k + (d % 2)
    BY Halves
<1> DEFINE x == c % 2
           y == d % 2
<1>3. x \in {0, 1} /\ y \in {0, 1}
    BY PlaceBounds
<1>4. Place(c) = 4 * j + 3 * x - 2 /\ Place(d) = 4 * k + 3 * y - 2
  <2>1. Place(c) = 2 * c - 2 + x /\ Place(d) = 2 * d - 2 + y /\ c = 2 * j + x /\ d = 2 * k + y
      BY <1>1, <1>2 DEF Place
  <2> HIDE DEF x, y
  <2> QED BY <2>1, <1>3
<1>5. SideOf(c) = SideOf(d) => x = y
    BY <1>3 DEF SideOf
<1>6. c = 2 * j + x /\ d = 2 * k + y
    BY <1>1, <1>2
<1> HIDE DEF x, y
<1> QED BY <1>3, <1>4, <1>5, <1>6

-----------------------------------------------------------------------------
(***************************************************************************)
(* Totals of sequences of numbers.                                         *)
(***************************************************************************)
\* f[k] is the total of the first k numbers of s, for k up to n.
Sums(s, n, f) == f = [k \in 0..n |-> IF k = 0 THEN 0 ELSE f[k - 1] + s[k]]

\* There are such totals for every length.
LEMMA SumsExist ==
    ASSUME NEW s, NEW n \in Nat
    PROVE  \E f : Sums(s, n, f)
<1> DEFINE S == {m \in Nat : \E f : Sums(s, m, f)}
<1>1. 0 \in S
  <2> DEFINE f == [k \in 0..0 |-> 0]
  <2>1. f = [k \in 0..0 |-> IF k = 0 THEN 0 ELSE f[k - 1] + s[k]]
      OBVIOUS
  <2>2. Sums(s, 0, f)
      BY <2>1 DEF Sums
  <2> QED BY <2>2
<1>2. ASSUME NEW m \in Nat, m \in S PROVE m + 1 \in S
  <2>1. PICK f : Sums(s, m, f)
      BY <1>2
  <2>2. f = [k \in 0..m |-> IF k = 0 THEN 0 ELSE f[k - 1] + s[k]]
      BY <2>1 DEF Sums
  <2> DEFINE last == f[m] + s[m + 1]
             g == [k \in 0..(m + 1) |-> IF k = m + 1 THEN last ELSE f[k]]
             h == [k \in 0..(m + 1) |-> IF k = 0 THEN 0 ELSE g[k - 1] + s[k]]
  <2>3. ASSUME NEW k \in 0..(m + 1) PROVE g[k] = h[k]
    <3>1. CASE k = m + 1
      <4>1. k # 0 /\ k - 1 \in 0..(m + 1) /\ k - 1 # m + 1 /\ k - 1 = m
          BY <3>1
      <4>2. g[k - 1] = f[m]
          BY <4>1
      <4> QED BY <3>1, <4>1, <4>2
    <3>2. CASE k # m + 1
      <4>1. k \in 0..m /\ g[k] = f[k]
          BY <3>2
      <4>2. CASE k = 0
          BY <2>2, <4>1, <4>2
      <4>3. CASE k # 0
        <5>1. k - 1 \in 0..(m + 1) /\ k - 1 # m + 1
            BY <4>1, <4>3
        <5>2. g[k - 1] = f[k - 1]
            BY <5>1
        <5>3. f[k] = f[k - 1] + s[k]
            BY <2>2, <4>1, <4>3
        <5> QED BY <4>1, <4>3, <5>2, <5>3
      <4> QED BY <4>2, <4>3
    <3> QED BY <3>1, <3>2
  <2>4. g = h
    <3> HIDE DEF last
    <3>1. g = [k \in 0..(m + 1) |-> g[k]] /\ h = [k \in 0..(m + 1) |-> h[k]]
        OBVIOUS
    <3> HIDE DEF g, h
    <3> QED BY <2>3, <3>1
  <2>5. Sums(s, m + 1, g)
      BY <2>4 DEF Sums
  <2> QED BY <2>5
<1>3. Nat \subseteq S
  <2> HIDE DEF S
  <2> QED BY <1>1, <1>2, SetInduction
<1> QED BY <1>3

\* Total(s) is the last of them.
LEMMA TotalIs ==
    ASSUME NEW s, Len(s) \in Nat
    PROVE  \E f : Sums(s, Len(s), f) /\ Total(s) = f[Len(s)]
<1> DEFINE f == CHOOSE e : Sums(s, Len(s), e)
<1>1. Sums(s, Len(s), f)
    BY SumsExist
<1>2. Total(s) = f[Len(s)]
    BY DEF Total, Sums
<1> QED BY <1>1, <1>2

\* The numbers of t from a on are those of s, as far as s goes.
Continues(s, t, a) == \A k \in 1..Len(s) : s[k] \in Int /\ t[k + a] = s[k]

\* Then the totals of t continue those of s.
LEMMA SumsContinue ==
    ASSUME NEW s \in Seq(Int), NEW t, NEW n \in Nat, NEW a \in Nat, Len(s) + a <= n,
           NEW f, Sums(s, Len(s), f), NEW g, Sums(t, n, g), g[a] \in Int, Continues(s, t, a)
    PROVE  f[Len(s)] \in Int /\ g[Len(s) + a] = g[a] + f[Len(s)]
<1> DEFINE S == {k \in Nat : k \in 0..Len(s) => f[k] \in Int /\ g[k + a] = g[a] + f[k]}
<1>0. /\ f = [k \in 0..Len(s) |-> IF k = 0 THEN 0 ELSE f[k - 1] + s[k]]
      /\ g = [k \in 0..n |-> IF k = 0 THEN 0 ELSE g[k - 1] + t[k]]
      /\ Len(s) \in Nat
  <2>1. f = [k \in 0..Len(s) |-> IF k = 0 THEN 0 ELSE f[k - 1] + s[k]]
      BY DEF Sums
  <2>2. g = [k \in 0..n |-> IF k = 0 THEN 0 ELSE g[k - 1] + t[k]]
      BY DEF Sums
  <2>3. Len(s) \in Nat
      BY LenProperties
  <2> QED BY <2>1, <2>2, <2>3
<1>1. 0 \in S
  <2>1. f[0] = 0 /\ 0 + a = a
      BY <1>0
  <2> QED BY <2>1
<1>2. ASSUME NEW k \in Nat, k \in S PROVE k + 1 \in S
  <2> SUFFICES ASSUME k + 1 \in 0..Len(s)
               PROVE  f[k + 1] \in Int /\ g[(k + 1) + a] = g[a] + f[k + 1]
      OBVIOUS
  <2>1. /\ k \in 0..Len(s) /\ k + 1 \in 1..Len(s) /\ (k + 1) - 1 = k /\ k + 1 # 0
        /\ (k + 1) + a \in 0..n /\ (k + 1) + a # 0 /\ ((k + 1) + a) - 1 = k + a
    <3> DEFINE l == Len(s)
    <3>1. l \in Nat /\ l + a <= n /\ k + 1 \in 0..l /\ k \in Nat /\ a \in Nat /\ n \in Nat
        BY <1>0
    <3> HIDE DEF l
    <3>2. /\ k \in 0..l /\ k + 1 \in 1..l /\ (k + 1) - 1 = k /\ k + 1 # 0
          /\ (k + 1) + a \in 0..n /\ (k + 1) + a # 0 /\ ((k + 1) + a) - 1 = k + a
        BY ONLY <3>1
    <3> QED BY <3>2 DEF l
  <2>2. f[k] \in Int /\ g[k + a] = g[a] + f[k]
      BY <1>2, <2>1
  <2>3. f[k + 1] = f[(k + 1) - 1] + s[k + 1]
      BY <1>0, <2>1
  <2>4. g[(k + 1) + a] = g[((k + 1) + a) - 1] + t[(k + 1) + a]
      BY <1>0, <2>1
  <2>5. f[k + 1] = f[k] + s[k + 1] /\ g[(k + 1) + a] = g[k + a] + t[(k + 1) + a]
      BY <2>1, <2>3, <2>4
  <2>6. s[k + 1] \in Int /\ t[(k + 1) + a] = s[k + 1]
      BY <2>1 DEF Continues
  <2> DEFINE u == f[k]
             v == g[a]
             w == s[k + 1]
  <2>7. u \in Int /\ v \in Int /\ w \in Int /\ f[k + 1] = u + w /\ g[(k + 1) + a] = (v + u) + w
      BY <2>2, <2>5, <2>6
  <2> HIDE DEF u, v, w
  <2>8. u + w \in Int /\ (v + u) + w = v + (u + w)
      BY ONLY <2>7
  <2> QED BY <2>7, <2>8 DEF v
<1>3. Nat \subseteq S
  <2> HIDE DEF S
  <2> QED BY <1>1, <1>2, SetInduction
<1>4. Len(s) \in S
    BY <1>0, <1>3
<1> QED BY <1>0, <1>4

LEMMA TotalConcat ==
    ASSUME NEW s \in Seq(Int), NEW t \in Seq(Int)
    PROVE  Total(s) \in Int /\ Total(t) \in Int /\ Total(s \o t) = Total(s) + Total(t)
<1>1. /\ s \o t \in Seq(Int) /\ Len(s) \in Nat /\ Len(t) \in Nat
      /\ Len(s \o t) = Len(s) + Len(t)
      /\ \A i \in 1..(Len(s) + Len(t)) : (s \o t)[i] = IF i <= Len(s) THEN s[i] ELSE t[i - Len(s)]
    BY ConcatProperties, LenProperties
<1> DEFINE u == s \o t
<1> HIDE DEF u
<1>2. /\ \A k \in 1..Len(s) : u[k + 0] = s[k]
      /\ \A k \in 1..Len(t) : u[k + Len(s)] = t[k]
  <2>1. ASSUME NEW k \in 1..Len(s) PROVE u[k + 0] = s[k]
      BY <1>1 DEF u
  <2>2. ASSUME NEW k \in 1..Len(t) PROVE u[k + Len(s)] = t[k]
    <3>1. k + Len(s) \in 1..(Len(s) + Len(t)) /\ ~(k + Len(s) <= Len(s)) /\ (k + Len(s)) - Len(s) = k
        BY <1>1
    <3> QED BY <1>1, <3>1 DEF u
  <2> QED BY <2>1, <2>2
<1>3. Continues(s, u, 0) /\ Continues(t, u, Len(s))
  <2>1. (\A k \in 1..Len(s) : s[k] \in Int) /\ (\A k \in 1..Len(t) : t[k] \in Int)
      BY LenProperties
  <2> QED BY <1>2, <2>1 DEF Continues
<1>4. Len(u) \in Nat /\ Len(u) = Len(s) + Len(t) /\ Len(s) + 0 = Len(s) /\ Len(t) + Len(s) = Len(u)
    BY <1>1 DEF u
<1>5. PICK e : Sums(s, Len(s), e) /\ Total(s) = e[Len(s)]
    BY <1>1, TotalIs
<1>6. PICK f : Sums(t, Len(t), f) /\ Total(t) = f[Len(t)]
    BY <1>1, TotalIs
<1>7. PICK g : Sums(u, Len(u), g) /\ Total(u) = g[Len(u)]
    BY <1>4, TotalIs
<1>8. g[0] = 0
  <2>1. g = [k \in 0..Len(u) |-> IF k = 0 THEN 0 ELSE g[k - 1] + u[k]]
      BY <1>7 DEF Sums
  <2>2. 0 \in 0..Len(u)
      BY <1>4
  <2> QED BY <2>1, <2>2
<1>9. e[Len(s)] \in Int /\ g[Len(s) + 0] = g[0] + e[Len(s)]
  <2>1. Len(s) + 0 <= Len(u) /\ 0 \in Nat /\ g[0] \in Int
      BY <1>1, <1>4, <1>8
  <2> QED BY <1>3, <1>4, <1>5, <1>7, <2>1, SumsContinue
<1>10. g[Len(s)] = e[Len(s)]
    BY <1>4, <1>8, <1>9
<1>11. f[Len(t)] \in Int /\ g[Len(t) + Len(s)] = g[Len(s)] + f[Len(t)]
  <2>1. Len(t) + Len(s) <= Len(u) /\ g[Len(s)] \in Int
      BY <1>4, <1>9, <1>10
  <2> QED BY <1>1, <1>3, <1>4, <1>6, <1>7, <2>1, SumsContinue
<1> QED BY <1>4, <1>5, <1>6, <1>7, <1>9, <1>10, <1>11 DEF u

LEMMA TotalOne ==
    ASSUME NEW x \in Int
    PROVE  Total(<<x>>) = x /\ Total(<<>>) = 0
<1>1. PICK f : Sums(<<x>>, Len(<<x>>), f) /\ Total(<<x>>) = f[Len(<<x>>)]
    BY TotalIs
<1>2. f = [k \in 0..1 |-> IF k = 0 THEN 0 ELSE f[k - 1] + <<x>>[k]] /\ Total(<<x>>) = f[1]
    BY <1>1 DEF Sums
<1>3. f[0] = 0
    BY <1>2
<1>4. f[1] = f[0] + x
    BY <1>2
<1>5. PICK g : Sums(<<>>, Len(<<>>), g) /\ Total(<<>>) = g[Len(<<>>)]
    BY TotalIs
<1>6. g = [k \in 0..0 |-> IF k = 0 THEN 0 ELSE g[k - 1] + <<>>[k]] /\ Total(<<>>) = g[0]
    BY <1>5 DEF Sums
<1>7. g[0] = 0
    BY <1>6
<1> QED BY <1>2, <1>3, <1>4, <1>6, <1>7

-----------------------------------------------------------------------------
(***************************************************************************)
(* What fills do to a position.                                            *)
(***************************************************************************)
\* What fills add to the inventory and to the cash.
Bought(fills) == Total([i \in DOMAIN fills |-> Booked(Flat, fills[i]).inventory])

Earned(fills) == Total([i \in DOMAIN fills |-> Booked(Flat, fills[i]).cash])

\* Booked adds what the fill adds to a flat position.
LEMMA BookedAdds ==
    ASSUME NEW p, p.inventory \in Int, p.cash \in Int, NEW f \in Fills,
           p \in Money \/ p \in [inventory : Int, cash : Int, ids : SUBSET Nat]
    PROVE  /\ Booked(Flat, f).inventory \in Int /\ Booked(Flat, f).cash \in Int
           /\ Booked(p, f) = [p EXCEPT !.inventory = @ + Booked(Flat, f).inventory,
                                       !.cash = @ + Booked(Flat, f).cash]
<1> DEFINE sign == IF f.side = "Buy" THEN 1 ELSE -1
           x == sign * f.fillQty
           y == sign * f.fillQty * f.fillPrice
<1>1. x \in Int /\ y \in Int
  <2>1. sign \in Int /\ f.fillQty \in Int /\ f.fillPrice \in Int
      BY DEF Fills
  <2> HIDE DEF sign
  <2>2. sign * f.fillQty \in Int
      BY <2>1
  <2> QED BY <2>1, <2>2
<1>2. /\ Booked(p, f) = [p EXCEPT !.inventory = @ + x, !.cash = @ - y]
      /\ Booked(Flat, f) = [Flat EXCEPT !.inventory = @ + x, !.cash = @ - y]
    BY DEF Booked
<1> HIDE DEF x, y
<1>3. Booked(Flat, f).inventory = 0 + x /\ Booked(Flat, f).cash = 0 - y
    BY <1>2 DEF Flat
<1>4. 0 + x = x /\ 0 - y \in Int /\ p.cash + (0 - y) = p.cash - y
    BY <1>1
<1> HIDE DEF Booked
<1> QED BY <1>1, <1>2, <1>3, <1>4

\* The amounts of fills, one per fill.
LEMMA AmountsTyped ==
    ASSUME NEW s \in Seq(Fills)
    PROVE  /\ [i \in DOMAIN s |-> Booked(Flat, s[i]).inventory] \in Seq(Int)
           /\ [i \in DOMAIN s |-> Booked(Flat, s[i]).cash] \in Seq(Int)
<1>1. DOMAIN s = 1..Len(s) /\ Len(s) \in Nat /\ \A i \in 1..Len(s) : s[i] \in Fills
    BY LenProperties
<1>2. Flat \in Money /\ Flat.inventory \in Int /\ Flat.cash \in Int
    BY DEF Flat, Money
<1>3. \A i \in 1..Len(s) : Booked(Flat, s[i]).inventory \in Int /\ Booked(Flat, s[i]).cash \in Int
    BY <1>1, <1>2, BookedAdds
<1> QED BY <1>1, <1>3, IsASeq

\* A sequence that starts with the members of a and goes on with those of b.
LEMMA IsConcat ==
    ASSUME NEW a \in Seq(Int), NEW b \in Seq(Int), NEW c \in Seq(Int), Len(c) = Len(a) + Len(b),
           \A i \in 1..Len(a) : c[i] = a[i], \A i \in 1..Len(b) : c[Len(a) + i] = b[i]
    PROVE  c = a \o b
<1> DEFINE d == a \o b
<1>1. /\ d \in Seq(Int) /\ Len(d) = Len(a) + Len(b)
      /\ \A i \in 1..(Len(a) + Len(b)) : d[i] = IF i <= Len(a) THEN a[i] ELSE b[i - Len(a)]
      /\ Len(a) \in Nat /\ Len(b) \in Nat
    BY ConcatProperties, LenProperties
<1> HIDE DEF d
<1>2. ASSUME NEW i \in 1..Len(d) PROVE c[i] = d[i]
  <2>1. CASE i <= Len(a)
    <3>1. d[i] = a[i] /\ i \in 1..Len(a)
        BY <1>1, <2>1
    <3> QED BY <3>1
  <2>2. CASE ~(i <= Len(a))
    <3>1. i - Len(a) \in 1..Len(b) /\ Len(a) + (i - Len(a)) = i
        BY <1>1, <2>2
    <3>2. c[Len(a) + (i - Len(a))] = b[i - Len(a)]
        BY <3>1
    <3> QED BY <1>1, <2>2, <3>1, <3>2
  <2> QED BY <2>1, <2>2
<1>3. c = [i \in 1..Len(d) |-> c[i]] /\ d = [i \in 1..Len(d) |-> d[i]]
    BY <1>1, LenProperties
<1> QED BY <1>2, <1>3 DEF d

\* What fills add is the sum of what their parts add.
LEMMA FillsConcat ==
    ASSUME NEW s \in Seq(Fills), NEW t \in Seq(Fills)
    PROVE  /\ Bought(s) \in Int /\ Bought(t) \in Int /\ Bought(s \o t) = Bought(s) + Bought(t)
           /\ Earned(s) \in Int /\ Earned(t) \in Int /\ Earned(s \o t) = Earned(s) + Earned(t)
<1> DEFINE b(u) == [i \in DOMAIN u |-> Booked(Flat, u[i]).inventory]
           e(u) == [i \in DOMAIN u |-> Booked(Flat, u[i]).cash]
           st   == s \o t
<1>1. /\ st \in Seq(Fills) /\ Len(st) = Len(s) + Len(t)
      /\ \A i \in 1..(Len(s) + Len(t)) : st[i] = IF i <= Len(s) THEN s[i] ELSE t[i - Len(s)]
      /\ Len(s) \in Nat /\ Len(t) \in Nat
    BY ConcatProperties, LenProperties
<1> HIDE DEF st
<1>2. \A u \in Seq(Fills) : /\ b(u) \in Seq(Int) /\ e(u) \in Seq(Int) /\ DOMAIN u = 1..Len(u)
                            /\ Len(u) \in Nat
    BY AmountsTyped, LenProperties
<1>3. ASSUME NEW u \in Seq(Fills) PROVE Len(b(u)) = Len(u) /\ Len(e(u)) = Len(u)
  <2>1. b(u) \in Seq(Int) /\ e(u) \in Seq(Int) /\ Len(u) \in Nat
      BY <1>2
  <2>2. DOMAIN b(u) = 1..Len(u) /\ DOMAIN e(u) = 1..Len(u)
      BY <1>2
  <2> HIDE DEF b, e
  <2> QED BY <2>1, <2>2, LenProperties
<1>4. /\ \A i \in 1..Len(s) : st[i] = s[i]
      /\ \A i \in 1..Len(t) : st[Len(s) + i] = t[i]
  <2>1. ASSUME NEW i \in 1..Len(t) PROVE st[Len(s) + i] = t[i]
    <3>1. Len(s) + i \in 1..(Len(s) + Len(t)) /\ ~(Len(s) + i <= Len(s)) /\ (Len(s) + i) - Len(s) = i
        BY <1>1
    <3> QED BY <1>1, <3>1
  <2> QED BY <1>1, <2>1
<1>5. /\ \A i \in 1..Len(s) : b(st)[i] = b(s)[i] /\ e(st)[i] = e(s)[i]
      /\ \A i \in 1..Len(t) : b(st)[Len(s) + i] = b(t)[i] /\ e(st)[Len(s) + i] = e(t)[i]
  <2>1. DOMAIN s = 1..Len(s) /\ DOMAIN t = 1..Len(t) /\ DOMAIN st = 1..(Len(s) + Len(t))
      BY <1>1, <1>2
  <2>2. ASSUME NEW i \in 1..Len(s) PROVE b(st)[i] = b(s)[i] /\ e(st)[i] = e(s)[i]
    <3>1. i \in DOMAIN st /\ i \in DOMAIN s /\ st[i] = s[i]
        BY <1>1, <1>4, <2>1
    <3> QED BY <3>1
  <2>3. ASSUME NEW i \in 1..Len(t) PROVE b(st)[Len(s) + i] = b(t)[i] /\ e(st)[Len(s) + i] = e(t)[i]
    <3>1. Len(s) + i \in DOMAIN st /\ i \in DOMAIN t /\ st[Len(s) + i] = t[i]
        BY <1>1, <1>4, <2>1
    <3> QED BY <3>1
  <2> QED BY <2>2, <2>3
<1>6. /\ Bought(s) = Total(b(s)) /\ Bought(t) = Total(b(t)) /\ Bought(st) = Total(b(st))
      /\ Earned(s) = Total(e(s)) /\ Earned(t) = Total(e(t)) /\ Earned(st) = Total(e(st))
    BY DEF Bought, Earned
<1>7. /\ b(s) \in Seq(Int) /\ b(t) \in Seq(Int) /\ b(st) \in Seq(Int)
      /\ e(s) \in Seq(Int) /\ e(t) \in Seq(Int) /\ e(st) \in Seq(Int)
      /\ Len(b(s)) = Len(s) /\ Len(b(t)) = Len(t) /\ Len(b(st)) = Len(st)
      /\ Len(e(s)) = Len(s) /\ Len(e(t)) = Len(t) /\ Len(e(st)) = Len(st)
    BY <1>1, <1>2, <1>3
<1> HIDE DEF b, e
<1>8. b(st) = b(s) \o b(t)
  <2>1. /\ Len(b(st)) = Len(b(s)) + Len(b(t))
        /\ \A i \in 1..Len(b(s)) : b(st)[i] = b(s)[i]
        /\ \A i \in 1..Len(b(t)) : b(st)[Len(b(s)) + i] = b(t)[i]
      BY <1>1, <1>5, <1>7
  <2>2. b(s) \in Seq(Int) /\ b(t) \in Seq(Int) /\ b(st) \in Seq(Int)
      BY <1>7
  <2> QED BY ONLY <2>1, <2>2, IsConcat
<1>9. e(st) = e(s) \o e(t)
  <2>1. /\ Len(e(st)) = Len(e(s)) + Len(e(t))
        /\ \A i \in 1..Len(e(s)) : e(st)[i] = e(s)[i]
        /\ \A i \in 1..Len(e(t)) : e(st)[Len(e(s)) + i] = e(t)[i]
      BY <1>1, <1>5, <1>7
  <2>2. e(s) \in Seq(Int) /\ e(t) \in Seq(Int) /\ e(st) \in Seq(Int)
      BY <1>7
  <2> QED BY ONLY <2>1, <2>2, IsConcat
<1> QED BY <1>6, <1>7, <1>8, <1>9, TotalConcat DEF st

\* A first fill and the others.
LEMMA FillsHead ==
    ASSUME NEW s \in Seq(Fills), s # <<>>
    PROVE  /\ Head(s) \in Fills /\ Tail(s) \in Seq(Fills)
           /\ Bought(s) = Booked(Flat, Head(s)).inventory + Bought(Tail(s))
           /\ Earned(s) = Booked(Flat, Head(s)).cash + Earned(Tail(s))
           /\ Bought(Tail(s)) \in Int /\ Earned(Tail(s)) \in Int
<1>1. Head(s) \in Fills /\ Tail(s) \in Seq(Fills)
    BY HeadTailProperties
<1> DEFINE h == Head(s)
           one == <<h>>
<1>2. s = one \o Tail(s) /\ one \in Seq(Fills)
    BY <1>1
<1>3. Bought(one) = Booked(Flat, h).inventory /\ Earned(one) = Booked(Flat, h).cash
  <2>1. Booked(Flat, h).inventory \in Int /\ Booked(Flat, h).cash \in Int
    <3>1. Flat \in Money /\ Flat.inventory \in Int /\ Flat.cash \in Int
        BY DEF Flat, Money
    <3> QED BY <1>1, <3>1, BookedAdds
  <2>2. [i \in DOMAIN one |-> Booked(Flat, one[i]).inventory] = <<Booked(Flat, h).inventory>>
    <3> HIDE DEF h
    <3> QED OBVIOUS
  <2>3. [i \in DOMAIN one |-> Booked(Flat, one[i]).cash] = <<Booked(Flat, h).cash>>
    <3> HIDE DEF h
    <3> QED OBVIOUS
  <2> HIDE DEF one, h
  <2> QED BY <2>1, <2>2, <2>3, TotalOne DEF Bought, Earned
<1> HIDE DEF one, h
<1>4. /\ Bought(one \o Tail(s)) = Bought(one) + Bought(Tail(s))
      /\ Earned(one \o Tail(s)) = Earned(one) + Earned(Tail(s))
      /\ Bought(Tail(s)) \in Int /\ Earned(Tail(s)) \in Int
    BY <1>1, <1>2, FillsConcat
<1> QED BY <1>1, <1>2, <1>3, <1>4 DEF h

-----------------------------------------------------------------------------
(***************************************************************************)
(* Messages.                                                               *)
(***************************************************************************)
\* Every order a client sends is one of the venue's messages.
LEMMA NewOrderTyped ==
    ASSUME NEW cid \in 1..(2 * MaxTicks) \cup 1..MaxFires, NEW side \in Sides, NEW price,
           NEW qty \in Quantities
    PROVE  NewOrder(cid, side, price, qty) \in Messages
<1>1. CASE price \in Prices
    BY <1>1, SessionAssumption
<1>2. CASE price \notin Prices
  <2>1. NoPrice \notin Prices
      BY PricesAssumption DEF NoPrice
  <2>2. NewOrder(cid, side, price, qty) = NewOrder(cid, side, NoPrice, qty)
    <3> DEFINE has(p) == p \in Prices
               ticksOf(p) == IF has(p) THEN p ELSE 0
    <3>1. has(price) = has(NoPrice) /\ ticksOf(price) = ticksOf(NoPrice)
        BY <1>2, <2>1
    <3> HIDE DEF has, ticksOf
    <3>2. \A p : NewOrder(cid, side, p, qty) =
                   [type |-> "NewOrder", hasClientOrderId |-> TRUE, clientOrderId |-> cid,
                    symbolKnown |-> TRUE, hasSide |-> TRUE, side |-> side,
                    hasPrice |-> has(p), priceTicks |-> ticksOf(p), hasQty |-> TRUE, qty |-> qty]
        BY Zenon DEF NewOrder, has, ticksOf
    <3> QED BY <3>1, <3>2, Zenon
  <2> QED BY <2>2, SessionAssumption
<1> QED BY <1>1, <1>2

\* The ids of the session are client order ids.
LEMMA SessionCids ==
    ASSUME NEW c \in 1..(2 * MaxTicks)
    PROVE  c \in Cids
<1>1. Cancel(c) \in Messages
    BY SessionAssumption
<1>2. Cancel(c).hasClientOrderId /\ Cancel(c).clientOrderId = c
    BY DEF Cancel
<1> QED BY <1>1, <1>2, MessagesAssumption

\* The next message in the queue of a connection.
LEMMA NextMessage ==
    ASSUME MailTyped, NEW conn \in Conns, toVenue[conn] # <<>>
    PROVE  /\ Head(toVenue[conn]) \in Messages
           /\ [toVenue EXCEPT ![conn] = Tail(@)] \in [Conns -> Seq(Messages)]
<1>1. toVenue[conn] \in Seq(Messages)
    BY DEF MailTyped
<1>2. Head(toVenue[conn]) \in Messages /\ Tail(toVenue[conn]) \in Seq(Messages)
    BY <1>1, HeadTailProperties
<1> QED BY <1>2 DEF MailTyped

\* What the venue does in the whole loop is what it does alone.
LEMMA VenueStep ==
    ASSUME MailTyped, TradingNext
    PROVE  [Next]_vars
<1>1. CASE UNCHANGED vars
    BY <1>1
<1>2. ASSUME NEW conn \in Conns, VenueHandles(conn) PROVE Next
    BY <1>2, NextMessage DEF VenueHandles, Next
<1>3. ASSUME NEW conn \in Conns, VenueDrops(conn) PROVE Next
    BY <1>3 DEF VenueDrops, Next
<1>4. CASE VenueMatches
    BY <1>4 DEF VenueMatches, Next
<1>5. CASE Tick \/ ContinueTick \/ PlaceAsk \/ MakerReceives \/ MakerCloses
    BY <1>1, <1>5 DEF Tick, ContinueTick, PlaceAsk, MakerReceives, MakerCloses
<1>6. CASE Fire \/ NoiseReceives \/ NoiseCloses \/ PublishTop
    BY <1>1, <1>6 DEF Fire, NoiseReceives, NoiseCloses, PublishTop
<1> QED BY <1>2, <1>3, <1>4, <1>5, <1>6 DEF TradingNext

-----------------------------------------------------------------------------
(***************************************************************************)
(* What the venue delivers to the market maker.                            *)
(***************************************************************************)
LEMMA FlattenNone == FlattenSeq(<<>>) = <<>>
BY DEF FlattenSeq

LEMMA FlattenTwo ==
    ASSUME NEW a, NEW b, NEW g, g = [i \in 1..2 |-> IF i = 1 THEN a ELSE b]
    PROVE  FlattenSeq(g) = a \o b
<1> DEFINE IsFlat(f) == f = [i \in 1..2 |-> IF i = 1 THEN g[i] ELSE f[i - 1] \o g[i]]
           flat == CHOOSE f : IsFlat(f)
           h == [i \in 1..2 |-> IF i = 1 THEN a ELSE a \o b]
<1>1. Len(g) = 2 /\ g[1] = a /\ g[2] = b
    OBVIOUS
<1>2. IsFlat(h)
  <2>1. ASSUME NEW i \in 1..2
        PROVE  h[i] = IF i = 1 THEN g[i] ELSE h[i - 1] \o g[i]
    <3>1. CASE i = 1
        BY <1>1, <3>1
    <3>2. CASE i = 2
      <4>1. h[2] = a \o b /\ h[1] = a /\ 2 - 1 = 1
          OBVIOUS
      <4> HIDE DEF h
      <4> QED BY <1>1, <3>2, <4>1
    <3> QED BY <3>1, <3>2
  <2>2. h = [i \in 1..2 |-> h[i]]
      OBVIOUS
  <2> HIDE DEF h
  <2> QED BY <2>1, <2>2
<1>3. IsFlat(flat)
  <2> HIDE DEF IsFlat
  <2> QED BY <1>2
<1>4. FlattenSeq(g) = flat[2]
  <2> HIDE DEF h
  <2> QED BY <1>1 DEF FlattenSeq
<1>5. flat[1] = g[1]
  <2> HIDE DEF flat
  <2> QED BY <1>3
<1>6. flat[2] = flat[1] \o g[2]
  <2> HIDE DEF flat
  <2>1. flat = [i \in 1..2 |-> IF i = 1 THEN g[i] ELSE flat[i - 1] \o g[i]]
      BY <1>3
  <2>2. 2 \in 1..2 /\ 2 # 1 /\ 2 - 1 = 1
      OBVIOUS
  <2>3. flat[2] = IF 2 = 1 THEN g[2] ELSE flat[2 - 1] \o g[2]
      BY <2>1, <2>2
  <2> QED BY <2>2, <2>3
<1> HIDE DEF flat
<1> QED BY <1>1, <1>4, <1>5, <1>6

\* A fill of a live order of the market maker.
LiveFill(f) ==
    /\ f \in Fills
    /\ \E k \in DOMAIN byEngineId :
          /\ byEngineId[k].owner = MM
          /\ f.clientOrderId = byEngineId[k].clientOrderId /\ f.side = byEngineId[k].side

AllLive(s) == s \in Seq(Fills) /\ \A i \in DOMAIN s : LiveFill(s[i])

LEMMA AllLiveConcat ==
    ASSUME NEW s, NEW t, AllLive(s), AllLive(t)
    PROVE  AllLive(s \o t)
<1>1. /\ s \in Seq(Fills) /\ t \in Seq(Fills) /\ Len(s) \in Nat /\ Len(t) \in Nat
      /\ DOMAIN s = 1..Len(s) /\ DOMAIN t = 1..Len(t)
    BY LenProperties DEF AllLive
<1> DEFINE st == s \o t
<1>2. /\ st \in Seq(Fills) /\ DOMAIN st = 1..(Len(s) + Len(t))
      /\ \A i \in 1..(Len(s) + Len(t)) : st[i] = IF i <= Len(s) THEN s[i] ELSE t[i - Len(s)]
    BY <1>1, ConcatProperties, LenProperties
<1> HIDE DEF st
<1>3. ASSUME NEW i \in DOMAIN st PROVE LiveFill(st[i])
  <2>1. CASE i <= Len(s)
    <3>1. i \in DOMAIN s /\ st[i] = s[i]
        BY <1>1, <1>2, <2>1
    <3> QED BY <3>1 DEF AllLive
  <2>2. CASE ~(i <= Len(s))
    <3>1. i - Len(s) \in DOMAIN t /\ st[i] = t[i - Len(s)]
        BY <1>1, <1>2, <2>2
    <3> QED BY <3>1 DEF AllLive
  <2> QED BY <2>1, <2>2
<1>4. AllLive(st)
    BY <1>2, <1>3 DEF AllLive
<1> QED BY <1>4 DEF st

\* What the market maker's connection gets of one FILL message.
LEMMA ToMakerLive ==
    ASSUME NEW m, NEW k \in DOMAIN byEngineId, m.exchangeId = k, byEngineId[k] \in LiveOrder,
           NEW side, NEW q \in Nat, NEW p \in Nat, FairTo(m, byEngineId[k], side, q, p),
           byEngineId[k].owner = MM => byEngineId[k].clientOrderId \in Nat
    PROVE  AllLive(ToMaker(m))
<1> DEFINE f == [clientOrderId |-> m.clientOrderId, side |-> byEngineId[m.exchangeId].side,
                 fillQty |-> m.fillQty, fillPrice |-> m.fillPrice]
<1>1. CASE ~(m.type = "FILL" /\ m.to = MM)
  <2>1. ToMaker(m) = <<>>
      BY <1>1 DEF ToMaker
  <2>2. AllLive(<<>>)
      BY DEF AllLive
  <2> QED BY <2>1, <2>2
<1>2. CASE m.type = "FILL" /\ m.to = MM
  <2>1. /\ byEngineId[k].owner = MM /\ m.clientOrderId = byEngineId[k].clientOrderId
        /\ m.fillQty = q /\ m.fillPrice = p /\ byEngineId[k].side \in Sides
      BY <1>2 DEF FairTo, LiveOrder
  <2>2. f.clientOrderId = byEngineId[k].clientOrderId /\ f.side = byEngineId[k].side
      BY <2>1
  <2>3. f \in Fills
      BY <2>1 DEF Fills
  <2>4. LiveFill(f)
      BY <2>1, <2>2, <2>3 DEF LiveFill
  <2>5. ToMaker(m) = <<f>>
      BY <1>2 DEF ToMaker
  <2> HIDE DEF f
  <2>6. <<f>> \in Seq(Fills) /\ \A i \in DOMAIN <<f>> : <<f>>[i] = f
      BY <2>3
  <2>7. AllLive(<<f>>)
      BY <2>4, <2>6 DEF AllLive
  <2> QED BY <2>5, <2>7
<1> QED BY <1>1, <1>2

\* The fills a step of the match loop delivers are of live orders.
LEMMA DeliverLive ==
    ASSUME IInv, LoopOK, NEW h \in Nat, LiveOK(h), VenueMatches
    PROVE  \E fills : /\ AllLive(fills)
                      /\ toClient' = [toClient EXCEPT ![MM] = @ \o fills]
                      /\ booked' = BookedAll(booked, fills)
<1> DEFINE g == [i \in DOMAIN sent' |-> ToMaker(sent'[i])]
           fills == FlattenSeq(g)
<1>1. toClient' = [toClient EXCEPT ![MM] = @ \o fills] /\ booked' = BookedAll(booked, fills)
    BY DEF VenueMatches, Deliver
<1>2. CASE SettleOrder
  <2>1. sent' = <<>>
      BY <1>2 DEF SettleOrder
  <2>2. g = <<>>
      BY <2>1
  <2>3. AllLive(<<>>)
      BY DEF AllLive
  <2>4. fills = <<>>
      BY <2>2, FlattenNone
  <2> QED BY <1>1, <2>3, <2>4
<1>3. ASSUME NEW r \in DOMAIN orders, FillAndRoute(r) PROVE AllLive(fills)
  <2>1. PICK i, j \in {taker, r} : Reported(i, j)
      BY <1>3, RoundIsFair
  <2>2. PICK m1, m2 : /\ sent' = Append(Append(<<>>, m1), m2)
                      /\ m1.exchangeId = i /\ m2.exchangeId = j
                      /\ FairTo(m1, byEngineId[i], "Buy", trade'.quantity, trade'.price)
                      /\ FairTo(m2, byEngineId[j], "Sell", trade'.quantity, trade'.price)
      BY <2>1 DEF Reported
  <2>3. i \in DOMAIN byEngineId /\ j \in DOMAIN byEngineId
      BY <1>3, FillTables
  <2>4. trade'.quantity \in Nat /\ trade'.price \in Nat
    <3>1. Fill(r) /\ BookTypeOK
        BY <1>3 DEF FillAndRoute, IInv, TypeOK
    <3>2. trade'.quantity \in Nat /\ trade'.price = orders[r].price
        BY <3>1, FillFacts
    <3>3. orders[r].price \in Nat
        BY <3>1, PricesAssumption DEF BookTypeOK, Order
    <3> QED BY <3>2, <3>3
  <2>5. /\ \A k \in DOMAIN byEngineId : byEngineId[k] \in LiveOrder
        /\ \A k \in DOMAIN byEngineId : byEngineId[k].owner = MM => byEngineId[k].clientOrderId \in Nat
    <3>1. placed \in Nat
        BY LengthAssumption DEF LoopOK
    <3> QED BY <3>1 DEF IInv, TypeOK, LiveOK
  <2>6. AllLive(ToMaker(m1)) /\ AllLive(ToMaker(m2))
      BY <2>2, <2>3, <2>4, <2>5, ToMakerLive
  <2>7. DOMAIN sent' = 1..2 /\ sent'[1] = m1 /\ sent'[2] = m2
    <3>1. DOMAIN sent' = {1, 2} /\ sent'[1] = m1 /\ sent'[2] = m2
        BY <2>2, TwoMessages
    <3> QED BY <3>1
  <2>8. g = [x \in 1..2 |-> IF x = 1 THEN ToMaker(m1) ELSE ToMaker(m2)]
    <3>1. \A x \in 1..2 : x = 1 \/ x = 2
        OBVIOUS
    <3> QED BY <2>7, <3>1
  <2> HIDE DEF g
  <2>9. fills = ToMaker(m1) \o ToMaker(m2)
      BY <2>8, FlattenTwo
  <2> QED BY <2>6, <2>9, AllLiveConcat
<1> QED BY <1>1, <1>2, <1>3 DEF VenueMatches

\* An id whose NewOrder has its place after that of the even number e is greater.
LEMMA Later ==
    ASSUME NEW c \in Nat \ {0}, NEW k \in Int, Place(c) >= 4 * k - 1
    PROVE  c > 2 * k
<1>1. PICK j \in Nat : c = 2 * j + (c % 2)
    BY Halves
<1> DEFINE x == c % 2
<1>2. x \in {0, 1} /\ c = 2 * j + x
    BY <1>1, PlaceBounds
<1>3. Place(c) = 2 * c - 2 + x
    BY DEF Place
<1> HIDE DEF x
<1> QED BY <1>2, <1>3

\* The number of ids given out is even between two awaits of the loop.
LEMMA PlacedEven ==
    ASSUME LoopOK, pc # "closed"
    PROVE  \E n \in Nat : placed = 2 * n
<1>1. ticks \in Nat
    BY LengthAssumption DEF LoopOK
<1>2. placed = 2 * (ticks + 1) \/ placed = 2 * ticks
    BY <1>1 DEF LoopOK
<1>3. ticks + 1 \in Nat
    BY <1>1
<1> QED BY <1>1, <1>2, <1>3

\* A live order is as recent as the loop needs while its ticks are not late.
LEMMA LiveIsRecent ==
    ASSUME LoopOK, NEW h \in Nat, LiveOK(h), GraceOK(h), ~late,
           NEW i \in DOMAIN byEngineId, byEngineId[i].owner = MM
    PROVE  /\ pc \in {"sleep", "ask"} => byEngineId[i].clientOrderId > placed - 4
           /\ pc = "cancel" => byEngineId[i].clientOrderId > placed - 2
<1> DEFINE c == byEngineId[i].clientOrderId
<1>1. c \in Nat \ {0} /\ h \in {Place(c), Place(c) + 1} /\ placed \in Nat
    BY LengthAssumption DEF LiveOK, LoopOK
<1>2. Place(c) \in Nat /\ Place(c) >= h - 1
    BY <1>1, PlaceBounds
<1> HIDE DEF c
<1>3. ASSUME pc \in {"sleep", "ask"} PROVE c > placed - 4
  <2>1. PICK n \in Nat : placed = 2 * n
      BY <1>3, PlacedEven
  <2>2. h >= 2 * placed - 8
      BY <1>3 DEF GraceOK
  <2>3. Place(c) >= 4 * (n - 2) - 1 /\ n - 2 \in Int
      BY <1>2, <2>1, <2>2
  <2>4. c > 2 * (n - 2)
      BY <1>1, <2>3, Later
  <2> QED BY <1>1, <2>1, <2>4
<1>4. ASSUME pc = "cancel" PROVE c > placed - 2
  <2>1. PICK n \in Nat : placed = 2 * n
      BY <1>4, PlacedEven
  <2>2. h >= 2 * placed - 4
      BY <1>4 DEF GraceOK
  <2>3. Place(c) >= 4 * (n - 1) - 1 /\ n - 1 \in Int
      BY <1>2, <2>1, <2>2
  <2>4. c > 2 * (n - 1)
      BY <1>1, <2>3, Later
  <2> QED BY <1>1, <2>1, <2>4
<1> QED BY <1>3, <1>4 DEF c

\* A position after fills, by what they add.
LEMMA BookedAllIs ==
    ASSUME NEW p, NEW fills
    PROVE  BookedAll(p, fills) = [inventory |-> p.inventory + Bought(fills), cash |-> p.cash + Earned(fills)]
BY DEF BookedAll, Bought, Earned

\* The market maker's books, by what the fills on their way add.
LEMMA AccountIs ==
    AccountOK <=>
        /\ position \in Money /\ booked \in Money
        /\ missed \in [inventory : Int, cash : Int, ids : SUBSET Nat]
        /\ booked.inventory = position.inventory + Bought(toClient[MM]) + missed.inventory
        /\ booked.cash = position.cash + Earned(toClient[MM]) + missed.cash
<1>1. /\ BookedAll(position, toClient[MM]).inventory = position.inventory + Bought(toClient[MM])
      /\ BookedAll(position, toClient[MM]).cash = position.cash + Earned(toClient[MM])
    BY BookedAllIs
<1> QED BY <1>1 DEF AccountOK

\* The fills of a step of the match loop are booked and on their way.
LEMMA DeliveryBooked ==
    ASSUME LoopOK, MailTyped, FillsOK, AccountOK, NEW h \in Nat, LiveOK(h), GraceOK(h),
           NEW fills, AllLive(fills),
           toClient' = [toClient EXCEPT ![MM] = @ \o fills], booked' = BookedAll(booked, fills),
           UNCHANGED <<makerVars, late, missed>>
    PROVE  FillsOK' /\ AccountOK' /\ GraceOK(h)'
<1> DEFINE s == toClient[MM]
<1>1. s \in Seq(Fills) /\ fills \in Seq(Fills) /\ toClient'[MM] = s \o fills
    BY ClientsAssumption DEF FillsOK, AllLive, MailTyped, Conns
<1>2. /\ DOMAIN s = 1..Len(s) /\ Len(s) \in Nat /\ DOMAIN fills = 1..Len(fills) /\ Len(fills) \in Nat
      /\ s \o fills \in Seq(Fills) /\ DOMAIN (s \o fills) = 1..(Len(s) + Len(fills))
      /\ \A i \in 1..(Len(s) + Len(fills)) :
            (s \o fills)[i] = IF i <= Len(s) THEN s[i] ELSE fills[i - Len(s)]
    BY <1>1, ConcatProperties, LenProperties
<1>3. ASSUME NEW i \in DOMAIN toClient'[MM]
      PROVE  \/ i \in DOMAIN s /\ toClient'[MM][i] = s[i]
             \/ LiveFill(toClient'[MM][i])
  <2>1. CASE i <= Len(s)
      BY <1>1, <1>2, <1>3, <2>1
  <2>2. CASE ~(i <= Len(s))
    <3>1. i - Len(s) \in DOMAIN fills /\ toClient'[MM][i] = fills[i - Len(s)]
        BY <1>1, <1>2, <1>3, <2>2
    <3> QED BY <3>1 DEF AllLive
  <2> QED BY <2>1, <2>2
<1>4. UNCHANGED <<pc, position, placed, late, missed>>
    BY DEF makerVars
<1>5. FillsOK'
  <2>1. ASSUME NEW i \in DOMAIN toClient'[MM]
        PROVE  /\ toClient'[MM][i].clientOrderId \in 1..placed
               /\ toClient'[MM][i].side = SideOf(toClient'[MM][i].clientOrderId)
    <3>1. CASE LiveFill(toClient'[MM][i])
        BY <3>1 DEF LiveFill, LiveOK
    <3>2. CASE i \in DOMAIN s /\ toClient'[MM][i] = s[i]
        BY <3>2 DEF FillsOK
    <3> QED BY <1>3, <3>1, <3>2
  <2> QED BY <1>1, <1>2, <1>4, <2>1 DEF FillsOK
<1>6. AccountOK'
  <2>1. /\ Bought(s) \in Int /\ Bought(fills) \in Int /\ Bought(s \o fills) = Bought(s) + Bought(fills)
        /\ Earned(s) \in Int /\ Earned(fills) \in Int /\ Earned(s \o fills) = Earned(s) + Earned(fills)
      BY <1>1, FillsConcat
  <2>2. booked' = [inventory |-> booked.inventory + Bought(fills), cash |-> booked.cash + Earned(fills)]
      BY BookedAllIs
  <2>3. /\ position \in Money /\ booked \in Money
        /\ missed \in [inventory : Int, cash : Int, ids : SUBSET Nat]
        /\ booked.inventory = position.inventory + Bought(s) + missed.inventory
        /\ booked.cash = position.cash + Earned(s) + missed.cash
      BY AccountIs
  <2>4. /\ booked.inventory \in Int /\ booked.cash \in Int /\ position.inventory \in Int
        /\ position.cash \in Int /\ missed.inventory \in Int /\ missed.cash \in Int
      BY <2>3 DEF Money
  <2> DEFINE x == Bought(fills)
             y == Earned(fills)
  <2>8. booked.inventory + x \in Int /\ booked.cash + y \in Int
    <3>1. x \in Int /\ y \in Int
        BY <2>1
    <3> HIDE DEF x, y
    <3> QED BY ONLY <2>4, <3>1
  <2>9. booked'.inventory = booked.inventory + x /\ booked'.cash = booked.cash + y
      BY <2>2
  <2>5. booked' \in Money
    <3> HIDE DEF x, y
    <3>1. booked' = [inventory |-> booked.inventory + x, cash |-> booked.cash + y]
        BY <2>2 DEF x, y
    <3> QED BY ONLY <2>8, <3>1 DEF Money
  <2>6. /\ booked'.inventory = position.inventory + Bought(s \o fills) + missed.inventory
        /\ booked'.cash = position.cash + Earned(s \o fills) + missed.cash
    <3> DEFINE a == Bought(s)
               b == Earned(s)
               c == Bought(s \o fills)
               d == Earned(s \o fills)
    <3>1. a \in Int /\ b \in Int /\ x \in Int /\ y \in Int /\ c = a + x /\ d = b + y
        BY <2>1
    <3>2. booked.inventory = position.inventory + a + missed.inventory
        BY <2>3
    <3>3. booked.cash = position.cash + b + missed.cash
        BY <2>3
    <3> HIDE DEF a, b, c, d, x, y
    <3>4. booked'.inventory = position.inventory + c + missed.inventory
        BY ONLY <2>4, <2>9, <3>1, <3>2
    <3>5. booked'.cash = position.cash + d + missed.cash
        BY ONLY <2>4, <2>9, <3>1, <3>3
    <3> QED BY <3>4, <3>5 DEF c, d
  <2>7. /\ position' \in Money /\ missed' \in [inventory : Int, cash : Int, ids : SUBSET Nat]
        /\ booked'.inventory = position'.inventory + Bought(toClient'[MM]) + missed'.inventory
        /\ booked'.cash = position'.cash + Earned(toClient'[MM]) + missed'.cash
      BY <1>1, <1>4, <2>3, <2>6
  <2>10. /\ BookedAll(position', toClient'[MM]).inventory = position'.inventory + Bought(toClient'[MM])
         /\ BookedAll(position', toClient'[MM]).cash = position'.cash + Earned(toClient'[MM])
      BY BookedAllIs
  <2> HIDE DEF x, y
  <2> QED BY <2>5, <2>7, <2>10 DEF AccountOK
<1>7. GraceOK(h)'
  <2> SUFFICES ASSUME ~late PROVE GraceOK(h)'
      BY <1>4 DEF GraceOK
  <2>1. ASSUME NEW i \in DOMAIN toClient'[MM]
        PROVE  /\ pc \in {"sleep", "ask"} => toClient'[MM][i].clientOrderId > placed - 4
               /\ pc = "cancel" => toClient'[MM][i].clientOrderId > placed - 2
    <3>1. CASE LiveFill(toClient'[MM][i])
        BY <3>1, LiveIsRecent DEF LiveFill
    <3>2. CASE i \in DOMAIN s /\ toClient'[MM][i] = s[i]
        BY <3>2 DEF GraceOK
    <3> QED BY <1>3, <3>1, <3>2
  <2> QED BY <1>4, <2>1 DEF GraceOK
<1> QED BY <1>5, <1>6, <1>7

-----------------------------------------------------------------------------
(***************************************************************************)
(* Steps of the clients.                                                   *)
(***************************************************************************)
\* Steps that leave the market maker's state and its queues alone.
LEMMA MakerUntouched ==
    ASSUME TradingInv, MailTyped', UNCHANGED <<vars, makerVars, ghostVars>>,
           toVenue'[MM] = toVenue[MM], toClient'[MM] = toClient[MM]
    PROVE  TradingInv'
<1>1. IInv'
  <2>1. UNCHANGED vars
      OBVIOUS
  <2> QED BY <2>1, NextInv DEF TradingInv
<1>2. /\ UNCHANGED <<orders, taker, byEngineId>>
      /\ UNCHANGED <<pc, position, todo, resting, orderSide, placed, ticks, booked, late, missed>>
    BY DEF vars, bookVars, tableVars, makerVars, ghostVars
<1>3. LoopOK' /\ SidesOK' /\ TakerAlone' /\ FillsOK' /\ AccountOK'
  <2>1. LoopOK /\ SidesOK /\ TakerAlone /\ FillsOK /\ AccountOK
      BY DEF TradingInv
  <2>2. LoopOK' /\ SidesOK'
      BY <1>2, <2>1 DEF LoopOK, SidesOK
  <2>3. TakerAlone'
      BY <1>2, <2>1 DEF TakerAlone
  <2>4. FillsOK'
      BY <1>2, <2>1 DEF FillsOK
  <2>5. AccountOK'
      BY <1>2, <2>1 DEF AccountOK
  <2> QED BY <2>2, <2>3, <2>4, <2>5
<1>4. PICK h \in Nat : MailOK(h) /\ GraceOK(h)
    BY DEF TradingInv
<1>5. InOrder(h)' /\ LiveOK(h)' /\ GraceOK(h)'
  <2>1. InOrder(h)'
      BY <1>2, <1>4 DEF MailOK, InOrder, WellSent
  <2>2. LiveOK(h)'
      BY <1>2, <1>4 DEF MailOK, LiveOK
  <2>3. GraceOK(h)'
      BY <1>2, <1>4 DEF GraceOK
  <2> QED BY <2>1, <2>2, <2>3
<1>6. MailOK(h)'
  <2>1. SentByMaker' = SentByMaker
      BY <1>2 DEF SentByMaker
  <2> QED BY <1>2, <1>4, <1>5, <2>1 DEF MailOK
<1> QED BY <1>1, <1>3, <1>5, <1>6 DEF TradingInv

\* Steps of the noise trader, the publication of the top, and stuttering.
LEMMA NoiseKeeps ==
    ASSUME TradingInv, Fire \/ NoiseReceives \/ NoiseCloses \/ PublishTop \/ UNCHANGED tradingVars
    PROVE  TradingInv'
<1>1. MailTyped /\ NT \in Conns /\ MM \in Conns /\ MM # NT
    BY ClientsAssumption DEF TradingInv, Conns
<1>2. CASE Fire
  <2>1. PICK side \in Sides, qty \in NoiseQuantities :
            Send(NT, NewOrder(fires + 1, side, IF side = "Buy" THEN top.ask ELSE top.bid, qty))
      BY <1>2 DEF Fire
  <2> DEFINE m == NewOrder(fires + 1, side, IF side = "Buy" THEN top.ask ELSE top.bid, qty)
  <2>2. fires \in 0..MaxFires /\ fires < MaxFires /\ fires' = fires + 1 /\ MaxFires \in Nat
      BY <1>1, <1>2, LengthAssumption DEF Fire, MailTyped
  <2>3. m \in Messages
    <3>1. fires + 1 \in 1..MaxFires /\ qty \in Quantities
        BY <2>2, QuotingAssumption
    <3> QED BY <3>1, NewOrderTyped
  <2>4. toVenue' = [toVenue EXCEPT ![NT] = Append(@, m)]
      BY <2>1 DEF Send
  <2> HIDE DEF m
  <2>5. DOMAIN toClient' = Conns /\ toClient'[MM] = toClient[MM]
      BY <1>1, <1>2 DEF Fire, MailTyped
  <2>6. toVenue' \in [Conns -> Seq(Messages)] /\ toVenue'[MM] = toVenue[MM]
    <3>1. toVenue \in [Conns -> Seq(Messages)]
        BY <1>1 DEF MailTyped
    <3>2. Append(toVenue[NT], m) \in Seq(Messages)
        BY <1>1, <2>3, <3>1, AppendProperties
    <3> QED BY <1>1, <2>4, <3>1, <3>2
  <2>7. MailTyped'
      BY <2>2, <2>5, <2>6 DEF MailTyped
  <2>8. UNCHANGED <<vars, makerVars, ghostVars>>
      BY <1>2 DEF Fire
  <2> QED BY <2>5, <2>6, <2>7, <2>8, MakerUntouched
<1>3. CASE NoiseReceives \/ NoiseCloses \/ PublishTop \/ UNCHANGED tradingVars
  <2>1. UNCHANGED <<vars, toVenue, fires, makerVars, ghostVars>>
      BY <1>3 DEF NoiseReceives, NoiseCloses, PublishTop, noiseVars, tradingVars
  <2>2. DOMAIN toClient' = Conns /\ toClient'[MM] = toClient[MM]
      BY <1>1, <1>3 DEF NoiseReceives, NoiseCloses, PublishTop, tradingVars, MailTyped
  <2>3. MailTyped'
      BY <1>1, <2>1, <2>2 DEF MailTyped
  <2> QED BY <2>1, <2>2, <2>3, MakerUntouched
<1> QED BY <1>2, <1>3

LEMMA ClosesKeeps ==
    ASSUME TradingInv, MakerCloses
    PROVE  TradingInv'
<1>1. /\ pc' = "closed"
      /\ UNCHANGED <<orders, taker, byEngineId, toVenue, toClient, fires>>
      /\ UNCHANGED <<position, todo, resting, orderSide, placed, ticks, booked, late, missed>>
    BY DEF MakerCloses, vars, bookVars, tableVars, noiseVars, ghostVars
<1>2. IInv'
  <2>1. UNCHANGED vars
      BY DEF MakerCloses
  <2> QED BY <2>1, NextInv DEF TradingInv
<1>3. LoopOK' /\ SidesOK' /\ MailTyped' /\ TakerAlone' /\ FillsOK'
    BY <1>1 DEF TradingInv, LoopOK, SidesOK, MailTyped, TakerAlone, FillsOK
<1>4. AccountOK'
    BY <1>1 DEF TradingInv, AccountOK
<1>5. PICK h \in Nat : MailOK(h) /\ GraceOK(h)
    BY DEF TradingInv
<1>6. MailOK(h)' /\ GraceOK(h)'
    BY <1>1, <1>5 DEF MailOK, GraceOK, InOrder, LiveOK, WellSent
<1> QED BY <1>2, <1>3, <1>4, <1>6 DEF TradingInv

\* What the market maker does with a fill, by what the fill adds.
LEMMA FillApplied ==
    ASSUME NEW f \in Fills, position \in Money
    PROVE  /\ ApplyFill(position, f.side, f.fillQty, f.fillPrice) \in Money
           /\ ApplyFill(position, f.side, f.fillQty, f.fillPrice).inventory
                = position.inventory + Booked(Flat, f).inventory
           /\ ApplyFill(position, f.side, f.fillQty, f.fillPrice).cash
                = position.cash + Booked(Flat, f).cash
<1> DEFINE q == f.fillQty
           v == f.fillQty * f.fillPrice
           x == position.inventory
           y == position.cash
<1>1. q \in Int /\ v \in Int /\ x \in Int /\ y \in Int /\ f.side \in Sides
  <2>1. f.fillQty \in Nat /\ f.fillPrice \in Nat /\ f.side \in Sides
      BY DEF Fills
  <2> QED BY <2>1 DEF Money
<1>2. CASE f.side = "Buy"
  <2>1. ApplyFill(position, f.side, f.fillQty, f.fillPrice) = [inventory |-> x + q, cash |-> y - v]
      BY <1>2 DEF ApplyFill
  <2>2. Booked(Flat, f).inventory = q /\ Booked(Flat, f).cash = 0 - v
      BY <1>1, <1>2 DEF Booked, Flat
  <2> HIDE DEF q, v, x, y
  <2>3. x + q \in Int /\ y - v \in Int /\ y - v = y + (0 - v)
      BY <1>1
  <2> QED BY <2>1, <2>2, <2>3 DEF Money, x, y
<1>3. CASE f.side = "Sell"
  <2>1. ApplyFill(position, f.side, f.fillQty, f.fillPrice) = [inventory |-> x - q, cash |-> y + v]
      BY <1>3 DEF ApplyFill
  <2>2. Booked(Flat, f).inventory = 0 - q /\ Booked(Flat, f).cash = v
    <3>1. Booked(Flat, f).inventory = 0 + (-1) * q /\ Booked(Flat, f).cash = 0 - (-1) * q * f.fillPrice
        BY <1>3 DEF Booked, Flat
    <3>2. (-1) * q = 0 - q /\ (-1) * q * f.fillPrice = 0 - v
      <4>1. f.fillQty \in Nat /\ f.fillPrice \in Nat
          BY DEF Fills
      <4> QED BY <4>1
    <3> HIDE DEF q, v
    <3> QED BY <1>1, <3>1, <3>2
  <2> HIDE DEF q, v, x, y
  <2>3. x - q \in Int /\ y + v \in Int /\ x - q = x + (0 - q)
      BY <1>1
  <2> QED BY <2>1, <2>2, <2>3 DEF Money, x, y
<1> QED BY <1>1, <1>2, <1>3 DEF Sides

\* The market maker handles a fill: it enters its books, or the missed ones if its
\* order is not among the last four, which happens only after a late tick.
LEMMA ReceivesKeeps ==
    ASSUME TradingInv, MakerReceives
    PROVE  TradingInv'
<1> DEFINE s == toClient[MM]
           f == Head(s)
<1>1. /\ pc # "closed" /\ s # <<>> /\ toClient' = [toClient EXCEPT ![MM] = Tail(@)]
      /\ UNCHANGED <<vars, toVenue, pc, todo, resting, orderSide, placed, ticks, fires, booked, late>>
    BY DEF MakerReceives, noiseVars
<1>2. UNCHANGED <<orders, taker, byEngineId>>
    BY <1>1 DEF vars, bookVars, tableVars
<1>3. IInv'
  <2>1. UNCHANGED vars
      BY <1>1
  <2> QED BY <2>1, NextInv DEF TradingInv
<1>4. MailTyped' /\ toClient'[MM] = Tail(s)
    BY <1>1, ClientsAssumption DEF TradingInv, MailTyped, Conns
<1>5. LoopOK' /\ SidesOK' /\ TakerAlone'
    BY <1>1, <1>2 DEF TradingInv, LoopOK, SidesOK, TakerAlone
<1>6. s \in Seq(Fills) /\ f \in Fills /\ Tail(s) \in Seq(Fills)
    BY <1>1, FillsHead DEF TradingInv, FillsOK
<1>7. /\ \A i \in DOMAIN Tail(s) : i + 1 \in DOMAIN s /\ Tail(s)[i] = s[i + 1]
      /\ 1 \in DOMAIN s /\ f = s[1]
    BY <1>1, <1>6, HeadTailProperties, LenProperties
<1>8. FillsOK'
    BY <1>1, <1>4, <1>6, <1>7 DEF TradingInv, FillsOK
<1>9. f.clientOrderId \in 1..placed /\ f.side = SideOf(f.clientOrderId)
    BY <1>7 DEF TradingInv, FillsOK
<1>10. PICK h \in Nat : MailOK(h) /\ GraceOK(h)
    BY DEF TradingInv
<1>11. MailOK(h)'
    BY <1>1, <1>2, <1>10 DEF MailOK, InOrder, LiveOK, WellSent, SentByMaker
<1>12. placed \in Nat /\ pc \in {"sleep", "cancel", "ask", "closed"}
    BY LengthAssumption DEF TradingInv, LoopOK
<1> DEFINE x == Booked(Flat, f).inventory
           y == Booked(Flat, f).cash
<1>13. /\ Bought(s) = x + Bought(Tail(s)) /\ Earned(s) = y + Earned(Tail(s))
       /\ Bought(Tail(s)) \in Int /\ Earned(Tail(s)) \in Int /\ x \in Int /\ y \in Int
  <2>1. Flat \in Money /\ Flat.inventory \in Int /\ Flat.cash \in Int
      BY DEF Flat, Money
  <2> QED BY <1>1, <1>6, <2>1, FillsHead, BookedAdds
<1>14. /\ position \in Money /\ booked \in Money
       /\ missed \in [inventory : Int, cash : Int, ids : SUBSET Nat]
       /\ booked.inventory = position.inventory + Bought(s) + missed.inventory
       /\ booked.cash = position.cash + Earned(s) + missed.cash
    BY AccountIs DEF TradingInv
<1>15. /\ booked.inventory \in Int /\ booked.cash \in Int /\ position.inventory \in Int
       /\ position.cash \in Int /\ missed.inventory \in Int /\ missed.cash \in Int
    BY <1>14 DEF Money
<1>16. /\ BookedAll(position', toClient'[MM]).inventory = position'.inventory + Bought(Tail(s))
       /\ BookedAll(position', toClient'[MM]).cash = position'.cash + Earned(Tail(s))
    BY <1>4, BookedAllIs
<1> HIDE DEF s, x, y
<1>17. CASE f.clientOrderId \in DOMAIN orderSide
  <2>1. orderSide[f.clientOrderId] = f.side
      BY <1>9, <1>17 DEF TradingInv, SidesOK
  <2>2. position' = ApplyFill(position, f.side, f.fillQty, f.fillPrice) /\ missed' = missed
      BY <1>17, <2>1 DEF MakerReceives, s
  <2>3. position' \in Money /\ position'.inventory = position.inventory + x /\ position'.cash = position.cash + y
      BY <1>6, <1>14, <2>2, FillApplied DEF x, y
  <2>4. AccountOK'
    <3>1. booked.inventory = position'.inventory + Bought(Tail(s)) + missed.inventory
        BY <1>13, <1>14, <1>15, <2>3
    <3>2. booked.cash = position'.cash + Earned(Tail(s)) + missed.cash
        BY <1>13, <1>14, <1>15, <2>3
    <3> QED BY <1>1, <1>14, <1>16, <2>2, <2>3, <3>1, <3>2 DEF AccountOK
  <2>5. GraceOK(h)'
      BY <1>1, <1>4, <1>7, <1>10, <2>2 DEF GraceOK, s
  <2> QED BY <1>3, <1>4, <1>5, <1>8, <1>11, <2>4, <2>5 DEF TradingInv
<1>18. CASE f.clientOrderId \notin DOMAIN orderSide
  <2>1. missed' = [Booked(missed, f) EXCEPT !.ids = @ \cup {f.clientOrderId}] /\ position' = position
      BY <1>18 DEF MakerReceives, s
  <2>2. f.clientOrderId <= placed - 4
      BY <1>9, <1>12, <1>18 DEF TradingInv, SidesOK
  <2>3. late
    <3> SUFFICES ASSUME ~late PROVE FALSE
        OBVIOUS
    <3>1. pc \in {"sleep", "ask"} \/ pc = "cancel"
        BY <1>1, <1>12
    <3>2. f.clientOrderId > placed - 4
      <4>1. pc \in {"sleep", "ask"} => f.clientOrderId > placed - 4
          BY <1>7, <1>10 DEF GraceOK, s
      <4>2. pc = "cancel" => f.clientOrderId > placed - 2
          BY <1>7, <1>10 DEF GraceOK, s
      <4>3. f.clientOrderId > placed - 2 => f.clientOrderId > placed - 4
          BY <1>9, <1>12
      <4> QED BY <3>1, <4>1, <4>2, <4>3
    <3> QED BY <1>9, <1>12, <2>2, <3>2
  <2>4. Booked(missed, f) = [missed EXCEPT !.inventory = @ + x, !.cash = @ + y]
      BY <1>6, <1>14, <1>15, BookedAdds DEF x, y
  <2>5. /\ missed' \in [inventory : Int, cash : Int, ids : SUBSET Nat]
        /\ missed'.inventory = missed.inventory + x /\ missed'.cash = missed.cash + y
    <3> DEFINE c == f.clientOrderId
    <3>1. c \in Nat
        BY <1>9, <1>12
    <3>2. missed' = [[missed EXCEPT !.inventory = @ + x, !.cash = @ + y] EXCEPT !.ids = @ \cup {c}]
        BY <2>1, <2>4
    <3> HIDE DEF c
    <3>3. missed.inventory + x \in Int /\ missed.cash + y \in Int /\ missed.ids \cup {c} \subseteq Nat
        BY <1>13, <1>14, <1>15, <3>1
    <3> QED BY <1>14, <3>2, <3>3
  <2>6. AccountOK'
    <3>1. booked.inventory = position.inventory + Bought(Tail(s)) + missed'.inventory
        BY <1>13, <1>14, <1>15, <2>5
    <3>2. booked.cash = position.cash + Earned(Tail(s)) + missed'.cash
        BY <1>13, <1>14, <1>15, <2>5
    <3> QED BY <1>1, <1>14, <1>16, <2>1, <2>5, <3>1, <3>2 DEF AccountOK
  <2>7. GraceOK(h)'
      BY <1>1, <2>3 DEF GraceOK
  <2> QED BY <1>3, <1>4, <1>5, <1>8, <1>11, <2>6, <2>7 DEF TradingInv
<1> QED BY <1>17, <1>18

\* What a step of the loop leaves alone.
LEMMA LoopFrame ==
    ASSUME TradingInv, UNCHANGED <<vars, toClient, position, booked, missed>>,
           placed' \in Nat, placed' >= placed
    PROVE  IInv' /\ TakerAlone' /\ FillsOK' /\ AccountOK'
<1>1. UNCHANGED <<orders, taker, byEngineId>>
    BY DEF vars, bookVars, tableVars
<1>2. IInv'
  <2>1. UNCHANGED vars
      OBVIOUS
  <2> QED BY <2>1, NextInv DEF TradingInv
<1>3. TakerAlone'
    BY <1>1 DEF TradingInv, TakerAlone
<1>4. FillsOK'
  <2>1. placed \in Nat
      BY LengthAssumption DEF TradingInv, LoopOK
  <2>2. FillsOK /\ \A c \in 1..placed : c \in 1..placed'
      BY <2>1 DEF TradingInv
  <2> QED BY <2>2 DEF FillsOK
<1>5. AccountOK'
    BY DEF TradingInv, AccountOK
<1> QED BY <1>2, <1>3, <1>4, <1>5

\* The market maker sends the next message of its sequence.
LEMMA MakerSends ==
    ASSUME TradingInv, NEW h \in Nat, InOrder(h), LiveOK(h),
           NEW m \in Messages, Send(MM, m), WellSent(m, placed'),
           PlaceOf(m) = h + Len(toVenue[MM]) + 1,
           placed' \in Nat, placed' >= placed, UNCHANGED <<byEngineId, toClient, fires>>
    PROVE  /\ InOrder(h)' /\ LiveOK(h)' /\ MailTyped'
           /\ Len(toVenue'[MM]) = Len(toVenue[MM]) + 1 /\ Len(toVenue[MM]) \in Nat
<1> DEFINE q == toVenue[MM]
<1>1. toVenue' = [toVenue EXCEPT ![MM] = Append(q, m)] /\ toVenue \in [Conns -> Seq(Messages)] /\ MM \in Conns
    BY ClientsAssumption DEF TradingInv, MailTyped, Send, Conns
<1>2. q \in Seq(Messages) /\ toVenue'[MM] = Append(q, m)
    BY <1>1
<1>3. /\ Append(q, m) \in Seq(Messages) /\ Len(Append(q, m)) = Len(q) + 1 /\ Len(q) \in Nat
      /\ DOMAIN q = 1..Len(q) /\ DOMAIN Append(q, m) = 1..(Len(q) + 1)
      /\ \A i \in 1..Len(q) : Append(q, m)[i] = q[i]
      /\ Append(q, m)[Len(q) + 1] = m
    BY <1>2, AppendProperties, LenProperties
<1>4. \A c : c \in 1..placed => c \in 1..placed'
  <2>1. placed \in Nat
      BY LengthAssumption DEF TradingInv, LoopOK
  <2> QED BY <2>1
<1>5. LiveOK(h)'
    BY <1>4 DEF LiveOK
<1>6. MailTyped'
  <2>1. toVenue' \in [Conns -> Seq(Messages)]
      BY <1>1, <1>3
  <2> QED BY <2>1 DEF TradingInv, MailTyped
<1>7. ASSUME NEW i \in DOMAIN toVenue'[MM]
      PROVE  WellSent(toVenue'[MM][i], placed') /\ PlaceOf(toVenue'[MM][i]) = h + i
  <2>1. CASE i = Len(q) + 1
    <3>1. toVenue'[MM][i] = m /\ h + i = h + Len(q) + 1
        BY <1>2, <1>3, <2>1
    <3> QED BY <3>1
  <2>2. CASE i # Len(q) + 1
    <3>1. i \in DOMAIN q /\ toVenue'[MM][i] = q[i]
        BY <1>2, <1>3, <1>7, <2>2
    <3>2. WellSent(q[i], placed) /\ PlaceOf(q[i]) = h + i
        BY <3>1 DEF InOrder
    <3> QED BY <1>4, <3>1, <3>2 DEF WellSent
  <2> QED BY <2>1, <2>2
<1>8. InOrder(h)'
    BY <1>7 DEF InOrder
<1> QED BY <1>2, <1>3, <1>5, <1>6, <1>8

\* The messages of the loop are well sent and have their places.
LEMMA SentPlaces ==
    ASSUME NEW c \in 1..(2 * MaxTicks), NEW n \in Nat, NEW price, NEW ids \in Nat, c <= ids
    PROVE  /\ c = 2 * n + 1 =>
                 /\ NewOrder(c, "Buy", price, QuoteSize) \in Messages
                 /\ WellSent(NewOrder(c, "Buy", price, QuoteSize), ids)
                 /\ PlaceOf(NewOrder(c, "Buy", price, QuoteSize)) = 4 * n + 1
           /\ c = 2 * n =>
                 /\ NewOrder(c, "Sell", price, QuoteSize) \in Messages
                 /\ WellSent(NewOrder(c, "Sell", price, QuoteSize), ids)
                 /\ PlaceOf(NewOrder(c, "Sell", price, QuoteSize)) = 4 * n - 2
           /\ Cancel(c) \in Messages /\ WellSent(Cancel(c), ids)
           /\ c = 2 * n + 1 => PlaceOf(Cancel(c)) = 4 * n + 3
           /\ c = 2 * n => PlaceOf(Cancel(c)) = 4 * n
<1>1. c \in Nat \ {0} /\ c \in 1..ids /\ MaxTicks \in Nat
    BY LengthAssumption
<1>2. c = 2 * n + 1 => c % 2 = 1 /\ Place(c) = 4 * n + 1 /\ SideOf(c) = "Buy"
  <2> SUFFICES ASSUME c = 2 * n + 1 PROVE c % 2 = 1 /\ Place(c) = 4 * n + 1 /\ SideOf(c) = "Buy"
      OBVIOUS
  <2>1. c % 2 = 1
      OBVIOUS
  <2> QED BY <2>1 DEF Place, SideOf
<1>3. c = 2 * n => c % 2 = 0 /\ Place(c) = 4 * n - 2 /\ SideOf(c) = "Sell"
  <2> SUFFICES ASSUME c = 2 * n PROVE c % 2 = 0 /\ Place(c) = 4 * n - 2 /\ SideOf(c) = "Sell"
      OBVIOUS
  <2>1. c % 2 = 0
      OBVIOUS
  <2> QED BY <2>1 DEF Place, SideOf
<1>4. QuoteSize \in Quantities /\ "Buy" \in Sides /\ "Sell" \in Sides
    BY QuotingAssumption DEF Sides
<1>5. \A side \in Sides : NewOrder(c, side, price, QuoteSize) \in Messages
    BY <1>4, NewOrderTyped
<1>6. \A side \in Sides :
         LET m == NewOrder(c, side, price, QuoteSize)
         IN m.type = "NewOrder" /\ m.hasClientOrderId /\ m.clientOrderId = c /\ m.side = side
    BY DEF NewOrder
<1>7. Cancel(c) \in Messages /\ Cancel(c).type = "Cancel" /\ Cancel(c).hasClientOrderId /\ Cancel(c).clientOrderId = c
    BY SessionAssumption DEF Cancel
<1>8. ASSUME c = 2 * n + 1
      PROVE  /\ WellSent(NewOrder(c, "Buy", price, QuoteSize), ids)
             /\ PlaceOf(NewOrder(c, "Buy", price, QuoteSize)) = 4 * n + 1
    BY <1>1, <1>2, <1>4, <1>6, <1>8 DEF WellSent, PlaceOf
<1>9. ASSUME c = 2 * n
      PROVE  /\ WellSent(NewOrder(c, "Sell", price, QuoteSize), ids)
             /\ PlaceOf(NewOrder(c, "Sell", price, QuoteSize)) = 4 * n - 2
    BY <1>1, <1>3, <1>4, <1>6, <1>9 DEF WellSent, PlaceOf
<1>10. WellSent(Cancel(c), ids) /\ PlaceOf(Cancel(c)) = Place(c) + 2
    BY <1>1, <1>7 DEF WellSent, PlaceOf
<1>11. (4 * n + 1) + 2 = 4 * n + 3 /\ (4 * n - 2) + 2 = 4 * n
    OBVIOUS
<1> QED BY <1>2, <1>3, <1>4, <1>5, <1>7, <1>8, <1>9, <1>10, <1>11

\* The ask completes the pair.
LEMMA AskKeeps ==
    ASSUME TradingInv, PlaceAsk
    PROVE  TradingInv'
<1> DEFINE m == NewOrder(placed, "Sell", quote.ask, QuoteSize)
<1>1. /\ pc = "ask" /\ Send(MM, m) /\ resting' = <<placed - 1, placed>>
      /\ ticks' = ticks + 1 /\ pc' = "sleep"
      /\ UNCHANGED <<vars, toClient, position, todo, orderSide, placed, fires, booked, late, missed>>
    BY DEF PlaceAsk, noiseVars, ghostVars
<1>2. UNCHANGED byEngineId
    BY <1>1 DEF vars, tableVars
<1>3. /\ ticks \in Nat /\ MaxTicks \in Nat /\ ticks < MaxTicks /\ placed = 2 * ticks + 2
    BY <1>1, LengthAssumption DEF TradingInv, LoopOK
<1>4. LoopOK'
  <2>1. ticks' \in 0..MaxTicks /\ placed' \in 0..(2 * MaxTicks) /\ placed' = 2 * ticks' /\ ticks' # 0
      BY <1>1, <1>3
  <2>2. resting' = <<2 * ticks' - 1, 2 * ticks'>>
      BY <1>1, <1>3, <2>1
  <2> QED BY <1>1, <2>1, <2>2 DEF LoopOK
<1>5. SidesOK'
    BY <1>1 DEF TradingInv, SidesOK
<1>6. IInv' /\ TakerAlone' /\ FillsOK' /\ AccountOK'
  <2>1. placed' \in Nat /\ placed' >= placed
      BY <1>1, <1>3
  <2> QED BY <1>1, <2>1, LoopFrame
<1>7. PICK h \in Nat : MailOK(h) /\ GraceOK(h)
    BY DEF TradingInv
<1>8. h + Len(toVenue[MM]) = 4 * ticks + 1 /\ InOrder(h) /\ LiveOK(h)
    BY <1>1, <1>7 DEF MailOK, SentByMaker
<1>9. /\ m \in Messages /\ WellSent(m, placed') /\ PlaceOf(m) = 4 * (ticks + 1) - 2
      /\ placed' \in Nat /\ placed' >= placed
  <2>1. placed \in 1..(2 * MaxTicks) /\ ticks + 1 \in Nat /\ placed \in Nat /\ placed = 2 * (ticks + 1)
      BY <1>3
  <2> QED BY <1>1, <2>1, SentPlaces
<1>10. PlaceOf(m) = h + Len(toVenue[MM]) + 1
    BY <1>3, <1>8, <1>9
<1> HIDE DEF m
<1>11. /\ InOrder(h)' /\ LiveOK(h)' /\ MailTyped'
       /\ Len(toVenue'[MM]) = Len(toVenue[MM]) + 1 /\ Len(toVenue[MM]) \in Nat
    BY <1>1, <1>2, <1>8, <1>9, <1>10, MakerSends
<1>12. MailOK(h)'
  <2>1. SentByMaker' = 4 * (ticks + 1) - 2
    <3>1. ticks' # 0
        BY <1>1, <1>3
    <3> QED BY <1>1, <3>1 DEF SentByMaker
  <2>2. h + Len(toVenue'[MM]) = SentByMaker'
      BY <1>3, <1>8, <1>11, <2>1
  <2> QED BY <1>11, <2>2 DEF MailOK
<1>13. GraceOK(h)'
    BY <1>1, <1>7 DEF GraceOK
<1> QED BY <1>4, <1>5, <1>6, <1>11, <1>12, <1>13 DEF TradingInv

\* order_side after the pruning and the two new ids.
LEMMA BidSides ==
    ASSUME LoopOK, SidesOK, pc \in {"sleep", "cancel"}, NEW q, PlaceBid(q)
    PROVE  SidesOK'
<1> DEFINE t == ticks
           pair == {resting[i] : i \in DOMAIN resting}
           old == {d \in 1..placed : d > placed - 4}
           new == {d \in 1..(placed + 2) : d > (placed + 2) - 4}
<1>1. t \in Nat /\ placed = 2 * t /\ resting = IF t = 0 THEN <<>> ELSE <<2 * t - 1, 2 * t>>
    BY LengthAssumption DEF LoopOK
<1>2. orderSide = [c \in old |-> SideOf(c)]
    BY DEF SidesOK
<1>3. pair = IF t = 0 THEN {} ELSE {2 * t - 1, 2 * t}
  <2>1. CASE t = 0
      BY <1>1, <2>1
  <2>2. CASE t # 0
    <3>1. DOMAIN resting = {1, 2} /\ resting[1] = 2 * t - 1 /\ resting[2] = 2 * t
        BY <1>1, <2>2
    <3> QED BY <2>2, <3>1
  <2> QED BY <2>1, <2>2
<1>4. (pair \cap old) \cup {placed + 1, placed + 2} = new
  <2> HIDE DEF pair
  <2> QED BY <1>1, <1>3
<1>5. placed' = placed + 2
    BY DEF PlaceBid
<1>6. /\ DOMAIN Prune(orderSide) = pair \cap old
      /\ orderSide' = [cid \in (pair \cap old) \cup {placed + 1, placed + 2} |->
                          IF cid \in pair \cap old THEN orderSide[cid]
                          ELSE IF cid = placed + 1 THEN "Buy" ELSE "Sell"]
  <2>1. DOMAIN orderSide = old
      BY <1>2
  <2>2. DOMAIN Prune(orderSide) = pair \cap old
      BY <2>1 DEF Prune, Restrict
  <2> QED BY <2>2 DEF PlaceBid
<1>7. SideOf(placed + 1) = "Buy" /\ SideOf(placed + 2) = "Sell" /\ placed + 1 # placed + 2
  <2>1. (placed + 1) % 2 = 1 /\ (placed + 2) % 2 = 0 /\ placed + 1 # placed + 2
      BY <1>1
  <2> QED BY <2>1 DEF SideOf
<1> HIDE DEF pair, old, new
<1>8. orderSide' = [cid \in new |-> IF cid \in pair \cap old THEN orderSide[cid]
                                    ELSE IF cid = placed + 1 THEN "Buy" ELSE "Sell"]
    BY <1>4, <1>6
<1>9. ASSUME NEW c \in new PROVE orderSide'[c] = SideOf(c)
  <2>1. CASE c \in pair \cap old
      BY <1>2, <1>8, <2>1
  <2>2. CASE c \notin pair \cap old
    <3>1. c = placed + 1 \/ c = placed + 2
        BY <1>4, <1>9, <2>2
    <3> QED BY <1>7, <1>8, <2>2, <3>1
  <2> QED BY <2>1, <2>2
<1>10. orderSide' = [c \in new |-> SideOf(c)]
    BY <1>8, <1>9
<1> QED BY <1>5, <1>10 DEF SidesOK, new

\* The bid of the next pair, once every cancel is out.
LEMMA BidKeeps ==
    ASSUME TradingInv, NEW q, PlaceBid(q), NEW h \in Nat, MailOK(h),
           pc \in {"sleep", "cancel"}, ticks < MaxTicks,
           pc = "sleep" => ticks = 0, pc = "cancel" => todo = <<>>,
           UNCHANGED <<vars, toClient, position, resting, ticks, fires, booked, missed>>
    PROVE  /\ IInv' /\ LoopOK' /\ SidesOK' /\ MailTyped' /\ TakerAlone' /\ FillsOK' /\ AccountOK'
           /\ MailOK(h)' /\ placed' = placed + 2 /\ pc' = "ask" /\ placed \in Nat
<1> DEFINE m == NewOrder(placed + 1, "Buy", q.bid, QuoteSize)
<1>1. /\ Send(MM, m) /\ placed' = placed + 2 /\ pc' = "ask"
    BY DEF PlaceBid
<1>2. UNCHANGED byEngineId
    BY DEF vars, tableVars
<1>3. /\ ticks \in Nat /\ MaxTicks \in Nat /\ placed = 2 * ticks
      /\ resting = IF ticks = 0 THEN <<>> ELSE <<2 * ticks - 1, 2 * ticks>>
    BY LengthAssumption DEF TradingInv, LoopOK
<1>4. LoopOK'
  <2>1. /\ placed' \in 0..(2 * MaxTicks) /\ ticks' \in 0..MaxTicks /\ placed' = 2 * ticks' + 2
        /\ ticks' < MaxTicks
      BY <1>1, <1>3
  <2> QED BY <1>1, <1>3, <2>1 DEF LoopOK
<1>5. SidesOK'
    BY BidSides DEF TradingInv
<1>6. IInv' /\ TakerAlone' /\ FillsOK' /\ AccountOK'
  <2>1. placed' \in Nat /\ placed' >= placed
      BY <1>1, <1>3
  <2> QED BY <2>1, LoopFrame
<1>7. h + Len(toVenue[MM]) = 4 * ticks /\ InOrder(h) /\ LiveOK(h)
    BY <1>3 DEF MailOK, SentByMaker
<1>8. /\ m \in Messages /\ WellSent(m, placed') /\ PlaceOf(m) = 4 * ticks + 1
      /\ placed' \in Nat /\ placed' >= placed
  <2> DEFINE c == placed + 1
  <2>1. /\ c \in 1..(2 * MaxTicks) /\ c = 2 * ticks + 1
        /\ placed' \in Nat /\ placed' >= placed /\ c <= placed'
      BY <1>1, <1>3
  <2>2. m = NewOrder(c, "Buy", q.bid, QuoteSize)
      OBVIOUS
  <2> HIDE DEF c, m
  <2>3. m \in Messages /\ WellSent(m, placed') /\ PlaceOf(m) = 4 * ticks + 1
      BY <1>3, <2>1, <2>2, SentPlaces
  <2> QED BY <2>1, <2>3
<1>9. PlaceOf(m) = h + Len(toVenue[MM]) + 1
    BY <1>7, <1>8
<1> HIDE DEF m
<1>10. /\ InOrder(h)' /\ LiveOK(h)' /\ MailTyped'
       /\ Len(toVenue'[MM]) = Len(toVenue[MM]) + 1 /\ Len(toVenue[MM]) \in Nat
    BY <1>1, <1>2, <1>7, <1>8, <1>9, MakerSends
<1>11. MailOK(h)'
  <2>1. SentByMaker' = 4 * ticks + 1
      BY <1>1 DEF SentByMaker
  <2>2. h + Len(toVenue'[MM]) = SentByMaker'
      BY <1>3, <1>7, <1>10, <2>1
  <2> QED BY <1>10, <2>2 DEF MailOK
<1> QED BY <1>1, <1>3, <1>4, <1>5, <1>6, <1>10, <1>11

\* Cancel c is the next of the tick's two: the bid's first, then the ask's.
NextCancel(c) ==
    \/ pc = "sleep" /\ c = 2 * ticks - 1 /\ todo' = <<2 * ticks>>
    \/ pc = "cancel" /\ todo = <<2 * ticks>> /\ c = 2 * ticks /\ todo' = <<>>

LEMMA CancelKeeps ==
    ASSUME TradingInv, NEW c, Send(MM, Cancel(c)), NEW h \in Nat, MailOK(h), NextCancel(c),
           ticks \in 1..(MaxTicks - 1), pc' = "cancel",
           UNCHANGED <<vars, toClient, position, resting, orderSide, placed, ticks, fires, booked, missed>>
    PROVE  /\ IInv' /\ LoopOK' /\ SidesOK' /\ MailTyped' /\ TakerAlone' /\ FillsOK' /\ AccountOK'
           /\ MailOK(h)'
<1> DEFINE m == Cancel(c)
           k == IF pc = "sleep" THEN 4 * ticks - 2 ELSE 4 * ticks - 1
<1>1. UNCHANGED byEngineId
    BY DEF vars, tableVars
<1>2. /\ ticks \in Nat /\ ticks > 0 /\ ticks < MaxTicks /\ MaxTicks \in Nat /\ placed = 2 * ticks
      /\ resting = <<2 * ticks - 1, 2 * ticks>>
      /\ placed \in Nat /\ pc \in {"sleep", "cancel"}
    BY LengthAssumption DEF TradingInv, LoopOK, NextCancel
<1>3. LoopOK'
    BY <1>2 DEF TradingInv, LoopOK, NextCancel
<1>4. SidesOK'
    BY DEF TradingInv, SidesOK
<1>5. IInv' /\ TakerAlone' /\ FillsOK' /\ AccountOK'
  <2>1. placed' \in Nat /\ placed' >= placed
      BY <1>2
  <2> QED BY <2>1, LoopFrame
<1>6. <<2 * ticks>> # <<>>
    OBVIOUS
<1>7. h + Len(toVenue[MM]) = k /\ InOrder(h) /\ LiveOK(h)
  <2>1. SentByMaker = k
    <3>1. CASE pc = "sleep"
        BY <1>2, <3>1 DEF SentByMaker
    <3>2. CASE pc = "cancel"
        BY <1>2, <1>6, <3>2 DEF SentByMaker, NextCancel
    <3> QED BY <1>2, <3>1, <3>2
  <2> QED BY <1>2, <2>1 DEF MailOK
<1>8. m \in Messages /\ WellSent(m, placed') /\ PlaceOf(m) = k + 1
  <2>1. CASE pc = "sleep"
    <3>1. /\ c = 2 * (ticks - 1) + 1 /\ ticks - 1 \in Nat /\ c \in 1..(2 * MaxTicks)
          /\ c <= placed /\ 4 * (ticks - 1) + 3 = (4 * ticks - 2) + 1
        BY <1>2, <2>1 DEF NextCancel
    <3>2. m \in Messages /\ WellSent(m, placed') /\ PlaceOf(m) = 4 * (ticks - 1) + 3
        BY <1>2, <3>1, SentPlaces
    <3> QED BY <2>1, <3>1, <3>2
  <2>2. CASE pc = "cancel"
    <3>1. c = 2 * ticks /\ c \in 1..(2 * MaxTicks) /\ c <= placed /\ 4 * ticks = (4 * ticks - 1) + 1
        BY <1>2, <2>2 DEF NextCancel
    <3>2. m \in Messages /\ WellSent(m, placed') /\ PlaceOf(m) = 4 * ticks
        BY <1>2, <3>1, SentPlaces
    <3> QED BY <2>2, <3>1, <3>2
  <2> QED BY <1>2, <2>1, <2>2
<1>9. PlaceOf(m) = h + Len(toVenue[MM]) + 1 /\ k \in Int
    BY <1>2, <1>7, <1>8
<1> HIDE DEF m
<1>10. /\ InOrder(h)' /\ LiveOK(h)' /\ MailTyped'
       /\ Len(toVenue'[MM]) = Len(toVenue[MM]) + 1 /\ Len(toVenue[MM]) \in Nat
  <2>1. Send(MM, m) /\ placed' \in Nat /\ placed' >= placed
      BY <1>2 DEF m
  <2> QED BY <1>1, <1>7, <1>8, <1>9, <2>1, MakerSends
<1>11. MailOK(h)'
  <2>1. SentByMaker' = k + 1
    <3>1. CASE pc = "sleep"
      <4>1. SentByMaker' = 4 * ticks - 1
          BY <1>6, <3>1 DEF SentByMaker, NextCancel
      <4> QED BY <1>2, <3>1, <4>1
    <3>2. CASE pc = "cancel"
      <4>1. SentByMaker' = 4 * ticks
          BY <3>2 DEF SentByMaker, NextCancel
      <4> QED BY <1>2, <3>2, <4>1
    <3> QED BY <1>2, <3>1, <3>2
  <2>2. h + Len(toVenue'[MM]) = SentByMaker'
      BY <1>7, <1>9, <1>10, <2>1
  <2> QED BY <1>10, <2>2 DEF MailOK
<1> QED BY <1>3, <1>4, <1>5, <1>10, <1>11

\* Once the cancels of a tick are answered the venue has handled all that the
\* tick before it sent up to its second cancel.
LEMMA AnsweredMeansHandled ==
    ASSUME LoopOK, MailTyped, pc = "sleep", ticks > 0, CancelsAnswered, NEW h \in Nat, MailOK(h)
    PROVE  /\ h >= 2 * placed - 4
           /\ \A i \in DOMAIN toClient[MM] : toClient[MM][i].clientOrderId > placed - 2
<1> DEFINE q == toVenue[MM]
<1>1. /\ ticks \in Nat /\ ticks > 0 /\ placed = 2 * ticks /\ resting = <<2 * ticks - 1, 2 * ticks>>
      /\ h + Len(q) = 4 * ticks - 2
    BY LengthAssumption DEF LoopOK, MailOK, SentByMaker
<1>2. Len(q) \in Nat /\ DOMAIN q = 1..Len(q)
    BY ClientsAssumption, LenProperties DEF MailTyped, Conns
<1>3. ASSUME ~(h >= 2 * placed - 4) PROVE FALSE
  <2> DEFINE i == 4 * ticks - 4 - h
             m == q[i]
             c == m.clientOrderId
             d == 2 * ticks - 2
  <2>1. i \in DOMAIN q /\ h + i = 4 * ticks - 4 /\ d \in Nat \ {0}
      BY <1>1, <1>2, <1>3
  <2>2. WellSent(m, placed) /\ PlaceOf(m) = h + i
      BY <2>1 DEF MailOK, InOrder
  <2>3. m.type # "Cancel"
      BY <2>1 DEF CancelsAnswered
  <2>4. c \in 1..placed /\ PlaceOf(m) = Place(c)
      BY <2>2, <2>3 DEF WellSent, PlaceOf
  <2>5. d % 2 = 0
      BY <1>1
  <2> HIDE DEF i, m, c
  <2>6. Place(d) = 2 * d - 2
      BY <2>1, <2>5, PlaceBounds
  <2>7. Place(c) = Place(d) + 2
      BY <1>1, <2>1, <2>2, <2>4, <2>6
  <2>8. c \in Nat \ {0}
      BY <1>1, <2>4
  <2> HIDE DEF d
  <2> QED BY <2>1, <2>7, <2>8, PlaceGaps
<1>4. \A j \in DOMAIN resting : resting[j] > placed - 2
    BY <1>1
<1> QED BY <1>3, <1>4 DEF CancelsAnswered

LEMMA TickKeeps ==
    ASSUME TradingInv, Tick
    PROVE  TradingInv'
<1>1. /\ pc = "sleep" /\ ticks < MaxTicks /\ late' = (late \/ ~CancelsAnswered)
      /\ CancelOrPlaceBid(resting, quote')
      /\ UNCHANGED <<vars, toClient, position, resting, ticks, fires, booked, missed>>
    BY DEF Tick, noiseVars
<1>2. PICK h \in Nat : MailOK(h) /\ GraceOK(h)
    BY DEF TradingInv
<1>3. /\ ticks \in Nat /\ MaxTicks \in Nat /\ placed = 2 * ticks
      /\ resting = IF ticks = 0 THEN <<>> ELSE <<2 * ticks - 1, 2 * ticks>>
    BY <1>1, LengthAssumption DEF TradingInv, LoopOK
<1>4. CASE ticks = 0
  <2>1. PlaceBid(quote')
      BY <1>1, <1>3, <1>4 DEF CancelOrPlaceBid
  <2>2. /\ IInv' /\ LoopOK' /\ SidesOK' /\ MailTyped' /\ TakerAlone' /\ FillsOK' /\ AccountOK'
        /\ MailOK(h)' /\ placed' = placed + 2 /\ pc' = "ask"
      BY <1>1, <1>2, <1>4, <2>1, BidKeeps
  <2>3. GraceOK(h)'
    <3>1. placed' = 2 /\ h >= 2 * placed' - 8
        BY <1>3, <1>4, <2>2
    <3>2. \A i \in DOMAIN toClient[MM] : toClient[MM][i].clientOrderId > placed' - 4
      <4>1. \A i \in DOMAIN toClient[MM] : toClient[MM][i].clientOrderId \in 1..placed
          BY DEF TradingInv, FillsOK
      <4>2. \A c \in 1..placed : c > placed' - 4
          BY <1>3, <1>4
      <4> QED BY <4>1, <4>2
    <3> QED BY <1>1, <1>2, <2>2, <3>1, <3>2 DEF GraceOK
  <2> QED BY <2>2, <2>3 DEF TradingInv
<1>5. CASE ticks # 0
  <2>1. resting = <<2 * ticks - 1, 2 * ticks>> /\ resting # <<>>
      BY <1>3, <1>5
  <2>2. /\ Send(MM, Cancel(Head(resting))) /\ todo' = Tail(resting) /\ pc' = "cancel"
        /\ UNCHANGED <<orderSide, placed>>
      BY <1>1, <2>1 DEF CancelOrPlaceBid
  <2>3. Head(resting) = 2 * ticks - 1 /\ Tail(resting) = <<2 * ticks>>
      BY <2>1
  <2>4. Send(MM, Cancel(2 * ticks - 1)) /\ NextCancel(2 * ticks - 1) /\ ticks \in 1..(MaxTicks - 1)
      BY <1>1, <1>3, <1>5, <2>2, <2>3 DEF NextCancel
  <2>5. /\ IInv' /\ LoopOK' /\ SidesOK' /\ MailTyped' /\ TakerAlone' /\ FillsOK' /\ AccountOK'
        /\ MailOK(h)'
      BY <1>1, <1>2, <2>2, <2>4, CancelKeeps
  <2>6. GraceOK(h)'
    <3> SUFFICES ASSUME ~late' PROVE GraceOK(h)'
        BY DEF GraceOK
    <3>1. ~late /\ CancelsAnswered
        BY <1>1
    <3>2. /\ h >= 2 * placed - 4
          /\ \A i \in DOMAIN toClient[MM] : toClient[MM][i].clientOrderId > placed - 2
        BY <1>1, <1>2, <1>3, <1>5, <3>1, AnsweredMeansHandled DEF TradingInv
    <3> QED BY <1>1, <1>2, <2>2, <3>1, <3>2 DEF GraceOK
  <2> QED BY <2>5, <2>6 DEF TradingInv
<1> QED BY <1>4, <1>5

LEMMA ContinueKeeps ==
    ASSUME TradingInv, ContinueTick
    PROVE  TradingInv'
<1>1. /\ pc = "cancel" /\ CancelOrPlaceBid(todo, quote)
      /\ UNCHANGED <<vars, toClient, position, resting, ticks, fires, booked, late, missed>>
    BY DEF ContinueTick, noiseVars, ghostVars
<1>2. PICK h \in Nat : MailOK(h) /\ GraceOK(h)
    BY DEF TradingInv
<1>3. /\ ticks \in Nat /\ ticks > 0 /\ MaxTicks \in Nat /\ ticks < MaxTicks /\ placed = 2 * ticks
      /\ todo \in {<<2 * ticks>>, <<>>}
    BY <1>1, LengthAssumption DEF TradingInv, LoopOK
<1>4. CASE todo = <<>>
  <2>1. PlaceBid(quote)
      BY <1>1, <1>4 DEF CancelOrPlaceBid
  <2>2. /\ IInv' /\ LoopOK' /\ SidesOK' /\ MailTyped' /\ TakerAlone' /\ FillsOK' /\ AccountOK'
        /\ MailOK(h)' /\ placed' = placed + 2 /\ pc' = "ask"
      BY <1>1, <1>2, <1>3, <1>4, <2>1, BidKeeps
  <2>3. GraceOK(h)'
    <3>1. 2 * placed' - 8 = 2 * placed - 4 /\ placed' - 4 = placed - 2
        BY <1>3, <2>2
    <3> QED BY <1>1, <1>2, <2>2, <3>1 DEF GraceOK
  <2> QED BY <2>2, <2>3 DEF TradingInv
<1>5. CASE todo = <<2 * ticks>>
  <2>1. /\ Send(MM, Cancel(Head(todo))) /\ todo' = Tail(todo) /\ pc' = "cancel"
        /\ UNCHANGED <<orderSide, placed>>
      BY <1>1, <1>5 DEF CancelOrPlaceBid
  <2>2. Head(todo) = 2 * ticks /\ Tail(todo) = <<>>
      BY <1>5
  <2>3. Send(MM, Cancel(2 * ticks)) /\ NextCancel(2 * ticks) /\ ticks \in 1..(MaxTicks - 1)
      BY <1>1, <1>3, <1>5, <2>1, <2>2 DEF NextCancel
  <2>4. /\ IInv' /\ LoopOK' /\ SidesOK' /\ MailTyped' /\ TakerAlone' /\ FillsOK' /\ AccountOK'
        /\ MailOK(h)'
      BY <1>1, <1>2, <2>1, <2>3, CancelKeeps
  <2>5. GraceOK(h)'
      BY <1>1, <1>2, <2>1 DEF GraceOK
  <2> QED BY <2>4, <2>5 DEF TradingInv
<1> QED BY <1>3, <1>4, <1>5

-----------------------------------------------------------------------------
(***************************************************************************)
(* Steps of the venue.                                                     *)
(***************************************************************************)
\* The market maker's next message at the venue.
LEMMA NextOfMaker ==
    ASSUME LoopOK, MailTyped, NEW h \in Nat, InOrder(h), toVenue[MM] # <<>>
    PROVE  LET m == Head(toVenue[MM])
           IN m \in Messages /\ WellSent(m, placed) /\ PlaceOf(m) = h + 1 /\ m.clientOrderId \in Nat \ {0}
<1> DEFINE q == toVenue[MM]
<1>1. q \in Seq(Messages) /\ q # <<>>
    BY ClientsAssumption DEF MailTyped, Conns
<1>2. Head(q) = q[1] /\ 1 \in DOMAIN q /\ Head(q) \in Messages
    BY <1>1, HeadTailProperties, LenProperties
<1>3. WellSent(q[1], placed) /\ PlaceOf(q[1]) = h + 1
    BY <1>2 DEF InOrder
<1>4. placed \in Nat
    BY LengthAssumption DEF LoopOK
<1> QED BY <1>2, <1>3, <1>4 DEF WellSent

\* The venue takes the market maker's next message off the queue.
LEMMA MakerQueueMoves ==
    ASSUME MailTyped, NEW h \in Nat, MailOK(h), toVenue[MM] # <<>>,
           toVenue' = [toVenue EXCEPT ![MM] = Tail(@)], UNCHANGED <<makerVars, toClient, fires>>
    PROVE  /\ InOrder(h + 1)' /\ MailTyped'
           /\ pc' # "closed" => (h + 1) + Len(toVenue'[MM]) = SentByMaker'
<1> DEFINE q == toVenue[MM]
<1>1. q \in Seq(Messages) /\ q # <<>> /\ MM \in Conns /\ toVenue \in [Conns -> Seq(Messages)]
    BY ClientsAssumption DEF MailTyped, Conns
<1>2. toVenue'[MM] = Tail(q)
    BY <1>1
<1>3. /\ Tail(q) \in Seq(Messages) /\ Len(q) \in Nat /\ Len(Tail(q)) = Len(q) - 1
      /\ \A i \in DOMAIN Tail(q) : i \in Nat /\ i + 1 \in DOMAIN q /\ Tail(q)[i] = q[i + 1]
    BY <1>1, HeadTailProperties, LenProperties
<1>4. UNCHANGED <<pc, placed, ticks, todo>>
    BY DEF makerVars
<1>5. MailTyped'
  <2>1. toVenue' \in [Conns -> Seq(Messages)]
      BY <1>1, <1>3
  <2> QED BY <2>1 DEF MailTyped
<1>6. InOrder(h + 1)'
  <2>1. ASSUME NEW i \in DOMAIN toVenue'[MM]
        PROVE  WellSent(toVenue'[MM][i], placed') /\ PlaceOf(toVenue'[MM][i]) = (h + 1) + i
    <3>1. i \in Nat /\ i + 1 \in DOMAIN q /\ toVenue'[MM][i] = q[i + 1]
        BY <1>2, <1>3
    <3>2. WellSent(q[i + 1], placed) /\ PlaceOf(q[i + 1]) = h + (i + 1)
        BY <3>1 DEF MailOK, InOrder
    <3>3. h + (i + 1) = (h + 1) + i
        BY <3>1
    <3> QED BY <1>4, <3>1, <3>2, <3>3
  <2> QED BY <2>1 DEF InOrder
<1>7. SentByMaker' = SentByMaker
    BY <1>4 DEF SentByMaker
<1>8. (h + 1) + (Len(q) - 1) = h + Len(q)
  <2>1. Len(q) \in Nat
      BY <1>3
  <2> HIDE DEF q
  <2> QED BY <2>1
<1> QED BY <1>2, <1>3, <1>4, <1>5, <1>6, <1>7, <1>8 DEF MailOK

\* A NewOrder c comes one place after those of every live order, whose side is
\* then another, and a Cancel c two places after the only order it can leave.
LEMMA LiveWhenNext ==
    ASSUME LoopOK, NEW h \in Nat, LiveOK(h), NEW c \in Nat \ {0},
           NEW i \in DOMAIN byEngineId, byEngineId[i].owner = MM
    PROVE  LET d == byEngineId[i].clientOrderId
           IN /\ Place(c) = h + 1 => h + 1 = Place(d) + 1 /\ SideOf(c) # SideOf(d)
              /\ Place(c) + 2 = h + 1 /\ c # d => h + 1 = Place(d) + 1
<1> DEFINE d == byEngineId[i].clientOrderId
<1>1. d \in 1..placed /\ h \in {Place(d), Place(d) + 1} /\ placed \in Nat
    BY LengthAssumption DEF LiveOK, LoopOK
<1>2. d \in Nat \ {0}
    BY <1>1
<1> HIDE DEF d
<1>3. Place(c) \in Nat /\ Place(d) \in Nat
    BY <1>2, PlaceBounds
<1>4. /\ Place(c) = Place(d) => c = d
      /\ Place(c) # Place(d) + 2
      /\ SideOf(c) = SideOf(d) => Place(c) # Place(d) + 1
    BY <1>2, PlaceGaps
<1>5. Place(c) = h + 1 => h + 1 = Place(d) + 1 /\ SideOf(c) # SideOf(d)
    BY <1>1, <1>3, <1>4
<1>6. Place(c) + 2 = h + 1 /\ c # d => h + 1 = Place(d) + 1
    BY <1>1, <1>3, <1>4
<1> QED BY <1>5, <1>6 DEF d

\* A NewOrder of the market maker goes in: the other live orders are of the other side.
LEMMA MakerAccepted ==
    ASSUME IInv, LoopOK, NEW h \in Nat, LiveOK(h), NEW m \in Messages, WellSent(m, placed),
           PlaceOf(m) = h + 1, AcceptNewOrder(MM, m), UNCHANGED placed
    PROVE  LiveOK(h + 1)' /\ TakerAlone'
<1> DEFINE id == nextEngineId
           c == m.clientOrderId
<1>1. /\ m.type = "NewOrder" /\ taker = NoTaker /\ taker' = id /\ id \in OrderIds
      /\ Submit(id, m.side, m.priceTicks, m.qty, MM)
      /\ byEngineId' = [i \in DOMAIN byEngineId \cup {id} |->
                           IF i = id
                           THEN [owner |-> MM, clientOrderId |-> c, side |-> m.side,
                                 priceTicks |-> m.priceTicks, remaining |-> m.qty]
                           ELSE byEngineId[i]]
    BY DEF AcceptNewOrder, Receives, Submit
<1>2. c \in 1..placed /\ m.side = SideOf(c) /\ Place(c) = h + 1 /\ placed \in Nat
    BY <1>1, LengthAssumption DEF WellSent, PlaceOf, LoopOK
<1>3. c \in Nat \ {0}
    BY <1>2
<1>4. ASSUME NEW i \in DOMAIN byEngineId, byEngineId[i].owner = MM
      PROVE  h + 1 = Place(byEngineId[i].clientOrderId) + 1 /\ SideOf(c) # byEngineId[i].side
  <2>1. byEngineId[i].side = SideOf(byEngineId[i].clientOrderId)
      BY <1>4 DEF LiveOK
  <2> QED BY <1>2, <1>3, <1>4, <2>1, LiveWhenNext
<1>5. LiveOK(h + 1)'
  <2>1. ASSUME NEW i \in DOMAIN byEngineId', byEngineId'[i].owner = MM
        PROVE  /\ byEngineId'[i].clientOrderId \in 1..placed
               /\ byEngineId'[i].side = SideOf(byEngineId'[i].clientOrderId)
               /\ h + 1 \in {Place(byEngineId'[i].clientOrderId), Place(byEngineId'[i].clientOrderId) + 1}
    <3>1. CASE i = id
      <4>1. byEngineId'[i].clientOrderId = c /\ byEngineId'[i].side = m.side
          BY <1>1, <3>1
      <4> QED BY <1>2, <4>1
    <3>2. CASE i # id
      <4>1. i \in DOMAIN byEngineId /\ byEngineId'[i] = byEngineId[i]
          BY <1>1, <3>2
      <4>2. /\ byEngineId[i].clientOrderId \in 1..placed
            /\ byEngineId[i].side = SideOf(byEngineId[i].clientOrderId)
          BY <2>1, <4>1 DEF LiveOK
      <4>3. h + 1 = Place(byEngineId[i].clientOrderId) + 1
          BY <1>4, <2>1, <4>1
      <4> QED BY <4>1, <4>2, <4>3
    <3> QED BY <3>1, <3>2
  <2> QED BY <2>1 DEF LiveOK
<1>6. TakerAlone'
  <2>1. /\ DOMAIN orders' = DOMAIN orders \cup {id} /\ id \notin DOMAIN orders
        /\ orders'[id].side = m.side
        /\ \A i \in DOMAIN orders : orders'[i] = orders[i]
      BY <1>1 DEF Submit
  <2>2. ASSUME NEW i \in DOMAIN orders, orders[i].owner = MM PROVE orders[i].side # m.side
    <3>1. orders[i].qty > 0
        BY <1>1, OrderIdsAssumption DEF IInv, TypeOK, BookTypeOK, Resting, NoTaker
    <3>2. i \in DOMAIN byEngineId /\ byEngineId[i].owner = MM /\ byEngineId[i].side = orders[i].side
        BY <2>2, <3>1 DEF IInv, LiveOrdersMatchBook
    <3> QED BY <1>2, <1>4, <3>2
  <2> QED BY <1>1, <2>1, <2>2 DEF TakerAlone
<1> QED BY <1>5, <1>6

\* A message of the market maker that enters nothing in the book.
LEMMA MakerAnswered ==
    ASSUME IInv, LoopOK, NEW h \in Nat, LiveOK(h), NEW m \in Messages, WellSent(m, placed),
           PlaceOf(m) = h + 1,
           RejectNewOrder(MM, m) \/ RejectCancel(MM, m) \/ AcceptCancel(MM, m), UNCHANGED placed
    PROVE  LiveOK(h + 1)' /\ TakerAlone'
<1> DEFINE c == m.clientOrderId
<1>1. c \in Nat \ {0} /\ m.hasClientOrderId
    BY LengthAssumption DEF WellSent, LoopOK
<1>2. taker' = NoTaker
    BY DEF RejectNewOrder, RejectCancel, AcceptCancel, Receives, CancelOrders, bookVars
<1>3. TakerAlone'
    BY <1>2 DEF TakerAlone
<1>4. ASSUME NEW i \in DOMAIN byEngineId', byEngineId'[i].owner = MM
      PROVE  /\ i \in DOMAIN byEngineId /\ byEngineId'[i] = byEngineId[i]
             /\ h + 1 = Place(byEngineId[i].clientOrderId) + 1
  <2>1. CASE RejectNewOrder(MM, m)
    <3>1. byEngineId' = byEngineId /\ m.type = "NewOrder"
        BY <2>1 DEF RejectNewOrder, Receives
    <3>2. Place(c) = h + 1
        BY <3>1 DEF PlaceOf
    <3> QED BY <1>1, <1>4, <3>1, <3>2, LiveWhenNext
  <2>2. ASSUME m.type = "Cancel", i \in DOMAIN byEngineId, byEngineId'[i] = byEngineId[i],
               c # byEngineId[i].clientOrderId
        PROVE  h + 1 = Place(byEngineId[i].clientOrderId) + 1
    <3>1. Place(c) + 2 = h + 1
        BY <2>2 DEF PlaceOf
    <3> QED BY <1>1, <1>4, <2>2, <3>1, LiveWhenNext
  <2>3. ASSUME NEW j \in DOMAIN byEngineId, byEngineId[j].owner = MM, byEngineId[j].clientOrderId = c
        PROVE  byConn[MM][c] = [state |-> "Resting", engineId |-> j]
      BY <2>3 DEF IInv, RecordsMatchLiveOrders
  <2>4. CASE RejectCancel(MM, m)
    <3>1. byEngineId' = byEngineId /\ m.type = "Cancel" /\ CancelRejectReason(MM, m) # "none"
        BY <2>4 DEF RejectCancel, Receives
    <3>2. byConn[MM][c].state # "Resting"
        BY <1>1, <3>1 DEF CancelRejectReason
    <3>3. ASSUME byEngineId[i].clientOrderId = c PROVE FALSE
      <4>1. byConn[MM][c] = [state |-> "Resting", engineId |-> i]
          BY <1>4, <2>3, <3>1, <3>3
      <4>2. byConn[MM][c].state = "Resting"
          BY <4>1
      <4> QED BY <3>2, <4>2
    <3> QED BY <1>4, <2>2, <3>1, <3>3
  <2>5. CASE AcceptCancel(MM, m)
    <3>1. byEngineId' = Erase(byEngineId, {byConn[MM][c].engineId}) /\ m.type = "Cancel"
        BY <2>5 DEF AcceptCancel, Receives
    <3>2. /\ i \in DOMAIN byEngineId /\ i # byConn[MM][c].engineId
          /\ byEngineId'[i] = byEngineId[i]
        BY <3>1 DEF Erase
    <3>3. ASSUME byEngineId[i].clientOrderId = c PROVE FALSE
      <4>1. byConn[MM][c] = [state |-> "Resting", engineId |-> i]
          BY <1>4, <2>3, <3>2, <3>3
      <4>2. byConn[MM][c].engineId = i
          BY <4>1
      <4> QED BY <3>2, <4>2
    <3> QED BY <2>2, <3>1, <3>2, <3>3
  <2> QED BY <2>1, <2>4, <2>5
<1>5. LiveOK(h + 1)'
  <2>1. ASSUME NEW i \in DOMAIN byEngineId', byEngineId'[i].owner = MM
        PROVE  /\ byEngineId'[i].clientOrderId \in 1..placed
               /\ byEngineId'[i].side = SideOf(byEngineId'[i].clientOrderId)
               /\ h + 1 \in {Place(byEngineId'[i].clientOrderId), Place(byEngineId'[i].clientOrderId) + 1}
      BY <1>4, <2>1 DEF LiveOK
  <2> QED BY <2>1 DEF LiveOK
<1> QED BY <1>3, <1>5

\* What a step of the venue that delivers no fill leaves alone.
LEMMA ClientFrame ==
    ASSUME TradingInv, UNCHANGED <<toClient, makerVars, ghostVars>>
    PROVE  LoopOK' /\ SidesOK' /\ FillsOK' /\ AccountOK'
<1>1. UNCHANGED <<pc, position, todo, resting, orderSide, placed, ticks, booked, late, missed>>
    BY DEF makerVars, ghostVars
<1>2. LoopOK' /\ SidesOK' /\ FillsOK'
    BY <1>1 DEF TradingInv, LoopOK, SidesOK, FillsOK
<1>3. AccountOK'
    BY <1>1 DEF TradingInv, AccountOK
<1> QED BY <1>2, <1>3

\* The venue handles the market maker's next message.
LEMMA MakerHandled ==
    ASSUME TradingInv, VenueHandles(MM), IInv'
    PROVE  TradingInv'
<1> DEFINE m == Head(toVenue[MM])
<1>1. /\ toVenue[MM] # <<>> /\ toVenue' = [toVenue EXCEPT ![MM] = Tail(@)]
      /\ RejectNewOrder(MM, m) \/ AcceptNewOrder(MM, m) \/ RejectCancel(MM, m) \/ AcceptCancel(MM, m)
      /\ UNCHANGED <<toClient, makerVars, ghostVars, fires>>
    BY DEF VenueHandles, noiseVars
<1>2. LoopOK' /\ SidesOK' /\ FillsOK' /\ AccountOK'
    BY <1>1, ClientFrame
<1>3. PICK h \in Nat : MailOK(h) /\ GraceOK(h)
    BY DEF TradingInv
<1>4. IInv /\ LoopOK /\ MailTyped /\ InOrder(h) /\ LiveOK(h)
    BY <1>3 DEF TradingInv, MailOK
<1>5. m \in Messages /\ WellSent(m, placed) /\ PlaceOf(m) = h + 1
    BY <1>1, <1>4, NextOfMaker
<1>6. UNCHANGED placed
    BY <1>1 DEF makerVars
<1>7. /\ InOrder(h + 1)' /\ MailTyped'
      /\ pc' # "closed" => (h + 1) + Len(toVenue'[MM]) = SentByMaker'
    BY <1>1, <1>3, <1>4, MakerQueueMoves
<1> HIDE DEF m
<1>8. LiveOK(h + 1)' /\ TakerAlone'
    BY <1>1, <1>4, <1>5, <1>6, MakerAccepted, MakerAnswered
<1>9. MailOK(h + 1)'
    BY <1>7, <1>8 DEF MailOK
<1>10. GraceOK(h + 1)'
  <2>1. UNCHANGED <<pc, placed, late, missed>> /\ placed \in Nat
      BY <1>1, <1>4, LengthAssumption DEF makerVars, ghostVars, LoopOK
  <2>2. /\ h >= 2 * placed - 8 => h + 1 >= 2 * placed - 8
        /\ h >= 2 * placed - 4 => h + 1 >= 2 * placed - 4
      BY <2>1
  <2> QED BY <1>1, <1>3, <2>1, <2>2 DEF GraceOK
<1>11. h + 1 \in Nat
    OBVIOUS
<1> QED BY <1>2, <1>7, <1>8, <1>9, <1>10, <1>11 DEF TradingInv

\* A step of the venue after which the market maker's live orders are among those
\* before, and which takes none of its messages.
LEMMA MakerWaits ==
    ASSUME TradingInv, IInv', MailTyped', TakerAlone', toVenue'[MM] = toVenue[MM] \/ (pc = "closed" /\ toVenue'[MM] = <<>>),
           \A i \in DOMAIN byEngineId' :
              byEngineId'[i].owner = MM => i \in DOMAIN byEngineId /\ byEngineId'[i] = byEngineId[i],
           UNCHANGED <<toClient, makerVars, ghostVars>>
    PROVE  TradingInv'
<1>1. LoopOK' /\ SidesOK' /\ FillsOK' /\ AccountOK'
    BY ClientFrame
<1>2. PICK h \in Nat : MailOK(h) /\ GraceOK(h)
    BY DEF TradingInv
<1>3. UNCHANGED <<pc, placed, todo, ticks, late, missed>>
    BY DEF makerVars, ghostVars
<1>4. LiveOK(h)'
    BY <1>2, <1>3 DEF MailOK, LiveOK
<1>5. InOrder(h)'
    BY <1>2, <1>3 DEF MailOK, InOrder
<1>6. pc' # "closed" => h + Len(toVenue'[MM]) = SentByMaker'
  <2>1. SentByMaker' = SentByMaker
      BY <1>3 DEF SentByMaker
  <2> QED BY <1>2, <1>3, <2>1 DEF MailOK
<1>7. GraceOK(h)'
    BY <1>2, <1>3 DEF GraceOK
<1> QED BY <1>1, <1>4, <1>5, <1>6, <1>7 DEF TradingInv, MailOK

\* The venue handles the noise trader's next message.
LEMMA NoiseHandled ==
    ASSUME TradingInv, VenueHandles(NT), IInv'
    PROVE  TradingInv'
<1> DEFINE m == Head(toVenue[NT])
<1>1. /\ toVenue[NT] # <<>> /\ toVenue' = [toVenue EXCEPT ![NT] = Tail(@)]
      /\ RejectNewOrder(NT, m) \/ AcceptNewOrder(NT, m) \/ RejectCancel(NT, m) \/ AcceptCancel(NT, m)
      /\ UNCHANGED <<toClient, makerVars, ghostVars, fires>>
    BY DEF VenueHandles, noiseVars
<1>2. NT \in Conns /\ MM \in Conns /\ MM # NT /\ MailTyped
    BY ClientsAssumption DEF Conns, TradingInv
<1>3. MailTyped' /\ toVenue'[MM] = toVenue[MM]
  <2>1. toVenue' \in [Conns -> Seq(Messages)]
      BY <1>1, <1>2, NextMessage
  <2>2. MailTyped'
      BY <1>1, <1>2, <2>1 DEF MailTyped
  <2> QED BY <1>1, <1>2, <2>2 DEF MailTyped
<1> HIDE DEF m
<1>4. CASE AcceptNewOrder(NT, m)
  <2>1. /\ taker' = nextEngineId /\ orders'[nextEngineId].owner = NT
        /\ byEngineId' = [i \in DOMAIN byEngineId \cup {nextEngineId} |->
                             IF i = nextEngineId
                             THEN [owner |-> NT, clientOrderId |-> m.clientOrderId, side |-> m.side,
                                   priceTicks |-> m.priceTicks, remaining |-> m.qty]
                             ELSE byEngineId[i]]
      BY <1>4 DEF AcceptNewOrder, Submit
  <2>2. TakerAlone'
      BY <1>2, <2>1 DEF TakerAlone
  <2>3. ASSUME NEW i \in DOMAIN byEngineId', byEngineId'[i].owner = MM
        PROVE  i \in DOMAIN byEngineId /\ byEngineId'[i] = byEngineId[i]
    <3>1. CASE i = nextEngineId
      <4>1. byEngineId'[i].owner = NT
          BY <2>1, <3>1
      <4> QED BY <1>2, <2>3, <4>1
    <3>2. CASE i # nextEngineId
        BY <2>1, <3>2
    <3> QED BY <3>1, <3>2
  <2> QED BY <1>1, <1>3, <2>2, <2>3, MakerWaits
<1>5. CASE RejectNewOrder(NT, m) \/ RejectCancel(NT, m) \/ AcceptCancel(NT, m)
  <2>1. taker' = NoTaker
      BY <1>5 DEF RejectNewOrder, RejectCancel, AcceptCancel, Receives, CancelOrders, bookVars
  <2>2. TakerAlone'
      BY <2>1 DEF TakerAlone
  <2>3. \A i \in DOMAIN byEngineId' : i \in DOMAIN byEngineId /\ byEngineId'[i] = byEngineId[i]
      BY <1>5 DEF RejectNewOrder, RejectCancel, AcceptCancel, Erase
  <2> QED BY <1>1, <1>3, <2>2, <2>3, MakerWaits
<1> QED BY <1>1, <1>4, <1>5

\* The venue drops the connection of a client that has closed.
LEMMA DropsKeep ==
    ASSUME TradingInv, NEW conn \in Conns, VenueDrops(conn), IInv'
    PROVE  TradingInv'
<1>1. /\ conn = MM => pc = "closed"
      /\ toVenue' = [toVenue EXCEPT ![conn] = <<>>]
      /\ UNCHANGED <<toClient, makerVars, ghostVars, fires>>
      /\ DropConnection(conn)
    BY DEF VenueDrops, noiseVars
<1>2. MM \in Conns /\ MailTyped
    BY ClientsAssumption DEF Conns, TradingInv
<1>3. MailTyped'
  <2>1. toVenue' \in [Conns -> Seq(Messages)]
      BY <1>1, <1>2 DEF MailTyped
  <2> QED BY <1>1, <1>2, <2>1 DEF MailTyped
<1>4. toVenue'[MM] = toVenue[MM] \/ (pc = "closed" /\ toVenue'[MM] = <<>>)
    BY <1>1, <1>2 DEF MailTyped
<1>5. taker' = NoTaker
    BY <1>1 DEF DropConnection, CancelOrders
<1>6. TakerAlone'
    BY <1>5 DEF TakerAlone
<1>7. \A i \in DOMAIN byEngineId' : i \in DOMAIN byEngineId /\ byEngineId'[i] = byEngineId[i]
    BY <1>1 DEF DropConnection, Erase
<1> QED BY <1>1, <1>3, <1>4, <1>6, <1>7, MakerWaits

\* A round of the match loop, or its end, with what it delivers.
LEMMA MatchesKeep ==
    ASSUME TradingInv, VenueMatches, IInv'
    PROVE  TradingInv'
<1>1. /\ UNCHANGED <<toVenue, makerVars, fires, late, missed>>
      /\ (\E r \in DOMAIN orders : FillAndRoute(r)) \/ SettleOrder
    BY DEF VenueMatches, noiseVars
<1>2. IInv /\ LoopOK /\ SidesOK /\ MailTyped /\ TakerAlone /\ FillsOK /\ AccountOK
    BY DEF TradingInv
<1>3. PICK h \in Nat : MailOK(h) /\ GraceOK(h)
    BY DEF TradingInv
<1>4. InOrder(h) /\ LiveOK(h)
    BY <1>3 DEF MailOK
<1>5. PICK fills : /\ AllLive(fills) /\ toClient' = [toClient EXCEPT ![MM] = @ \o fills]
                   /\ booked' = BookedAll(booked, fills)
    BY <1>2, <1>4, DeliverLive
<1>6. FillsOK' /\ AccountOK' /\ GraceOK(h)'
    BY <1>1, <1>2, <1>3, <1>4, <1>5, DeliveryBooked
<1>7. UNCHANGED <<pc, placed, todo, resting, orderSide, ticks>>
    BY <1>1 DEF makerVars
<1>8. LoopOK' /\ SidesOK' /\ InOrder(h)'
    BY <1>1, <1>2, <1>4, <1>7 DEF LoopOK, SidesOK, InOrder
<1>9. MailTyped'
    BY <1>1, <1>2, <1>5 DEF MailTyped
<1>10. LiveOK(h)' /\ TakerAlone'
  <2>1. CASE SettleOrder
    <3>1. taker' = NoTaker /\ byEngineId' = byEngineId
        BY <2>1 DEF SettleOrder, Settle
    <3> QED BY <1>4, <1>7, <3>1 DEF LiveOK, TakerAlone
  <2>2. ASSUME NEW r \in DOMAIN orders, FillAndRoute(r) PROVE LiveOK(h)' /\ TakerAlone'
    <3>1. Fill(r) /\ BookTypeOK
        BY <1>2, <2>2 DEF FillAndRoute, IInv, TypeOK
    <3>2. /\ taker' = taker
          /\ \A i \in DOMAIN orders' : i \in DOMAIN orders /\ orders'[i].owner = orders[i].owner
                                                           /\ orders'[i].side = orders[i].side
      <4>1. taker' = taker /\ taker \in DOMAIN orders
          BY <3>1, FillFacts
      <4>3. /\ DOMAIN orders' = {i \in DOMAIN orders : i = r => orders[r].qty > trade'.quantity}
            /\ \A i \in DOMAIN orders' :
                  orders'[i] = [side |-> orders[i].side, price |-> orders[i].price,
                                qty |-> IF i \in {taker, r} THEN orders[i].qty - trade'.quantity
                                        ELSE orders[i].qty,
                                seq |-> orders[i].seq, owner |-> orders[i].owner]
          BY <3>1, FillFacts
      <4>2. ASSUME NEW i \in DOMAIN orders'
            PROVE  i \in DOMAIN orders /\ orders'[i].owner = orders[i].owner /\ orders'[i].side = orders[i].side
        <5> DEFINE left == IF i \in {taker, r} THEN orders[i].qty - trade'.quantity ELSE orders[i].qty
        <5>1. orders'[i] = [side |-> orders[i].side, price |-> orders[i].price, qty |-> left,
                            seq |-> orders[i].seq, owner |-> orders[i].owner]
            BY <4>3
        <5> HIDE DEF left
        <5> QED BY <4>3, <5>1
      <4> QED BY <4>1, <4>2
    <3>3. TakerAlone'
      <4>1. taker \in DOMAIN orders
          BY <3>1, FillFacts
      <4>2. orders[taker].owner = MM => \A i \in DOMAIN orders :
                orders[i].owner = MM /\ orders[i].side = orders[taker].side => i = taker
          BY <1>2, <3>1 DEF TakerAlone, Fill
      <4>3. taker \in DOMAIN orders'
          BY <3>1, FillFacts
      <4> QED BY <3>2, <4>1, <4>2, <4>3 DEF TakerAlone
    <3>4. \A i \in DOMAIN byEngineId' :
             /\ i \in DOMAIN byEngineId /\ byEngineId'[i].owner = byEngineId[i].owner
             /\ byEngineId'[i].clientOrderId = byEngineId[i].clientOrderId
             /\ byEngineId'[i].side = byEngineId[i].side
      <4>1. TablesAfterFill(taker, r, trade'.quantity)
          BY <1>2, <2>2, FillTables
      <4>2. ASSUME NEW i \in DOMAIN byEngineId'
            PROVE  /\ i \in DOMAIN byEngineId /\ byEngineId'[i].owner = byEngineId[i].owner
                   /\ byEngineId'[i].clientOrderId = byEngineId[i].clientOrderId
                   /\ byEngineId'[i].side = byEngineId[i].side
        <5>1. i \in DOMAIN byEngineId
            BY <4>1 DEF TablesAfterFill
        <5> DEFINE left == IF i \in {taker, r} THEN byEngineId[i].remaining - trade'.quantity
                           ELSE byEngineId[i].remaining
        <5>2. byEngineId'[i] = [owner |-> byEngineId[i].owner,
                                clientOrderId |-> byEngineId[i].clientOrderId,
                                side |-> byEngineId[i].side, priceTicks |-> byEngineId[i].priceTicks,
                                remaining |-> left]
            BY <4>1 DEF TablesAfterFill
        <5> HIDE DEF left
        <5> QED BY <5>1, <5>2
      <4> QED BY <4>2
    <3>5. LiveOK(h)'
        BY <1>4, <1>7, <3>4 DEF LiveOK
    <3> QED BY <3>3, <3>5
  <2> QED BY <1>1, <2>1, <2>2
<1>11. MailOK(h)'
  <2>1. SentByMaker' = SentByMaker
      BY <1>7 DEF SentByMaker
  <2> QED BY <1>1, <1>3, <1>7, <1>8, <1>10, <2>1 DEF MailOK
<1> QED BY <1>6, <1>8, <1>9, <1>10, <1>11 DEF TradingInv

-----------------------------------------------------------------------------
(***************************************************************************)
(* The theorems.                                                           *)
(***************************************************************************)
LEMMA TradingInitInv == TradingInit => TradingInv
<1> SUFFICES ASSUME TradingInit PROVE TradingInv
    OBVIOUS
<1>1. /\ Init /\ toVenue = [c \in Conns |-> <<>>] /\ toClient = [c \in Conns |-> <<>>]
      /\ pc = "sleep" /\ position = Flat /\ todo = <<>> /\ resting = <<>>
      /\ orderSide = [cid \in {} |-> 0] /\ placed = 0 /\ ticks = 0 /\ fires = 0
      /\ booked = Flat /\ late = FALSE /\ missed = [inventory |-> 0, cash |-> 0, ids |-> {}]
    BY DEF TradingInit
<1>2. MM \in Conns /\ MaxTicks \in Nat /\ MaxFires \in Nat
    BY ClientsAssumption, LengthAssumption DEF Conns
<1>3. IInv
    BY <1>1, InitInv
<1>4. LoopOK
    BY <1>1, <1>2 DEF LoopOK
<1>5. SidesOK
  <2>1. {d \in 1..placed : d > placed - 4} = {}
      BY <1>1
  <2> QED BY <1>1, <2>1 DEF SidesOK
<1>6. MailTyped
  <2>1. <<>> \in Seq(Messages)
      OBVIOUS
  <2> QED BY <1>1, <1>2, <2>1 DEF MailTyped
<1>7. TakerAlone
    BY <1>1 DEF TakerAlone, Init, BookInit
<1>8. toVenue[MM] = <<>> /\ toClient[MM] = <<>>
    BY <1>1, <1>2
<1>9. FillsOK
  <2>1. <<>> \in Seq(Fills) /\ DOMAIN <<>> = {}
      OBVIOUS
  <2> QED BY <1>8, <2>1 DEF FillsOK
<1>10. AccountOK
  <2>1. Flat \in Money /\ Flat.inventory = 0 /\ Flat.cash = 0
      BY DEF Flat, Money
  <2>2. Bought(<<>>) = 0 /\ Earned(<<>>) = 0
    <3>1. Total(<<0>>) = 0 /\ Total(<<>>) = 0
        BY TotalOne
    <3>2. /\ [i \in DOMAIN <<>> |-> Booked(Flat, <<>>[i]).inventory] = <<>>
          /\ [i \in DOMAIN <<>> |-> Booked(Flat, <<>>[i]).cash] = <<>>
        OBVIOUS
    <3> QED BY <3>1, <3>2 DEF Bought, Earned
  <2>3. missed \in [inventory : Int, cash : Int, ids : SUBSET Nat] /\ missed.inventory = 0 /\ missed.cash = 0
      BY <1>1
  <2> QED BY <1>1, <1>8, <2>1, <2>2, <2>3, AccountIs
<1>11. MailOK(0)
  <2>1. DOMAIN byEngineId = {} /\ SentByMaker = 0 /\ DOMAIN <<>> = {} /\ Len(<<>>) = 0
      BY <1>1 DEF Init, SentByMaker
  <2> QED BY <1>8, <2>1 DEF MailOK, InOrder, LiveOK
<1>12. GraceOK(0)
  <2>1. DOMAIN toClient[MM] = {}
      BY <1>8
  <2> QED BY <1>1, <2>1 DEF GraceOK
<1> QED BY <1>3, <1>4, <1>5, <1>6, <1>7, <1>9, <1>10, <1>11, <1>12 DEF TradingInv

LEMMA TradingNextInv == TradingInv /\ [TradingNext]_tradingVars => TradingInv'
<1> SUFFICES ASSUME TradingInv, [TradingNext]_tradingVars PROVE TradingInv'
    OBVIOUS
<1>1. CASE UNCHANGED tradingVars
    BY <1>1, NoiseKeeps
<1>2. CASE TradingNext
  <2>1. IInv'
    <3>1. IInv /\ MailTyped
        BY DEF TradingInv
    <3>2. [Next]_vars
        BY <1>2, <3>1, VenueStep
    <3> QED BY <3>1, <3>2, NextInv
  <2>2. CASE Tick \/ ContinueTick \/ PlaceAsk \/ MakerReceives \/ MakerCloses
      BY <2>2, TickKeeps, ContinueKeeps, AskKeeps, ReceivesKeeps, ClosesKeeps
  <2>3. CASE Fire \/ NoiseReceives \/ NoiseCloses \/ PublishTop
      BY <2>3, NoiseKeeps
  <2>4. ASSUME NEW conn \in Conns, VenueHandles(conn) PROVE TradingInv'
    <3>1. conn = MM \/ conn = NT
        BY ClientsAssumption DEF Conns
    <3> QED BY <2>1, <2>4, <3>1, MakerHandled, NoiseHandled
  <2>5. ASSUME NEW conn \in Conns, VenueDrops(conn) PROVE TradingInv'
      BY <2>1, <2>5, DropsKeep
  <2>6. CASE VenueMatches
      BY <2>1, <2>6, MatchesKeep
  <2> QED BY <1>2, <2>2, <2>3, <2>4, <2>5, <2>6 DEF TradingNext
<1> QED BY <1>1, <1>2

\* The inductive invariant of the whole loop.
THEOREM TradingInvariant == TradingSpec => []TradingInv
    BY TradingInitInv, TradingNextInv, PTL DEF TradingSpec

\* The market maker has one live order on a side at most.
LEMMA OneLive ==
    ASSUME IInv, LoopOK, NEW h \in Nat, LiveOK(h), NEW i \in DOMAIN byEngineId, NEW j \in DOMAIN byEngineId,
           byEngineId[i].owner = MM, byEngineId[j].owner = MM, byEngineId[i].side = byEngineId[j].side
    PROVE  i = j
<1> DEFINE c == byEngineId[i].clientOrderId
           d == byEngineId[j].clientOrderId
<1>1. /\ c \in 1..placed /\ h \in {Place(c), Place(c) + 1} /\ byEngineId[i].side = SideOf(c)
      /\ d \in 1..placed /\ h \in {Place(d), Place(d) + 1} /\ byEngineId[j].side = SideOf(d)
      /\ placed \in Nat
    BY LengthAssumption DEF LiveOK, LoopOK
<1>2. byConn[MM][c].engineId = i /\ byConn[MM][d].engineId = j
  <2>1. /\ byConn[MM][c] = [state |-> "Resting", engineId |-> i]
        /\ byConn[MM][d] = [state |-> "Resting", engineId |-> j]
      BY DEF IInv, RecordsMatchLiveOrders
  <2> QED BY <2>1
<1> HIDE DEF c, d
<1>3. c \in Nat \ {0} /\ d \in Nat \ {0} /\ SideOf(c) = SideOf(d)
  <2>1. c \in Nat \ {0} /\ d \in Nat \ {0}
      BY <1>1
  <2>2. SideOf(c) = SideOf(d)
      BY <1>1, Zenon
  <2> QED BY <2>1, <2>2
<1>4. Place(c) \in Nat /\ Place(d) \in Nat
    BY <1>3, PlaceBounds
<1>5. /\ Place(c) = Place(d) => c = d
      /\ Place(c) # Place(d) + 1 /\ Place(d) # Place(c) + 1
    BY <1>3, PlaceGaps
<1>6. c = d
    BY <1>1, <1>4, <1>5
<1> QED BY <1>2, <1>6

\* A set whose members are all equal has at most one.
LEMMA AtMostOne ==
    ASSUME NEW S, \A x, y \in S : x = y
    PROVE  Cardinality(S) <= 1
<1>1. CASE S = {}
    BY <1>1, FS_EmptySet
<1>2. CASE S # {}
  <2>1. PICK x \in S : S = {x}
      BY <1>2
  <2>2. Cardinality({x}) = 1
      BY FS_Singleton
  <2> QED BY <2>1, <2>2
<1> QED BY <1>1, <1>2

\* The venue holds at most one bid and one ask of the market maker, however the
\* cancels, the new pair and the noise trader's orders interleave.
THEOREM OnePairStaysResting == TradingSpec => []OnePairResting
<1>1. TradingInv => OnePairResting
  <2> SUFFICES ASSUME TradingInv PROVE OnePairResting
      OBVIOUS
  <2>1. IInv /\ LoopOK /\ SidesOK /\ MailTyped /\ TakerAlone /\ AccountOK
      BY DEF TradingInv
  <2>2. PICK h \in Nat : LiveOK(h)
      BY DEF TradingInv, MailOK
  <2>3. TradingTypeOK
    <3>1. /\ placed \in 0..(2 * MaxTicks) /\ MaxTicks \in Nat
          /\ DOMAIN orderSide = {d \in 1..placed : d > placed - 4}
        BY <2>1, LengthAssumption DEF LoopOK, SidesOK
    <3>2. DOMAIN orderSide \subseteq Cids
      <4>1. \A c \in DOMAIN orderSide : c \in 1..(2 * MaxTicks)
          BY <3>1
      <4> QED BY <4>1, SessionCids
    <3>3. Cardinality(DOMAIN orderSide) <= 4
      <4> DEFINE a == placed - 3
                 last4 == a..placed
      <4>1. a \in Int /\ placed \in Int /\ a <= placed /\ placed - a + 1 = 4
          BY <3>1
      <4>2. DOMAIN orderSide \subseteq last4
          BY <3>1
      <4>3. IsFiniteSet(last4) /\ Cardinality(last4) = 4
        <5> HIDE DEF a
        <5>1. IsFiniteSet(a..placed) /\ Cardinality(a..placed) = IF a > placed THEN 0 ELSE placed - a + 1
            BY <4>1, FS_Interval
        <5> QED BY <4>1, <5>1
      <4> HIDE DEF last4
      <4> QED BY <4>2, <4>3, FS_Subset
    <3>4. position \in [inventory : Int, cash : Int]
        BY <2>1 DEF AccountOK, Money
    <3>5. \A conn \in Conns : \A i \in DOMAIN toVenue[conn] : toVenue[conn][i] \in Messages
        BY <2>1 DEF MailTyped
    <3>6. TypeOK /\ pc \in {"sleep", "cancel", "ask", "closed"}
        BY <2>1 DEF IInv, LoopOK
    <3> QED BY <3>2, <3>3, <3>4, <3>5, <3>6 DEF TradingTypeOK
  <2>4. ASSUME NEW side \in Sides, NEW i \in MakerOrders(side), NEW j \in MakerOrders(side)
        PROVE  i = j
    <3>1. /\ i \in DOMAIN orders /\ orders[i].owner = MM /\ orders[i].side = side
          /\ j \in DOMAIN orders /\ orders[j].owner = MM /\ orders[j].side = side
        BY DEF MakerOrders
    <3>2. NoTaker \notin DOMAIN orders
        BY <2>1, OrderIdsAssumption DEF IInv, TypeOK, BookTypeOK, NoTaker
    <3>3. CASE i = taker \/ j = taker
        BY <2>1, <3>1, <3>2, <3>3 DEF TakerAlone
    <3>4. CASE i # taker /\ j # taker
      <4>1. orders[i].qty > 0 /\ orders[j].qty > 0
          BY <2>1, <3>1, <3>4 DEF IInv, TypeOK, BookTypeOK, Resting
      <4>2. /\ i \in DOMAIN byEngineId /\ byEngineId[i].owner = MM /\ byEngineId[i].side = side
            /\ j \in DOMAIN byEngineId /\ byEngineId[j].owner = MM /\ byEngineId[j].side = side
          BY <2>1, <3>1, <4>1 DEF IInv, LiveOrdersMatchBook
      <4> QED BY <2>1, <2>2, <4>2, OneLive
    <3> QED BY <3>3, <3>4
  <2>5. \A side \in Sides : Cardinality(MakerOrders(side)) <= 1
      BY <2>4, AtMostOne
  <2> QED BY <2>3, <2>5 DEF OnePairResting
<1> QED BY <1>1, TradingInvariant, PTL

\* The market maker's books, with the fills on the wire and those it dropped, are
\* the venue's, and nothing is dropped while the cancels of a tick are answered
\* before the next.
THEOREM PositionStaysAccounted == TradingSpec => []PositionAccounted
<1>1. TradingInv => PositionAccounted
    BY DEF TradingInv, AccountOK, GraceOK, PositionAccounted
<1> QED BY <1>1, TradingInvariant, PTL

\* A step drops fills only of orders at least two pairs old.
MissedStep == \A cid \in missed'.ids \ missed.ids : cid <= placed - 4

\* _on_fill drops a fill only when its order's cancel left a whole tick ago.
THEOREM MissedStaysAfterGrace == TradingSpec => MissedOnlyAfterGrace
<1>1. ASSUME TradingInv, MakerReceives PROVE MissedStep
  <2> DEFINE f == Head(toClient[MM])
  <2>1. toClient[MM] # <<>> /\ toClient[MM] \in Seq(Fills)
      BY <1>1 DEF MakerReceives, TradingInv, FillsOK
  <2>2. 1 \in DOMAIN toClient[MM] /\ f = toClient[MM][1]
      BY <2>1, HeadTailProperties, LenProperties
  <2>3. f.clientOrderId \in 1..placed /\ placed \in Nat
      BY <1>1, <2>2, LengthAssumption DEF TradingInv, FillsOK, LoopOK
  <2>4. CASE f.clientOrderId \in DOMAIN orderSide
    <3>1. missed' = missed
        BY <1>1, <2>4 DEF MakerReceives
    <3> QED BY <3>1 DEF MissedStep
  <2>5. CASE f.clientOrderId \notin DOMAIN orderSide
    <3>1. missed' = [Booked(missed, f) EXCEPT !.ids = @ \cup {f.clientOrderId}]
        BY <1>1, <2>5 DEF MakerReceives
    <3>2. f.clientOrderId <= placed - 4
        BY <1>1, <2>3, <2>5 DEF TradingInv, SidesOK
    <3>3. missed \in [inventory : Int, cash : Int, ids : SUBSET Nat]
        BY <1>1 DEF TradingInv, AccountOK
    <3> HIDE DEF f
    <3>4. missed'.ids = missed.ids \cup {f.clientOrderId}
        BY <3>1, <3>3 DEF Booked
    <3> QED BY <3>2, <3>4 DEF MissedStep
  <2> QED BY <2>4, <2>5
<1>2. ASSUME TradingNext, ~MakerReceives PROVE missed' = missed
    BY <1>2 DEF TradingNext, Tick, ContinueTick, PlaceAsk, MakerCloses, Fire, NoiseReceives,
       NoiseCloses, VenueHandles, VenueDrops, VenueMatches, PublishTop, ghostVars
<1>3. TradingInv /\ [TradingNext]_tradingVars => [MissedStep]_tradingVars
    BY <1>1, <1>2 DEF MissedStep
<1> QED BY <1>3, TradingInvariant, PTL DEF MissedOnlyAfterGrace, TradingSpec, MissedStep

-----------------------------------------------------------------------------
(***************************************************************************)
(* The market maker is never rejected.                                     *)
(***************************************************************************)
\* Whatever the fair value, the quotes at the position the market maker has are
\* prices the venue accepts.
QuotesLegal ==
    \A fairValue \in FairValues :
        LET q == ComputeQuote(fairValue, position.inventory) IN q.bid \in Prices /\ q.ask \in Prices

\* Bid and ask are a tick apart at least, and there is room for a pair of the
\* market maker beside all orders of the noise trader.
QuotingConditions == Spread >= Unit /\ SoftCap >= MaxFires + 2

Legal(q) == q.bid \in Prices /\ q.ask \in Prices /\ q.bid < q.ask

NoReject == \A i \in DOMAIN sent : ~(sent[i].to = MM /\ sent[i].type = "REJECT")

\* The venue has no record of the market maker's id c.
Unknown(c) == byConn[MM][c].state = "Absent"

\* Ids are new when their NewOrder arrives.
NewIdsUnknown ==
    /\ \A i \in DOMAIN toVenue[MM] :
          toVenue[MM][i].type = "NewOrder" => Unknown(toVenue[MM][i].clientOrderId)
    /\ \A c \in (placed + 1)..(2 * MaxTicks) : Unknown(c)
    /\ pc = "ask" => Unknown(placed)

\* The noise trader's orders, on their way and live, are numbered.
NoiseNumbered ==
    /\ \A i \in DOMAIN toVenue[NT] : toVenue[NT][i].clientOrderId \in 1..fires
    /\ \A i \in DOMAIN byEngineId : byEngineId[i].owner = NT => byEngineId[i].clientOrderId \in 1..fires

\* A NewOrder with every field there and valid, at price p.
OrderAt(m, p) ==
    m.symbolKnown /\ m.hasSide /\ m.hasPrice /\ m.priceTicks = p /\ m.hasQty /\ m.qty # 0

\* p are the prices of the market maker's orders by id: every bid is below the
\* ask that follows it.
Priced(p) ==
    /\ \A c, d \in 1..placed : Place(c) = Place(d) + 1 => p[d] < p[c]
    /\ \A i \in DOMAIN toVenue[MM] :
          toVenue[MM][i].type = "NewOrder" => OrderAt(toVenue[MM][i], p[toVenue[MM][i].clientOrderId])
    /\ \A i \in DOMAIN byEngineId :
          byEngineId[i].owner = MM => byEngineId[i].priceTicks = p[byEngineId[i].clientOrderId]
    /\ pc = "ask" => p[placed] = quote.ask

MakerInv ==
    /\ NoReject /\ NewIdsUnknown /\ NoiseNumbered
    /\ pc \in {"cancel", "ask"} => Legal(quote)
    /\ \E p : Priced(p)

\* Numbers a divisor apart have different quotients.
LEMMA QuotientGrows ==
    ASSUME NEW a \in Int, NEW b \in Int, NEW d \in Nat, d > 0, b >= a + d
    PROVE  a \div d < b \div d
<1>1. \A n \in Int : n \div d \in Int /\ n % d \in 0..(d - 1) /\ n = d * (n \div d) + (n % d)
    OBVIOUS
<1> DEFINE x == a \div d
           y == b \div d
           r == a % d
           s == b % d
<1>2. /\ x \in Int /\ r \in 0..(d - 1) /\ a = d * x + r
      /\ y \in Int /\ s \in 0..(d - 1) /\ b = d * y + s
    BY <1>1
<1> HIDE DEF x, y, r, s
<1>3. ASSUME x >= y PROVE FALSE
  <2>1. d * (x - y) >= 0
      BY <1>2, <1>3
  <2>2. d * x = d * y + d * (x - y)
      BY <1>2
  <2> DEFINE u == d * x
             v == d * y
             w == d * (x - y)
  <2>3. /\ u \in Int /\ v \in Int /\ w \in Int /\ w >= 0 /\ u = v + w
        /\ a = u + r /\ b = v + s
      BY <1>2, <2>1, <2>2
  <2> HIDE DEF u, v, w
  <2> QED BY <1>2, <2>3
<1>4. x < y
    BY <1>2, <1>3
<1> QED BY <1>4 DEF x, y

\* The prices of a quote that are in range are legal.
LEMMA QuoteLegal ==
    ASSUME QuotingConditions, QuotesLegal, NEW fairValue \in FairValues, position \in Money
    PROVE  Legal(ComputeQuote(fairValue, position.inventory))
<1> DEFINE x == fairValue - SkewK * position.inventory
           h == Spread \div 2
<1>1. /\ Unit \in Nat /\ Unit > 0 /\ Spread \in Nat /\ Spread % 2 = 0 /\ SkewK \in Nat
      /\ fairValue \in Nat /\ Spread >= Unit
  <2>1. /\ Unit \in Nat /\ Unit % 2 = 1 /\ Spread \in Nat /\ Spread % 2 = 0 /\ SkewK \in Nat
        /\ fairValue \in Nat /\ Spread >= Unit
      BY QuotingAssumption DEF QuotingConditions
  <2>2. Unit # 0
      BY <2>1
  <2> QED BY <2>1, <2>2
<1>2. x \in Int /\ h \in Nat /\ Spread = 2 * h
  <2>1. position.inventory \in Int
      BY DEF Money
  <2>2. SkewK * position.inventory \in Int
      BY <1>1, <2>1
  <2> QED BY <1>1, <2>2
<1>3. ComputeQuote(fairValue, position.inventory) = [bid |-> Round(x - h), ask |-> Round(x + h)]
    BY DEF ComputeQuote
<1> HIDE DEF x, h
<1>4. Round(x - h) < Round(x + h)
  <2> DEFINE a == 2 * (x - h) + Unit
             b == 2 * (x + h) + Unit
             d == 2 * Unit
  <2>1. a \in Int /\ b \in Int /\ d \in Nat /\ d > 0 /\ b >= a + d
      BY <1>1, <1>2
  <2> HIDE DEF a, b, d
  <2>2. a \div d < b \div d
      BY <2>1, QuotientGrows
  <2> QED BY <2>2 DEF a, b, d, Round
<1> QED BY <1>3, <1>4 DEF Legal, QuotesLegal

\* A message joins one queue.
LEMMA QueueGrows ==
    ASSUME MailTyped, NEW conn \in Conns, NEW m, Send(conn, m)
    PROVE  /\ \A i \in DOMAIN toVenue'[conn] :
                 \/ toVenue'[conn][i] = m
                 \/ i \in DOMAIN toVenue[conn] /\ toVenue'[conn][i] = toVenue[conn][i]
           /\ \A other \in Conns : other # conn => toVenue'[other] = toVenue[other]
<1> DEFINE q == toVenue[conn]
<1>1. toVenue' = [toVenue EXCEPT ![conn] = Append(q, m)] /\ toVenue \in [Conns -> Seq(Messages)]
    BY DEF MailTyped, Send
<1>2. toVenue'[conn] = Append(q, m) /\ q \in Seq(Messages)
    BY <1>1
<1> HIDE DEF q
<1>3. \A i \in DOMAIN Append(q, m) : Append(q, m)[i] = m \/ (i \in DOMAIN q /\ Append(q, m)[i] = q[i])
    BY <1>2
<1> QED BY <1>1, <1>2, <1>3 DEF q

\* The venue takes the first message of one queue.
LEMMA QueueShrinks ==
    ASSUME MailTyped, NEW conn \in Conns, VenueHandles(conn)
    PROVE  /\ 1 \in DOMAIN toVenue[conn] /\ Head(toVenue[conn]) = toVenue[conn][1]
           /\ Head(toVenue[conn]) \in Messages
           /\ \A i \in DOMAIN toVenue'[conn] :
                 /\ i \in Nat \ {0} /\ i + 1 \in DOMAIN toVenue[conn]
                 /\ toVenue'[conn][i] = toVenue[conn][i + 1]
           /\ \A other \in Conns : other # conn => toVenue'[other] = toVenue[other]
<1> DEFINE q == toVenue[conn]
<1>1. /\ toVenue' = [toVenue EXCEPT ![conn] = Tail(q)] /\ toVenue \in [Conns -> Seq(Messages)]
      /\ q # <<>>
    BY DEF MailTyped, VenueHandles
<1>2. toVenue'[conn] = Tail(q) /\ q \in Seq(Messages)
    BY <1>1
<1> HIDE DEF q
<1>3. /\ 1 \in DOMAIN q /\ Head(q) = q[1] /\ Head(q) \in Messages
      /\ \A i \in DOMAIN Tail(q) : i \in Nat \ {0} /\ i + 1 \in DOMAIN q /\ Tail(q)[i] = q[i + 1]
    BY <1>1, <1>2, HeadTailProperties, LenProperties
<1> QED BY <1>1, <1>2, <1>3 DEF q

\* The ask of a pair comes one place after its bid, and nothing else does.
LEMMA AskFollows ==
    ASSUME NEW c \in Nat \ {0}, NEW d \in Nat \ {0}, Place(c) = Place(d) + 1
    PROVE  c = d + 1 /\ SideOf(c) = "Sell"
<1>1. PICK j \in Nat : c = 2 * j + (c % 2)
    BY Halves
<1>2. PICK k \in Nat : d = 2 * k + (d % 2)
    BY Halves
<1> DEFINE x == c % 2
           y == d % 2
<1>3. x \in {0, 1} /\ y \in {0, 1}
    BY PlaceBounds
<1>4. Place(c) = 2 * c - 2 + x /\ Place(d) = 2 * d - 2 + y
    BY DEF Place
<1>5. c = 2 * j + x /\ d = 2 * k + y
    BY <1>1, <1>2
<1>6. x = 0 => SideOf(c) = "Sell"
    BY DEF SideOf
<1> HIDE DEF x, y
<1>7. x = 0 /\ y = 1
    BY <1>3, <1>4, <1>5
<1>8. c = d + 1
    BY <1>3, <1>4, <1>5, <1>7
<1> QED BY <1>6, <1>7, <1>8

\* When a NewOrder of the market maker arrives there is room for it.
LEMMA RoomForNext ==
    ASSUME QuotingConditions, IInv, LoopOK, NEW h \in Nat, LiveOK(h), NoiseNumbered, fires \in 0..MaxFires,
           NEW c \in Nat \ {0}, Place(c) = h + 1
    PROVE  ~VenueFull
<1> DEFINE D == DOMAIN byEngineId
           A == {i \in D : byEngineId[i].owner = MM}
           B == {i \in D : byEngineId[i].owner = NT}
           T == 1..MaxFires
           f == [i \in B |-> byEngineId[i].clientOrderId]
<1>1. MaxFires \in Nat /\ SoftCap \in Nat /\ SoftCap >= MaxFires + 2 /\ placed \in Nat
    BY LengthAssumption, SoftCapAssumption DEF QuotingConditions, LoopOK
<1>2. D = A \cup B
  <2>1. \A i \in D : byEngineId[i].owner \in Conns
      BY DEF IInv, TypeOK, LiveOrder
  <2> QED BY <2>1, ClientsAssumption DEF Conns
<1>3. \A i \in D : byConn[byEngineId[i].owner][byEngineId[i].clientOrderId] = [state |-> "Resting", engineId |-> i]
    BY DEF IInv, RecordsMatchLiveOrders
<1>4. Cardinality(A) <= 1
  <2>1. ASSUME NEW i \in A, NEW j \in A PROVE i = j
    <3> DEFINE x == byEngineId[i].clientOrderId
               y == byEngineId[j].clientOrderId
    <3>1. h + 1 = Place(x) + 1 /\ h + 1 = Place(y) + 1 /\ x \in 1..placed /\ y \in 1..placed
        BY LiveWhenNext DEF LiveOK
    <3>2. byConn[MM][x] = [state |-> "Resting", engineId |-> i] /\ byConn[MM][y] = [state |-> "Resting", engineId |-> j]
        BY <1>3
    <3> HIDE DEF x, y
    <3>3. x \in Nat \ {0} /\ y \in Nat \ {0}
        BY <1>1, <3>1
    <3>4. Place(x) \in Nat /\ Place(y) \in Nat
        BY <3>3, PlaceBounds
    <3>5. x = y
        BY <3>1, <3>3, <3>4, PlaceGaps
    <3>6. [state |-> "Resting", engineId |-> i].engineId = [state |-> "Resting", engineId |-> j].engineId
        BY <3>2, <3>5
    <3> QED BY <3>6
  <2> HIDE DEF A
  <2> QED BY <2>1, AtMostOne
<1>5. IsFiniteSet(B) /\ Cardinality(B) <= MaxFires
  <2>1. IsFiniteSet(T) /\ Cardinality(T) = MaxFires
    <3> DEFINE a == 1
           n == MaxFires
    <3>0. a \in Int /\ n \in Int
        BY <1>1
    <3>1. T = a..n /\ n - a + 1 = MaxFires /\ (a > n => MaxFires = 0)
        BY <1>1
    <3> HIDE DEF a, n, T
    <3>2. IsFiniteSet(a..n) /\ Cardinality(a..n) = IF a > n THEN 0 ELSE n - a + 1
        BY <3>0, FS_Interval
    <3> QED BY <3>1, <3>2
  <2>2. \A i \in B : f[i] \in T
    <3>1. \A i \in B : byEngineId[i].clientOrderId \in 1..fires
        BY DEF NoiseNumbered
    <3> QED BY <1>1, <3>1
  <2>3. ASSUME NEW i \in B, NEW j \in B, f[i] = f[j] PROVE i = j
    <3>1. /\ byConn[NT][f[i]] = [state |-> "Resting", engineId |-> i]
          /\ byConn[NT][f[j]] = [state |-> "Resting", engineId |-> j]
        BY <1>3
    <3>2. [state |-> "Resting", engineId |-> i].engineId = [state |-> "Resting", engineId |-> j].engineId
        BY <2>3, <3>1
    <3> QED BY <3>2
  <2>4. f \in [B -> T]
      BY <2>2
  <2> HIDE DEF f, B, T
  <2>5. f \in Injection(B, T)
      BY <2>3, <2>4 DEF Injection, IsInjective
  <2> QED BY <2>1, <2>5, FS_Injection
<1>6. IsFiniteSet(A)
  <2>1. D \subseteq DOMAIN orders /\ IsFiniteSet(DOMAIN orders)
      BY DEF IInv, LiveOrdersMatchBook, PoolInv
  <2>2. A \subseteq DOMAIN orders
      BY <2>1
  <2> QED BY <2>1, <2>2, FS_Subset
<1> HIDE DEF A, B, D
<1>7. Cardinality(D) = Cardinality(A) + Cardinality(B) - Cardinality(A \cap B)
    BY <1>2, <1>5, <1>6, FS_Union
<1>8. /\ Cardinality(A) \in Nat /\ Cardinality(B) \in Nat /\ Cardinality(A \cap B) \in Nat
  <2>1. A \cap B \subseteq A
      OBVIOUS
  <2>2. IsFiniteSet(A \cap B)
      BY <1>6, <2>1, FS_Subset
  <2> QED BY <1>5, <1>6, <2>2, FS_CardinalityType
<1>9. ~(Cardinality(D) >= SoftCap)
    BY <1>1, <1>4, <1>5, <1>7, <1>8
<1> QED BY <1>9 DEF VenueFull, D

\* The market maker's next NewOrder is admissible.
LEMMA NextAdmitted ==
    ASSUME QuotingConditions, TradingInv, MakerInv, VenueHandles(MM), Head(toVenue[MM]).type = "NewOrder"
    PROVE  RejectReason(MM, Head(toVenue[MM])) = "none"
<1> DEFINE m == Head(toVenue[MM])
<1>1. PICK h \in Nat : InOrder(h) /\ LiveOK(h)
    BY DEF TradingInv, MailOK
<1>2. LoopOK /\ MailTyped /\ IInv /\ fires \in 0..MaxFires /\ NoiseNumbered /\ NewIdsUnknown
    BY DEF TradingInv, MailTyped, MakerInv
<1>3. MM \in Conns
    BY ClientsAssumption DEF Conns
<1>4. m \in Messages /\ WellSent(m, placed) /\ PlaceOf(m) = h + 1 /\ m.clientOrderId \in Nat \ {0}
    BY <1>1, <1>2, NextOfMaker DEF VenueHandles
<1>5. 1 \in DOMAIN toVenue[MM] /\ m = toVenue[MM][1]
    BY <1>2, <1>3, QueueShrinks
<1>6. PICK p : Priced(p)
    BY DEF MakerInv
<1> DEFINE c == m.clientOrderId
<1>7. OrderAt(m, p[c]) /\ Unknown(c) /\ m.type = "NewOrder"
    BY <1>2, <1>5, <1>6 DEF Priced, NewIdsUnknown
<1> HIDE DEF m
<1>8. m.hasClientOrderId /\ m.side = SideOf(c) /\ Place(c) = h + 1 /\ c \in 1..placed
    BY <1>4, <1>7 DEF WellSent, PlaceOf
<1>9. ~VenueFull
    BY <1>1, <1>2, <1>4, <1>8, RoomForNext
<1>10. ~WouldSelfCross(MM, m.side, m.priceTicks)
  <2>1. ASSUME NEW i \in DOMAIN byEngineId, byEngineId[i].owner = MM
        PROVE  ~Crosses(m.side, m.priceTicks, byEngineId[i].priceTicks)
    <3> DEFINE d == byEngineId[i].clientOrderId
    <3>1. h + 1 = Place(d) + 1 /\ d \in 1..placed
        BY <1>1, <1>2, <1>4, <1>8, <2>1, LiveWhenNext DEF LiveOK
    <3>2. byEngineId[i].priceTicks = p[d]
        BY <1>6, <2>1 DEF Priced
    <3>3. byEngineId[i].priceTicks \in Nat /\ m.priceTicks \in Nat
      <4>1. byEngineId[i] \in LiveOrder
          BY <1>2 DEF IInv, TypeOK
      <4>2. byEngineId[i].priceTicks \in Prices
          BY <4>1 DEF LiveOrder
      <4>3. m.priceTicks \in Prices
          BY <1>4, <1>7, MessagesAssumption DEF OrderAt
      <4> QED BY <4>2, <4>3, PricesAssumption
    <3> HIDE DEF d, c
    <3>4. d \in Nat \ {0} /\ c \in Nat \ {0}
      <4>1. placed \in Nat
          BY <1>2, LengthAssumption DEF LoopOK
      <4> QED BY <1>4, <1>8, <3>1, <4>1 DEF c
    <3>5. Place(c) = Place(d) + 1
        BY <1>8, <3>1
    <3>6. SideOf(c) = "Sell"
        BY <3>4, <3>5, AskFollows
    <3>7. p[d] < p[c]
        BY <1>6, <1>8, <3>1, <3>5 DEF Priced
    <3>8. m.priceTicks = p[c]
        BY <1>7 DEF OrderAt
    <3> QED BY <1>8, <3>2, <3>3, <3>6, <3>7, <3>8 DEF Crosses
  <2> QED BY <2>1 DEF WouldSelfCross
<1>11. RejectReason(MM, m) = "none"
    BY <1>7, <1>8, <1>9, <1>10 DEF RejectReason, OrderAt, Unknown
<1> QED BY <1>11 DEF m

\* A message of the market maker only changes the record of its id, which is
\* known when it is a Cancel that does.
LEMMA OthersStayUnknown ==
    ASSUME TradingInv, VenueHandles(MM), NEW c \in Cids, Unknown(c),
           LET m == Head(toVenue[MM]) IN m.type = "NewOrder" => c # m.clientOrderId
    PROVE  Unknown(c)'
<1> DEFINE m == Head(toVenue[MM])
<1>1. byConn \in [Conns -> [Cids -> ClientRecord]] /\ MM \in Conns
    BY ClientsAssumption DEF TradingInv, IInv, TypeOK, Conns
<1>2. RejectNewOrder(MM, m) \/ AcceptNewOrder(MM, m) \/ RejectCancel(MM, m) \/ AcceptCancel(MM, m)
    BY DEF VenueHandles
<1>3. m.type = "NewOrder" => c # m.clientOrderId
    OBVIOUS
<1> HIDE DEF m
<1>4. CASE RejectNewOrder(MM, m) \/ RejectCancel(MM, m)
    BY <1>4 DEF RejectNewOrder, RejectCancel, Unknown
<1>5. CASE AcceptNewOrder(MM, m)
  <2>1. m.type = "NewOrder" /\ byConn' = [byConn EXCEPT ![MM][m.clientOrderId] = [state |-> "Resting", engineId |-> nextEngineId]]
      BY <1>5 DEF AcceptNewOrder, Receives
  <2>2. byConn'[MM][c] = byConn[MM][c]
      BY <1>1, <1>3, <2>1
  <2> QED BY <2>2 DEF Unknown
<1>6. CASE AcceptCancel(MM, m)
  <2>1. byConn' = [byConn EXCEPT ![MM][m.clientOrderId].state = "Cancelled"] /\ CancelRejectReason(MM, m) = "none"
      BY <1>6 DEF AcceptCancel
  <2>2. byConn[MM][m.clientOrderId].state # "Absent"
      BY <2>1 DEF CancelRejectReason
  <2>3. c # m.clientOrderId
      BY <2>2 DEF Unknown
  <2>4. byConn'[MM][c] = byConn[MM][c]
      BY <1>1, <2>1, <2>3
  <2> QED BY <2>4 DEF Unknown
<1> QED BY <1>2, <1>4, <1>5, <1>6

\* The venue handles the market maker's next message.
LEMMA HandledAccepted ==
    ASSUME QuotingConditions, TradingInv, MakerInv, VenueHandles(MM)
    PROVE  MakerInv'
<1> DEFINE m == Head(toVenue[MM])
<1>1. PICK h \in Nat : MailOK(h)
    BY DEF TradingInv
<1>2. /\ InOrder(h) /\ LiveOK(h) /\ LoopOK /\ MailTyped /\ IInv
      /\ NewIdsUnknown /\ NoiseNumbered
    BY <1>1 DEF TradingInv, MailOK, MakerInv
<1>3. MM \in Conns /\ NT \in Conns /\ MM # NT
    BY ClientsAssumption DEF Conns
<1>4. m \in Messages /\ WellSent(m, placed) /\ PlaceOf(m) = h + 1 /\ m.clientOrderId \in Nat \ {0}
    BY <1>2, NextOfMaker DEF VenueHandles
<1>5. /\ 1 \in DOMAIN toVenue[MM] /\ m = toVenue[MM][1]
      /\ \A i \in DOMAIN toVenue'[MM] :
            i \in Nat \ {0} /\ i + 1 \in DOMAIN toVenue[MM] /\ toVenue'[MM][i] = toVenue[MM][i + 1]
      /\ toVenue'[NT] = toVenue[NT]
    BY <1>2, <1>3, QueueShrinks
<1>6. UNCHANGED <<pc, placed, quote, ticks, fires>>
    BY DEF VenueHandles, makerVars, noiseVars
<1>7. AcceptNewOrder(MM, m) \/ RejectCancel(MM, m) \/ AcceptCancel(MM, m)
  <2>1. RejectNewOrder(MM, m) \/ AcceptNewOrder(MM, m) \/ RejectCancel(MM, m) \/ AcceptCancel(MM, m)
      BY DEF VenueHandles
  <2>2. ~RejectNewOrder(MM, m)
      BY NextAdmitted DEF RejectNewOrder, Receives
  <2> QED BY <2>1, <2>2
<1>8. placed \in Nat /\ MaxTicks \in Nat /\ placed <= 2 * MaxTicks
    BY <1>2, LengthAssumption DEF LoopOK
<1>9. \A c \in Cids : Unknown(c) /\ (m.type = "NewOrder" => c # m.clientOrderId) => byConn'[MM][c].state = "Absent"
  <2>1. ASSUME NEW c \in Cids, Unknown(c), m.type = "NewOrder" => c # m.clientOrderId PROVE Unknown(c)'
      BY <2>1, OthersStayUnknown
  <2> QED BY <2>1 DEF Unknown
<1>10. NoReject'
  <2>1. \/ sent' = <<Ack(MM, m.clientOrderId, nextEngineId)>>
        \/ sent' = <<CancelReject(MM, EchoCid(m), CancelRejectReason(MM, m))>>
        \/ sent' = <<CancelAck(MM, m.clientOrderId, byConn[MM][m.clientOrderId].engineId)>>
      BY <1>7 DEF AcceptNewOrder, RejectCancel, AcceptCancel
  <2>2. \A to, cid, x : /\ Ack(to, cid, x).type # "REJECT" /\ CancelReject(to, cid, x).type # "REJECT"
                        /\ CancelAck(to, cid, x).type # "REJECT"
      BY DEF Ack, CancelReject, CancelAck
  <2>3. \E x : sent' = <<x>> /\ x.type # "REJECT"
      BY <2>1, <2>2
  <2>4. PICK x : sent' = <<x>> /\ x.type # "REJECT"
      BY <2>3
  <2>5. DOMAIN sent' = {1} /\ sent'[1] = x
      BY <2>4
  <2> QED BY <2>4, <2>5 DEF NoReject
<1> HIDE DEF m
<1>11. NewIdsUnknown'
  <2>1. ASSUME NEW i \in DOMAIN toVenue'[MM], toVenue'[MM][i].type = "NewOrder"
        PROVE  byConn'[MM][toVenue'[MM][i].clientOrderId].state = "Absent"
    <3> DEFINE n == toVenue[MM][i + 1]
    <3>1. i \in Nat \ {0} /\ i + 1 \in DOMAIN toVenue[MM] /\ toVenue'[MM][i] = n
        BY <1>5
    <3>2. n.type = "NewOrder" /\ Unknown(n.clientOrderId) /\ WellSent(n, placed) /\ PlaceOf(n) = h + (i + 1)
        BY <1>2, <2>1, <3>1 DEF NewIdsUnknown, InOrder
    <3>3. n.clientOrderId \in 1..placed
        BY <3>2 DEF WellSent
    <3>4. n.clientOrderId \in 1..(2 * MaxTicks)
        BY <1>8, <3>3
    <3>5. n.clientOrderId \in Cids
        BY <3>4, SessionCids
    <3> HIDE DEF n
    <3>6. ASSUME m.type = "NewOrder", n.clientOrderId = m.clientOrderId PROVE FALSE
      <4>1. PlaceOf(n) = PlaceOf(m)
          BY <3>2, <3>6 DEF PlaceOf
      <4> QED BY <1>4, <3>1, <3>2, <4>1
    <3>7. byConn'[MM][n.clientOrderId].state = "Absent"
        BY <1>9, <3>2, <3>5, <3>6
    <3> QED BY <3>1, <3>7 DEF n
  <2>2. ASSUME NEW c \in (placed' + 1)..(2 * MaxTicks) PROVE byConn'[MM][c].state = "Absent"
    <3>1. c \in (placed + 1)..(2 * MaxTicks) /\ c \in 1..(2 * MaxTicks) /\ c > placed
        BY <1>6, <1>8
    <3>2. Unknown(c) /\ c \in Cids
        BY <1>2, <3>1, SessionCids DEF NewIdsUnknown
    <3>3. m.clientOrderId \in 1..placed
        BY <1>4 DEF WellSent
    <3>4. c # m.clientOrderId
        BY <1>8, <3>1, <3>3
    <3> QED BY <1>9, <3>2, <3>4
  <2>3. ASSUME pc' = "ask" PROVE byConn'[MM][placed'].state = "Absent"
    <3>1. pc = "ask" /\ Unknown(placed) /\ placed = 2 * ticks + 2 /\ ticks \in Nat /\ ticks < MaxTicks
        BY <1>2, <1>6, <1>8, <2>3 DEF NewIdsUnknown, LoopOK
    <3>2. placed \in 1..(2 * MaxTicks)
        BY <1>8, <3>1
    <3>3. placed \in Cids
        BY <3>2, SessionCids
    <3>4. ASSUME m.type = "NewOrder", placed = m.clientOrderId PROVE FALSE
      <4>1. Place(placed) = h + 1
          BY <1>4, <3>4 DEF PlaceOf
      <4>2. placed % 2 = 0
          BY <3>1
      <4>3. h + 1 = 4 * ticks + 2
          BY <3>1, <4>1, <4>2 DEF Place
      <4>4. h + Len(toVenue[MM]) = 4 * ticks + 1
          BY <1>1, <3>1 DEF MailOK, SentByMaker
      <4> DEFINE l == Len(toVenue[MM])
      <4>5. l \in Nat /\ 1 \in 1..l
        <5>1. toVenue[MM] \in Seq(Messages)
            BY <1>2, <1>3 DEF MailTyped
        <5> QED BY <1>5, <5>1, LenProperties
      <4>6. h + l = 4 * ticks + 1
          BY <4>4
      <4> HIDE DEF l
      <4> QED BY <3>1, <4>3, <4>5, <4>6
    <3> QED BY <1>6, <1>9, <3>1, <3>3, <3>4
  <2> QED BY <2>1, <2>2, <2>3 DEF NewIdsUnknown, Unknown
<1>12. \/ DOMAIN byEngineId' \subseteq DOMAIN byEngineId /\ \A i \in DOMAIN byEngineId' : byEngineId'[i] = byEngineId[i]
       \/ /\ m.type = "NewOrder"
          /\ \A i \in DOMAIN byEngineId' :
                IF i = nextEngineId THEN /\ byEngineId'[i].owner = MM /\ byEngineId'[i].clientOrderId = m.clientOrderId
                                         /\ byEngineId'[i].priceTicks = m.priceTicks
                ELSE i \in DOMAIN byEngineId /\ byEngineId'[i] = byEngineId[i]
  <2>1. CASE RejectCancel(MM, m) \/ AcceptCancel(MM, m)
      BY <2>1 DEF RejectCancel, AcceptCancel, Erase
  <2>2. CASE AcceptNewOrder(MM, m)
      BY <2>2 DEF AcceptNewOrder, Receives
  <2> QED BY <1>7, <2>1, <2>2
<1>13. NoiseNumbered'
    BY <1>2, <1>3, <1>5, <1>6, <1>12 DEF NoiseNumbered
<1>14. PICK p : Priced(p)
    BY DEF MakerInv
<1>15. Priced(p)'
  <2>1. \A i \in DOMAIN toVenue'[MM] :
           toVenue'[MM][i].type = "NewOrder" => OrderAt(toVenue'[MM][i], p[toVenue'[MM][i].clientOrderId])
      BY <1>5, <1>14 DEF Priced
  <2>2. m.type = "NewOrder" => m.priceTicks = p[m.clientOrderId]
      BY <1>5, <1>14 DEF Priced, OrderAt
  <2>3. \A i \in DOMAIN byEngineId' :
           byEngineId'[i].owner = MM => byEngineId'[i].priceTicks = p[byEngineId'[i].clientOrderId]
      BY <1>12, <1>14, <2>2 DEF Priced
  <2> QED BY <1>6, <1>14, <2>1, <2>3 DEF Priced, OrderAt
<1>16. pc' \in {"cancel", "ask"} => Legal(quote)'
    BY <1>6 DEF MakerInv, Legal
<1> QED BY <1>10, <1>11, <1>13, <1>15, <1>16 DEF MakerInv

\* A step of the venue for another connection, or of the match loop: the market
\* maker's records and queue stay, and its live orders are among those before.
LEMMA OthersKeep ==
    ASSUME MakerInv, NoReject', NoiseNumbered', UNCHANGED <<pc, placed, quote>>,
           toVenue'[MM] = toVenue[MM] \/ toVenue'[MM] = <<>>,
           \A c \in Cids : Unknown(c) => Unknown(c)',
           \A i \in DOMAIN toVenue[MM] : toVenue[MM][i].type = "NewOrder" => toVenue[MM][i].clientOrderId \in Cids,
           pc = "ask" => placed \in Cids, \A c \in (placed + 1)..(2 * MaxTicks) : c \in Cids,
           \A i \in DOMAIN byEngineId' : byEngineId'[i].owner = MM =>
              /\ i \in DOMAIN byEngineId /\ byEngineId[i].owner = MM
              /\ byEngineId'[i].clientOrderId = byEngineId[i].clientOrderId
              /\ byEngineId'[i].priceTicks = byEngineId[i].priceTicks
    PROVE  MakerInv'
<1>1. NewIdsUnknown /\ (pc \in {"cancel", "ask"} => Legal(quote))
    BY DEF MakerInv
<1>2. \A c : Unknown(c)' <=> byConn'[MM][c].state = "Absent"
    BY DEF Unknown
<1>3. NewIdsUnknown'
  <2>1. ASSUME NEW i \in DOMAIN toVenue'[MM], toVenue'[MM][i].type = "NewOrder"
        PROVE  byConn'[MM][toVenue'[MM][i].clientOrderId].state = "Absent"
    <3>1. i \in DOMAIN toVenue[MM] /\ toVenue'[MM][i] = toVenue[MM][i]
        OBVIOUS
    <3> QED BY <1>1, <1>2, <2>1, <3>1 DEF NewIdsUnknown
  <2>2. ASSUME NEW c \in (placed' + 1)..(2 * MaxTicks) PROVE byConn'[MM][c].state = "Absent"
      BY <1>1, <1>2 DEF NewIdsUnknown
  <2>3. pc' = "ask" => byConn'[MM][placed'].state = "Absent"
      BY <1>1, <1>2 DEF NewIdsUnknown
  <2> QED BY <2>1, <2>2, <2>3 DEF NewIdsUnknown, Unknown
<1>4. PICK p : Priced(p)
    BY DEF MakerInv
<1>5. Priced(p)'
    BY <1>4 DEF Priced, OrderAt
<1>6. pc' \in {"cancel", "ask"} => Legal(quote)'
    BY <1>1 DEF Legal
<1> QED BY <1>3, <1>5, <1>6 DEF MakerInv

\* The ids in MakerInv are client order ids.
LEMMA IdsInSession ==
    ASSUME TradingInv
    PROVE  /\ \A i \in DOMAIN toVenue[MM] : toVenue[MM][i].clientOrderId \in Cids
           /\ pc = "ask" => placed \in Cids
           /\ \A c \in (placed + 1)..(2 * MaxTicks) : c \in Cids
<1>1. placed \in 0..(2 * MaxTicks) /\ MaxTicks \in Nat /\ (pc = "ask" => placed > 0)
    BY LengthAssumption DEF TradingInv, LoopOK
<1>2. \A c \in 1..placed : c \in 1..(2 * MaxTicks)
    BY <1>1
<1>3. \A c \in (placed + 1)..(2 * MaxTicks) : c \in 1..(2 * MaxTicks)
    BY <1>1
<1>4. \A i \in DOMAIN toVenue[MM] : toVenue[MM][i].clientOrderId \in 1..placed
    BY DEF TradingInv, MailOK, InOrder, WellSent
<1>5. pc = "ask" => placed \in 1..(2 * MaxTicks)
    BY <1>1
<1> QED BY <1>2, <1>3, <1>4, <1>5, SessionCids

\* The venue handles the noise trader's next message.
LEMMA NoiseAnswered ==
    ASSUME TradingInv, MakerInv, VenueHandles(NT)
    PROVE  MakerInv'
<1> DEFINE m == Head(toVenue[NT])
<1>1. MM \in Conns /\ NT \in Conns /\ MM # NT /\ MailTyped /\ NoiseNumbered
    BY ClientsAssumption DEF Conns, TradingInv, MakerInv
<1>2. /\ 1 \in DOMAIN toVenue[NT] /\ m = toVenue[NT][1]
      /\ \A i \in DOMAIN toVenue'[NT] : i + 1 \in DOMAIN toVenue[NT] /\ toVenue'[NT][i] = toVenue[NT][i + 1]
      /\ toVenue'[MM] = toVenue[MM]
    BY <1>1, QueueShrinks
<1>3. UNCHANGED <<pc, placed, quote, fires>>
    BY DEF VenueHandles, makerVars, noiseVars
<1>4. RejectNewOrder(NT, m) \/ AcceptNewOrder(NT, m) \/ RejectCancel(NT, m) \/ AcceptCancel(NT, m)
    BY DEF VenueHandles
<1> HIDE DEF m
<1>5. NoReject'
  <2>1. \/ sent' = <<Reject(NT, EchoCid(m), RejectReason(NT, m))>>
        \/ sent' = <<Ack(NT, m.clientOrderId, nextEngineId)>>
        \/ sent' = <<CancelReject(NT, EchoCid(m), CancelRejectReason(NT, m))>>
        \/ sent' = <<CancelAck(NT, m.clientOrderId, byConn[NT][m.clientOrderId].engineId)>>
      BY <1>4 DEF RejectNewOrder, AcceptNewOrder, RejectCancel, AcceptCancel
  <2>2. \A to, cid, x : /\ Ack(to, cid, x).to = to /\ CancelReject(to, cid, x).to = to
                        /\ CancelAck(to, cid, x).to = to /\ Reject(to, cid, x).to = to
      BY DEF Ack, CancelReject, CancelAck, Reject
  <2>3. PICK x : sent' = <<x>> /\ x.to = NT
      BY <2>1, <2>2
  <2>4. DOMAIN sent' = {1} /\ sent'[1] = x
      BY <2>3
  <2> QED BY <1>1, <2>3, <2>4 DEF NoReject
<1>6. byConn'[MM] = byConn[MM]
  <2>1. byConn \in [Conns -> [Cids -> ClientRecord]]
      BY DEF TradingInv, IInv, TypeOK
  <2> QED BY <1>1, <1>4, <2>1 DEF RejectNewOrder, AcceptNewOrder, RejectCancel, AcceptCancel
<1>7. \A i \in DOMAIN byEngineId' :
         \/ i \in DOMAIN byEngineId /\ byEngineId'[i] = byEngineId[i]
         \/ byEngineId'[i].owner = NT /\ byEngineId'[i].clientOrderId = m.clientOrderId
  <2>1. CASE RejectNewOrder(NT, m) \/ RejectCancel(NT, m) \/ AcceptCancel(NT, m)
      BY <2>1 DEF RejectNewOrder, RejectCancel, AcceptCancel, Erase
  <2>2. CASE AcceptNewOrder(NT, m)
    <3>1. byEngineId' = [i \in DOMAIN byEngineId \cup {nextEngineId} |->
                            IF i = nextEngineId
                            THEN [owner |-> NT, clientOrderId |-> m.clientOrderId, side |-> m.side,
                                  priceTicks |-> m.priceTicks, remaining |-> m.qty]
                            ELSE byEngineId[i]]
        BY <2>2 DEF AcceptNewOrder
    <3> QED BY <3>1
  <2> QED BY <1>4, <2>1, <2>2
<1>8. NoiseNumbered'
    BY <1>1, <1>2, <1>3, <1>7 DEF NoiseNumbered
<1>9. \A c \in Cids : Unknown(c) => Unknown(c)'
    BY <1>6 DEF Unknown
<1>10. \A i \in DOMAIN byEngineId' : byEngineId'[i].owner = MM =>
              /\ i \in DOMAIN byEngineId /\ byEngineId[i].owner = MM
              /\ byEngineId'[i].clientOrderId = byEngineId[i].clientOrderId
              /\ byEngineId'[i].priceTicks = byEngineId[i].priceTicks
    BY <1>1, <1>7
<1> QED BY <1>2, <1>3, <1>5, <1>8, <1>9, <1>10, IdsInSession, OthersKeep

\* The venue drops a connection.
LEMMA DroppedAccepted ==
    ASSUME TradingInv, MakerInv, NEW conn \in Conns, VenueDrops(conn)
    PROVE  MakerInv'
<1>1. /\ MM \in Conns /\ NT \in Conns /\ toVenue \in [Conns -> Seq(Messages)] /\ NoiseNumbered
      /\ byConn \in [Conns -> [Cids -> ClientRecord]]
    BY ClientsAssumption DEF Conns, TradingInv, MailTyped, MakerInv, IInv, TypeOK
<1>2. /\ UNCHANGED <<pc, placed, quote, fires>> /\ DropConnection(conn)
      /\ toVenue' = [toVenue EXCEPT ![conn] = <<>>]
    BY DEF VenueDrops, makerVars, noiseVars
<1>3. /\ sent' = <<>> /\ byConn' = [byConn EXCEPT ![conn] = [cid \in Cids |-> Absent]]
      /\ \A i \in DOMAIN byEngineId' : i \in DOMAIN byEngineId /\ byEngineId'[i] = byEngineId[i]
    BY <1>2 DEF DropConnection, Erase
<1>4. NoReject'
    BY <1>3 DEF NoReject
<1>5. \A c \in Conns : toVenue'[c] = toVenue[c] \/ toVenue'[c] = <<>>
    BY <1>1, <1>2
<1>6. NoiseNumbered'
    BY <1>1, <1>2, <1>3, <1>5 DEF NoiseNumbered
<1>7. \A c \in Cids : Unknown(c) => Unknown(c)'
  <2>1. Absent.state = "Absent"
      BY DEF Absent
  <2> QED BY <1>1, <1>3, <2>1 DEF Unknown
<1> QED BY <1>1, <1>2, <1>3, <1>4, <1>5, <1>6, <1>7, IdsInSession, OthersKeep

\* A round of the match loop, or its end.
LEMMA MatchesAccepted ==
    ASSUME TradingInv, MakerInv, VenueMatches
    PROVE  MakerInv'
<1>1. /\ MM \in Conns /\ IInv /\ NoiseNumbered /\ byConn \in [Conns -> [Cids -> ClientRecord]]
    BY ClientsAssumption DEF Conns, TradingInv, MakerInv, IInv, TypeOK
<1>2. UNCHANGED <<toVenue, pc, placed, quote, fires>>
    BY DEF VenueMatches, makerVars, noiseVars
<1>3. CASE SettleOrder
  <2>1. sent' = <<>> /\ UNCHANGED <<byEngineId, byConn>>
      BY <1>3 DEF SettleOrder
  <2>2. NoReject' /\ NoiseNumbered'
      BY <1>1, <1>2, <2>1 DEF NoReject, NoiseNumbered
  <2>3. \A c \in Cids : Unknown(c) => Unknown(c)'
      BY <2>1 DEF Unknown
  <2> QED BY <1>2, <2>1, <2>2, <2>3, IdsInSession, OthersKeep
<1>4. ASSUME NEW r \in DOMAIN orders, FillAndRoute(r) PROVE MakerInv'
  <2>1. taker \in DOMAIN byEngineId /\ r \in DOMAIN byEngineId /\ TablesAfterFill(taker, r, trade'.quantity)
      BY <1>1, <1>4, FillTables
  <2>2. \A i \in DOMAIN byEngineId' :
           /\ i \in DOMAIN byEngineId /\ byEngineId'[i].owner = byEngineId[i].owner
           /\ byEngineId'[i].clientOrderId = byEngineId[i].clientOrderId
           /\ byEngineId'[i].priceTicks = byEngineId[i].priceTicks
    <3>1. ASSUME NEW i \in DOMAIN byEngineId'
          PROVE  /\ i \in DOMAIN byEngineId /\ byEngineId'[i].owner = byEngineId[i].owner
                 /\ byEngineId'[i].clientOrderId = byEngineId[i].clientOrderId
                 /\ byEngineId'[i].priceTicks = byEngineId[i].priceTicks
      <4>1. i \in DOMAIN byEngineId
          BY <2>1 DEF TablesAfterFill
      <4> DEFINE left == IF i \in {taker, r} THEN byEngineId[i].remaining - trade'.quantity
                         ELSE byEngineId[i].remaining
      <4>2. byEngineId'[i] = [owner |-> byEngineId[i].owner,
                              clientOrderId |-> byEngineId[i].clientOrderId,
                              side |-> byEngineId[i].side, priceTicks |-> byEngineId[i].priceTicks,
                              remaining |-> left]
          BY <2>1 DEF TablesAfterFill
      <4> HIDE DEF left
      <4> QED BY <4>1, <4>2
    <3> QED BY <3>1
  <2>3. NoiseNumbered'
      BY <1>1, <1>2, <2>2 DEF NoiseNumbered
  <2>4. \A c \in Cids : Unknown(c) => Unknown(c)'
    <3>1. ASSUME NEW c \in Cids, Unknown(c) PROVE byConn'[MM][c] = byConn[MM][c]
      <4>1. \A k \in {taker, r} : byConn[byEngineId[k].owner][byEngineId[k].clientOrderId].state = "Resting"
        <5>1. \A k \in DOMAIN byEngineId :
                 byConn[byEngineId[k].owner][byEngineId[k].clientOrderId] = [state |-> "Resting", engineId |-> k]
            BY <1>1 DEF IInv, RecordsMatchLiveOrders
        <5>2. ASSUME NEW k \in {taker, r}
              PROVE  byConn[byEngineId[k].owner][byEngineId[k].clientOrderId].state = "Resting"
          <6>1. byConn[byEngineId[k].owner][byEngineId[k].clientOrderId] = [state |-> "Resting", engineId |-> k]
              BY <2>1, <5>1
          <6>2. [state |-> "Resting", engineId |-> k].state = "Resting"
              OBVIOUS
          <6> QED BY <6>1, <6>2
        <5> QED BY <5>2
      <4>2. \A k \in {taker, r} : ~(MM = byEngineId[k].owner /\ c = byEngineId[k].clientOrderId)
          BY <3>1, <4>1 DEF Unknown
      <4>3. byConn'[MM][c] =
                IF \E k \in {taker, r} : /\ MM = byEngineId[k].owner /\ c = byEngineId[k].clientOrderId
                                         /\ byEngineId[k].remaining = trade'.quantity
                THEN [state |-> "Filled", engineId |-> byConn[MM][c].engineId]
                ELSE byConn[MM][c]
          BY <1>1, <2>1 DEF TablesAfterFill
      <4> QED BY <4>2, <4>3
    <3> QED BY <3>1 DEF Unknown
  <2>5. NoReject'
    <3>1. PICK i, j \in {taker, r} : Reported(i, j)
        BY <1>1, <1>4, RoundIsFair
    <3>2. PICK m1, m2 : /\ sent' = Append(Append(<<>>, m1), m2)
                        /\ FairTo(m1, byEngineId[i], "Buy", trade'.quantity, trade'.price)
                        /\ FairTo(m2, byEngineId[j], "Sell", trade'.quantity, trade'.price)
        BY <3>1 DEF Reported
    <3>3. m1.type # "REJECT" /\ m2.type # "REJECT"
        BY <3>2 DEF FairTo
    <3>4. DOMAIN sent' = {1, 2} /\ sent'[1] = m1 /\ sent'[2] = m2
        BY <3>2, TwoMessages
    <3> QED BY <3>3, <3>4 DEF NoReject
  <2> QED BY <1>2, <2>2, <2>3, <2>4, <2>5, IdsInSession, OthersKeep
<1> QED BY <1>3, <1>4 DEF VenueMatches

\* Steps that leave the venue, the queues and the quote alone.
LEMMA QuietKeeps ==
    ASSUME TradingInv, MakerInv, UNCHANGED <<vars, toVenue, placed, quote, fires>>,
           pc' = pc \/ pc' = "closed"
    PROVE  MakerInv'
<1>1. UNCHANGED <<byEngineId, byConn, sent>>
    BY DEF vars, tableVars
<1>2. NoReject /\ NewIdsUnknown /\ NoiseNumbered /\ (pc \in {"cancel", "ask"} => Legal(quote))
    BY DEF MakerInv
<1>3. NoReject' /\ NoiseNumbered'
    BY <1>1, <1>2 DEF NoReject, NoiseNumbered
<1>4. NewIdsUnknown'
    BY <1>1, <1>2 DEF NewIdsUnknown, Unknown
<1>5. PICK p : Priced(p)
    BY DEF MakerInv
<1>6. Priced(p)'
    BY <1>1, <1>5 DEF Priced, OrderAt
<1> QED BY <1>2, <1>3, <1>4, <1>6 DEF MakerInv, Legal

\* The noise trader fires.
LEMMA FireAccepted ==
    ASSUME TradingInv, MakerInv, Fire
    PROVE  MakerInv'
<1>1. /\ MM \in Conns /\ NT \in Conns /\ MM # NT /\ MailTyped /\ fires \in Nat
      /\ NoiseNumbered
    BY ClientsAssumption, LengthAssumption DEF Conns, TradingInv, MailTyped, MakerInv
<1>2. UNCHANGED <<byEngineId, byConn, sent, pc, placed, quote>> /\ fires' = fires + 1
    BY DEF Fire, makerVars, vars, tableVars
<1>3. PICK m : Send(NT, m) /\ m.clientOrderId = fires + 1
  <2>1. \E side \in Sides, qty \in NoiseQuantities :
            Send(NT, NewOrder(fires + 1, side, IF side = "Buy" THEN top.ask ELSE top.bid, qty))
      BY DEF Fire
  <2>2. \A side, price, qty : NewOrder(fires + 1, side, price, qty).clientOrderId = fires + 1
      BY DEF NewOrder
  <2> QED BY <2>1, <2>2
<1>4. /\ \A i \in DOMAIN toVenue'[NT] :
            toVenue'[NT][i] = m \/ (i \in DOMAIN toVenue[NT] /\ toVenue'[NT][i] = toVenue[NT][i])
      /\ toVenue'[MM] = toVenue[MM]
    BY <1>1, <1>3, QueueGrows
<1>5. \A c \in 1..fires : c \in 1..fires'
    BY <1>1, <1>2
<1>6. fires + 1 \in 1..fires'
    BY <1>1, <1>2
<1>7. NoiseNumbered'
    BY <1>1, <1>2, <1>3, <1>4, <1>5, <1>6 DEF NoiseNumbered
<1>8. NoReject'
    BY <1>2 DEF MakerInv, NoReject
<1>9. \A c \in Cids : Unknown(c) => Unknown(c)'
    BY <1>2 DEF Unknown
<1> QED BY <1>2, <1>4, <1>7, <1>8, <1>9, IdsInSession, OthersKeep

\* The market maker sends a message of an id that is new to the venue, or a Cancel.
LEMMA NewIdSent ==
    ASSUME TradingInv, MakerInv, UNCHANGED <<vars, fires>>, NEW m, Send(MM, m),
           NEW k \in Nat, placed' = placed + k, placed' \in 0..(2 * MaxTicks),
           m.type = "NewOrder" => Unknown(m.clientOrderId),
           pc' = "ask" => placed' \in (placed + 1)..(2 * MaxTicks)
    PROVE  NoReject' /\ NoiseNumbered' /\ NewIdsUnknown'
<1>1. /\ MM \in Conns /\ NT \in Conns /\ MM # NT /\ MailTyped /\ LoopOK
      /\ NoReject /\ NewIdsUnknown /\ NoiseNumbered
    BY ClientsAssumption DEF Conns, TradingInv, MakerInv
<1>2. UNCHANGED <<byEngineId, byConn, sent>>
    BY DEF vars, tableVars
<1>3. /\ \A i \in DOMAIN toVenue'[MM] :
            toVenue'[MM][i] = m \/ (i \in DOMAIN toVenue[MM] /\ toVenue'[MM][i] = toVenue[MM][i])
      /\ toVenue'[NT] = toVenue[NT]
    BY <1>1, QueueGrows
<1>4. NoReject' /\ NoiseNumbered'
    BY <1>1, <1>2, <1>3 DEF NoReject, NoiseNumbered
<1>5. placed \in Nat /\ MaxTicks \in Nat
    BY <1>1, LengthAssumption DEF LoopOK
<1>6. ASSUME NEW i \in DOMAIN toVenue'[MM], toVenue'[MM][i].type = "NewOrder"
      PROVE  byConn'[MM][toVenue'[MM][i].clientOrderId].state = "Absent"
    BY <1>1, <1>2, <1>3, <1>6 DEF NewIdsUnknown, Unknown
<1>7. ASSUME NEW c \in (placed' + 1)..(2 * MaxTicks) PROVE byConn'[MM][c].state = "Absent"
  <2>1. c \in (placed + 1)..(2 * MaxTicks)
      BY <1>5
  <2> QED BY <1>1, <1>2, <2>1 DEF NewIdsUnknown, Unknown
<1>8. pc' = "ask" => byConn'[MM][placed'].state = "Absent"
    BY <1>1, <1>2 DEF NewIdsUnknown, Unknown
<1> QED BY <1>4, <1>6, <1>7, <1>8 DEF NewIdsUnknown, Unknown

\* The market maker places a bid.
LEMMA BidPlaced ==
    ASSUME TradingInv, MakerInv, UNCHANGED <<vars, fires>>, pc \in {"sleep", "cancel"}, ticks < MaxTicks,
           NEW q, Legal(q), quote' = q, PlaceBid(q)
    PROVE  MakerInv'
<1> DEFINE m == NewOrder(placed + 1, "Buy", q.bid, QuoteSize)
<1>1. MM \in Conns /\ MailTyped /\ LoopOK /\ NewIdsUnknown
    BY ClientsAssumption DEF Conns, TradingInv, MakerInv
<1>2. /\ ticks \in Nat /\ MaxTicks \in Nat /\ placed = 2 * ticks /\ placed' = placed + 2
      /\ placed' \in (placed + 1)..(2 * MaxTicks) /\ placed + 1 \in (placed + 1)..(2 * MaxTicks)
      /\ placed \in Nat /\ pc' = "ask" /\ Send(MM, m)
  <2>1. ticks \in Nat /\ MaxTicks \in Nat /\ placed = 2 * ticks
      BY <1>1, LengthAssumption DEF LoopOK
  <2>2. placed' = placed + 2 /\ pc' = "ask" /\ Send(MM, m)
      BY DEF PlaceBid
  <2> QED BY <2>1, <2>2
<1>3. m.type = "NewOrder" /\ m.clientOrderId = placed + 1 /\ OrderAt(m, q.bid)
  <2>1. QuoteSize # 0
      BY QuotingAssumption, QuantitiesAssumption
  <2> QED BY <2>1 DEF NewOrder, OrderAt, Legal
<1>4. /\ byEngineId' = byEngineId
      /\ \A i \in DOMAIN toVenue'[MM] :
            toVenue'[MM][i] = m \/ (i \in DOMAIN toVenue[MM] /\ toVenue'[MM][i] = toVenue[MM][i])
    BY <1>1, <1>2, QueueGrows DEF vars, tableVars
<1> HIDE DEF m
<1>5. NoReject' /\ NoiseNumbered' /\ NewIdsUnknown'
  <2>1. Unknown(m.clientOrderId)
      BY <1>1, <1>2, <1>3 DEF NewIdsUnknown
  <2>2. 2 \in Nat /\ placed' \in 0..(2 * MaxTicks)
      BY <1>2
  <2> QED BY <1>2, <2>1, <2>2, NewIdSent
<1>6. PICK p : Priced(p)
    BY DEF MakerInv
<1>7. PICK r : /\ \A c \in 1..placed : r[c] = p[c]
               /\ r[placed + 1] = q.bid /\ r[placed + 2] = q.ask
  <2> DEFINE f == [c \in Nat |-> IF c = placed + 1 THEN q.bid ELSE IF c = placed + 2 THEN q.ask ELSE p[c]]
  <2>1. /\ \A c \in 1..placed : f[c] = p[c]
        /\ f[placed + 1] = q.bid /\ f[placed + 2] = q.ask
      BY <1>2
  <2> QED BY <2>1
<1>8. \A c, d \in 1..placed' : Place(c) = Place(d) + 1 => r[d] < r[c]
  <2>1. ASSUME NEW c \in 1..placed', NEW d \in 1..placed', Place(c) = Place(d) + 1
        PROVE  r[d] < r[c]
    <3>1. c \in Nat \ {0} /\ d \in Nat \ {0}
        BY <1>2
    <3>2. c = d + 1 /\ SideOf(c) = "Sell"
        BY <2>1, <3>1, AskFollows
    <3>3. c # placed + 1
      <4>1. c % 2 # 1
          BY <3>2 DEF SideOf
      <4> QED BY <1>2, <4>1
    <3>4. CASE c \in 1..placed
      <4>1. d \in 1..placed
          BY <1>2, <3>1, <3>2, <3>4
      <4> QED BY <1>6, <1>7, <2>1, <3>4, <4>1 DEF Priced
    <3>5. CASE c = placed + 2
      <4>1. d = placed + 1
          BY <1>2, <3>1, <3>2, <3>5
      <4> QED BY <1>7, <3>5, <4>1 DEF Legal
    <3> QED BY <1>2, <3>1, <3>3, <3>4, <3>5
  <2> QED BY <2>1
<1>9. ASSUME NEW i \in DOMAIN toVenue'[MM], toVenue'[MM][i].type = "NewOrder"
      PROVE  OrderAt(toVenue'[MM][i], r[toVenue'[MM][i].clientOrderId])
  <2>1. CASE toVenue'[MM][i] = m
      BY <1>3, <1>7, <2>1
  <2>2. CASE i \in DOMAIN toVenue[MM] /\ toVenue'[MM][i] = toVenue[MM][i]
    <3>1. toVenue[MM][i].clientOrderId \in 1..placed
        BY <2>2 DEF TradingInv, MailOK, InOrder, WellSent
    <3> QED BY <1>6, <1>7, <1>9, <2>2, <3>1 DEF Priced
  <2> QED BY <1>4, <2>1, <2>2
<1>10. ASSUME NEW i \in DOMAIN byEngineId, byEngineId[i].owner = MM
       PROVE  byEngineId[i].priceTicks = r[byEngineId[i].clientOrderId]
  <2>1. byEngineId[i].clientOrderId \in 1..placed
      BY <1>10 DEF TradingInv, MailOK, LiveOK
  <2> QED BY <1>6, <1>7, <1>10, <2>1 DEF Priced
<1>11. r[placed'] = quote'.ask
    BY <1>2, <1>7
<1>12. Priced(r)'
  <2>1. \A i \in DOMAIN toVenue'[MM] :
           toVenue'[MM][i].type = "NewOrder" => OrderAt(toVenue'[MM][i], r[toVenue'[MM][i].clientOrderId])
      BY <1>9
  <2>2. \A i \in DOMAIN byEngineId' :
           byEngineId'[i].owner = MM => byEngineId'[i].priceTicks = r[byEngineId'[i].clientOrderId]
      BY <1>4, <1>10
  <2> QED BY <1>8, <1>11, <2>1, <2>2 DEF Priced, OrderAt
<1> QED BY <1>5, <1>12 DEF MakerInv, Legal

\* The market maker sends a Cancel.
LEMMA CancelSent ==
    ASSUME TradingInv, MakerInv, UNCHANGED <<vars, fires, placed>>, NEW cid, Send(MM, Cancel(cid)),
           pc' = "cancel", Legal(quote')
    PROVE  MakerInv'
<1>1. MM \in Conns /\ MailTyped /\ LoopOK
    BY ClientsAssumption DEF Conns, TradingInv
<1>2. PICK m : Send(MM, m) /\ m.type # "NewOrder"
  <2>1. Cancel(cid).type # "NewOrder"
      BY DEF Cancel
  <2> QED BY <2>1
<1>3. byEngineId' = byEngineId /\ placed' = placed
    BY DEF vars, tableVars
<1>4. NoReject' /\ NoiseNumbered' /\ NewIdsUnknown'
  <2>1. 0 \in Nat /\ placed' = placed + 0 /\ placed' \in 0..(2 * MaxTicks)
      BY <1>1, LengthAssumption DEF LoopOK
  <2> QED BY <1>2, <2>1, NewIdSent
<1>5. \A i \in DOMAIN toVenue'[MM] :
         toVenue'[MM][i] = m \/ (i \in DOMAIN toVenue[MM] /\ toVenue'[MM][i] = toVenue[MM][i])
    BY <1>1, <1>2, QueueGrows
<1>6. PICK p : Priced(p)
    BY DEF MakerInv
<1>7. Priced(p)'
    BY <1>2, <1>3, <1>5, <1>6 DEF Priced, OrderAt
<1> QED BY <1>4, <1>7 DEF MakerInv, Legal

\* The market maker places the ask of its pair.
LEMMA AskPlaced ==
    ASSUME TradingInv, MakerInv, PlaceAsk
    PROVE  MakerInv'
<1> DEFINE m == NewOrder(placed, "Sell", quote.ask, QuoteSize)
<1>1. MM \in Conns /\ MailTyped /\ LoopOK /\ NewIdsUnknown /\ pc = "ask" /\ Legal(quote)
    BY ClientsAssumption DEF Conns, TradingInv, MakerInv, PlaceAsk
<1>2. UNCHANGED <<vars, fires, placed, quote>> /\ pc' = "sleep" /\ Send(MM, m) /\ byEngineId' = byEngineId
    BY DEF PlaceAsk, noiseVars, vars, tableVars
<1>3. m.type = "NewOrder" /\ m.clientOrderId = placed /\ OrderAt(m, quote.ask)
  <2>1. QuoteSize # 0
      BY QuotingAssumption, QuantitiesAssumption
  <2> QED BY <1>1, <2>1 DEF NewOrder, OrderAt, Legal
<1>4. \A i \in DOMAIN toVenue'[MM] :
         toVenue'[MM][i] = m \/ (i \in DOMAIN toVenue[MM] /\ toVenue'[MM][i] = toVenue[MM][i])
    BY <1>1, <1>2, QueueGrows
<1> HIDE DEF m
<1>5. NoReject' /\ NoiseNumbered' /\ NewIdsUnknown'
  <2>1. Unknown(m.clientOrderId)
      BY <1>1, <1>3 DEF NewIdsUnknown
  <2>2. 0 \in Nat /\ placed' = placed + 0 /\ placed' \in 0..(2 * MaxTicks)
      BY <1>1, <1>2, LengthAssumption DEF LoopOK
  <2> QED BY <1>2, <2>1, <2>2, NewIdSent
<1>6. PICK p : Priced(p)
    BY DEF MakerInv
<1>7. OrderAt(m, p[m.clientOrderId])
    BY <1>1, <1>3, <1>6 DEF Priced
<1>8. Priced(p)'
    BY <1>2, <1>4, <1>6, <1>7 DEF Priced, OrderAt
<1> QED BY <1>2, <1>5, <1>8 DEF MakerInv

\* A tick begins with quotes the venue takes.
LEMMA TickAccepted ==
    ASSUME QuotingConditions, QuotesLegal, TradingInv, MakerInv, Tick
    PROVE  MakerInv'
<1>1. /\ pc = "sleep" /\ ticks < MaxTicks /\ CancelOrPlaceBid(resting, quote')
      /\ UNCHANGED <<vars, fires>>
    BY DEF Tick, noiseVars
<1>2. Legal(quote')
  <2>1. PICK fairValue \in FairValues : quote' = ComputeQuote(fairValue, position.inventory)
      BY DEF Tick
  <2> QED BY <2>1, QuoteLegal DEF TradingInv, AccountOK
<1>3. CASE PlaceBid(quote')
    BY <1>1, <1>2, <1>3, BidPlaced
<1>4. ASSUME Send(MM, Cancel(Head(resting))), pc' = "cancel", placed' = placed PROVE MakerInv'
    BY <1>1, <1>2, <1>4, CancelSent
<1> QED BY <1>1, <1>3, <1>4 DEF CancelOrPlaceBid

\* The rest of a tick keeps its quote.
LEMMA ContinueAccepted ==
    ASSUME TradingInv, MakerInv, ContinueTick
    PROVE  MakerInv'
<1>1. /\ pc = "cancel" /\ CancelOrPlaceBid(todo, quote) /\ UNCHANGED <<vars, fires, quote>>
    BY DEF ContinueTick, noiseVars
<1>2. Legal(quote) /\ ticks < MaxTicks
    BY <1>1 DEF MakerInv, TradingInv, LoopOK
<1>3. CASE PlaceBid(quote)
    BY <1>1, <1>2, <1>3, BidPlaced
<1>4. ASSUME Send(MM, Cancel(Head(todo))), pc' = "cancel", placed' = placed PROVE MakerInv'
    BY <1>1, <1>2, <1>4, CancelSent DEF Legal
<1> QED BY <1>1, <1>3, <1>4 DEF CancelOrPlaceBid

\* Nothing has been sent at first.
LEMMA MakerInitInv == TradingInit => MakerInv
<1> SUFFICES ASSUME TradingInit PROVE MakerInv
    OBVIOUS
<1>1. /\ Init /\ toVenue = [c \in Conns |-> <<>>] /\ pc = "sleep" /\ placed = 0
      /\ MM \in Conns /\ NT \in Conns /\ MaxTicks \in Nat
    BY ClientsAssumption, LengthAssumption DEF TradingInit, Conns
<1>2. toVenue[MM] = <<>> /\ toVenue[NT] = <<>> /\ DOMAIN <<>> = {} /\ sent = <<>> /\ DOMAIN byEngineId = {}
    BY <1>1 DEF Init
<1>3. \A c \in (placed + 1)..(2 * MaxTicks) : Unknown(c)
  <2>1. ASSUME NEW c \in (placed + 1)..(2 * MaxTicks) PROVE byConn[MM][c].state = "Absent"
    <3>1. c \in 1..(2 * MaxTicks)
        BY <1>1
    <3>2. c \in Cids
        BY <3>1, SessionCids
    <3> QED BY <1>1, <3>2 DEF Init, Absent
  <2> QED BY <2>1 DEF Unknown
<1>4. \A p : Priced(p)
  <2>1. 1..placed = {}
      BY <1>1
  <2> QED BY <1>1, <1>2, <2>1 DEF Priced
<1>5. NoReject /\ NoiseNumbered /\ NewIdsUnknown
    BY <1>1, <1>2, <1>3 DEF NoReject, NoiseNumbered, NewIdsUnknown
<1> QED BY <1>1, <1>4, <1>5 DEF MakerInv

\* Every step keeps it while the quotes are legal.
LEMMA MakerNextInv ==
    ASSUME QuotingConditions
    PROVE  TradingInv /\ MakerInv /\ QuotesLegal /\ [TradingNext]_tradingVars => MakerInv'
<1> SUFFICES ASSUME TradingInv, MakerInv, QuotesLegal, [TradingNext]_tradingVars PROVE MakerInv'
    OBVIOUS
<1>1. CASE UNCHANGED tradingVars
  <2>1. UNCHANGED <<vars, toVenue, placed, quote, fires, pc>>
      BY <1>1 DEF tradingVars, makerVars, noiseVars
  <2> QED BY <2>1, QuietKeeps
<1>2. CASE MakerReceives \/ MakerCloses \/ NoiseReceives \/ NoiseCloses \/ PublishTop
  <2>1. UNCHANGED <<vars, toVenue, placed, quote, fires>> /\ (pc' = pc \/ pc' = "closed")
      BY <1>2 DEF MakerReceives, MakerCloses, NoiseReceives, NoiseCloses, PublishTop, makerVars, noiseVars
  <2> QED BY <2>1, QuietKeeps
<1>3. CASE Tick \/ ContinueTick \/ PlaceAsk \/ Fire
    BY <1>3, TickAccepted, ContinueAccepted, AskPlaced, FireAccepted
<1>4. ASSUME NEW conn \in Conns, VenueHandles(conn) PROVE MakerInv'
  <2>1. conn = MM \/ conn = NT
      BY ClientsAssumption DEF Conns
  <2> QED BY <1>4, <2>1, HandledAccepted, NoiseAnswered
<1>5. ASSUME NEW conn \in Conns, VenueDrops(conn) PROVE MakerInv'
    BY <1>5, DroppedAccepted
<1>6. CASE VenueMatches
    BY <1>6, MatchesAccepted
<1> QED BY <1>1, <1>2, <1>3, <1>4, <1>5, <1>6 DEF TradingNext

\* A step sends the market maker no rejection.
NoRejectStep == \A i \in DOMAIN sent' : ~(sent'[i].to = MM /\ sent'[i].type = "REJECT")

\* As long as every quote at the market maker's position is a price the venue takes,
\* bid and ask are a tick apart, and a pair fits beside the noise orders, handleLine
\* rejects none of its orders: its ids are new, there is room, and a new order
\* crosses none of its own.
THEOREM MakerStaysAccepted ==
    ASSUME QuotingConditions
    PROVE  TradingSpec /\ []QuotesLegal => MakerNeverRejected
<1>1. TradingInv /\ MakerInv /\ QuotesLegal /\ [TradingNext]_tradingVars => MakerInv'
    BY MakerNextInv
<1>2. MakerInv' => NoRejectStep
    BY DEF MakerInv, NoReject, NoRejectStep
<1> QED BY <1>1, <1>2, MakerInitInv, TradingInvariant, PTL DEF TradingSpec, MakerNeverRejected, NoRejectStep
=============================================================================
