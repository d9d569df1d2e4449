----------------------------- MODULE ServerProofs -----------------------------
(***************************************************************************)
(* The server's tables stay consistent and every connection is sent the    *)
(* current top of the book, for any number of clients, descriptors, frames *)
(* and heartbeats.                                                         *)
(*                                                                         *)
(* ConnectionsExact needs to know where the loop is in its pass and which  *)
(* entry it handles (LoopOK). MarketDataCurrent only speaks of the moment  *)
(* of poll(); what every step keeps is that the last market data on its    *)
(* way to a connection is lastTop_, and that lastTop_ is the top until the *)
(* pass serves its first connection (MdOK).                                *)
(***************************************************************************)
EXTENDS Server, FiniteSetTheorems, SequenceTheorems, WellFoundedInduction, TLAPS

Items == {"frame", "garbage"}
Frame == [type : {"MARKET_DATA", "HEARTBEAT", "REPLY"}, top : Tops \cup {NoTop}]

EnvOK ==
    /\ inbox \in [Clients -> Seq(Items)]
    /\ left \in Nat
    /\ gone \in [Clients -> {"no", "fin", "reset"}]
    /\ room \in [Clients -> BOOLEAN]
    /\ seen \in [Clients -> Tops \cup {NoTop}]

ConnsOK ==
    /\ conns \in [DOMAIN conns -> [frames : Seq(Items), out : Seq(Frame)]]
    /\ connFd \in [DOMAIN connFd -> Fds]
    /\ fdConn \in [DOMAIN fdConn -> Clients]
    /\ \A fd \in DOMAIN fdConn : fdConn[fd] < nextConnId

\* In the middle of an entry the loop holds an open descriptor with that entry.
LoopOK ==
    /\ pc \in {"lines", "write"} => cur \in DOMAIN events \ {ListenFd}
    /\ pc = "write" => "OUT" \in events[cur]

MdOK ==
    /\ pc \in {"poll", "beat", "listen"} => top = lastTop
    /\ \A fd \in DOMAIN conns : LastMd(conns[fd].out, seen[fdConn[fd]]) = lastTop

IInv == ConnectionsExact /\ EnvOK /\ ConnsOK /\ LoopOK /\ MdOK

-----------------------------------------------------------------------------
(***************************************************************************)
(* Numbers.                                                                *)
(***************************************************************************)
\* A set of naturals with a member has a least one.
LEMMA LeastNat ==
    ASSUME NEW T, T \subseteq Nat, T # {}
    PROVE  \E x \in T : \A y \in T : x <= y
<1>1. PICK x \in T : \A y \in T : <<y, x>> \notin OpToRel(<, Nat)
    BY NatLessThanWellFounded, WFMin
<1>2. ASSUME NEW y \in T PROVE x <= y
  <2>1. x \in Nat /\ y \in Nat /\ ~(y < x)
      BY <1>1 DEF OpToRel
  <2> QED BY <2>1
<1> QED BY <1>2

\* Min(S), the descriptor accept() gets, is a member of S.
LEMMA MinInSet ==
    ASSUME NEW S, S \subseteq Nat, S # {}
    PROVE  Min(S) \in S
BY LeastNat DEF Min

\* A set of indices with a member has a greatest one.
LEMMA GreatestIndex ==
    ASSUME NEW n \in Nat, NEW T, T \subseteq 1..n, T # {}
    PROVE  \E x \in T : \A y \in T : y <= x
<1> DEFINE U == {n - x : x \in T}
<1>1. U \subseteq Nat /\ U # {}
    OBVIOUS
<1>2. PICK u \in U : \A v \in U : u <= v
    BY <1>1, LeastNat
<1>3. PICK x \in T : u = n - x
    OBVIOUS
<1>4. ASSUME NEW y \in T PROVE y <= x
  <2>1. n - y \in U
      OBVIOUS
  <2>2. n - x <= n - y /\ x \in 1..n /\ y \in 1..n
      BY <1>2, <1>3, <2>1
  <2> QED BY <2>2
<1> QED BY <1>4

-----------------------------------------------------------------------------
(***************************************************************************)
(* LastMd: the last market data of a sequence of frames.                   *)
(***************************************************************************)
\* No market data in it: what came before.
LEMMA LastMdNone ==
    ASSUME NEW out \in Seq(Frame), NEW b,
           \A i \in DOMAIN out : out[i].type # "MARKET_DATA"
    PROVE  LastMd(out, b) = b
BY DEF LastMd

\* Frame i is market data and no later one is.
LEMMA LastMdAt ==
    ASSUME NEW out \in Seq(Frame), NEW b, NEW i \in DOMAIN out, out[i].type = "MARKET_DATA",
           \A j \in DOMAIN out : out[j].type = "MARKET_DATA" => j <= i
    PROVE  LastMd(out, b) = out[i].top
<1> DEFINE mds == {j \in DOMAIN out : out[j].type = "MARKET_DATA"}
<1>1. i \in mds /\ mds \subseteq Nat /\ \A j \in mds : j <= i
    BY LenProperties
<1>2. Max(mds) = i
  <2>1. Max(mds) \in mds /\ \A j \in mds : Max(mds) >= j
      BY <1>1 DEF Max
  <2>2. Max(mds) >= i /\ i >= Max(mds) /\ Max(mds) \in Nat /\ i \in Nat
      BY <1>1, <2>1
  <2> QED BY <2>2
<1> QED BY <1>1, <1>2 DEF LastMd

\* One of the two is the case.
LEMMA LastMdCases ==
    ASSUME NEW out \in Seq(Frame)
    PROVE  \/ \A i \in DOMAIN out : out[i].type # "MARKET_DATA"
           \/ \E i \in DOMAIN out : /\ out[i].type = "MARKET_DATA"
                                   /\ \A j \in DOMAIN out : out[j].type = "MARKET_DATA" => j <= i
<1> DEFINE mds == {j \in DOMAIN out : out[j].type = "MARKET_DATA"}
<1>1. CASE mds = {}
    BY <1>1
<1>2. CASE mds # {}
  <2>1. DOMAIN out = 1..Len(out) /\ Len(out) \in Nat
      BY LenProperties
  <2>2. mds \subseteq 1..Len(out)
      BY <2>1
  <2>3. \E i \in mds : \A j \in mds : j <= i
      BY <1>2, <2>1, <2>2, GreatestIndex
  <2> QED BY <2>3
<1> QED BY <1>1, <1>2

\* Market data at the end is the last one.
LEMMA LastMdAppendMd ==
    ASSUME NEW out \in Seq(Frame), NEW b, NEW t \in Tops
    PROVE  LastMd(Append(out, Md(t)), b) = t
<1> DEFINE long == Append(out, Md(t))
<1>1. Md(t) \in Frame
    BY DEF Md, Frame
<1>2. /\ long \in Seq(Frame) /\ DOMAIN long = 1..(Len(out) + 1) /\ Len(out) \in Nat
      /\ long[Len(out) + 1] = Md(t)
    BY <1>1, AppendProperties, LenProperties
<1> HIDE DEF long
<1>3. LastMd(long, b) = long[Len(out) + 1].top
    BY <1>2, LastMdAt DEF Md
<1> QED BY <1>2, <1>3 DEF Md, long

\* Any other frame does not matter.
LEMMA LastMdAppendOther ==
    ASSUME NEW out \in Seq(Frame), NEW b, NEW f \in Frame, f.type # "MARKET_DATA"
    PROVE  LastMd(Append(out, f), b) = LastMd(out, b)
<1> DEFINE long == Append(out, f)
<1>1. /\ long \in Seq(Frame) /\ DOMAIN long = 1..(Len(out) + 1) /\ Len(out) \in Nat
      /\ long[Len(out) + 1] = f /\ \A i \in 1..Len(out) : long[i] = out[i]
      /\ DOMAIN out = 1..Len(out)
    BY AppendProperties, LenProperties
<1> HIDE DEF long
<1>2. CASE \A i \in DOMAIN out : out[i].type # "MARKET_DATA"
  <2>1. \A i \in DOMAIN long : long[i].type # "MARKET_DATA"
      BY <1>1, <1>2
  <2> QED BY <1>1, <1>2, <2>1, LastMdNone DEF long
<1>3. ASSUME NEW i \in DOMAIN out, out[i].type = "MARKET_DATA",
             \A j \in DOMAIN out : out[j].type = "MARKET_DATA" => j <= i
      PROVE  LastMd(long, b) = LastMd(out, b)
  <2>1. i \in DOMAIN long /\ long[i] = out[i]
      BY <1>1
  <2>2. \A j \in DOMAIN long : long[j].type = "MARKET_DATA" => j <= i
      BY <1>1, <1>3
  <2>3. LastMd(long, b) = long[i].top
      BY <1>1, <1>3, <2>1, <2>2, LastMdAt
  <2> QED BY <1>3, <2>1, <2>3, LastMdAt
<1> QED BY <1>2, <1>3, LastMdCases DEF long

\* What has gone out and what is left make up the whole.
LEMMA LastMdSplit ==
    ASSUME NEW out \in Seq(Frame), NEW b, NEW n \in 0..Len(out)
    PROVE  LastMd(SubSeq(out, n + 1, Len(out)), LastMd(SubSeq(out, 1, n), b)) = LastMd(out, b)
<1> DEFINE front == SubSeq(out, 1, n)
           rest  == SubSeq(out, n + 1, Len(out))
           seenMd == LastMd(front, b)
<1>1. Len(out) \in Nat /\ n \in Nat /\ n <= Len(out) /\ DOMAIN out = 1..Len(out)
      /\ \A i \in 1..Len(out) : out[i] \in Frame
    BY LenProperties, ElementOfSeq
<1>2. /\ front \in Seq(Frame) /\ Len(front) = n /\ DOMAIN front = 1..n
      /\ \A i \in 1..n : front[i] = out[i]
  <2>1. \A i \in 1..n : out[i] \in Frame
      BY <1>1
  <2>2. /\ front \in Seq(Frame) /\ Len(front) = (IF 1 <= n THEN n - 1 + 1 ELSE 0)
        /\ \A i \in 1..(n - 1 + 1) : front[i] = out[1 + i - 1]
      BY <1>1, <2>1, SubSeqProperties, 1 \in Int, n \in Int
  <2>3. DOMAIN front = 1..Len(front)
      BY <2>2, LenProperties
  <2> HIDE DEF front
  <2> QED BY <1>1, <2>2, <2>3
<1>3. /\ rest \in Seq(Frame) /\ DOMAIN rest = 1..(Len(out) - n)
      /\ \A i \in DOMAIN rest : rest[i] = out[n + i] /\ n + i \in DOMAIN out /\ n + i > n
  <2>1. \A i \in (n + 1)..Len(out) : out[i] \in Frame
      BY <1>1
  <2>2. /\ rest \in Seq(Frame)
        /\ Len(rest) = (IF n + 1 <= Len(out) THEN Len(out) - (n + 1) + 1 ELSE 0)
        /\ \A i \in 1..(Len(out) - (n + 1) + 1) : rest[i] = out[(n + 1) + i - 1]
      BY <1>1, <2>1, SubSeqProperties, n + 1 \in Int, Len(out) \in Int
  <2>3. DOMAIN rest = 1..Len(rest)
      BY <2>2, LenProperties
  <2> HIDE DEF rest
  <2>4. Len(rest) = Len(out) - n /\ DOMAIN rest = 1..(Len(out) - n)
    <3>1. Len(out) \in Nat /\ n \in Nat /\ n <= Len(out)
        BY <1>1
    <3>2. Len(rest) = IF n + 1 <= Len(out) THEN Len(out) - (n + 1) + 1 ELSE 0
        BY <2>2
    <3>3. Len(rest) = Len(out) - n
        BY <3>1, <3>2
    <3> QED BY <2>3, <3>3
  <2>5. ASSUME NEW i \in DOMAIN rest
        PROVE  rest[i] = out[n + i] /\ n + i \in DOMAIN out /\ n + i > n
    <3>1. i \in 1..(Len(out) - (n + 1) + 1) /\ (n + 1) + i - 1 = n + i
        BY <1>1, <2>4
    <3>2. n + i \in 1..Len(out) /\ n + i > n
        BY <1>1, <2>4
    <3> QED BY <1>1, <2>2, <3>1, <3>2
  <2> QED BY <2>2, <2>4, <2>5
<1> HIDE DEF front, rest
<1>4. CASE \A i \in DOMAIN out : out[i].type # "MARKET_DATA"
  <2>1. \A i \in DOMAIN front : front[i].type # "MARKET_DATA"
      BY <1>1, <1>2, <1>4
  <2>2. \A i \in DOMAIN rest : rest[i].type # "MARKET_DATA"
      BY <1>1, <1>3, <1>4
  <2>3. LastMd(front, b) = b /\ LastMd(rest, b) = b /\ LastMd(out, b) = b
      BY <1>2, <1>3, <1>4, <2>1, <2>2, LastMdNone
  <2> QED BY <2>3 DEF front, rest
<1>5. ASSUME NEW i \in DOMAIN out, out[i].type = "MARKET_DATA",
             \A j \in DOMAIN out : out[j].type = "MARKET_DATA" => j <= i
      PROVE  LastMd(rest, seenMd) = LastMd(out, b)
  <2>1. LastMd(out, b) = out[i].top
      BY <1>5, LastMdAt
  <2>2. CASE i <= n
    <3>1. i \in DOMAIN front /\ front[i] = out[i]
        BY <1>1, <1>2, <2>2
    <3>2. \A j \in DOMAIN front : front[j].type = "MARKET_DATA" => j <= i
        BY <1>1, <1>2, <1>5
    <3>3. seenMd = out[i].top
        BY <1>2, <1>5, <3>1, <3>2, LastMdAt
    <3>4. \A j \in DOMAIN rest : rest[j].type # "MARKET_DATA"
        BY <1>1, <1>3, <1>5, <2>2
    <3> QED BY <1>3, <2>1, <3>3, <3>4, LastMdNone
  <2>3. CASE ~(i <= n)
    <3>1. i - n \in DOMAIN rest /\ rest[i - n] = out[i]
      <4>1. i - n \in DOMAIN rest /\ n + (i - n) = i
          BY <1>1, <1>3, <2>3
      <4> QED BY <1>3, <4>1
    <3>2. \A j \in DOMAIN rest : rest[j].type = "MARKET_DATA" => j <= i - n
        BY <1>1, <1>3, <1>5
    <3>3. rest[i - n].type = "MARKET_DATA"
        BY <1>5, <3>1
    <3>4. LastMd(rest, seenMd) = rest[i - n].top
      <4> HIDE DEF seenMd
      <4> QED BY <1>3, <3>1, <3>2, <3>3, LastMdAt
    <3> QED BY <2>1, <3>1, <3>4
  <2> QED BY <2>2, <2>3
<1> QED BY <1>4, <1>5, LastMdCases DEF front, rest

-----------------------------------------------------------------------------
(***************************************************************************)
(* The operations on the tables.                                           *)
(***************************************************************************)
\* A descriptor is open exactly when it is mapped, and maps are one to one.
LEMMA MapsFacts ==
    ASSUME IInv
    PROVE  /\ DOMAIN conns \subseteq Fds /\ ListenFd \notin DOMAIN conns
           /\ \A fd \in DOMAIN conns : /\ fdConn[fd] \in Clients /\ fdConn[fd] \in DOMAIN connFd
                                      /\ connFd[fdConn[fd]] = fd
                                      /\ conns[fd] \in [frames : Seq(Items), out : Seq(Frame)]
           /\ \A f, g \in DOMAIN conns : fdConn[f] = fdConn[g] => f = g
           /\ \A fd \in DOMAIN events : fd # ListenFd => fd \in DOMAIN conns
BY ServerAssumption DEF IInv, ConnectionsExact, TypeOK, MapsAgree, EventsOpen, ConnsOK, ListenFd

\* closeConn takes one connection out of the three maps and out of the venue.
LEMMA CloseConnFacts ==
    ASSUME IInv, NEW fd \in DOMAIN conns, CloseConn(fd)
    PROVE  /\ DOMAIN conns' = DOMAIN conns \ {fd}
           /\ \A g \in DOMAIN conns' : conns'[g] = conns[g] /\ fdConn'[g] = fdConn[g]
           /\ MapsAgree' /\ ConnsOK' /\ top' \in Tops /\ nextConnId' = nextConnId
<1> DEFINE id == fdConn[fd]
<1>1. /\ conns' = [x \in DOMAIN conns \ {fd} |-> conns[x]]
      /\ fdConn' = [x \in DOMAIN fdConn \ {fd} |-> fdConn[x]]
      /\ connFd' = [x \in DOMAIN connFd \ {id} |-> connFd[x]]
      /\ nextConnId' = nextConnId /\ known' = known \ {id} /\ top' \in Tops
    BY DEF CloseConn, DropConnection, Erase, IInv, ConnectionsExact, TypeOK
<1>2. MapsAgree /\ ConnsOK
    BY DEF IInv, ConnectionsExact
<1>3. MapsAgree'
  <2>1. DOMAIN conns' = DOMAIN fdConn'
      BY <1>1, <1>2 DEF MapsAgree
  <2>2. ASSUME NEW g \in DOMAIN fdConn'
        PROVE  fdConn'[g] \in DOMAIN connFd' /\ connFd'[fdConn'[g]] = g
    <3>1. g \in DOMAIN fdConn /\ g # fd /\ fdConn'[g] = fdConn[g]
        BY <1>1
    <3>2. fdConn[g] # id
        BY <1>2, <2>1, <3>1 DEF MapsAgree
    <3> QED BY <1>1, <1>2, <3>1, <3>2 DEF MapsAgree
  <2>3. ASSUME NEW i \in DOMAIN connFd'
        PROVE  connFd'[i] \in DOMAIN fdConn' /\ fdConn'[connFd'[i]] = i
    <3>1. i \in DOMAIN connFd /\ i # id /\ connFd'[i] = connFd[i]
        BY <1>1
    <3>2. connFd[i] # fd
        BY <1>2, <3>1 DEF MapsAgree
    <3> QED BY <1>1, <1>2, <3>1, <3>2 DEF MapsAgree
  <2>4. known' \subseteq DOMAIN connFd'
      BY <1>1, <1>2 DEF MapsAgree
  <2> QED BY <2>1, <2>2, <2>3, <2>4 DEF MapsAgree
<1>4. ConnsOK'
  <2>1. conns' \in [DOMAIN conns' -> [frames : Seq(Items), out : Seq(Frame)]]
      BY <1>1, <1>2 DEF ConnsOK
  <2>2. connFd' \in [DOMAIN connFd' -> Fds]
      BY <1>1, <1>2 DEF ConnsOK
  <2>3. fdConn' \in [DOMAIN fdConn' -> Clients] /\ \A g \in DOMAIN fdConn' : fdConn'[g] < nextConnId'
      BY <1>1, <1>2 DEF ConnsOK
  <2> QED BY <2>1, <2>2, <2>3 DEF ConnsOK
<1>5. \A g \in DOMAIN conns' : conns'[g] = conns[g] /\ fdConn'[g] = fdConn[g]
    BY <1>1, <1>2 DEF MapsAgree
<1> QED BY <1>1, <1>3, <1>4, <1>5

\* The parts of IInv that only closing, accepting and writing touch survive when
\* a connection is closed in the middle of a pass.
LEMMA CloseInPass ==
    ASSUME IInv, NEW fd \in DOMAIN events \ {ListenFd}, CloseConn(fd),
           pc \in {"events", "lines", "write"}, pc \in {"lines", "write"} => fd = cur,
           pc' = "events", events' = Erase(events, fd),
           UNCHANGED <<envVars, lastTop>>
    PROVE  IInv'
<1>1. fd \in DOMAIN conns
    BY MapsFacts
<1>2. /\ DOMAIN conns' = DOMAIN conns \ {fd}
      /\ \A g \in DOMAIN conns' : conns'[g] = conns[g] /\ fdConn'[g] = fdConn[g]
      /\ MapsAgree' /\ ConnsOK' /\ top' \in Tops /\ nextConnId' = nextConnId
    BY <1>1, CloseConnFacts
<1>3. /\ DOMAIN events' = DOMAIN events \ {fd}
      /\ \A g \in DOMAIN events' : events'[g] = events[g]
    BY DEF Erase
<1>4. /\ connected' = connected /\ inbox' = inbox /\ left' = left /\ gone' = gone
      /\ room' = room /\ seen' = seen /\ lastTop' = lastTop
    BY DEF envVars
<1>5. TypeOK'
  <2>1. \A g \in DOMAIN conns' : conns'[g].frames = <<>>
      BY <1>2 DEF IInv, ConnectionsExact, TypeOK
  <2> QED BY <1>2, <1>3, <1>4, <2>1 DEF IInv, ConnectionsExact, TypeOK
<1>6. EventsOpen'
    BY <1>2, <1>3 DEF IInv, ConnectionsExact, EventsOpen
<1>7. EnvOK'
    BY <1>4 DEF IInv, EnvOK
<1>8. LoopOK'
    BY DEF LoopOK
<1>9. MdOK'
    BY <1>2, <1>4 DEF IInv, MdOK
<1> QED BY <1>2, <1>5, <1>6, <1>7, <1>8, <1>9 DEF IInv, ConnectionsExact

\* A frame goes to every connection.
LEMMA BroadcastFacts ==
    ASSUME NEW cs, NEW frame \in Frame,
           cs \in [DOMAIN cs -> [frames : Seq(Items), out : Seq(Frame)]]
    PROVE  /\ DOMAIN BroadcastPayload(cs, frame) = DOMAIN cs
           /\ \A fd \in DOMAIN cs :
                 BroadcastPayload(cs, frame)[fd] = [frames |-> cs[fd].frames, out |-> Append(cs[fd].out, frame)]
           /\ BroadcastPayload(cs, frame) \in [DOMAIN cs -> [frames : Seq(Items), out : Seq(Frame)]]
<1> DEFINE after == BroadcastPayload(cs, frame)
<1>1. DOMAIN after = DOMAIN cs /\ \A fd \in DOMAIN cs : after[fd] = [cs[fd] EXCEPT !.out = Append(@, frame)]
    BY DEF BroadcastPayload
<1>2. ASSUME NEW fd \in DOMAIN cs
      PROVE  /\ after[fd] = [frames |-> cs[fd].frames, out |-> Append(cs[fd].out, frame)]
             /\ after[fd] \in [frames : Seq(Items), out : Seq(Frame)]
  <2>1. cs[fd] \in [frames : Seq(Items), out : Seq(Frame)]
      OBVIOUS
  <2>2. Append(cs[fd].out, frame) \in Seq(Frame)
      BY <2>1, AppendProperties
  <2> QED BY <1>1, <2>1, <2>2
<1>3. after = [fd \in DOMAIN cs |-> after[fd]]
    BY DEF BroadcastPayload
<1> HIDE DEF after
<1> QED BY <1>1, <1>2, <1>3 DEF after

\* A reply goes to some connections, and is no market data.
LEMMA EnqueueFacts ==
    ASSUME NEW cs, NEW ids, cs \in [DOMAIN cs -> [frames : Seq(Items), out : Seq(Frame)]]
    PROVE  /\ DOMAIN Enqueue(cs, ids, Reply) = DOMAIN cs
           /\ Enqueue(cs, ids, Reply) \in [DOMAIN cs -> [frames : Seq(Items), out : Seq(Frame)]]
           /\ \A fd \in DOMAIN cs :
                 /\ Enqueue(cs, ids, Reply)[fd].frames = cs[fd].frames
                 /\ \A b : LastMd(Enqueue(cs, ids, Reply)[fd].out, b) = LastMd(cs[fd].out, b)
<1> DEFINE fds == {connFd[id] : id \in ids \cap DOMAIN connFd}
           after == Enqueue(cs, ids, Reply)
<1>1. /\ DOMAIN after = DOMAIN cs
      /\ \A fd \in DOMAIN cs :
            after[fd] = IF fd \in fds THEN [cs[fd] EXCEPT !.out = Append(@, Reply)] ELSE cs[fd]
      /\ after = [fd \in DOMAIN cs |-> after[fd]]
    BY DEF Enqueue
<1> HIDE DEF after, fds
<1>2. Reply \in Frame /\ Reply.type # "MARKET_DATA"
    BY DEF Reply, Frame
<1>3. ASSUME NEW fd \in DOMAIN cs
      PROVE  /\ after[fd] \in [frames : Seq(Items), out : Seq(Frame)]
             /\ after[fd].frames = cs[fd].frames
             /\ \A b : LastMd(after[fd].out, b) = LastMd(cs[fd].out, b)
  <2>1. cs[fd] \in [frames : Seq(Items), out : Seq(Frame)]
      OBVIOUS
  <2>2. CASE fd \notin fds
      BY <1>1, <2>1, <2>2
  <2>3. CASE fd \in fds
    <3>1. after[fd] = [frames |-> cs[fd].frames, out |-> Append(cs[fd].out, Reply)]
        BY <1>1, <2>1, <2>3
    <3>2. Append(cs[fd].out, Reply) \in Seq(Frame)
        BY <1>2, <2>1, AppendProperties
    <3>3. \A b : LastMd(Append(cs[fd].out, Reply), b) = LastMd(cs[fd].out, b)
        BY <1>2, <2>1, LastMdAppendOther
    <3> QED BY <2>1, <3>1, <3>2, <3>3
  <2> QED BY <2>2, <2>3
<1> QED BY <1>1, <1>3 DEF after

-----------------------------------------------------------------------------
(***************************************************************************)
(* Every step keeps IInv.                                                  *)
(***************************************************************************)
\* It holds with no connection.
LEMMA ServerStarts == Init => IInv
<1> SUFFICES ASSUME Init PROVE IInv
    OBVIOUS
<1>1. TypeOK
    BY ServerAssumption DEF Init, TypeOK, Empty
<1>2. MapsAgree /\ EventsOpen
    BY DEF Init, MapsAgree, EventsOpen, Empty
<1>3. EnvOK
    BY ServerAssumption DEF Init, EnvOK, Items
<1>4. ConnsOK
    BY DEF Init, ConnsOK, Empty
<1>5. LoopOK /\ MdOK
    BY DEF Init, LoopOK, MdOK, Empty
<1> QED BY <1>1, <1>2, <1>3, <1>4, <1>5 DEF IInv, ConnectionsExact

\* Clients only touch their own end.
LEMMA EnvironmentKeeps == IInv /\ Environment => IInv'
<1> SUFFICES ASSUME IInv, Environment PROVE IInv'
    OBVIOUS
<1>1. /\ UNCHANGED <<seen, venueVars, socketVars, lastTop, heartbeatSeq, loopVars>>
      /\ connected' \in 0..MaxClients /\ connected' >= connected
      /\ EnvOK'
  <2>1. CASE Connect
      BY <2>1, ServerAssumption DEF Connect, IInv, EnvOK, ConnectionsExact, TypeOK
  <2>2. ASSUME NEW c \in Clients, NEW frame \in Items, ClientSends(c, frame)
        PROVE  /\ UNCHANGED <<seen, venueVars, socketVars, lastTop, heartbeatSeq, loopVars>>
               /\ connected' \in 0..MaxClients /\ connected' >= connected
               /\ EnvOK'
    <3>1. Append(inbox[c], frame) \in Seq(Items)
        BY AppendProperties DEF IInv, EnvOK
    <3> QED BY <2>2, <3>1, ServerAssumption DEF ClientSends, IInv, EnvOK, ConnectionsExact, TypeOK
  <2>3. ASSUME NEW c \in Clients, NEW how \in {"fin", "reset"}, ClientLeaves(c, how)
        PROVE  /\ UNCHANGED <<seen, venueVars, socketVars, lastTop, heartbeatSeq, loopVars>>
               /\ connected' \in 0..MaxClients /\ connected' >= connected
               /\ EnvOK'
      BY <2>3, ServerAssumption DEF ClientLeaves, IInv, EnvOK, ConnectionsExact, TypeOK
  <2>4. ASSUME NEW c \in Clients, ClientReads(c)
        PROVE  /\ UNCHANGED <<seen, venueVars, socketVars, lastTop, heartbeatSeq, loopVars>>
               /\ connected' \in 0..MaxClients /\ connected' >= connected
               /\ EnvOK'
      BY <2>4, ServerAssumption DEF ClientReads, IInv, EnvOK, ConnectionsExact, TypeOK
  <2> QED BY <2>1, <2>2, <2>3, <2>4 DEF Environment, Items
<1>2. /\ top' = top /\ known' = known /\ conns' = conns /\ connFd' = connFd /\ fdConn' = fdConn
      /\ nextConnId' = nextConnId /\ lastTop' = lastTop /\ seen' = seen
      /\ pc' = pc /\ events' = events /\ cur' = cur
    BY <1>1 DEF venueVars, socketVars, loopVars
<1>3. TypeOK'
  <2>1. nextConnId' \in 1..(MaxClients + 1) /\ nextConnId' <= connected' + 1
    <3>1. nextConnId <= connected + 1 /\ nextConnId \in 1..(MaxClients + 1) /\ connected \in 0..MaxClients
        BY DEF IInv, ConnectionsExact, TypeOK
    <3>2. connected' \in 0..MaxClients /\ connected' >= connected /\ nextConnId' = nextConnId
        BY <1>1, <1>2
    <3>3. MaxClients \in Nat
        BY ServerAssumption
    <3>4. nextConnId' \in 1..(MaxClients + 1)
        BY <3>1, <3>2
    <3>5. nextConnId \in Int /\ connected \in Int /\ connected' \in Int
        BY <3>1, <3>2, <3>3
    <3>6. \A a, b, c \in Int : a <= b + 1 /\ b <= c => a <= c + 1
        OBVIOUS
    <3>7. nextConnId <= connected + 1 /\ connected <= connected'
        BY <3>1, <3>2, <3>5
    <3>8. nextConnId <= connected' + 1
        BY <3>5, <3>6, <3>7
    <3> QED BY <3>2, <3>4, <3>8
  <2>2. \A fd \in DOMAIN conns' : conns'[fd].frames # <<>> => pc' = "lines" /\ cur' = fd
      BY <1>2 DEF IInv, ConnectionsExact, TypeOK
  <2>3. \A fd \in DOMAIN events' : events'[fd] \subseteq {"HUP", "IN", "OUT"} /\ events'[fd] # {}
      BY <1>2 DEF IInv, ConnectionsExact, TypeOK
  <2>4. DOMAIN conns' \subseteq Fds /\ top' \in Tops /\ lastTop' \in Tops
        /\ pc' \in {"poll", "beat", "listen", "events", "lines", "write"}
      BY <1>2 DEF IInv, ConnectionsExact, TypeOK
  <2> QED BY <1>1, <2>1, <2>2, <2>3, <2>4 DEF TypeOK
<1>4. MapsAgree' /\ EventsOpen'
    BY <1>2 DEF IInv, ConnectionsExact, MapsAgree, EventsOpen
<1>5. ConnsOK' /\ LoopOK' /\ MdOK'
    BY <1>2 DEF IInv, ConnsOK, LoopOK, MdOK
<1> QED BY <1>1, <1>3, <1>4, <1>5 DEF IInv, ConnectionsExact

\* Steps that only move the loop on, to a place where LoopOK and MdOK hold.
LEMMA LoopMoves ==
    ASSUME IInv, UNCHANGED <<envVars, venueVars, socketVars, lastTop>>,
           pc' \in {"poll", "beat", "listen", "events", "lines", "write"}, pc' # "lines",
           pc = "lines" => conns[cur].frames = <<>>,
           pc' \in {"poll", "beat", "listen"} => top = lastTop,
           \A fd \in DOMAIN events' : events'[fd] \subseteq {"HUP", "IN", "OUT"} /\ events'[fd] # {},
           DOMAIN events' \ {ListenFd} \subseteq DOMAIN conns,
           LoopOK'
    PROVE  IInv'
<1>1. /\ connected' = connected /\ inbox' = inbox /\ left' = left /\ gone' = gone
      /\ room' = room /\ seen' = seen /\ top' = top /\ known' = known /\ conns' = conns
      /\ connFd' = connFd /\ fdConn' = fdConn /\ nextConnId' = nextConnId /\ lastTop' = lastTop
    BY DEF envVars, venueVars, socketVars
<1>2. \A fd \in DOMAIN conns : conns[fd].frames = <<>>
    BY DEF IInv, ConnectionsExact, TypeOK
<1>3. TypeOK'
    BY <1>1, <1>2 DEF IInv, ConnectionsExact, TypeOK
<1>4. MapsAgree' /\ EventsOpen'
    BY <1>1 DEF IInv, ConnectionsExact, MapsAgree, EventsOpen
<1>5. EnvOK' /\ ConnsOK'
    BY <1>1 DEF IInv, EnvOK, ConnsOK
<1>6. MdOK'
    BY <1>1 DEF IInv, MdOK
<1> QED BY <1>3, <1>4, <1>5, <1>6 DEF IInv, ConnectionsExact

\* poll() reports events of the listener and of open connections only.
LEMMA PollKeeps == IInv /\ Poll => IInv'
<1> SUFFICES ASSUME IInv, Poll PROVE IInv'
    OBVIOUS
<1> DEFINE ready == {fd \in DOMAIN conns : Revents(fd) # {}}
           listening == IF connected >= nextConnId THEN {ListenFd} ELSE {}
<1>1. /\ pc = "poll" /\ pc' = "beat"
      /\ events' = [fd \in ready \cup listening |-> IF fd = ListenFd THEN {"IN"} ELSE Revents(fd)]
      /\ UNCHANGED <<envVars, venueVars, socketVars, lastTop>>
    BY DEF Poll
<1>2. ASSUME NEW fd \in DOMAIN events'
      PROVE  events'[fd] \subseteq {"HUP", "IN", "OUT"} /\ events'[fd] # {}
  <2>1. CASE fd = ListenFd
      BY <1>1, <2>1
  <2>2. CASE fd # ListenFd
    <3>1. fd \in ready /\ events'[fd] = Revents(fd)
        BY <1>1, <2>2
    <3>2. Revents(fd) \subseteq {"HUP", "IN", "OUT"}
        BY DEF Revents
    <3> QED BY <3>1, <3>2
  <2> QED BY <2>1, <2>2
<1>3. DOMAIN events' \ {ListenFd} \subseteq DOMAIN conns
    BY <1>1
<1>4. top = lastTop
    BY <1>1 DEF IInv, MdOK
<1>5. LoopOK'
    BY <1>1 DEF LoopOK
<1> QED BY <1>1, <1>2, <1>3, <1>4, <1>5, LoopMoves

\* Without a heartbeat, with no more to accept, or with all lines handled, the loop
\* just goes on.
LEMMA IdleKeeps == IInv /\ (NoBeat \/ AcceptEnds \/ LinesDone \/ TopUnmoved) => IInv'
<1> SUFFICES ASSUME IInv, NoBeat \/ AcceptEnds \/ LinesDone \/ TopUnmoved PROVE IInv'
    OBVIOUS
<1>1. UNCHANGED <<envVars, venueVars, socketVars, lastTop>>
    BY DEF NoBeat, AcceptEnds, LinesDone, TopUnmoved
<1>2. /\ \A fd \in DOMAIN events : events[fd] \subseteq {"HUP", "IN", "OUT"} /\ events[fd] # {}
      /\ DOMAIN events \ {ListenFd} \subseteq DOMAIN conns
    BY DEF IInv, ConnectionsExact, TypeOK, EventsOpen
<1>3. CASE NoBeat \/ AcceptEnds
  <2>1. /\ events' = events /\ pc \in {"beat", "listen"} /\ pc' \in {"listen", "events"}
        /\ top = lastTop /\ LoopOK'
      BY <1>3 DEF NoBeat, AcceptEnds, IInv, MdOK, LoopOK
  <2> QED BY <1>1, <1>2, <2>1, LoopMoves
<1>4. CASE TopUnmoved
  <2>1. /\ events' = Empty /\ pc = "events" /\ pc' = "poll" /\ top = lastTop /\ LoopOK'
      BY <1>4 DEF TopUnmoved, PassDone, LoopOK
  <2> QED BY <1>1, <2>1, LoopMoves DEF Empty
<1>5. CASE LinesDone
  <2>1. /\ pc = "lines" /\ conns[cur].frames = <<>> /\ cur \in DOMAIN events \ {ListenFd}
        /\ pc' \in {"write", "events"}
      BY <1>5 DEF LinesDone, DecoderDone, IInv, LoopOK
  <2>2. CASE "OUT" \in events[cur]
    <3>1. pc' = "write" /\ events' = events /\ cur' = cur
        BY <1>5, <2>2 DEF LinesDone
    <3>2. LoopOK'
        BY <2>1, <2>2, <3>1 DEF LoopOK
    <3> QED BY <1>1, <1>2, <2>1, <3>1, <3>2, LoopMoves
  <2>3. CASE "OUT" \notin events[cur]
    <3>1. pc' = "events" /\ events' = Erase(events, cur)
        BY <1>5, <2>3 DEF LinesDone
    <3>2. LoopOK'
        BY <3>1 DEF LoopOK
    <3> QED BY <1>1, <1>2, <2>1, <3>1, <3>2, LoopMoves DEF Erase
  <2> QED BY <2>2, <2>3
<1> QED BY <1>3, <1>4, <1>5

\* The heartbeat broadcast and the change of the top at the end of a pass send the
\* current top to every connection.
LEMMA BroadcastsTop ==
    ASSUME IInv, NEW cs, cs \in [DOMAIN conns -> [frames : Seq(Items), out : Seq(Frame)]],
           \A fd \in DOMAIN conns : cs[fd].frames = conns[fd].frames,
           conns' = BroadcastPayload(cs, Md(top)), lastTop' = top,
           UNCHANGED <<envVars, venueVars, connFd, fdConn, nextConnId>>,
           pc' \in {"poll", "listen"},
           pc \in {"beat", "events"},
           \A fd \in DOMAIN events' : events'[fd] \subseteq {"HUP", "IN", "OUT"} /\ events'[fd] # {},
           DOMAIN events' \ {ListenFd} \subseteq DOMAIN conns
    PROVE  IInv'
<1>1. /\ connected' = connected /\ inbox' = inbox /\ left' = left /\ gone' = gone
      /\ room' = room /\ seen' = seen /\ top' = top /\ known' = known
      /\ connFd' = connFd /\ fdConn' = fdConn /\ nextConnId' = nextConnId
    BY DEF envVars, venueVars
<1>2. top \in Tops /\ Md(top) \in Frame
    BY DEF IInv, ConnectionsExact, TypeOK, Md, Frame
<1>3. /\ DOMAIN conns' = DOMAIN conns
      /\ \A fd \in DOMAIN conns :
            conns'[fd] = [frames |-> cs[fd].frames, out |-> Append(cs[fd].out, Md(top))]
      /\ conns' \in [DOMAIN conns -> [frames : Seq(Items), out : Seq(Frame)]]
  <2>1. DOMAIN cs = DOMAIN conns
      OBVIOUS
  <2> QED BY <1>2, <2>1, BroadcastFacts
<1>4. ASSUME NEW fd \in DOMAIN conns
      PROVE  conns'[fd].frames = <<>> /\ LastMd(conns'[fd].out, seen'[fdConn'[fd]]) = lastTop'
  <2>1. conns[fd].frames = <<>>
      BY DEF IInv, ConnectionsExact, TypeOK
  <2>2. cs[fd].out \in Seq(Frame)
      OBVIOUS
  <2>3. LastMd(Append(cs[fd].out, Md(top)), seen[fdConn[fd]]) = top
      BY <1>2, <2>2, LastMdAppendMd
  <2>4. conns'[fd].out = Append(cs[fd].out, Md(top)) /\ conns'[fd].frames = cs[fd].frames
      BY <1>3
  <2> QED BY <1>1, <2>1, <2>3, <2>4
<1>5. TypeOK'
    BY <1>1, <1>3, <1>4 DEF IInv, ConnectionsExact, TypeOK
<1>6. MapsAgree' /\ EventsOpen'
    BY <1>1, <1>3 DEF IInv, ConnectionsExact, MapsAgree, EventsOpen
<1>7. EnvOK' /\ ConnsOK'
    BY <1>1, <1>3 DEF IInv, EnvOK, ConnsOK
<1>8. LoopOK' /\ MdOK'
    BY <1>1, <1>3, <1>4 DEF LoopOK, MdOK
<1> QED BY <1>5, <1>6, <1>7, <1>8 DEF IInv, ConnectionsExact

\* The heartbeat carries a snapshot, and the end of a pass the top when it has moved.
LEMMA FeedKeeps == IInv /\ (Beat \/ TopMoved) => IInv'
<1> SUFFICES ASSUME IInv, Beat \/ TopMoved PROVE IInv'
    OBVIOUS
<1>1. conns \in [DOMAIN conns -> [frames : Seq(Items), out : Seq(Frame)]]
    BY DEF IInv, ConnsOK
<1>2. CASE Beat
  <2> DEFINE cs == BroadcastPayload(conns, Heartbeat)
  <2>1. Heartbeat \in Frame
      BY DEF Heartbeat, Frame
  <2>2. /\ cs \in [DOMAIN conns -> [frames : Seq(Items), out : Seq(Frame)]]
        /\ \A fd \in DOMAIN conns :
              cs[fd] = [frames |-> conns[fd].frames, out |-> Append(conns[fd].out, Heartbeat)]
      BY <1>1, <2>1, BroadcastFacts
  <2>3. /\ conns' = BroadcastPayload(cs, Md(top)) /\ lastTop' = top
        /\ UNCHANGED <<envVars, venueVars, connFd, fdConn, nextConnId>>
        /\ pc = "beat" /\ pc' = "listen" /\ events' = events
      BY <1>2 DEF Beat
  <2>4. /\ \A fd \in DOMAIN events : events[fd] \subseteq {"HUP", "IN", "OUT"} /\ events[fd] # {}
        /\ DOMAIN events \ {ListenFd} \subseteq DOMAIN conns
      BY DEF IInv, ConnectionsExact, TypeOK, EventsOpen
  <2> HIDE DEF cs
  <2>5. \A fd \in DOMAIN conns : cs[fd].frames = conns[fd].frames
      BY <2>2
  <2> QED BY <2>2, <2>3, <2>4, <2>5, BroadcastsTop
<1>3. CASE TopMoved
  <2>1. /\ conns' = BroadcastPayload(conns, Md(top)) /\ lastTop' = top
        /\ UNCHANGED <<envVars, venueVars, connFd, fdConn, nextConnId>>
        /\ pc = "events" /\ pc' = "poll" /\ events' = Empty
      BY <1>3 DEF TopMoved, PassDone
  <2> QED BY <1>1, <2>1, BroadcastsTop DEF Empty
<1> QED BY <1>2, <1>3

\* A new connection gets an id and a descriptor nobody has, and a snapshot.
LEMMA AcceptKeeps == IInv /\ AcceptNew => IInv'
<1> SUFFICES ASSUME IInv, AcceptNew PROVE IInv'
    OBVIOUS
<1> DEFINE cfd == Min(FreeFds)
           conn == [frames |-> <<>>, out |-> <<Md(top)>>]
<1>1. cfd \in Fds /\ cfd \notin DOMAIN conns /\ cfd # ListenFd
  <2>1. FreeFds \subseteq Nat /\ FreeFds # {}
      BY ServerAssumption DEF FreeFds, AcceptNew, CanAccept
  <2>2. cfd \in FreeFds
      BY <2>1, MinInSet
  <2> QED BY <2>2, ServerAssumption DEF FreeFds, ListenFd
<1> HIDE DEF cfd
<1>2. /\ conns' = [fd \in DOMAIN conns \cup {cfd} |-> IF fd = cfd THEN conn ELSE conns[fd]]
      /\ connFd' = [id \in DOMAIN connFd \cup {nextConnId} |-> IF id = nextConnId THEN cfd ELSE connFd[id]]
      /\ fdConn' = [fd \in DOMAIN fdConn \cup {cfd} |-> IF fd = cfd THEN nextConnId ELSE fdConn[fd]]
      /\ nextConnId' = nextConnId + 1 /\ pc = "listen" /\ connected >= nextConnId
    BY DEF AcceptNew, CanAccept, cfd
<1>3. /\ connected' = connected /\ inbox' = inbox /\ left' = left /\ gone' = gone
      /\ room' = room /\ seen' = seen /\ top' = top /\ known' = known /\ lastTop' = lastTop
      /\ pc' = pc /\ events' = events /\ cur' = cur
    BY DEF AcceptNew, envVars, venueVars, loopVars
<1>4. /\ nextConnId \in Clients /\ nextConnId \in Nat /\ top \in Tops /\ top = lastTop
      /\ \A fd \in DOMAIN fdConn : fdConn[fd] < nextConnId /\ fdConn[fd] \in Nat
    BY <1>2, ServerAssumption DEF IInv, ConnectionsExact, TypeOK, ConnsOK, MdOK, Clients
<1>5. nextConnId \notin DOMAIN connFd
    BY <1>4 DEF IInv, ConnectionsExact, MapsAgree
<1>6. conn \in [frames : Seq(Items), out : Seq(Frame)]
  <2>1. <<Md(top)>> \in Seq(Frame) /\ <<>> \in Seq(Items)
      BY <1>4 DEF Md, Frame
  <2> QED BY <2>1
<1>7. LastMd(<<Md(top)>>, seen[nextConnId]) = top
  <2>1. <<>> \in Seq(Frame) /\ Append(<<>>, Md(top)) = <<Md(top)>>
      OBVIOUS
  <2>2. LastMd(Append(<<>>, Md(top)), seen[nextConnId]) = top
      BY <1>4, <2>1, LastMdAppendMd
  <2> QED BY <2>1, <2>2
<1>8. TypeOK'
  <2>1. \A fd \in DOMAIN conns' : conns'[fd].frames = <<>>
      BY <1>2 DEF IInv, ConnectionsExact, TypeOK
  <2>2. nextConnId' \in 1..(MaxClients + 1) /\ nextConnId' <= connected + 1
      BY <1>2, <1>4, ServerAssumption DEF IInv, ConnectionsExact, TypeOK, Clients
  <2> QED BY <1>1, <1>2, <1>3, <2>1, <2>2 DEF IInv, ConnectionsExact, TypeOK
<1>9. MapsAgree'
  <2>1. MapsAgree
      BY DEF IInv, ConnectionsExact
  <2>2. DOMAIN conns' = DOMAIN fdConn'
      BY <1>2, <2>1 DEF MapsAgree
  <2>3. ASSUME NEW g \in DOMAIN fdConn'
        PROVE  fdConn'[g] \in DOMAIN connFd' /\ connFd'[fdConn'[g]] = g
    <3>1. CASE g = cfd
        BY <1>2, <3>1
    <3>2. CASE g # cfd
      <4>1. g \in DOMAIN fdConn /\ fdConn'[g] = fdConn[g] /\ fdConn[g] # nextConnId
          BY <1>2, <1>4, <3>2
      <4> QED BY <1>2, <2>1, <4>1 DEF MapsAgree
    <3> QED BY <3>1, <3>2
  <2>4. ASSUME NEW i \in DOMAIN connFd'
        PROVE  connFd'[i] \in DOMAIN fdConn' /\ fdConn'[connFd'[i]] = i
    <3>1. CASE i = nextConnId
        BY <1>2, <3>1
    <3>2. CASE i # nextConnId
      <4>1. i \in DOMAIN connFd /\ connFd'[i] = connFd[i] /\ connFd[i] # cfd
          BY <1>1, <1>2, <2>1, <3>2 DEF MapsAgree
      <4> QED BY <1>2, <2>1, <4>1 DEF MapsAgree
    <3> QED BY <3>1, <3>2
  <2>5. known' \subseteq DOMAIN connFd'
      BY <1>2, <1>3, <2>1 DEF MapsAgree
  <2> QED BY <2>2, <2>3, <2>4, <2>5 DEF MapsAgree
<1>10. EventsOpen'
    BY <1>2, <1>3 DEF IInv, ConnectionsExact, EventsOpen
<1>11. EnvOK'
    BY <1>3 DEF IInv, EnvOK
<1>12. ConnsOK'
  <2>1. conns' \in [DOMAIN conns' -> [frames : Seq(Items), out : Seq(Frame)]]
      BY <1>2, <1>6 DEF IInv, ConnsOK
  <2>2. connFd' \in [DOMAIN connFd' -> Fds]
      BY <1>1, <1>2 DEF IInv, ConnsOK
  <2>3. fdConn' \in [DOMAIN fdConn' -> Clients]
      BY <1>2, <1>4 DEF IInv, ConnsOK
  <2>4. \A fd \in DOMAIN fdConn' : fdConn'[fd] < nextConnId'
      BY <1>2, <1>4
  <2> QED BY <2>1, <2>2, <2>3, <2>4 DEF ConnsOK
<1>13. LoopOK'
    BY <1>2, <1>3 DEF LoopOK
<1>14. MdOK'
  <2>1. ASSUME NEW fd \in DOMAIN conns'
        PROVE  LastMd(conns'[fd].out, seen'[fdConn'[fd]]) = lastTop'
    <3>1. CASE fd = cfd
      <4>1. conns'[fd].out = <<Md(top)>> /\ fdConn'[fd] = nextConnId
          BY <1>2, <3>1 DEF IInv, ConnectionsExact, MapsAgree
      <4> QED BY <1>3, <1>4, <1>7, <4>1
    <3>2. CASE fd # cfd
      <4>1. fd \in DOMAIN conns /\ fd \in DOMAIN fdConn
          BY <1>2, <3>2 DEF IInv, ConnectionsExact, MapsAgree
      <4>2. conns'[fd] = conns[fd] /\ fdConn'[fd] = fdConn[fd]
          BY <1>2, <3>2, <4>1
      <4> QED BY <1>3, <4>1, <4>2 DEF IInv, MdOK
    <3> QED BY <3>1, <3>2
  <2> QED BY <1>3, <1>4, <2>1 DEF MdOK
<1> QED BY <1>8, <1>9, <1>10, <1>11, <1>12, <1>13, <1>14 DEF IInv, ConnectionsExact

\* Everything that has arrived goes to the decoder of the entry's connection.
LEMMA ReadKeeps ==
    ASSUME IInv, NEW fd \in DOMAIN events \ {ListenFd}, Read(fd)
    PROVE  IInv'
<1> DEFINE c == fdConn[fd]
<1>1. fd \in DOMAIN conns /\ c \in Clients /\ conns[fd] \in [frames : Seq(Items), out : Seq(Frame)]
    BY MapsFacts
<1>2. /\ pc = "events" /\ pc' = "lines" /\ cur' = fd
      /\ conns' = [conns EXCEPT ![fd].frames = @ \o inbox[c]]
      /\ inbox' = [inbox EXCEPT ![c] = <<>>]
    BY DEF Read
<1>3. /\ connected' = connected /\ left' = left /\ gone' = gone /\ room' = room /\ seen' = seen
      /\ top' = top /\ known' = known /\ connFd' = connFd /\ fdConn' = fdConn
      /\ nextConnId' = nextConnId /\ lastTop' = lastTop /\ events' = events
    BY DEF Read, venueVars
<1>4. conns[fd].frames \o inbox[c] \in Seq(Items)
  <2>1. inbox[c] \in Seq(Items) /\ conns[fd].frames \in Seq(Items)
      BY <1>1 DEF IInv, EnvOK
  <2> QED BY <2>1, ConcatProperties
<1>5. /\ DOMAIN conns' = DOMAIN conns
      /\ conns'[fd] = [frames |-> conns[fd].frames \o inbox[c], out |-> conns[fd].out]
      /\ \A g \in DOMAIN conns : g # fd => conns'[g] = conns[g]
  <2>1. conns'[fd] = [conns[fd] EXCEPT !.frames = @ \o inbox[c]]
      BY <1>1, <1>2
  <2>2. conns'[fd] = [frames |-> conns[fd].frames \o inbox[c], out |-> conns[fd].out]
      BY <1>1, <2>1
  <2> QED BY <1>1, <1>2, <2>2
<1>6. TypeOK'
  <2>1. \A g \in DOMAIN conns' : conns'[g].frames # <<>> => pc' = "lines" /\ cur' = g
      BY <1>2, <1>5 DEF IInv, ConnectionsExact, TypeOK
  <2> QED BY <1>2, <1>3, <1>5, <2>1 DEF IInv, ConnectionsExact, TypeOK
<1>7. MapsAgree' /\ EventsOpen'
    BY <1>3, <1>5 DEF IInv, ConnectionsExact, MapsAgree, EventsOpen
<1>8. EnvOK'
  <2>1. inbox' \in [Clients -> Seq(Items)]
      BY <1>1, <1>2 DEF IInv, EnvOK
  <2> QED BY <1>3, <2>1 DEF IInv, EnvOK
<1>9. ConnsOK'
  <2>1. \A g \in DOMAIN conns' : conns'[g] \in [frames : Seq(Items), out : Seq(Frame)]
    <3>1. conns'[fd] \in [frames : Seq(Items), out : Seq(Frame)]
        BY <1>1, <1>4, <1>5
    <3> QED BY <1>5, <3>1 DEF IInv, ConnsOK
  <2>2. conns' \in [DOMAIN conns' -> [frames : Seq(Items), out : Seq(Frame)]]
      BY <1>2, <2>1 DEF IInv, ConnsOK
  <2> QED BY <1>3, <2>2 DEF IInv, ConnsOK
<1>10. LoopOK'
    BY <1>2, <1>3 DEF LoopOK
<1>11. MdOK'
  <2>1. \A g \in DOMAIN conns : conns'[g].out = conns[g].out
      BY <1>5
  <2> QED BY <1>2, <1>3, <1>5, <2>1 DEF IInv, MdOK
<1> QED BY <1>6, <1>7, <1>8, <1>9, <1>10, <1>11 DEF IInv, ConnectionsExact

\* A frame's replies go to open connections and hide no market data.
LEMMA HandleLineKeeps == IInv /\ HandleLine => IInv'
<1> SUFFICES ASSUME IInv, HandleLine PROVE IInv'
    OBVIOUS
<1> DEFINE taken == [conns EXCEPT ![cur].frames = Tail(@)]
<1>1. /\ pc = "lines" /\ conns[cur].frames # <<>> /\ known' = known \cup {fdConn[cur]} /\ top' \in Tops
      /\ connected' = connected /\ inbox' = inbox /\ left' = left /\ gone' = gone /\ room' = room
      /\ seen' = seen /\ connFd' = connFd /\ fdConn' = fdConn
      /\ nextConnId' = nextConnId /\ lastTop' = lastTop
      /\ pc' = pc /\ events' = events /\ cur' = cur
    BY DEF HandleLine, envVars, loopVars
<1>2. PICK ids \in SUBSET known' : conns' = Enqueue(taken, ids, Reply)
    BY DEF HandleLine
<1>3. /\ cur \in DOMAIN conns /\ fdConn[cur] \in DOMAIN connFd
      /\ conns[cur] \in [frames : Seq(Items), out : Seq(Frame)]
  <2>1. cur \in DOMAIN conns
      BY <1>1 DEF IInv, ConnectionsExact, EventsOpen, LoopOK
  <2> QED BY <2>1, MapsFacts
<1>4. /\ DOMAIN taken = DOMAIN conns
      /\ taken[cur] = [frames |-> Tail(conns[cur].frames), out |-> conns[cur].out]
      /\ \A g \in DOMAIN conns : g # cur => taken[g] = conns[g]
  <2>1. taken[cur] = [conns[cur] EXCEPT !.frames = Tail(@)]
      BY <1>3
  <2>2. taken[cur] = [frames |-> Tail(conns[cur].frames), out |-> conns[cur].out]
      BY <1>3, <2>1
  <2> QED BY <1>3, <2>2
<1>5. taken \in [DOMAIN taken -> [frames : Seq(Items), out : Seq(Frame)]]
  <2>1. Tail(conns[cur].frames) \in Seq(Items)
      BY <1>1, <1>3, HeadTailProperties
  <2>2. taken[cur] \in [frames : Seq(Items), out : Seq(Frame)]
      BY <1>3, <1>4, <2>1
  <2>3. \A g \in DOMAIN conns : taken[g] \in [frames : Seq(Items), out : Seq(Frame)]
      BY <1>4, <2>2 DEF IInv, ConnsOK
  <2> QED BY <1>4, <2>3
<1> HIDE DEF taken
<1>6. /\ DOMAIN conns' = DOMAIN conns
      /\ conns' \in [DOMAIN conns' -> [frames : Seq(Items), out : Seq(Frame)]]
      /\ \A fd \in DOMAIN conns : /\ conns'[fd].frames = taken[fd].frames
                                 /\ \A b : LastMd(conns'[fd].out, b) = LastMd(taken[fd].out, b)
  <2>1. /\ DOMAIN Enqueue(taken, ids, Reply) = DOMAIN taken
        /\ Enqueue(taken, ids, Reply) \in [DOMAIN taken -> [frames : Seq(Items), out : Seq(Frame)]]
        /\ \A fd \in DOMAIN taken :
              /\ Enqueue(taken, ids, Reply)[fd].frames = taken[fd].frames
              /\ \A b : LastMd(Enqueue(taken, ids, Reply)[fd].out, b) = LastMd(taken[fd].out, b)
      BY ZenonT(40), <1>5, EnqueueFacts
  <2> QED BY <1>2, <1>4, <2>1
<1>7. TypeOK'
  <2>1. \A g \in DOMAIN conns' : conns'[g].frames # <<>> => pc' = "lines" /\ cur' = g
      BY <1>1, <1>4, <1>6 DEF IInv, ConnectionsExact, TypeOK
  <2> QED BY <1>1, <1>6, <2>1 DEF IInv, ConnectionsExact, TypeOK
<1>8. MapsAgree' /\ EventsOpen'
    BY <1>1, <1>3, <1>6 DEF IInv, ConnectionsExact, MapsAgree, EventsOpen
<1>9. EnvOK' /\ LoopOK'
    BY <1>1 DEF IInv, EnvOK, LoopOK
<1>10. ConnsOK'
    BY <1>1, <1>6 DEF IInv, ConnsOK
<1>11. MdOK'
  <2>1. ASSUME NEW fd \in DOMAIN conns
        PROVE  LastMd(conns'[fd].out, seen[fdConn[fd]]) = lastTop
    <3>1. taken[fd].out = conns[fd].out
        BY <1>4
    <3>2. LastMd(conns[fd].out, seen[fdConn[fd]]) = lastTop
        BY DEF IInv, MdOK
    <3> QED BY <1>6, <3>1, <3>2
  <2> QED BY <1>1, <1>6, <2>1 DEF MdOK
<1> QED BY <1>7, <1>8, <1>9, <1>10, <1>11 DEF IInv, ConnectionsExact

\* What a client has received is market data or nothing.
LEMMA LastMdType ==
    ASSUME NEW out \in Seq(Frame), NEW b \in Tops \cup {NoTop}
    PROVE  LastMd(out, b) \in Tops \cup {NoTop}
<1>1. CASE \A i \in DOMAIN out : out[i].type # "MARKET_DATA"
    BY <1>1, LastMdNone
<1>2. ASSUME NEW i \in DOMAIN out, out[i].type = "MARKET_DATA",
             \A j \in DOMAIN out : out[j].type = "MARKET_DATA" => j <= i
      PROVE  LastMd(out, b) \in Tops \cup {NoTop}
  <2>1. out[i] \in Frame
      BY ElementOfSeq, LenProperties
  <2> QED BY <1>2, <2>1, LastMdAt DEF Frame
<1> QED BY <1>1, <1>2, LastMdCases

\* Frames go out in order: the client has the front of the queue, the buffer keeps
\* the rest, and the last market data of both is what it was.
LEMMA WriteKeeps ==
    ASSUME IInv, NEW fd \in DOMAIN events \ {ListenFd},
           NEW n \in 1..Len(conns[fd].out), Write(fd, n)
    PROVE  IInv'
<1> DEFINE c == fdConn[fd]
           out == conns[fd].out
           front == SubSeq(out, 1, n)
           rest == SubSeq(out, n + 1, Len(out))
<1>1. /\ fd \in DOMAIN conns /\ c \in Clients /\ conns[fd] \in [frames : Seq(Items), out : Seq(Frame)]
      /\ out \in Seq(Frame) /\ Len(out) \in Nat
  <2>1. fd \in DOMAIN conns /\ c \in Clients /\ conns[fd] \in [frames : Seq(Items), out : Seq(Frame)]
      BY MapsFacts
  <2>2. out \in Seq(Frame)
      BY <2>1
  <2> QED BY <2>1, <2>2, LenProperties
<1>2. /\ pc \in {"write", "events"} /\ pc' = "events"
      /\ events' = Erase(events, fd)
      /\ seen' = [seen EXCEPT ![c] = LastMd(front, seen[c])]
      /\ room' = [room EXCEPT ![c] = (n = Len(out))]
      /\ conns' = [conns EXCEPT ![fd].out = rest]
    BY DEF Write, WritersTurn, Unsent
<1>3. /\ connected' = connected /\ inbox' = inbox /\ left' = left /\ gone' = gone
      /\ top' = top /\ known' = known /\ connFd' = connFd /\ fdConn' = fdConn
      /\ nextConnId' = nextConnId /\ lastTop' = lastTop
    BY DEF Write, venueVars
<1>4. front \in Seq(Frame) /\ rest \in Seq(Frame)
  <2>1. \A i \in 1..Len(out) : out[i] \in Frame
      BY <1>1, ElementOfSeq
  <2>2. front \in Seq(Frame)
    <3>1. n \in Int /\ 1 \in Int /\ \A i \in 1..n : out[i] \in Frame
        BY <1>1, <2>1
    <3> QED BY <1>1, <3>1, SubSeqProperties
  <2>3. rest \in Seq(Frame)
    <3>1. n + 1 \in Int /\ Len(out) \in Int /\ \A i \in (n + 1)..Len(out) : out[i] \in Frame
        BY <1>1, <2>1
    <3> QED BY <1>1, <3>1, SubSeqProperties
  <2> QED BY <2>2, <2>3
<1>5. LastMd(rest, LastMd(front, seen[c])) = LastMd(out, seen[c])
  <2>1. n \in 0..Len(out)
      BY <1>1
  <2> QED BY <1>1, <2>1, LastMdSplit
<1>6. LastMd(front, seen[c]) \in Tops \cup {NoTop}
  <2>1. seen[c] \in Tops \cup {NoTop}
      BY <1>1 DEF IInv, EnvOK
  <2> HIDE DEF front
  <2> QED BY <1>4, <2>1, LastMdType
<1> HIDE DEF front, rest
<1>7. /\ DOMAIN conns' = DOMAIN conns
      /\ conns'[fd] = [frames |-> conns[fd].frames, out |-> rest]
      /\ \A g \in DOMAIN conns : g # fd => conns'[g] = conns[g]
  <2>1. conns'[fd] = [conns[fd] EXCEPT !.out = rest]
      BY <1>1, <1>2
  <2>2. conns'[fd] = [frames |-> conns[fd].frames, out |-> rest]
      BY <1>1, <2>1
  <2> QED BY <1>1, <1>2, <2>2
<1>8. /\ DOMAIN events' = DOMAIN events \ {fd}
      /\ \A g \in DOMAIN events' : events'[g] = events[g]
    BY <1>2 DEF Erase
<1>9. TypeOK'
  <2>1. \A g \in DOMAIN conns' : conns'[g].frames = <<>>
      BY <1>2, <1>7 DEF IInv, ConnectionsExact, TypeOK
  <2> QED BY <1>2, <1>3, <1>7, <1>8, <2>1 DEF IInv, ConnectionsExact, TypeOK
<1>10. MapsAgree' /\ EventsOpen'
    BY <1>3, <1>7, <1>8 DEF IInv, ConnectionsExact, MapsAgree, EventsOpen
<1>11. EnvOK'
  <2>1. room' \in [Clients -> BOOLEAN] /\ seen' \in [Clients -> Tops \cup {NoTop}]
      BY <1>1, <1>2, <1>6 DEF IInv, EnvOK
  <2> QED BY <1>3, <2>1 DEF IInv, EnvOK
<1>12. ConnsOK'
  <2>1. \A g \in DOMAIN conns' : conns'[g] \in [frames : Seq(Items), out : Seq(Frame)]
    <3>1. conns'[fd] \in [frames : Seq(Items), out : Seq(Frame)]
        BY <1>1, <1>4, <1>7
    <3> QED BY <1>7, <3>1 DEF IInv, ConnsOK
  <2>2. conns' \in [DOMAIN conns' -> [frames : Seq(Items), out : Seq(Frame)]]
      BY <1>2, <2>1 DEF IInv, ConnsOK
  <2> QED BY <1>3, <2>2 DEF IInv, ConnsOK
<1>13. LoopOK'
    BY <1>2 DEF LoopOK
<1>14. MdOK'
  <2>1. ASSUME NEW g \in DOMAIN conns
        PROVE  LastMd(conns'[g].out, seen'[fdConn[g]]) = lastTop
    <3>1. LastMd(conns[g].out, seen[fdConn[g]]) = lastTop
        BY DEF IInv, MdOK
    <3>2. CASE g = fd
      <4>1. conns'[g].out = rest /\ seen'[fdConn[g]] = LastMd(front, seen[c])
          BY <1>1, <1>2, <1>7, <3>2 DEF IInv, EnvOK
      <4> QED BY <1>5, <3>1, <3>2, <4>1
    <3>3. CASE g # fd
      <4>1. fdConn[g] # c
          BY <1>1, <3>3, MapsFacts
      <4>2. conns'[g] = conns[g] /\ seen'[fdConn[g]] = seen[fdConn[g]]
          BY <1>2, <1>7, <3>3, <4>1 DEF IInv, EnvOK
      <4> QED BY <3>1, <4>2
    <3> QED BY <3>2, <3>3
  <2> QED BY <1>2, <1>3, <1>7, <2>1 DEF MdOK
<1> QED BY <1>9, <1>10, <1>11, <1>12, <1>13, <1>14 DEF IInv, ConnectionsExact

\* A hang-up, the end of a stream, a framing error and a failed send all close the
\* connection of the entry at hand.
LEMMA ClosingKeeps ==
    ASSUME IInv, NEW fd \in DOMAIN events \ {ListenFd},
           HangUp(fd) \/ ReadClosed(fd) \/ WriteFails(fd) \/ (FramingError /\ fd = cur)
    PROVE  IInv'
<1>1. /\ CloseConn(fd) /\ pc' = "events" /\ events' = Erase(events, fd)
      /\ UNCHANGED <<envVars, lastTop>>
      /\ pc \in {"events", "lines", "write"} /\ (pc \in {"lines", "write"} => fd = cur)
    BY DEF HangUp, AfterHangUp, ReadClosed, WriteFails, WritersTurn, FramingError
<1> QED BY <1>1, CloseInPass

\* No step of the clients or of the loop breaks it.
LEMMA ServerStepKeeps == IInv /\ [Next]_vars => IInv'
<1> SUFFICES ASSUME IInv, [Next]_vars PROVE IInv'
    OBVIOUS
<1>1. CASE Environment
    BY <1>1, EnvironmentKeeps
<1>2. CASE Poll
    BY <1>2, PollKeeps
<1>3. CASE NoBeat \/ AcceptEnds \/ LinesDone \/ TopUnmoved
    BY <1>3, IdleKeeps
<1>4. CASE Beat \/ TopMoved
    BY <1>4, FeedKeeps
<1>5. CASE AcceptNew
    BY <1>5, AcceptKeeps
<1>6. CASE HandleLine
    BY <1>6, HandleLineKeeps
<1>7. CASE FramingError
  <2>1. cur \in DOMAIN events \ {ListenFd}
      BY <1>7 DEF FramingError, IInv, LoopOK
  <2> QED BY <1>7, <2>1, ClosingKeeps
<1>8. ASSUME NEW fd \in DOMAIN events \ {ListenFd},
             \/ HangUp(fd) \/ Read(fd) \/ ReadClosed(fd) \/ WriteFails(fd)
             \/ \E n \in 1..Len(conns[fd].out) : Write(fd, n)
      PROVE  IInv'
    BY <1>8, ReadKeeps, WriteKeeps, ClosingKeeps
<1>9. CASE UNCHANGED vars
  <2>1. /\ connected' = connected /\ inbox' = inbox /\ left' = left /\ gone' = gone
        /\ room' = room /\ seen' = seen /\ top' = top /\ known' = known /\ conns' = conns
        /\ connFd' = connFd /\ fdConn' = fdConn /\ nextConnId' = nextConnId /\ lastTop' = lastTop
        /\ pc' = pc /\ events' = events /\ cur' = cur
      BY <1>9 DEF vars, envVars, venueVars, socketVars, loopVars
  <2>2. ConnectionsExact'
      BY <2>1 DEF IInv, ConnectionsExact, TypeOK, MapsAgree, EventsOpen
  <2>3. EnvOK' /\ ConnsOK' /\ LoopOK' /\ MdOK'
      BY <2>1 DEF IInv, EnvOK, ConnsOK, LoopOK, MdOK
  <2> QED BY <2>2, <2>3 DEF IInv
<1> QED BY <1>1, <1>2, <1>3, <1>4, <1>5, <1>6, <1>7, <1>8, <1>9 DEF Next, Run

-----------------------------------------------------------------------------
(***************************************************************************)
(* The theorems.                                                           *)
(***************************************************************************)
\* The invariant behind both.
THEOREM ServerInvariant == Spec => []IInv
<1> QED BY ServerStarts, ServerStepKeeps, PTL DEF Spec

\* Whatever accepts, closes, resets and reused descriptors meet in one pass: conns_,
\* connFd_ and fdConn_ describe the same connections, one to one, the venue knows
\* open connections only, and the rest of the pass only holds open descriptors.
THEOREM ConnectionsStayExact == Spec => []ConnectionsExact
<1>1. IInv => ConnectionsExact
    BY DEF IInv
<1> QED BY <1>1, ServerInvariant, PTL

\* When poll() is entered, the last market data on its way to a connection, or
\* received by it, is the current top of the book.
THEOREM MarketDataStaysCurrent == Spec => []MarketDataCurrent
<1>1. IInv => MarketDataCurrent
    BY DEF IInv, MdOK, MarketDataCurrent
<1> QED BY <1>1, ServerInvariant, PTL
=============================================================================
