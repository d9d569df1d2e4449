------------------------------- MODULE Server --------------------------------
(***************************************************************************)
(* The venue's TCP server (venue/server.cpp): one thread that polls,       *)
(* broadcasts the heartbeat, accepts, reads, writes and closes, and at the *)
(* end of each pass sends market data if the top of the book has moved.    *)
(* Clients connect, send, stall, close and reset at any moment in between. *)
(*                                                                         *)
(* Framing shows that the cuts TCP makes are invisible, so streams are     *)
(* sequences of frames here. The venue is what Venue promises the server:  *)
(* a frame may move the top and have messages sent to connections that     *)
(* have traded and not been dropped; dropping one may move the top.        *)
(***************************************************************************)
EXTENDS Integers, Sequences, SequencesExt

CONSTANTS Fds,          \* file descriptors for connections
          MaxClients,   \* bound: clients that ever connect
          MaxFrames,    \* bound: frames the clients send, in all
          MaxBeats,     \* bound: heartbeats
          Tops,         \* values of Venue::currentTop
          EmptyTop,     \* Top{}: the top of an empty book without trades
          NoTop         \* no market data yet

ASSUME ServerAssumption ==
    /\ Fds \subseteq Nat \ {0} /\ IsFiniteSet(Fds)
    /\ MaxClients \in Nat /\ MaxFrames \in Nat /\ MaxBeats \in Nat
    /\ EmptyTop \in Tops /\ NoTop \notin Tops

\* Clients in the order they connect, which is the order of accept: the n-th one
\* becomes connection n.
Clients == 1..MaxClients
ListenFd == 0

Md(top)   == [type |-> "MARKET_DATA", top |-> top]
Heartbeat == [type |-> "HEARTBEAT", top |-> NoTop]
Reply     == [type |-> "REPLY", top |-> NoTop]     \* ACK, FILL, REJECT, ...

VARIABLES
    (* the clients and the kernel *)
    connected,    \* number of clients that have connected
    inbox,        \* frames sent by a client and not yet received
    left,         \* frames the clients may still send
    gone,         \* "no", or how the client left: "fin" or "reset"
    room,         \* the socket's send buffer has room
    seen,         \* the last market data the client has received
    (* the venue *)
    top,          \* currentTop()
    known,        \* connections the venue has served and not dropped
    (* the server *)
    conns,        \* conns_: fd -> frames fed to the decoder, out buffer
    connFd,       \* connFd_
    fdConn,       \* fdConn_
    nextConnId, lastTop, heartbeatSeq,
    pc,           \* where run() is
    events,       \* pfds entries with revents still to handle in this pass
    cur           \* the fd inside handleReadable and handleWritable, else ListenFd

envVars    == <<connected, inbox, left, gone, room, seen>>
venueVars  == <<top, known>>
socketVars == <<conns, connFd, fdConn, nextConnId>>
loopVars   == <<pc, events, cur>>
vars == <<envVars, venueVars, socketVars, lastTop, heartbeatSeq, loopVars>>

Empty == [x \in {} |-> 0]
Erase(f, key) == [x \in DOMAIN f \ {key} |-> f[x]]

Init ==
    /\ connected = 0
    /\ inbox = [c \in Clients |-> <<>>]
    /\ left = MaxFrames
    /\ gone = [c \in Clients |-> "no"]
    /\ room = [c \in Clients |-> TRUE]
    /\ seen = [c \in Clients |-> NoTop]
    /\ top = EmptyTop /\ known = {}
    /\ conns = Empty /\ connFd = Empty /\ fdConn = Empty
    /\ nextConnId = 1 /\ lastTop = EmptyTop /\ heartbeatSeq = 0
    /\ pc = "poll" /\ events = Empty /\ cur = ListenFd

-----------------------------------------------------------------------------
(***************************************************************************)
(* Clients and kernel.                                                     *)
(***************************************************************************)
Connect ==
    /\ connected < MaxClients
    /\ connected' = connected + 1
    /\ UNCHANGED <<inbox, left, gone, room, seen, venueVars, socketVars, lastTop, heartbeatSeq, loopVars>>

\* A client sends a frame, or something that is none.
ClientSends(c, frame) ==
    /\ c <= connected /\ gone[c] = "no" /\ left > 0
    /\ inbox' = [inbox EXCEPT ![c] = Append(@, frame)]
    /\ left' = left - 1
    /\ UNCHANGED <<connected, gone, room, seen, venueVars, socketVars, lastTop, heartbeatSeq, loopVars>>

\* A client closes its end in an orderly way, or its connection breaks.
ClientLeaves(c, how) ==
    /\ c <= connected /\ gone[c] = "no"
    /\ gone' = [gone EXCEPT ![c] = how]
    /\ UNCHANGED <<connected, inbox, left, room, seen, venueVars, socketVars, lastTop, heartbeatSeq, loopVars>>

\* A client that had stalled reads, which makes room in the send buffer.
ClientReads(c) ==
    /\ ~room[c] /\ gone[c] = "no"
    /\ room' = [room EXCEPT ![c] = TRUE]
    /\ UNCHANGED <<connected, inbox, left, gone, seen, venueVars, socketVars, lastTop, heartbeatSeq, loopVars>>

-----------------------------------------------------------------------------
(***************************************************************************)
(* enqueue, broadcastPayload and closeConn.                                *)
(***************************************************************************)
\* enqueue(id, frame) for each id of ids: dropped where the id is not mapped.
Enqueue(cs, ids, frame) ==
    LET fds == {connFd[id] : id \in ids \cap DOMAIN connFd}
    IN [fd \in DOMAIN cs |-> IF fd \in fds THEN [cs[fd] EXCEPT !.out = Append(@, frame)] ELSE cs[fd]]

\* Spares the connections that still have something to receive.
Mut_BroadcastPayload(cs, frame) ==
    [fd \in DOMAIN cs |-> IF cs[fd].out = <<>> THEN [cs[fd] EXCEPT !.out = <<frame>>] ELSE cs[fd]]

BroadcastPayload(cs, frame) == [fd \in DOMAIN cs |-> [cs[fd] EXCEPT !.out = Append(@, frame)]]

\* Forgets to tell the venue.
Mut_DropConnection(id) == UNCHANGED <<known, top>>

\* Venue::dropConnection: the connection's orders leave the book.
DropConnection(id) ==
    /\ known' = known \ {id}
    /\ top' \in IF id \in known THEN Tops ELSE {top}

CloseConn(fd) ==
    /\ DropConnection(fdConn[fd])
    /\ connFd' = Erase(connFd, fdConn[fd])
    /\ fdConn' = Erase(fdConn, fd)
    /\ conns' = Erase(conns, fd)
    /\ UNCHANGED nextConnId

-----------------------------------------------------------------------------
(***************************************************************************)
(* run(): one pass is poll, heartbeat, accept, the connections' events in  *)
(* any order (conns_ is a hash map), market data.                          *)
(***************************************************************************)
Revents(fd) ==
    LET c == fdConn[fd]
    IN {f \in {"HUP", "IN", "OUT"} :
          \/ f = "HUP" /\ gone[c] = "reset"
          \/ f = "IN"  /\ (inbox[c] # <<>> \/ gone[c] # "no")
          \/ f = "OUT" /\ conns[fd].out # <<>> /\ room[c]}

\* Builds pfds, polls and keeps the entries with events.
Poll ==
    /\ pc = "poll"
    /\ LET ready == {fd \in DOMAIN conns : Revents(fd) # {}}
           listening == IF connected >= nextConnId THEN {ListenFd} ELSE {}
       IN events' = [fd \in ready \cup listening |-> IF fd = ListenFd THEN {"IN"} ELSE Revents(fd)]
    /\ pc' = "beat"
    /\ UNCHANGED <<envVars, venueVars, socketVars, lastTop, heartbeatSeq, cur>>

\* broadcastFeed, when nextBeat has come.
Beat ==
    /\ pc = "beat"
    /\ heartbeatSeq < MaxBeats
    /\ heartbeatSeq' = heartbeatSeq + 1
    /\ lastTop' = top
    /\ conns' = BroadcastPayload(BroadcastPayload(conns, Heartbeat), Md(top))
    /\ pc' = "listen"
    /\ UNCHANGED <<envVars, venueVars, connFd, fdConn, nextConnId, events, cur>>

NoBeat ==
    /\ pc = "beat"
    /\ pc' = "listen"
    /\ UNCHANGED <<envVars, venueVars, socketVars, lastTop, heartbeatSeq, events, cur>>

FreeFds == Fds \ DOMAIN conns

\* accept() has a connection for us and there is a descriptor for it.
CanAccept == ListenFd \in DOMAIN events /\ connected >= nextConnId /\ FreeFds # {}

\* One round of acceptNew, before the pass serves any connection (listenFd_ is the
\* first of pfds): the kernel gives the lowest free descriptor, and the new
\* connection gets a snapshot.
AcceptNew ==
    /\ pc = "listen" /\ CanAccept
    /\ LET cfd == Min(FreeFds)
       IN /\ conns' = [fd \in DOMAIN conns \cup {cfd} |->
                         IF fd = cfd THEN [frames |-> <<>>, out |-> <<Md(top)>>] ELSE conns[fd]]
          /\ connFd' = [id \in DOMAIN connFd \cup {nextConnId} |-> IF id = nextConnId THEN cfd ELSE connFd[id]]
          /\ fdConn' = [fd \in DOMAIN fdConn \cup {cfd} |-> IF fd = cfd THEN nextConnId ELSE fdConn[fd]]
    /\ nextConnId' = nextConnId + 1
    /\ UNCHANGED <<envVars, venueVars, lastTop, heartbeatSeq, loopVars>>

\* The listener has no event, or accept() has failed.
AcceptEnds ==
    /\ pc = "listen" /\ ~CanAccept
    /\ pc' = "events"
    /\ UNCHANGED <<envVars, venueVars, socketVars, lastTop, heartbeatSeq, events, cur>>

\* Goes on to handleReadable after closing.
Mut_AfterHangUp(fd) == [events EXCEPT ![fd] = @ \ {"HUP"}]

\* `continue` after closeConn.
AfterHangUp(fd) == Erase(events, fd)

HangUp(fd) ==
    /\ pc = "events" /\ "HUP" \in events[fd]
    /\ CloseConn(fd)
    /\ events' = AfterHangUp(fd)
    /\ UNCHANGED <<envVars, lastTop, heartbeatSeq, pc, cur>>

\* handleReadable: everything that has arrived goes to the decoder ...
Read(fd) ==
    /\ pc = "events" /\ "IN" \in events[fd] /\ "HUP" \notin events[fd]
    /\ gone[fdConn[fd]] = "no"
    /\ conns' = [conns EXCEPT ![fd].frames = @ \o inbox[fdConn[fd]]]
    /\ inbox' = [inbox EXCEPT ![fdConn[fd]] = <<>>]
    /\ pc' = "lines" /\ cur' = fd
    /\ UNCHANGED <<connected, left, gone, room, seen, venueVars, connFd, fdConn, nextConnId,
                   lastTop, heartbeatSeq, events>>

\* ... unless recv finds the end of the stream or an error: then the connection
\* is closed and the frames before it are not handled.
ReadClosed(fd) ==
    /\ pc = "events" /\ "IN" \in events[fd] /\ "HUP" \notin events[fd]
    /\ gone[fdConn[fd]] # "no"
    /\ CloseConn(fd)
    /\ events' = Erase(events, fd)
    /\ UNCHANGED <<envVars, lastTop, heartbeatSeq, pc, cur>>

\* `if (decoder.next(payload))`: one frame of what has arrived, and on.
Mut_HandleLine ==
    /\ pc = "lines"
    /\ conns[cur].frames # <<>> /\ Head(conns[cur].frames) = "frame"
    /\ known' = known \cup {fdConn[cur]}
    /\ top' \in Tops
    /\ conns' = [conns EXCEPT ![cur].frames = Tail(@)]
    /\ IF "OUT" \in events[cur] THEN pc' = "write" /\ UNCHANGED <<events, cur>>
       ELSE pc' = "events" /\ events' = Erase(events, cur) /\ cur' = ListenFd
    /\ UNCHANGED <<envVars, connFd, fdConn, nextConnId, lastTop, heartbeatSeq>>

\* Venue::handleLine for the next frame.
HandleLine ==
    /\ pc = "lines"
    /\ conns[cur].frames # <<>> /\ Head(conns[cur].frames) = "frame"
    /\ known' = known \cup {fdConn[cur]}
    /\ top' \in Tops
    /\ \E ids \in SUBSET known' :
          conns' = Enqueue([conns EXCEPT ![cur].frames = Tail(@)], ids, Reply)
    /\ UNCHANGED <<envVars, connFd, fdConn, nextConnId, lastTop, heartbeatSeq, loopVars>>

\* Leaves the connection open, with what its decoder will never give out.
Mut_FramingError ==
    /\ pc = "lines"
    /\ conns[cur].frames # <<>> /\ Head(conns[cur].frames) # "frame"
    /\ pc' = "events" /\ events' = Erase(events, cur) /\ cur' = ListenFd
    /\ UNCHANGED <<envVars, venueVars, socketVars, lastTop, heartbeatSeq>>

\* The decoder has failed: "fail loud".
FramingError ==
    /\ pc = "lines"
    /\ conns[cur].frames # <<>> /\ Head(conns[cur].frames) # "frame"
    /\ CloseConn(cur)
    /\ pc' = "events" /\ events' = Erase(events, cur) /\ cur' = ListenFd
    /\ UNCHANGED <<envVars, lastTop, heartbeatSeq>>

\* decoder.next() has no more for us.
DecoderDone == conns[cur].frames = <<>>

LinesDone ==
    /\ pc = "lines"
    /\ DecoderDone
    /\ IF "OUT" \in events[cur] THEN pc' = "write" /\ UNCHANGED <<events, cur>>
       ELSE pc' = "events" /\ events' = Erase(events, cur) /\ cur' = ListenFd
    /\ UNCHANGED <<envVars, venueVars, socketVars, lastTop, heartbeatSeq>>

\* An entry whose turn to write has come.
WritersTurn(fd) ==
    \/ pc = "write" /\ fd = cur
    \/ pc = "events" /\ events[fd] = {"OUT"}

\* The market data a client has received last, after these frames.
LastMd(frames, before) ==
    LET mds == {i \in DOMAIN frames : frames[i].type = "MARKET_DATA"}
    IN IF mds = {} THEN before ELSE frames[Max(mds)].top

\* Forgets what does not fit in the buffer.
Mut_Unsent(out, n) == <<>>

\* out.erase(0, n).
Unsent(out, n) == SubSeq(out, n + 1, Len(out))

\* handleWritable: n frames go out; when that is not all, the buffer is full (it
\* is only reported writable when it has room for more than a frame).
Write(fd, n) ==
    /\ WritersTurn(fd)
    /\ gone[fdConn[fd]] # "reset"
    /\ LET c   == fdConn[fd]
           out == conns[fd].out
       IN /\ seen' = [seen EXCEPT ![c] = LastMd(SubSeq(out, 1, n), @)]
          /\ room' = [room EXCEPT ![c] = (n = Len(out))]
          /\ conns' = [conns EXCEPT ![fd].out = Unsent(out, n)]
    /\ pc' = "events" /\ events' = Erase(events, fd) /\ cur' = ListenFd
    /\ UNCHANGED <<connected, inbox, left, gone, venueVars, connFd, fdConn, nextConnId,
                   lastTop, heartbeatSeq>>

\* send() fails: the connection has broken since poll.
WriteFails(fd) ==
    /\ WritersTurn(fd)
    /\ gone[fdConn[fd]] = "reset"
    /\ CloseConn(fd)
    /\ pc' = "events" /\ events' = Erase(events, fd) /\ cur' = ListenFd
    /\ UNCHANGED <<envVars, lastTop, heartbeatSeq>>

PassDone == pc = "events" /\ DOMAIN events \subseteq {ListenFd}

\* Market data on change, once per pass.
TopMoved ==
    /\ PassDone
    /\ top # lastTop
    /\ lastTop' = top
    /\ conns' = BroadcastPayload(conns, Md(top))
    /\ pc' = "poll" /\ events' = Empty
    /\ UNCHANGED <<envVars, venueVars, connFd, fdConn, nextConnId, heartbeatSeq, cur>>

TopUnmoved ==
    /\ PassDone
    /\ top = lastTop
    /\ pc' = "poll" /\ events' = Empty
    /\ UNCHANGED <<envVars, venueVars, socketVars, lastTop, heartbeatSeq, cur>>

-----------------------------------------------------------------------------
Run ==
    \/ Poll \/ Beat \/ NoBeat \/ AcceptNew \/ AcceptEnds
    \/ \E fd \in DOMAIN events \ {ListenFd} :
          \/ HangUp(fd) \/ Read(fd) \/ ReadClosed(fd) \/ WriteFails(fd)
          \/ \E n \in 1..Len(conns[fd].out) : Write(fd, n)
    \/ HandleLine \/ FramingError \/ LinesDone
    \/ TopMoved \/ TopUnmoved

Environment ==
    \/ Connect
    \/ \E c \in Clients :
          \/ \E frame \in {"frame", "garbage"} : ClientSends(c, frame)
          \/ \E how \in {"fin", "reset"} : ClientLeaves(c, how)
          \/ ClientReads(c)

Next == Run \/ Environment

Spec == Init /\ [][Next]_vars

\* The loop never stops (the heartbeat bounds every poll), and clients that stay
\* keep reading (a receive task does nothing else).
FairSpec == Spec /\ WF_vars(Run) /\ \A c \in Clients : WF_vars(ClientReads(c))

-----------------------------------------------------------------------------
\* The server's members are well typed, ids are given out once per connection, and
\* no frame stays in a decoder outside handleReadable.
TypeOK ==
    /\ connected \in 0..MaxClients /\ nextConnId \in 1..(MaxClients + 1)
    /\ nextConnId <= connected + 1
    /\ DOMAIN conns \subseteq Fds
    /\ \A fd \in DOMAIN conns : conns[fd].frames # <<>> => pc = "lines" /\ cur = fd
    /\ top \in Tops /\ lastTop \in Tops
    /\ pc \in {"poll", "beat", "listen", "events", "lines", "write"}
    /\ \A fd \in DOMAIN events : events[fd] \subseteq {"HUP", "IN", "OUT"} /\ events[fd] # {}

\* The three maps describe the same connections, connFd_ and fdConn_ are inverse
\* to each other, and the venue only knows connections that are open: enqueue
\* never drops a message and no reply reaches a later user of a descriptor.
MapsAgree ==
    /\ DOMAIN conns = DOMAIN fdConn
    /\ \A fd \in DOMAIN fdConn : fdConn[fd] \in DOMAIN connFd /\ connFd[fdConn[fd]] = fd
    /\ \A id \in DOMAIN connFd : connFd[id] \in DOMAIN fdConn /\ fdConn[connFd[id]] = id
    /\ known \subseteq DOMAIN connFd

\* The descriptors with events left in the pass are open, though handlers close
\* connections and accept reuses descriptors meanwhile: conns_[fd] never creates
\* an entry for a connection that is gone.
EventsOpen == DOMAIN events \ {ListenFd} \subseteq DOMAIN conns

\* Accepts, closes, resets and reused descriptors in one pass leave the tables and
\* the rest of the pass consistent.
ConnectionsExact == TypeOK /\ MapsAgree /\ EventsOpen

\* Between passes, the last market data sent to every connection is the current
\* top of the book, whether it came from the snapshot, the heartbeat or a change,
\* although changes within a pass are coalesced.
MarketDataCurrent ==
    pc = "poll" => \A fd \in DOMAIN conns : LastMd(conns[fd].out, seen[fdConn[fd]]) = top

Open(c) == c \in DOMAIN connFd

\* Every client that stays connected ends up with the current top.
ClientsCatchUp ==
    \A c \in Clients : <>[]Open(c) => <>[](seen[c] = top)

\* What a client that stays has sent is received and handled: every frame of a
\* recv, although poll does not report again what has been read, and whoever else
\* is sending, stalling or leaving in the same pass.
FramesHandled ==
    \A c \in Clients :
        []<>(\/ gone[c] # "no" \/ ~Open(c)
             \/ inbox[c] = <<>> /\ conns[connFd[c]].frames = <<>>)
=============================================================================
