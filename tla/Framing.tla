------------------------------- MODULE Framing -------------------------------
(***************************************************************************)
(* The framing of the venue's TCP streams (venue/framing.cpp) and the way  *)
(* the server reads one connection with it (Server::handleReadable): recv  *)
(* until EAGAIN feeding the decoder, then take frames until it has no more.*)
(* TCP may cut the stream anywhere.                                        *)
(***************************************************************************)
EXTENDS Integers, Sequences, SequencesExt

CONSTANTS Base,              \* 256, the values of a byte
          Magic,             \* kFrameMagic as a sequence of bytes
          LengthBytes,       \* bytes of the big-endian length
          MaxPayloadBytes,   \* kMaxPayloadBytes
          Streams            \* what peers send: sequences of items, see below

HeaderBytes == Len(Magic) + LengthBytes      \* kFrameHeaderBytes

Bytes == 0..(Base - 1)

\* What a shift by k bytes multiplies with.
Power[k \in 0..LengthBytes] == IF k = 0 THEN 1 ELSE Base * Power[k - 1]

\* encodeFrame.
BigEndian(n) == [i \in 1..LengthBytes |-> (n \div Power[LengthBytes - i]) % Base]

EncodeFrame(payload) == Magic \o BigEndian(Len(payload)) \o payload

\* FrameDecoder::next on the bytes it holds, a header at least: the length field,
\* most significant byte first, and the two tests of the header.
PayloadLength(bytes) ==
    LET value[k \in 0..LengthBytes] ==
            IF k = 0 THEN 0 ELSE value[k - 1] * Base + bytes[Len(Magic) + k]
    IN value[LengthBytes]

\* Drops the test of the length.
Mut_BadHeader(bytes) == SubSeq(bytes, 1, Len(Magic)) # Magic

BadHeader(bytes) ==
    \/ SubSeq(bytes, 1, Len(Magic)) # Magic
    \/ PayloadLength(bytes) > MaxPayloadBytes

\* An item is a payload the peer frames, or bytes that are no frame and that begin
\* with what a decoder must refuse. Any sequence of bytes begins such a stream.
Item == [framed : BOOLEAN, bytes : Seq(Bytes)]

ItemOK(item) ==
    IF item.framed THEN Len(item.bytes) < Power[LengthBytes]
    ELSE Len(item.bytes) >= HeaderBytes /\ BadHeader(item.bytes)

ASSUME LayoutAssumption ==
    /\ Base \in Nat \ {0} /\ LengthBytes \in Nat /\ MaxPayloadBytes \in Nat
    /\ Magic \in Seq(Bytes) /\ HeaderBytes > 0
ASSUME StreamsAssumption ==
    \A items \in Streams : items \in Seq(Item) /\ \A i \in DOMAIN items : ItemOK(items[i])

VARIABLES stream,       \* the items this peer sends
          fin,          \* whether the peer may close its end
          wire,         \* bytes sent and not yet received
          buf,          \* FrameDecoder::buf_
          error,        \* FrameDecoder::error_
          delivered,    \* payloads handed to Venue::handleLine
          mode          \* "poll", "recv" or "decode" in handleReadable, "closed"

vars == <<stream, fin, wire, buf, error, delivered, mode>>

ItemBytes(item) == IF item.framed THEN EncodeFrame(item.bytes) ELSE item.bytes

\* The bytes of items, one after the other.
Sent(items) ==
    LET upTo[n \in 0..Len(items)] == IF n = 0 THEN <<>> ELSE upTo[n - 1] \o ItemBytes(items[n])
    IN upTo[Len(items)]

Init ==
    /\ stream \in Streams
    /\ fin \in BOOLEAN
    /\ wire = Sent(stream)
    /\ buf = <<>>
    /\ error = FALSE
    /\ delivered = <<>>
    /\ mode = "poll"

-----------------------------------------------------------------------------
(***************************************************************************)
(* FrameDecoder::next.                                                     *)
(***************************************************************************)
HasHeader == Len(buf) >= HeaderBytes

\* Waits for one byte too many.
Mut_HasFrame == HasHeader /\ ~BadHeader(buf) /\ Len(buf) > HeaderBytes + PayloadLength(buf)

HasFrame == HasHeader /\ ~BadHeader(buf) /\ Len(buf) >= HeaderBytes + PayloadLength(buf)

-----------------------------------------------------------------------------
\* recv returns n bytes, however many have arrived.
Recv(n) ==
    /\ mode \in {"poll", "recv"}
    /\ n <= Len(wire)
    /\ buf' = buf \o SubSeq(wire, 1, n)
    /\ wire' = SubSeq(wire, n + 1, Len(wire))
    /\ mode' = "recv"
    /\ UNCHANGED <<stream, fin, error, delivered>>

\* recv returns EAGAIN.
RecvWouldBlock ==
    /\ mode = "recv"
    /\ mode' = "decode"
    /\ UNCHANGED <<stream, fin, wire, buf, error, delivered>>

\* recv returns 0 or an error: the peer has gone and the connection is closed at
\* once, with what the decoder holds.
RecvFails ==
    /\ fin
    /\ mode \in {"poll", "recv"}
    /\ mode' = "closed"
    /\ UNCHANGED <<stream, fin, wire, buf, error, delivered>>

\* Decodes one frame and goes back to poll.
Mut_DecodeFrame ==
    /\ mode = "decode" /\ HasFrame
    /\ delivered' = Append(delivered, SubSeq(buf, HeaderBytes + 1, HeaderBytes + PayloadLength(buf)))
    /\ buf' = SubSeq(buf, HeaderBytes + PayloadLength(buf) + 1, Len(buf))
    /\ mode' = "poll"
    /\ UNCHANGED <<stream, fin, wire, error>>

\* next() returns a frame, and handleLine gets it.
DecodeFrame ==
    /\ mode = "decode" /\ HasFrame
    /\ delivered' = Append(delivered, SubSeq(buf, HeaderBytes + 1, HeaderBytes + PayloadLength(buf)))
    /\ buf' = SubSeq(buf, HeaderBytes + PayloadLength(buf) + 1, Len(buf))
    /\ UNCHANGED <<stream, fin, wire, error, mode>>

\* next() waits for more bytes.
DecodeWaits ==
    /\ mode = "decode" /\ ~HasFrame /\ ~(HasHeader /\ BadHeader(buf))
    /\ mode' = "poll"
    /\ UNCHANGED <<stream, fin, wire, buf, error, delivered>>

\* next() finds a framing violation; the server closes the connection.
DecodeFails ==
    /\ mode = "decode" /\ HasHeader /\ BadHeader(buf)
    /\ error' = TRUE
    /\ mode' = "closed"
    /\ UNCHANGED <<stream, fin, wire, buf, delivered>>

Next ==
    \/ \E n \in 1..Len(wire) : Recv(n)
    \/ RecvWouldBlock
    \/ RecvFails
    \/ DecodeFrame
    \/ DecodeWaits
    \/ DecodeFails

\* The network delivers what is sent and the poll loop serves every connection.
Spec == Init /\ [][Next]_vars /\ WF_vars(Next)

-----------------------------------------------------------------------------
(***************************************************************************)
(* The reference: what a stream means, from the items it was made of.      *)
(***************************************************************************)
Good(item) == item.framed /\ Len(item.bytes) <= MaxPayloadBytes

\* The number of items in front of the first one that is no good frame.
GoodCount == CHOOSE n \in 0..Len(stream) :
                /\ \A i \in 1..n : Good(stream[i])
                /\ n < Len(stream) => ~Good(stream[n + 1])

Received == Len(Sent(stream)) - Len(wire)

\* The frames that have arrived in full: the first Whole items.
Whole == CHOOSE n \in 0..GoodCount :
            /\ Len(Sent(SubSeq(stream, 1, n))) <= Received
            /\ n < GoodCount => Len(Sent(SubSeq(stream, 1, n + 1))) > Received

BadHeaderArrived ==
    GoodCount < Len(stream) /\ Received >= Len(Sent(SubSeq(stream, 1, GoodCount))) + HeaderBytes

\* Buffers hold bytes, and no payload above the limit reaches handleLine.
TypeOK ==
    /\ wire \in Seq(Bytes) /\ buf \in Seq(Bytes)
    /\ error \in BOOLEAN /\ fin \in BOOLEAN
    /\ \A i \in DOMAIN delivered : Len(delivered[i]) <= MaxPayloadBytes
    /\ mode \in {"poll", "recv", "decode", "closed"}

\* Chunking is invisible: whatever pieces recv returned, the payloads delivered
\* are the first frames of the stream, in order and unchanged, and whenever the
\* server goes back to poll or gives up on the stream they are all the frames
\* that have arrived in full.
DeliversWholeFrames ==
    /\ TypeOK
    /\ IsPrefix(delivered, [i \in 1..Whole |-> stream[i].bytes])
    /\ mode = "poll" \/ error => Len(delivered) = Whole

\* The decoder fails exactly on a violation: never on the stream of a peer that
\* frames its payloads, at any cut, and as soon as the offending header is there.
ErrorExact ==
    /\ error => BadHeaderArrived
    /\ mode = "poll" => ~BadHeaderArrived

\* Every frame of a peer that stays is handled, however its stream is cut.
EveryFrameHandled == ~fin ~> Len(delivered) = GoodCount
=============================================================================
