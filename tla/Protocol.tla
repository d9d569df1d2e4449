------------------------------- MODULE Protocol -------------------------------
(***************************************************************************)
(* From a frame's payload to an InboundMessage (venue/protocol.cpp):       *)
(* parseFlatObject, the hand-written reader of one flat JSON object, and   *)
(* parseInbound. A payload is a sequence of tokens: punctuation, white     *)
(* space, strings, numbers (raw texts in the characters of Codec), and     *)
(* junk, where parseString or parseNumber fails. The behaviours are the    *)
(* texts of Codec, and the payloads, a token longer at a time, up to the   *)
(* token that ends the reader with an error.                               *)
(***************************************************************************)
EXTENDS Codec

CONSTANTS Words,       \* contents of strings
          Raws,        \* raw numbers
          MaxTokens    \* longest payload

\* The keys that parseInbound looks up.
Fields == {"client_order_id", "symbol", "side", "price", "qty"}

ASSUME PayloadAssumption == Fields \cup {"type"} \subseteq Words /\ MaxTokens \in Nat

VARIABLE line

\* { } : , and the tokens that stand for many: white space, and what no parser takes.
Punctuation == {[kind |-> k] : k \in {"lbrace", "rbrace", "colon", "comma", "space", "junk"}}
Strings == [kind : {"string"}, str : Words]
Numbers == [kind : {"number"}, numRaw : Raws]
Tokens == Punctuation \cup Strings \cup Numbers

-----------------------------------------------------------------------------
NoField == [kind |-> "none"]

\* A reader that, after a comma, takes the closing brace as well as a key.
Mut_AfterComma == "first"

\* Where the reader is after a comma: at the top of its loop, for a key.
AfterComma == "key"

\* parseFlatObject, a token at a time: `at` is what it looks for next, "failed"
\* its return false.
ReadToken(st, t) ==
    LET go(at) == [st EXCEPT !.at = at]
    IN CASE t.kind = "space" -> st
         [] st.at = "open" /\ t.kind = "lbrace" -> go("first")
         [] st.at = "first" /\ t.kind = "rbrace" -> go("end")
         [] st.at \in {"first", "key"} /\ t.kind = "string" -> [go("colon") EXCEPT !.key = t.str]
         [] st.at = "colon" /\ t.kind = "colon" -> go("value")
         [] st.at = "value" /\ t.kind \in {"string", "number"} ->
               [go("next") EXCEPT !.obj = [k \in DOMAIN st.obj |-> IF k = st.key THEN t ELSE st.obj[k]]]
         [] st.at = "next" /\ t.kind = "comma" -> go(AfterComma)
         [] st.at = "next" /\ t.kind = "rbrace" -> go("end")
         [] OTHER -> go("failed")

ParseFlatObject(s) ==
    LET upTo[n \in 0..Len(s)] ==
            IF n = 0 THEN [at |-> "open", key |-> "", obj |-> [k \in Words |-> NoField]]
            ELSE ReadToken(upTo[n - 1], s[n])
    IN upTo[Len(s)]

\* A parseInbound that keeps a message with a type that is not a string.
Mut_TypeOf(obj) ==
    IF obj["type"].kind = "none" THEN "error"
    ELSE IF obj["type"] = [kind |-> "string", str |-> "NEW_ORDER"] THEN "NewOrder"
    ELSE IF obj["type"] = [kind |-> "string", str |-> "CANCEL"] THEN "Cancel"
    ELSE IF obj["type"] = [kind |-> "string", str |-> "HEARTBEAT"] THEN "Heartbeat" ELSE "Unknown"

\* The message type, "error" for parseError.
TypeOf(obj) ==
    IF obj["type"].kind # "string" THEN "error"
    ELSE CASE obj["type"].str = "NEW_ORDER" -> "NewOrder"
           [] obj["type"].str = "CANCEL" -> "Cancel"
           [] obj["type"].str = "HEARTBEAT" -> "Heartbeat"
           [] OTHER -> "Unknown"

\* A field of InboundMessage whose has... flag is FALSE.
Absent == [has |-> FALSE]
Present(value) == [has |-> TRUE, value |-> value]

Number(v) == IF v = Bad THEN Absent ELSE Present(v)

\* The field of the message for the value found under its key.
ReadField(field, v) ==
    CASE field \in {"client_order_id", "symbol"} /\ v.kind = "string" -> Present(v.str)
      [] field = "side" /\ v.kind = "string" /\ v.str \in {"BUY", "SELL"} -> Present(v.str)
      [] field = "price" /\ v.kind = "number" -> Number(ParseDecimalToTicks(v.numRaw))
      [] field = "qty" /\ v.kind = "number" -> Number(ParseUint32(v.numRaw))
      [] OTHER -> Absent

ParseInbound(s) ==
    LET st == ParseFlatObject(s)
        type == IF st.at = "end" THEN TypeOf(st.obj) ELSE "error"
    IN [type |-> type,
        fields |-> [f \in Fields |-> IF type = "error" THEN Absent ELSE ReadField(f, st.obj[f])]]

WireInit == Init /\ line = <<>>

\* One more token.
NextToken ==
    /\ Len(line) < MaxTokens
    /\ ParseFlatObject(line).at # "failed"
    /\ \E t \in Tokens : line' = Append(line, t)
    /\ UNCHANGED text

\* A behaviour spells a scalar or a payload.
WireNext ==
    \/ line = <<>> /\ Next /\ UNCHANGED line
    \/ text = <<>> /\ NextToken

WireSpec == WireInit /\ [][WireNext]_<<text, line>>

-----------------------------------------------------------------------------
\* The tokens that are not white space.
Meaningful(s) ==
    LET upTo[n \in 0..Len(s)] ==
            IF n = 0 THEN <<>> ELSE IF s[n].kind = "space" THEN upTo[n - 1] ELSE Append(upTo[n - 1], s[n])
    IN upTo[Len(s)]

\* The payload is, by the grammar of JSON, a flat object: braces around strings,
\* colons and scalars in turn, with commas between.
IsFlatObject ==
    LET m == Meaningful(line)
        n == Len(m)
        kind(i) == m[i].kind
    IN /\ n = 2 \/ (n % 4 = 1 /\ n > 4)
       /\ kind(1) = "lbrace" /\ kind(n) = "rbrace"
       /\ \A i \in 2..(n - 1) :
             CASE i % 4 = 2 -> kind(i) = "string"
               [] i % 4 = 3 -> kind(i) = "colon"
               [] i % 4 = 0 -> kind(i) \in {"string", "number"}
               [] i % 4 = 1 -> kind(i) = "comma"

\* The reader accepts exactly the flat objects: nothing before, between or behind
\* the pairs, no trailing comma, white space anywhere between tokens.
AcceptsExactly == (ParseFlatObject(line).at = "end") <=> IsFlatObject

\* A message is acted on only if the payload is an object with a string "type",
\* and each of its fields is what the last pair with that key says, even when an
\* earlier one was valid and the last is not; otherwise no field is set, and the
\* reject names no order.
FieldsExact ==
    LET found == Meaningful(line)
        pairs(key) == {i \in DOMAIN found : i % 4 = 2 /\ found[i].kind = "string" /\ found[i].str = key}
        last(key) == IF pairs(key) = {} THEN NoField ELSE found[Max(pairs(key)) + 2]
        m == ParseInbound(line)
    IN IF IsFlatObject /\ last("type").kind = "string"
       THEN /\ m.type # "error"
            /\ \A f \in Fields : m.fields[f] = ReadField(f, last(f))
       ELSE m.type = "error" /\ \A f \in Fields : ~m.fields[f].has

\* A payload becomes a message exactly when it is a flat object, and then the one
\* it states.
MessageExact == AcceptsExactly /\ FieldsExact
=============================================================================
