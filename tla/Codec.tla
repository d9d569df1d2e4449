-------------------------------- MODULE Codec --------------------------------
(***************************************************************************)
(* The scalars of the wire format (venue/protocol.cpp): how a JSON string  *)
(* is read and written, how a number is cut out of the text, and how it    *)
(* becomes a quantity or a price in ticks and back. The operators follow   *)
(* the loops of the code; the properties compare them with what the text   *)
(* means. The behaviours spell every text of up to MaxLength characters.   *)
(*                                                                         *)
(* Numbers are in a small base with a small limit in the place of 10 and   *)
(* of 0xFFFFFFFF. A character is an integer: a digit is its value.         *)
(***************************************************************************)
EXTENDS Integers, SequencesExt, FiniteSetsExt

CONSTANTS Base,        \* 10
          MaxUint32,   \* 0xFFFFFFFF
          MaxLength    \* longest text spelled

ASSUME CodecAssumption == Base \in Nat \ {0, 1} /\ MaxUint32 \in Nat /\ MaxLength \in Nat

VARIABLE text

Minus == -1
Dot == -2
Quote == -3
Backslash == -4
LetterN == -5      \* n; t and r, with tab and carriage return, are like it
Newline == -6
Control == -7      \* a character below 0x20 without an escape of its own
UControl == -8     \* u00xx for it, as it follows a backslash
Digits == 0..(Base - 1)
Characters == Digits \cup -8..-1

Init == text = <<>>
Next == Len(text) < MaxLength /\ \E c \in Characters : text' = Append(text, c)
Spec == Init /\ [][Next]_text

-----------------------------------------------------------------------------
(***************************************************************************)
(* Strings.                                                                *)
(***************************************************************************)
\* A parseString that takes the character after a backslash as it is.
Mut_Unescape(c) == c

\* The character an escape stands for; parseString knows no \u.
Unescape(c) == CASE c \in {Quote, Backslash} -> c
                 [] c = LetterN -> Newline
                 [] OTHER -> UControl

\* parseString, a character at a time; used counts the ones it takes.
StringStep(st, c) ==
    CASE st.at = "start" -> [st EXCEPT !.at = IF c = Quote THEN "inside" ELSE "failed", !.used = 1]
      [] st.at = "inside" /\ c = Quote -> [st EXCEPT !.at = "closed", !.used = @ + 1]
      [] st.at = "inside" /\ c = Backslash -> [st EXCEPT !.at = "escape", !.used = @ + 1]
      [] st.at = "inside" /\ c \notin {Quote, Backslash} -> [st EXCEPT !.out = Append(@, c), !.used = @ + 1]
      [] st.at = "escape" ->
            IF Unescape(c) = UControl THEN [st EXCEPT !.at = "failed"]
            ELSE [st EXCEPT !.at = "inside", !.out = Append(@, Unescape(c)), !.used = @ + 1]
      [] st.at \in {"closed", "failed"} -> st

ParseString(s) ==
    LET upTo[n \in 0..Len(s)] ==
            IF n = 0 THEN [at |-> "start", out |-> <<>>, used |-> 0] ELSE StringStep(upTo[n - 1], s[n])
    IN upTo[Len(s)]

\* A quoteJson that forgets the backslash.
Mut_Escape(c) == CASE c = Quote -> <<Backslash, c>>
                   [] c = Newline -> <<Backslash, LetterN>>
                   [] c = Control -> <<Backslash, UControl>>
                   [] OTHER -> <<c>>

Escape(c) == CASE c \in {Quote, Backslash} -> <<Backslash, c>>
               [] c = Newline -> <<Backslash, LetterN>>
               [] c = Control -> <<Backslash, UControl>>
               [] OTHER -> <<c>>

\* The characters between the quotes.
Escaped(s) ==
    LET upTo[n \in 0..Len(s)] == IF n = 0 THEN <<>> ELSE upTo[n - 1] \o Escape(s[n])
    IN upTo[Len(s)]

QuoteJson(s) == <<Quote>> \o Escaped(s) \o <<Quote>>

-----------------------------------------------------------------------------
(***************************************************************************)
(* Numbers. Bad stands for `return false`.                                 *)
(***************************************************************************)
Bad == -1

\* while (i < s.size() && s[i] >= '0' && s[i] <= '9') ++i
SkipDigits(s, i) == Min({j \in i..(Len(s) + 1) : j = Len(s) + 1 \/ s[j] \notin Digits})

\* A parseNumber that accepts a point with no digit behind it.
Mut_ParseNumber(s) ==
    LET intStart == IF s # <<>> /\ s[1] = Minus THEN 2 ELSE 1
        intEnd == SkipDigits(s, intStart)
        point == intEnd <= Len(s) /\ s[intEnd] = Dot
    IN IF intEnd = intStart THEN Bad
       ELSE IF point THEN SkipDigits(s, intEnd + 1) - 1 ELSE intEnd - 1

\* parseNumber from the start of s: the length of the raw number.
ParseNumber(s) ==
    LET intStart == IF s # <<>> /\ s[1] = Minus THEN 2 ELSE 1
        intEnd == SkipDigits(s, intStart)
        point == intEnd <= Len(s) /\ s[intEnd] = Dot
        fracEnd == SkipDigits(s, intEnd + 1)
    IN IF intEnd = intStart \/ (point /\ fracEnd = intEnd + 1) THEN Bad
       ELSE IF point THEN fracEnd - 1 ELSE intEnd - 1

\* A loop that tests the limit before it adds the digit.
Mut_Accumulate(v, c) == IF v = Bad \/ c \notin Digits \/ v * Base > MaxUint32 THEN Bad ELSE v * Base + c

\* A round of the loops of parseUint32 and parseDecimalToTicks.
Accumulate(v, c) == IF v = Bad \/ c \notin Digits \/ v * Base + c > MaxUint32 THEN Bad ELSE v * Base + c

\* The value the loop ends with.
Accumulated(s) ==
    LET upTo[n \in 0..Len(s)] == IF n = 0 THEN 0 ELSE Accumulate(upTo[n - 1], s[n])
    IN upTo[Len(s)]

ParseUint32(raw) == IF raw = <<>> THEN Bad ELSE Accumulated(raw)

\* A parseDecimalToTicks that reads the digits behind the point as they stand.
Mut_PadFraction(frac) == IF Len(frac) = 1 THEN <<0, frac[1]>> ELSE IF frac = <<>> THEN <<0, 0>> ELSE frac

\* while (fracPart.size() < 2) fracPart.push_back('0')
PadFraction(frac) == IF Len(frac) = 1 THEN <<frac[1], 0>> ELSE IF frac = <<>> THEN <<0, 0>> ELSE frac

kPriceScale == Base * Base

ParseDecimalToTicks(raw) ==
    LET dot == Min({j \in 1..(Len(raw) + 1) : j = Len(raw) + 1 \/ raw[j] = Dot})
        intPart == SubSeq(raw, 1, dot - 1)
        frac == SubSeq(raw, dot + 1, Len(raw))
        padded == PadFraction(frac)
        whole == Accumulated(intPart)
        ticks == whole * kPriceScale + padded[1] * Base + padded[2]
    IN IF raw = <<>> \/ intPart = <<>> \/ Len(frac) > 2 THEN Bad
       ELSE IF ~(ToSet(intPart) \cup ToSet(frac) \subseteq Digits) THEN Bad
       ELSE IF whole = Bad \/ ticks > MaxUint32 THEN Bad ELSE ticks

\* "%u"
Numeral(n) ==
    LET upTo[k \in 0..n] == IF k < Base THEN <<k>> ELSE Append(upTo[k \div Base], k % Base)
    IN upTo[n]

\* A ticksToDecimal without the leading zero of "%02u".
Mut_TicksToDecimal(ticks) ==
    Numeral(ticks \div kPriceScale) \o <<Dot>> \o Numeral(ticks % kPriceScale)

TicksToDecimal(ticks) ==
    LET frac == ticks % kPriceScale
    IN Numeral(ticks \div kPriceScale) \o <<Dot, frac \div Base, frac % Base>>

-----------------------------------------------------------------------------
\* The number the digits s write.
ValueOf(s) ==
    LET place[k \in 0..Len(s)] == IF k = 0 THEN 1 ELSE Base * place[k - 1]
        upTo[n \in 0..Len(s)] == IF n = 0 THEN 0 ELSE upTo[n - 1] + s[n] * place[Len(s) - n]
    IN upTo[Len(s)]

IsDigits(s) == ToSet(s) \subseteq Digits

\* parseUint32 accepts the texts of digits whose value fits a uint32_t, leading
\* zeros included, with that value, and no other: its running test against the
\* limit never refuses too early nor lets a carry through.
UintExact ==
    ParseUint32(text) = IF text # <<>> /\ IsDigits(text) /\ ValueOf(text) <= MaxUint32
                        THEN ValueOf(text) ELSE Bad

\* parseDecimalToTicks accepts the decimals with at most two digits behind the
\* point that come to at most the limit in ticks, with exactly that many ticks.
TicksExact ==
    LET splits == {n \in 1..Len(text) : /\ IsDigits(SubSeq(text, 1, n))
                                        /\ n < Len(text) => text[n + 1] = Dot
                                        /\ Len(text) - n <= 3
                                        /\ IsDigits(SubSeq(text, n + 2, Len(text)))}
        ticks(n) == LET frac == SubSeq(text, n + 2, Len(text))
                    IN ValueOf(SubSeq(text, 1, n)) * kPriceScale
                       + ValueOf(frac) * (CASE Len(frac) = 0 -> 0 [] Len(frac) = 1 -> Base [] Len(frac) = 2 -> 1)
        fits == {n \in splits : ticks(n) <= MaxUint32}
    IN ParseDecimalToTicks(text) = IF fits = {} THEN Bad ELSE ticks(CHOOSE n \in fits : TRUE)

\* A price survives the way out and back in: what ticksToDecimal prints is one
\* JSON number that reads as the same ticks.
PriceRoundTrip ==
    ParseDecimalToTicks(text) # Bad =>
        LET printed == TicksToDecimal(ParseDecimalToTicks(text))
        IN /\ ParseNumber(printed) = Len(printed)
           /\ ParseDecimalToTicks(printed) = ParseDecimalToTicks(text)

\* parseNumber takes the longest start of the text that is a JSON number without
\* exponent (leading zeros allowed), and fails when there is none or when a point
\* follows with no digit behind it.
NumberExact ==
    LET isNumber(s) == \E n \in DOMAIN s : \E m \in {1, 2} :
            /\ m = 2 => s[1] = Minus
            /\ m <= n /\ IsDigits(SubSeq(s, m, n))
            /\ n < Len(s) => s[n + 1] = Dot /\ n + 1 < Len(s) /\ IsDigits(SubSeq(s, n + 2, Len(s)))
        longest == Max({0} \cup {n \in DOMAIN text : isNumber(SubSeq(text, 1, n))})
        barePoint == /\ longest < Len(text) /\ text[longest + 1] = Dot
                     /\ Dot \notin ToSet(SubSeq(text, 1, longest))
    IN ParseNumber(text) = IF longest = 0 \/ barePoint THEN Bad ELSE longest

\* Numbers are cut out of the text and converted exactly.
ScalarsExact == NumberExact /\ UintExact /\ TicksExact

\* A character of the inside of a string, to a JSON reader.
JsonStep(st, c) ==
    CASE st.escape -> [escape |-> FALSE,
                       out |-> Append(st.out, CASE c = LetterN -> Newline
                                                [] c = UControl -> Control
                                                [] OTHER -> c)]
      [] ~st.escape /\ c = Backslash -> [st EXCEPT !.escape = TRUE]
      [] OTHER -> [st EXCEPT !.out = Append(@, c)]

\* What a JSON reader makes of the inside of a string: the client's json.loads.
JsonReads(s) ==
    LET upTo[n \in 0..Len(s)] ==
            IF n = 0 THEN [escape |-> FALSE, out |-> <<>>] ELSE JsonStep(upTo[n - 1], s[n])
    IN upTo[Len(s)]

\* A client reads back the id it sent, whatever characters are in it: quoteJson
\* of the text is read as the text.
EchoReadsBack ==
    LET quoted == QuoteJson(text)
    IN JsonReads(SubSeq(quoted, 2, Len(quoted) - 1)) = [escape |-> FALSE, out |-> text]

\* An id cannot leave its string: the venue's own parser stops at the quote that
\* quoteJson closes it with, and has the text again. It fails only on the \u of
\* control characters, which quoteJson writes and parseString does not know.
EchoContained ==
    LET st == ParseString(QuoteJson(text) \o <<Quote, Backslash>>)
    IN IF Control \in ToSet(text) THEN st.at = "failed"
       ELSE st = [at |-> "closed", out |-> text, used |-> Len(QuoteJson(text))]

\* Strings survive the way out, for the client and for the venue's own reader.
EchoExact == EchoReadsBack /\ EchoContained
=============================================================================
