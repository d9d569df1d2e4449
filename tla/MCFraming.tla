------------------------------ MODULE MCFraming ------------------------------
(***************************************************************************)
(* Framing with bits for bytes: a magic of two, a length of two, payloads  *)
(* of at most two, so payloads contain everything a header does. Peers     *)
(* send up to two items: a good frame, one too long, or a bad magic.       *)
(***************************************************************************)
EXTENDS Framing

BitMagic == <<1, 0>>

Payloads == UNION {[1..n -> {0, 1}] : n \in 0..2} \cup {<<1, 0, 0>>}

MCItems == [framed : {TRUE}, bytes : Payloads]
             \cup {[framed |-> FALSE, bytes |-> <<1, 1, 0, 1>>],
                   [framed |-> FALSE, bytes |-> <<0, 1, 0, 0, 0>>]}

MCStreams == UNION {[1..n -> MCItems] : n \in 0..2}
=============================================================================
