------------------------------ MODULE MCProtocol ------------------------------
(***************************************************************************)
(* Payloads for TLC: the raw numbers 1 and 1.1 (-1 is in Codec).           *)
(***************************************************************************)
EXTENDS Protocol

MCRaws == {<<1>>, <<1, Dot, 1>>}
=============================================================================
