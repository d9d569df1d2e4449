----------------------------- MODULE MCOrderBook -----------------------------
(***************************************************************************)
(* The engine for TLC. The fields of an order that is not allocated, and   *)
(* the last trade, do not influence any later step, so states that differ  *)
(* only there are explored once. Participants are only compared for        *)
(* equality and may be permuted.                                           *)
(***************************************************************************)
EXTENDS OrderBook

LiveView == <<heap, [s \in Slots |-> IF heap.isAllocated[s] THEN ord[s] ELSE Unused],
              levels, orderIndex, sequence, call>>

Symmetry == Permutations(Participants)
=============================================================================
