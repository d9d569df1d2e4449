------------------------------ MODULE MCTrading ------------------------------
(***************************************************************************)
(* A short trading session for TLC.                                        *)
(***************************************************************************)
EXTENDS Trading

MCMessages == {NewOrder(cid, side, price, qty) :
                  cid \in Cids, side \in Sides, price \in Prices \cup {-1}, qty \in Quantities}
                \cup {Cancel(cid) : cid \in Cids}
=============================================================================
