--------------------------- MODULE MCVendorPayout ---------------------------
(* Two withdrawals of one vendor who earns enough for one of them only.     *)
EXTENDS VendorPayout

CONSTANTS v1, w1, w2, r1

MCVendorOf == [w \in Withdrawal |-> v1]
MCAmount == [w \in Withdrawal |-> IF w = w1 THEN 1 ELSE 2]
MCReversalOf == [r \in Reversal |-> v1]
MCClawback == [r \in Reversal |-> 1]
=============================================================================
