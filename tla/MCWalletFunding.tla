--------------------------- MODULE MCWalletFunding ---------------------------
(* Two funding transactions of one wallet, with different amounts.          *)
EXTENDS WalletFunding

CONSTANTS t1, t2, w1

MCTx == {t1, t2}
MCOneTx == {t1}
MCWallet == {w1}
MCWalletOf == [t \in Tx |-> w1]
MCAmount == [t \in Tx |-> IF t = t1 THEN 1 ELSE 2]
=============================================================================
