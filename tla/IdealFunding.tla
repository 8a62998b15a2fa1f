---------------------------- MODULE IdealFunding ----------------------------
(***************************************************************************)
(* What wallet funding promises: a funding transaction that its payer has  *)
(* paid is posted to the wallet in one step, and is posted at most once.   *)
(***************************************************************************)
EXTENDS Integers

CONSTANTS Tx, Wallet, WalletOf, Amount

VARIABLES
    paid,      \* the transactions Paystack charged
    posted,    \* the transactions added to their wallet
    balance    \* the balance of each wallet

Init ==
    /\ paid = {} /\ posted = {}
    /\ balance = [w \in Wallet |-> 0]

Charge(t) ==
    /\ t \notin paid
    /\ paid' = paid \cup {t}
    /\ UNCHANGED <<posted, balance>>

Post(t) ==
    /\ t \in paid \ posted
    /\ posted' = posted \cup {t}
    /\ balance' = [balance EXCEPT ![WalletOf[t]] = @ + Amount[t]]
    /\ UNCHANGED paid

Next == \E t \in Tx : Charge(t) \/ Post(t)

Spec == Init /\ [][Next]_<<paid, posted, balance>>

\* Every charge is eventually posted.
FairSpec == Spec /\ \A t \in Tx : WF_<<paid, posted, balance>>(Post(t))
=============================================================================
