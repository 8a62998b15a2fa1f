---------------------------- MODULE VendorPayout ----------------------------
(***************************************************************************)
(* Withdrawals: a vendor's wallet is debited up front, a pending payout    *)
(* transaction is created, and Paystack is asked for a transfer, whose     *)
(* outcome arrives later as a webhook event.                               *)
(*                                                                         *)
(* Beside withdrawals, a wallet is credited with released earnings (one    *)
(* $inc) and reduced by reversals (a load and a later save).               *)
(***************************************************************************)
EXTENDS Integers, FiniteSets, Functions

CONSTANTS
    Vendor,
    Withdrawal,    \* the calls of requestWithdrawal
    VendorOf,      \* VendorOf[w]: the business that withdraws
    Amount,        \* Amount[w]: the amount asked for
    Minimum,       \* settings.minimum_payout
    Unlinked,      \* the vendors without a transfer recipient
    Reversal,      \* reversals of released earnings
    ReversalOf,    \* ReversalOf[r]: the business it claws back from
    Clawback,      \* Clawback[r]: the amount it claws back
    Webhook,       \* concurrent webhook handlers
    MaxEarned,     \* bound of the model: what a vendor earns in total
    Faults         \* which failures the environment may cause

ASSUME PayoutAssumption ==
    /\ IsFiniteSet(Withdrawal)
    /\ VendorOf \in [Withdrawal -> Vendor]
    /\ Amount \in [Withdrawal -> Nat \ {0}]
    /\ Minimum \in Nat
    /\ Unlinked \subseteq Vendor
    /\ ReversalOf \in [Reversal -> Vendor]
    /\ Clawback \in [Reversal -> Nat]
    /\ MaxEarned \in Nat
    /\ Faults \subseteq {"crash", "refused", "timeout", "transferFails"}

VARIABLES
    balance,       \* wallet.balance of each vendor
    paidOut,       \* business.lifetime_paid_out
    req,           \* where each call of requestWithdrawal is
    status,        \* status of the payout transaction of a withdrawal
    marking,       \* the status updateStatus loaded
    reversed,      \* transaction.metadata.payout_reversed
    transfer,      \* the transfer at Paystack
    acked,         \* the withdrawals whose outcome the backend answered
    hook,          \* local state of each webhook handler
    clawing,       \* the balance each reversal loaded
    earned,        \* history: all that was credited to a vendor
    restored       \* history: how often a withdrawal's debit was restored

requestVars == <<req, status, marking>>
hookVars == <<hook, reversed, acked, paidOut>>
vars == <<balance, requestVars, hookVars, transfer, clawing, earned, restored>>

TransactionStatus == {"none", "pending", "success", "failed"}
Idle == [pc |-> "idle"]

TypeOK ==
    /\ balance \in [Vendor -> Int]
    /\ paidOut \in [Vendor -> Nat]
    /\ req \in [Withdrawal -> {"new", "checked", "debited", "created", "failing",
                               "restored", "marking", "done", "refused", "crashed"}]
    /\ status \in [Withdrawal -> TransactionStatus]
    /\ marking \in [Withdrawal -> TransactionStatus]
    /\ reversed \in [Withdrawal -> BOOLEAN]
    /\ transfer \in [Withdrawal -> {"none", "accepted", "paid", "failed"}]
    /\ acked \subseteq Withdrawal
    /\ hook \in [Webhook -> {Idle} \cup
          [pc: {"handle", "save"}, w: Withdrawal, outcome: {"success", "failed"},
           loaded: TransactionStatus, reversed: BOOLEAN]]
    /\ clawing \in [Reversal -> [pc: {"idle", "loaded", "done"}, balance: Int]]
    /\ earned \in [Vendor -> Nat]
    /\ restored \in [Withdrawal -> Nat]

Init ==
    /\ balance = [v \in Vendor |-> 0]
    /\ paidOut = [v \in Vendor |-> 0]
    /\ req = [w \in Withdrawal |-> "new"]
    /\ status = [w \in Withdrawal |-> "none"]
    /\ marking = [w \in Withdrawal |-> "none"]
    /\ reversed = [w \in Withdrawal |-> FALSE]
    /\ transfer = [w \in Withdrawal |-> "none"]
    /\ acked = {}
    /\ hook = [h \in Webhook |-> Idle]
    /\ clawing = [r \in Reversal |-> [pc |-> "idle", balance |-> 0]]
    /\ earned = [v \in Vendor |-> 0]
    /\ restored = [w \in Withdrawal |-> 0]

-----------------------------------------------------------------------------
(* The rest of the wallet                                                  *)

\* The release cron credits one unit of earnings.
Earn(v) ==
    /\ earned[v] < MaxEarned
    /\ balance' = [balance EXCEPT ![v] = @ + 1]
    /\ earned' = [earned EXCEPT ![v] = @ + 1]
    /\ UNCHANGED <<requestVars, hookVars, transfer, clawing, restored>>

ClawbackLoad(r) ==
    /\ clawing[r].pc = "idle"
    /\ clawing' = [clawing EXCEPT ![r] =
                     [pc |-> "loaded", balance |-> balance[ReversalOf[r]]]]
    /\ UNCHANGED <<balance, requestVars, hookVars, transfer, earned, restored>>

Clamp(n) == IF n < 0 THEN 0 ELSE n

\* reconcileBusinessWallet saves what it computed from the loaded balance.
ClawbackSave(r) ==
    /\ clawing[r].pc = "loaded"
    /\ balance' = IF Clawback[r] = 0 THEN balance
                  ELSE [balance EXCEPT ![ReversalOf[r]] = Clamp(clawing[r].balance - Clawback[r])]
    /\ clawing' = [clawing EXCEPT ![r].pc = "done"]
    /\ UNCHANGED <<requestVars, hookVars, transfer, earned, restored>>

-----------------------------------------------------------------------------
(* requestWithdrawal                                                       *)

withdrawFrame == <<hookVars, clawing, earned>>
Goto(w, pc) == req' = [req EXCEPT ![w] = pc]

Acceptable(w) ==
    /\ Amount[w] >= Minimum
    /\ balance[VendorOf[w]] >= Amount[w]
    /\ VendorOf[w] \notin Unlinked

\* The early checks, on a wallet that may change before the debit.
Check(w) ==
    /\ req[w] = "new"
    /\ Goto(w, IF Acceptable(w) THEN "checked" ELSE "refused")
    /\ UNCHANGED <<withdrawFrame, balance, status, marking, transfer, restored>>

\* The filter balance >= amount of the conditional $inc.
Covers(w) == balance[VendorOf[w]] >= Amount[w]

\* Mutation: the balance is asked for and not reduced.
DebitNothing(w) ==
    /\ req[w] = "checked"
    /\ Goto(w, IF Covers(w) THEN "debited" ELSE "refused")
    /\ UNCHANGED <<withdrawFrame, balance, status, marking, transfer, restored>>

\* debitWallet, one conditional update.
Debit(w) ==
    /\ req[w] = "checked"
    /\ IF Covers(w)
       THEN /\ balance' = [balance EXCEPT ![VendorOf[w]] = @ - Amount[w]]
            /\ Goto(w, "debited")
       ELSE /\ Goto(w, "refused")
            /\ UNCHANGED balance
    /\ UNCHANGED <<withdrawFrame, status, marking, transfer, restored>>

\* The pending payout, a debit on the vendor's wallet.
CreateTransaction(w) ==
    /\ req[w] = "debited"
    /\ status' = [status EXCEPT ![w] = "pending"]
    /\ Goto(w, "created")
    /\ UNCHANGED <<withdrawFrame, balance, marking, transfer, restored>>

SendAccepted(w) ==
    /\ req[w] = "created"
    /\ transfer' = [transfer EXCEPT ![w] = "accepted"]
    /\ Goto(w, "done")
    /\ UNCHANGED <<withdrawFrame, balance, status, marking, restored>>

\* Paystack refuses the transfer or wants an OTP for it, or cannot be reached.
SendRefused(w) ==
    /\ "refused" \in Faults
    /\ req[w] = "created"
    /\ Goto(w, "failing")
    /\ UNCHANGED <<withdrawFrame, balance, status, marking, transfer, restored>>

\* Paystack accepts the transfer but its answer does not arrive.
SendTimeout(w) ==
    /\ "timeout" \in Faults
    /\ req[w] = "created"
    /\ transfer' = [transfer EXCEPT ![w] = "accepted"]
    /\ Goto(w, "failing")
    /\ UNCHANGED <<withdrawFrame, balance, status, marking, restored>>

\* The catch block credits the wallet whatever the error was.
Restore(w) ==
    /\ req[w] = "failing"
    /\ balance' = [balance EXCEPT ![VendorOf[w]] = @ + Amount[w]]
    /\ restored' = [restored EXCEPT ![w] = @ + 1]
    /\ Goto(w, "restored")
    /\ UNCHANGED <<withdrawFrame, status, marking, transfer>>

\* updateStatus loads the transaction ...
MarkLoad(w) ==
    /\ req[w] = "restored"
    /\ marking' = [marking EXCEPT ![w] = status[w]]
    /\ Goto(w, "marking")
    /\ UNCHANGED <<withdrawFrame, balance, status, transfer, restored>>

\* ... and saves it: the status is sent when it differs from the loaded one.
MarkSave(w) ==
    /\ req[w] = "marking"
    /\ status' = IF marking[w] = "failed" THEN status
                 ELSE [status EXCEPT ![w] = "failed"]
    /\ Goto(w, "done")
    /\ UNCHANGED <<withdrawFrame, balance, marking, transfer, restored>>

-----------------------------------------------------------------------------
(* Paystack and its webhook                                                *)

Settle(w, outcome) ==
    /\ transfer[w] = "accepted"
    /\ outcome = "failed" => "transferFails" \in Faults
    /\ transfer' = [transfer EXCEPT ![w] = outcome]
    /\ UNCHANGED <<balance, requestVars, hookVars, clawing, earned, restored>>

handlerFrame == <<requestVars, transfer, clawing, earned>>

\* Mutation: every transfer that ended succeeded.
AlwaysSuccess(w) == IF transfer[w] = "none" THEN "none" ELSE "success"

\* transfer.success or transfer.failed.
EventOf(w) == IF transfer[w] = "paid" THEN "success" ELSE "failed"

\* Paystack reports the outcome, possibly more than once.
HookLoad(h, w) ==
    /\ hook[h].pc = "idle"
    /\ transfer[w] \in {"paid", "failed"}
    /\ hook' = [hook EXCEPT ![h] =
         [pc |-> "handle", w |-> w, outcome |-> EventOf(w),
          loaded |-> status[w], reversed |-> reversed[w]]]
    /\ UNCHANGED <<handlerFrame, balance, reversed, acked, paidOut, restored>>

\* TransactionService.create does not pass the caller's channel on, and the
\* schema's default takes its place.
CreatedChannel == "checkout"

\* handleTransferSuccess books a payout on the business, handleTransferFailed
\* restores the debit once: both only for a transaction of channel payout.
HookHandle(h) ==
    LET w == hook[h].w
        v == VendorOf[w]
        isPayout == CreatedChannel = "payout"
        restore == isPayout /\ hook[h].outcome = "failed" /\ ~hook[h].reversed
        book == isPayout /\ hook[h].outcome = "success"
    IN
    /\ hook[h].pc = "handle"
    /\ balance' = IF restore THEN [balance EXCEPT ![v] = @ + Amount[w]] ELSE balance
    /\ restored' = IF restore THEN [restored EXCEPT ![w] = @ + 1] ELSE restored
    /\ paidOut' = IF book THEN [paidOut EXCEPT ![v] = @ + Amount[w]] ELSE paidOut
    /\ hook' = [hook EXCEPT ![h].pc = "save",
                            ![h].reversed = @ \/ restore]
    /\ UNCHANGED <<handlerFrame, reversed, acked>>

\* Mutation: only the metadata is saved.
SaveMetadata(h) ==
    LET w == hook[h].w IN
    /\ hook[h].pc = "save"
    /\ reversed' = [reversed EXCEPT ![w] = hook[h].reversed]
    /\ acked' = acked \cup {w}
    /\ hook' = [hook EXCEPT ![h] = Idle]
    /\ UNCHANGED <<balance, requestVars, transfer, clawing, earned, restored, paidOut>>

\* The loaded transaction is saved: the metadata whole, the status when the
\* event changed it.
HookSave(h) ==
    LET w == hook[h].w IN
    /\ hook[h].pc = "save"
    /\ status' = IF hook[h].outcome = hook[h].loaded THEN status
                 ELSE [status EXCEPT ![w] = hook[h].outcome]
    /\ reversed' = [reversed EXCEPT ![w] = hook[h].reversed]
    /\ acked' = acked \cup {w}
    /\ hook' = [hook EXCEPT ![h] = Idle]
    /\ UNCHANGED <<balance, req, marking, transfer, clawing, earned, restored, paidOut>>

-----------------------------------------------------------------------------
Running == {"checked", "debited", "created", "failing", "restored", "marking"}

Crash ==
    /\ "crash" \in Faults
    /\ \/ \E w \in Withdrawal : /\ req[w] \in Running
                                /\ Goto(w, "crashed")
                                /\ UNCHANGED hook
       \/ \E h \in Webhook : /\ hook[h].pc # "idle"
                             /\ hook' = [hook EXCEPT ![h] = Idle]
                             /\ UNCHANGED req
    /\ UNCHANGED <<balance, status, marking, reversed, acked, paidOut, transfer,
                   clawing, earned, restored>>

WalletStep ==
    \/ \E v \in Vendor : Earn(v)
    \/ \E r \in Reversal : ClawbackLoad(r) \/ ClawbackSave(r)

WithdrawStep ==
    \E w \in Withdrawal :
      \/ Check(w) \/ Debit(w) \/ CreateTransaction(w)
      \/ SendAccepted(w) \/ SendRefused(w) \/ SendTimeout(w)
      \/ Restore(w) \/ MarkLoad(w) \/ MarkSave(w)

PaystackStep == \E w \in Withdrawal, outcome \in {"paid", "failed"} : Settle(w, outcome)

HookStep ==
    \E h \in Webhook :
      \/ \E w \in Withdrawal : HookLoad(h, w)
      \/ HookHandle(h) \/ HookSave(h)

Next == WalletStep \/ WithdrawStep \/ PaystackStep \/ HookStep \/ Crash

Spec == Init /\ [][Next]_vars

\* A call that runs takes its next step, Paystack settles what it accepted and
\* repeats an event until it is answered; crashes do not cut off every
\* delivery of the same event.
Fairness ==
    /\ \A w \in Withdrawal :
         /\ WF_vars(\/ Debit(w) \/ CreateTransaction(w) \/ SendAccepted(w)
                    \/ SendRefused(w) \/ Restore(w) \/ MarkLoad(w) \/ MarkSave(w))
         /\ WF_vars(\E outcome \in {"paid", "failed"} : Settle(w, outcome))
         /\ SF_vars(w \notin acked /\ \E h \in Webhook : HookLoad(h, w))
    /\ \A h \in Webhook, w \in Withdrawal :
         /\ SF_vars(HookHandle(h) /\ hook[h].w = w)
         /\ SF_vars(HookSave(h) /\ hook[h].w = w)

FairSpec == Spec /\ Fairness

-----------------------------------------------------------------------------
(* Properties                                                              *)

\* However many withdrawals and reversals of a vendor run at once, its wallet
\* is never overdrawn (debitWallet: "concurrent debits can neither overdraw
\* nor lose updates"; reconcileBusinessWallet clamps what it saves).
NeverOverdrawn == \A v \in Vendor : balance[v] >= 0

\* The catch block restored the debit of a transfer that Paystack has.
Lost(w) == restored[w] > 0 /\ transfer[w] # "none"

Sent(v) == {w \in Withdrawal : /\ VendorOf[w] = v /\ transfer[w] \in {"accepted", "paid"}
                               /\ ~Lost(w)}

\* The transfers under way or paid never exceed what the vendor earned less
\* what is still in the wallet, so nothing is withdrawn twice: as long as no
\* answer of Paystack was lost and no reversal saved a stale balance.
PaidFromEarnings ==
    (\A r \in Reversal : clawing[r].pc = "idle") =>
      \A v \in Vendor :
        balance[v] + SumFunctionOnSet(Amount, Sent(v)) <= earned[v]

\* The ledger tells the truth about Paystack: a payout marked successful was
\* paid, and one marked failed is not under way any more, unless the answer to
\* the transfer request was lost.
StatusTruthful ==
    \A w \in Withdrawal :
      /\ status[w] = "success" => transfer[w] = "paid"
      /\ status[w] = "failed" => transfer[w] \in {"none", "failed"} \/ Lost(w)

\* A debited withdrawal is sent or restored in the end, unless its instance
\* stops in between, and the outcome of a transfer reaches the payout's
\* transaction, unless the catch block of a request whose answer was lost
\* overwrites it.
PayoutSettles ==
    \A w \in Withdrawal :
      /\ (req[w] = "debited") ~>
           (transfer[w] # "none" \/ restored[w] > 0 \/ req[w] = "crashed")
      /\ (transfer[w] = "paid") ~> (status[w] = "success" \/ Lost(w))
=============================================================================
