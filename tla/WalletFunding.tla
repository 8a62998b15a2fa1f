---------------------------- MODULE WalletFunding ----------------------------
(***************************************************************************)
(* Funding a wallet through Paystack: the charge is confirmed to the       *)
(* backend twice over, by Paystack's webhook (delivered at least once) and *)
(* by the payer's browser returning to the verify endpoint, and either may *)
(* credit the wallet.                                                      *)
(*                                                                         *)
(* A webhook handler loads the Transaction document, works on the copy and *)
(* saves it at the end; a verification asks Paystack first and loads the   *)
(* document afterwards.  Each await in between ends an action.             *)
(***************************************************************************)
EXTENDS Integers, FiniteSets

CONSTANTS
    Tx, Wallet,
    WalletOf,     \* WalletOf[t]: transaction.wallet
    Amount,       \* Amount[t]: transaction.amount
    Webhook,      \* concurrent webhook handlers
    Verifier,     \* concurrent calls of the verify endpoint
    MaxCredits,   \* bound of the model: how often a transaction is credited
    Faults        \* which failures the environment may cause

ASSUME FundingAssumption ==
    /\ WalletOf \in [Tx -> Wallet]
    /\ Amount \in [Tx -> Nat \ {0}]
    /\ MaxCredits \in Nat \ {0, 1}
    /\ Faults \subseteq {"crash", "creditError", "declined"}

Event == {"charge.success", "charge.failed"}
TransactionStatus == {"pending", "success", "failed"}

VARIABLES
    remote,       \* the state of the charge at Paystack
    sent,         \* the <<transaction, event>> pairs Paystack reports
    acked,        \* the pairs the backend answered with 200
    status,       \* transaction.status
    funded,       \* transaction.metadata.funding_credited
    balance,      \* wallet.balance
    hook,         \* local state of each webhook handler
    ver,          \* local state of each verification
    credited      \* history: how often a transaction was added to a balance

txVars == <<status, funded>>
paystackVars == <<remote, sent>>
vars == <<paystackVars, acked, txVars, balance, hook, ver, credited>>

Idle == [pc |-> "idle"]
HookState == {Idle} \cup
    [pc: {"credit", "save"}, tx: Tx, event: Event,
     loaded: TransactionStatus, funded: BOOLEAN]
VerState == {Idle} \cup
    [pc: {"asked"}, tx: Tx, answer: BOOLEAN] \cup
    [pc: {"claim", "fail"}, tx: Tx, loaded: TransactionStatus] \cup
    [pc: {"credit"}, tx: Tx]

TypeOK ==
    /\ remote \in [Tx -> {"open", "paid"}]
    /\ sent \subseteq Tx \X Event
    /\ acked \subseteq Tx \X Event
    /\ status \in [Tx -> TransactionStatus]
    /\ funded \in [Tx -> BOOLEAN]
    /\ balance \in [Wallet -> Nat]
    /\ hook \in [Webhook -> HookState]
    /\ ver \in [Verifier -> VerState]
    /\ credited \in [Tx -> Nat]

\* fundWallet has created each transaction and initialised its payment.
Init ==
    /\ remote = [t \in Tx |-> "open"]
    /\ sent = {} /\ acked = {}
    /\ status = [t \in Tx |-> "pending"]
    /\ funded = [t \in Tx |-> FALSE]
    /\ balance = [w \in Wallet |-> 0]
    /\ hook = [h \in Webhook |-> Idle]
    /\ ver = [v \in Verifier |-> Idle]
    /\ credited = [t \in Tx |-> 0]

-----------------------------------------------------------------------------
(* Paystack and the payer                                                  *)

Charge(t) ==
    /\ remote[t] = "open"
    /\ remote' = [remote EXCEPT ![t] = "paid"]
    /\ sent' = sent \cup {<<t, "charge.success">>}
    /\ UNCHANGED <<acked, txVars, balance, hook, ver, credited>>

\* A card is declined; the payer may try another one on the same reference.
Decline(t) ==
    /\ "declined" \in Faults
    /\ remote[t] = "open"
    /\ sent' = sent \cup {<<t, "charge.failed">>}
    /\ UNCHANGED <<remote, acked, txVars, balance, hook, ver, credited>>

-----------------------------------------------------------------------------
(* handlePaystackWebhook                                                   *)

hookFrame == <<paystackVars, ver>>

\* The idempotency flag, as the loaded document has it.
MayCredit(t) == ~funded[t]

\* The handler loads the transaction.  A charge.success of a funding
\* transaction whose flag is not set is going to be credited.  Paystack may
\* repeat an event, also one that was answered already.
HookLoad(h, t, event) ==
    /\ hook[h].pc = "idle"
    /\ <<t, event>> \in sent
    /\ hook' = [hook EXCEPT ![h] =
         [pc |-> IF event = "charge.success" /\ MayCredit(t)
                 THEN "credit" ELSE "save",
          tx |-> t, event |-> event, loaded |-> status[t], funded |-> funded[t]]]
    /\ UNCHANGED <<hookFrame, acked, txVars, balance, credited>>

AddTo(t) ==
    /\ credited[t] < MaxCredits
    /\ balance' = [balance EXCEPT ![WalletOf[t]] = @ + Amount[t]]
    /\ credited' = [credited EXCEPT ![t] = @ + 1]

HookCredit(h) ==
    /\ hook[h].pc = "credit"
    /\ AddTo(hook[h].tx)
    /\ hook' = [hook EXCEPT ![h].pc = "save", ![h].funded = TRUE]
    /\ UNCHANGED <<hookFrame, acked, txVars>>

\* The error of a failed credit is logged and the handler goes on.
HookCreditError(h) ==
    /\ "creditError" \in Faults
    /\ hook[h].pc = "credit"
    /\ hook' = [hook EXCEPT ![h].pc = "save"]
    /\ UNCHANGED <<hookFrame, acked, txVars, balance, credited>>

Outcome(event) == IF event = "charge.success" THEN "success" ELSE "failed"

\* Mutation: the flag is not part of the metadata that is saved.
SaveStatusOnly(h) ==
    LET t == hook[h].tx IN
    /\ hook[h].pc = "save"
    /\ status' = [status EXCEPT ![t] = Outcome(hook[h].event)]
    /\ acked' = acked \cup {<<t, hook[h].event>>}
    /\ hook' = [hook EXCEPT ![h] = Idle]
    /\ UNCHANGED <<hookFrame, funded, balance, credited>>

\* The copy is saved.  The metadata object is new and is written whole; the
\* status is written only when it differs from the loaded one.  Neither asks
\* whether the stored document changed since.  The handler answers 200.
HookSave(h) ==
    LET t == hook[h].tx
        outcome == Outcome(hook[h].event)
    IN
    /\ hook[h].pc = "save"
    /\ status' = IF outcome = hook[h].loaded THEN status
                 ELSE [status EXCEPT ![t] = outcome]
    /\ funded' = [funded EXCEPT ![t] = hook[h].funded]
    /\ acked' = acked \cup {<<t, hook[h].event>>}
    /\ hook' = [hook EXCEPT ![h] = Idle]
    /\ UNCHANGED <<hookFrame, balance, credited>>

-----------------------------------------------------------------------------
(* verifyPayment and verifyPaystackPayment                                 *)

verFrame == <<paystackVars, acked, funded, hook>>

\* Mutation: the endpoint does not wait for Paystack's answer.
AssumePaid(t) == t \in Tx

\* data.status === 'success' in Paystack's answer.
RemoteSuccess(t) == remote[t] = "paid"

VerifyAsk(v, t) ==
    /\ ver[v].pc = "idle"
    /\ ver' = [ver EXCEPT ![v] = [pc |-> "asked", tx |-> t, answer |-> RemoteSuccess(t)]]
    /\ UNCHANGED <<verFrame, status, balance, credited>>

\* The document is loaded; a successful one was processed already.
VerifyLoad(v) ==
    LET t == ver[v].tx IN
    /\ ver[v].pc = "asked"
    /\ ver' = [ver EXCEPT ![v] =
         IF status[t] = "success" THEN Idle
         ELSE [pc |-> IF ver[v].answer THEN "claim" ELSE "fail",
               tx |-> t, loaded |-> status[t]]]
    /\ UNCHANGED <<verFrame, status, balance, credited>>

\* The filter status != success of the findOneAndUpdate.
NotYetSuccess(t) == status[t] # "success"

\* The atomic update: whoever loses it reports alreadyProcessed.
VerifyClaim(v) ==
    LET t == ver[v].tx IN
    /\ ver[v].pc = "claim"
    /\ IF NotYetSuccess(t)
       THEN /\ status' = [status EXCEPT ![t] = "success"]
            /\ ver' = [ver EXCEPT ![v] = [pc |-> "credit", tx |-> t]]
       ELSE /\ ver' = [ver EXCEPT ![v] = Idle]
            /\ UNCHANGED status
    /\ UNCHANGED <<verFrame, balance, credited>>

\* The charge is not successful (yet): the copy's status becomes failed and is
\* saved, by id.
VerifyFail(v) ==
    /\ ver[v].pc = "fail"
    /\ status' = IF ver[v].loaded = "failed" THEN status
                 ELSE [status EXCEPT ![ver[v].tx] = "failed"]
    /\ ver' = [ver EXCEPT ![v] = Idle]
    /\ UNCHANGED <<verFrame, balance, credited>>

\* The controller credits the wallet; the flag is left alone.
VerifyCredit(v) ==
    /\ ver[v].pc = "credit"
    /\ AddTo(ver[v].tx)
    /\ ver' = [ver EXCEPT ![v] = Idle]
    /\ UNCHANGED <<verFrame, status>>

-----------------------------------------------------------------------------
Crash ==
    /\ "crash" \in Faults
    /\ \/ \E h \in Webhook : /\ hook[h].pc # "idle"
                             /\ hook' = [hook EXCEPT ![h] = Idle]
                             /\ UNCHANGED ver
       \/ \E v \in Verifier : /\ ver[v].pc # "idle"
                              /\ ver' = [ver EXCEPT ![v] = Idle]
                              /\ UNCHANGED hook
    /\ UNCHANGED <<paystackVars, acked, txVars, balance, credited>>

PaystackStep == \E t \in Tx : Charge(t) \/ Decline(t)

HookStep ==
    \E h \in Webhook :
      \/ \E t \in Tx, event \in Event : HookLoad(h, t, event)
      \/ HookCredit(h) \/ HookCreditError(h) \/ HookSave(h)

VerifyStep ==
    \E v \in Verifier :
      \/ \E t \in Tx : VerifyAsk(v, t)
      \/ VerifyLoad(v) \/ VerifyClaim(v) \/ VerifyFail(v) \/ VerifyCredit(v)

Next == PaystackStep \/ HookStep \/ VerifyStep \/ Crash

Spec == Init /\ [][Next]_vars

\* Paystack repeats an event until it is answered, and a handler that runs
\* takes its next step.
Fairness ==
    /\ \A t \in Tx, event \in Event :
         SF_vars(<<t, event>> \notin acked /\ \E h \in Webhook : HookLoad(h, t, event))
    /\ \A h \in Webhook : WF_vars(HookCredit(h)) /\ WF_vars(HookSave(h))
    /\ \A v \in Verifier : WF_vars(\/ VerifyLoad(v) \/ VerifyClaim(v)
                                   \/ VerifyFail(v) \/ VerifyCredit(v))

FairSpec == Spec /\ Fairness

-----------------------------------------------------------------------------
(* Properties                                                              *)

\* However often Paystack delivers an event, a funding transaction enters its
\* wallet at most once (handleChargeSuccess: "Credit a funded wallet only
\* once"; verifyPayment: "avoids double-credit").
CreditedOnce == \A t \in Tx : credited[t] <= 1

\* Nothing enters a wallet for a charge Paystack did not report as paid: the
\* answer that justifies a credit is read long before the credit, by a handler
\* that may have been overtaken by any other.
CreditedOnlyIfPaid == \A t \in Tx : credited[t] > 0 => remote[t] = "paid"

\* One delivery at a time, and nothing else, implements the ideal.
Ideal == INSTANCE IdealFunding WITH
            paid <- {t \in Tx : remote[t] = "paid"},
            posted <- {t \in Tx : credited[t] > 0}

PostsOnce == Ideal!FairSpec
=============================================================================
