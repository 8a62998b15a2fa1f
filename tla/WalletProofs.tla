---------------------------- MODULE WalletProofs ----------------------------
(***************************************************************************)
(* Theorems about what a customer pays with: the funding of the wallet,    *)
(* for every number of transactions, wallets, webhook handlers and         *)
(* verifications, and the token purse, for every number of requests,       *)
(* prices and balances.                                                    *)
(***************************************************************************)
EXTENDS WalletFunding, TokenJobs, TLAPS

-----------------------------------------------------------------------------
(* Wallet funding (WalletFunding).                                          *)

\* A handler or a verification that is past a given step has the fields the
\* later steps read.
LEMMA LocalStates ==
    ASSUME TypeOK
    PROVE  /\ \A h \in Webhook : hook[h].pc # "idle" =>
                hook[h] \in [pc: {"credit", "save"}, tx: Tx, event: Event,
                            loaded: TransactionStatus, funded: BOOLEAN]
           /\ \A v \in Verifier :
                /\ ver[v].pc = "asked" =>
                     ver[v] \in [pc: {"asked"}, tx: Tx, answer: BOOLEAN]
                /\ ver[v].pc \in {"claim", "fail"} =>
                     ver[v] \in [pc: {"claim", "fail"}, tx: Tx, loaded: TransactionStatus]
                /\ ver[v].pc = "credit" => ver[v] \in [pc: {"credit"}, tx: Tx]
BY DEF TypeOK, HookState, VerState, Idle

LEMMA InitType == Init => TypeOK
BY FundingAssumption DEF Init, TypeOK, HookState, VerState, TransactionStatus, Idle

LEMMA AddToType ==
    ASSUME TypeOK, NEW t \in Tx, AddTo(t)
    PROVE  balance' \in [Wallet -> Nat] /\ credited' \in [Tx -> Nat]
<1>1. WalletOf[t] \in Wallet /\ Amount[t] \in Nat BY FundingAssumption
<1> QED BY <1>1 DEF AddTo, TypeOK

LEMMA NextType == ASSUME TypeOK, [Next]_vars PROVE TypeOK'
<1> USE DEF paystackVars, txVars, hookFrame, verFrame
<1>1. ASSUME PaystackStep PROVE TypeOK'
    BY <1>1 DEF PaystackStep, Charge, Decline, TypeOK, Event
<1>2. ASSUME NEW h \in Webhook, NEW t \in Tx, NEW event \in Event, HookLoad(h, t, event)
      PROVE  TypeOK'
    <2>1. hook'[h] \in HookState /\ hook' = [hook EXCEPT ![h] = hook'[h]]
        BY <1>2 DEF HookLoad, HookState, TypeOK
    <2> QED BY <1>2, <2>1 DEF HookLoad, TypeOK
<1>3. ASSUME NEW h \in Webhook, HookCredit(h) \/ HookCreditError(h) PROVE TypeOK'
    <2>1. hook[h].pc = "credit" BY <1>3 DEF HookCredit, HookCreditError
    <2>2. hook[h] \in [pc: {"credit", "save"}, tx: Tx, event: Event,
                      loaded: TransactionStatus, funded: BOOLEAN]
        BY <2>1, LocalStates
    <2>3. hook' \in [Webhook -> HookState]
        BY <1>3, <2>2 DEF HookCredit, HookCreditError, TypeOK, HookState
    <2>4. balance' \in [Wallet -> Nat] /\ credited' \in [Tx -> Nat]
        BY <1>3, <2>2, AddToType DEF HookCredit, HookCreditError, TypeOK
    <2> QED BY <1>3, <2>3, <2>4 DEF HookCredit, HookCreditError, TypeOK
<1>4. ASSUME NEW h \in Webhook, HookSave(h) PROVE TypeOK'
    <2>1. hook[h] \in [pc: {"credit", "save"}, tx: Tx, event: Event,
                      loaded: TransactionStatus, funded: BOOLEAN]
        BY <1>4, LocalStates DEF HookSave
    <2>2. Outcome(hook[h].event) \in TransactionStatus
        BY DEF Outcome, TransactionStatus
    <2>3. /\ hook' \in [Webhook -> HookState]
          /\ status' \in [Tx -> TransactionStatus] /\ funded' \in [Tx -> BOOLEAN]
        BY <1>4, <2>1, <2>2 DEF HookSave, TypeOK, HookState
    <2>4. acked' \subseteq Tx \X Event
        BY <1>4, <2>1 DEF HookSave, TypeOK
    <2> QED BY <1>4, <2>3, <2>4 DEF HookSave, TypeOK
<1>5. ASSUME NEW v \in Verifier, NEW t \in Tx, VerifyAsk(v, t) PROVE TypeOK'
    BY <1>5 DEF VerifyAsk, RemoteSuccess, TypeOK, VerState
<1>6. ASSUME NEW v \in Verifier, VerifyLoad(v) PROVE TypeOK'
    <2>1. ver[v] \in [pc: {"asked"}, tx: Tx, answer: BOOLEAN]
        BY <1>6, LocalStates DEF VerifyLoad
    <2>2. ver' \in [Verifier -> VerState]
        BY <1>6, <2>1 DEF VerifyLoad, TypeOK, VerState
    <2> QED BY <1>6, <2>2 DEF VerifyLoad, TypeOK
<1>7. ASSUME NEW v \in Verifier, VerifyClaim(v) PROVE TypeOK'
    <2>1. ver[v].tx \in Tx BY <1>7, LocalStates DEF VerifyClaim
    <2>2. ver' \in [Verifier -> VerState] /\ status' \in [Tx -> TransactionStatus]
        BY <1>7, <2>1 DEF VerifyClaim, TypeOK, VerState, TransactionStatus
    <2> QED BY <1>7, <2>2 DEF VerifyClaim, TypeOK
<1>8. ASSUME NEW v \in Verifier, VerifyFail(v) PROVE TypeOK'
    BY <1>8 DEF VerifyFail, TypeOK, VerState, TransactionStatus
<1>9. ASSUME NEW v \in Verifier, VerifyCredit(v) PROVE TypeOK'
    <2>1. ver[v].tx \in Tx BY <1>9, LocalStates DEF VerifyCredit
    <2>2. ver' \in [Verifier -> VerState]
        BY <1>9 DEF VerifyCredit, TypeOK, VerState
    <2> QED BY <1>9, <2>1, <2>2, AddToType DEF VerifyCredit, TypeOK
<1>10. ASSUME Crash PROVE TypeOK'
    <2>1. hook' \in [Webhook -> HookState] /\ ver' \in [Verifier -> VerState]
        BY <1>10 DEF Crash, TypeOK, HookState, VerState
    <2> QED BY <1>10, <2>1 DEF Crash, TypeOK
<1>11. ASSUME UNCHANGED vars PROVE TypeOK'
    BY <1>11 DEF vars, TypeOK
<1> QED BY <1>1, <1>2, <1>3, <1>4, <1>5, <1>6, <1>7, <1>8, <1>9, <1>10, <1>11
        DEF Next, HookStep, VerifyStep

\* Every variable keeps its type.
THEOREM TypeCorrect == Spec => []TypeOK
<1> QED BY InitType, NextType, PTL DEF Spec

-----------------------------------------------------------------------------
(* Nothing is credited for an unpaid charge.  The fact that justifies a     *)
(* credit, "Paystack said so", is true when it is read and stays true.      *)

PaidInv ==
    /\ \A t \in Tx : credited[t] > 0 => remote[t] = "paid"
    /\ \A t \in Tx : <<t, "charge.success">> \in sent => remote[t] = "paid"
    /\ \A h \in Webhook : hook[h].pc = "credit" => remote[hook[h].tx] = "paid"
    /\ \A v \in Verifier :
         /\ ver[v].pc = "asked" /\ ver[v].answer => remote[ver[v].tx] = "paid"
         /\ ver[v].pc \in {"claim", "credit"} => remote[ver[v].tx] = "paid"

LEMMA InitPaid == Init => PaidInv
BY DEF Init, PaidInv, Idle

LEMMA NextPaid == ASSUME TypeOK, PaidInv, [Next]_vars PROVE PaidInv'
<1> USE DEF paystackVars, txVars, hookFrame, verFrame
<1>1. ASSUME PaystackStep PROVE PaidInv'
    <2>1. \A t \in Tx : remote[t] = "paid" => remote'[t] = "paid"
        BY <1>1 DEF PaystackStep, Charge, Decline, TypeOK
    <2>2. \A t \in Tx : <<t, "charge.success">> \in sent' => remote'[t] = "paid"
        BY <1>1, <2>1 DEF PaystackStep, Charge, Decline, TypeOK, PaidInv
    <2>3. \A h \in Webhook : hook[h].pc = "credit" => hook[h].tx \in Tx
        BY LocalStates
    <2>4. \A v \in Verifier : ver[v].pc \in {"asked", "claim", "credit"} => ver[v].tx \in Tx
        BY LocalStates
    <2>5. UNCHANGED <<credited, hook, ver>>
        BY <1>1 DEF PaystackStep, Charge, Decline
    <2> QED BY <2>1, <2>2, <2>3, <2>4, <2>5 DEF PaidInv
<1>2. ASSUME NEW h \in Webhook, NEW t \in Tx, NEW event \in Event, HookLoad(h, t, event)
      PROVE  PaidInv'
    <2>1. /\ \A x \in Webhook : x # h => hook'[x] = hook[x]
          /\ hook'[h].pc = "credit" => event = "charge.success" /\ hook'[h].tx = t
        BY <1>2 DEF HookLoad, TypeOK
    <2> QED BY <1>2, <2>1 DEF HookLoad, PaidInv
<1>3. ASSUME NEW h \in Webhook, HookCredit(h) PROVE PaidInv'
    <2>1. hook[h] \in [pc: {"credit", "save"}, tx: Tx, event: Event,
                      loaded: TransactionStatus, funded: BOOLEAN]
        BY <1>3, LocalStates DEF HookCredit
    <2>2. /\ \A x \in Webhook : x # h => hook'[x] = hook[x]
          /\ hook'[h].pc = "save"
        BY <1>3, <2>1 DEF HookCredit, TypeOK
    <2>3. \A t \in Tx : credited'[t] > 0 => remote[t] = "paid"
        BY <1>3, <2>1 DEF HookCredit, AddTo, TypeOK, PaidInv
    <2> QED BY <1>3, <2>2, <2>3 DEF HookCredit, PaidInv
<1>4. ASSUME NEW h \in Webhook, HookCreditError(h) PROVE PaidInv'
    <2>1. hook[h] \in [pc: {"credit", "save"}, tx: Tx, event: Event,
                      loaded: TransactionStatus, funded: BOOLEAN]
        BY <1>4, LocalStates DEF HookCreditError
    <2>2. /\ \A x \in Webhook : x # h => hook'[x] = hook[x]
          /\ hook'[h].pc = "save"
        BY <1>4, <2>1 DEF HookCreditError, TypeOK
    <2> QED BY <1>4, <2>2 DEF HookCreditError, PaidInv
<1>5. ASSUME NEW h \in Webhook, HookSave(h) PROVE PaidInv'
    <2>1. \A x \in Webhook : hook'[x] = hook[x] \/ hook'[x] = Idle
        BY <1>5 DEF HookSave, TypeOK
    <2> QED BY <1>5, <2>1 DEF HookSave, PaidInv, Idle
<1>6. ASSUME NEW v \in Verifier, NEW t \in Tx, VerifyAsk(v, t) PROVE PaidInv'
    <2>1. /\ \A x \in Verifier : x # v => ver'[x] = ver[x]
          /\ ver'[v].pc = "asked" /\ ver'[v].tx = t
          /\ ver'[v].answer => remote[t] = "paid"
        BY <1>6 DEF VerifyAsk, RemoteSuccess, TypeOK
    <2> QED BY <1>6, <2>1 DEF VerifyAsk, PaidInv
<1>7. ASSUME NEW v \in Verifier, VerifyLoad(v) PROVE PaidInv'
    <2>1. ver[v] \in [pc: {"asked"}, tx: Tx, answer: BOOLEAN]
        BY <1>7, LocalStates DEF VerifyLoad
    <2>2. /\ \A x \in Verifier : x # v => ver'[x] = ver[x]
          /\ ver'[v].pc \in {"idle", "claim", "fail"}
          /\ ver'[v].pc = "claim" => ver[v].answer /\ ver'[v].tx = ver[v].tx
        BY <1>7, <2>1 DEF VerifyLoad, TypeOK, Idle
    <2> QED BY <1>7, <2>1, <2>2 DEF VerifyLoad, PaidInv
<1>8. ASSUME NEW v \in Verifier, VerifyClaim(v) PROVE PaidInv'
    <2>1. /\ \A x \in Verifier : x # v => ver'[x] = ver[x]
          /\ \/ ver'[v].pc = "idle"
             \/ ver'[v].pc = "credit" /\ ver'[v].tx = ver[v].tx
          /\ ver[v].pc = "claim"
        BY <1>8 DEF VerifyClaim, TypeOK, Idle
    <2> QED BY <1>8, <2>1 DEF VerifyClaim, PaidInv
<1>9. ASSUME NEW v \in Verifier, VerifyFail(v) PROVE PaidInv'
    <2>1. \A x \in Verifier : ver'[x] = ver[x] \/ ver'[x] = Idle
        BY <1>9 DEF VerifyFail, TypeOK
    <2> QED BY <1>9, <2>1 DEF VerifyFail, PaidInv, Idle
<1>10. ASSUME NEW v \in Verifier, VerifyCredit(v) PROVE PaidInv'
    <2>1. ver[v].tx \in Tx BY <1>10, LocalStates DEF VerifyCredit
    <2>2. \A x \in Verifier : ver'[x] = ver[x] \/ ver'[x] = Idle
        BY <1>10 DEF VerifyCredit, TypeOK
    <2>3. \A t \in Tx : credited'[t] > 0 => remote[t] = "paid"
        BY <1>10, <2>1 DEF VerifyCredit, AddTo, TypeOK, PaidInv
    <2> QED BY <1>10, <2>2, <2>3 DEF VerifyCredit, PaidInv, Idle
<1>11. ASSUME Crash PROVE PaidInv'
    <2>1. /\ \A x \in Webhook : hook'[x] = hook[x] \/ hook'[x] = Idle
          /\ \A x \in Verifier : ver'[x] = ver[x] \/ ver'[x] = Idle
        <3>1. CASE UNCHANGED hook BY <1>11, <3>1 DEF Crash, TypeOK
        <3>2. CASE UNCHANGED ver BY <1>11, <3>2 DEF Crash, TypeOK
        <3> QED BY <1>11, <3>1, <3>2 DEF Crash
    <2> QED BY <1>11, <2>1 DEF Crash, PaidInv, Idle
<1>12. ASSUME UNCHANGED vars PROVE PaidInv'
    BY <1>12 DEF vars, PaidInv
<1> QED BY <1>1, <1>2, <1>3, <1>4, <1>5, <1>6, <1>7, <1>8, <1>9, <1>10, <1>11, <1>12
        DEF Next, HookStep, VerifyStep

\* No wallet is credited for a charge that Paystack has not reported as paid,
\* whatever handlers and verifications overtake each other, fail or crash.
THEOREM CreditsOnlyPaid == Spec => []CreditedOnlyIfPaid
<1>1. PaidInv => CreditedOnlyIfPaid BY DEF PaidInv, CreditedOnlyIfPaid
<1> QED BY <1>1, InitPaid, NextPaid, TypeCorrect, PTL DEF Spec

-----------------------------------------------------------------------------
(* With one webhook handler that does not crash, and nobody at the verify   *)
(* endpoint, the flag and the credit are two halves of one transition: they *)
(* differ only while the handler is between them.                           *)

OnceInv(h) ==
    /\ \A t \in Tx : credited[t] <= 1
    /\ \A t \in Tx : hook[h].pc = "idle" \/ hook[h].tx # t =>
         (funded[t] <=> credited[t] # 0)
    /\ hook[h].pc = "credit" => credited[hook[h].tx] = 0 /\ ~hook[h].funded
    /\ hook[h].pc = "save" => (hook[h].funded <=> credited[hook[h].tx] # 0)

LEMMA InitOnce == ASSUME NEW h \in Webhook, Init PROVE OnceInv(h)
BY DEF Init, OnceInv, Idle

LEMMA NextOnce ==
    ASSUME NEW h \in Webhook, Webhook = {h}, Verifier = {}, "crash" \notin Faults,
           TypeOK, OnceInv(h), [Next]_vars
    PROVE  OnceInv(h)'
<1> USE DEF paystackVars, txVars, hookFrame
<1>1. ASSUME PaystackStep PROVE OnceInv(h)'
    BY <1>1 DEF PaystackStep, Charge, Decline, OnceInv
<1>2. ASSUME NEW t \in Tx, NEW event \in Event, HookLoad(h, t, event) PROVE OnceInv(h)'
    <2>1. /\ hook'[h].tx = t /\ hook'[h].funded = funded[t]
          /\ hook'[h].pc = "credit" => ~funded[t]
          /\ hook'[h].pc \in {"credit", "save"}
        BY <1>2 DEF HookLoad, MayCredit, TypeOK
    <2> QED BY <1>2, <2>1 DEF HookLoad, OnceInv
<1>3. ASSUME HookCredit(h) PROVE OnceInv(h)'
    <2>1. hook[h] \in [pc: {"credit", "save"}, tx: Tx, event: Event,
                      loaded: TransactionStatus, funded: BOOLEAN]
        BY <1>3, LocalStates DEF HookCredit
    <2>2. hook'[h].pc = "save" /\ hook'[h].funded /\ hook'[h].tx = hook[h].tx
        BY <1>3, <2>1 DEF HookCredit, TypeOK
    <2>3. credited' = [credited EXCEPT ![hook[h].tx] = 1]
        BY <1>3, <2>1 DEF HookCredit, AddTo, OnceInv, TypeOK
    <2> QED BY <1>3, <2>1, <2>2, <2>3 DEF HookCredit, OnceInv, TypeOK
<1>4. ASSUME HookCreditError(h) PROVE OnceInv(h)'
    <2>1. hook[h] \in [pc: {"credit", "save"}, tx: Tx, event: Event,
                      loaded: TransactionStatus, funded: BOOLEAN]
        BY <1>4, LocalStates DEF HookCreditError
    <2>2. /\ hook'[h].pc = "save" /\ hook'[h].tx = hook[h].tx
          /\ hook'[h].funded = hook[h].funded
        BY <1>4, <2>1 DEF HookCreditError, TypeOK
    <2> QED BY <1>4, <2>1, <2>2 DEF HookCreditError, OnceInv
<1>5. ASSUME HookSave(h) PROVE OnceInv(h)'
    <2>1. hook[h] \in [pc: {"credit", "save"}, tx: Tx, event: Event,
                      loaded: TransactionStatus, funded: BOOLEAN]
        BY <1>5, LocalStates DEF HookSave
    <2>2. hook'[h].pc = "idle"
        BY <1>5 DEF HookSave, TypeOK, Idle
    <2>3. funded' = [funded EXCEPT ![hook[h].tx] = hook[h].funded] /\ credited' = credited
        BY <1>5 DEF HookSave
    <2> QED BY <1>5, <2>1, <2>2, <2>3 DEF HookSave, OnceInv, TypeOK
<1>6. ASSUME UNCHANGED vars PROVE OnceInv(h)'
    BY <1>6 DEF vars, OnceInv
<1> QED BY <1>1, <1>2, <1>3, <1>4, <1>5, <1>6 DEF Next, HookStep, VerifyStep, Crash

\* Paystack may repeat every event for ever: as long as its deliveries are
\* handled one after another and to their end, a transaction is credited once.
THEOREM CreditsOnce ==
    ASSUME NEW h \in Webhook, Webhook = {h}, Verifier = {}, "crash" \notin Faults
    PROVE  Spec => []CreditedOnce
<1>1. OnceInv(h) => CreditedOnce BY DEF OnceInv, CreditedOnce
<1>2. Init => OnceInv(h) BY InitOnce
<1>3. TypeOK /\ OnceInv(h) /\ [Next]_vars => OnceInv(h)' BY NextOnce
<1> QED BY <1>1, <1>2, <1>3, TypeCorrect, PTL DEF Spec

-----------------------------------------------------------------------------
idealPaid == {t \in Tx : remote[t] = "paid"}
idealPosted == {t \in Tx : credited[t] > 0}

LEMMA InitIdeal == Init => Ideal!Init
BY DEF Init, Ideal!Init

LEMMA NextIdeal ==
    ASSUME NEW h \in Webhook, Webhook = {h}, Verifier = {}, "crash" \notin Faults,
           TypeOK, PaidInv, OnceInv(h), [Next]_vars
    PROVE  Ideal!Next \/ UNCHANGED <<idealPaid, idealPosted, balance>>
<1> USE DEF paystackVars, txVars, hookFrame, idealPaid, idealPosted
<1>1. ASSUME NEW t \in Tx, Charge(t) PROVE Ideal!Charge(t)
    BY <1>1 DEF Charge, Ideal!Charge, TypeOK
<1>2. ASSUME NEW t \in Tx, Decline(t)
      PROVE  UNCHANGED <<idealPaid, idealPosted, balance>>
    BY <1>2 DEF Decline
<1>3. ASSUME HookCredit(h) PROVE \E t \in Tx : Ideal!Post(t)
    <2>1. PICK t \in Tx : hook[h].tx = t BY <1>3, LocalStates DEF HookCredit
    <2>2. Ideal!Post(t)
        BY <1>3, <2>1 DEF HookCredit, AddTo, OnceInv, PaidInv, TypeOK, Ideal!Post
    <2> QED BY <2>2
<1>4. ASSUME NEW t \in Tx, NEW event \in Event,
             HookLoad(h, t, event) \/ HookCreditError(h) \/ HookSave(h)
      PROVE  UNCHANGED <<idealPaid, idealPosted, balance>>
    BY <1>4 DEF HookLoad, HookCreditError, HookSave
<1>5. ASSUME HookCreditError(h) \/ HookSave(h)
      PROVE  UNCHANGED <<idealPaid, idealPosted, balance>>
    BY <1>5 DEF HookCreditError, HookSave
<1>6. ASSUME UNCHANGED vars PROVE UNCHANGED <<idealPaid, idealPosted, balance>>
    BY <1>6 DEF vars
<1> QED BY <1>1, <1>2, <1>3, <1>4, <1>5, <1>6
        DEF Next, PaystackStep, HookStep, VerifyStep, Crash, Ideal!Next

\* Handled one after another, the deliveries implement the ideal: a charge is
\* posted in one step, at most once, and nothing else moves a balance.
THEOREM ImplementsIdeal ==
    ASSUME NEW h \in Webhook, Webhook = {h}, Verifier = {}, "crash" \notin Faults
    PROVE  Spec => Ideal!Spec
<1>1. Init => OnceInv(h) BY InitOnce
<1>2. TypeOK /\ OnceInv(h) /\ [Next]_vars => OnceInv(h)' BY NextOnce
<1>3. TypeOK /\ PaidInv /\ OnceInv(h) /\ [Next]_vars
        => [Ideal!Next]_<<idealPaid, idealPosted, balance>>
    BY NextIdeal
<1> QED BY <1>1, <1>2, <1>3, InitIdeal, InitPaid, NextPaid, TypeCorrect, PTL
        DEF Spec, Ideal!Spec, idealPaid, idealPosted

-----------------------------------------------------------------------------
(* The token purse and the jobs it pays for (TokenJobs).                    *)

\* What each request and each job has been charged by the time it is where it
\* is.  A job exists only once its request has passed the queue, so that no two
\* places refund the same charge.
Owed(c) ==
    \/ req[c] \in {"upload", "talkPaid", "chatRefund"}
    \/ Kind[c] \in Charged1st /\ req[c] = "enqueue"
    \/ Kind[c] \in Charged1st /\ job[c] \in {"waiting", "generate", "complete", "refund"}

Places(c) ==
    /\ job[c] # "none" => req[c] \in {"create", "replied", "error", "dead"}
    /\ job[c] \in {"check", "chargeLast", "cleanup"} => Kind[c] \in Queued2nd
    /\ job[c] = "refund" => Kind[c] \in Charged1st
    /\ req[c] = "flush" => Kind[c] = "video"

Paid(c) == c \notin cut => /\ refunded[c] <= charged[c]
                           /\ Owed(c) => refunded[c] < charged[c]

Returned(c) ==
    /\ Kind[c] \in Charged1st /\ c \notin struck
    /\ job[c] = "fail" \/ record[c] = "failed"
    => refunded[c] > 0

TokenInv ==
    /\ TokenTypeOK
    /\ NeverOverdrawn
    /\ \A c \in Call : Places(c) /\ Paid(c) /\ Returned(c)

\* The features are told apart by their kind.
LEMMA KindsDiffer ==
    ASSUME NEW c \in Call
    PROVE  /\ Kind[c] \in Feature
           /\ Kind[c] \in Charged1st => Kind[c] \in {"edit", "analyze"}
           /\ Kind[c] \in Queued2nd => Kind[c] \in {"mask", "video"}
           /\ Price[c] \in Nat /\ Payer[c] \in Holder
BY TokenAssumption DEF TokenAssumption, Feature, Charged1st, Queued2nd

\* Nobody starts in debt.
LEMMA Balances ==
    TokenInit => /\ tokens \in [Holder -> Nat]
            /\ money \in [Holder -> Nat]
<1>1. Grant \subseteq Nat /\ Funds \in Nat
  BY TokenAssumption
<1> QED
  BY <1>1 DEF TokenInit

\* The invariant holds at the start.
LEMMA InitHolds == TokenInit => TokenInv
<1> SUFFICES ASSUME TokenInit PROVE TokenInv
  OBVIOUS
<1> USE TokenAssumption DEF TokenAssumption, TokenInit
<1>1. \A c \in Call : req[c] \in {"new", "absent"}
  OBVIOUS
<1>2. TokenTypeOK
  <2>1. req \in [Call -> ReqState]
    BY DEF ReqState
  <2>2. tokens \in [Holder -> Int] /\ money \in [Holder -> Int]
    BY Balances
  <2>3. job \in [Call -> JobState]
    BY DEF JobState
  <2>4. record \in [Call -> {"none", "queued", "running", "completed", "failed"}]
    OBVIOUS
  <2> QED
    BY <2>1, <2>2, <2>3, <2>4 DEF TokenTypeOK
<1>3. NeverOverdrawn
  BY Balances DEF NeverOverdrawn
<1>4. \A c \in Call : Places(c) /\ Paid(c) /\ Returned(c)
  BY <1>1 DEF Places, Paid, Owed, Returned
<1> QED
  BY <1>2, <1>3, <1>4 DEF TokenInv

\* Nothing a call's invariant speaks of has changed.
SameFor(d) ==
    /\ req'[d] = req[d] /\ job'[d] = job[d] /\ record'[d] = record[d]
    /\ charged'[d] = charged[d] /\ refunded'[d] = refunded[d]
    /\ d \in cut' <=> d \in cut
    /\ d \in struck' <=> d \in struck

Kept(c) == Places(c) /\ Paid(c) /\ Returned(c)

LEMMA SameKept ==
    ASSUME NEW d \in Call, Kept(d), SameFor(d) PROVE Kept(d)'
BY DEF Kept, SameFor, Places, Paid, Owed, Returned

\* A step of call c leaves every other call alone.
LEMMA OneCall ==
    ASSUME TokenInv, TokenTypeOK', NeverOverdrawn', NEW c \in Call, Kept(c)',
           \A d \in Call \ {c} : SameFor(d)
    PROVE  TokenInv'
<1>1. \A d \in Call : Kept(d)'
  BY SameKept DEF TokenInv, Kept
<1> QED
  BY <1>1 DEF TokenInv, Kept

\* The check moves the request on, uncharged.
LEMMA CheckBalanceKeeps ==
    ASSUME TokenInv, NEW c \in Call, CheckBalance(c) PROVE TokenInv'
<1> USE DEF CheckBalance, requestFrame, purse, queue, stops, ReqGoes, JobGoes, Strike, Calm
<1>1. /\ req' = [req EXCEPT ![c] = req'[c]]
      /\ req'[c] \in {"charge", "enqueue", "flush", "ask", "refused"}
  BY DEF TokenInv, TokenTypeOK, AfterCheck
<1>2. TokenTypeOK'
  BY <1>1 DEF TokenInv, TokenTypeOK, ReqState, JobState
<1>3. NeverOverdrawn'
  BY <1>1 DEF TokenInv, TokenTypeOK, NeverOverdrawn
<1>4. Kept(c)'
  BY <1>1, KindsDiffer
      DEF TokenInv, TokenTypeOK, Kept, Places, Paid, Owed, Returned, Charged1st, Queued2nd,
          AfterCheck, Feature
<1>5. \A d \in Call \ {c} : SameFor(d)
  BY <1>1 DEF TokenInv, TokenTypeOK, SameFor
<1> QED
  BY <1>2, <1>3, <1>4, <1>5, OneCall

\* The meter charges nothing.
LEMMA MeterKeeps ==
    ASSUME TokenInv, NEW c \in Call, Meter(c) PROVE TokenInv'
<1> USE DEF Meter, requestFrame, purse, queue, stops, ReqGoes, JobGoes, Strike, Calm
<1>1. /\ req' = [req EXCEPT ![c] = req'[c]]
      /\ req'[c] \in {"charge", "talkFree"}
  BY DEF TokenInv, TokenTypeOK
<1>2. TokenTypeOK'
  BY <1>1 DEF TokenInv, TokenTypeOK, ReqState, JobState
<1>3. NeverOverdrawn'
  BY <1>1 DEF TokenInv, TokenTypeOK, NeverOverdrawn
<1>4. Kept(c)'
  BY <1>1, KindsDiffer
      DEF TokenInv, TokenTypeOK, Kept, Places, Paid, Owed, Returned, Charged1st, Queued2nd
<1>5. \A d \in Call \ {c} : SameFor(d)
  BY <1>1 DEF TokenInv, TokenTypeOK, SameFor
<1> QED
  BY <1>2, <1>3, <1>4, <1>5, OneCall

\* A charge makes one more charge than refunds.
LEMMA ChargeFirstKeeps ==
    ASSUME TokenInv, NEW c \in Call, ChargeFirst(c) PROVE TokenInv'
<1> USE DEF ChargeFirst, requestFrame, purse, queue, stops, ReqGoes, JobGoes, Strike, Calm
<1>1. /\ req' = [req EXCEPT ![c] = req'[c]]
      /\ req'[c] \in {"enqueue", "upload", "predict", "talkPaid", "refused", "error"}
  BY DEF TokenInv, TokenTypeOK, AfterCharge
<1>2. TokenTypeOK'
  BY <1>1, KindsDiffer DEF TokenInv, TokenTypeOK, ReqState, JobState, Spend, CanSpend, SpendUnanswered
<1>3. NeverOverdrawn'
  BY <1>1, KindsDiffer DEF TokenInv, TokenTypeOK, NeverOverdrawn, Spend, CanSpend, SpendUnanswered
<1>4. Kept(c)'
  BY <1>1, KindsDiffer
      DEF TokenInv, TokenTypeOK, Kept, Places, Paid, Owed, Returned, Charged1st, Queued2nd,
          AfterCharge, Spend, CanSpend, SpendUnanswered
<1>5. \A d \in Call \ {c} : SameFor(d)
  BY <1>1 DEF TokenInv, TokenTypeOK, SameFor, Spend, CanSpend, SpendUnanswered
<1> QED
  BY <1>2, <1>3, <1>4, <1>5, OneCall

\* The charge of a photo goes with it to the queue.
LEMMA UploadKeeps ==
    ASSUME TokenInv, NEW c \in Call, Upload(c) PROVE TokenInv'
<1> USE DEF Upload, requestFrame, purse, queue, stops, ReqGoes, JobGoes, Strike, Calm
<1>1. /\ req' = [req EXCEPT ![c] = req'[c]]
      /\ req'[c] \in {"enqueue", "error"}
  BY DEF TokenInv, TokenTypeOK
<1>2. TokenTypeOK'
  BY <1>1 DEF TokenInv, TokenTypeOK, ReqState, JobState
<1>3. NeverOverdrawn'
  BY <1>1 DEF TokenInv, TokenTypeOK, NeverOverdrawn
<1>4. Kept(c)'
  BY <1>1, KindsDiffer
      DEF TokenInv, TokenTypeOK, Kept, Places, Paid, Owed, Returned, Charged1st, Queued2nd
<1>5. \A d \in Call \ {c} : SameFor(d)
  BY <1>1 DEF TokenInv, TokenTypeOK, SameFor
<1> QED
  BY <1>2, <1>3, <1>4, <1>5, OneCall

\* The charge passes from the request to the job.
LEMMA EnqueueKeeps ==
    ASSUME TokenInv, NEW c \in Call, Enqueue(c) PROVE TokenInv'
<1> USE DEF Enqueue, requestFrame, purse, queue, stops, ReqGoes, JobGoes, Strike, Calm
<1>1. /\ req' = [req EXCEPT ![c] = req'[c]]
      /\ req'[c] \in {"create", "error"}
  BY DEF TokenInv, TokenTypeOK
<1>2. TokenTypeOK'
  BY <1>1 DEF TokenInv, TokenTypeOK, ReqState, JobState
<1>3. NeverOverdrawn'
  BY <1>1 DEF TokenInv, TokenTypeOK, NeverOverdrawn
<1>4. Kept(c)'
  BY <1>1, KindsDiffer
      DEF TokenInv, TokenTypeOK, Kept, Places, Paid, Owed, Returned, Charged1st, Queued2nd
<1>5. \A d \in Call \ {c} : SameFor(d)
  BY <1>1 DEF TokenInv, TokenTypeOK, SameFor
<1> QED
  BY <1>2, <1>3, <1>4, <1>5, OneCall

\* A record is created as queued.
LEMMA CreateRecordKeeps ==
    ASSUME TokenInv, NEW c \in Call, CreateRecord(c) PROVE TokenInv'
<1> USE DEF CreateRecord, requestFrame, purse, queue, stops, ReqGoes, JobGoes, Strike, Calm
<1>1. /\ req' = [req EXCEPT ![c] = req'[c]]
      /\ req'[c] \in {"replied", "error"}
  BY DEF TokenInv, TokenTypeOK
<1>2. TokenTypeOK'
  BY <1>1 DEF TokenInv, TokenTypeOK, ReqState, JobState
<1>3. NeverOverdrawn'
  BY <1>1 DEF TokenInv, TokenTypeOK, NeverOverdrawn
<1>4. Kept(c)'
  BY <1>1, KindsDiffer
      DEF TokenInv, TokenTypeOK, Kept, Places, Paid, Owed, Returned, Charged1st, Queued2nd
<1>5. \A d \in Call \ {c} : SameFor(d)
  BY <1>1 DEF TokenInv, TokenTypeOK, SameFor
<1> QED
  BY <1>2, <1>3, <1>4, <1>5, OneCall

\* A prediction's charge is final.
LEMMA PredictKeeps ==
    ASSUME TokenInv, NEW c \in Call, Predict(c) PROVE TokenInv'
<1> USE DEF Predict, requestFrame, purse, queue, stops, ReqGoes, JobGoes, Strike, Calm
<1>1. /\ req' = [req EXCEPT ![c] = req'[c]]
      /\ req'[c] \in {"replied", "error"}
  BY DEF TokenInv, TokenTypeOK
<1>2. TokenTypeOK'
  BY <1>1 DEF TokenInv, TokenTypeOK, ReqState, JobState
<1>3. NeverOverdrawn'
  BY <1>1 DEF TokenInv, TokenTypeOK, NeverOverdrawn
<1>4. Kept(c)'
  BY <1>1, KindsDiffer
      DEF TokenInv, TokenTypeOK, Kept, Places, Paid, Owed, Returned, Charged1st, Queued2nd
<1>5. \A d \in Call \ {c} : SameFor(d)
  BY <1>1 DEF TokenInv, TokenTypeOK, SameFor
<1> QED
  BY <1>2, <1>3, <1>4, <1>5, OneCall

\* Only a charged question can be refunded.
LEMMA TalkKeeps ==
    ASSUME TokenInv, NEW c \in Call, Talk(c) PROVE TokenInv'
<1> USE DEF Talk, requestFrame, purse, queue, stops, ReqGoes, JobGoes, Strike, Calm
<1>1. /\ req' = [req EXCEPT ![c] = req'[c]]
      /\ req'[c] \in {"replied", "error", "chatRefund"}
  BY DEF TokenInv, TokenTypeOK
<1>2. TokenTypeOK'
  BY <1>1 DEF TokenInv, TokenTypeOK, ReqState, JobState
<1>3. NeverOverdrawn'
  BY <1>1 DEF TokenInv, TokenTypeOK, NeverOverdrawn
<1>4. Kept(c)'
  BY <1>1, KindsDiffer
      DEF TokenInv, TokenTypeOK, Kept, Places, Paid, Owed, Returned, Charged1st, Queued2nd
<1>5. \A d \in Call \ {c} : SameFor(d)
  BY <1>1 DEF TokenInv, TokenTypeOK, SameFor
<1> QED
  BY <1>2, <1>3, <1>4, <1>5, OneCall

\* The question's charge is returned, and only it.
LEMMA ChatRefundKeeps ==
    ASSUME TokenInv, NEW c \in Call, ChatRefund(c) PROVE TokenInv'
<1> USE DEF ChatRefund, requestFrame, purse, queue, stops, ReqGoes, JobGoes, Strike, Calm
<1>1. /\ req' = [req EXCEPT ![c] = req'[c]]
      /\ req'[c] \in {"error"}
  BY DEF TokenInv, TokenTypeOK
<1>2. TokenTypeOK'
  BY <1>1, KindsDiffer DEF TokenInv, TokenTypeOK, ReqState, JobState, Refund
<1>3. NeverOverdrawn'
  BY <1>1, KindsDiffer DEF TokenInv, TokenTypeOK, NeverOverdrawn, Refund
<1>4. Kept(c)'
  BY <1>1, KindsDiffer
      DEF TokenInv, TokenTypeOK, Kept, Places, Paid, Owed, Returned, Charged1st, Queued2nd,
          Refund
<1>5. \A d \in Call \ {c} : SameFor(d)
  BY <1>1 DEF TokenInv, TokenTypeOK, SameFor, Refund
<1> QED
  BY <1>2, <1>3, <1>4, <1>5, OneCall

\* An answer costs nothing yet.
LEMMA AskKeeps ==
    ASSUME TokenInv, NEW c \in Call, Ask(c) PROVE TokenInv'
<1> USE DEF Ask, requestFrame, purse, queue, stops, ReqGoes, JobGoes, Strike, Calm
<1>1. /\ req' = [req EXCEPT ![c] = req'[c]]
      /\ req'[c] \in {"chargeLast", "error"}
  BY DEF TokenInv, TokenTypeOK
<1>2. TokenTypeOK'
  BY <1>1 DEF TokenInv, TokenTypeOK, ReqState, JobState
<1>3. NeverOverdrawn'
  BY <1>1 DEF TokenInv, TokenTypeOK, NeverOverdrawn
<1>4. Kept(c)'
  BY <1>1, KindsDiffer
      DEF TokenInv, TokenTypeOK, Kept, Places, Paid, Owed, Returned, Charged1st, Queued2nd
<1>5. \A d \in Call \ {c} : SameFor(d)
  BY <1>1 DEF TokenInv, TokenTypeOK, SameFor
<1> QED
  BY <1>2, <1>3, <1>4, <1>5, OneCall

\* The answer is charged.
LEMMA ChargeLastKeeps ==
    ASSUME TokenInv, NEW c \in Call, ChargeLast(c) PROVE TokenInv'
<1> USE DEF ChargeLast, requestFrame, purse, queue, stops, ReqGoes, JobGoes, Strike, Calm
<1>1. /\ req' = [req EXCEPT ![c] = req'[c]]
      /\ req'[c] \in {"replied", "error"}
  BY DEF TokenInv, TokenTypeOK
<1>2. TokenTypeOK'
  BY <1>1, KindsDiffer DEF TokenInv, TokenTypeOK, ReqState, JobState, Spend, CanSpend, SpendUnanswered
<1>3. NeverOverdrawn'
  BY <1>1, KindsDiffer DEF TokenInv, TokenTypeOK, NeverOverdrawn, Spend, CanSpend, SpendUnanswered
<1>4. Kept(c)'
  BY <1>1, KindsDiffer
      DEF TokenInv, TokenTypeOK, Kept, Places, Paid, Owed, Returned, Charged1st, Queued2nd,
          Spend, CanSpend, SpendUnanswered
<1>5. \A d \in Call \ {c} : SameFor(d)
  BY <1>1 DEF TokenInv, TokenTypeOK, SameFor, Spend, CanSpend, SpendUnanswered
<1> QED
  BY <1>2, <1>3, <1>4, <1>5, OneCall

\* A purchase is checked.
LEMMA PurchaseCheckKeeps ==
    ASSUME TokenInv, NEW c \in Call, PurchaseCheck(c) PROVE TokenInv'
<1> USE DEF PurchaseCheck, requestFrame, purse, queue, stops, ReqGoes, JobGoes, Strike, Calm
<1>1. /\ req' = [req EXCEPT ![c] = req'[c]]
      /\ req'[c] \in {"debit", "refused"}
  BY DEF TokenInv, TokenTypeOK
<1>2. TokenTypeOK'
  BY <1>1 DEF TokenInv, TokenTypeOK, ReqState, JobState
<1>3. NeverOverdrawn'
  BY <1>1 DEF TokenInv, TokenTypeOK, NeverOverdrawn
<1>4. Kept(c)'
  BY <1>1, KindsDiffer
      DEF TokenInv, TokenTypeOK, Kept, Places, Paid, Owed, Returned, Charged1st, Queued2nd
<1>5. \A d \in Call \ {c} : SameFor(d)
  BY <1>1 DEF TokenInv, TokenTypeOK, SameFor
<1> QED
  BY <1>2, <1>3, <1>4, <1>5, OneCall

\* The wallet pays at most what it has.
LEMMA PurchaseDebitKeeps ==
    ASSUME TokenInv, NEW c \in Call, PurchaseDebit(c) PROVE TokenInv'
<1> USE DEF PurchaseDebit, requestFrame, purse, queue, stops, ReqGoes, JobGoes, Strike, Calm
<1>1. /\ req' = [req EXCEPT ![c] = req'[c]]
      /\ req'[c] \in {"credit", "refused"}
  BY DEF TokenInv, TokenTypeOK
<1>2. TokenTypeOK'
  BY <1>1, KindsDiffer DEF TokenInv, TokenTypeOK, ReqState, JobState, HasFunds
<1>3. NeverOverdrawn'
  BY <1>1, KindsDiffer DEF TokenInv, TokenTypeOK, NeverOverdrawn, HasFunds
<1>4. Kept(c)'
  BY <1>1, KindsDiffer
      DEF TokenInv, TokenTypeOK, Kept, Places, Paid, Owed, Returned, Charged1st, Queued2nd,
          HasFunds
<1>5. \A d \in Call \ {c} : SameFor(d)
  BY <1>1 DEF TokenInv, TokenTypeOK, SameFor, HasFunds
<1> QED
  BY <1>2, <1>3, <1>4, <1>5, OneCall

\* A purchase adds tokens.
LEMMA PurchaseCreditKeeps ==
    ASSUME TokenInv, NEW c \in Call, PurchaseCredit(c) PROVE TokenInv'
<1> USE DEF PurchaseCredit, requestFrame, purse, queue, stops, ReqGoes, JobGoes, Strike, Calm
<1>1. /\ req' = [req EXCEPT ![c] = req'[c]]
      /\ req'[c] \in {"replied", "error"}
  BY DEF TokenInv, TokenTypeOK
<1>2. TokenTypeOK'
  BY <1>1, KindsDiffer DEF TokenInv, TokenTypeOK, ReqState, JobState
<1>3. NeverOverdrawn'
  BY <1>1, KindsDiffer DEF TokenInv, TokenTypeOK, NeverOverdrawn
<1>4. Kept(c)'
  BY <1>1, KindsDiffer
      DEF TokenInv, TokenTypeOK, Kept, Places, Paid, Owed, Returned, Charged1st, Queued2nd
<1>5. \A d \in Call \ {c} : SameFor(d)
  BY <1>1 DEF TokenInv, TokenTypeOK, SameFor
<1> QED
  BY <1>2, <1>3, <1>4, <1>5, OneCall

\* A job that starts has not failed yet.
LEMMA JobStartKeeps ==
    ASSUME TokenInv, NEW c \in Call, JobStart(c) PROVE TokenInv'
<1> USE
    DEF JobStart, workerFrame, SetRecord, purse, queue, stops, ReqGoes, JobGoes, Strike, Calm
<1>1. job' = [job EXCEPT ![c] = job'[c]] /\ job'[c] \in {"check", "generate", "ack"}
  BY DEF TokenInv, TokenTypeOK
<1>2. TokenTypeOK'
  BY <1>1 DEF TokenInv, TokenTypeOK, ReqState, JobState
<1>3. NeverOverdrawn'
  BY <1>1 DEF TokenInv, TokenTypeOK, NeverOverdrawn
<1>4. Kept(c)'
  BY <1>1, KindsDiffer
      DEF TokenInv, TokenTypeOK, Kept, Places, Paid, Owed, Returned, Charged1st, Queued2nd
<1>5. \A d \in Call \ {c} : SameFor(d)
  BY <1>1 DEF TokenInv, TokenTypeOK, SameFor
<1> QED
  BY <1>2, <1>3, <1>4, <1>5, OneCall

\* A job short of tokens fails uncharged.
LEMMA JobCheckKeeps ==
    ASSUME TokenInv, NEW c \in Call, JobCheck(c) PROVE TokenInv'
<1> USE
    DEF JobCheck, workerFrame, SetRecord, purse, queue, stops, ReqGoes, JobGoes, Strike, Calm
<1>1. job' = [job EXCEPT ![c] = job'[c]] /\ job'[c] \in {"generate", "fail"}
  BY DEF TokenInv, TokenTypeOK
<1>2. TokenTypeOK'
  BY <1>1 DEF TokenInv, TokenTypeOK, ReqState, JobState
<1>3. NeverOverdrawn'
  BY <1>1 DEF TokenInv, TokenTypeOK, NeverOverdrawn
<1>4. Kept(c)'
  BY <1>1, KindsDiffer
      DEF TokenInv, TokenTypeOK, Kept, Places, Paid, Owed, Returned, Charged1st, Queued2nd
<1>5. \A d \in Call \ {c} : SameFor(d)
  BY <1>1 DEF TokenInv, TokenTypeOK, SameFor
<1> QED
  BY <1>2, <1>3, <1>4, <1>5, OneCall

\* A failure of a job charged beforehand goes to the refund.
LEMMA GenerateKeeps ==
    ASSUME TokenInv, NEW c \in Call, Generate(c) PROVE TokenInv'
<1> USE
    DEF Generate, workerFrame, SetRecord, purse, queue, stops, ReqGoes, JobGoes, Strike, Calm
<1>1. job' = [job EXCEPT ![c] = job'[c]] /\ job'[c] \in {"chargeLast", "complete", "refund", "fail"}
  BY DEF TokenInv, TokenTypeOK, AfterFailure
<1>2. TokenTypeOK'
  BY <1>1 DEF TokenInv, TokenTypeOK, ReqState, JobState
<1>3. NeverOverdrawn'
  BY <1>1 DEF TokenInv, TokenTypeOK, NeverOverdrawn
<1>4. Kept(c)'
  BY <1>1, KindsDiffer
      DEF TokenInv, TokenTypeOK, Kept, Places, Paid, Owed, Returned, Charged1st, Queued2nd,
          AfterFailure, Refundable
<1>5. \A d \in Call \ {c} : SameFor(d)
  BY <1>1 DEF TokenInv, TokenTypeOK, SameFor
<1> QED
  BY <1>2, <1>3, <1>4, <1>5, OneCall

\* A job charged at its end is never refunded.
LEMMA JobChargeKeeps ==
    ASSUME TokenInv, NEW c \in Call, JobCharge(c) PROVE TokenInv'
<1> USE
    DEF JobCharge, workerFrame, SetRecord, purse, queue, stops, ReqGoes, JobGoes, Strike, Calm
<1>1. job' = [job EXCEPT ![c] = job'[c]] /\ job'[c] \in {"cleanup", "complete", "refund", "fail"}
  BY DEF TokenInv, TokenTypeOK, AfterFailure
<1>2. TokenTypeOK'
  BY <1>1, KindsDiffer DEF TokenInv, TokenTypeOK, ReqState, JobState, Spend, CanSpend, SpendUnanswered
<1>3. NeverOverdrawn'
  BY <1>1, KindsDiffer DEF TokenInv, TokenTypeOK, NeverOverdrawn, Spend, CanSpend, SpendUnanswered
<1>4. Kept(c)'
  BY <1>1, KindsDiffer
      DEF TokenInv, TokenTypeOK, Kept, Places, Paid, Owed, Returned, Charged1st, Queued2nd,
          AfterFailure, Refundable, Spend, CanSpend, SpendUnanswered
<1>5. \A d \in Call \ {c} : SameFor(d)
  BY <1>1 DEF TokenInv, TokenTypeOK, SameFor, Spend, CanSpend, SpendUnanswered
<1> QED
  BY <1>2, <1>3, <1>4, <1>5, OneCall

\* Neither is one whose photos stay.
LEMMA CleanupKeeps ==
    ASSUME TokenInv, NEW c \in Call, Cleanup(c) PROVE TokenInv'
<1> USE DEF Cleanup, workerFrame, SetRecord, purse, queue, stops, ReqGoes, JobGoes, Strike, Calm
<1>1. job' = [job EXCEPT ![c] = job'[c]] /\ job'[c] \in {"complete", "refund", "fail"}
  BY DEF TokenInv, TokenTypeOK, AfterFailure
<1>2. TokenTypeOK'
  BY <1>1 DEF TokenInv, TokenTypeOK, ReqState, JobState
<1>3. NeverOverdrawn'
  BY <1>1 DEF TokenInv, TokenTypeOK, NeverOverdrawn
<1>4. Kept(c)'
  BY <1>1, KindsDiffer
      DEF TokenInv, TokenTypeOK, Kept, Places, Paid, Owed, Returned, Charged1st, Queued2nd,
          AfterFailure, Refundable
<1>5. \A d \in Call \ {c} : SameFor(d)
  BY <1>1 DEF TokenInv, TokenTypeOK, SameFor
<1> QED
  BY <1>2, <1>3, <1>4, <1>5, OneCall

\* A result that cannot be saved is a failure.
LEMMA CompleteKeeps ==
    ASSUME TokenInv, NEW c \in Call, Complete(c) PROVE TokenInv'
<1> USE
    DEF Complete, workerFrame, SetRecord, purse, queue, stops, ReqGoes, JobGoes, Strike, Calm
<1>1. job' = [job EXCEPT ![c] = job'[c]] /\ job'[c] \in {"ack", "refund", "fail"}
  BY DEF TokenInv, TokenTypeOK, AfterFailure
<1>2. TokenTypeOK'
  BY <1>1 DEF TokenInv, TokenTypeOK, ReqState, JobState
<1>3. NeverOverdrawn'
  BY <1>1 DEF TokenInv, TokenTypeOK, NeverOverdrawn
<1>4. Kept(c)'
  BY <1>1, KindsDiffer
      DEF TokenInv, TokenTypeOK, Kept, Places, Paid, Owed, Returned, Charged1st, Queued2nd,
          AfterFailure, Refundable
<1>5. \A d \in Call \ {c} : SameFor(d)
  BY <1>1 DEF TokenInv, TokenTypeOK, SameFor
<1> QED
  BY <1>2, <1>3, <1>4, <1>5, OneCall

\* The refund comes before the failure is recorded.
LEMMA JobRefundKeeps ==
    ASSUME TokenInv, NEW c \in Call, JobRefund(c) PROVE TokenInv'
<1> USE
    DEF JobRefund, workerFrame, SetRecord, purse, queue, stops, ReqGoes, JobGoes, Strike, Calm
<1>1. job' = [job EXCEPT ![c] = job'[c]] /\ job'[c] \in {"fail"}
  BY DEF TokenInv, TokenTypeOK
<1>2. TokenTypeOK'
  BY <1>1, KindsDiffer DEF TokenInv, TokenTypeOK, ReqState, JobState, Refund
<1>3. NeverOverdrawn'
  BY <1>1, KindsDiffer DEF TokenInv, TokenTypeOK, NeverOverdrawn, Refund
<1>4. Kept(c)'
  BY <1>1, KindsDiffer
      DEF TokenInv, TokenTypeOK, Kept, Places, Paid, Owed, Returned, Charged1st, Queued2nd,
          Refund
<1>5. \A d \in Call \ {c} : SameFor(d)
  BY <1>1 DEF TokenInv, TokenTypeOK, SameFor, Refund
<1> QED
  BY <1>2, <1>3, <1>4, <1>5, OneCall

\* The failure is recorded.
LEMMA FailKeeps ==
    ASSUME TokenInv, NEW c \in Call, Fail(c) PROVE TokenInv'
<1> USE DEF Fail, workerFrame, SetRecord, purse, queue, stops, ReqGoes, JobGoes, Strike, Calm
<1>1. job' = [job EXCEPT ![c] = job'[c]] /\ job'[c] \in {"ack"}
  BY DEF TokenInv, TokenTypeOK
<1>2. TokenTypeOK'
  BY <1>1 DEF TokenInv, TokenTypeOK, ReqState, JobState
<1>3. NeverOverdrawn'
  BY <1>1 DEF TokenInv, TokenTypeOK, NeverOverdrawn
<1>4. Kept(c)'
  BY <1>1, KindsDiffer
      DEF TokenInv, TokenTypeOK, Kept, Places, Paid, Owed, Returned, Charged1st, Queued2nd
<1>5. \A d \in Call \ {c} : SameFor(d)
  BY <1>1 DEF TokenInv, TokenTypeOK, SameFor
<1> QED
  BY <1>2, <1>3, <1>4, <1>5, OneCall

\* The job is over.
LEMMA AcknowledgeKeeps ==
    ASSUME TokenInv, NEW c \in Call, Acknowledge(c) PROVE TokenInv'
<1> USE
    DEF Acknowledge, workerFrame, SetRecord, purse, queue, stops, ReqGoes, JobGoes, Strike, Calm
<1>1. job' = [job EXCEPT ![c] = job'[c]] /\ job'[c] \in {"over"}
  BY DEF TokenInv, TokenTypeOK
<1>2. TokenTypeOK'
  BY <1>1 DEF TokenInv, TokenTypeOK, ReqState, JobState
<1>3. NeverOverdrawn'
  BY <1>1 DEF TokenInv, TokenTypeOK, NeverOverdrawn
<1>4. Kept(c)'
  BY <1>1, KindsDiffer
      DEF TokenInv, TokenTypeOK, Kept, Places, Paid, Owed, Returned, Charged1st, Queued2nd
<1>5. \A d \in Call \ {c} : SameFor(d)
  BY <1>1 DEF TokenInv, TokenTypeOK, SameFor
<1> QED
  BY <1>2, <1>3, <1>4, <1>5, OneCall

\* A flush ends the waiting jobs, and marks them.
LEMMA FlushRedisKeeps ==
    ASSUME TokenInv, NEW c \in Call, FlushRedis(c) PROVE TokenInv'
<1> USE DEF FlushRedis, requestFrame, purse, queue, stops, ReqGoes, Strike
<1>1. TokenTypeOK'
  BY DEF TokenInv, TokenTypeOK, ReqState, JobState, InWorker
<1>2. NeverOverdrawn'
  BY DEF TokenInv, NeverOverdrawn
<1>3. \A d \in Call : Kept(d)'
  BY KindsDiffer DEF TokenInv, TokenTypeOK, Kept, Places, Paid, Owed, Returned, Charged1st
<1> QED
  BY <1>1, <1>2, <1>3 DEF TokenInv, Kept

\* A job that is run again keeps what the invariant says of a failed one.
LEMMA CrashKeeps ==
    ASSUME TokenInv, NEW c \in Call, TokenCrash(c) PROVE TokenInv'
<1> USE DEF TokenCrash, purse, ReqGoes, JobGoes, Calm
<1>1. TokenTypeOK'
  BY DEF TokenInv, TokenTypeOK, ReqState, JobState
<1>2. NeverOverdrawn'
  BY DEF TokenInv, NeverOverdrawn
<1>3. Kept(c)'
  BY DEF TokenInv, TokenTypeOK, Kept, Places, Paid, Returned, InRequest, InWorker
<1>4. \A d \in Call \ {c} : SameFor(d)
  BY DEF TokenInv, TokenTypeOK, SameFor
<1> QED
  BY <1>1, <1>2, <1>3, <1>4, OneCall

\* Every step keeps the invariant.
LEMMA NextKeeps == TokenInv /\ [TokenNext]_tokenVars => TokenInv'
<1> SUFFICES ASSUME TokenInv, [TokenNext]_tokenVars PROVE TokenInv'
  OBVIOUS
<1>1. ASSUME NEW c \in Call, RequestStep(c) PROVE TokenInv'
  BY <1>1, CheckBalanceKeeps, MeterKeeps, ChargeFirstKeeps, UploadKeeps, FlushRedisKeeps,
     EnqueueKeeps, CreateRecordKeeps, PredictKeeps, TalkKeeps, ChatRefundKeeps, AskKeeps,
     ChargeLastKeeps, PurchaseCheckKeeps, PurchaseDebitKeeps, PurchaseCreditKeeps
  DEF RequestStep
<1>2. ASSUME NEW c \in Call, WorkerStep(c) PROVE TokenInv'
  BY <1>2, JobStartKeeps, JobCheckKeeps, GenerateKeeps, JobChargeKeeps, CleanupKeeps,
     CompleteKeeps, JobRefundKeeps, FailKeeps, AcknowledgeKeeps
  DEF WorkerStep
<1>3. ASSUME UNCHANGED tokenVars PROVE TokenInv'
  BY <1>3 DEF TokenInv, TokenTypeOK, NeverOverdrawn, Places, Paid, Owed, Returned,
              tokenVars, purse, queue, stops
<1> QED
  BY <1>1, <1>2, <1>3, CrashKeeps DEF TokenNext

LEMMA TokenInvariant == TokenSpec => []TokenInv
BY InitHolds, NextKeeps, PTL DEF TokenSpec

\* Every variable keeps its type.
THEOREM TokenTypeCorrect == TokenSpec => []TokenTypeOK
<1>1. TokenInv => TokenTypeOK
  BY DEF TokenInv
<1> QED
  BY <1>1, TokenInvariant, PTL

\* Whatever is asked for at once, and whatever fails, no purse and no wallet is
\* overdrawn (spend's and debitWallet's filters).
THEOREM PursesNeverOverdrawn == TokenSpec => []NeverOverdrawn
<1>1. TokenInv => NeverOverdrawn
  BY DEF TokenInv
<1> QED
  BY <1>1, TokenInvariant, PTL

\* Nothing is refunded that was not charged, unless a job was cut off and run
\* again (REFUND_KEY_BY_TYPE, and the assistant's charged flag).
THEOREM RefundsAreForCharges == TokenSpec => []RefundOnlyCharged
<1>1. TokenInv => RefundOnlyCharged
  BY DEF TokenInv, RefundOnlyCharged, Paid
<1> QED
  BY <1>1, TokenInvariant, PTL

\* A job charged beforehand is reported as failed only once its tokens are back
\* (the order of refund and updateStatus in the processor's catch block).
THEOREM FailedJobsAreFree == TokenSpec => []FailedIsFree
<1>1. TokenInv => FailedIsFree
  BY DEF TokenInv, FailedIsFree, Returned
<1> QED
  BY <1>1, TokenInvariant, PTL
=============================================================================
