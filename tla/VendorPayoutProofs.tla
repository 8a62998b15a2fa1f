------------------------- MODULE VendorPayoutProofs -------------------------
(***************************************************************************)
(* Theorems about withdrawals, for every number of vendors, withdrawals,   *)
(* reversals and webhook handlers.                                         *)
(***************************************************************************)
EXTENDS VendorPayout, SumTheorems

HandlerState == [pc: {"handle", "save"}, w: Withdrawal, outcome: {"success", "failed"},
                 loaded: TransactionStatus, reversed: BOOLEAN]

LEMMA HandlerFields ==
    ASSUME TypeOK, NEW h \in Webhook, hook[h].pc # "idle"
    PROVE  hook[h] \in HandlerState
BY DEF TypeOK, Idle, HandlerState

LEMMA ClampNat == ASSUME NEW n \in Int PROVE Clamp(n) \in Nat
BY DEF Clamp

LEMMA InitType == Init => TypeOK
BY DEF Init, TypeOK, TransactionStatus

LEMMA NextType == ASSUME TypeOK, [Next]_vars PROVE TypeOK'
<1> USE DEF requestVars, hookVars, withdrawFrame, handlerFrame, Goto, TransactionStatus
<1>1. ASSUME NEW v \in Vendor, Earn(v) PROVE TypeOK'
    BY <1>1 DEF Earn, TypeOK
<1>2. ASSUME NEW r \in Reversal, ClawbackLoad(r) PROVE TypeOK'
    BY <1>2, PayoutAssumption DEF ClawbackLoad, TypeOK
<1>3. ASSUME NEW r \in Reversal, ClawbackSave(r) PROVE TypeOK'
    <2>1. Clamp(clawing[r].balance - Clawback[r]) \in Nat
        BY PayoutAssumption, ClampNat DEF TypeOK
    <2>2. clawing' \in [Reversal -> [pc: {"idle", "loaded", "done"}, balance: Int]]
        <3>1. [clawing[r] EXCEPT !.pc = "done"]
                \in [pc: {"idle", "loaded", "done"}, balance: Int]
            BY DEF TypeOK
        <3>2. clawing' = [clawing EXCEPT ![r] = [clawing[r] EXCEPT !.pc = "done"]]
            BY <1>3 DEF ClawbackSave
        <3> QED BY <3>1, <3>2 DEF TypeOK
    <2>3. balance' \in [Vendor -> Int]
        <3>1. CASE Clawback[r] = 0 BY <1>3, <3>1 DEF ClawbackSave, TypeOK
        <3>2. CASE Clawback[r] # 0
            <4>1. PICK n \in Int : n = Clamp(clawing[r].balance - Clawback[r])
                BY <2>1
            <4>2. balance' = [balance EXCEPT ![ReversalOf[r]] = n]
                BY <1>3, <3>2, <4>1 DEF ClawbackSave
            <4> QED BY <4>2 DEF TypeOK
        <3> QED BY <3>1, <3>2
    <2> QED BY <1>3, <2>2, <2>3 DEF ClawbackSave, TypeOK
<1>4. ASSUME NEW w \in Withdrawal,
             Check(w) \/ CreateTransaction(w) \/ SendAccepted(w) \/ SendRefused(w)
               \/ SendTimeout(w) \/ MarkLoad(w) \/ MarkSave(w)
      PROVE  TypeOK'
    BY <1>4 DEF Check, CreateTransaction, SendAccepted, SendRefused, SendTimeout,
                MarkLoad, MarkSave, TypeOK
<1>5. ASSUME NEW w \in Withdrawal, Debit(w) \/ Restore(w) PROVE TypeOK'
    <2>1. VendorOf[w] \in Vendor /\ Amount[w] \in Nat BY PayoutAssumption
    <2> QED BY <1>5, <2>1 DEF Debit, Restore, TypeOK
<1>6. ASSUME NEW w \in Withdrawal, NEW outcome \in {"paid", "failed"}, Settle(w, outcome)
      PROVE  TypeOK'
    BY <1>6 DEF Settle, TypeOK
<1>7. ASSUME NEW h \in Webhook, NEW w \in Withdrawal, HookLoad(h, w) PROVE TypeOK'
    <2>1. [pc |-> "handle", w |-> w, outcome |-> EventOf(w), loaded |-> status[w],
           reversed |-> reversed[w]] \in HandlerState
        BY DEF TypeOK, HandlerState, EventOf
    <2> QED BY <1>7, <2>1 DEF HookLoad, TypeOK, HandlerState
<1>8. ASSUME NEW h \in Webhook, HookHandle(h) PROVE TypeOK'
    <2>1. hook[h] \in HandlerState BY <1>8, HandlerFields DEF HookHandle
    <2>2. [hook[h] EXCEPT !.pc = "save", !.reversed = hook[h].reversed] \in HandlerState
        BY <2>1 DEF HandlerState
    <2>3. UNCHANGED <<balance, restored, paidOut>>
        BY <1>8 DEF HookHandle, CreatedChannel
    <2>4. hook' \in [Webhook -> {Idle} \cup HandlerState]
        BY <1>8, <2>1, <2>2 DEF HookHandle, CreatedChannel, TypeOK, HandlerState
    <2> QED BY <1>8, <2>3, <2>4 DEF HookHandle, TypeOK, HandlerState
<1>9. ASSUME NEW h \in Webhook, HookSave(h) PROVE TypeOK'
    <2>1. hook[h] \in HandlerState BY <1>9, HandlerFields DEF HookSave
    <2> QED BY <1>9, <2>1 DEF HookSave, TypeOK, HandlerState
<1>10. ASSUME Crash PROVE TypeOK'
    BY <1>10 DEF Crash, TypeOK
<1>11. ASSUME UNCHANGED vars PROVE TypeOK'
    BY <1>11 DEF vars, TypeOK
<1> QED BY <1>1, <1>2, <1>3, <1>4, <1>5, <1>6, <1>7, <1>8, <1>9, <1>10, <1>11
        DEF Next, WalletStep, WithdrawStep, PaystackStep, HookStep

\* Every variable keeps its type.
THEOREM TypeCorrect == Spec => []TypeOK
<1> QED BY InitType, NextType, PTL DEF Spec

-----------------------------------------------------------------------------
LEMMA NextOverdrawn ==
    ASSUME TypeOK, NeverOverdrawn, [Next]_vars
    PROVE  NeverOverdrawn'
<1> USE DEF requestVars, hookVars, withdrawFrame, handlerFrame, Goto
<1>1. ASSUME NEW v \in Vendor, Earn(v) PROVE NeverOverdrawn'
    BY <1>1 DEF Earn, TypeOK, NeverOverdrawn
<1>2. ASSUME NEW r \in Reversal, ClawbackSave(r) PROVE NeverOverdrawn'
    <2>1. Clamp(clawing[r].balance - Clawback[r]) \in Nat
        BY PayoutAssumption, ClampNat DEF TypeOK
    <2> QED BY <1>2, <2>1 DEF ClawbackSave, TypeOK, NeverOverdrawn
<1>3. ASSUME NEW w \in Withdrawal, Debit(w) PROVE NeverOverdrawn'
    <2>1. VendorOf[w] \in Vendor /\ Amount[w] \in Nat BY PayoutAssumption
    <2> QED BY <1>3, <2>1 DEF Debit, Covers, TypeOK, NeverOverdrawn
<1>4. ASSUME NEW w \in Withdrawal, Restore(w) PROVE NeverOverdrawn'
    <2>1. VendorOf[w] \in Vendor /\ Amount[w] \in Nat BY PayoutAssumption
    <2> QED BY <1>4, <2>1 DEF Restore, TypeOK, NeverOverdrawn
<1>5. ASSUME NEW h \in Webhook, HookHandle(h) PROVE UNCHANGED balance
    BY <1>5 DEF HookHandle, CreatedChannel
<1>6. ASSUME UNCHANGED balance PROVE NeverOverdrawn'
    BY <1>6 DEF NeverOverdrawn
<1>7. ASSUME NEW r \in Reversal, ClawbackLoad(r) PROVE UNCHANGED balance
    BY <1>7 DEF ClawbackLoad
<1>8. ASSUME NEW w \in Withdrawal,
             \/ Check(w) \/ CreateTransaction(w) \/ SendAccepted(w) \/ SendRefused(w)
             \/ SendTimeout(w) \/ MarkLoad(w) \/ MarkSave(w)
             \/ \E outcome \in {"paid", "failed"} : Settle(w, outcome)
             \/ \E h \in Webhook : HookLoad(h, w)
      PROVE  UNCHANGED balance
    BY <1>8 DEF Check, CreateTransaction, SendAccepted, SendRefused, SendTimeout,
                MarkLoad, MarkSave, Settle, HookLoad
<1>9. ASSUME (\E h \in Webhook : HookSave(h)) \/ Crash \/ UNCHANGED vars
      PROVE  UNCHANGED balance
    BY <1>9 DEF HookSave, Crash, vars
<1> QED BY <1>1, <1>2, <1>3, <1>4, <1>5, <1>6, <1>7, <1>8, <1>9
        DEF Next, WalletStep, WithdrawStep, PaystackStep, HookStep

\* No wallet is ever overdrawn, however many withdrawals and reversals of its
\* vendor overlap, time out or crash: the debit is conditional and the save of
\* a reversal is clamped.
THEOREM NoOverdraft == Spec => []NeverOverdrawn
<1>1. Init => NeverOverdrawn BY DEF Init, NeverOverdrawn
<1> QED BY <1>1, NextOverdrawn, TypeCorrect, PTL DEF Spec

-----------------------------------------------------------------------------
(* A call has no transfer at Paystack before it asked for one; a call past  *)
(* its catch block has restored the debit, so that a transfer it has after  *)
(* all is a lost one; and a handler's event is the transfer's final state.  *)

TruthInv ==
    /\ StatusTruthful
    /\ \A w \in Withdrawal :
         /\ req[w] \in {"new", "checked", "debited", "created", "refused"}
              => transfer[w] = "none"
         /\ req[w] \in {"restored", "marking"} => restored[w] > 0
         /\ req[w] = "created" => status[w] = "pending"
    /\ \A h \in Webhook : hook[h].pc # "idle" =>
         transfer[hook[h].w] = IF hook[h].outcome = "success" THEN "paid" ELSE "failed"

LEMMA InitTruth == Init => TruthInv
BY DEF Init, TruthInv, StatusTruthful, Idle

LEMMA NextTruth ==
    ASSUME TypeOK, TruthInv, [Next]_vars
    PROVE  TruthInv'
<1> USE DEF requestVars, hookVars, withdrawFrame, handlerFrame, Goto, StatusTruthful, Lost
<1>1. ASSUME WalletStep PROVE TruthInv'
    BY <1>1 DEF WalletStep, Earn, ClawbackLoad, ClawbackSave, TruthInv
<1>2. ASSUME NEW w \in Withdrawal,
             Check(w) \/ Debit(w) \/ CreateTransaction(w) \/ SendRefused(w) \/ MarkLoad(w)
      PROVE  TruthInv'
    <2>1. /\ UNCHANGED <<transfer, hook, restored>>
          /\ \A x \in Withdrawal : x # w => req'[x] = req[x] /\ status'[x] = status[x]
        BY <1>2 DEF Check, Debit, CreateTransaction, SendRefused, MarkLoad, TypeOK
    <2>2. /\ req'[w] \in {"new", "checked", "debited", "created", "refused"}
               => transfer[w] = "none"
          /\ req'[w] \in {"restored", "marking"} => restored[w] > 0
          /\ req'[w] = "created" => status'[w] = "pending"
          /\ status'[w] # status[w] => status'[w] = "pending"
        BY <1>2 DEF Check, Debit, CreateTransaction, SendRefused, MarkLoad, TruthInv, TypeOK
    <2> QED BY <2>1, <2>2 DEF TruthInv
<1>3. ASSUME NEW w \in Withdrawal, SendAccepted(w) \/ SendTimeout(w) PROVE TruthInv'
    <2>1. transfer[w] = "none" /\ status[w] = "pending"
        BY <1>3 DEF SendAccepted, SendTimeout, TruthInv
    <2>2. \A h \in Webhook : hook[h].pc # "idle" => hook[h].w # w
        BY <2>1 DEF TruthInv
    <2>3. \A h \in Webhook : hook[h].pc # "idle" => hook[h].w \in Withdrawal
        BY HandlerFields DEF HandlerState
    <2>4. /\ \A x \in Withdrawal : x # w => req'[x] = req[x] /\ transfer'[x] = transfer[x]
          /\ transfer'[w] = "accepted" /\ req'[w] \in {"done", "failing"}
          /\ UNCHANGED <<status, hook, restored>>
        BY <1>3 DEF SendAccepted, SendTimeout, TypeOK
    <2> QED BY <2>1, <2>2, <2>3, <2>4 DEF TruthInv
<1>4. ASSUME NEW w \in Withdrawal, Restore(w) PROVE TruthInv'
    <2>1. /\ UNCHANGED <<transfer, hook, status>>
          /\ \A x \in Withdrawal : x # w => req'[x] = req[x] /\ restored'[x] = restored[x]
          /\ req'[w] = "restored" /\ restored'[w] > 0
        BY <1>4 DEF Restore, TypeOK
    <2> QED BY <2>1 DEF TruthInv
<1>5. ASSUME NEW w \in Withdrawal, MarkSave(w) PROVE TruthInv'
    <2>1. /\ \A x \in Withdrawal : x # w => status'[x] = status[x] /\ req'[x] = req[x]
          /\ status'[w] \in {status[w], "failed"} /\ req'[w] = "done"
          /\ UNCHANGED <<transfer, hook, restored>>
        BY <1>5 DEF MarkSave, TypeOK
    <2>2. restored[w] > 0 BY <1>5 DEF MarkSave, TruthInv
    <2> QED BY <2>1, <2>2 DEF TruthInv
<1>6. ASSUME NEW w \in Withdrawal, NEW outcome \in {"paid", "failed"}, Settle(w, outcome)
      PROVE  TruthInv'
    <2>1. transfer[w] = "accepted" /\ status[w] # "success"
        BY <1>6 DEF Settle, TruthInv
    <2>2. \A h \in Webhook : hook[h].pc # "idle" => hook[h].w # w
        BY <2>1 DEF TruthInv
    <2>3. \A h \in Webhook : hook[h].pc # "idle" => hook[h].w \in Withdrawal
        BY HandlerFields DEF HandlerState
    <2>4. /\ \A x \in Withdrawal : x # w => transfer'[x] = transfer[x]
          /\ transfer'[w] \in {"paid", "failed"}
          /\ UNCHANGED <<status, req, hook, restored>>
        BY <1>6 DEF Settle, TypeOK
    <2> QED BY <2>1, <2>2, <2>3, <2>4 DEF TruthInv
<1>7. ASSUME NEW h \in Webhook, NEW w \in Withdrawal, HookLoad(h, w) PROVE TruthInv'
    <2>1. /\ \A x \in Webhook : x # h => hook'[x] = hook[x]
          /\ hook'[h].w = w /\ hook'[h].outcome = EventOf(w)
          /\ UNCHANGED <<status, req, transfer, restored>>
        BY <1>7 DEF HookLoad, TypeOK
    <2>2. transfer[w] \in {"paid", "failed"} BY <1>7 DEF HookLoad
    <2> QED BY <2>1, <2>2 DEF TruthInv, EventOf
<1>8. ASSUME NEW h \in Webhook, HookHandle(h) PROVE TruthInv'
    <2>1. hook[h] \in HandlerState BY <1>8, HandlerFields DEF HookHandle
    <2>2. /\ \A x \in Webhook : x # h => hook'[x] = hook[x]
          /\ hook'[h].w = hook[h].w /\ hook'[h].outcome = hook[h].outcome
          /\ UNCHANGED <<status, req, transfer, restored>> /\ hook[h].pc = "handle"
        BY <1>8, <2>1 DEF HookHandle, CreatedChannel, TypeOK, HandlerState
    <2> QED BY <2>2 DEF TruthInv
<1>9. ASSUME NEW h \in Webhook, HookSave(h) PROVE TruthInv'
    <2>1. hook[h] \in HandlerState BY <1>9, HandlerFields DEF HookSave
    <2>2. \A x \in Webhook : hook'[x] = hook[x] \/ hook'[x] = Idle
        BY <1>9 DEF HookSave, TypeOK
    <2>3. /\ \A x \in Withdrawal : x # hook[h].w => status'[x] = status[x]
          /\ status'[hook[h].w] \in {status[hook[h].w], hook[h].outcome}
          /\ UNCHANGED <<req, transfer, restored>> /\ hook[h].pc = "save"
        BY <1>9, <2>1 DEF HookSave, TypeOK, HandlerState
    <2>4. transfer[hook[h].w] = IF hook[h].outcome = "success" THEN "paid" ELSE "failed"
        BY <2>3 DEF TruthInv
    <2>5. req[hook[h].w] # "created"
        BY <2>1, <2>4 DEF TruthInv, HandlerState
    <2> QED BY <2>1, <2>2, <2>3, <2>4, <2>5 DEF TruthInv, HandlerState, Idle
<1>10. ASSUME Crash PROVE TruthInv'
    <2>1. /\ \A x \in Webhook : hook'[x] = hook[x] \/ hook'[x] = Idle
          /\ \A x \in Withdrawal : req'[x] = req[x] \/ req'[x] = "crashed"
        <3>1. CASE UNCHANGED hook BY <1>10, <3>1 DEF Crash, TypeOK
        <3>2. CASE UNCHANGED req BY <1>10, <3>2 DEF Crash, TypeOK
        <3> QED BY <1>10, <3>1, <3>2 DEF Crash
    <2> QED BY <1>10, <2>1 DEF Crash, TruthInv, Idle
<1>11. ASSUME UNCHANGED vars PROVE TruthInv'
    BY <1>11 DEF vars, TruthInv
<1> QED BY <1>1, <1>2, <1>3, <1>4, <1>5, <1>6, <1>7, <1>8, <1>9, <1>10, <1>11
        DEF Next, WithdrawStep, PaystackStep, HookStep

\* The status of a payout says what became of its transfer, whatever is
\* refused, repeated, lost or crashes: only a transfer whose debit was restored
\* on a lost answer is marked failed against the truth.
THEOREM LedgerTruthful == Spec => []StatusTruthful
<1>1. TruthInv => StatusTruthful BY DEF TruthInv
<1> QED BY <1>1, InitTruth, NextTruth, TypeCorrect, PTL DEF Spec

-----------------------------------------------------------------------------
(* While no reversal began, a vendor's balance and its withdrawals that are *)
(* debited and not restored are covered by what it earned.                  *)

\* The withdrawals of v whose amount has left its wallet: between the debit and
\* the transfer, or sent.
Out(v) == Sent(v) \cup {w \in Withdrawal : /\ VendorOf[w] = v
                                          /\ req[w] \in {"debited", "created", "failing"}}

CoverInv ==
    /\ \A w \in Withdrawal :
         req[w] \in {"new", "checked", "debited", "created", "failing"} => restored[w] = 0
    /\ (\A r \in Reversal : clawing[r].pc = "idle") =>
         \A v \in Vendor : balance[v] + SumFunctionOnSet(Amount, Out(v)) <= earned[v]

LEMMA AmountsOf ==
    ASSUME NEW S, S \subseteq Withdrawal
    PROVE  /\ IsFiniteSet(S) /\ \A w \in S : Amount[w] \in Nat /\ Amount[w] \in Int
           /\ SumFunctionOnSet(Amount, S) \in Nat
<1>1. IsFiniteSet(S) /\ \A w \in S : Amount[w] \in Nat BY PayoutAssumption, FS_Subset
<1> QED BY <1>1, SumNat

\* Fewer withdrawals take no more.
LEMMA AmountsMonotone ==
    ASSUME NEW S, S \subseteq Withdrawal, NEW T, T \subseteq S
    PROVE  SumFunctionOnSet(Amount, T) <= SumFunctionOnSet(Amount, S)
<1> DEFINE f == [w \in S |-> IF w \in T THEN Amount[w] ELSE 0]
<1>1. SumFunctionOnSet(Amount, T) = SumFunctionOnSet(f, S)
    BY AmountsOf, SumPart
<1>2. \A w \in S : f[w] \in Int /\ Amount[w] \in Int /\ f[w] <= Amount[w]
    BY AmountsOf
<1>3. SumFunctionOnSet(f, S) <= SumFunctionOnSet(Amount, S)
  <2> HIDE DEF f
  <2> QED BY <1>2, AmountsOf, SumMonotone
<1> QED BY <1>1, <1>3

LEMMA InitCover == Init => CoverInv
<1> SUFFICES ASSUME Init, NEW v \in Vendor
             PROVE  balance[v] + SumFunctionOnSet(Amount, Out(v)) <= earned[v]
    BY DEF Init, CoverInv
<1>1. Out(v) = {} BY DEF Init, Out, Sent
<1> QED BY <1>1, SumEmpty DEF Init

\* A step that leaves the wallet alone, lets no withdrawal out and begins or ends
\* no reversal.
LEMMA CoverKept ==
    ASSUME TypeOK, CoverInv,
           \A v \in Vendor : balance'[v] <= balance[v] /\ balance'[v] \in Int,
           \A v \in Vendor : earned'[v] = earned[v],
           \A v \in Vendor : Out(v)' \subseteq Out(v),
           \A r \in Reversal : clawing'[r].pc = "idle" => clawing[r].pc = "idle",
           NEW v \in Vendor, \A r \in Reversal : clawing'[r].pc = "idle"
    PROVE  balance'[v] + SumFunctionOnSet(Amount, Out(v)') <= earned'[v]
<1>1. Out(v) \subseteq Withdrawal /\ Out(v)' \subseteq Withdrawal BY DEF Out, Sent
<1>2. SumFunctionOnSet(Amount, Out(v)') <= SumFunctionOnSet(Amount, Out(v))
    BY <1>1, AmountsMonotone
<1>3. SumFunctionOnSet(Amount, Out(v)') \in Nat /\ SumFunctionOnSet(Amount, Out(v)) \in Nat
    BY <1>1, AmountsOf
<1>4. balance[v] + SumFunctionOnSet(Amount, Out(v)) <= earned[v] BY DEF CoverInv
<1> QED BY <1>2, <1>3, <1>4 DEF TypeOK

LEMMA NextCover ==
    ASSUME TypeOK, CoverInv, [Next]_vars
    PROVE  CoverInv'
<1> USE DEF requestVars, hookVars, withdrawFrame, handlerFrame, Goto
<1> DEFINE Unbegun == \A r \in Reversal : clawing[r].pc = "idle"
           Fresh == \A w \in Withdrawal :
             req'[w] \in {"new", "checked", "debited", "created", "failing"} => restored'[w] = 0
           Covered == Unbegun' => \A v \in Vendor :
             balance'[v] + SumFunctionOnSet(Amount, Out(v)') <= earned'[v]
<1> SUFFICES Fresh /\ Covered BY DEF CoverInv
<1> HIDE DEF Covered
<1>1. ASSUME UNCHANGED <<balance, earned, clawing>>, \A v \in Vendor : Out(v)' \subseteq Out(v)
      PROVE  Covered
    BY <1>1, CoverKept DEF Covered, TypeOK
<1>2. ASSUME NEW v \in Vendor, Earn(v) PROVE Fresh /\ Covered
  <2>1. Fresh BY <1>2 DEF Earn, CoverInv
  <2>2. ASSUME NEW u \in Vendor PROVE Out(u)' = Out(u)
      BY <1>2 DEF Earn, Out, Sent, Lost
  <2>3. ASSUME Unbegun', NEW u \in Vendor
        PROVE  balance'[u] + SumFunctionOnSet(Amount, Out(u)') <= earned'[u]
    <3>1. Unbegun BY <1>2, <2>3 DEF Earn
    <3>2. balance[u] + SumFunctionOnSet(Amount, Out(u)) <= earned[u] BY <3>1 DEF CoverInv
    <3>3. SumFunctionOnSet(Amount, Out(u)) \in Nat
      <4>1. Out(u) \subseteq Withdrawal BY DEF Out, Sent
      <4> QED BY <4>1, AmountsOf
    <3>4. \/ balance'[u] = balance[u] /\ earned'[u] = earned[u]
          \/ balance'[u] = balance[u] + 1 /\ earned'[u] = earned[u] + 1
        BY <1>2 DEF Earn, TypeOK
    <3> QED BY <2>2, <3>2, <3>3, <3>4 DEF TypeOK
  <2> QED BY <2>1, <2>3 DEF Covered
<1>3. ASSUME NEW r \in Reversal, ClawbackLoad(r) \/ ClawbackSave(r) PROVE Fresh /\ Covered
  <2>1. clawing'[r].pc # "idle" BY <1>3 DEF ClawbackLoad, ClawbackSave, TypeOK
  <2> QED BY <1>3, <2>1 DEF ClawbackLoad, ClawbackSave, CoverInv, Covered
<1>4. ASSUME NEW w \in Withdrawal, Check(w) \/ CreateTransaction(w) \/ SendRefused(w)
      PROVE  Fresh /\ Covered
  <2>1. /\ UNCHANGED <<balance, earned, clawing, transfer, restored>>
        /\ \A x \in Withdrawal : x # w => req'[x] = req[x]
        /\ req'[w] \in {"debited", "created", "failing"} => req[w] \in {"debited", "created"}
        /\ req[w] \in {"new", "debited", "created"}
      BY <1>4 DEF Check, CreateTransaction, SendRefused, TypeOK
  <2>2. \A v \in Vendor : Out(v)' \subseteq Out(v) BY <2>1 DEF Out, Sent, Lost
  <2>3. Fresh BY <2>1 DEF CoverInv
  <2> QED BY <1>1, <2>1, <2>2, <2>3
<1>5. ASSUME NEW w \in Withdrawal, Debit(w) PROVE Fresh /\ Covered
  <2> DEFINE v == VendorOf[w]
  <2>1. v \in Vendor /\ Amount[w] \in Nat BY PayoutAssumption
  <2>2. /\ UNCHANGED <<earned, clawing, transfer, restored>>
        /\ \A x \in Withdrawal : x # w => req'[x] = req[x]
        /\ req[w] = "checked" /\ req'[w] \in {"debited", "refused"}
      BY <1>5 DEF Debit, TypeOK
  <2>3. Fresh BY <2>2 DEF CoverInv
  <2>4. ASSUME NEW u \in Vendor PROVE Out(u)' \subseteq Out(u) \cup (IF u = v THEN {w} ELSE {})
      BY <2>2 DEF Out, Sent, Lost
  <2>5. CASE UNCHANGED balance
    <3>1. req'[w] = "refused"
      <4>1. balance[v] - Amount[w] # balance[v]
        <5>1. Amount[w] # 0 BY PayoutAssumption
        <5>2. balance[v] \in Int BY <2>1 DEF TypeOK
        <5> QED BY <2>1, <5>1, <5>2
      <4>2. balance' # [balance EXCEPT ![v] = @ - Amount[w]]
          BY <2>1, <2>5, <4>1 DEF TypeOK
      <4>3. req' = [req EXCEPT ![w] = "refused"] BY <1>5, <4>2 DEF Debit
      <4> QED BY <4>3 DEF TypeOK
    <3>2. \A u \in Vendor : Out(u)' \subseteq Out(u) BY <2>2, <3>1 DEF Out, Sent, Lost
    <3> QED BY <1>1, <2>2, <2>3, <2>5, <3>2
  <2>6. CASE balance' = [balance EXCEPT ![v] = @ - Amount[w]]
    <3>1. ASSUME Unbegun', NEW u \in Vendor
          PROVE  balance'[u] + SumFunctionOnSet(Amount, Out(u)') <= earned'[u]
      <4>1. balance[u] + SumFunctionOnSet(Amount, Out(u)) <= earned[u]
          BY <2>2, <3>1 DEF CoverInv
      <4> DEFINE S == Out(u) \cup (IF u = v THEN {w} ELSE {})
      <4>2. Out(u) \subseteq Withdrawal /\ S \subseteq Withdrawal BY DEF Out, Sent
      <4>3. SumFunctionOnSet(Amount, Out(u)') <= SumFunctionOnSet(Amount, S)
        <5> HIDE DEF S
        <5> QED BY <2>4, <4>2, AmountsMonotone DEF S
      <4>4. SumFunctionOnSet(Amount, S) \in Nat /\ SumFunctionOnSet(Amount, Out(u)) \in Nat
        <5> HIDE DEF S
        <5> QED BY <4>2, AmountsOf
      <4>5. SumFunctionOnSet(Amount, Out(u)') \in Nat
        <5>1. Out(u)' \subseteq Withdrawal BY <2>4, <4>2
        <5> QED BY <5>1, AmountsOf
      <4>6. CASE u = v
        <5>1. S = Out(u) \cup {w} BY <4>6
        <5>2. SumFunctionOnSet(Amount, S) <= SumFunctionOnSet(Amount, Out(u)) + Amount[w]
          <6>1. CASE w \in Out(u)
            <7>1. S = Out(u) BY <5>1, <6>1
            <7> HIDE DEF S
            <7> QED BY <2>1, <4>4, <7>1
          <6>2. CASE w \notin Out(u)
            <7>1. SumFunctionOnSet(Amount, Out(u) \cup {w})
                    = SumFunctionOnSet(Amount, Out(u)) + Amount[w]
                BY <2>1, <4>2, <6>2, AmountsOf, SumAdd
            <7> HIDE DEF S
            <7> QED BY <2>1, <4>4, <5>1, <7>1
          <6> QED BY <6>1, <6>2
        <5>3. balance'[u] = balance[u] - Amount[w] /\ earned'[u] = earned[u]
            BY <2>2, <2>6, <4>6 DEF TypeOK
        <5>4. balance[u] \in Int /\ earned[u] \in Int BY DEF TypeOK
        <5> HIDE DEF S
        <5> QED BY <2>1, <4>1, <4>3, <4>4, <4>5, <5>2, <5>3, <5>4
      <4>7. CASE u # v
        <5>1. S = Out(u) BY <4>7
        <5>2. balance'[u] = balance[u] /\ earned'[u] = earned[u]
            BY <2>2, <2>6, <4>7 DEF TypeOK
        <5>3. balance[u] \in Int /\ earned[u] \in Int BY DEF TypeOK
        <5> HIDE DEF S
        <5> QED BY <4>1, <4>3, <4>4, <4>5, <5>1, <5>2, <5>3
      <4> QED BY <4>6, <4>7
    <3> QED BY <2>3, <3>1 DEF Covered
  <2> QED BY <1>5, <2>5, <2>6 DEF Debit
<1>6. ASSUME NEW w \in Withdrawal, SendAccepted(w) \/ SendTimeout(w) PROVE Fresh /\ Covered
  <2>1. /\ UNCHANGED <<balance, earned, clawing, restored>>
        /\ \A x \in Withdrawal : x # w => req'[x] = req[x] /\ transfer'[x] = transfer[x]
        /\ req[w] = "created" /\ req'[w] \in {"done", "failing"}
      BY <1>6 DEF SendAccepted, SendTimeout, TypeOK
  <2>2. \A v \in Vendor : Out(v)' \subseteq Out(v) BY <2>1 DEF Out, Sent, Lost
  <2>3. Fresh BY <2>1 DEF CoverInv
  <2> QED BY <1>1, <2>1, <2>2, <2>3
<1>7. ASSUME NEW w \in Withdrawal, Restore(w) PROVE Fresh /\ Covered
  <2> DEFINE v == VendorOf[w]
  <2>1. v \in Vendor /\ Amount[w] \in Nat BY PayoutAssumption
  <2>2. /\ UNCHANGED <<earned, clawing, transfer>>
        /\ \A x \in Withdrawal : x # w => req'[x] = req[x] /\ restored'[x] = restored[x]
        /\ req[w] = "failing" /\ req'[w] = "restored" /\ restored'[w] > 0
        /\ balance' = [balance EXCEPT ![v] = @ + Amount[w]]
      BY <1>7 DEF Restore, TypeOK
  <2>3. Fresh BY <2>2 DEF CoverInv
  <2>4. ASSUME NEW u \in Vendor PROVE Out(u)' \subseteq Out(u) \ {w}
      BY <2>2 DEF Out, Sent, Lost
  <2>5. ASSUME Unbegun', NEW u \in Vendor
        PROVE  balance'[u] + SumFunctionOnSet(Amount, Out(u)') <= earned'[u]
    <3>1. balance[u] + SumFunctionOnSet(Amount, Out(u)) <= earned[u]
        BY <2>2, <2>5 DEF CoverInv
    <3> DEFINE S == Out(u) \ {w}
    <3>2. Out(u) \subseteq Withdrawal /\ S \subseteq Withdrawal /\ S \subseteq Out(u)
        BY DEF Out, Sent
    <3>3. /\ SumFunctionOnSet(Amount, Out(u)') <= SumFunctionOnSet(Amount, S)
          /\ SumFunctionOnSet(Amount, S) <= SumFunctionOnSet(Amount, Out(u))
      <4> HIDE DEF S
      <4> QED BY <2>4, <3>2, AmountsMonotone DEF S
    <3>4. /\ SumFunctionOnSet(Amount, S) \in Nat /\ SumFunctionOnSet(Amount, Out(u)) \in Nat
          /\ SumFunctionOnSet(Amount, Out(u)') \in Nat
      <4>1. Out(u)' \subseteq Withdrawal BY <2>4, <3>2
      <4> HIDE DEF S
      <4> QED BY <3>2, <4>1, AmountsOf
    <3>5. balance[u] \in Int /\ earned[u] \in Int BY DEF TypeOK
    <3>6. CASE u = v
      <4>1. w \in Out(u) BY <2>2, <3>6 DEF Out
      <4>2. SumFunctionOnSet(Amount, Out(u)) = Amount[w] + SumFunctionOnSet(Amount, S)
          BY <3>2, <4>1, AmountsOf, SumRemove
      <4>3. balance'[u] = balance[u] + Amount[w] /\ earned'[u] = earned[u]
          BY <2>2, <3>6 DEF TypeOK
      <4> HIDE DEF S
      <4> QED BY <2>1, <3>1, <3>3, <3>4, <3>5, <4>2, <4>3
    <3>7. CASE u # v
      <4>1. balance'[u] = balance[u] /\ earned'[u] = earned[u]
          BY <2>2, <3>7 DEF TypeOK
      <4> HIDE DEF S
      <4> QED BY <3>1, <3>3, <3>4, <3>5, <4>1
    <3> QED BY <3>6, <3>7
  <2> QED BY <2>3, <2>5 DEF Covered
<1>8. ASSUME NEW w \in Withdrawal, MarkLoad(w) \/ MarkSave(w) PROVE Fresh /\ Covered
  <2>1. /\ UNCHANGED <<balance, earned, clawing, transfer, restored>>
        /\ \A x \in Withdrawal : x # w => req'[x] = req[x]
        /\ req'[w] \in {"marking", "done"}
      BY <1>8 DEF MarkLoad, MarkSave, TypeOK
  <2>2. \A v \in Vendor : Out(v)' \subseteq Out(v) BY <2>1 DEF Out, Sent, Lost
  <2>3. Fresh BY <2>1 DEF CoverInv
  <2> QED BY <1>1, <2>1, <2>2, <2>3
<1>9. ASSUME NEW w \in Withdrawal, NEW outcome \in {"paid", "failed"}, Settle(w, outcome)
      PROVE  Fresh /\ Covered
  <2>1. /\ UNCHANGED <<balance, earned, clawing, req, restored>>
        /\ \A x \in Withdrawal : x # w => transfer'[x] = transfer[x]
        /\ transfer[w] = "accepted" /\ transfer'[w] # "none"
      BY <1>9 DEF Settle, TypeOK
  <2>2. \A v \in Vendor : Out(v)' \subseteq Out(v) BY <2>1 DEF Out, Sent, Lost
  <2>3. Fresh BY <2>1 DEF CoverInv
  <2> QED BY <1>1, <2>1, <2>2, <2>3
<1>10. ASSUME HookStep \/ UNCHANGED vars PROVE Fresh /\ Covered
  <2>1. UNCHANGED <<balance, earned, clawing, req, transfer, restored>>
      BY <1>10 DEF HookStep, HookLoad, HookHandle, HookSave, CreatedChannel, vars
  <2>2. \A v \in Vendor : Out(v)' \subseteq Out(v) BY <2>1 DEF Out, Sent, Lost
  <2>3. Fresh BY <2>1 DEF CoverInv
  <2> QED BY <1>1, <2>1, <2>2, <2>3
<1>11. ASSUME Crash PROVE Fresh /\ Covered
  <2>1. /\ UNCHANGED <<balance, earned, clawing, transfer, restored>>
        /\ \A x \in Withdrawal : req'[x] = req[x] \/ req'[x] = "crashed"
    <3>1. CASE UNCHANGED hook BY <1>11, <3>1 DEF Crash, TypeOK
    <3>2. CASE UNCHANGED req BY <1>11, <3>2 DEF Crash, TypeOK
    <3> QED BY <1>11, <3>1, <3>2 DEF Crash
  <2>2. \A v \in Vendor : Out(v)' \subseteq Out(v) BY <2>1 DEF Out, Sent, Lost
  <2>3. Fresh BY <2>1 DEF CoverInv
  <2> QED BY <1>1, <2>1, <2>2, <2>3
<1> QED BY <1>2, <1>3, <1>4, <1>5, <1>6, <1>7, <1>8, <1>9, <1>10, <1>11
        DEF Next, WalletStep, WithdrawStep, PaystackStep

\* Nothing is withdrawn twice: the transfers a vendor has at Paystack, and what
\* is left in its wallet, never exceed what it earned, for any number of
\* withdrawals, refusals, lost answers and crashes, while no reversal has begun.
THEOREM NothingPaidTwice == Spec => []PaidFromEarnings
<1>1. ASSUME TypeOK, CoverInv PROVE PaidFromEarnings
  <2> SUFFICES ASSUME \A r \in Reversal : clawing[r].pc = "idle", NEW v \in Vendor
               PROVE  balance[v] + SumFunctionOnSet(Amount, Sent(v)) <= earned[v]
      BY DEF PaidFromEarnings
  <2>1. balance[v] + SumFunctionOnSet(Amount, Out(v)) <= earned[v] BY <1>1 DEF CoverInv
  <2>2. Sent(v) \subseteq Out(v) /\ Out(v) \subseteq Withdrawal BY DEF Out, Sent
  <2>3. SumFunctionOnSet(Amount, Sent(v)) <= SumFunctionOnSet(Amount, Out(v))
      BY <2>2, AmountsMonotone
  <2>4. SumFunctionOnSet(Amount, Sent(v)) \in Nat /\ SumFunctionOnSet(Amount, Out(v)) \in Nat
      BY <2>2, AmountsOf
  <2> QED BY <1>1, <2>1, <2>3, <2>4 DEF TypeOK
<1> QED BY <1>1, InitCover, NextCover, TypeCorrect, PTL DEF Spec
=============================================================================
