--------------------------- MODULE CheckoutProofs ---------------------------
(***************************************************************************)
(* Theorems about the checkout, for every number of orders, customers,     *)
(* webhook handlers and verifications and every set of failures.           *)
(***************************************************************************)
EXTENDS Checkout, SumTheorems

\* Who works on a checkout that was answered: a finaliser's call, a charge and
\* a report of it all belong to a call of createOrder that is done.
AnsweredInv ==
    /\ \A a \in Finaliser : call[a].pc # "idle" => buy[call[a].o] = "done"
    /\ \A o \in Order : charge[o] # "none" => method[o] = "card" /\ buy[o] = "done"
    /\ \A o \in Order : buy[o] = "init" => method[o] = "card"
    /\ \A pair \in sent : charge[pair[1]] # "none"

\* What each position of a wallet checkout implies about its debit and its
\* order.
Debited == {"tx", "txSave", "orderSave", "record", "undoDebit", "done"}
NotDebited == {"new", "balance", "deduct", "debit", "undoStock", "undoOrder", "refused"}

WalletInv ==
    \A o \in Order : method[o] = "wallet" =>
      /\ buy[o] \in Debited => taken[o] = 1
      /\ buy[o] \in NotDebited => taken[o] = 0
      /\ buy[o] \notin {"new", "refused", "crashed"} => Exists(o)
      /\ buy[o] \in {"record", "done"} => order[o].paid
      /\ buy[o] \in {"new", "balance", "deduct", "debit"} => ~order[o].paid
      /\ buy[o] = "refused" => ~(Exists(o) /\ order[o].paid)

\* An order is deleted when it holds no stock: not yet, or not any more.
StockFree == {"new", "balance", "deduct", "undoOrder"}

HoldInv ==
    \A o \in Order :
      /\ buy[o] \in StockFree => ~order[o].deducted
      /\ order[o].status = "deleted" => ~order[o].deducted

\* The steps of createOrder a card checkout goes through.
CardSteps == {"new", "tx", "init", "done", "refused", "crashed"}

\* Everything a finaliser of a card order relies on was true when it was read,
\* and a charge once paid stays paid.
CardOf(o) ==
    method[o] = "card" =>
      /\ buy[o] \in CardSteps
      /\ order[o].paid \/ order[o].deducted \/ order[o].recorded \/ tx[o] = "success"
           => charge[o] = "paid"

Backed(o) == method[o] = "wallet" \/ charge[o] = "paid"

CallBacked(a) ==
    /\ call[a].pc = "asked" /\ call[a].answer => charge[call[a].o] = "paid"
    /\ call[a].pc = "claim" => charge[call[a].o] = "paid"
    /\ call[a].pc \in {"pay", "work", "answer", "background"} =>
         /\ call[a].event = "charge.success" => Backed(call[a].o)
         /\ call[a].pc \in {"pay", "work", "background"} \/ call[a].todo # {} =>
              call[a].event = "charge.success"

CardInv ==
    /\ \A o \in Order : CardOf(o)
    /\ \A o \in Order : <<o, "charge.success">> \in sent => charge[o] = "paid"
    /\ \A a \in Finaliser : CallBacked(a)

CheckoutInv == AnsweredInv /\ WalletInv /\ HoldInv /\ CardInv

-----------------------------------------------------------------------------
(* Types                                                                   *)

LEMMA ServingFields ==
    ASSUME TypeOK, NEW a \in Finaliser,
           call[a].pc \in {"pay", "work", "answer", "background"}
    PROVE  call[a] \in Serving
BY DEF TypeOK, CallState, Idle, Asking, Marking

LEMMA MarkingFields ==
    ASSUME TypeOK, NEW a \in Finaliser, call[a].pc \in {"claim", "fail", "fresh"}
    PROVE  call[a] \in Marking
BY DEF TypeOK, CallState, Idle, Asking, Serving

LEMMA AskingFields ==
    ASSUME TypeOK, NEW a \in Finaliser, call[a].pc = "asked"
    PROVE  call[a] \in Asking
BY DEF TypeOK, CallState, Idle, Marking, Serving

\* What is left of a call is a call again.
LEMMA SettleType ==
    ASSUME TypeOK, NEW a \in Finaliser, NEW work \in Work, NEW failed \in BOOLEAN,
           Working(a, work), Settle(a, work, failed)
    PROVE  call' \in [Finaliser -> CallState]
<1>1. call[a] \in Serving BY ServingFields DEF Working
<1>2. ASSUME NEW pc \in {"pay", "work", "answer", "background"}
      PROVE  [call[a] EXCEPT !.todo = call[a].todo \ {work}, !.pc = pc] \in Serving
    BY <1>1 DEF Serving
<1>3. \/ call' = [call EXCEPT ![a] = Idle]
      \/ \E pc \in {"pay", "work", "answer", "background"} :
           call' = [call EXCEPT ![a] =
                      [call[a] EXCEPT !.todo = call[a].todo \ {work}, !.pc = pc]]
    BY <1>1 DEF Settle, Working, TypeOK, Serving
<1> QED BY <1>2, <1>3 DEF TypeOK, CallState

LEMMA LeftType ==
    ASSUME TypeOK, NEW a \in Finaliser, call[a].pc = "answer"
    PROVE  Left(a) \in CallState
BY ServingFields DEF Left, CallState, Serving

LEMMA InitType == Init => TypeOK
BY CheckoutAssumption DEF Init, TypeOK, OrderStatus, TxState, BuyState, CallState, CancelState

\* The order documents keep their shape under every operation on them.
Document == [status: OrderStatus, paid: BOOLEAN, deducted: BOOLEAN, recorded: BOOLEAN]

OrderType == order' \in [Order -> Document]

LEMMA FlagTypes ==
    ASSUME TypeOK, NEW o \in Order, NEW b \in BOOLEAN
    PROVE  /\ order' = [order EXCEPT ![o].deducted = b] => OrderType
           /\ order' = [order EXCEPT ![o].recorded = b] => OrderType
<1> USE DEF Document
<1>1. order[o] \in Document BY DEF TypeOK
<1>2. [order[o] EXCEPT !.deducted = b] \in Document BY <1>1
<1>3. [order[o] EXCEPT !.recorded = b] \in Document BY <1>1
<1>4. ASSUME NEW d \in Document, order' = [order EXCEPT ![o] = d] PROVE OrderType
    BY <1>4 DEF TypeOK, OrderType, Document
<1>5. order' = [order EXCEPT ![o].deducted = b] => OrderType
    BY <1>2, <1>4
<1>6. order' = [order EXCEPT ![o].recorded = b] => OrderType
    BY <1>3, <1>4
<1> QED BY <1>5, <1>6

LEMMA OperationTypes ==
    ASSUME TypeOK, NEW o \in Order
    PROVE  /\ DeleteOrder(o) => OrderType
           /\ UpdateInventory(o) => OrderType
           /\ RestoreInventory(o) => OrderType
           /\ RecordEarnings(o) => OrderType
           /\ UNCHANGED order => OrderType
           /\ Credit(o) => balance' \in [Customer -> Nat]
<1>1. UNCHANGED order => OrderType
    BY DEF TypeOK, OrderType, Document
<1>2. DeleteOrder(o) => OrderType
    BY DEF DeleteOrder, TypeOK, OrderType, Document, OrderStatus
<1>3. UpdateInventory(o) => OrderType
    <2>1. UpdateInventory(o) =>
            \/ UNCHANGED order
            \/ order' = [order EXCEPT ![o].deducted = TRUE]
        BY DEF UpdateInventory
    <2> QED BY <2>1, FlagTypes, <1>1
<1>4. RestoreInventory(o) => OrderType
    <2>1. RestoreInventory(o) =>
            \/ UNCHANGED order
            \/ order' = [order EXCEPT ![o].deducted = FALSE]
        BY DEF RestoreInventory
    <2> QED BY <2>1, FlagTypes, <1>1
<1>5. RecordEarnings(o) => OrderType
    <2>1. RecordEarnings(o) =>
            \/ UNCHANGED order
            \/ order' = [order EXCEPT ![o].recorded = TRUE]
        BY DEF RecordEarnings
    <2> QED BY <2>1, FlagTypes, <1>1
<1>6. Credit(o) => balance' \in [Customer -> Nat]
    <2>1. CustomerOf[o] \in Customer /\ Total[o] \in Nat BY CheckoutAssumption
    <2>2. PICK n \in Nat : n = balance[CustomerOf[o]] + Total[o] BY <2>1 DEF TypeOK
    <2>3. Credit(o) => balance' = [balance EXCEPT ![CustomerOf[o]] = n]
        BY <2>2 DEF Credit
    <2> QED BY <2>3 DEF TypeOK
<1> QED BY <1>1, <1>2, <1>3, <1>4, <1>5, <1>6

LEMMA CreateType ==
    ASSUME TypeOK, NEW o \in Order, Place(o) \/ CreateStep(o) \/ Fail(o)
    PROVE  TypeOK'
<1> USE DEF buyRest, buyFrame, goodsVars, Goto, BuyState
<1>1. ASSUME Place(o) PROVE TypeOK'
    BY <1>1 DEF Place, TypeOK, OrderStatus
<1>2. ASSUME CheckBalance(o) PROVE TypeOK'
    <2>1. OrderType BY <1>2, OperationTypes DEF CheckBalance
    <2> QED BY <1>2, <2>1 DEF CheckBalance, TypeOK, OrderType, Document
<1>3. ASSUME DeductStock(o) PROVE TypeOK'
    <2>1. OrderType BY <1>3, OperationTypes DEF DeductStock
    <2> QED BY <1>3, <2>1 DEF DeductStock, TypeOK, OrderType, Document
<1>4. ASSUME Debit(o) PROVE TypeOK'
    <2>1. CASE balance[CustomerOf[o]] >= Total[o]
        <3>1. CustomerOf[o] \in Customer /\ Total[o] \in Nat BY CheckoutAssumption
        <3>2. PICK n \in Nat : n = balance[CustomerOf[o]] - Total[o]
            BY <2>1, <3>1 DEF TypeOK
        <3>3. balance' = [balance EXCEPT ![CustomerOf[o]] = n]
            BY <1>4, <2>1, <3>2 DEF Debit
        <3>4. taken' = [taken EXCEPT ![o] = 1] /\ buy' = [buy EXCEPT ![o] = "tx"]
            BY <1>4, <2>1 DEF Debit
        <3>5. UNCHANGED <<order, tx, method, call, cancel, charge, sent, acked,
                          missed, failures>>
            BY <1>4 DEF Debit
        <3>6. balance' \in [Customer -> Nat] BY <3>3, <3>2 DEF TypeOK
        <3>7. taken' \in [Order -> 0..1] BY <3>4 DEF TypeOK
        <3> QED BY <3>4, <3>5, <3>6, <3>7 DEF TypeOK
    <2>2. CASE ~(balance[CustomerOf[o]] >= Total[o])
        BY <1>4, <2>2 DEF Debit, TypeOK
    <2> QED BY <2>1, <2>2
<1>5. ASSUME CreateTx(o) \/ SaveTx(o) PROVE TypeOK'
    BY <1>5 DEF CreateTx, SaveTx, TypeOK, TxState, TransactionStatus
<1>6. ASSUME SaveOrder(o) PROVE TypeOK'
    <2>1. OrderType
        <3>1. order[o] \in Document BY DEF TypeOK, Document
        <3>2. [order[o] EXCEPT !.status = "in_review", !.paid = TRUE] \in Document
            BY <3>1 DEF Document, OrderStatus
        <3>3. order' = [order EXCEPT ![o] =
                          [order[o] EXCEPT !.status = "in_review", !.paid = TRUE]]
            BY <1>6 DEF SaveOrder
        <3> QED BY <3>2, <3>3 DEF TypeOK, OrderType, Document
    <2> QED BY <1>6, <2>1 DEF SaveOrder, TypeOK, OrderType, Document
<1>7. ASSUME Record(o) PROVE TypeOK'
    <2>1. OrderType BY <1>7, OperationTypes DEF Record
    <2> QED BY <1>7, <2>1 DEF Record, TypeOK, OrderType, Document
<1>8. ASSUME Fail(o) PROVE TypeOK'
    <2>1. OrderType BY <1>8, OperationTypes DEF Fail
    <2>2. failures' \in 0..MaxFailures
        BY <1>8, CheckoutAssumption DEF Fail, Failure, TypeOK
    <2> QED BY <1>8, <2>1, <2>2 DEF Fail, TypeOK, OrderType, Document
<1>9. ASSUME UndoDebit(o) PROVE TypeOK'
    <2>1. balance' \in [Customer -> Nat] BY <1>9, OperationTypes DEF UndoDebit
    <2> QED BY <1>9, <2>1 DEF UndoDebit, TypeOK
<1>10. ASSUME UndoStock(o) \/ UndoOrder(o) PROVE TypeOK'
    <2>1. OrderType BY <1>10, OperationTypes DEF UndoStock, UndoOrder
    <2> QED BY <1>10, <2>1 DEF UndoStock, UndoOrder, TypeOK, OrderType, Document
<1>11. ASSUME InitPayment(o) PROVE TypeOK'
    BY <1>11 DEF InitPayment, TypeOK
<1> QED BY <1>1, <1>2, <1>3, <1>4, <1>5, <1>6, <1>7, <1>8, <1>9, <1>10, <1>11
        DEF CreateStep

\* What a webhook handler missed is a part of its order.
LEMMA MissType ==
    ASSUME missed \subseteq Order \X Part, NEW a, call[a].o \in Order,
           NEW part \in Part, Miss(a, part)
    PROVE  missed' \subseteq Order \X Part
<1>1. <<call[a].o, part>> \in Order \X Part OBVIOUS
<1>2. missed' \subseteq missed \cup {<<call[a].o, part>>} BY ONLY Miss(a, part) DEF Miss
<1> QED BY <1>1, <1>2

LEMMA FinaliseType ==
    ASSUME TypeOK, NEW a \in Finaliser, FinaliseStep(a) \/ FinaliseError(a)
    PROVE  TypeOK'
<1> USE DEF callFrame, paystackVars, goodsVars
<1>1. ASSUME Pay(a) PROVE TypeOK'
    <2>1. call[a] \in Serving BY <1>1, ServingFields DEF Pay
    <2>2. [call[a] EXCEPT !.pc = "work", !.todo = Work] \in Serving
        BY <2>1 DEF Serving
    <2>3. [call[a] EXCEPT !.pc = "answer"] \in Serving BY <2>1 DEF Serving
    <2>4. \/ call' = [call EXCEPT ![a] = [call[a] EXCEPT !.pc = "work", !.todo = Work]]
          \/ call' = [call EXCEPT ![a] = [call[a] EXCEPT !.pc = "answer"]]
        BY <1>1 DEF Pay, Step
    <2>5. call' \in [Finaliser -> CallState]
        BY <2>2, <2>3, <2>4 DEF TypeOK, CallState
    <2>6. OrderType BY <1>1, <2>1 DEF Pay, TypeOK, OrderType, Document, OrderStatus, Serving
    <2> QED BY <1>1, <2>5, <2>6 DEF Pay, TypeOK, OrderType, Document
<1>2. ASSUME FinaliseRecord(a) \/ FinaliseDeduct(a) \/ FinaliseShort(a) PROVE TypeOK'
    <2>1. call[a] \in Serving
        BY <1>2, ServingFields DEF FinaliseRecord, FinaliseDeduct, FinaliseShort, Working
    <2>2. call[a].o \in Order BY <2>1 DEF Serving
    <2>3. OrderType
        BY <1>2, <2>2, OperationTypes DEF FinaliseRecord, FinaliseDeduct, FinaliseShort
    <2>4. call' \in [Finaliser -> CallState]
        BY <1>2, SettleType DEF FinaliseRecord, FinaliseDeduct, FinaliseShort, Work
    <2>5. missed' \subseteq Order \X Part
        <3>1. missed' = missed \/ Miss(a, "deduct")
            BY <1>2 DEF FinaliseRecord, FinaliseDeduct, FinaliseShort
        <3>2. missed \subseteq Order \X Part /\ "deduct" \in Part BY DEF TypeOK, Part, Work
        <3> QED BY <2>2, <3>1, <3>2, MissType
    <2> QED BY <1>2, <2>2, <2>3, <2>4, <2>5
            DEF FinaliseRecord, FinaliseDeduct, FinaliseShort, TypeOK, OrderType, Document
<1>3. ASSUME FinaliseError(a) PROVE TypeOK'
    <2>1. call[a] \in Serving BY <1>3, ServingFields DEF FinaliseError, Working
    <2>2. call[a].o \in Order BY <2>1 DEF Serving
    <2>3. OrderType BY <1>3, <2>2, OperationTypes DEF FinaliseError
    <2>4. call' \in [Finaliser -> CallState]
        <3>1. [call[a] EXCEPT !.pc = "answer"] \in CallState BY <2>1 DEF Serving, CallState
        <3>2. CASE Step(a, "answer") BY <3>1, <3>2 DEF Step, TypeOK
        <3>3. ASSUME NEW work \in Work, Working(a, work), Settle(a, work, TRUE)
              PROVE  call' \in [Finaliser -> CallState]
            BY <3>3, SettleType
        <3> QED BY <1>3, <3>2, <3>3 DEF FinaliseError, Work
    <2>5. missed' \subseteq Order \X Part
        <3>1. PICK part \in Part : Miss(a, part) BY <1>3 DEF FinaliseError, Part, Work
        <3>2. missed \subseteq Order \X Part BY DEF TypeOK
        <3> QED BY <2>2, <3>1, <3>2, MissType
    <2>6. failures' \in 0..MaxFailures
        BY <1>3, CheckoutAssumption DEF FinaliseError, Failure, TypeOK
    <2> QED BY <1>3, <2>3, <2>4, <2>5, <2>6 DEF FinaliseError, TypeOK, OrderType, Document
<1> QED BY <1>1, <1>2, <1>3 DEF FinaliseStep

LEMMA HookType ==
    ASSUME TypeOK, NEW h \in Webhook,
           (\E o \in Order, event \in Event : HookLoad(h, o, event)) \/ HookSave(h)
    PROVE  TypeOK'
<1> USE DEF callFrame, paystackVars, goodsVars
<1> h \in Finaliser BY DEF Finaliser
<1>1. ASSUME NEW o \in Order, NEW event \in Event, HookLoad(h, o, event) PROVE TypeOK'
    <2>1. [pc |-> FirstStep(event), o |-> o, event |-> event, loaded |-> tx[o],
           todo |-> {}] \in Serving
        BY DEF Serving, FirstStep, TypeOK
    <2> QED BY <1>1, <2>1 DEF HookLoad, TypeOK, CallState
<1>2. ASSUME HookSave(h) PROVE TypeOK'
    <2>1. call[h] \in Serving BY <1>2, ServingFields DEF HookSave
    <2>2. Left(h) \in CallState BY <1>2, LeftType DEF HookSave
    <2>3. PICK c \in CallState : c = Left(h) BY <2>2
    <2>4. call' = [call EXCEPT ![h] = c] BY <1>2, <2>3 DEF HookSave
    <2>5. tx' \in [Order -> TxState]
        BY <1>2, <2>1 DEF HookSave, Outcome, TypeOK, TxState, TransactionStatus
    <2>6. acked' \subseteq Order \X Event BY <1>2, <2>1 DEF HookSave, TypeOK, Serving
    <2> QED BY <1>2, <2>4, <2>5, <2>6 DEF HookSave, TypeOK
<1> QED BY <1>1, <1>2

LEMMA VerifyType ==
    ASSUME TypeOK, NEW v \in Verifier,
           (\E o \in Order : VerifyLoad(v, o)) \/ VerifyCarriedOn(v)
    PROVE  TypeOK'
<1> USE DEF callFrame, paystackVars, goodsVars
<1> v \in Finaliser BY DEF Finaliser
<1>1. ASSUME NEW o \in Order PROVE Finalising(o) \in Serving
    BY DEF Finalising, Serving, Event, TxState, TransactionStatus
<1>2. ASSUME NEW o \in Order, VerifyLoad(v, o) PROVE TypeOK'
    <2>1. [pc |-> "asked", o |-> o, answer |-> RemoteSuccess(o)] \in Asking
        BY DEF Asking, RemoteSuccess
    <2>2. PICK c \in CallState : call' = [call EXCEPT ![v] = c]
        BY <1>1, <1>2, <2>1 DEF VerifyLoad, CallState
    <2> QED BY <1>2, <2>2 DEF VerifyLoad, TypeOK
<1>3. ASSUME VerifyAnswered(v) PROVE TypeOK'
    <2>1. call[v] \in Asking BY <1>3, AskingFields DEF VerifyAnswered
    <2>2. PICK pc \in {"claim", "fail", "fresh"} :
            call' = [call EXCEPT ![v] = [pc |-> pc, o |-> call[v].o,
                                         loaded |-> tx[call[v].o]]]
        BY <1>3 DEF VerifyAnswered
    <2>3. [pc |-> pc, o |-> call[v].o, loaded |-> tx[call[v].o]] \in Marking
        BY <2>1 DEF Marking, Asking, TypeOK
    <2> QED BY <1>3, <2>2, <2>3 DEF VerifyAnswered, TypeOK, CallState
<1>4. ASSUME VerifyClaim(v) \/ VerifyFail(v) PROVE TypeOK'
    <2>1. call[v] \in Marking BY <1>4, MarkingFields DEF VerifyClaim, VerifyFail
    <2>2. [call[v] EXCEPT !.pc = "fresh"] \in Marking BY <2>1 DEF Marking
    <2>3. call' = [call EXCEPT ![v] = [call[v] EXCEPT !.pc = "fresh"]]
        BY <1>4 DEF VerifyClaim, VerifyFail, Step
    <2>4. tx' \in [Order -> TxState]
        BY <1>4, <2>1 DEF VerifyClaim, VerifyFail, TypeOK, TxState, TransactionStatus
    <2> QED BY <1>4, <2>2, <2>3, <2>4 DEF VerifyClaim, VerifyFail, TypeOK, CallState
<1>5. ASSUME VerifyFresh(v) PROVE TypeOK'
    <2>1. call[v] \in Marking BY <1>5, MarkingFields DEF VerifyFresh
    <2>2. call[v].o \in Order BY <2>1 DEF Marking
    <2>3. PICK c \in CallState : call' = [call EXCEPT ![v] = c]
        BY <1>1, <1>5, <2>2 DEF VerifyFresh, CallState
    <2> QED BY <1>5, <2>3 DEF VerifyFresh, TypeOK
<1>6. ASSUME VerifyEnd(v) PROVE TypeOK'
    <2>1. PICK c \in CallState : c = Left(v) BY <1>6, LeftType DEF VerifyEnd
    <2>2. call' = [call EXCEPT ![v] = c] BY <1>6, <2>1 DEF VerifyEnd
    <2> QED BY <1>6, <2>2 DEF VerifyEnd, TypeOK
<1> QED BY <1>2, <1>3, <1>4, <1>5, <1>6 DEF VerifyCarriedOn

LEMMA CancelType ==
    ASSUME TypeOK, NEW o \in Order, CancelLoad(o) \/ CancelStep(o)
    PROVE  TypeOK'
<1> USE DEF cancelFrame, paystackVars, goodsVars, CancelTo, CancelState
<1>1. ASSUME CancelLoad(o) PROVE TypeOK'
    BY <1>1 DEF CancelLoad, TypeOK
<1>2. ASSUME CancelCredit(o) PROVE TypeOK'
    <2>1. balance' \in [Customer -> Nat] BY <1>2, OperationTypes DEF CancelCredit
    <2> QED BY <1>2, <2>1 DEF CancelCredit, TypeOK
<1>3. ASSUME CancelSave(o) PROVE TypeOK'
    <2>1. \/ UNCHANGED order
          \/ order' = [order EXCEPT ![o].status = "cancelled"]
        BY <1>3 DEF CancelSave
    <2>2. OrderType BY <2>1 DEF TypeOK, OrderType, Document, OrderStatus
    <2> QED BY <1>3, <2>2 DEF CancelSave, TypeOK, OrderType, Document
<1>4. ASSUME CancelRestore(o) PROVE TypeOK'
    <2>1. OrderType BY <1>4, OperationTypes DEF CancelRestore
    <2> QED BY <1>4, <2>1 DEF CancelRestore, TypeOK, OrderType, Document
<1> QED BY <1>1, <1>2, <1>3, <1>4 DEF CancelStep

LEMMA EnvironmentType ==
    ASSUME TypeOK,
           \/ Crash
           \/ \E o \in Order : Charge(o) \/ Decline(o) \/ \E event \in Event : HookIgnore(o, event)
    PROVE  TypeOK'
<1>1. ASSUME Crash PROVE TypeOK'
    <2>1. failures' \in 0..MaxFailures
        BY <1>1, CheckoutAssumption DEF Crash, Failure, TypeOK
    <2>2. /\ buy' \in [Order -> BuyState]
          /\ call' \in [Finaliser -> CallState]
          /\ cancel' \in [Order -> CancelState]
        BY <1>1 DEF Crash, Goto, CancelTo, TypeOK, BuyState, CallState, CancelState
    <2> QED BY <1>1, <2>1, <2>2 DEF Crash, TypeOK, goodsVars, paystackVars
<1>2. ASSUME NEW o \in Order, Charge(o) PROVE TypeOK'
    BY <1>2 DEF Charge, TypeOK, Event, goodsVars
<1>3. ASSUME NEW o \in Order, Decline(o) PROVE TypeOK'
    <2>1. failures' \in 0..MaxFailures
        BY <1>3, CheckoutAssumption DEF Decline, Failure, TypeOK
    <2> QED BY <1>3, <2>1 DEF Decline, TypeOK, Event, goodsVars
<1>4. ASSUME NEW o \in Order, NEW event \in Event, HookIgnore(o, event) PROVE TypeOK'
    <2>1. failures' \in 0..MaxFailures
        BY <1>4, CheckoutAssumption DEF HookIgnore, Failure, TypeOK
    <2>2. acked' \subseteq Order \X Event /\ missed' \subseteq Order \X Part
        BY <1>4 DEF HookIgnore, TypeOK, Part
    <2> QED BY <1>4, <2>1, <2>2 DEF HookIgnore, TypeOK, goodsVars, paystackVars
<1> QED BY <1>1, <1>2, <1>3, <1>4

LEMMA NextType == ASSUME TypeOK, [Next]_vars PROVE TypeOK'
<1>1. ASSUME UNCHANGED vars PROVE TypeOK'
    BY <1>1 DEF vars, goodsVars, paystackVars, TypeOK
<1> QED BY <1>1, CreateType, FinaliseType, HookType, VerifyType, CancelType,
           EnvironmentType, CheckoutAssumption DEF Next

\* Every variable keeps its type; the stock is a matter of StockAccounted.
THEOREM TypeCorrect == Spec => []TypeOK
<1> QED BY InitType, NextType, PTL DEF Spec

-----------------------------------------------------------------------------
(* Who works on an answered checkout                                       *)

CallOf(a) ==
    \/ FinaliseStep(a) \/ FinaliseError(a)
    \/ a \in Webhook /\ HookSave(a)
    \/ a \in Verifier /\ VerifyCarriedOn(a)

CallKept(a) ==
    \E c \in CallState : /\ call' = [call EXCEPT ![a] = c]
                         /\ c.pc # "idle" => c.o = call[a].o

\* A call keeps the order it was started for.
LEMMA CallKeepsOrder ==
    ASSUME TypeOK, NEW a \in Finaliser, CallOf(a)
    PROVE  /\ UNCHANGED <<buy, method, charge, sent, taken>>
           /\ call[a].pc # "idle"
           /\ CallKept(a)
<1> USE DEF callFrame, paystackVars, CallKept
<1>1. TypeOK'
    BY NextType, CheckoutAssumption DEF CallOf, Next
<1>2. ASSUME Pay(a) PROVE call[a].pc # "idle" /\ CallKept(a)
    <2>1. call[a] \in Serving BY <1>2, ServingFields DEF Pay
    <2> DEFINE q == [call[a] EXCEPT !.pc = "work", !.todo = Work]
               r == [call[a] EXCEPT !.pc = "answer"]
    <2>2. call' = [call EXCEPT ![a] = q] \/ call' = [call EXCEPT ![a] = r]
        BY <1>2 DEF Pay, Step
    <2>3. q \in CallState /\ q.o = call[a].o BY <2>1 DEF CallState, Serving
    <2>4. r \in CallState /\ r.o = call[a].o BY <2>1 DEF CallState, Serving
    <2>5. call[a].pc # "idle" BY <1>2 DEF Pay
    <2> HIDE DEF q, r
    <2> QED BY ONLY <2>2, <2>3, <2>4, <2>5 DEF CallKept
<1>3. ASSUME NEW work \in Work, NEW failed \in BOOLEAN, Working(a, work),
             Settle(a, work, failed)
      PROVE  call[a].pc # "idle" /\ CallKept(a)
    <2>1. call[a] \in Serving BY <1>3, ServingFields DEF Working
    <2>2. \/ call' = [call EXCEPT ![a] = Idle]
          \/ \E pc \in {"pay", "work", "answer", "background"} :
               call' = [call EXCEPT ![a] =
                          [call[a] EXCEPT !.todo = call[a].todo \ {work}, !.pc = pc]]
        BY <1>3, <2>1 DEF Settle, Working, TypeOK, Serving
    <2> QED BY <1>3, <2>1, <2>2 DEF Working, CallState, Serving, Idle
<1>4. ASSUME call[a].pc = "answer", call' = [call EXCEPT ![a] = Left(a)]
      PROVE  CallKept(a)
    <2>1. call[a] \in Serving BY <1>4, ServingFields
    <2>2. Left(a) \in CallState BY <1>4, LeftType
    <2>3. Left(a).pc # "idle" => Left(a).o = call[a].o
        BY <2>1 DEF Left, Serving, Idle
    <2> QED BY <1>4, <2>2, <2>3
<1>5. ASSUME VerifyAnswered(a) PROVE call[a].pc # "idle" /\ CallKept(a)
    <2>1. call[a] \in Asking BY <1>5, AskingFields DEF VerifyAnswered
    <2>2. PICK pc \in {"claim", "fail", "fresh"} :
            call' = [call EXCEPT ![a] = [pc |-> pc, o |-> call[a].o,
                                         loaded |-> tx[call[a].o]]]
        BY <1>5 DEF VerifyAnswered
    <2>3. [pc |-> pc, o |-> call[a].o, loaded |-> tx[call[a].o]] \in CallState
        BY <2>1 DEF Marking, Asking, TypeOK, CallState
    <2> QED BY <1>5, <2>2, <2>3 DEF VerifyAnswered
<1>6. ASSUME VerifyClaim(a) \/ VerifyFail(a) PROVE call[a].pc # "idle" /\ CallKept(a)
    <2>1. call[a] \in Marking BY <1>6, MarkingFields DEF VerifyClaim, VerifyFail
    <2>2. [call[a] EXCEPT !.pc = "fresh"] \in CallState
        BY <2>1 DEF Marking, CallState
    <2>3. [call[a] EXCEPT !.pc = "fresh"].o = call[a].o BY <2>1 DEF Marking
    <2>4. call' = [call EXCEPT ![a] = [call[a] EXCEPT !.pc = "fresh"]]
        BY <1>6 DEF VerifyClaim, VerifyFail, Step
    <2> QED BY <1>6, <2>2, <2>3, <2>4 DEF VerifyClaim, VerifyFail
<1>7. ASSUME VerifyFresh(a) PROVE call[a].pc # "idle" /\ CallKept(a)
    <2>1. call[a] \in Marking BY <1>7, MarkingFields DEF VerifyFresh
    <2>2. Finalising(call[a].o) \in CallState
        BY <2>1 DEF Marking, Finalising, CallState, Serving, Event, TxState,
                    TransactionStatus
    <2>3. Finalising(call[a].o).o = call[a].o BY DEF Finalising
    <2>4. \/ call' = [call EXCEPT ![a] = Finalising(call[a].o)]
          \/ call' = [call EXCEPT ![a] = Idle]
        BY <1>7 DEF VerifyFresh
    <2>5. Idle \in CallState /\ Idle.pc = "idle" BY DEF CallState, Idle
    <2> QED BY <1>7, <2>2, <2>3, <2>4, <2>5 DEF VerifyFresh
<1>8. CASE FinaliseStep(a)
    <2>1. call[a].pc # "idle" /\ CallKept(a)
        BY <1>2, <1>3, <1>8 DEF FinaliseStep, FinaliseRecord, FinaliseDeduct,
                                FinaliseShort, Work
    <2>2. UNCHANGED <<buy, method, charge, sent, taken>>
        BY <1>8 DEF FinaliseStep, Pay, FinaliseRecord, FinaliseDeduct, FinaliseShort
    <2> QED BY <2>1, <2>2
<1>11. CASE FinaliseError(a)
    <2>1. ASSUME call[a].pc = "pay", Step(a, "answer")
          PROVE  call[a].pc # "idle" /\ CallKept(a)
        <3>1. call[a] \in Serving BY <2>1, ServingFields
        <3> DEFINE r == [call[a] EXCEPT !.pc = "answer"]
        <3>2. r \in CallState /\ r.o = call[a].o BY <3>1 DEF CallState, Serving
        <3>3. call' = [call EXCEPT ![a] = r] /\ call[a].pc # "idle" BY <2>1 DEF Step
        <3> HIDE DEF r
        <3> QED BY ONLY <3>2, <3>3 DEF CallKept
    <2>2. call[a].pc # "idle" /\ CallKept(a)
        BY <1>3, <1>11, <2>1 DEF FinaliseError, Work
    <2>3. UNCHANGED <<buy, method, charge, sent, taken>> BY <1>11 DEF FinaliseError
    <2> QED BY <2>2, <2>3
<1>9. CASE a \in Webhook /\ HookSave(a)
    <2>1. call[a].pc # "idle" /\ CallKept(a) BY <1>4, <1>9 DEF HookSave
    <2>2. UNCHANGED <<buy, method, charge, sent, taken>> BY <1>9 DEF HookSave
    <2> QED BY <2>1, <2>2
<1>10. CASE VerifyCarriedOn(a)
    <2>1. call[a].pc # "idle" /\ CallKept(a)
        BY <1>4, <1>5, <1>6, <1>7, <1>10 DEF VerifyCarriedOn, VerifyEnd
    <2>2. UNCHANGED <<buy, method, charge, sent, taken>>
        BY <1>10 DEF VerifyCarriedOn, VerifyAnswered, VerifyClaim, VerifyFail,
                    VerifyFresh, VerifyEnd
    <2> QED BY <2>1, <2>2
<1> QED BY <1>8, <1>9, <1>10, <1>11 DEF CallOf

CreateMoved(o) ==
    \E pc \in BuyState \ {"new"} : /\ buy' = [buy EXCEPT ![o] = pc]
                                   /\ pc = "init" => method[o] = "card"

\* A step of createOrder moves its own order on and nobody else's.
LEMMA CreateMoves ==
    ASSUME TypeOK, NEW o \in Order,
           Place(o) \/ (CreateStep(o) /\ ~InitPayment(o)) \/ Fail(o)
    PROVE  /\ UNCHANGED <<call, cancel, charge, method, sent>>
           /\ buy[o] \notin {"done", "init"}
           /\ CreateMoved(o)
<1> USE DEF buyRest, buyFrame, Goto, BuyState, CreateMoved
<1>1. UNCHANGED <<call, cancel, charge, method, sent>>
    BY DEF Place, CreateStep, CheckBalance, DeductStock, Debit, CreateTx, SaveTx,
           SaveOrder, Record, Fail, UndoDebit, UndoStock, UndoOrder
<1>2. buy[o] \notin {"done", "init"}
    BY DEF Place, CreateStep, CheckBalance, DeductStock, Debit, CreateTx, SaveTx,
           SaveOrder, Record, Fail, UndoDebit, UndoStock, UndoOrder
<1>3. CreateMoved(o)
    <2>1. CASE Place(o) \/ CheckBalance(o) \/ DeductStock(o) \/ Debit(o)
        BY <2>1 DEF Place, CheckBalance, DeductStock, Debit
    <2>2. CASE CreateTx(o)
        <3>1. CASE method[o] = "wallet"
            <4>1. buy' = [buy EXCEPT ![o] = "txSave"] BY <2>2, <3>1 DEF CreateTx
            <4>2. "txSave" \in BuyState \ {"new"} /\ "txSave" # "init" OBVIOUS
            <4> QED BY <4>1, <4>2
        <3>2. CASE method[o] = "card"
            <4>1. buy' = [buy EXCEPT ![o] = "init"] BY <2>2, <3>2 DEF CreateTx
            <4> QED BY <3>2, <4>1
        <3> QED BY <3>1, <3>2 DEF TypeOK
    <2>3. CASE SaveTx(o) \/ SaveOrder(o) \/ Record(o) \/ Fail(o)
        BY <2>3 DEF SaveTx, SaveOrder, Record, Fail
    <2>4. CASE UndoDebit(o) \/ UndoStock(o) \/ UndoOrder(o)
        BY <2>4 DEF UndoDebit, UndoStock, UndoOrder
    <2> QED BY <2>1, <2>2, <2>3, <2>4 DEF CreateStep
<1> QED BY <1>1, <1>2, <1>3

LEMMA NextAnswered ==
    ASSUME TypeOK, AnsweredInv, [Next]_vars
    PROVE  AnsweredInv'
<1> USE DEF Finaliser
<1>1. ASSUME NEW o \in Order, Place(o) \/ (CreateStep(o) /\ ~InitPayment(o)) \/ Fail(o)
      PROVE  AnsweredInv'
    <2>1. PICK pc \in BuyState \ {"new"} :
            buy' = [buy EXCEPT ![o] = pc] /\ (pc = "init" => method[o] = "card")
        <3>1. CreateMoved(o) BY <1>1, CreateMoves
        <3> QED BY <3>1 DEF CreateMoved
    <2>2. UNCHANGED <<call, charge, method, sent>> /\ buy[o] # "done"
        BY <1>1, CreateMoves
    <2> QED BY <2>1, <2>2 DEF AnsweredInv, TypeOK
<1>2. ASSUME NEW o \in Order, InitPayment(o) PROVE AnsweredInv'
    BY <1>2 DEF InitPayment, Goto, AnsweredInv, TypeOK
<1>3. ASSUME NEW a \in Finaliser, CallOf(a) PROVE AnsweredInv'
    <2>1. PICK c \in CallState : /\ call' = [call EXCEPT ![a] = c]
                                 /\ c.pc # "idle" => c.o = call[a].o
        <3>1. CallKept(a) BY <1>3, CallKeepsOrder
        <3> QED BY <3>1 DEF CallKept
    <2>2. UNCHANGED <<buy, method, charge, sent>> /\ call[a].pc # "idle"
        BY <1>3, CallKeepsOrder
    <2> QED BY <2>1, <2>2 DEF AnsweredInv, TypeOK
<1>4. ASSUME NEW h \in Webhook, NEW o \in Order, NEW event \in Event, HookLoad(h, o, event)
      PROVE  AnsweredInv'
    <2>1. buy[o] = "done" BY <1>4 DEF HookLoad, AnsweredInv
    <2> QED BY <1>4, <2>1 DEF HookLoad, callFrame, paystackVars, AnsweredInv, TypeOK
<1>5. ASSUME NEW v \in Verifier, NEW o \in Order, VerifyLoad(v, o) PROVE AnsweredInv'
    <2>1. buy[o] = "done" /\ UNCHANGED <<buy, method, charge, sent>>
        BY <1>5 DEF VerifyLoad, callFrame, paystackVars
    <2>2. CASE tx[o] = "success"
        <3>1. call' = [call EXCEPT ![v] = Finalising(o)] BY <1>5, <2>2 DEF VerifyLoad
        <3> QED BY <2>1, <3>1 DEF Finalising, AnsweredInv, TypeOK
    <2>3. CASE tx[o] # "success"
        <3>1. call' = [call EXCEPT ![v] =
                         [pc |-> "asked", o |-> o, answer |-> RemoteSuccess(o)]]
            BY <1>5, <2>3 DEF VerifyLoad
        <3> QED BY <2>1, <3>1 DEF AnsweredInv, TypeOK
    <2> QED BY <2>2, <2>3
<1>6. ASSUME NEW o \in Order,
             Charge(o) \/ Decline(o) \/ \E event \in Event : HookIgnore(o, event)
      PROVE  AnsweredInv'
    <2>1. CASE Charge(o) \/ Decline(o)
        BY <2>1 DEF Charge, Decline, AnsweredInv, TypeOK, paystackVars
    <2>2. CASE \E event \in Event : HookIgnore(o, event)
        <3>1. UNCHANGED <<call, buy, method, charge, sent>>
            BY <2>2 DEF HookIgnore, paystackVars
        <3> QED BY <3>1 DEF AnsweredInv
    <2> QED BY <1>6, <2>1, <2>2
<1>7. ASSUME Crash PROVE AnsweredInv'
    <2>1. UNCHANGED <<method, charge, sent>> BY <1>7 DEF Crash, paystackVars
    <2>2. ASSUME NEW o \in Order, buy[o] \notin {"new", "done", "refused", "crashed"},
                 buy' = [buy EXCEPT ![o] = "crashed"], UNCHANGED call
          PROVE  AnsweredInv'
        BY <2>1, <2>2 DEF AnsweredInv, TypeOK
    <2>3. ASSUME NEW a \in Finaliser, call' = [call EXCEPT ![a] = Idle], UNCHANGED buy
          PROVE  AnsweredInv'
        BY <2>1, <2>3 DEF AnsweredInv, TypeOK, Idle
    <2>4. ASSUME UNCHANGED <<buy, call>> PROVE AnsweredInv'
        BY <2>1, <2>4 DEF AnsweredInv
    <2> QED BY <1>7, <2>2, <2>3, <2>4 DEF Crash, Goto
<1>8. ASSUME (\E o \in Canceller : CancelLoad(o) \/ CancelStep(o)) \/ UNCHANGED vars
      PROVE  AnsweredInv'
    <2>1. UNCHANGED <<call, buy, charge, method, sent>>
        BY <1>8 DEF CancelLoad, CancelStep, CancelCredit, CancelSave, CancelRestore,
                    cancelFrame, paystackVars, vars
    <2> QED BY <2>1 DEF AnsweredInv
<1> QED BY <1>1, <1>2, <1>3, <1>4, <1>5, <1>6, <1>7, <1>8 DEF Next, CallOf

-----------------------------------------------------------------------------
(* The wallet                                                              *)

\* Finalising and cancelling change no debit, delete no order and take back
\* no payment.
LEMMA LaterSteps ==
    ASSUME TypeOK, AnsweredInv,
           \/ \E a \in Finaliser : CallOf(a)
           \/ \E h \in Webhook, o \in Order, event \in Event : HookLoad(h, o, event)
           \/ \E v \in Verifier, o \in Order : VerifyLoad(v, o)
           \/ \E o \in Canceller : CancelLoad(o) \/ CancelStep(o)
    PROVE  /\ UNCHANGED <<buy, method, charge, sent, taken>>
           /\ \A o \in Order :
                /\ Exists(o)' <=> Exists(o)
                /\ order[o].paid => order'[o].paid
                /\ order'[o].paid => order[o].paid \/ buy[o] = "done"
                /\ order'[o].deducted => order[o].deducted \/ (Exists(o) /\ buy[o] = "done")
                /\ order'[o].status = "deleted" => order[o].status = "deleted"
<1> USE DEF callFrame, cancelFrame, paystackVars, goodsVars
<1> DEFINE Later ==
      \A o \in Order :
        /\ Exists(o)' <=> Exists(o)
        /\ order[o].paid => order'[o].paid
        /\ order'[o].paid => order[o].paid \/ buy[o] = "done"
        /\ order'[o].deducted => order[o].deducted \/ (Exists(o) /\ buy[o] = "done")
        /\ order'[o].status = "deleted" => order[o].status = "deleted"
<1>1. ASSUME UNCHANGED order PROVE Later
    BY <1>1 DEF Exists
<1>2. ASSUME NEW a \in Finaliser, CallOf(a) PROVE Later
    <2>1. CASE Pay(a)
        <3>1. call[a] \in Serving BY <2>1, ServingFields DEF Pay
        <3>2. call[a].o \in Order /\ buy[call[a].o] = "done"
            BY <2>1, <3>1 DEF Pay, Serving, AnsweredInv
        <3>3. \/ UNCHANGED order
              \/ Exists(call[a].o) /\ order' = [order EXCEPT ![call[a].o].status = "in_review",
                                                          ![call[a].o].paid = TRUE]
            BY <2>1 DEF Pay
        <3> QED BY <1>1, <3>2, <3>3 DEF Exists, TypeOK
    <2>2. CASE FinaliseRecord(a)
        <3>1. UNCHANGED order \/ order' = [order EXCEPT ![call[a].o].recorded = TRUE]
            BY <2>2 DEF FinaliseRecord, RecordEarnings
        <3>2. call[a] \in Serving BY <2>2, ServingFields DEF FinaliseRecord, Working
        <3> QED BY <1>1, <3>1, <3>2 DEF Exists, TypeOK, Serving
    <2>3. CASE FinaliseDeduct(a)
        <3>1. \/ UNCHANGED order
              \/ Exists(call[a].o) /\ order' = [order EXCEPT ![call[a].o].deducted = TRUE]
            BY <2>3 DEF FinaliseDeduct, UpdateInventory, MayDeduct
        <3>2. call[a] \in Serving BY <2>3, ServingFields DEF FinaliseDeduct, Working
        <3>3. call[a].o \in Order /\ buy[call[a].o] = "done"
            BY <2>3, <3>2 DEF FinaliseDeduct, Working, Serving, AnsweredInv
        <3> QED BY <1>1, <3>1, <3>3 DEF Exists, TypeOK
    <2>5. CASE FinaliseError(a)
        <3>1. UNCHANGED order \/ order' = [order EXCEPT ![call[a].o].recorded = TRUE]
            BY <2>5 DEF FinaliseError, RecordEarnings
        <3>2. call[a] \in Serving BY <2>5, ServingFields DEF FinaliseError, Working
        <3> QED BY <1>1, <3>1, <3>2 DEF Exists, TypeOK, Serving
    <2>4. CASE ~(Pay(a) \/ FinaliseRecord(a) \/ FinaliseDeduct(a) \/ FinaliseError(a))
        <3>1. UNCHANGED order
            BY <1>2, <2>4 DEF CallOf, FinaliseStep, FinaliseShort, HookSave,
               VerifyCarriedOn, VerifyAnswered, VerifyClaim, VerifyFail, VerifyFresh,
               VerifyEnd
        <3> QED BY <1>1, <3>1
    <2> QED BY <2>1, <2>2, <2>3, <2>4, <2>5
<1>3. ASSUME NEW o \in Order, CancelLoad(o) \/ CancelStep(o) PROVE Later
    <2>1. \/ UNCHANGED order
          \/ Exists(o) /\ order' = [order EXCEPT ![o].status = "cancelled"]
          \/ order' = [order EXCEPT ![o].deducted = FALSE]
        BY <1>3 DEF CancelLoad, CancelStep, CancelCredit, CancelSave, CancelRestore,
                    RestoreInventory
    <2> QED BY <1>1, <2>1 DEF Exists, TypeOK
<1>4. Later
    BY <1>1, <1>2, <1>3, CheckoutAssumption DEF HookLoad, VerifyLoad
<1>5. UNCHANGED <<buy, method, charge, sent, taken>>
    <2>1. ASSUME NEW a \in Finaliser, CallOf(a)
          PROVE  UNCHANGED <<buy, method, charge, sent, taken>>
        BY <2>1, CallKeepsOrder
    <2> QED BY <2>1 DEF HookLoad, VerifyLoad, CancelLoad, CancelStep, CancelCredit,
                        CancelSave, CancelRestore
<1> QED BY <1>4, <1>5

WalletOf(o) ==
    method[o] = "wallet" =>
      /\ buy[o] \in Debited => taken[o] = 1
      /\ buy[o] \in NotDebited => taken[o] = 0
      /\ buy[o] \notin {"new", "refused", "crashed"} => Exists(o)
      /\ buy[o] \in {"record", "done"} => order[o].paid
      /\ buy[o] \in {"new", "balance", "deduct", "debit"} => ~order[o].paid
      /\ buy[o] = "refused" => ~(Exists(o) /\ order[o].paid)

\* A step of createOrder touches no other order and debit.
LEMMA CreateLocal ==
    ASSUME TypeOK, NEW o \in Order, Place(o) \/ CreateStep(o) \/ Fail(o),
           NEW p \in Order \ {o}
    PROVE  /\ order'[p] = order[p] /\ taken'[p] = taken[p]
           /\ buy'[p] = buy[p] /\ method'[p] = method[p]
<1> USE DEF buyRest, buyFrame, goodsVars, Goto
<1>1. order'[p] = order[p]
    BY DEF Place, CreateStep, CheckBalance, DeductStock, Debit, CreateTx, SaveTx,
           SaveOrder, Record, Fail, UndoDebit, UndoStock, UndoOrder, InitPayment,
           UpdateInventory, RestoreInventory, RecordEarnings, DeleteOrder, TypeOK
<1>2. taken'[p] = taken[p] /\ buy'[p] = buy[p] /\ method'[p] = method[p]
    BY DEF Place, CreateStep, CheckBalance, DeductStock, Debit, CreateTx, SaveTx,
           SaveOrder, Record, Fail, UndoDebit, UndoStock, UndoOrder, InitPayment, TypeOK
<1> QED BY <1>1, <1>2

LEMMA CreateWallet ==
    ASSUME TypeOK, NEW o \in Order, Place(o) \/ CreateStep(o) \/ Fail(o),
           WalletOf(o), buy[o] = "init" => method[o] = "card"
    PROVE  WalletOf(o)'
<1> USE DEF WalletOf, Debited, NotDebited, buyRest, buyFrame, goodsVars, Goto,
            Exists
<1>1. CASE Place(o) BY <1>1 DEF Place, TypeOK
<1>2. CASE CheckBalance(o)
    <2>1. \/ order' = [order EXCEPT ![o].status = "deleted"]
             /\ buy' = [buy EXCEPT ![o] = "refused"]
          \/ UNCHANGED order /\ buy' = [buy EXCEPT ![o] = "deduct"]
        BY <1>2 DEF CheckBalance, DeleteOrder
    <2>2. UNCHANGED <<taken, method>> /\ buy[o] = "balance" BY <1>2 DEF CheckBalance
    <2> QED BY <2>1, <2>2 DEF TypeOK
<1>3. CASE DeductStock(o)
    <2>1. \/ order' = [order EXCEPT ![o].status = "deleted"]
             /\ buy' = [buy EXCEPT ![o] = "refused"]
          \/ /\ UNCHANGED order \/ order' = [order EXCEPT ![o].deducted = TRUE]
             /\ buy' = [buy EXCEPT ![o] = "debit"]
        BY <1>3 DEF DeductStock, DeleteOrder, UpdateInventory
    <2>2. UNCHANGED <<taken, method>> /\ buy[o] = "deduct" BY <1>3 DEF DeductStock
    <2> QED BY <2>1, <2>2 DEF TypeOK
<1>4. CASE Debit(o)
    <2>1. \/ buy' = [buy EXCEPT ![o] = "tx"] /\ taken' = [taken EXCEPT ![o] = 1]
          \/ buy' = [buy EXCEPT ![o] = "refused"] /\ UNCHANGED taken
        BY <1>4 DEF Debit
    <2>2. UNCHANGED <<order, method>> /\ buy[o] = "debit" BY <1>4 DEF Debit
    <2> QED BY <2>1, <2>2 DEF TypeOK
<1>5. CASE CreateTx(o) \/ SaveTx(o) \/ InitPayment(o)
    <2>1. UNCHANGED <<order, taken, method>> /\ buy[o] \in {"tx", "txSave", "init"}
        BY <1>5 DEF CreateTx, SaveTx, InitPayment
    <2>2. method[o] = "wallet" => buy' = [buy EXCEPT ![o] = "txSave"]
                               \/ buy' = [buy EXCEPT ![o] = "orderSave"]
        BY <1>5 DEF CreateTx, SaveTx, InitPayment
    <2> QED BY <2>1, <2>2 DEF TypeOK
<1>6. CASE SaveOrder(o) BY <1>6 DEF SaveOrder, TypeOK
<1>7. CASE Record(o)
    <2>1. UNCHANGED order \/ order' = [order EXCEPT ![o].recorded = TRUE]
        BY <1>7 DEF Record, RecordEarnings
    <2> QED BY <1>7, <2>1 DEF Record, TypeOK
<1>8. CASE Fail(o)
    <2>1. UNCHANGED order \/ order' = [order EXCEPT ![o].recorded = TRUE]
        BY <1>8 DEF Fail, RecordEarnings
    <2>2. method[o] = "wallet" => buy' = [buy EXCEPT ![o] = "undoDebit"]
        BY <1>8 DEF Fail
    <2> QED BY <1>8, <2>1, <2>2 DEF Fail, TypeOK
<1>9. CASE UndoDebit(o) BY <1>9 DEF UndoDebit, TypeOK
<1>10. CASE UndoStock(o)
    <2>1. UNCHANGED order \/ order' = [order EXCEPT ![o].deducted = FALSE]
        BY <1>10 DEF UndoStock, RestoreInventory
    <2> QED BY <1>10, <2>1 DEF UndoStock, TypeOK
<1>11. CASE UndoOrder(o) BY <1>11 DEF UndoOrder, DeleteOrder, TypeOK
<1> QED BY <1>1, <1>2, <1>3, <1>4, <1>5, <1>6, <1>7, <1>8, <1>9, <1>10, <1>11
        DEF CreateStep

LEMMA NextWallet ==
    ASSUME TypeOK, AnsweredInv, WalletInv, [Next]_vars
    PROVE  WalletInv'
<1>1. ASSUME NEW o \in Order, Place(o) \/ CreateStep(o) \/ Fail(o) PROVE WalletInv'
    <2>1. WalletOf(o)'
        BY <1>1, CreateWallet DEF WalletInv, WalletOf, AnsweredInv
    <2>2. ASSUME NEW p \in Order \ {o} PROVE WalletOf(p)'
        <3>1. /\ order'[p] = order[p] /\ taken'[p] = taken[p]
              /\ buy'[p] = buy[p] /\ method'[p] = method[p]
            BY <1>1, CreateLocal
        <3> QED BY <3>1 DEF WalletInv, WalletOf, Exists
    <2> QED BY <2>1, <2>2 DEF WalletInv, WalletOf
<1>2. ASSUME \/ \E a \in Finaliser : CallOf(a)
             \/ \E h \in Webhook, o \in Order, event \in Event : HookLoad(h, o, event)
             \/ \E v \in Verifier, o \in Order : VerifyLoad(v, o)
             \/ \E o \in Canceller : CancelLoad(o) \/ CancelStep(o)
      PROVE  WalletInv'
    <2>1. UNCHANGED <<buy, method, taken>> BY <1>2, LaterSteps
    <2>2. ASSUME NEW o \in Order
          PROVE  /\ Exists(o)' <=> Exists(o)
                 /\ order[o].paid => order'[o].paid
                 /\ order'[o].paid => order[o].paid \/ buy[o] = "done"
        BY <1>2, LaterSteps
    <2> QED BY <2>1, <2>2 DEF WalletInv
<1>3. ASSUME \/ \E o \in Order : Charge(o) \/ Decline(o) \/ \E event \in Event : HookIgnore(o, event)
             \/ UNCHANGED vars
      PROVE  WalletInv'
    <2>1. UNCHANGED <<buy, method, taken, order>>
        BY <1>3 DEF Charge, Decline, HookIgnore, vars, goodsVars
    <2> QED BY <2>1 DEF WalletInv, Exists
<1>4. ASSUME Crash PROVE WalletInv'
    <2>1. UNCHANGED <<method, taken, order>> BY <1>4 DEF Crash, goodsVars
    <2>2. \/ UNCHANGED buy
          \/ \E o \in Order : buy' = [buy EXCEPT ![o] = "crashed"]
        BY <1>4 DEF Crash, Goto
    <2> QED BY <2>1, <2>2 DEF WalletInv, Exists, TypeOK, Debited, NotDebited
<1> QED BY <1>1, <1>2, <1>3, <1>4 DEF Next, CallOf, Finaliser

-----------------------------------------------------------------------------
(* The stock a deleted order holds                                         *)

LEMMA CreateHold ==
    ASSUME TypeOK, NEW o \in Order, Place(o) \/ CreateStep(o) \/ Fail(o),
           buy[o] \in StockFree => ~order[o].deducted,
           order[o].status = "deleted" => ~order[o].deducted,
           buy[o] = "undoStock" => Exists(o)
    PROVE  /\ (buy[o] \in StockFree => ~order[o].deducted)'
           /\ (order[o].status = "deleted" => ~order[o].deducted)'
<1> USE DEF StockFree, buyRest, buyFrame, goodsVars, Goto, Exists
<1>1. CASE Place(o)
    <2>1. /\ order' = [order EXCEPT ![o].status = "pending"] /\ buy[o] = "new"
          /\ buy'[o] \in {"balance", "tx"}
        BY <1>1 DEF Place, TypeOK
    <2> QED BY <2>1 DEF TypeOK
<1>2. CASE CheckBalance(o)
    <2>1. /\ UNCHANGED order \/ order' = [order EXCEPT ![o].status = "deleted"]
          /\ buy[o] = "balance"
        BY <1>2 DEF CheckBalance, DeleteOrder
    <2> QED BY <2>1 DEF TypeOK
<1>3. CASE DeductStock(o)
    <2>1. \/ order' = [order EXCEPT ![o].status = "deleted"]
             /\ buy' = [buy EXCEPT ![o] = "refused"]
          \/ /\ \/ UNCHANGED order
                \/ Exists(o) /\ order' = [order EXCEPT ![o].deducted = TRUE]
             /\ buy' = [buy EXCEPT ![o] = "debit"]
        BY <1>3 DEF DeductStock, DeleteOrder, UpdateInventory, MayDeduct
    <2>2. buy[o] = "deduct" BY <1>3 DEF DeductStock
    <2> QED BY <2>1, <2>2 DEF TypeOK
<1>4. CASE Debit(o) \/ CreateTx(o) \/ SaveTx(o) \/ InitPayment(o) \/ UndoDebit(o)
    <2>1. UNCHANGED order
        BY <1>4 DEF Debit, CreateTx, SaveTx, InitPayment, UndoDebit
    <2>2. buy'[o] \notin StockFree
        BY <1>4 DEF Debit, CreateTx, SaveTx, InitPayment, UndoDebit, TypeOK
    <2> QED BY <2>1, <2>2
<1>5. CASE SaveOrder(o)
    BY <1>5 DEF SaveOrder, TypeOK
<1>6. CASE Record(o) \/ Fail(o)
    <2>1. UNCHANGED order \/ order' = [order EXCEPT ![o].recorded = TRUE]
        BY <1>6 DEF Record, Fail, RecordEarnings
    <2>2. buy'[o] \notin StockFree BY <1>6 DEF Record, Fail, TypeOK
    <2> QED BY <2>1, <2>2 DEF TypeOK
<1>7. CASE UndoStock(o)
    <2>1. \/ order' = [order EXCEPT ![o].deducted = FALSE]
          \/ UNCHANGED order /\ ~order[o].deducted
        BY <1>7 DEF UndoStock, RestoreInventory
    <2> QED BY <2>1 DEF TypeOK
<1>8. CASE UndoOrder(o)
    BY <1>8 DEF UndoOrder, DeleteOrder, TypeOK
<1> QED BY <1>1, <1>2, <1>3, <1>4, <1>5, <1>6, <1>7, <1>8 DEF CreateStep

LEMMA NextHold ==
    ASSUME TypeOK, AnsweredInv, WalletInv, HoldInv, [Next]_vars,
           \A o \in Order : method[o] = "card" => buy[o] \in CardSteps
    PROVE  HoldInv'
<1>1. ASSUME NEW o \in Order, Place(o) \/ CreateStep(o) \/ Fail(o) PROVE HoldInv'
    <2>1. buy[o] = "undoStock" => Exists(o) BY DEF WalletInv, CardSteps, TypeOK
    <2>2. /\ (buy[o] \in StockFree => ~order[o].deducted)'
          /\ (order[o].status = "deleted" => ~order[o].deducted)'
        BY <1>1, <2>1, CreateHold DEF HoldInv
    <2>3. ASSUME NEW p \in Order \ {o}
          PROVE  order'[p] = order[p] /\ buy'[p] = buy[p]
        BY <1>1, CreateLocal
    <2> QED BY <2>2, <2>3 DEF HoldInv
<1>2. ASSUME \/ \E a \in Finaliser : CallOf(a)
             \/ \E h \in Webhook, o \in Order, event \in Event : HookLoad(h, o, event)
             \/ \E v \in Verifier, o \in Order : VerifyLoad(v, o)
             \/ \E o \in Canceller : CancelLoad(o) \/ CancelStep(o)
      PROVE  HoldInv'
    <2>1. UNCHANGED buy BY <1>2, LaterSteps
    <2>2. ASSUME NEW o \in Order
          PROVE  /\ order'[o].deducted => order[o].deducted \/ (Exists(o) /\ buy[o] = "done")
                 /\ order'[o].status = "deleted" => order[o].status = "deleted"
        BY <1>2, LaterSteps
    <2> QED BY <2>1, <2>2 DEF HoldInv, StockFree, Exists
<1>3. ASSUME \/ \E o \in Order : Charge(o) \/ Decline(o) \/ \E event \in Event : HookIgnore(o, event)
             \/ UNCHANGED vars
      PROVE  HoldInv'
    <2>1. UNCHANGED <<buy, order>> BY <1>3 DEF Charge, Decline, HookIgnore, vars, goodsVars
    <2> QED BY <2>1 DEF HoldInv
<1>4. ASSUME Crash PROVE HoldInv'
    <2>1. UNCHANGED order BY <1>4 DEF Crash, goodsVars
    <2>2. \/ UNCHANGED buy
          \/ \E o \in Order : buy' = [buy EXCEPT ![o] = "crashed"]
        BY <1>4 DEF Crash, Goto
    <2> QED BY <2>1, <2>2 DEF HoldInv, TypeOK, StockFree
<1> QED BY <1>1, <1>2, <1>3, <1>4 DEF Next, CallOf, Finaliser

-----------------------------------------------------------------------------
(* The card                                                                *)

LEMMA PaidStays ==
    ASSUME TypeOK, AnsweredInv, [Next]_vars, NEW o \in Order
    PROVE  method'[o] = method[o] /\ (charge[o] = "paid" => charge'[o] = "paid")
<1>1. ASSUME NEW p \in Order, InitPayment(p)
      PROVE  method'[o] = method[o] /\ (charge[o] = "paid" => charge'[o] = "paid")
    <2>1. charge[p] = "none" BY <1>1 DEF InitPayment, AnsweredInv
    <2> QED BY <1>1, <2>1 DEF InitPayment, TypeOK
<1>2. ASSUME NEW p \in Order, Charge(p) \/ Decline(p)
      PROVE  method'[o] = method[o] /\ (charge[o] = "paid" => charge'[o] = "paid")
    BY <1>2 DEF Charge, Decline, TypeOK
<1>3. ASSUME NEW p \in Order, Place(p) \/ (CreateStep(p) /\ ~InitPayment(p)) \/ Fail(p)
      PROVE  UNCHANGED <<method, charge>>
    BY <1>3, CreateMoves
<1>4. ASSUME \/ \E a \in Finaliser : CallOf(a)
             \/ \E h \in Webhook, p \in Order, event \in Event : HookLoad(h, p, event)
             \/ \E v \in Verifier, p \in Order : VerifyLoad(v, p)
             \/ \E p \in Canceller : CancelLoad(p) \/ CancelStep(p)
      PROVE  UNCHANGED <<method, charge>>
    BY <1>4, LaterSteps
<1>5. ASSUME \/ \E p \in Order, event \in Event : HookIgnore(p, event)
             \/ Crash \/ UNCHANGED vars
      PROVE  UNCHANGED <<method, charge>>
    BY <1>5 DEF HookIgnore, Crash, vars, paystackVars
<1> QED BY <1>1, <1>2, <1>3, <1>4, <1>5 DEF Next, CallOf, Finaliser

\* What a step leaves alone stays as it was.
LEMMA CardKept ==
    ASSUME TypeOK, AnsweredInv, CardInv, [Next]_vars, NEW o \in Order,
           buy'[o] = buy[o],
           order'[o].paid \/ order'[o].deducted \/ order'[o].recorded
             => order[o].paid \/ order[o].deducted \/ order[o].recorded \/ Backed(o),
           tx'[o] = "success" => tx[o] = "success" \/ Backed(o)
    PROVE  CardOf(o)'
BY PaidStays DEF CardInv, CardOf, Backed

LEMMA CallsKept ==
    ASSUME TypeOK, AnsweredInv, CardInv, [Next]_vars, NEW a \in Finaliser,
           call'[a] = call[a]
    PROVE  CallBacked(a)'
<1>1. call[a].pc # "idle" => call[a].o \in Order
    BY DEF TypeOK, CallState, Idle, Asking, Marking, Serving
<1>2. CASE call[a].pc = "idle" BY <1>2 DEF CallBacked
<1>3. CASE call[a].pc # "idle"
    <2>1. PICK o \in Order : o = call[a].o BY <1>1, <1>3
    <2>2. method'[o] = method[o] /\ (charge[o] = "paid" => charge'[o] = "paid")
        BY PaidStays
    <2> QED BY <2>1, <2>2 DEF CardInv, CallBacked, Backed
<1> QED BY <1>2, <1>3

LEMMA CreateCard ==
    ASSUME TypeOK, AnsweredInv, CardInv, NEW o \in Order,
           Place(o) \/ CreateStep(o) \/ Fail(o)
    PROVE  CardInv'
<1>1. [Next]_vars BY DEF Next
<1>2. UNCHANGED <<call, sent, method>>
    BY CreateMoves DEF InitPayment
<1>3. ASSUME NEW a \in Finaliser PROVE CallBacked(a)'
    BY <1>1, <1>2, CallsKept
<1>4. ASSUME NEW p \in Order, <<p, "charge.success">> \in sent'
      PROVE  charge'[p] = "paid"
    BY <1>1, <1>2, <1>4, PaidStays DEF CardInv
<1>5. ASSUME NEW p \in Order \ {o} PROVE CardOf(p)'
    <2>1. order'[p] = order[p] /\ buy'[p] = buy[p]
        BY CreateLocal
    <2>2. tx'[p] = tx[p]
        BY DEF Place, CreateStep, CheckBalance, DeductStock, Debit, CreateTx, SaveTx,
               SaveOrder, Record, Fail, UndoDebit, UndoStock, UndoOrder, InitPayment,
               TypeOK
    <2> QED BY <1>1, <2>1, <2>2, CardKept
<1>6. CASE method[o] = "wallet"
    BY <1>2, <1>3, <1>4, <1>5, <1>6 DEF CardInv, CardOf
<1>7. CASE method[o] = "card"
    <2>1. buy[o] \in CardSteps BY <1>7 DEF CardInv, CardOf
    <2>2. Place(o) \/ CreateTx(o) \/ Fail(o) \/ InitPayment(o)
        BY <2>1 DEF CardSteps, CreateStep, CheckBalance, DeductStock, Debit, SaveTx,
                    SaveOrder, Record, UndoDebit, UndoStock, UndoOrder
    <2>3. /\ UNCHANGED order \/ order' = [order EXCEPT ![o].status = "pending"]
          /\ UNCHANGED tx \/ tx' = [tx EXCEPT ![o] = "pending"]
        BY <2>1, <2>2 DEF CardSteps, Place, CreateTx, Fail, InitPayment, buyFrame,
                          buyRest, goodsVars
    <2>4. buy'[o] \in CardSteps
        BY <1>7, <2>2 DEF Place, CreateTx, Fail, InitPayment, Goto, CardSteps, TypeOK
    <2>5. charge[o] = "paid" => charge'[o] = "paid" BY <1>1, PaidStays
    <2>6. CardOf(o)'
        BY <1>2, <1>7, <2>3, <2>4, <2>5 DEF CardInv, CardOf, TypeOK
    <2> QED BY <1>3, <1>4, <1>5, <2>6 DEF CardInv
<1> QED BY <1>6, <1>7 DEF TypeOK

\* A step of one call: it is enough that the call stays backed, and that what
\* it did to its order was.
LEMMA CallCard ==
    ASSUME TypeOK, AnsweredInv, CardInv, [Next]_vars, NEW a \in Finaliser, NEW o \in Order,
           UNCHANGED <<buy, sent>>,
           \A b \in Finaliser \ {a} : call'[b] = call[b],
           CallBacked(a)',
           \A p \in Order \ {o} : order'[p] = order[p] /\ tx'[p] = tx[p],
           order'[o].paid \/ order'[o].deducted \/ order'[o].recorded
             => order[o].paid \/ order[o].deducted \/ order[o].recorded \/ Backed(o),
           tx'[o] = "success" => tx[o] = "success" \/ Backed(o)
    PROVE  CardInv'
<1>1. ASSUME NEW b \in Finaliser PROVE CallBacked(b)'
    BY CallsKept
<1>2. ASSUME NEW p \in Order, <<p, "charge.success">> \in sent'
      PROVE  charge'[p] = "paid"
    BY <1>2, PaidStays DEF CardInv
<1>3. CardOf(o)' BY CardKept
<1>4. ASSUME NEW p \in Order \ {o} PROVE CardOf(p)'
    BY CardKept
<1> QED BY <1>1, <1>2, <1>3, <1>4 DEF CardInv

LEMMA FinaliseCard ==
    ASSUME TypeOK, AnsweredInv, CardInv, NEW a \in Finaliser,
           FinaliseStep(a) \/ FinaliseError(a)
    PROVE  CardInv'
<1>1. [Next]_vars BY DEF Next
<1>2. call[a] \in Serving
    BY ServingFields DEF FinaliseStep, Pay, FinaliseRecord, FinaliseDeduct,
                         FinaliseShort, FinaliseError, Working
<1>3. PICK o \in Order : o = call[a].o BY <1>2 DEF Serving
<1>4. Backed(o) /\ call[a].event = "charge.success"
    BY <1>3 DEF FinaliseStep, Pay, FinaliseRecord, FinaliseDeduct, FinaliseShort,
                FinaliseError, Working, CardInv, CallBacked
<1>5. Backed(o)' BY <1>1, <1>4, PaidStays DEF Backed
<1>6. UNCHANGED <<buy, sent, tx>> /\ \A p \in Order \ {o} : order'[p] = order[p]
    <2>1. UNCHANGED <<buy, sent, tx>>
        BY DEF FinaliseStep, Pay, FinaliseRecord, FinaliseDeduct, FinaliseShort,
               FinaliseError, callFrame, paystackVars
    <2>2. \A p \in Order \ {o} : order'[p] = order[p]
        BY <1>3 DEF FinaliseStep, Pay, FinaliseRecord, FinaliseDeduct, FinaliseShort,
               FinaliseError, UpdateInventory, RecordEarnings, goodsVars, TypeOK
    <2> QED BY <2>1, <2>2
<1>7. \A b \in Finaliser \ {a} : call'[b] = call[b]
    BY DEF FinaliseStep, Pay, Step, FinaliseRecord, FinaliseDeduct, FinaliseShort,
           FinaliseError, Settle, TypeOK
<1>8. call'[a].pc # "idle" => call'[a].o = o /\ call'[a].event = "charge.success"
    <2>1. CASE Pay(a) \/ (FinaliseError(a) /\ Step(a, "answer"))
        <3>1. \/ call' = [call EXCEPT ![a] = [call[a] EXCEPT !.pc = "work", !.todo = Work]]
              \/ call' = [call EXCEPT ![a] = [call[a] EXCEPT !.pc = "answer"]]
            BY <2>1 DEF Pay, Step
        <3>2. PICK c \in Serving :
                call' = [call EXCEPT ![a] = c] /\ c.o = o /\ c.event = "charge.success"
            BY <1>2, <1>3, <1>4, <3>1 DEF Serving
        <3> QED BY <3>2 DEF TypeOK
    <2>2. ASSUME NEW work \in Work, NEW failed \in BOOLEAN, Settle(a, work, failed)
          PROVE  call'[a].pc # "idle" => call'[a].o = o /\ call'[a].event = "charge.success"
        <3>1. \/ call' = [call EXCEPT ![a] = Idle]
              \/ \E pc \in {"pay", "work", "answer", "background"} :
                   call' = [call EXCEPT ![a] =
                              [call[a] EXCEPT !.todo = call[a].todo \ {work}, !.pc = pc]]
            BY <1>2, <2>2 DEF Settle, Serving
        <3>2. ASSUME NEW pc \in {"pay", "work", "answer", "background"},
                     call' = [call EXCEPT ![a] =
                                [call[a] EXCEPT !.todo = call[a].todo \ {work}, !.pc = pc]]
              PROVE  call'[a].o = o /\ call'[a].event = "charge.success"
            BY <1>2, <1>3, <1>4, <3>2 DEF Serving, TypeOK
        <3> QED BY <3>1, <3>2 DEF Idle, TypeOK
    <2> QED BY <2>1, <2>2 DEF FinaliseStep, FinaliseRecord, FinaliseDeduct,
                              FinaliseShort, FinaliseError, Work
<1>9. call'[a].pc \notin {"asked", "claim"}
    <2>1. CASE Pay(a) \/ (FinaliseError(a) /\ Step(a, "answer"))
        BY <1>2, <2>1 DEF Pay, Step, TypeOK, Serving
    <2>2. ASSUME NEW work \in Work, NEW failed \in BOOLEAN, Settle(a, work, failed)
          PROVE  call'[a].pc \notin {"asked", "claim"}
        BY <1>2, <2>2 DEF Settle, Serving, TypeOK, Idle
    <2> QED BY <2>1, <2>2 DEF FinaliseStep, FinaliseRecord, FinaliseDeduct,
                              FinaliseShort, FinaliseError, Work
<1>10. CallBacked(a)' BY <1>5, <1>8, <1>9 DEF CallBacked
<1> QED BY <1>1, <1>4, <1>6, <1>7, <1>10, CallCard

LEMMA HookCard ==
    ASSUME TypeOK, AnsweredInv, CardInv, NEW h \in Webhook,
           (\E o \in Order, event \in Event : HookLoad(h, o, event)) \/ HookSave(h)
    PROVE  CardInv'
<1> USE DEF callFrame, paystackVars, goodsVars
<1> h \in Finaliser BY DEF Finaliser
<1>1. [Next]_vars BY DEF Next
<1>2. ASSUME NEW o \in Order, NEW event \in Event, HookLoad(h, o, event)
      PROVE  CardInv'
    <2>1. event = "charge.success" => charge[o] = "paid"
        BY <1>2 DEF HookLoad, CardInv
    <2>2. call' = [call EXCEPT ![h] =
             [pc |-> FirstStep(event), o |-> o, event |-> event, loaded |-> tx[o],
              todo |-> {}]]
        BY <1>2 DEF HookLoad
    <2>3. UNCHANGED <<buy, sent, order, tx, charge, method>> BY <1>2 DEF HookLoad
    <2>4. CallBacked(h)'
        BY <2>1, <2>2, <2>3 DEF CallBacked, Backed, FirstStep, TypeOK, Event
    <2>5. \A b \in Finaliser \ {h} : call'[b] = call[b] BY <2>2 DEF TypeOK
    <2> QED BY <1>1, <2>3, <2>4, <2>5, CallCard
<1>3. ASSUME HookSave(h) PROVE CardInv'
    <2>1. call[h] \in Serving BY <1>3, ServingFields DEF HookSave
    <2>2. PICK o \in Order : o = call[h].o BY <2>1 DEF Serving
    <2>3. call[h].event = "charge.success" => Backed(o)
        BY <1>3, <2>2 DEF HookSave, CardInv, CallBacked
    <2>4. \/ UNCHANGED tx
          \/ /\ call[h].event = "charge.success"
             /\ tx' = [tx EXCEPT ![o] = "success"]
          \/ tx' = [tx EXCEPT ![o] = "failed"]
        BY <1>3, <2>2 DEF HookSave, Outcome
    <2>5. \/ call' = [call EXCEPT ![h] = Idle]
          \/ /\ call[h].todo # {}
             /\ call' = [call EXCEPT ![h] = [call[h] EXCEPT !.pc = "background"]]
        BY <1>3 DEF HookSave, Left
    <2>6. UNCHANGED <<buy, sent, order, charge, method>> BY <1>3 DEF HookSave
    <2>7. CallBacked(h)'
        <3>1. CASE call' = [call EXCEPT ![h] = Idle]
            BY <3>1 DEF CallBacked, Idle, TypeOK
        <3>2. CASE call[h].todo # {}
                   /\ call' = [call EXCEPT ![h] = [call[h] EXCEPT !.pc = "background"]]
            <4>1. call[h].event = "charge.success"
                BY <1>3, <3>2 DEF HookSave, CardInv, CallBacked
            <4>2. /\ call'[h].o = o /\ call'[h].pc = "background"
                  /\ call'[h].event = "charge.success"
                BY <2>1, <2>2, <3>2, <4>1 DEF Serving, TypeOK
            <4> QED BY <2>3, <2>6, <4>1, <4>2 DEF CallBacked, Backed
        <3> QED BY <2>5, <3>1, <3>2
    <2>8. \A b \in Finaliser \ {h} : call'[b] = call[b] BY <2>5 DEF TypeOK
    <2>9. /\ \A p \in Order \ {o} : order'[p] = order[p] /\ tx'[p] = tx[p]
          /\ tx'[o] = "success" => tx[o] = "success" \/ Backed(o)
        BY <2>3, <2>4, <2>6 DEF TypeOK
    <2> QED BY <1>1, <2>6, <2>7, <2>8, <2>9, CallCard
<1> QED BY <1>2, <1>3

LEMMA VerifyCard ==
    ASSUME TypeOK, AnsweredInv, CardInv, NEW v \in Verifier,
           (\E o \in Order : VerifyLoad(v, o)) \/ VerifyCarriedOn(v)
    PROVE  CardInv'
<1> USE DEF callFrame, paystackVars, goodsVars
<1> v \in Finaliser BY DEF Finaliser
<1>1. [Next]_vars BY DEF Next
<1>2. UNCHANGED <<buy, sent, order, charge, method>>
    BY DEF VerifyLoad, VerifyCarriedOn, VerifyAnswered, VerifyClaim, VerifyFail,
           VerifyFresh, VerifyEnd
<1>3. \A b \in Finaliser \ {v} : call'[b] = call[b]
    BY DEF VerifyLoad, VerifyCarriedOn, VerifyAnswered, VerifyClaim, VerifyFail,
           VerifyFresh, VerifyEnd, Step, TypeOK
<1>4. ASSUME NEW o \in Order, tx[o] = "success" PROVE Backed(o)
    BY <1>4 DEF CardInv, CardOf, Backed, TypeOK
<1>5. ASSUME NEW o \in Order, Backed(o), call' = [call EXCEPT ![v] = Finalising(o)]
      PROVE  CallBacked(v)'
    BY <1>2, <1>5 DEF Finalising, CallBacked, Backed, TypeOK
<1>6. ASSUME call' = [call EXCEPT ![v] = Idle] PROVE CallBacked(v)'
    BY <1>6 DEF Idle, CallBacked, TypeOK
<1>7. ASSUME NEW o \in Order, VerifyLoad(v, o) PROVE CardInv'
    <2>1. UNCHANGED tx BY <1>7 DEF VerifyLoad
    <2>2. CASE tx[o] = "success"
        <3>1. CallBacked(v)' BY <1>4, <1>5, <1>7, <2>2 DEF VerifyLoad
        <3> QED BY <1>1, <1>2, <1>3, <2>1, <3>1, CallCard
    <2>3. CASE tx[o] # "success"
        <3>1. call' = [call EXCEPT ![v] =
                         [pc |-> "asked", o |-> o, answer |-> charge[o] = "paid"]]
            BY <1>7, <2>3 DEF VerifyLoad, RemoteSuccess
        <3>2. CallBacked(v)' BY <1>2, <3>1 DEF CallBacked, TypeOK
        <3> QED BY <1>1, <1>2, <1>3, <2>1, <3>2, CallCard
    <2> QED BY <2>2, <2>3
<1>8. ASSUME VerifyAnswered(v) PROVE CardInv'
    <2>1. call[v] \in Asking BY <1>8, AskingFields DEF VerifyAnswered
    <2>2. PICK o \in Order : o = call[v].o BY <2>1 DEF Asking
    <2>3. PICK pc \in {"claim", "fail", "fresh"} :
            /\ call' = [call EXCEPT ![v] = [pc |-> pc, o |-> o, loaded |-> tx[o]]]
            /\ pc = "claim" => call[v].answer
        BY <1>8, <2>2 DEF VerifyAnswered
    <2>4. call[v].answer => charge[o] = "paid"
        BY <1>8, <2>2 DEF VerifyAnswered, CardInv, CallBacked
    <2>5. CallBacked(v)' BY <1>2, <2>3, <2>4 DEF CallBacked, TypeOK
    <2>6. UNCHANGED tx BY <1>8 DEF VerifyAnswered
    <2> QED BY <1>1, <1>2, <1>3, <2>5, <2>6, CallCard
<1>9. ASSUME VerifyClaim(v) \/ VerifyFail(v) PROVE CardInv'
    <2>1. call[v] \in Marking BY <1>9, MarkingFields DEF VerifyClaim, VerifyFail
    <2>2. PICK o \in Order : o = call[v].o BY <2>1 DEF Marking
    <2>3. \/ UNCHANGED tx
          \/ tx' = [tx EXCEPT ![o] = "success"] /\ charge[o] = "paid"
          \/ tx' = [tx EXCEPT ![o] = "failed"]
        BY <1>9, <2>2 DEF VerifyClaim, VerifyFail, CardInv, CallBacked
    <2>4. /\ \A p \in Order \ {o} : order'[p] = order[p] /\ tx'[p] = tx[p]
          /\ tx'[o] = "success" => tx[o] = "success" \/ Backed(o)
        BY <1>2, <2>3 DEF Backed, TypeOK
    <2>5. call'[v].pc = "fresh"
        <3>1. call' = [call EXCEPT ![v] = [call[v] EXCEPT !.pc = "fresh"]]
            BY <1>9 DEF VerifyClaim, VerifyFail, Step
        <3>2. [call[v] EXCEPT !.pc = "fresh"].pc = "fresh" BY <2>1 DEF Marking
        <3> QED BY <3>1, <3>2 DEF TypeOK
    <2>6. CallBacked(v)' BY <2>5 DEF CallBacked
    <2> QED BY <1>1, <1>2, <1>3, <2>4, <2>6, CallCard
<1>10. ASSUME VerifyFresh(v) PROVE CardInv'
    <2>1. call[v] \in Marking BY <1>10, MarkingFields DEF VerifyFresh
    <2>2. PICK o \in Order : o = call[v].o BY <2>1 DEF Marking
    <2>3. UNCHANGED tx BY <1>10 DEF VerifyFresh
    <2>4. CallBacked(v)'
        <3>1. CASE tx[o] = "success"
            BY <1>4, <1>5, <1>10, <2>2, <3>1 DEF VerifyFresh
        <3>2. CASE tx[o] # "success"
            BY <1>6, <1>10, <2>2, <3>2 DEF VerifyFresh
        <3> QED BY <3>1, <3>2
    <2> QED BY <1>1, <1>2, <1>3, <2>2, <2>3, <2>4, CallCard
<1>11. ASSUME VerifyEnd(v) PROVE CardInv'
    <2>1. call[v] \in Serving BY <1>11, ServingFields DEF VerifyEnd
    <2>2. PICK o \in Order : o = call[v].o BY <2>1 DEF Serving
    <2>3. UNCHANGED tx BY <1>11 DEF VerifyEnd
    <2>4. CallBacked(v)'
        <3>1. CASE call[v].todo = {} BY <1>6, <1>11, <3>1 DEF VerifyEnd, Left
        <3>2. CASE call[v].todo # {}
            <4>1. call' = [call EXCEPT ![v] = [call[v] EXCEPT !.pc = "background"]]
                BY <1>11, <3>2 DEF VerifyEnd, Left
            <4>2. call[v].event = "charge.success" /\ Backed(o)
                BY <1>11, <2>2, <3>2 DEF VerifyEnd, CardInv, CallBacked
            <4>3. /\ call'[v].o = o /\ call'[v].pc = "background"
                  /\ call'[v].event = "charge.success"
                BY <2>1, <2>2, <4>1, <4>2 DEF Serving, TypeOK
            <4> QED BY <1>2, <4>2, <4>3 DEF CallBacked, Backed
        <3> QED BY <3>1, <3>2
    <2> QED BY <1>1, <1>2, <1>3, <2>2, <2>3, <2>4, CallCard
<1> QED BY <1>7, <1>8, <1>9, <1>10, <1>11 DEF VerifyCarriedOn

LEMMA OtherCard ==
    ASSUME TypeOK, AnsweredInv, CardInv,
           \/ \E o \in Canceller : CancelLoad(o) \/ CancelStep(o)
           \/ \E o \in Order : Charge(o) \/ Decline(o) \/ \E event \in Event : HookIgnore(o, event)
           \/ Crash
           \/ UNCHANGED vars
    PROVE  CardInv'
<1>1. [Next]_vars BY DEF Next
<1>2. ASSUME NEW o \in Order, CancelLoad(o) \/ CancelStep(o), o \in Canceller
      PROVE  CardInv'
    <2>1. UNCHANGED <<tx, method, buy, call, charge, sent>>
        BY <1>2 DEF CancelLoad, CancelStep, CancelCredit, CancelSave, CancelRestore,
                    cancelFrame, paystackVars
    <2>2. \/ UNCHANGED order
          \/ order' = [order EXCEPT ![o].status = "cancelled"]
          \/ order' = [order EXCEPT ![o].deducted = FALSE]
        <3>1. CASE CancelLoad(o) \/ CancelCredit(o)
            BY ONLY <3>1 DEF CancelLoad, CancelCredit, cancelFrame, goodsVars
        <3>2. CASE CancelSave(o)
            BY ONLY <3>2 DEF CancelSave
        <3>3. CASE CancelRestore(o)
            BY ONLY <3>3 DEF CancelRestore, RestoreInventory
        <3> QED BY ONLY <1>2, <3>1, <3>2, <3>3 DEF CancelStep
    <2>3. ASSUME NEW p \in Order
          PROVE  order'[p].paid \/ order'[p].deducted \/ order'[p].recorded
                   => order[p].paid \/ order[p].deducted \/ order[p].recorded
        <3>1. order \in [Order -> Document] BY DEF TypeOK, Document
        <3>2. CASE UNCHANGED order BY ONLY <3>2
        <3>3. CASE order' = [order EXCEPT ![o].status = "cancelled"]
            BY ONLY <3>1, <3>3, <2>3 DEF Document
        <3>4. CASE order' = [order EXCEPT ![o].deducted = FALSE]
            BY ONLY <3>1, <3>4, <2>3 DEF Document
        <3> QED BY ONLY <2>2, <2>3, <3>2, <3>3, <3>4
    <2>4. ASSUME NEW p \in Order PROVE CardOf(p)' BY <1>1, <2>1, <2>3, CardKept
    <2>5. ASSUME NEW a \in Finaliser PROVE CallBacked(a)' BY <1>1, <2>1, CallsKept
    <2> QED BY <2>1, <2>4, <2>5 DEF CardInv
<1>3. ASSUME NEW o \in Order,
             Charge(o) \/ Decline(o) \/ \E event \in Event : HookIgnore(o, event)
      PROVE  CardInv'
    <2>1. UNCHANGED <<tx, buy, call, order>>
        BY <1>3 DEF Charge, Decline, HookIgnore, goodsVars
    <2>2. ASSUME NEW p \in Order PROVE CardOf(p)' BY <1>1, <2>1, CardKept
    <2>3. ASSUME NEW a \in Finaliser PROVE CallBacked(a)' BY <1>1, <2>1, CallsKept
    <2>4. ASSUME NEW p \in Order, <<p, "charge.success">> \in sent'
          PROVE  charge'[p] = "paid"
        <3>1. CASE Charge(o) \/ Decline(o)
            BY <1>1, <3>1, <2>4, PaidStays DEF Charge, Decline, CardInv, TypeOK
        <3>2. CASE \E event \in Event : HookIgnore(o, event)
            <4>1. UNCHANGED <<charge, sent>> BY <3>2 DEF HookIgnore, paystackVars
            <4> QED BY <2>4, <4>1 DEF CardInv
        <3> QED BY <1>3, <3>1, <3>2
    <2> QED BY <2>2, <2>3, <2>4 DEF CardInv
<1>4. ASSUME Crash PROVE CardInv'
    <2>1. UNCHANGED <<tx, order, method, charge, sent>>
        BY <1>4 DEF Crash, goodsVars, paystackVars
    <2>2. ASSUME NEW p \in Order PROVE CardOf(p)'
        <3>1. buy'[p] \in {buy[p], "crashed"} BY <1>4 DEF Crash, Goto, TypeOK
        <3> QED BY <2>1, <3>1 DEF CardInv, CardOf, CardSteps
    <2>3. ASSUME NEW a \in Finaliser PROVE CallBacked(a)'
        <3>1. call'[a] = call[a] \/ call'[a] = Idle BY <1>4 DEF Crash, TypeOK
        <3>2. CASE call'[a] = call[a] BY <1>1, <3>2, CallsKept
        <3>3. CASE call'[a] = Idle BY <3>3 DEF Idle, CallBacked
        <3> QED BY <3>1, <3>2, <3>3
    <2> QED BY <2>1, <2>2, <2>3 DEF CardInv
<1>5. ASSUME UNCHANGED vars PROVE CardInv'
    BY <1>5 DEF vars, goodsVars, paystackVars, CardInv, CardOf, CallBacked, Backed
<1> QED BY <1>2, <1>3, <1>4, <1>5, CheckoutAssumption

-----------------------------------------------------------------------------
LEMMA InitInv == Init => CheckoutInv
BY CheckoutAssumption DEF Init, CheckoutInv, AnsweredInv, WalletInv, HoldInv, CardInv,
   CardOf, CallBacked, CardSteps, Debited, NotDebited, StockFree, Idle, Exists

LEMMA NextInv ==
    ASSUME TypeOK, CheckoutInv, [Next]_vars
    PROVE  CheckoutInv'
<1> USE DEF CheckoutInv
<1>1. AnsweredInv' BY NextAnswered
<1>2. WalletInv' BY NextWallet
<1>3. HoldInv' BY NextHold DEF CardInv, CardOf
<1>4. CardInv'
    BY CreateCard, FinaliseCard, HookCard, VerifyCard, OtherCard DEF Next
<1> QED BY <1>1, <1>2, <1>3, <1>4

\* The invariant behind the three theorems below: what each position of each
\* actor implies about the order, the debit and the charge.
THEOREM CheckoutInvariant == Spec => [](TypeOK /\ CheckoutInv)
<1>1. Init => TypeOK /\ CheckoutInv BY InitType, InitInv
<1>2. TypeOK /\ CheckoutInv /\ [Next]_vars => (TypeOK /\ CheckoutInv)'
    BY NextType, NextInv
<1> QED BY <1>1, <1>2, PTL DEF Spec

\* An answered checkout from the wallet is all or nothing.
THEOREM SettlesWallet == Spec => []WalletSettled
<1>1. CheckoutInv => WalletSettled
    BY DEF CheckoutInv, WalletInv, WalletSettled, Debited, NotDebited
<1> QED BY <1>1, CheckoutInvariant, PTL

\* A deleted order holds no stock.
THEOREM DeletesEmpty == Spec => []DeletedHoldsNothing
<1>1. CheckoutInv => DeletedHoldsNothing
    BY DEF CheckoutInv, HoldInv, DeletedHoldsNothing
<1> QED BY <1>1, CheckoutInvariant, PTL

\* An order by card is served only when the card was charged.
THEOREM GoodsArePaid == Spec => []PaidBeforeGoods
<1>1. CheckoutInv => PaidBeforeGoods
    BY DEF CheckoutInv, CardInv, CardOf, PaidBeforeGoods
<1> QED BY <1>1, CheckoutInvariant, PTL

-----------------------------------------------------------------------------
(* Folds over the lines and items of an order                              *)

\* Induction over 0..N, for a set of numbers.
LEMMA Induction ==
    ASSUME NEW N \in Nat, NEW P, 0 \in P, \A n \in 1..N : n - 1 \in P => n \in P
    PROVE  \A n \in 0..N : n \in P
<1> DEFINE Bad == {n \in 0..N : n \notin P}
           Below == {0..n : n \in Bad}
<1> SUFFICES ASSUME Bad # {} PROVE FALSE OBVIOUS
<1>1. Below \subseteq SUBSET (0..N) /\ Below # {}
  <2>1. ASSUME NEW n \in Bad PROVE 0..n \in SUBSET (0..N) OBVIOUS
  <2> HIDE DEF Bad
  <2> QED BY <2>1
<1>2. IsFiniteSet(0..N) BY FS_Interval
<1>3. \E s \in Below : \A t \in Below : ~ (t \subseteq s /\ t # s)
  <2> DEFINE All == 0..N
  <2>1. Below \subseteq SUBSET All /\ Below # {} /\ IsFiniteSet(All) BY <1>1, <1>2
  <2> HIDE DEF Below, All
  <2> QED BY ONLY <2>1, LeastSubset
<1>3a. PICK s \in Below : \A t \in Below : ~ (t \subseteq s /\ t # s) BY <1>3
<1>4. PICK n \in Bad : s = 0..n BY <1>3a
<1>5. n \in 1..N /\ n - 1 \in 0..N BY <1>4
<1>6. n - 1 \notin P BY <1>4, <1>5
<1>7. 0..(n - 1) \in Below BY <1>5, <1>6
<1>8. 0..(n - 1) \subseteq s /\ n \notin 0..(n - 1) /\ n \in s BY <1>4, <1>5
<1> QED BY <1>3a, <1>7, <1>8

\* The last of the first n indices.
LEMMA LastIndex ==
    ASSUME NEW n \in Nat, NEW s, s \subseteq 1..n, n \in s
    PROVE  Max(s) = n
<1>1. \A x \in s : x <= n OBVIOUS
<1>2. n \in s /\ \A y \in s : n >= y BY <1>1
<1>3. \A x \in s : (\A y \in s : x >= y) => x = n BY <1>1
<1> QED BY <1>2, <1>3, Zenon DEF Max

\* The largest of some of the indices is one of them.
LEMMA MaxIn ==
    ASSUME NEW N \in Nat, NEW s, s \subseteq 1..N, s # {}
    PROVE  Max(s) \in s
<1> DEFINE All == 1..N
           Out(n) == (1..N) \ (1..n)
           Outs == {Out(n) : n \in s}
<1>1. Outs \subseteq SUBSET All /\ Outs # {} OBVIOUS
<1>2. IsFiniteSet(All) BY FS_Interval
<1>3. PICK u \in Outs : \A v \in Outs : ~ (v \subseteq u /\ v # u)
  <2> HIDE DEF Outs, All
  <2> QED BY ONLY <1>1, <1>2, LeastSubset
<1>4. PICK n \in s : u = Out(n) BY <1>3
<1>5. ASSUME NEW m \in s, m > n PROVE FALSE
  <2>1. m \in 1..N /\ n \in 1..N BY <1>5
  <2>2. Out(m) \subseteq Out(n) /\ m \in Out(n) /\ m \notin Out(m) BY <1>5, <2>1
  <2>3. Out(m) \in Outs BY <1>5
  <2> HIDE DEF Out, Outs
  <2> QED BY <1>3, <1>4, <2>2, <2>3
<1>6. n \in s /\ \A m \in s : n >= m BY <1>5
<1> QED BY <1>6, Zenon DEF Max

\* The steps G of a fold over 1..N with accumulators in A, from b on; the
\* recursion on the subsets, typed, and as far as the accumulators are typed; the
\* accumulators in order, up to the last one.
Steps(A, N) == [A \X (1..N) -> A]

IsOver(g, G, b, A, N) ==
    /\ g \in [SUBSET (1..N) -> A]
    /\ \A s \in SUBSET (1..N) :
         g[s] = IF s = {} THEN b ELSE G[<<g[s \ {Max(s)}], Max(s)>>]

Follows(f, G, b, A, N) ==
    /\ f[{}] = b
    /\ \A s \in SUBSET (1..N) : s # {} /\ f[s \ {Max(s)}] \in A
         => f[s] = G[<<f[s \ {Max(s)}], Max(s)>>]

Leads(h, last, G, b, A, N) ==
    /\ h \in [0..N -> A]
    /\ h[0] = b /\ h[N] = last
    /\ \A n \in 1..N : h[n] = G[<<h[n - 1], n>>]

\* A fold that takes the indices of 1..N from the last one down is a function
\* on their subsets; it exists when each step G stays among the accumulators.
LEMMA FoldOver ==
    ASSUME NEW A, NEW b \in A, NEW N \in Nat, NEW G \in Steps(A, N)
    PROVE  \E g : IsOver(g, G, b, A, N)
<1> USE DEF Steps
<1> DEFINE Fits(g, n) ==
             /\ g \in [SUBSET (1..n) -> A]
             /\ \A s \in SUBSET (1..n) :
                  g[s] = IF s = {} THEN b ELSE G[<<g[s \ {Max(s)}], Max(s)>>]
           P == {n \in 0..N : \E g : Fits(g, n)}
<1>1. 0 \in P
  <2> DEFINE g == [s \in SUBSET (1..0) |-> b]
  <2>1. SUBSET (1..0) = {{}} OBVIOUS
  <2>2. Fits(g, 0) BY <2>1
  <2> HIDE DEF Fits, g
  <2> QED BY <2>2
<1>2. ASSUME NEW n \in 1..N, n - 1 \in P PROVE n \in P
  <2>1. PICK g : Fits(g, n - 1)
    <3> HIDE DEF Fits
    <3> QED BY <1>2
  <2> DEFINE h == [s \in SUBSET (1..n) |->
                     IF n \in s THEN G[<<g[s \ {n}], n>>] ELSE g[s]]
  <2>2. \A s \in SUBSET (1..n) : s \ {n} \in SUBSET (1..(n - 1)) /\ (n \notin s => s \in SUBSET (1..(n - 1)))
      BY <1>2
  <2>3. h \in [SUBSET (1..n) -> A]
    <3>1. ASSUME NEW s \in SUBSET (1..n) PROVE h[s] \in A
      <4>1. CASE n \in s
        <5>1. g[s \ {n}] \in A BY <2>1, <2>2
        <5> QED BY <4>1, <5>1
      <4>2. CASE n \notin s BY <4>2, <2>1, <2>2
      <4> QED BY <4>1, <4>2
    <3> QED BY <3>1
  <2>4. ASSUME NEW s \in SUBSET (1..n)
        PROVE  h[s] = IF s = {} THEN b ELSE G[<<h[s \ {Max(s)}], Max(s)>>]
    <3>1. CASE n \in s
      <4>1. Max(s) = n
        <5>1. n \in Nat /\ s \subseteq 1..n OBVIOUS
        <5> QED BY ONLY <5>1, <3>1, LastIndex
      <4>2. h[s \ {n}] = g[s \ {n}] BY <2>2
      <4>3. h[s] = G[<<g[s \ {n}], n>>] BY <3>1
      <4> HIDE DEF h
      <4> QED BY <3>1, <4>1, <4>2, <4>3
    <3>2. CASE n \notin s
      <4>1. s \in SUBSET (1..(n - 1)) BY <2>2, <3>2
      <4>2. h[s] = g[s] BY <3>2
      <4>3. h[s \ {Max(s)}] = g[s \ {Max(s)}] BY <3>2
      <4>4. g[s] = IF s = {} THEN b ELSE G[<<g[s \ {Max(s)}], Max(s)>>] BY <2>1, <4>1
      <4> HIDE DEF h
      <4> QED BY <4>2, <4>3, <4>4
    <3> QED BY <3>1, <3>2
  <2>5. Fits(h, n)
    <3> HIDE DEF h
    <3> QED BY <2>3, <2>4
  <2> HIDE DEF Fits, h
  <2> QED BY <2>5
<1>3. \A n \in 0..N : n \in P
  <2>1. \A n \in 1..N : n - 1 \in P => n \in P BY <1>2
  <2> HIDE DEF P
  <2> QED BY ONLY N \in Nat, <1>1, <2>1, Induction
<1>4. \E g : Fits(g, N)
  <2> HIDE DEF Fits
  <2> QED BY <1>3
<1> QED BY <1>4 DEF IsOver

\* Read at the first n indices, it goes from b through the steps in order.
LEMMA FoldPrefix ==
    ASSUME NEW A, NEW b \in A, NEW N \in Nat, NEW G \in Steps(A, N),
           NEW f, Follows(f, G, b, A, N)
    PROVE  \E h : Leads(h, f[1..N], G, b, A, N)
<1> USE DEF Steps, Follows
<1> DEFINE P == {n \in 0..N : f[1..n] \in A}
<1>1. 0 \in P
  <2>1. 1..0 = {} OBVIOUS
  <2> QED BY <2>1
<1>2. ASSUME NEW n \in 1..N, f[1..(n - 1)] \in A
      PROVE  f[1..n] = G[<<f[1..(n - 1)], n>>] /\ f[1..n] \in A
  <2>1. Max(1..n) = n BY LastIndex
  <2>2. (1..n) \ {n} = 1..(n - 1) OBVIOUS
  <2>3. 1..n \in SUBSET (1..N) /\ 1..n # {} OBVIOUS
  <2>4. f[1..n] = G[<<f[1..(n - 1)], n>>] BY <1>2, <2>1, <2>2, <2>3
  <2> QED BY <1>2, <2>4
<1>3. \A n \in 0..N : n \in P
  <2>1. ASSUME NEW n \in 1..N, n - 1 \in P PROVE n \in P
    <3>1. f[1..(n - 1)] \in A BY <2>1
    <3>2. f[1..n] \in A BY <1>2, <3>1
    <3> QED BY <3>2
  <2> HIDE DEF P
  <2> QED BY ONLY N \in Nat, <1>1, <2>1, Induction
<1> DEFINE h == [n \in 0..N |-> f[1..n]]
<1>4. h \in [0..N -> A] BY <1>3
<1>5. h[0] = b /\ h[N] = f[1..N]
  <2>1. 1..0 = {} OBVIOUS
  <2> QED BY <2>1
<1>6. ASSUME NEW n \in 1..N PROVE h[n] = G[<<h[n - 1], n>>]
  <2>1. n - 1 \in 0..N /\ f[1..(n - 1)] \in A BY <1>3
  <2> QED BY <2>1, <1>2
<1> HIDE DEF h
<1> QED BY <1>4, <1>5, <1>6 DEF Leads

\* A deduction in progress, and the lines it takes.
Tallies == [ok: BOOLEAN, stock: [Sku -> Int]]
Lines == Seq(Line(Sku))

\* Named, for the proofs, the folds that the model writes in place.
TakeAll(t, lines) == FoldLeft(Take, t, lines)
GiveAll(s, lines) == FoldLeft(GiveBack, s, lines)
AddLine(sum, l, k) == IF l.sku = k THEN sum + l.n ELSE sum
NeedFrom(sum, lines, k) ==
    FoldLeft(LAMBDA a, l : IF l.sku = k THEN a + l.n ELSE a, sum, lines)
NeedOf(sum, items, k) ==
    FoldLeft(LAMBDA a, item : NeedFrom(a, LinesBack(item), k), sum, items)
GiveItems(st, items) == FoldLeft(LAMBDA s, item : GiveAll(s, LinesBack(item)), st, items)
DeductFrom(t, items) == FoldLeft(TakeItem, t, items)

ItemList == Seq(ItemLines)
Stocks == [Sku -> Int]

\* A line taken from a deduction in progress leaves one.
LEMMA TakeType ==
    ASSUME NEW t \in Tallies, NEW l \in Line(Sku)
    PROVE  /\ Take(t, l) \in Tallies /\ TakeIfThere(t, l) \in Tallies
           /\ Take(t, l).ok = t.ok
           /\ \A k \in Sku : Take(t, l).stock[k]
                               = t.stock[k] - (IF l.sku = k THEN l.n ELSE 0)
           /\ TakeIfThere(t, l).ok => t.ok /\ t.stock[l.sku] >= l.n
                                     /\ TakeIfThere(t, l) = Take(t, l)
<1>1. /\ t = [ok |-> t.ok, stock |-> t.stock]
      /\ t.ok \in BOOLEAN /\ t.stock \in [Sku -> Int] /\ l.sku \in Sku /\ l.n \in Nat
    BY DEF Tallies, Line
<1> DEFINE q == [t.stock EXCEPT ![l.sku] = @ - l.n]
           no == [t EXCEPT !.ok = FALSE]
<1>2. q \in [Sku -> Int]
  <2>1. t.stock[l.sku] - l.n \in Int BY <1>1
  <2> QED BY <1>1, <2>1
<1>3. /\ Take(t, l) = [t EXCEPT !.stock = q]
    BY DEF Take
<1>4. Take(t, l) = [ok |-> t.ok, stock |-> q]
  <2> HIDE DEF q
  <2> QED BY <1>1, <1>3
<1>5. Take(t, l) \in Tallies /\ Take(t, l).ok = t.ok /\ Take(t, l).stock = q
  <2> DEFINE r == [ok |-> t.ok, stock |-> q]
  <2>1. r \in Tallies /\ r.ok = t.ok /\ r.stock = q
    <3> HIDE DEF q
    <3> QED BY <1>1, <1>2 DEF Tallies
  <2> HIDE DEF r, q
  <2>2. Take(t, l) = r BY <1>4 DEF r
  <2> QED BY ONLY <2>1, <2>2
<1>6. no \in Tallies /\ ~ no.ok BY DEF Tallies
<1>7. \A k \in Sku : q[k] = t.stock[k] - (IF l.sku = k THEN l.n ELSE 0) BY <1>1
<1>8. \/ /\ t.ok /\ t.stock[l.sku] >= l.n
         /\ TakeIfThere(t, l) = Take(t, l)
      \/ TakeIfThere(t, l) = no
    BY DEF TakeIfThere
<1> HIDE DEF q, no
<1> QED BY <1>5, <1>6, <1>7, <1>8

\* The recursion of the fold in TakeEach.
EachRec(f, t, lines) ==
    f = [s \in SUBSET DOMAIN lines |->
           IF s = {} THEN t ELSE TakeIfThere(f[s \ {Max(s)}], lines[Max(s)])]
EachFold(t, lines) == CHOOSE f : EachRec(f, t, lines)

\* The lines of fabric, accessories and applied fabric are taken one by one.
LEMMA EachSteps ==
    ASSUME NEW t \in Tallies, NEW lines \in Lines
    PROVE  \E h \in [0..Len(lines) -> Tallies] :
             /\ h[0] = t /\ h[Len(lines)] = TakeEach(t, lines)
             /\ \A n \in 1..Len(lines) : h[n] = TakeIfThere(h[n - 1], lines[n])
<1> DEFINE N == Len(lines)
           G == [p \in Tallies \X (1..N) |-> TakeIfThere(p[1], lines[p[2]])]
           f == EachFold(t, lines)
<1>1. N \in Nat /\ DOMAIN lines = 1..N /\ \A i \in 1..N : lines[i] \in Line(Sku)
    BY DEF Lines
<1>2. G \in Steps(Tallies, N) BY <1>1, TakeType DEF Steps
<1>3. \A x \in Tallies, i \in 1..N : G[<<x, i>>] = TakeIfThere(x, lines[i]) OBVIOUS
<1> HIDE DEF G, N
<1>4. \A s \in SUBSET (1..N) : s # {} =>
        Max(s) \in s /\ Max(s) \in 1..N /\ s \ {Max(s)} \in SUBSET (1..N)
    BY <1>1, MaxIn
<1>5. EachRec(f, t, lines)
  <2>1. PICK g : IsOver(g, G, t, Tallies, N) BY <1>1, <1>2, FoldOver
  <2>2. \A s \in SUBSET (1..N) :
             g[s] = IF s = {} THEN t ELSE TakeIfThere(g[s \ {Max(s)}], lines[Max(s)])
    BY <2>1, <1>3, <1>4 DEF IsOver
  <2>3. EachRec(g, t, lines) BY <1>1, <2>1, <2>2 DEF EachRec, IsOver
  <2> QED BY <2>3 DEF EachFold
<1>6. TakeEach(t, lines) = f[1..N]
    BY <1>1 DEF TakeEach, FoldLeft, MapThenFoldSet, EachFold, EachRec
<1> HIDE DEF f
<1>7. Follows(f, G, t, Tallies, N)
    BY <1>1, <1>3, <1>4, <1>5 DEF EachRec, Follows
<1>8. PICK h : Leads(h, f[1..N], G, t, Tallies, N) BY <1>1, <1>2, <1>7, FoldPrefix
<1>9. \A n \in 1..N : h[n] = TakeIfThere(h[n - 1], lines[n])
  <2>1. \A n \in 1..N : h[n - 1] \in Tallies BY <1>1, <1>8 DEF Leads
  <2> QED BY <1>3, <1>8, <2>1 DEF Leads
<1> QED BY <1>6, <1>8, <1>9 DEF N, Leads

\* The recursion of the fold in TakeAll.
AllRec(f, t, lines) ==
    f = [s \in SUBSET DOMAIN lines |->
           IF s = {} THEN t ELSE Take(f[s \ {Max(s)}], lines[Max(s)])]
AllFold(t, lines) == CHOOSE f : AllRec(f, t, lines)

\* So are the lines of colour variants, once they were compared.
LEMMA AllSteps ==
    ASSUME NEW t \in Tallies, NEW lines \in Lines
    PROVE  \E h \in [0..Len(lines) -> Tallies] :
             /\ h[0] = t /\ h[Len(lines)] = TakeAll(t, lines)
             /\ \A n \in 1..Len(lines) : h[n] = Take(h[n - 1], lines[n])
<1> DEFINE N == Len(lines)
           G == [p \in Tallies \X (1..N) |-> Take(p[1], lines[p[2]])]
           f == AllFold(t, lines)
<1>1. N \in Nat /\ DOMAIN lines = 1..N /\ \A i \in 1..N : lines[i] \in Line(Sku)
    BY DEF Lines
<1>2. G \in Steps(Tallies, N) BY <1>1, TakeType DEF Steps
<1>3. \A x \in Tallies, i \in 1..N : G[<<x, i>>] = Take(x, lines[i]) OBVIOUS
<1> HIDE DEF G, N
<1>4. \A s \in SUBSET (1..N) : s # {} =>
        Max(s) \in s /\ Max(s) \in 1..N /\ s \ {Max(s)} \in SUBSET (1..N)
    BY <1>1, MaxIn
<1>5. AllRec(f, t, lines)
  <2>1. PICK g : IsOver(g, G, t, Tallies, N) BY <1>1, <1>2, FoldOver
  <2>2. \A s \in SUBSET (1..N) :
             g[s] = IF s = {} THEN t ELSE Take(g[s \ {Max(s)}], lines[Max(s)])
    BY <2>1, <1>3, <1>4 DEF IsOver
  <2>3. AllRec(g, t, lines) BY <1>1, <2>1, <2>2 DEF AllRec, IsOver
  <2> QED BY <2>3 DEF AllFold
<1>6. TakeAll(t, lines) = f[1..N]
    BY <1>1 DEF TakeAll, FoldLeft, MapThenFoldSet, AllFold, AllRec
<1> HIDE DEF f
<1>7. Follows(f, G, t, Tallies, N)
    BY <1>1, <1>3, <1>4, <1>5 DEF AllRec, Follows
<1>8. PICK h : Leads(h, f[1..N], G, t, Tallies, N) BY <1>1, <1>2, <1>7, FoldPrefix
<1>9. \A n \in 1..N : h[n] = Take(h[n - 1], lines[n])
  <2>1. \A n \in 1..N : h[n - 1] \in Tallies BY <1>1, <1>8 DEF Leads
  <2> QED BY <1>3, <1>8, <2>1 DEF Leads
<1> QED BY <1>6, <1>8, <1>9 DEF N, Leads

\* A line given back leaves a stock.
LEMMA GiveType ==
    ASSUME NEW st \in Stocks, NEW l \in Line(Sku)
    PROVE  GiveBack(st, l) \in Stocks
<1>1. st[l.sku] + l.n \in Int BY DEF Line, Stocks
<1> QED BY <1>1 DEF GiveBack, Stocks

\* The recursion of the fold in GiveAll.
GiveRec(f, st, lines) ==
    f = [s \in SUBSET DOMAIN lines |->
           IF s = {} THEN st ELSE GiveBack(f[s \ {Max(s)}], lines[Max(s)])]
GiveFold(st, lines) == CHOOSE f : GiveRec(f, st, lines)

\* Lines are given back one by one.
LEMMA GiveSteps ==
    ASSUME NEW st \in Stocks, NEW lines \in Lines
    PROVE  \E h \in [0..Len(lines) -> Stocks] :
             /\ h[0] = st /\ h[Len(lines)] = GiveAll(st, lines)
             /\ \A n \in 1..Len(lines) : h[n] = GiveBack(h[n - 1], lines[n])
<1> DEFINE N == Len(lines)
           G == [p \in Stocks \X (1..N) |-> GiveBack(p[1], lines[p[2]])]
           f == GiveFold(st, lines)
<1>1. N \in Nat /\ DOMAIN lines = 1..N /\ \A i \in 1..N : lines[i] \in Line(Sku)
    BY DEF Lines
<1>2. G \in Steps(Stocks, N) BY <1>1, GiveType DEF Steps
<1>3. \A x \in Stocks, i \in 1..N : G[<<x, i>>] = GiveBack(x, lines[i]) OBVIOUS
<1> HIDE DEF G, N
<1>4. \A s \in SUBSET (1..N) : s # {} =>
        Max(s) \in s /\ Max(s) \in 1..N /\ s \ {Max(s)} \in SUBSET (1..N)
    BY <1>1, MaxIn
<1>5. GiveRec(f, st, lines)
  <2>1. PICK g : IsOver(g, G, st, Stocks, N) BY <1>1, <1>2, FoldOver
  <2>2. \A s \in SUBSET (1..N) :
             g[s] = IF s = {} THEN st ELSE GiveBack(g[s \ {Max(s)}], lines[Max(s)])
    BY <2>1, <1>3, <1>4 DEF IsOver
  <2>3. GiveRec(g, st, lines) BY <1>1, <2>1, <2>2 DEF GiveRec, IsOver
  <2> QED BY <2>3 DEF GiveFold
<1>6. GiveAll(st, lines) = f[1..N]
    BY <1>1 DEF GiveAll, FoldLeft, MapThenFoldSet, GiveFold, GiveRec
<1> HIDE DEF f
<1>7. Follows(f, G, st, Stocks, N)
    BY <1>1, <1>3, <1>4, <1>5 DEF GiveRec, Follows
<1>8. PICK h : Leads(h, f[1..N], G, st, Stocks, N) BY <1>1, <1>2, <1>7, FoldPrefix
<1>9. \A n \in 1..N : h[n] = GiveBack(h[n - 1], lines[n])
  <2>1. \A n \in 1..N : h[n - 1] \in Stocks BY <1>1, <1>8 DEF Leads
  <2> QED BY <1>3, <1>8, <2>1 DEF Leads
<1> QED BY <1>6, <1>8, <1>9 DEF N, Leads

\* A line adds to the need of its unit.
LEMMA AddType ==
    ASSUME NEW sum \in Int, NEW l \in Line(Sku), NEW k \in Sku
    PROVE  AddLine(sum, l, k) \in Int
BY DEF AddLine, Line

\* The recursion of the fold in NeedFrom.
NeedRec(f, sum, lines, k) ==
    f = [s \in SUBSET DOMAIN lines |->
           IF s = {} THEN sum ELSE AddLine(f[s \ {Max(s)}], lines[Max(s)], k)]
NeedFold(sum, lines, k) == CHOOSE f : NeedRec(f, sum, lines, k)

\* The lines' needs of a unit are added one by one.
LEMMA NeedSteps ==
    ASSUME NEW sum \in Int, NEW lines \in Lines, NEW k \in Sku
    PROVE  \E h \in [0..Len(lines) -> Int] :
             /\ h[0] = sum /\ h[Len(lines)] = NeedFrom(sum, lines, k)
             /\ \A n \in 1..Len(lines) : h[n] = AddLine(h[n - 1], lines[n], k)
<1> DEFINE N == Len(lines)
           G == [p \in Int \X (1..N) |-> AddLine(p[1], lines[p[2]], k)]
           f == NeedFold(sum, lines, k)
<1>1. N \in Nat /\ DOMAIN lines = 1..N /\ \A i \in 1..N : lines[i] \in Line(Sku)
    BY DEF Lines
<1>2. G \in Steps(Int, N) BY <1>1, AddType DEF Steps
<1>3. \A x \in Int, i \in 1..N : G[<<x, i>>] = AddLine(x, lines[i], k) OBVIOUS
<1> HIDE DEF G, N
<1>4. \A s \in SUBSET (1..N) : s # {} =>
        Max(s) \in s /\ Max(s) \in 1..N /\ s \ {Max(s)} \in SUBSET (1..N)
    BY <1>1, MaxIn
<1>5. NeedRec(f, sum, lines, k)
  <2>1. PICK g : IsOver(g, G, sum, Int, N) BY <1>1, <1>2, FoldOver
  <2>2. \A s \in SUBSET (1..N) :
             g[s] = IF s = {} THEN sum ELSE AddLine(g[s \ {Max(s)}], lines[Max(s)], k)
    BY <2>1, <1>3, <1>4 DEF IsOver
  <2>3. NeedRec(g, sum, lines, k) BY <1>1, <2>1, <2>2 DEF NeedRec, IsOver
  <2> QED BY <2>3 DEF NeedFold
<1>6. NeedFrom(sum, lines, k) = f[1..N]
    BY <1>1 DEF NeedFrom, AddLine, FoldLeft, MapThenFoldSet, NeedFold, NeedRec
<1> HIDE DEF f
<1>7. Follows(f, G, sum, Int, N)
    BY <1>1, <1>3, <1>4, <1>5 DEF NeedRec, Follows
<1>8. PICK h : Leads(h, f[1..N], G, sum, Int, N) BY <1>1, <1>2, <1>7, FoldPrefix
<1>9. \A n \in 1..N : h[n] = AddLine(h[n - 1], lines[n], k)
  <2>1. \A n \in 1..N : h[n - 1] \in Int BY <1>1, <1>8 DEF Leads
  <2> QED BY <1>3, <1>8, <2>1 DEF Leads
<1> QED BY <1>6, <1>8, <1>9 DEF N, Leads

-----------------------------------------------------------------------------
(* What lines take and give back                                           *)

\* How much of a unit each line names, all lines name, and of every unit.
Amount(lines, k) == [i \in DOMAIN lines |-> IF lines[i].sku = k THEN lines[i].n ELSE 0]
LineSum(lines, k) == SumFunctionOnSet(Amount(lines, k), DOMAIN lines)
LineNeed(lines) == [k \in Sku |-> LineSum(lines, k)]

\* One more index adds its value to a sum over the first ones.
LEMMA SumNext ==
    ASSUME NEW n \in Nat, n # 0, NEW f, \A i \in 1..n : f[i] \in Int
    PROVE  /\ SumFunctionOnSet(f, 1..(n - 1)) \in Int
           /\ SumFunctionOnSet(f, 1..n) = SumFunctionOnSet(f, 1..(n - 1)) + f[n]
<1> DEFINE S == 1..(n - 1)
<1>1. IsFiniteSet(S) BY FS_Interval
<1>2. 1..n = S \cup {n} /\ n \notin S OBVIOUS
<1>3. (\A i \in S : f[i] \in Int) /\ f[n] \in Int OBVIOUS
<1> HIDE DEF S
<1>4. SumFunctionOnSet(f, S \cup {n}) = SumFunctionOnSet(f, S) + f[n]
    BY ONLY <1>1, <1>2, <1>3, SumAdd
<1>5. SumFunctionOnSet(f, S) \in Int BY <1>1, <1>3, SumType
<1> QED BY <1>2, <1>4, <1>5 DEF S

\* The amounts lines name are amounts.
LEMMA AmountType ==
    ASSUME NEW lines \in Lines, NEW k
    PROVE  /\ Len(lines) \in Nat /\ DOMAIN lines = 1..Len(lines)
           /\ \A i \in 1..Len(lines) :
                /\ lines[i] \in Line(Sku)
                /\ Amount(lines, k)[i] \in Nat
                /\ Amount(lines, k)[i] = IF lines[i].sku = k THEN lines[i].n ELSE 0
           /\ LineSum(lines, k) \in Nat
           /\ LineSum(lines, k) = SumFunctionOnSet(Amount(lines, k), 1..Len(lines))
<1>1. /\ Len(lines) \in Nat /\ DOMAIN lines = 1..Len(lines)
      /\ \A i \in 1..Len(lines) : lines[i] \in Line(Sku)
    BY DEF Lines
<1>2. \A i \in 1..Len(lines) :
        /\ Amount(lines, k)[i] \in Nat
        /\ Amount(lines, k)[i] = IF lines[i].sku = k THEN lines[i].n ELSE 0
    BY <1>1 DEF Amount, Line
<1>3. LineSum(lines, k) = SumFunctionOnSet(Amount(lines, k), 1..Len(lines))
    BY <1>1 DEF LineSum
<1>4. LineSum(lines, k) \in Nat
  <2> DEFINE S == 1..Len(lines)
             f == Amount(lines, k)
  <2>1. IsFiniteSet(S) BY <1>1, FS_Interval
  <2>2. \A i \in S : f[i] \in Nat BY <1>2
  <2> HIDE DEF S, f
  <2>3. SumFunctionOnSet(f, S) \in Nat BY ONLY <2>1, <2>2, SumNat
  <2> QED BY <2>3, <1>3 DEF S, f
<1> QED BY <1>1, <1>2, <1>3, <1>4

\* The first n lines of a sequence name one line's amount more than the first
\* n - 1.
LEMMA AmountNext ==
    ASSUME NEW lines \in Lines, NEW k, NEW n \in 1..Len(lines)
    PROVE  /\ SumFunctionOnSet(Amount(lines, k), 1..(n - 1)) \in Int
           /\ SumFunctionOnSet(Amount(lines, k), 1..n)
                = SumFunctionOnSet(Amount(lines, k), 1..(n - 1))
                    + (IF lines[n].sku = k THEN lines[n].n ELSE 0)
<1> DEFINE f == Amount(lines, k)
<1>1. n \in Nat /\ n # 0 /\ (\A i \in 1..n : f[i] \in Int)
      /\ f[n] = IF lines[n].sku = k THEN lines[n].n ELSE 0
    BY AmountType
<1> HIDE DEF f
<1>2. /\ SumFunctionOnSet(f, 1..(n - 1)) \in Int
      /\ SumFunctionOnSet(f, 1..n) = SumFunctionOnSet(f, 1..(n - 1)) + f[n]
    BY <1>1, SumNext
<1> QED BY <1>1, <1>2 DEF f

\* The need of lines of a unit, as the model adds it up.
LEMMA NeedIs ==
    ASSUME NEW sum \in Int, NEW lines \in Lines, NEW k \in Sku
    PROVE  NeedFrom(sum, lines, k) = sum + LineSum(lines, k)
<1> DEFINE f == Amount(lines, k)
           N == Len(lines)
<1>1. PICK h \in [0..N -> Int] :
        /\ h[0] = sum /\ h[N] = NeedFrom(sum, lines, k)
        /\ \A n \in 1..N : h[n] = AddLine(h[n - 1], lines[n], k)
    BY NeedSteps
<1>2. N \in Nat /\ LineSum(lines, k) = SumFunctionOnSet(f, 1..N) BY AmountType
<1> DEFINE P == {n \in 0..N : h[n] = sum + SumFunctionOnSet(f, 1..n)}
<1>3. 0 \in P
  <2>1. 1..0 = {} /\ SumFunctionOnSet(f, {}) = 0 BY SumEmpty
  <2>2. SumFunctionOnSet(f, 1..0) = 0 BY <2>1
  <2> HIDE DEF f
  <2> QED BY <1>1, <1>2, <2>2
<1>4. ASSUME NEW n \in 1..N, n - 1 \in P PROVE n \in P
  <2>1. h[n - 1] = sum + SumFunctionOnSet(f, 1..(n - 1)) BY <1>4
  <2>2. /\ SumFunctionOnSet(f, 1..(n - 1)) \in Int
        /\ SumFunctionOnSet(f, 1..n) = SumFunctionOnSet(f, 1..(n - 1))
                    + (IF lines[n].sku = k THEN lines[n].n ELSE 0)
      BY AmountNext
  <2>3. h[n] = AddLine(h[n - 1], lines[n], k) BY <1>1
  <2>4. lines[n].n \in Nat BY AmountType DEF Line
  <2>5. h[n] = sum + SumFunctionOnSet(f, 1..n)
    <3> HIDE DEF f
    <3> QED BY <2>1, <2>2, <2>3, <2>4 DEF AddLine
  <2> QED BY <2>5
<1>5. N \in P
  <2>1. \A n \in 1..N : n - 1 \in P => n \in P BY <1>4
  <2>2. N \in Nat /\ N \in 0..N BY <1>2
  <2> HIDE DEF P, N, f
  <2> QED BY ONLY <2>1, <2>2, <1>3, Induction
<1> QED BY <1>1, <1>2, <1>5

\* Giving lines back adds what they name.
LEMMA GiveIs ==
    ASSUME NEW st \in Stocks, NEW lines \in Lines
    PROVE  /\ GiveAll(st, lines) \in Stocks
           /\ \A k \in Sku : GiveAll(st, lines)[k] = st[k] + LineSum(lines, k)
<1> DEFINE N == Len(lines)
<1>1. PICK h \in [0..N -> Stocks] :
        /\ h[0] = st /\ h[N] = GiveAll(st, lines)
        /\ \A n \in 1..N : h[n] = GiveBack(h[n - 1], lines[n])
    BY GiveSteps
<1>2. N \in Nat BY DEF Lines
<1>3. ASSUME NEW k \in Sku PROVE GiveAll(st, lines)[k] = st[k] + LineSum(lines, k)
  <2> DEFINE f == Amount(lines, k)
             P == {n \in 0..N : h[n][k] = st[k] + SumFunctionOnSet(f, 1..n)}
  <2>1. LineSum(lines, k) = SumFunctionOnSet(f, 1..N) BY AmountType
  <2>2. st[k] \in Int BY DEF Stocks
  <2>3. 0 \in P
    <3>1. 1..0 = {} /\ SumFunctionOnSet(f, {}) = 0 BY SumEmpty
    <3>2. SumFunctionOnSet(f, 1..0) = 0 BY <3>1
    <3> HIDE DEF f
    <3> QED BY <1>1, <1>2, <2>2, <3>2
  <2>4. ASSUME NEW n \in 1..N, n - 1 \in P PROVE n \in P
    <3>1. h[n - 1][k] = st[k] + SumFunctionOnSet(f, 1..(n - 1)) BY <2>4
    <3>2. /\ SumFunctionOnSet(f, 1..(n - 1)) \in Int
          /\ SumFunctionOnSet(f, 1..n) = SumFunctionOnSet(f, 1..(n - 1))
                    + (IF lines[n].sku = k THEN lines[n].n ELSE 0)
        BY AmountNext
    <3>3. h[n] = GiveBack(h[n - 1], lines[n]) /\ h[n - 1] \in Stocks BY <1>1, <1>2
    <3>4. lines[n].n \in Nat /\ lines[n].sku \in Sku BY AmountType DEF Line
    <3>5. h[n][k] = h[n - 1][k] + (IF lines[n].sku = k THEN lines[n].n ELSE 0)
        BY <3>3, <3>4 DEF GiveBack, Stocks
    <3>6. h[n][k] = st[k] + SumFunctionOnSet(f, 1..n)
      <4> HIDE DEF f
      <4> QED BY <2>2, <3>1, <3>2, <3>4, <3>5
    <3> QED BY <3>6
  <2>5. N \in P
    <3> HIDE DEF P, N
    <3> QED BY <1>2, <2>3, <2>4, Induction
  <2> QED BY <1>1, <2>1, <2>5
<1>4. GiveAll(st, lines) \in Stocks BY <1>1, <1>2
<1> QED BY <1>3, <1>4

-----------------------------------------------------------------------------
(* What a deduction takes                                                  *)

\* A deduction that could go on took an amount of each unit.
Took(t, u, need) ==
    u.ok => t.ok /\ \A k \in Sku : u.stock[k] = t.stock[k] - need[k]

\* No counter is below zero.
Covered(t) == \A k \in Sku : t.stock[k] >= 0

\* No unit of a colour variant is named by two lines of an item.
ColorsOnce(item) ==
    \A i, j \in DOMAIN item.color : item.color[i].sku = item.color[j].sku => i = j

\* Lines taken one by one: each is compared with what the ones before it left.
LEMMA EachTook ==
    ASSUME NEW t \in Tallies, NEW lines \in Lines
    PROVE  /\ TakeEach(t, lines) \in Tallies
           /\ Took(t, TakeEach(t, lines), LineNeed(lines))
           /\ Covered(t) /\ TakeEach(t, lines).ok => Covered(TakeEach(t, lines))
<1> DEFINE N == Len(lines)
<1>1. PICK h \in [0..N -> Tallies] :
        /\ h[0] = t /\ h[N] = TakeEach(t, lines)
        /\ \A n \in 1..N : h[n] = TakeIfThere(h[n - 1], lines[n])
    BY EachSteps
<1>2. N \in Nat BY DEF Lines
<1>3. ASSUME NEW n \in 1..N
      PROVE  /\ h[n - 1] \in Tallies /\ h[n - 1].stock \in [Sku -> Int]
             /\ lines[n] \in Line(Sku) /\ lines[n].n \in Nat /\ lines[n].sku \in Sku
  <2>1. h[n - 1] \in Tallies BY <1>1, <1>2
  <2>2. lines[n] \in Line(Sku) BY AmountType
  <2> QED BY <2>1, <2>2 DEF Tallies, Line
<1>4. ASSUME NEW n \in 1..N, h[n].ok
      PROVE  /\ h[n - 1].ok
             /\ h[n - 1].stock[lines[n].sku] >= lines[n].n
             /\ h[n] = Take(h[n - 1], lines[n])
  <2> DEFINE x == h[n - 1]
             e == lines[n]
             y == h[n]
  <2>1. y = TakeIfThere(x, e) /\ y.ok /\ x \in Tallies /\ e \in Line(Sku)
      BY <1>1, <1>3, <1>4
  <2> HIDE DEF x, e, y
  <2>2. x.ok /\ x.stock[e.sku] >= e.n /\ y = Take(x, e) BY <2>1, TakeType
  <2> QED BY <2>2 DEF x, e, y
<1>5. ASSUME NEW n \in 1..N, NEW k \in Sku, h[n].ok
      PROVE  h[n].stock[k] = h[n - 1].stock[k] - (IF lines[n].sku = k THEN lines[n].n ELSE 0)
  <2>1. h[n] = Take(h[n - 1], lines[n]) BY <1>4, <1>5
  <2>2. h[n - 1] \in Tallies /\ lines[n] \in Line(Sku) BY <1>3
  <2> QED BY ONLY <2>1, <2>2, k \in Sku, TakeType
<1>6. ASSUME NEW k \in Sku, TakeEach(t, lines).ok
      PROVE  t.ok /\ TakeEach(t, lines).stock[k] = t.stock[k] - LineSum(lines, k)
  <2> DEFINE f == Amount(lines, k)
             P == {n \in 0..N : h[n].ok =>
                     t.ok /\ h[n].stock[k] = t.stock[k] - SumFunctionOnSet(f, 1..n)}
  <2>1. LineSum(lines, k) = SumFunctionOnSet(f, 1..N) BY AmountType
  <2>2. t.stock[k] \in Int BY DEF Tallies
  <2>3. 0 \in P
    <3>1. 1..0 = {} /\ SumFunctionOnSet(f, {}) = 0 BY SumEmpty
    <3>2. SumFunctionOnSet(f, 1..0) = 0 BY <3>1
    <3> HIDE DEF f
    <3> QED BY <1>1, <1>2, <2>2, <3>2
  <2>4. ASSUME NEW n \in 1..N, n - 1 \in P PROVE n \in P
    <3> SUFFICES ASSUME h[n].ok
                 PROVE  t.ok /\ h[n].stock[k] = t.stock[k] - SumFunctionOnSet(f, 1..n)
        OBVIOUS
    <3>1. t.ok /\ h[n - 1].stock[k] = t.stock[k] - SumFunctionOnSet(f, 1..(n - 1))
        BY <1>4, <2>4
    <3>2. /\ SumFunctionOnSet(f, 1..(n - 1)) \in Int
          /\ SumFunctionOnSet(f, 1..n) = SumFunctionOnSet(f, 1..(n - 1))
                    + (IF lines[n].sku = k THEN lines[n].n ELSE 0)
        BY AmountNext
    <3>3. h[n].stock[k] = h[n - 1].stock[k] - (IF lines[n].sku = k THEN lines[n].n ELSE 0)
        BY <1>5
    <3>4. lines[n].n \in Nat BY <1>3
    <3> HIDE DEF f
    <3> QED BY <2>2, <3>1, <3>2, <3>3, <3>4
  <2>5. N \in P
    <3>1. \A n \in 1..N : n - 1 \in P => n \in P BY <2>4
    <3>2. N \in Nat /\ N \in 0..N BY <1>2
    <3> HIDE DEF P, N, f
    <3> QED BY ONLY <3>1, <3>2, <2>3, Induction
  <2> QED BY <1>1, <1>6, <2>1, <2>5
<1>7. ASSUME Covered(t), TakeEach(t, lines).ok PROVE Covered(TakeEach(t, lines))
  <2> DEFINE P == {n \in 0..N : h[n].ok => Covered(h[n])}
  <2>1. 0 \in P BY <1>1, <1>2, <1>7
  <2>2. ASSUME NEW n \in 1..N, n - 1 \in P PROVE n \in P
    <3> SUFFICES ASSUME h[n].ok, NEW k \in Sku PROVE h[n].stock[k] >= 0
        BY DEF Covered
    <3>1. h[n - 1].ok /\ h[n - 1].stock[lines[n].sku] >= lines[n].n BY <1>4
    <3>2. h[n - 1].stock[k] >= 0 BY <2>2, <3>1 DEF Covered
    <3>3. h[n].stock[k] = h[n - 1].stock[k] - (IF lines[n].sku = k THEN lines[n].n ELSE 0)
        BY <1>5
    <3> QED BY <1>3, <3>1, <3>2, <3>3
  <2>3. N \in P
    <3>1. \A n \in 1..N : n - 1 \in P => n \in P BY <2>2
    <3>2. N \in Nat /\ N \in 0..N BY <1>2
    <3> HIDE DEF P, N
    <3> QED BY ONLY <3>1, <3>2, <2>1, Induction
  <2> QED BY <1>1, <1>7, <2>3
<1>8. TakeEach(t, lines) \in Tallies BY <1>1, <1>2
<1>9. TakeEach(t, lines).ok => t.ok
  <2> DEFINE P == {n \in 0..N : h[n].ok => t.ok}
  <2>1. 0 \in P BY <1>1, <1>2
  <2>2. ASSUME NEW n \in 1..N, n - 1 \in P PROVE n \in P
    <3>1. h[n].ok => h[n - 1].ok BY <1>4
    <3> QED BY <2>2, <3>1
  <2>3. N \in P
    <3>1. N \in Nat /\ N \in 0..N BY <1>2
    <3> HIDE DEF P, N
    <3> QED BY <2>1, <2>2, <3>1, Induction
  <2> QED BY <1>1, <2>3
<1> QED BY <1>6, <1>7, <1>8, <1>9 DEF Took, LineNeed

\* Lines of colour variants: all of them are taken.
LEMMA AllTook ==
    ASSUME NEW t \in Tallies, NEW lines \in Lines
    PROVE  /\ TakeAll(t, lines) \in Tallies
           /\ TakeAll(t, lines).ok = t.ok
           /\ \A k \in Sku : TakeAll(t, lines).stock[k] = t.stock[k] - LineSum(lines, k)
<1> DEFINE N == Len(lines)
<1>1. PICK h \in [0..N -> Tallies] :
        /\ h[0] = t /\ h[N] = TakeAll(t, lines)
        /\ \A n \in 1..N : h[n] = Take(h[n - 1], lines[n])
    BY AllSteps
<1>2. N \in Nat BY DEF Lines
<1>3. ASSUME NEW n \in 1..N
      PROVE  /\ h[n - 1] \in Tallies /\ h[n - 1].stock \in [Sku -> Int]
             /\ lines[n] \in Line(Sku) /\ lines[n].n \in Nat /\ lines[n].sku \in Sku
  <2>1. h[n - 1] \in Tallies BY <1>1, <1>2
  <2>2. lines[n] \in Line(Sku) BY AmountType
  <2> QED BY <2>1, <2>2 DEF Tallies, Line
<1>4. ASSUME NEW n \in 1..N
      PROVE  /\ h[n].ok = h[n - 1].ok
             /\ \A k \in Sku : h[n].stock[k]
                    = h[n - 1].stock[k] - (IF lines[n].sku = k THEN lines[n].n ELSE 0)
  <2>1. h[n] = Take(h[n - 1], lines[n]) BY <1>1
  <2>2. h[n - 1] \in Tallies /\ lines[n] \in Line(Sku) BY <1>3
  <2> QED BY ONLY <2>1, <2>2, TakeType
<1>6. ASSUME NEW k \in Sku
      PROVE  TakeAll(t, lines).stock[k] = t.stock[k] - LineSum(lines, k)
  <2> DEFINE f == Amount(lines, k)
             P == {n \in 0..N : h[n].stock[k] = t.stock[k] - SumFunctionOnSet(f, 1..n)}
  <2>1. LineSum(lines, k) = SumFunctionOnSet(f, 1..N) BY AmountType
  <2>2. t.stock[k] \in Int BY DEF Tallies
  <2>3. 0 \in P
    <3>1. 1..0 = {} /\ SumFunctionOnSet(f, {}) = 0 BY SumEmpty
    <3>2. SumFunctionOnSet(f, 1..0) = 0 BY <3>1
    <3> HIDE DEF f
    <3> QED BY <1>1, <1>2, <2>2, <3>2
  <2>4. ASSUME NEW n \in 1..N, n - 1 \in P PROVE n \in P
    <3>1. h[n - 1].stock[k] = t.stock[k] - SumFunctionOnSet(f, 1..(n - 1)) BY <2>4
    <3>2. /\ SumFunctionOnSet(f, 1..(n - 1)) \in Int
          /\ SumFunctionOnSet(f, 1..n) = SumFunctionOnSet(f, 1..(n - 1))
                    + (IF lines[n].sku = k THEN lines[n].n ELSE 0)
        BY AmountNext
    <3>3. h[n].stock[k] = h[n - 1].stock[k] - (IF lines[n].sku = k THEN lines[n].n ELSE 0)
        BY <1>4
    <3>4. lines[n].n \in Nat BY <1>3
    <3>5. h[n].stock[k] = t.stock[k] - SumFunctionOnSet(f, 1..n)
      <4> HIDE DEF f
      <4> QED BY <2>2, <3>1, <3>2, <3>3, <3>4
    <3> QED BY <3>5
  <2>5. N \in P
    <3>1. \A n \in 1..N : n - 1 \in P => n \in P BY <2>4
    <3>2. N \in Nat /\ N \in 0..N BY <1>2
    <3> HIDE DEF P, N, f
    <3> QED BY ONLY <3>1, <3>2, <2>3, Induction
  <2> QED BY <1>1, <2>1, <2>5
<1>7. TakeAll(t, lines).ok = t.ok
  <2> DEFINE P == {n \in 0..N : h[n].ok = t.ok}
  <2>1. 0 \in P BY <1>1, <1>2
  <2>2. ASSUME NEW n \in 1..N, n - 1 \in P PROVE n \in P
    <3>1. h[n].ok = h[n - 1].ok /\ h[n - 1].ok = t.ok BY <1>4, <2>2
    <3> QED BY <3>1
  <2>3. N \in P
    <3>1. N \in Nat /\ N \in 0..N BY <1>2
    <3> HIDE DEF P, N
    <3> QED BY <2>1, <2>2, <3>1, Induction
  <2> QED BY <1>1, <2>3
<1>8. TakeAll(t, lines) \in Tallies BY <1>1, <1>2
<1> QED BY <1>6, <1>7, <1>8

\* Lines that name a unit at most once name what one of them does, or nothing.
LEMMA OnceSum ==
    ASSUME NEW lines \in Lines, NEW k \in Sku, NEW top \in Nat,
           \A i, j \in DOMAIN lines : lines[i].sku = lines[j].sku => i = j,
           \A i \in DOMAIN lines : lines[i].sku = k => lines[i].n <= top
    PROVE  LineSum(lines, k) <= top
<1> DEFINE f == Amount(lines, k)
           S == 1..Len(lines)
<1>1. /\ S = DOMAIN lines /\ IsFiniteSet(S) /\ LineSum(lines, k) = SumFunctionOnSet(f, S)
      /\ \A i \in S : f[i] \in Int /\ f[i] = IF lines[i].sku = k THEN lines[i].n ELSE 0
  <2>1. Len(lines) \in Nat /\ S = DOMAIN lines /\ LineSum(lines, k) = SumFunctionOnSet(f, S)
      BY AmountType
  <2>2. \A i \in S : f[i] \in Nat /\ f[i] = IF lines[i].sku = k THEN lines[i].n ELSE 0
      BY AmountType
  <2>3. IsFiniteSet(S) BY <2>1, FS_Interval
  <2> HIDE DEF f, S
  <2> QED BY <2>1, <2>2, <2>3
<1>2. CASE \E i \in S : lines[i].sku = k
  <2>1. PICK i \in S : lines[i].sku = k BY <1>2
  <2> DEFINE R == S \ {i}
  <2>2. IsFiniteSet(R) /\ \A j \in R : f[j] = 0
    <3>1. IsFiniteSet(R) BY <1>1, FS_Subset
    <3>2. \A j \in R : lines[j].sku # k BY <1>1, <2>1
    <3> HIDE DEF f
    <3> QED BY <1>1, <3>1, <3>2
  <2> HIDE DEF f, S
  <2>3. SumFunctionOnSet(f, S) = f[i] + SumFunctionOnSet(f, R)
      BY <1>1, SumRemove
  <2>4. SumFunctionOnSet(f, R) = 0
    <3> HIDE DEF R
    <3> QED BY ONLY <2>2, SumZero
  <2> QED BY <1>1, <2>1, <2>3, <2>4
<1>3. CASE \A i \in S : lines[i].sku # k
  <2>1. \A i \in S : f[i] = 0
    <3> HIDE DEF f
    <3> QED BY <1>1, <1>3
  <2> HIDE DEF f, S
  <2>2. SumFunctionOnSet(f, S) = 0 BY ONLY <1>1, <2>1, SumZero
  <2> QED BY <1>1, <2>2
<1> QED BY <1>2, <1>3

\* Colour variants: the comparison with one copy is enough where no unit is
\* named twice.
LEMMA ColorsTook ==
    ASSUME NEW t \in Tallies, NEW lines \in Lines
    PROVE  /\ TakeColors(t, lines) \in Tallies
           /\ Took(t, TakeColors(t, lines), LineNeed(lines))
           /\ Covered(t) /\ TakeColors(t, lines).ok
                /\ (\A i, j \in DOMAIN lines : lines[i].sku = lines[j].sku => i = j)
              => Covered(TakeColors(t, lines))
<1> DEFINE there == t.ok /\ \A i \in DOMAIN lines : t.stock[lines[i].sku] >= lines[i].n
           no == [t EXCEPT !.ok = FALSE]
<1>1. TakeColors(t, lines) = IF there THEN TakeAll(t, lines) ELSE no
    BY DEF TakeColors, TakeAll
<1>2. no \in Tallies /\ ~ no.ok BY DEF Tallies
<1>3. CASE there
  <2>1. TakeColors(t, lines) = TakeAll(t, lines) BY <1>1, <1>3
  <2>2. ASSUME Covered(t), \A i, j \in DOMAIN lines : lines[i].sku = lines[j].sku => i = j,
               NEW k \in Sku
        PROVE  t.stock[k] - LineSum(lines, k) >= 0
    <3>1. t.stock[k] \in Nat BY <2>2 DEF Covered, Tallies
    <3>2. LineSum(lines, k) <= t.stock[k] BY <1>3, <2>2, <3>1, OnceSum
    <3>3. LineSum(lines, k) \in Nat BY AmountType
    <3> QED BY <3>1, <3>2, <3>3
  <2> HIDE DEF there, no
  <2> QED BY <1>3, <2>1, <2>2, AllTook DEF Took, LineNeed, Covered, there
<1>4. CASE ~ there
  <2> HIDE DEF there, no
  <2> QED BY <1>1, <1>2, <1>4 DEF Took
<1> QED BY <1>3, <1>4

-----------------------------------------------------------------------------
(* What items take and give back                                           *)

\* The need of lines is a number.
LEMMA NeedType ==
    ASSUME NEW sum \in Int, NEW lines \in Lines, NEW k \in Sku
    PROVE  NeedFrom(sum, lines, k) \in Int
BY NeedIs, AmountType

\* Two sequences of lines, one after the other, name what both name.
LEMMA ConcatSum ==
    ASSUME NEW a \in Lines, NEW b \in Lines, NEW k \in Sku
    PROVE  a \o b \in Lines /\ LineSum(a \o b, k) = LineSum(a, k) + LineSum(b, k)
<1> DEFINE c == a \o b
           L == Len(a)
           N == Len(b)
           f == Amount(a, k)
           g == Amount(b, k)
           h == Amount(c, k)
<1>1. c \in Lines /\ L \in Nat /\ N \in Nat /\ Len(c) = L + N BY DEF Lines
<1>2. /\ \A i \in 1..L : c[i] = a[i]
      /\ \A i \in 1..N : c[L + i] = b[i] /\ L + i \in 1..Len(c)
    BY <1>1 DEF Lines
<1>3. /\ LineSum(a, k) = SumFunctionOnSet(f, 1..L) /\ LineSum(a, k) \in Nat
      /\ LineSum(c, k) = SumFunctionOnSet(h, 1..Len(c))
      /\ LineSum(b, k) = SumFunctionOnSet(g, 1..N)
    BY <1>1, AmountType
<1>4. SumFunctionOnSet(h, 1..L) = SumFunctionOnSet(f, 1..L)
  <2> DEFINE S == 1..L
  <2>1. IsFiniteSet(S) BY <1>1, FS_Interval
  <2>2. ASSUME NEW i \in S PROVE h[i] = f[i]
    <3>1. i \in 1..Len(c) BY <1>1
    <3>2. h[i] = IF c[i].sku = k THEN c[i].n ELSE 0 BY <1>1, <3>1, AmountType
    <3>3. f[i] = IF a[i].sku = k THEN a[i].n ELSE 0 BY AmountType
    <3> HIDE DEF f, h, c
    <3> QED BY <1>2, <3>2, <3>3
  <2> HIDE DEF S, f, h
  <2>3. SumFunctionOnSet(h, S) = SumFunctionOnSet(f, S) BY ONLY <2>1, <2>2, SumSame
  <2> QED BY <2>3 DEF S
<1> DEFINE P == {n \in 0..N : SumFunctionOnSet(h, 1..(L + n))
                               = LineSum(a, k) + SumFunctionOnSet(g, 1..n)}
<1>5. 0 \in P
  <2>1. 1..0 = {} /\ SumFunctionOnSet(g, {}) = 0 BY SumEmpty
  <2>2. SumFunctionOnSet(g, 1..0) = 0 BY <2>1
  <2>3. L + 0 = L BY <1>1
  <2> HIDE DEF f, g, h, L, N
  <2> QED BY <1>1, <1>3, <1>4, <2>2, <2>3
<1>6. ASSUME NEW n \in 1..N, n - 1 \in P PROVE n \in P
  <2>1. SumFunctionOnSet(h, 1..(L + (n - 1))) = LineSum(a, k) + SumFunctionOnSet(g, 1..(n - 1))
      BY <1>6
  <2>2. L + n \in 1..Len(c) /\ c[L + n] = b[n] /\ (L + n) - 1 = L + (n - 1)
      BY <1>1, <1>2
  <2>3. SumFunctionOnSet(h, 1..(L + n)) = SumFunctionOnSet(h, 1..((L + n) - 1))
                    + (IF c[L + n].sku = k THEN c[L + n].n ELSE 0)
    <3> HIDE DEF L, N, c
    <3> QED BY <1>1, <2>2, AmountNext
  <2>4. /\ SumFunctionOnSet(g, 1..(n - 1)) \in Int
        /\ SumFunctionOnSet(g, 1..n) = SumFunctionOnSet(g, 1..(n - 1))
                    + (IF b[n].sku = k THEN b[n].n ELSE 0)
    <3>1. n \in 1..Len(b) /\ b \in Lines OBVIOUS
    <3>2. /\ SumFunctionOnSet(Amount(b, k), 1..(n - 1)) \in Int
          /\ SumFunctionOnSet(Amount(b, k), 1..n)
               = SumFunctionOnSet(Amount(b, k), 1..(n - 1))
                    + (IF b[n].sku = k THEN b[n].n ELSE 0)
        BY ONLY <3>1, AmountNext
    <3> HIDE DEF f, h, L, N, c, P
    <3> QED BY ONLY <3>2 DEF g
  <2>5. b[n].n \in Nat BY AmountType DEF Line
  <2>6. SumFunctionOnSet(h, 1..(L + n)) = LineSum(a, k) + SumFunctionOnSet(g, 1..n)
    <3> HIDE DEF f, g, h, L, N, c
    <3> QED BY <1>3, <2>1, <2>2, <2>3, <2>4, <2>5
  <2> QED BY <2>6
<1>7. N \in P
  <2>1. N \in Nat /\ N \in 0..N BY <1>1
  <2> HIDE DEF P, N
  <2> QED BY <1>5, <1>6, <2>1, Induction
<1>8. SumFunctionOnSet(h, 1..(L + N)) = LineSum(a, k) + SumFunctionOnSet(g, 1..N) BY <1>7
<1> HIDE DEF f, g, h, L, N, c
<1> QED BY <1>1, <1>3, <1>8 DEF c

\* The lines of an item.
LEMMA ItemLinesType ==
    ASSUME NEW item \in ItemLines
    PROVE  /\ item.fabric \in Lines /\ item.accessory \in Lines
           /\ item.color \in Lines /\ item.applied \in Lines
           /\ LinesBack(item) \in Lines
           /\ \A k \in Sku : LineSum(LinesBack(item), k) =
                ((LineSum(item.fabric, k) + LineSum(item.accessory, k))
                   + LineSum(item.color, k)) + LineSum(item.applied, k)
<1> DEFINE a == item.fabric
           b == item.accessory
           c == item.color
           d == item.applied
<1>1. a \in Lines /\ b \in Lines /\ c \in Lines /\ d \in Lines BY DEF ItemLines, Lines
<1>2. LinesBack(item) = ((a \o b) \o c) \o d
  <2> USE DEF Lines
  <2> HIDE DEF a, b, c, d
  <2>1. LinesBack(item) = a \o b \o c \o d BY DEF LinesBack, a, b, c, d
  <2> QED BY <2>1, <1>1
<1> HIDE DEF a, b, c, d
<1>3. a \o b \in Lines /\ (a \o b) \o c \in Lines /\ ((a \o b) \o c) \o d \in Lines
    BY <1>1 DEF Lines
<1>4. ASSUME NEW k \in Sku
      PROVE  LineSum(((a \o b) \o c) \o d, k) =
                ((LineSum(a, k) + LineSum(b, k)) + LineSum(c, k)) + LineSum(d, k)
  <2>1. LineSum(a \o b, k) = LineSum(a, k) + LineSum(b, k) BY <1>1, ConcatSum
  <2>2. LineSum((a \o b) \o c, k) = LineSum(a \o b, k) + LineSum(c, k) BY <1>1, <1>3, ConcatSum
  <2>3. LineSum(((a \o b) \o c) \o d, k) = LineSum((a \o b) \o c, k) + LineSum(d, k)
      BY <1>1, <1>3, ConcatSum
  <2> QED BY <2>1, <2>2, <2>3
<1> QED BY <1>1, <1>2, <1>3, <1>4 DEF a, b, c, d

\* An item takes what its lines name, and goes below zero nowhere.
LEMMA ItemTook ==
    ASSUME NEW t \in Tallies, NEW item \in ItemLines
    PROVE  /\ TakeItem(t, item) \in Tallies
           /\ Took(t, TakeItem(t, item), LineNeed(LinesBack(item)))
           /\ Covered(t) /\ TakeItem(t, item).ok /\ ColorsOnce(item)
                => Covered(TakeItem(t, item))
<1> DEFINE a == item.fabric
           b == item.accessory
           c == item.color
           d == item.applied
           t1 == TakeEach(t, a)
           t2 == TakeEach(t1, b)
           t3 == TakeColors(t2, c)
           t4 == TakeEach(t3, d)
<1>1. a \in Lines /\ b \in Lines /\ c \in Lines /\ d \in Lines BY ItemLinesType
<1>2. TakeItem(t, item) = t4 BY DEF TakeItem
<1>3. ColorsOnce(item) => \A i, j \in DOMAIN c : c[i].sku = c[j].sku => i = j
    BY DEF ColorsOnce
<1>4. \A k \in Sku : LineSum(LinesBack(item), k) =
        ((LineSum(a, k) + LineSum(b, k)) + LineSum(c, k)) + LineSum(d, k)
    BY ItemLinesType
<1> HIDE DEF a, b, c, d
<1>5. /\ t1 \in Tallies /\ Took(t, t1, LineNeed(a))
      /\ Covered(t) /\ t1.ok => Covered(t1)
    BY <1>1, EachTook
<1> HIDE DEF t1
<1>6. /\ t2 \in Tallies /\ Took(t1, t2, LineNeed(b))
      /\ Covered(t1) /\ t2.ok => Covered(t2)
    BY <1>1, <1>5, EachTook
<1> HIDE DEF t2
<1>7. /\ t3 \in Tallies /\ Took(t2, t3, LineNeed(c))
      /\ Covered(t2) /\ t3.ok /\ ColorsOnce(item) => Covered(t3)
    BY <1>1, <1>3, <1>6, ColorsTook
<1> HIDE DEF t3
<1>8. /\ t4 \in Tallies /\ Took(t3, t4, LineNeed(d))
      /\ Covered(t3) /\ t4.ok => Covered(t4)
    BY <1>1, <1>7, EachTook
<1> HIDE DEF t4
<1>9. Took(t, t4, LineNeed(LinesBack(item)))
  <2> SUFFICES ASSUME t4.ok, NEW k \in Sku
               PROVE  t.ok /\ t4.stock[k] = t.stock[k] - LineSum(LinesBack(item), k)
      BY <1>5, <1>6, <1>7, <1>8 DEF Took, LineNeed
  <2>1. t4.ok /\ t3.ok /\ t2.ok /\ t1.ok /\ t.ok BY <1>5, <1>6, <1>7, <1>8 DEF Took
  <2>2. /\ t1.stock[k] = t.stock[k] - LineSum(a, k)
        /\ t2.stock[k] = t1.stock[k] - LineSum(b, k)
        /\ t3.stock[k] = t2.stock[k] - LineSum(c, k)
        /\ t4.stock[k] = t3.stock[k] - LineSum(d, k)
      BY <2>1, <1>5, <1>6, <1>7, <1>8 DEF Took, LineNeed
  <2>3. t.stock[k] \in Int BY DEF Tallies
  <2>4. LineSum(a, k) \in Nat /\ LineSum(b, k) \in Nat /\ LineSum(c, k) \in Nat
        /\ LineSum(d, k) \in Nat
      BY <1>1, AmountType
  <2> QED BY <1>4, <2>1, <2>2, <2>3, <2>4
<1>10. Covered(t) /\ t4.ok /\ ColorsOnce(item) => Covered(t4)
    BY <1>5, <1>6, <1>7, <1>8 DEF Took
<1> QED BY <1>2, <1>8, <1>9, <1>10

\* The recursion of the fold in DeductFrom.
DeductRec(f, t, items) ==
    f = [s \in SUBSET DOMAIN items |->
           IF s = {} THEN t ELSE TakeItem(f[s \ {Max(s)}], items[Max(s)])]
DeductFold(t, items) == CHOOSE f : DeductRec(f, t, items)

\* The items' lines are taken one item after the other.
LEMMA DeductSteps ==
    ASSUME NEW t \in Tallies, NEW items \in ItemList
    PROVE  \E h \in [0..Len(items) -> Tallies] :
             /\ h[0] = t /\ h[Len(items)] = DeductFrom(t, items)
             /\ \A n \in 1..Len(items) : h[n] = TakeItem(h[n - 1], items[n])
<1> DEFINE N == Len(items)
           G == [p \in Tallies \X (1..N) |-> TakeItem(p[1], items[p[2]])]
           f == DeductFold(t, items)
<1>1. N \in Nat /\ DOMAIN items = 1..N /\ \A i \in 1..N : items[i] \in ItemLines
    BY DEF ItemList
<1>2. G \in Steps(Tallies, N) BY <1>1, ItemTook DEF Steps
<1>3. \A x \in Tallies, i \in 1..N : G[<<x, i>>] = TakeItem(x, items[i]) OBVIOUS
<1> HIDE DEF G, N
<1>4. \A s \in SUBSET (1..N) : s # {} =>
        Max(s) \in s /\ Max(s) \in 1..N /\ s \ {Max(s)} \in SUBSET (1..N)
    BY <1>1, MaxIn
<1>5. DeductRec(f, t, items)
  <2>1. PICK g : IsOver(g, G, t, Tallies, N) BY <1>1, <1>2, FoldOver
  <2>2. \A s \in SUBSET (1..N) :
             g[s] = IF s = {} THEN t ELSE TakeItem(g[s \ {Max(s)}], items[Max(s)])
    BY <2>1, <1>3, <1>4 DEF IsOver
  <2>3. DeductRec(g, t, items) BY <1>1, <2>1, <2>2 DEF DeductRec, IsOver
  <2> QED BY <2>3 DEF DeductFold
<1>6. DeductFrom(t, items) = f[1..N]
    BY <1>1 DEF DeductFrom, FoldLeft, MapThenFoldSet, DeductFold, DeductRec
<1> HIDE DEF f
<1>7. Follows(f, G, t, Tallies, N)
    BY <1>1, <1>3, <1>4, <1>5 DEF DeductRec, Follows
<1>8. PICK h : Leads(h, f[1..N], G, t, Tallies, N) BY <1>1, <1>2, <1>7, FoldPrefix
<1>9. \A n \in 1..N : h[n] = TakeItem(h[n - 1], items[n])
  <2>1. \A n \in 1..N : h[n - 1] \in Tallies BY <1>1, <1>8 DEF Leads
  <2> QED BY <1>3, <1>8, <2>1 DEF Leads
<1> QED BY <1>6, <1>8, <1>9 DEF N, Leads

\* The recursion of the fold in GiveItems.
RestoreRec(f, st, items) ==
    f = [s \in SUBSET DOMAIN items |->
           IF s = {} THEN st ELSE GiveAll(f[s \ {Max(s)}], LinesBack(items[Max(s)]))]
RestoreFold(st, items) == CHOOSE f : RestoreRec(f, st, items)

\* So are they given back.
LEMMA RestoreSteps ==
    ASSUME NEW st \in Stocks, NEW items \in ItemList
    PROVE  \E h \in [0..Len(items) -> Stocks] :
             /\ h[0] = st /\ h[Len(items)] = GiveItems(st, items)
             /\ \A n \in 1..Len(items) : h[n] = GiveAll(h[n - 1], LinesBack(items[n]))
<1> DEFINE N == Len(items)
           G == [p \in Stocks \X (1..N) |-> GiveAll(p[1], LinesBack(items[p[2]]))]
           f == RestoreFold(st, items)
<1>1. N \in Nat /\ DOMAIN items = 1..N /\ \A i \in 1..N : items[i] \in ItemLines
    BY DEF ItemList
<1>2. G \in Steps(Stocks, N) BY <1>1, ItemLinesType, GiveIs DEF Steps
<1>3. \A x \in Stocks, i \in 1..N : G[<<x, i>>] = GiveAll(x, LinesBack(items[i])) OBVIOUS
<1> HIDE DEF G, N
<1>4. \A s \in SUBSET (1..N) : s # {} =>
        Max(s) \in s /\ Max(s) \in 1..N /\ s \ {Max(s)} \in SUBSET (1..N)
    BY <1>1, MaxIn
<1>5. RestoreRec(f, st, items)
  <2>1. PICK g : IsOver(g, G, st, Stocks, N) BY <1>1, <1>2, FoldOver
  <2>2. \A s \in SUBSET (1..N) :
             g[s] = IF s = {} THEN st ELSE GiveAll(g[s \ {Max(s)}], LinesBack(items[Max(s)]))
    BY <2>1, <1>3, <1>4 DEF IsOver
  <2>3. RestoreRec(g, st, items) BY <1>1, <2>1, <2>2 DEF RestoreRec, IsOver
  <2> QED BY <2>3 DEF RestoreFold
<1>6. GiveItems(st, items) = f[1..N]
    BY <1>1 DEF GiveItems, FoldLeft, MapThenFoldSet, RestoreFold, RestoreRec
<1> HIDE DEF f
<1>7. Follows(f, G, st, Stocks, N)
    BY <1>1, <1>3, <1>4, <1>5 DEF RestoreRec, Follows
<1>8. PICK h : Leads(h, f[1..N], G, st, Stocks, N) BY <1>1, <1>2, <1>7, FoldPrefix
<1>9. \A n \in 1..N : h[n] = GiveAll(h[n - 1], LinesBack(items[n]))
  <2>1. \A n \in 1..N : h[n - 1] \in Stocks BY <1>1, <1>8 DEF Leads
  <2> QED BY <1>3, <1>8, <2>1 DEF Leads
<1> QED BY <1>6, <1>8, <1>9 DEF N, Leads

\* The recursion of the fold in NeedOf.
ItemNeedRec(f, sum, items, k) ==
    f = [s \in SUBSET DOMAIN items |->
           IF s = {} THEN sum ELSE NeedFrom(f[s \ {Max(s)}], LinesBack(items[Max(s)]), k)]
ItemNeedFold(sum, items, k) == CHOOSE f : ItemNeedRec(f, sum, items, k)

\* And so are the items' needs added up.
LEMMA ItemNeedSteps ==
    ASSUME NEW sum \in Int, NEW items \in ItemList, NEW k \in Sku
    PROVE  \E h \in [0..Len(items) -> Int] :
             /\ h[0] = sum /\ h[Len(items)] = NeedOf(sum, items, k)
             /\ \A n \in 1..Len(items) : h[n] = NeedFrom(h[n - 1], LinesBack(items[n]), k)
<1> DEFINE N == Len(items)
           G == [p \in Int \X (1..N) |-> NeedFrom(p[1], LinesBack(items[p[2]]), k)]
           f == ItemNeedFold(sum, items, k)
<1>1. N \in Nat /\ DOMAIN items = 1..N /\ \A i \in 1..N : items[i] \in ItemLines
    BY DEF ItemList
<1>2. G \in Steps(Int, N) BY <1>1, ItemLinesType, NeedType DEF Steps
<1>3. \A x \in Int, i \in 1..N : G[<<x, i>>] = NeedFrom(x, LinesBack(items[i]), k) OBVIOUS
<1> HIDE DEF G, N
<1>4. \A s \in SUBSET (1..N) : s # {} =>
        Max(s) \in s /\ Max(s) \in 1..N /\ s \ {Max(s)} \in SUBSET (1..N)
    BY <1>1, MaxIn
<1>5. ItemNeedRec(f, sum, items, k)
  <2>1. PICK g : IsOver(g, G, sum, Int, N) BY <1>1, <1>2, FoldOver
  <2>2. \A s \in SUBSET (1..N) :
             g[s] = IF s = {} THEN sum ELSE NeedFrom(g[s \ {Max(s)}], LinesBack(items[Max(s)]), k)
    BY <2>1, <1>3, <1>4 DEF IsOver
  <2>3. ItemNeedRec(g, sum, items, k) BY <1>1, <2>1, <2>2 DEF ItemNeedRec, IsOver
  <2> QED BY <2>3 DEF ItemNeedFold
<1>6. NeedOf(sum, items, k) = f[1..N]
    BY <1>1 DEF NeedOf, FoldLeft, MapThenFoldSet, ItemNeedFold, ItemNeedRec
<1> HIDE DEF f
<1>7. Follows(f, G, sum, Int, N)
    BY <1>1, <1>3, <1>4, <1>5 DEF ItemNeedRec, Follows
<1>8. PICK h : Leads(h, f[1..N], G, sum, Int, N) BY <1>1, <1>2, <1>7, FoldPrefix
<1>9. \A n \in 1..N : h[n] = NeedFrom(h[n - 1], LinesBack(items[n]), k)
  <2>1. \A n \in 1..N : h[n - 1] \in Int BY <1>1, <1>8 DEF Leads
  <2> QED BY <1>3, <1>8, <2>1 DEF Leads
<1> QED BY <1>6, <1>8, <1>9 DEF N, Leads

\* How much of a unit each item needs, and all items need.
ItemAmount(items, k) == [i \in DOMAIN items |-> LineSum(LinesBack(items[i]), k)]
ItemSum(items, k) == SumFunctionOnSet(ItemAmount(items, k), DOMAIN items)

\* What items need is a number, and one more item adds what its lines name.
LEMMA ItemAmountType ==
    ASSUME NEW items \in ItemList, NEW k \in Sku
    PROVE  /\ Len(items) \in Nat /\ DOMAIN items = 1..Len(items)
           /\ \A i \in 1..Len(items) : items[i] \in ItemLines
           /\ ItemSum(items, k) \in Nat
           /\ ItemSum(items, k) = SumFunctionOnSet(ItemAmount(items, k), 1..Len(items))
           /\ \A n \in 1..Len(items) :
                /\ LineSum(LinesBack(items[n]), k) \in Nat
                /\ SumFunctionOnSet(ItemAmount(items, k), 1..(n - 1)) \in Int
                /\ SumFunctionOnSet(ItemAmount(items, k), 1..n)
                     = SumFunctionOnSet(ItemAmount(items, k), 1..(n - 1))
                         + LineSum(LinesBack(items[n]), k)
<1> DEFINE f == ItemAmount(items, k)
           S == 1..Len(items)
<1>1. /\ Len(items) \in Nat /\ DOMAIN items = 1..Len(items)
      /\ \A i \in S : items[i] \in ItemLines
    BY DEF ItemList
<1>2. ASSUME NEW i \in S
      PROVE  f[i] = LineSum(LinesBack(items[i]), k) /\ f[i] \in Nat
  <2>1. LinesBack(items[i]) \in Lines BY <1>1, ItemLinesType
  <2>2. LineSum(LinesBack(items[i]), k) \in Nat BY <2>1, AmountType
  <2> QED BY <1>1, <2>2 DEF ItemAmount
<1>3. ItemSum(items, k) = SumFunctionOnSet(f, S) BY <1>1 DEF ItemSum
<1>4. SumFunctionOnSet(f, S) \in Nat
  <2>1. IsFiniteSet(S) BY <1>1, FS_Interval
  <2> HIDE DEF f, S
  <2> QED BY ONLY <1>2, <2>1, SumNat
<1>5. ASSUME NEW n \in S
      PROVE  /\ SumFunctionOnSet(f, 1..(n - 1)) \in Int
             /\ SumFunctionOnSet(f, 1..n) = SumFunctionOnSet(f, 1..(n - 1)) + f[n]
  <2>1. n \in Nat /\ n # 0 /\ \A i \in 1..n : f[i] \in Int
    <3>1. n \in Nat /\ n # 0 /\ \A i \in 1..n : i \in S BY <1>1
    <3> HIDE DEF f, S
    <3> QED BY <1>2, <3>1
  <2> HIDE DEF f, S
  <2> QED BY ONLY <2>1, SumNext
<1>6. \A n \in S : /\ LineSum(LinesBack(items[n]), k) \in Nat
                   /\ SumFunctionOnSet(f, 1..(n - 1)) \in Int
                   /\ SumFunctionOnSet(f, 1..n)
                     = SumFunctionOnSet(f, 1..(n - 1)) + LineSum(LinesBack(items[n]), k)
  <2> HIDE DEF f, S
  <2> QED BY <1>2, <1>5
<1> HIDE DEF f
<1> QED BY <1>1, <1>3, <1>4, <1>6 DEF f

\* The need of an order's items, as the model adds it up.
LEMMA OrderNeedIs ==
    ASSUME NEW items \in ItemList, NEW k \in Sku
    PROVE  Need(items, k) = ItemSum(items, k)
<1> DEFINE f == ItemAmount(items, k)
           N == Len(items)
<1>1. PICK h \in [0..N -> Int] :
        /\ h[0] = 0 /\ h[N] = NeedOf(0, items, k)
        /\ \A n \in 1..N : h[n] = NeedFrom(h[n - 1], LinesBack(items[n]), k)
    BY ItemNeedSteps
<1>2. N \in Nat /\ ItemSum(items, k) = SumFunctionOnSet(f, 1..N) BY ItemAmountType
<1> DEFINE P == {n \in 0..N : h[n] = SumFunctionOnSet(f, 1..n)}
<1>3. 0 \in P
  <2>1. 1..0 = {} /\ SumFunctionOnSet(f, {}) = 0 BY SumEmpty
  <2>2. SumFunctionOnSet(f, 1..0) = 0 BY <2>1
  <2> HIDE DEF f
  <2> QED BY <1>1, <1>2, <2>2
<1>4. ASSUME NEW n \in 1..N, n - 1 \in P PROVE n \in P
  <2>1. h[n - 1] = SumFunctionOnSet(f, 1..(n - 1)) BY <1>4
  <2>2. /\ LineSum(LinesBack(items[n]), k) \in Nat /\ items[n] \in ItemLines
        /\ SumFunctionOnSet(f, 1..(n - 1)) \in Int
        /\ SumFunctionOnSet(f, 1..n)
             = SumFunctionOnSet(f, 1..(n - 1)) + LineSum(LinesBack(items[n]), k)
      BY ItemAmountType
  <2>3. LinesBack(items[n]) \in Lines BY <2>2, ItemLinesType
  <2>4. h[n] = NeedFrom(h[n - 1], LinesBack(items[n]), k) BY <1>1
  <2> HIDE DEF f
  <2>5. h[n - 1] \in Int BY <2>1, <2>2
  <2>6. h[n] = h[n - 1] + LineSum(LinesBack(items[n]), k)
      BY <2>3, <2>4, <2>5, NeedIs
  <2>7. h[n] = SumFunctionOnSet(f, 1..n) BY <2>1, <2>2, <2>6
  <2> QED BY <2>7
<1>5. N \in P
  <2>1. N \in Nat /\ N \in 0..N BY <1>2
  <2> HIDE DEF P, N, f
  <2> QED BY <2>1, <1>3, <1>4, Induction
<1>6. Need(items, k) = NeedOf(0, items, k)
    BY DEF Need, NeedOf, NeedFrom, LinesBack
<1> QED BY <1>1, <1>2, <1>5, <1>6

\* Restoring an order gives back what its items need.
LEMMA RestoreIs ==
    ASSUME NEW st \in Stocks, NEW items \in ItemList
    PROVE  /\ Restore(st, items) \in Stocks
           /\ \A k \in Sku : Restore(st, items)[k] = st[k] + ItemSum(items, k)
<1> DEFINE N == Len(items)
<1>1. PICK h \in [0..N -> Stocks] :
        /\ h[0] = st /\ h[N] = GiveItems(st, items)
        /\ \A n \in 1..N : h[n] = GiveAll(h[n - 1], LinesBack(items[n]))
    BY RestoreSteps
<1>2. N \in Nat /\ \A i \in 1..N : items[i] \in ItemLines BY DEF ItemList
<1>3. ASSUME NEW k \in Sku PROVE h[N][k] = st[k] + ItemSum(items, k)
  <2> DEFINE f == ItemAmount(items, k)
             P == {n \in 0..N : h[n][k] = st[k] + SumFunctionOnSet(f, 1..n)}
  <2>1. ItemSum(items, k) = SumFunctionOnSet(f, 1..N) BY ItemAmountType
  <2>2. st[k] \in Int BY DEF Stocks
  <2>3. 0 \in P
    <3>1. 1..0 = {} /\ SumFunctionOnSet(f, {}) = 0 BY SumEmpty
    <3>2. SumFunctionOnSet(f, 1..0) = 0 BY <3>1
    <3> HIDE DEF f
    <3> QED BY <1>1, <1>2, <2>2, <3>2
  <2>4. ASSUME NEW n \in 1..N, n - 1 \in P PROVE n \in P
    <3>1. h[n - 1][k] = st[k] + SumFunctionOnSet(f, 1..(n - 1)) BY <2>4
    <3>2. /\ LineSum(LinesBack(items[n]), k) \in Nat
          /\ SumFunctionOnSet(f, 1..(n - 1)) \in Int
          /\ SumFunctionOnSet(f, 1..n)
               = SumFunctionOnSet(f, 1..(n - 1)) + LineSum(LinesBack(items[n]), k)
        BY ItemAmountType
    <3>3. LinesBack(items[n]) \in Lines /\ h[n - 1] \in Stocks
        BY <1>1, <1>2, ItemLinesType
    <3>4. h[n] = GiveAll(h[n - 1], LinesBack(items[n])) BY <1>1
    <3>5. h[n][k] = h[n - 1][k] + LineSum(LinesBack(items[n]), k) BY <3>3, <3>4, GiveIs
    <3>6. h[n][k] = st[k] + SumFunctionOnSet(f, 1..n)
      <4> HIDE DEF f
      <4> QED BY <2>2, <3>1, <3>2, <3>5
    <3> QED BY <3>6
  <2>5. N \in P
    <3>1. N \in Nat /\ N \in 0..N BY <1>2
    <3> HIDE DEF P, N, f
    <3> QED BY <3>1, <2>3, <2>4, Induction
  <2> QED BY <2>1, <2>5
<1>4. h[N] \in Stocks BY <1>1, <1>2
<1>5. Restore(st, items) = h[N] BY <1>1 DEF Restore, GiveItems, GiveAll
<1> HIDE DEF N
<1> QED BY <1>3, <1>4, <1>5

\* A deduction that succeeds takes what the order's items need, and leaves no
\* counter below zero.
LEMMA DeductIs ==
    ASSUME NEW st \in Stocks, NEW items \in ItemList, Deduct(st, items).ok
    PROVE  /\ Deduct(st, items).stock \in Stocks
           /\ \A k \in Sku : Deduct(st, items).stock[k] = st[k] - ItemSum(items, k)
           /\ (\A k \in Sku : st[k] >= 0) /\ (\A i \in DOMAIN items : ColorsOnce(items[i]))
                => \A k \in Sku : Deduct(st, items).stock[k] >= 0
<1> DEFINE N == Len(items)
           t == Taking(st)
<1>0. t \in Tallies /\ t.ok /\ t.stock = st BY DEF Taking, Tallies, Stocks
<1> HIDE DEF t
<1>1. PICK h \in [0..N -> Tallies] :
        /\ h[0] = t /\ h[N] = DeductFrom(t, items)
        /\ \A n \in 1..N : h[n] = TakeItem(h[n - 1], items[n])
    BY <1>0, DeductSteps
<1>2. N \in Nat /\ DOMAIN items = 1..N /\ \A i \in 1..N : items[i] \in ItemLines
    BY DEF ItemList
<1>3. ASSUME NEW n \in 1..N
      PROVE  /\ Took(h[n - 1], h[n], LineNeed(LinesBack(items[n])))
             /\ Covered(h[n - 1]) /\ h[n].ok /\ ColorsOnce(items[n]) => Covered(h[n])
  <2>1. h[n - 1] \in Tallies /\ items[n] \in ItemLines /\ h[n] = TakeItem(h[n - 1], items[n])
      BY <1>1, <1>2
  <2> QED BY ONLY <2>1, ItemTook
<1>4. ASSUME NEW k \in Sku, h[N].ok
      PROVE  h[N].stock[k] = st[k] - ItemSum(items, k)
  <2> DEFINE f == ItemAmount(items, k)
             P == {n \in 0..N : h[n].ok => h[n].stock[k] = st[k] - SumFunctionOnSet(f, 1..n)}
  <2>1. ItemSum(items, k) = SumFunctionOnSet(f, 1..N) BY ItemAmountType
  <2>2. st[k] \in Int BY DEF Stocks
  <2>3. 0 \in P
    <3>1. 1..0 = {} /\ SumFunctionOnSet(f, {}) = 0 BY SumEmpty
    <3>2. SumFunctionOnSet(f, 1..0) = 0 BY <3>1
    <3> HIDE DEF f
    <3> QED BY <1>0, <1>1, <1>2, <2>2, <3>2
  <2>4. ASSUME NEW n \in 1..N, n - 1 \in P PROVE n \in P
    <3> SUFFICES ASSUME h[n].ok PROVE h[n].stock[k] = st[k] - SumFunctionOnSet(f, 1..n)
        OBVIOUS
    <3>0. h[n - 1].ok /\ h[n].stock[k] = h[n - 1].stock[k] - LineSum(LinesBack(items[n]), k)
        BY <1>3 DEF Took, LineNeed
    <3>1. h[n - 1].stock[k] = st[k] - SumFunctionOnSet(f, 1..(n - 1)) BY <2>4, <3>0
    <3>2. /\ LineSum(LinesBack(items[n]), k) \in Nat
          /\ SumFunctionOnSet(f, 1..(n - 1)) \in Int
          /\ SumFunctionOnSet(f, 1..n)
               = SumFunctionOnSet(f, 1..(n - 1)) + LineSum(LinesBack(items[n]), k)
        BY ItemAmountType
    <3> HIDE DEF f
    <3> QED BY <2>2, <3>0, <3>1, <3>2
  <2>5. N \in P
    <3>1. N \in Nat /\ N \in 0..N BY <1>2
    <3> HIDE DEF P, N, f
    <3> QED BY <3>1, <2>3, <2>4, Induction
  <2> QED BY <1>4, <2>1, <2>5
<1>5. ASSUME h[N].ok, \A k \in Sku : st[k] >= 0, \A i \in DOMAIN items : ColorsOnce(items[i])
      PROVE  Covered(h[N])
  <2> DEFINE P == {n \in 0..N : h[n].ok => Covered(h[n])}
  <2>1. 0 \in P BY <1>0, <1>1, <1>2, <1>5 DEF Covered
  <2>2. ASSUME NEW n \in 1..N, n - 1 \in P PROVE n \in P
    <3> SUFFICES ASSUME h[n].ok PROVE Covered(h[n]) OBVIOUS
    <3>1. h[n - 1].ok BY <1>3 DEF Took
    <3>2. ColorsOnce(items[n]) BY <1>2, <1>5
    <3> QED BY <1>3, <2>2, <3>1, <3>2
  <2>3. N \in P
    <3>1. N \in Nat /\ N \in 0..N BY <1>2
    <3> HIDE DEF P, N
    <3> QED BY <3>1, <2>1, <2>2, Induction
  <2> QED BY <1>5, <2>3
<1>6. h[N] \in Tallies BY <1>1, <1>2
<1>7. Deduct(st, items) = h[N] BY <1>1 DEF Deduct, DeductFrom, t
<1> HIDE DEF N
<1> QED BY <1>4, <1>5, <1>6, <1>7 DEF Covered, Tallies, Stocks

-----------------------------------------------------------------------------
(* The stock                                                               *)

\* What the orders of a collection of documents hold of a unit.
HeldIn(docs, k) == [o \in Order |-> IF docs[o].deducted THEN ItemSum(Items[o], k) ELSE 0]
HoldSum(docs, k) == SumFunctionOnSet(HeldIn(docs, k), Order)

\* Every unit is in stock or held.
StockAddsUp ==
    /\ stock \in Stocks
    /\ \A k \in Sku : stock[k] + Held(k) = supply[k]

StockInv ==
    /\ stock \in Stocks
    /\ supply \in Stocks
    /\ \A k \in Sku : stock[k] + HoldSum(order, k) = supply[k]

NothingOversold == \A k \in Sku : stock[k] >= 0

\* The steps that move stock, and those that do not.
Deducts(o) ==
    /\ ~order[o].deducted
    /\ Deduct(stock, Items[o]).ok
    /\ stock' = Deduct(stock, Items[o]).stock
    /\ order' = [order EXCEPT ![o].deducted = TRUE]

Restores(o) ==
    /\ order[o].deducted
    /\ stock' = Restore(stock, Items[o])
    /\ order' = [order EXCEPT ![o].deducted = FALSE]

KeepsStock ==
    /\ stock' = stock
    /\ \A o \in Order : order'[o].deducted = order[o].deducted

\* What an order holds is a number.
LEMMA HeldInType ==
    ASSUME NEW docs, NEW k \in Sku
    PROVE  \A o \in Order : HeldIn(docs, k)[o] \in Nat
<1>1. \A o \in Order : Items[o] \in ItemList BY CheckoutAssumption DEF ItemList
<1>2. \A o \in Order : ItemSum(Items[o], k) \in Nat BY <1>1, ItemAmountType
<1> QED BY <1>2 DEF HeldIn

\* What the orders hold, in the property's words.
LEMMA HeldIs ==
    ASSUME IsFiniteSet(Order), NEW k \in Sku
    PROVE  Held(k) = HoldSum(order, k)
<1> DEFINE S == Order
           T == {o \in Order : order[o].deducted}
           f == [o \in Order |-> Need(Items[o], k)]
           g == [o \in S |-> IF o \in T THEN f[o] ELSE 0]
           h == HeldIn(order, k)
<1>1. \A o \in Order : Items[o] \in ItemList BY CheckoutAssumption DEF ItemList
<1>2. \A o \in Order : f[o] = ItemSum(Items[o], k) /\ f[o] \in Int
    BY <1>1, OrderNeedIs, ItemAmountType
<1>3. Held(k) = SumFunctionOnSet(f, T) BY DEF Held, SumFunctionOnSet
<1>4. T \subseteq S /\ \A o \in T : f[o] \in Int BY <1>2
<1>5. \A o \in S : g[o] = h[o] BY <1>2 DEF HeldIn
<1> HIDE DEF f, T, h
<1>6. SumFunctionOnSet(f, T) = SumFunctionOnSet(g, S)
    BY IsFiniteSet(Order), <1>4, SumPart
<1>7. SumFunctionOnSet(g, S) = SumFunctionOnSet(h, S)
  <2> HIDE DEF g
  <2> QED BY ONLY IsFiniteSet(Order), <1>5, SumSame
<1> QED BY <1>3, <1>6, <1>7 DEF HoldSum, h

\* Orders that keep their flags hold what they held.
LEMMA HoldsSame ==
    ASSUME IsFiniteSet(Order), NEW a, NEW b, NEW k,
           \A o \in Order : a[o].deducted = b[o].deducted
    PROVE  HoldSum(b, k) = HoldSum(a, k)
<1> DEFINE f == HeldIn(a, k)
           g == HeldIn(b, k)
<1>1. \A o \in Order : g[o] = f[o] BY DEF HeldIn
<1> HIDE DEF f, g
<1>2. SumFunctionOnSet(g, Order) = SumFunctionOnSet(f, Order)
    BY ONLY IsFiniteSet(Order), <1>1, SumSame
<1> QED BY <1>2 DEF HoldSum, f, g

\* An order whose flag is set holds its items' need on top.
LEMMA HoldsMore ==
    ASSUME IsFiniteSet(Order), NEW a, NEW b, NEW k \in Sku, NEW p \in Order,
           \A o \in Order \ {p} : a[o].deducted = b[o].deducted,
           ~ a[p].deducted, b[p].deducted
    PROVE  /\ HoldSum(a, k) \in Nat /\ ItemSum(Items[p], k) \in Nat
           /\ HoldSum(b, k) = HoldSum(a, k) + ItemSum(Items[p], k)
<1> DEFINE f == HeldIn(a, k)
           g == HeldIn(b, k)
<1>1. \A o \in Order : f[o] \in Nat /\ g[o] \in Nat BY HeldInType
<1>2. \A o \in Order : o # p => g[o] = f[o] BY DEF HeldIn
<1>3. f[p] = 0 /\ g[p] = ItemSum(Items[p], k) BY DEF HeldIn
<1> HIDE DEF f, g
<1>4. \A o \in Order : f[o] \in Int /\ g[o] \in Int BY <1>1
<1>5. SumFunctionOnSet(g, Order) = SumFunctionOnSet(f, Order) + g[p] - f[p]
    BY ONLY IsFiniteSet(Order), p \in Order, <1>2, <1>4, SumUpdate
<1>6. SumFunctionOnSet(f, Order) \in Nat BY ONLY IsFiniteSet(Order), <1>1, SumNat
<1>7. g[p] \in Nat BY <1>1
<1>8. HoldSum(b, k) = SumFunctionOnSet(g, Order) /\ HoldSum(a, k) = SumFunctionOnSet(f, Order)
    BY DEF HoldSum, f, g
<1> QED BY <1>3, <1>5, <1>6, <1>7, <1>8

\* The operations on stock, as the invariant sees them.
LEMMA StockOperations ==
    ASSUME TypeOK, NEW o \in Order
    PROVE  /\ UpdateInventory(o) => Deducts(o) \/ KeepsStock
           /\ RestoreInventory(o) => Restores(o) \/ KeepsStock
           /\ DeleteOrder(o) /\ UNCHANGED stock => KeepsStock
           /\ RecordEarnings(o) /\ UNCHANGED stock => KeepsStock
           /\ UNCHANGED goodsVars => KeepsStock
<1>1. UpdateInventory(o) => Deducts(o) \/ KeepsStock
    BY DEF UpdateInventory, Short, MayDeduct, Deducts, KeepsStock
<1>2. RestoreInventory(o) => Restores(o) \/ KeepsStock
    BY DEF RestoreInventory, Restores, KeepsStock
<1>3. DeleteOrder(o) /\ UNCHANGED stock => KeepsStock
    BY DEF DeleteOrder, KeepsStock, TypeOK
<1>4. RecordEarnings(o) /\ UNCHANGED stock => KeepsStock
    BY DEF RecordEarnings, KeepsStock, TypeOK
<1>5. UNCHANGED goodsVars => KeepsStock BY DEF goodsVars, KeepsStock
<1> QED BY <1>1, <1>2, <1>3, <1>4, <1>5

Moves == (\E o \in Order : Deducts(o) \/ Restores(o)) \/ KeepsStock

\* Every step deducts or restores one order, or moves no stock.
LEMMA StockSteps ==
    ASSUME TypeOK, [Next]_vars
    PROVE  supply' = supply /\ Moves
<1> USE DEF Moves
<1>1. ASSUME NEW o \in Order, Place(o) \/ CreateStep(o) \/ Fail(o) \/ Charge(o) \/ Decline(o)
      PROVE  supply' = supply /\ Moves
    <2> USE DEF buyFrame, buyRest, goodsVars
    <2>1. CASE Place(o)
        BY <2>1 DEF Place, KeepsStock, TypeOK
    <2>2. CASE CheckBalance(o)
        BY <2>2, StockOperations DEF CheckBalance
    <2>3. CASE DeductStock(o)
        BY <2>3, StockOperations DEF DeductStock
    <2>4. CASE Debit(o) \/ CreateTx(o) \/ SaveTx(o) \/ UndoDebit(o) \/ InitPayment(o)
        BY <2>4, StockOperations DEF Debit, CreateTx, SaveTx, UndoDebit, InitPayment
    <2>5. CASE SaveOrder(o)
        BY <2>5 DEF SaveOrder, KeepsStock, TypeOK
    <2>6. CASE Record(o) \/ Fail(o)
        BY <2>6, StockOperations DEF Record, Fail
    <2>7. CASE UndoStock(o)
        BY <2>7, StockOperations DEF UndoStock
    <2>8. CASE UndoOrder(o)
        BY <2>8, StockOperations DEF UndoOrder
    <2>9. CASE Charge(o) \/ Decline(o)
        BY <2>9, StockOperations DEF Charge, Decline
    <2> QED BY <1>1, <2>1, <2>2, <2>3, <2>4, <2>5, <2>6, <2>7, <2>8, <2>9 DEF CreateStep
<1>2. ASSUME NEW a \in Finaliser, FinaliseStep(a) \/ FinaliseError(a)
      PROVE  supply' = supply /\ Moves
    <2> DEFINE o == call[a].o
    <2>1. o \in Order
        BY <1>2, ServingFields DEF FinaliseStep, Pay, FinaliseRecord, FinaliseDeduct,
                                   FinaliseShort, FinaliseError, Working, Serving
    <2>2. CASE Pay(a)
        BY <2>1, <2>2 DEF Pay, KeepsStock, callFrame, TypeOK
    <2>3. CASE FinaliseRecord(a)
        BY <2>1, <2>3, StockOperations DEF FinaliseRecord, callFrame
    <2>4. CASE FinaliseDeduct(a)
        BY <2>1, <2>4, StockOperations DEF FinaliseDeduct, callFrame
    <2>5. CASE FinaliseShort(a)
        BY <2>1, <2>5, StockOperations DEF FinaliseShort, goodsVars
    <2>6. CASE FinaliseError(a)
        BY <2>1, <2>6, StockOperations DEF FinaliseError, goodsVars
    <2> QED BY <1>2, <2>2, <2>3, <2>4, <2>5, <2>6 DEF FinaliseStep
<1>3. ASSUME \/ \E h \in Webhook :
                  (\E o \in Order, event \in Event : HookLoad(h, o, event)) \/ HookSave(h)
             \/ \E v \in Verifier : (\E o \in Order : VerifyLoad(v, o)) \/ VerifyCarriedOn(v)
             \/ \E o \in Order, event \in Event : HookIgnore(o, event)
             \/ Crash \/ UNCHANGED vars
      PROVE  supply' = supply /\ Moves
    <2>1. supply' = supply /\ UNCHANGED goodsVars
        BY <1>3 DEF HookLoad, HookSave, VerifyLoad, VerifyCarriedOn, VerifyAnswered,
                    VerifyClaim, VerifyFail, VerifyFresh, VerifyEnd, HookIgnore, Crash,
                    callFrame, vars, goodsVars
    <2> QED BY <2>1 DEF KeepsStock, goodsVars
<1>4. ASSUME NEW o \in Canceller, CancelLoad(o) \/ CancelStep(o)
      PROVE  supply' = supply /\ Moves
    <2>1. o \in Order BY CheckoutAssumption
    <2>2. CASE CancelLoad(o) \/ CancelCredit(o)
        BY <2>1, <2>2, StockOperations DEF CancelLoad, CancelCredit, cancelFrame
    <2>3. CASE CancelSave(o)
        <3>1. UNCHANGED <<supply, stock>> BY <2>3 DEF CancelSave, cancelFrame
        <3>2. \/ order' = order
              \/ order' = [order EXCEPT ![o].status = "cancelled"]
            BY <2>3 DEF CancelSave
        <3>3. \A p \in Order : order'[p].deducted = order[p].deducted
            BY <3>2 DEF TypeOK
        <3> QED BY <3>1, <3>3 DEF KeepsStock
    <2>4. CASE CancelRestore(o)
        BY <2>1, <2>4, StockOperations DEF CancelRestore, cancelFrame
    <2> QED BY <1>4, <2>2, <2>3, <2>4 DEF CancelStep
<1> QED BY <1>1, <1>2, <1>3, <1>4 DEF Next

\* A step keeps every unit accounted for.
LEMMA NextStock ==
    ASSUME IsFiniteSet(Order), TypeOK, StockInv, [Next]_vars
    PROVE  /\ StockInv'
           /\ (\A o \in Order : \A i \in DOMAIN Items[o] : ColorsOnce(Items[o][i]))
                /\ NothingOversold => NothingOversold'
<1>0. supply' = supply /\ Moves BY StockSteps
<1>1. \A o \in Order : Items[o] \in ItemList BY CheckoutAssumption DEF ItemList
<1>2. \A k \in Sku : stock[k] \in Int /\ supply[k] \in Int BY DEF StockInv, Stocks
<1>3. ASSUME NEW o \in Order, Deducts(o)
      PROVE  /\ StockInv'
             /\ (\A i \in DOMAIN Items[o] : ColorsOnce(Items[o][i]))
                  /\ NothingOversold => NothingOversold'
    <2>1. ~order[o].deducted /\ order'[o].deducted
        BY <1>3 DEF Deducts, TypeOK
    <2>2. \A p \in Order \ {o} : order[p].deducted = order'[p].deducted
        BY <1>3 DEF Deducts, TypeOK
    <2>3. /\ stock' \in Stocks
          /\ \A k \in Sku : stock'[k] = stock[k] - ItemSum(Items[o], k)
          /\ NothingOversold /\ (\A i \in DOMAIN Items[o] : ColorsOnce(Items[o][i]))
               => \A k \in Sku : stock'[k] >= 0
        BY <1>1, <1>3, DeductIs DEF Deducts, StockInv, NothingOversold
    <2>4. ASSUME NEW k \in Sku PROVE stock'[k] + HoldSum(order', k) = supply[k]
        <3>1. /\ HoldSum(order, k) \in Nat /\ ItemSum(Items[o], k) \in Nat
              /\ HoldSum(order', k) = HoldSum(order, k) + ItemSum(Items[o], k)
            BY <2>1, <2>2, HoldsMore
        <3>2. stock[k] + HoldSum(order, k) = supply[k] BY DEF StockInv
        <3> QED BY <1>2, <2>3, <3>1, <3>2
    <2> QED BY <1>0, <2>3, <2>4 DEF StockInv, NothingOversold
<1>4. ASSUME NEW o \in Order, Restores(o)
      PROVE  StockInv' /\ (NothingOversold => NothingOversold')
    <2>1. order[o].deducted /\ ~order'[o].deducted
        BY <1>4 DEF Restores, TypeOK
    <2>2. \A p \in Order \ {o} : order'[p].deducted = order[p].deducted
        BY <1>4 DEF Restores, TypeOK
    <2>3. stock' \in Stocks /\ \A k \in Sku : stock'[k] = stock[k] + ItemSum(Items[o], k)
        BY <1>1, <1>4, RestoreIs DEF Restores, StockInv
    <2>4. ASSUME NEW k \in Sku
          PROVE  stock'[k] + HoldSum(order', k) = supply[k] /\ stock'[k] >= stock[k]
        <3>1. /\ HoldSum(order', k) \in Nat /\ ItemSum(Items[o], k) \in Nat
              /\ HoldSum(order, k) = HoldSum(order', k) + ItemSum(Items[o], k)
            BY <2>1, <2>2, HoldsMore
        <3>2. stock[k] + HoldSum(order, k) = supply[k] BY DEF StockInv
        <3> QED BY <1>2, <2>3, <3>1, <3>2
    <2>5. \A k \in Sku : stock'[k] \in Int BY <2>3 DEF Stocks
    <2> QED BY <1>0, <1>2, <2>3, <2>4, <2>5 DEF StockInv, NothingOversold
<1>5. ASSUME KeepsStock PROVE StockInv' /\ (NothingOversold => NothingOversold')
    <2>1. \A k \in Sku : HoldSum(order', k) = HoldSum(order, k)
        BY <1>5, HoldsSame DEF KeepsStock
    <2> QED BY <1>0, <1>5, <2>1 DEF KeepsStock, StockInv, NothingOversold
<1> QED BY <1>0, <1>3, <1>4, <1>5 DEF Moves

\* At the start everything is in stock.
LEMMA InitStock ==
    ASSUME IsFiniteSet(Order), Init
    PROVE  StockInv /\ NothingOversold
<1>1. PICK start \in Starts : supply = start.stock /\ stock = start.stock BY DEF Init
<1>2. start.stock \in [Sku -> Nat] BY CheckoutAssumption
<1>3. ASSUME NEW k \in Sku PROVE HoldSum(order, k) = 0
    <2> DEFINE f == HeldIn(order, k)
    <2>1. \A o \in Order : f[o] = 0 BY DEF HeldIn, Init
    <2> HIDE DEF f
    <2>2. SumFunctionOnSet(f, Order) = 0 BY ONLY IsFiniteSet(Order), <2>1, SumZero
    <2> QED BY <2>2 DEF HoldSum, f
<1> QED BY <1>1, <1>2, <1>3 DEF StockInv, NothingOversold, Stocks

\* Every unit is in stock or held by exactly one order that says so, whatever
\* the orders' items are.
THEOREM UnitsAddUp ==
    ASSUME IsFiniteSet(Order)
    PROVE  Spec => []StockAddsUp
<1>1. Init => StockInv BY InitStock
<1>2. TypeOK /\ StockInv /\ [Next]_vars => StockInv' BY NextStock
<1>3. StockInv => StockAddsUp BY HeldIs DEF StockInv, StockAddsUp
<1> QED BY <1>1, <1>2, <1>3, TypeCorrect, PTL DEF Spec

\* And no more is sold than there is, where no item names a unit of a colour
\* variant twice.
THEOREM AccountsForStock ==
    ASSUME IsFiniteSet(Order),
           \A o \in Order : \A i \in DOMAIN Items[o] : ColorsOnce(Items[o][i])
    PROVE  Spec => []StockAccounted
<1>1. Init => StockInv /\ NothingOversold BY InitStock
<1>2. TypeOK /\ (StockInv /\ NothingOversold) /\ [Next]_vars
        => (StockInv /\ NothingOversold)'
    BY NextStock
<1>3. StockInv /\ NothingOversold => StockAccounted
    BY HeldIs DEF StockInv, StockAccounted, NothingOversold, Stocks
<1> QED BY <1>1, <1>2, <1>3, TypeCorrect, PTL DEF Spec
=============================================================================
