------------------------------ MODULE Checkout ------------------------------
(***************************************************************************)
(* From a customer's cart to a paid order.  createOrder saves a pending    *)
(* order; one paid from the wallet then takes the stock, debits the        *)
(* wallet and marks the order paid, compensating what it did when a later  *)
(* step fails; one paid by card is finalised when Paystack's webhook or    *)
(* the returning customer's verification reports the charge.  No           *)
(* transaction spans the steps, so every await ends an action, and a       *)
(* cancellation may come in between.                                       *)
(*                                                                         *)
(* Recording the vendors' earnings and reversing them is modelled in       *)
(* Earnings; here only the order's flag earnings_recorded is kept.         *)
(***************************************************************************)
EXTENDS Inventory

CONSTANTS
    Order, Customer, Sku,
    CustomerOf,   \* CustomerOf[o]: who buys the order
    Items,        \* Items[o]: the order's items
    Total,        \* Total[o]: its price
    Balance,      \* Balance[c]: the customer's wallet at the start
    Webhook,      \* concurrent webhook handlers
    Verifier,     \* concurrent calls of the verify endpoint
    Starts,       \* how the orders may be paid, and the stock there may be
    Canceller,    \* the orders somebody may cancel
    Faults,       \* which failures the environment may cause
    MaxFailures   \* bound of the model: how many failures it causes

ItemLines == [fabric: Seq(Line(Sku)), accessory: Seq(Line(Sku)),
              color: Seq(Line(Sku)), applied: Seq(Line(Sku))]

ASSUME CheckoutAssumption ==
    /\ CustomerOf \in [Order -> Customer]
    /\ Items \in [Order -> Seq(ItemLines)]
    /\ Total \in [Order -> Nat \ {0}]
    /\ Balance \in [Customer -> Nat]
    /\ Webhook \cap Verifier = {}
    /\ Starts \subseteq [method: [Order -> {"wallet", "card"}], stock: [Sku -> Nat]]
    /\ Canceller \subseteq Order
    /\ Faults \subseteq {"createError", "declined", "finaliseError", "crash"}
    /\ MaxFailures \in Nat

Finaliser == Webhook \cup Verifier
Event == {"charge.success", "charge.failed"}
TransactionStatus == {"pending", "success", "failed"}
TxState == TransactionStatus \cup {"none"}
Work == {"record", "deduct"}
Part == Work \cup {"pay"}

VARIABLES
    order,      \* the order documents
    stock,      \* the units in stock
    balance,    \* the customers' wallets
    tx,         \* the status of each order's transaction, "none" before it exists
    method,     \* payment_method of each checkout
    supply,     \* history: the units in stock at the start
    buy,        \* how far each call of createOrder is
    call,       \* local state of each webhook handler and verification
    cancel,     \* how far each call of cancelOrder is
    charge,     \* the charge at Paystack
    sent,       \* the <<order, event>> pairs Paystack reports
    acked,      \* the pairs the backend answered with 200
    taken,      \* history: the wallet debits createOrder did not take back
    missed,     \* history: the <<order, part>> pairs a webhook failed in
    failures

paystackVars == <<charge, sent>>
goodsVars == <<order, stock>>
vars == <<goodsVars, balance, tx, method, supply, buy, call, cancel, paystackVars,
          acked, taken, missed, failures>>

OrderStatus == {"none", "pending", "in_review", "cancelled", "deleted"}
BuyState == {"new", "balance", "deduct", "debit", "tx", "txSave", "orderSave",
             "record", "undoDebit", "undoStock", "undoOrder", "init",
             "done", "refused", "crashed"}
CancelState == {"no", "credit", "save", "restore", "done", "crashed"}

Idle == [pc |-> "idle"]
Asking == [pc: {"asked"}, o: Order, answer: BOOLEAN]
Marking == [pc: {"claim", "fail", "fresh"}, o: Order, loaded: TxState]
Serving == [pc: {"pay", "work", "answer", "background"}, o: Order,
            event: Event, loaded: TxState, todo: SUBSET Work]
CallState == {Idle} \cup Asking \cup Marking \cup Serving

TypeOK ==
    /\ order \in [Order -> [status: OrderStatus, paid: BOOLEAN,
                            deducted: BOOLEAN, recorded: BOOLEAN]]
    /\ balance \in [Customer -> Nat]
    /\ tx \in [Order -> TxState]
    /\ method \in [Order -> {"wallet", "card"}]
    /\ buy \in [Order -> BuyState]
    /\ call \in [Finaliser -> CallState]
    /\ cancel \in [Order -> CancelState]
    /\ charge \in [Order -> {"none", "open", "paid"}]
    /\ sent \subseteq Order \X Event
    /\ acked \subseteq Order \X Event
    /\ taken \in [Order -> 0..1]
    /\ missed \subseteq Order \X Part
    /\ failures \in 0..MaxFailures

Init ==
    /\ order = [o \in Order |-> [status |-> "none", paid |-> FALSE,
                                 deducted |-> FALSE, recorded |-> FALSE]]
    /\ \E start \in Starts : /\ method = start.method
                            /\ supply = start.stock /\ stock = start.stock
    /\ balance = Balance
    /\ tx = [o \in Order |-> "none"]
    /\ buy = [o \in Order |-> "new"]
    /\ call = [a \in Finaliser |-> Idle]
    /\ cancel = [o \in Order |-> "no"]
    /\ charge = [o \in Order |-> "none"]
    /\ sent = {} /\ acked = {}
    /\ taken = [o \in Order |-> 0]
    /\ missed = {}
    /\ failures = 0

Failure(fault) ==
    /\ fault \in Faults
    /\ failures < MaxFailures
    /\ failures' = failures + 1

Exists(o) == order[o].status \notin {"none", "deleted"}

-----------------------------------------------------------------------------
(* The operations on stock, wallet and earnings that several callers use   *)

\* Mutation: the flag of an earlier deduction is not consulted.
MayDeductAgain(o) == Exists(o)

\* The transaction finds the order, and its stock was not deducted yet.
MayDeduct(o) == Exists(o) /\ ~order[o].deducted

Short(o) == MayDeduct(o) /\ ~Deduct(stock, Items[o]).ok

\* updateInventory, when it does not throw.
UpdateInventory(o) ==
    /\ ~Short(o)
    /\ IF MayDeduct(o)
       THEN /\ stock' = Deduct(stock, Items[o]).stock
            /\ order' = [order EXCEPT ![o].deducted = TRUE]
       ELSE UNCHANGED <<stock, order>>

\* restoreInventory of a whole order.
RestoreInventory(o) ==
    IF Exists(o) /\ order[o].deducted
    THEN /\ stock' = Restore(stock, Items[o])
         /\ order' = [order EXCEPT ![o].deducted = FALSE]
    ELSE UNCHANGED <<stock, order>>

\* recordBusinessEarnings, as far as the order is concerned: its claim.
RecordEarnings(o) ==
    order' = IF Exists(o) THEN [order EXCEPT ![o].recorded = TRUE] ELSE order

DeleteOrder(o) == order' = [order EXCEPT ![o].status = "deleted"]

Credit(o) == balance' = [balance EXCEPT ![CustomerOf[o]] = @ + Total[o]]

-----------------------------------------------------------------------------
(* createOrder                                                             *)

buyRest == <<method, supply, call, cancel, charge, sent, acked, missed>>
buyFrame == <<buyRest, failures>>

Goto(o, pc) == buy' = [buy EXCEPT ![o] = pc]

\* Validation, prices and shipping quotes are settled; the order is saved.
Place(o) ==
    /\ buy[o] = "new"
    /\ order' = [order EXCEPT ![o].status = "pending"]
    /\ Goto(o, IF method[o] = "wallet" THEN "balance" ELSE "tx")
    /\ UNCHANGED <<buyFrame, stock, balance, tx, taken>>

\* The balance is read long before it is debited.
CheckBalance(o) ==
    /\ buy[o] = "balance"
    /\ IF balance[CustomerOf[o]] < Total[o]
       THEN DeleteOrder(o) /\ Goto(o, "refused")
       ELSE Goto(o, "deduct") /\ UNCHANGED order
    /\ UNCHANGED <<buyFrame, stock, balance, tx, taken>>

\* Stock is taken before money moves; an order short of stock is deleted.
DeductStock(o) ==
    /\ buy[o] = "deduct"
    /\ \/ UpdateInventory(o) /\ Goto(o, "debit")
       \/ /\ Short(o)
          /\ DeleteOrder(o) /\ Goto(o, "refused")
          /\ UNCHANGED stock
    /\ UNCHANGED <<buyFrame, balance, tx, taken>>

\* The conditional debit.  When it is refused the call ends: the order stays
\* pending and keeps its stock.
Debit(o) ==
    /\ buy[o] = "debit"
    /\ IF balance[CustomerOf[o]] >= Total[o]
       THEN /\ balance' = [balance EXCEPT ![CustomerOf[o]] = @ - Total[o]]
            /\ taken' = [taken EXCEPT ![o] = 1]
            /\ Goto(o, "tx")
       ELSE /\ Goto(o, "refused")
            /\ UNCHANGED <<balance, taken>>
    /\ UNCHANGED <<buyFrame, goodsVars, tx>>

CreateTx(o) ==
    /\ buy[o] = "tx"
    /\ tx' = [tx EXCEPT ![o] = "pending"]
    /\ Goto(o, IF method[o] = "wallet" THEN "txSave" ELSE "init")
    /\ UNCHANGED <<buyFrame, goodsVars, balance, taken>>

SaveTx(o) ==
    /\ buy[o] = "txSave"
    /\ tx' = [tx EXCEPT ![o] = "success"]
    /\ Goto(o, "orderSave")
    /\ UNCHANGED <<buyFrame, goodsVars, balance, taken>>

\* The order saved at the start of the call is saved again: by id, the status
\* and the payment status, whatever the stored document became meanwhile.
SaveOrder(o) ==
    /\ buy[o] = "orderSave"
    /\ order' = [order EXCEPT ![o].status = "in_review", ![o].paid = TRUE]
    /\ Goto(o, "record")
    /\ UNCHANGED <<buyFrame, stock, balance, tx, taken>>

Record(o) ==
    /\ buy[o] = "record"
    /\ RecordEarnings(o)
    /\ Goto(o, "done")
    /\ UNCHANGED <<buyFrame, stock, balance, tx, taken>>

\* Mutation: the error of a late step is returned without compensation.
FailAtOnce(o) ==
    /\ Failure("createError")
    /\ buy[o] \in {"tx", "txSave", "orderSave", "record"}
    /\ Goto(o, "refused")
    /\ UNCHANGED <<buyRest, goodsVars, balance, tx, taken>>

\* A step past the debit throws.  Recording the earnings may throw before or
\* after the claim.  A card checkout has nothing to undo.
Fail(o) ==
    /\ Failure("createError")
    /\ buy[o] \in {"tx", "txSave", "orderSave", "record"}
    /\ \/ UNCHANGED order
       \/ buy[o] = "record" /\ RecordEarnings(o)
    /\ Goto(o, IF method[o] = "wallet" THEN "undoDebit" ELSE "refused")
    /\ UNCHANGED <<buyRest, stock, balance, tx, taken>>

UndoDebit(o) ==
    /\ buy[o] = "undoDebit"
    /\ Credit(o)
    /\ taken' = [taken EXCEPT ![o] = 0]
    /\ Goto(o, "undoStock")
    /\ UNCHANGED <<buyFrame, goodsVars, tx>>

\* Mutation: the order is deleted first, and its stock is not found any more.
UndoStockLast(o) ==
    /\ buy[o] = "undoStock"
    /\ DeleteOrder(o) /\ Goto(o, "refused")
    /\ UNCHANGED <<buyFrame, stock, balance, tx, taken>>

UndoStock(o) ==
    /\ buy[o] = "undoStock"
    /\ RestoreInventory(o)
    /\ Goto(o, "undoOrder")
    /\ UNCHANGED <<buyFrame, balance, tx, taken>>

UndoOrder(o) ==
    /\ buy[o] = "undoOrder"
    /\ DeleteOrder(o) /\ Goto(o, "refused")
    /\ UNCHANGED <<buyFrame, stock, balance, tx, taken>>

\* Paystack opens the charge and the customer is redirected to it.
InitPayment(o) ==
    /\ buy[o] = "init"
    /\ charge' = [charge EXCEPT ![o] = "open"]
    /\ Goto(o, "done")
    /\ UNCHANGED <<method, supply, call, cancel, sent, acked, missed, failures,
                   goodsVars, balance, tx, taken>>

-----------------------------------------------------------------------------
(* Paystack and the customer                                               *)

Charge(o) ==
    /\ charge[o] = "open"
    /\ charge' = [charge EXCEPT ![o] = "paid"]
    /\ sent' = sent \cup {<<o, "charge.success">>}
    /\ UNCHANGED <<goodsVars, balance, tx, method, supply, buy, call, cancel, acked,
                   taken, missed, failures>>

\* A card is declined; the customer may try another one.
Decline(o) ==
    /\ Failure("declined")
    /\ charge[o] = "open"
    /\ sent' = sent \cup {<<o, "charge.failed">>}
    /\ UNCHANGED <<goodsVars, balance, tx, method, supply, buy, call, cancel, charge,
                   acked, taken, missed>>

-----------------------------------------------------------------------------
(* finalizeCheckoutOrder, called by both kinds of finaliser                *)

callFrame == <<balance, method, supply, buy, cancel, paystackVars, taken, missed,
               failures>>

Step(a, pc) == call' = [call EXCEPT ![a].pc = pc]

\* TransactionService.create does not store the channel it is given; the
\* schema's default is used.
CreatedChannel == "checkout"

\* Mutation: an order that is paid already is taken for finalised.
PayUnlessPaid(a) ==
    LET o == call[a].o IN
    /\ call[a].pc = "pay"
    /\ IF Exists(o) /\ ~order[o].paid
       THEN /\ order' = [order EXCEPT ![o].status = "in_review", ![o].paid = TRUE]
            /\ call' = [call EXCEPT ![a].pc = "work", ![a].todo = Work]
       ELSE /\ Step(a, "answer")
            /\ UNCHANGED order
    /\ UNCHANGED <<callFrame, stock, tx, acked>>

\* The update names no expected status: whatever the order is, it becomes a
\* paid order in review.  Earnings and stock are started together.
Pay(a) ==
    LET o == call[a].o IN
    /\ call[a].pc = "pay"
    /\ IF CreatedChannel = "checkout" /\ Exists(o)
       THEN /\ order' = [order EXCEPT ![o].status = "in_review", ![o].paid = TRUE]
            /\ call' = [call EXCEPT ![a].pc = "work", ![a].todo = Work]
       ELSE /\ Step(a, "answer")
            /\ UNCHANGED order
    /\ UNCHANGED <<callFrame, stock, tx, acked>>

\* Promise.all: it settles when both have, or when one of them throws; the
\* other then goes on unawaited.
Settle(a, work, failed) ==
    LET rest == call[a].todo \ {work}
        pc == IF call[a].pc = "work" /\ (failed \/ rest = {}) THEN "answer"
              ELSE call[a].pc
    IN
    call' = [call EXCEPT ![a] =
      IF call[a].pc = "background" /\ rest = {} THEN Idle
      ELSE [call[a] EXCEPT !.todo = rest, !.pc = pc]]

Working(a, work) ==
    call[a].pc \in {"work", "answer", "background"} /\ work \in call[a].todo

\* What a webhook handler did not do; a verification tells the customer instead.
Miss(a, part) ==
    missed' = missed \cup (IF a \in Webhook THEN {<<call[a].o, part>>} ELSE {})

FinaliseRecord(a) ==
    /\ Working(a, "record")
    /\ RecordEarnings(call[a].o)
    /\ Settle(a, "record", FALSE)
    /\ UNCHANGED <<callFrame, stock, tx, acked>>

FinaliseDeduct(a) ==
    /\ Working(a, "deduct")
    /\ UpdateInventory(call[a].o)
    /\ Settle(a, "deduct", FALSE)
    /\ UNCHANGED <<callFrame, tx, acked>>

\* The stock is gone: the webhook logs the error, the verification returns it.
FinaliseShort(a) ==
    /\ Working(a, "deduct")
    /\ Short(call[a].o)
    /\ Settle(a, "deduct", TRUE)
    /\ Miss(a, "deduct")
    /\ UNCHANGED <<goodsVars, balance, tx, method, supply, buy, cancel, paystackVars,
                   acked, taken, failures>>

\* A database error of a step.  The webhook logs it and answers all the same,
\* the verification returns it; earnings may be claimed by then.
FinaliseError(a) ==
    /\ Failure("finaliseError")
    /\ \/ /\ call[a].pc = "pay"
          /\ Step(a, "answer") /\ Miss(a, "pay")
          /\ UNCHANGED order
       \/ /\ Working(a, "record")
          /\ Settle(a, "record", TRUE) /\ Miss(a, "record")
          /\ RecordEarnings(call[a].o) \/ UNCHANGED order
       \/ /\ Working(a, "deduct")
          /\ Settle(a, "deduct", TRUE) /\ Miss(a, "deduct")
          /\ UNCHANGED order
    /\ UNCHANGED <<stock, balance, tx, method, supply, buy, cancel, paystackVars, acked,
                   taken>>

FinaliseStep(a) ==
    \/ Pay(a) \/ FinaliseRecord(a) \/ FinaliseDeduct(a) \/ FinaliseShort(a)

Left(a) == IF call[a].todo = {} THEN Idle ELSE [call[a] EXCEPT !.pc = "background"]

-----------------------------------------------------------------------------
(* handlePaystackWebhook                                                   *)

\* A successful charge finalises the order, a failed one does not.
FirstStep(event) == IF event = "charge.success" THEN "pay" ELSE "answer"

HookLoad(h, o, event) ==
    /\ call[h].pc = "idle"
    /\ <<o, event>> \in sent
    /\ call' = [call EXCEPT ![h] =
         [pc |-> FirstStep(event), o |-> o, event |-> event, loaded |-> tx[o],
          todo |-> {}]]
    /\ UNCHANGED <<callFrame, goodsVars, tx, acked>>

\* An error of the lookup is taken for an unknown reference, and answered.
HookIgnore(o, event) ==
    /\ Failure("finaliseError")
    /\ <<o, event>> \in sent
    /\ acked' = acked \cup {<<o, event>>}
    /\ missed' = IF event = "charge.success" THEN missed \cup {<<o, "pay">>} ELSE missed
    /\ UNCHANGED <<goodsVars, balance, tx, method, supply, buy, call, cancel, paystackVars,
                   taken>>

Outcome(event) == IF event = "charge.success" THEN "success" ELSE "failed"

\* The copy of the transaction is saved, and Paystack gets its answer.
HookSave(h) ==
    LET o == call[h].o
        outcome == Outcome(call[h].event)
    IN
    /\ call[h].pc = "answer"
    /\ tx' = IF outcome = call[h].loaded THEN tx ELSE [tx EXCEPT ![o] = outcome]
    /\ acked' = acked \cup {<<o, call[h].event>>}
    /\ call' = [call EXCEPT ![h] = Left(h)]
    /\ UNCHANGED <<callFrame, goodsVars>>

-----------------------------------------------------------------------------
(* verifyAndFinalize                                                       *)

\* Mutation: the verification does not wait for Paystack's answer.
AssumePaid(o) == o \in Order

\* data.status === 'success' in Paystack's answer.
RemoteSuccess(o) == charge[o] = "paid"

Finalising(o) ==
    [pc |-> "pay", o |-> o, event |-> "charge.success", loaded |-> "success",
     todo |-> {}]

\* The customer knows the reference from createOrder's answer.  A transaction
\* that succeeded, a wallet checkout's too, is finalised without asking
\* Paystack, which knows only cards: it answers for any other with an error.
VerifyLoad(v, o) ==
    /\ call[v].pc = "idle"
    /\ buy[o] = "done"
    /\ call' = [call EXCEPT ![v] =
         IF tx[o] = "success" THEN Finalising(o)
         ELSE [pc |-> "asked", o |-> o, answer |-> RemoteSuccess(o)]]
    /\ UNCHANGED <<callFrame, goodsVars, tx, acked>>

\* verifyPaystackPayment loads the transaction after Paystack's answer.
VerifyAnswered(v) ==
    LET o == call[v].o IN
    /\ call[v].pc = "asked"
    /\ call' = [call EXCEPT ![v] =
         [pc |-> IF tx[o] = "success" THEN "fresh"
                 ELSE IF call[v].answer THEN "claim" ELSE "fail",
          o |-> o, loaded |-> tx[o]]]
    /\ UNCHANGED <<callFrame, goodsVars, tx, acked>>

VerifyClaim(v) ==
    /\ call[v].pc = "claim"
    /\ tx' = [tx EXCEPT ![call[v].o] = "success"]
    /\ Step(v, "fresh")
    /\ UNCHANGED <<callFrame, goodsVars, acked>>

VerifyFail(v) ==
    /\ call[v].pc = "fail"
    /\ tx' = IF call[v].loaded = "failed" THEN tx ELSE [tx EXCEPT ![call[v].o] = "failed"]
    /\ Step(v, "fresh")
    /\ UNCHANGED <<callFrame, goodsVars, acked>>

VerifyFresh(v) ==
    LET o == call[v].o IN
    /\ call[v].pc = "fresh"
    /\ call' = [call EXCEPT ![v] = IF tx[o] = "success" THEN Finalising(o) ELSE Idle]
    /\ UNCHANGED <<callFrame, goodsVars, tx, acked>>

VerifyEnd(v) ==
    /\ call[v].pc = "answer"
    /\ call' = [call EXCEPT ![v] = Left(v)]
    /\ UNCHANGED <<callFrame, goodsVars, tx, acked>>

VerifyCarriedOn(v) ==
    \/ VerifyAnswered(v) \/ VerifyClaim(v) \/ VerifyFail(v) \/ VerifyFresh(v)
    \/ VerifyEnd(v)

-----------------------------------------------------------------------------
(* cancelOrder                                                             *)

cancelFrame == <<tx, method, supply, buy, call, paystackVars, acked, taken, missed,
                 failures>>

CancelTo(o, pc) == cancel' = [cancel EXCEPT ![o] = pc]

\* A cancelled order, or one without a successful transaction, is refused.
CancelLoad(o) ==
    /\ cancel[o] = "no"
    /\ Exists(o) /\ order[o].status # "cancelled" /\ tx[o] = "success"
    /\ CancelTo(o, "credit")
    /\ UNCHANGED <<cancelFrame, goodsVars, balance>>

CancelCredit(o) ==
    /\ cancel[o] = "credit"
    /\ Credit(o)
    /\ CancelTo(o, "save")
    /\ UNCHANGED <<cancelFrame, goodsVars>>

\* By id; a document that was deleted meanwhile is an error.
CancelSave(o) ==
    /\ cancel[o] = "save"
    /\ IF Exists(o)
       THEN /\ order' = [order EXCEPT ![o].status = "cancelled"]
            /\ CancelTo(o, "restore")
       ELSE CancelTo(o, "done") /\ UNCHANGED order
    /\ UNCHANGED <<cancelFrame, stock, balance>>

CancelRestore(o) ==
    /\ cancel[o] = "restore"
    /\ RestoreInventory(o)
    /\ CancelTo(o, "done")
    /\ UNCHANGED <<cancelFrame, balance>>

-----------------------------------------------------------------------------
\* An instance stops, and every call it runs with it; here one of them.
Crash ==
    /\ Failure("crash")
    /\ \/ \E o \in Order : /\ buy[o] \notin {"new", "done", "refused", "crashed"}
                           /\ Goto(o, "crashed")
                           /\ UNCHANGED <<call, cancel>>
       \/ \E a \in Finaliser : /\ call[a].pc # "idle"
                               /\ call' = [call EXCEPT ![a] = Idle]
                               /\ UNCHANGED <<buy, cancel>>
       \/ \E o \in Order : /\ cancel[o] \notin {"no", "done", "crashed"}
                           /\ CancelTo(o, "crashed")
                           /\ UNCHANGED <<buy, call>>
    /\ UNCHANGED <<goodsVars, balance, tx, method, supply, paystackVars, acked, taken,
                   missed>>

CreateStep(o) ==
    \/ CheckBalance(o) \/ DeductStock(o) \/ Debit(o) \/ CreateTx(o) \/ SaveTx(o)
    \/ SaveOrder(o) \/ Record(o) \/ UndoDebit(o) \/ UndoStock(o) \/ UndoOrder(o)
    \/ InitPayment(o)

CancelStep(o) ==
    CancelCredit(o) \/ CancelSave(o) \/ CancelRestore(o)

Next ==
    \/ \E o \in Order : Place(o) \/ CreateStep(o) \/ Fail(o) \/ Charge(o) \/ Decline(o)
    \/ \E a \in Finaliser : FinaliseStep(a) \/ FinaliseError(a)
    \/ \E o \in Order, event \in Event : HookIgnore(o, event)
    \/ \E h \in Webhook :
         (\E o \in Order, event \in Event : HookLoad(h, o, event)) \/ HookSave(h)
    \/ \E v \in Verifier : (\E o \in Order : VerifyLoad(v, o)) \/ VerifyCarriedOn(v)
    \/ \E o \in Canceller : CancelLoad(o) \/ CancelStep(o)
    \/ Crash

Spec == Init /\ [][Next]_vars

\* A call that was started is carried on, and Paystack repeats an event until
\* it is answered.  Nobody has to buy, pay, verify or cancel.
Fairness ==
    /\ \A o \in Order : WF_vars(CreateStep(o))
    /\ \A a \in Finaliser : WF_vars(FinaliseStep(a))
    /\ \A h \in Webhook : WF_vars(HookSave(h))
    /\ \A v \in Verifier : WF_vars(VerifyCarriedOn(v))
    /\ \A o \in Canceller : WF_vars(CancelStep(o))
    /\ \A o \in Order, event \in Event :
         SF_vars(<<o, event>> \notin acked /\ \E h \in Webhook : HookLoad(h, o, event))

FairSpec == Spec /\ Fairness

-----------------------------------------------------------------------------
(* Properties                                                              *)

Held(k) ==
    FoldFunctionOnSet(+, 0, [o \in Order |-> Need(Items[o], k)],
                      {o \in Order : order[o].deducted})

\* Every unit is in stock or taken by exactly one order that says so, and no
\* more is sold than there is: across failed checkouts, repeated
\* finalisations and cancellations (updateInventory: "Deduct stock only once
\* per order"; restoreInventory: "Only restore what was actually deducted").
StockAccounted ==
    /\ DOMAIN stock = Sku
    /\ \A k \in Sku : stock[k] >= 0 /\ stock[k] + Held(k) = supply[k]

\* A checkout from the wallet that was answered is all or nothing: the wallet
\* paid and the order is a paid one, or the wallet has its money back and no
\* paid order is left ("the customer is never left out of pocket for an order
\* that did not complete").
WalletSettled ==
    \A o \in Order : method[o] = "wallet" =>
      /\ buy[o] = "done" => taken[o] = 1 /\ Exists(o) /\ order[o].paid
      /\ buy[o] = "refused" => taken[o] = 0 /\ ~(Exists(o) /\ order[o].paid)

\* No deleted order keeps stock that nobody could ever give back.
DeletedHoldsNothing ==
    \A o \in Order : order[o].status = "deleted" => ~order[o].deducted

\* An order by card holds stock, has earnings or is marked paid only when the
\* card was charged, whoever finalised it and on whose answer.
PaidBeforeGoods ==
    \A o \in Order :
      method[o] = "card" /\ (order[o].paid \/ order[o].deducted \/ order[o].recorded)
        => charge[o] = "paid"

Failed(o, parts) == \E part \in parts : <<o, part>> \in missed

Served(o) ==
    \/ /\ order[o].paid
       /\ (order[o].recorded /\ order[o].deducted) \/ Failed(o, Work)
    \/ Failed(o, {"pay"})

\* A card that was charged leads to a paid order with its earnings recorded
\* and its stock taken, even when the handler's instance stops half way.  Three
\* things may prevent it: the order is cancelled; the stock was gone; or the
\* webhook met a database error on this order.  It answers in the last two
\* cases too (handleChargeSuccess logs the error), though a part of the work is
\* not done or still under way.
ChargeIsServed ==
    \A o \in Order :
      (charge[o] = "paid") ~> (Served(o) \/ cancel[o] # "no")
=============================================================================
