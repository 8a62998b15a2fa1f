----------------------------- MODULE AfterSale -----------------------------
(***************************************************************************)
(* What happens to a delivered order's money: customers dispute or return, *)
(* vendors answer, admins decide, and meanwhile the release cron, the      *)
(* safety-net cron and the customer's satisfaction (Earnings) schedule and *)
(* pay the same earnings.                                                  *)
(*                                                                         *)
(* Each call runs once, one await of the source after another.  None of    *)
(* them claims the document it decides about: the status is read when the  *)
(* call starts and written when it ends.                                   *)
(***************************************************************************)
EXTENDS Earnings

CONSTANTS
    Call,         \* calls of the dispute and return endpoints
    Kind,         \* Kind[c]: which endpoint
    About,        \* About[c]: the <<order, vendor>> pair the call is about
    Part,         \* dto.refund_amount of a partial refund
    Carried,      \* Carried[v]: a vendor's pending balance when it all begins
    Mix           \* the sets of calls that may be made in one behaviour

Opening == {"file", "request"}
Deciding == {"refundAll", "refundPart", "favourVendor"}
CallKind == Opening \cup Deciding \cup
            {"flag", "respond", "approve", "reject", "receive"}

ASSUME AfterSaleAssumption ==
    /\ Kind \in [Call -> CallKind]
    /\ About \in [Call -> Order \X Vendor]
    /\ Part \in Nat \ {0}
    /\ Carried \in [Vendor -> Int]
    /\ Mix \subseteq SUBSET Call

VARIABLES
    dispute,      \* dispute[c]: status of the Dispute document call c created
    returned,     \* returned[c]: status of the Return document call c created
    payment,      \* status of each order's payment transaction
    deducted,     \* order.inventory_deducted
    call,         \* local state of each call
    refunds,      \* history: gateway refunds of each order's payment
    unsaved,      \* history: refunds of each order its payment does not show
    raced,        \* history: orders two of whose refunds overlapped
    restored,     \* history: how often each order's stock was put back
    refundedAway  \* history: earnings a full refund deleted

docVars == <<dispute, returned>>
moneyVars == <<payment, refunds, unsaved, raced>>
stockVars == <<deducted, restored>>
afterVars == <<docVars, moneyVars, stockVars, call, refundedAway>>
allVars == <<vars, afterVars>>

DisputeStatus == {"none", "open", "under_review", "resolved_refund",
                  "resolved_partial", "resolved_released"}
ReturnStatus == {"none", "requested", "vendor_approved", "vendor_rejected",
                 "refund_processed"}
Open == {"open", "under_review"}
Active == {"requested", "vendor_approved"}

\* An earning as markReceived's find() read it.
Read == [earning: Earning, net: Int, released: BOOLEAN]
CallPC == {"absent", "ready", "existing", "freeze", "create", "save", "find", "delete",
           "reduce", "unfreeze", "refund", "gateway", "reverse", "loop", "write",
           "record", "restore", "done", "refused", "error"}
CallState == [pc: CallPC, on: Call, owed: BOOLEAN, todo: SUBSET Read,
              cur: SUBSET Read, pending: Int, balance: Int]

AfterTypeOK ==
    /\ TypeOK
    /\ dispute \in [Call -> DisputeStatus]
    /\ returned \in [Call -> ReturnStatus]
    /\ payment \in [Order -> {"success", "reversed"}]
    /\ deducted \in [Order -> BOOLEAN]
    /\ call \in [Call -> CallState]
    /\ refunds \in [Order -> Nat]
    /\ unsaved \in [Order -> Nat]
    /\ raced \subseteq Order
    /\ restored \in [Order -> Nat]
    /\ refundedAway \subseteq Earning

-----------------------------------------------------------------------------
OrderOfCall(c) == About[c][1]
VendorOfCall(c) == About[c][2]

\* The earnings the filters {order, business} of a call select.
Scope(c) == {e \in OrderEarnings(OrderOfCall(c)) : VendorOf[e[1]] = VendorOfCall(c)}

NewCall(c, pc) == [pc |-> pc, on |-> c, owed |-> FALSE, todo |-> {}, cur |-> {},
                   pending |-> 0, balance |-> 0]

\* Every order is delivered, recorded and paid; its payout delay runs.
AfterInit ==
    /\ status = [o \in Order |-> "completed"]
    /\ paid = Order
    /\ recorded = [o \in Order |-> TRUE]
    /\ confirmed = {ov \in Order \X Vendor : ov[2] \in VendorsOf(ov[1])}
    /\ dispatched = confirmed
    /\ satisfied = {} /\ rejected = {}
    /\ doc = [e \in Earning |->
                IF e \in EarningsOf(e[1]) THEN [HeldDoc(e) EXCEPT !.date = "later"]
                ELSE NoDoc]
    /\ pending = Carried
    /\ balance = [v \in Vendor |-> 0]
    /\ rec = [p \in Recorder |-> Idle]
    /\ rel = [w \in Releaser |-> Idle]
    /\ rev = [r \in Reverser |-> Idle]
    /\ created = [e \in Earning |-> IF e \in EarningsOf(e[1]) THEN 1 ELSE 0]
    /\ credited = [e \in Earning |-> 0]
    /\ dispute = [c \in Call |-> "none"]
    /\ returned = [c \in Call |-> "none"]
    /\ payment = [o \in Order |-> "success"]
    /\ deducted = [o \in Order |-> TRUE]
    /\ \E M \in Mix :
         call = [c \in Call |-> NewCall(c, IF c \in M THEN "ready" ELSE "absent")]
    /\ refunds = [o \in Order |-> 0]
    /\ unsaved = [o \in Order |-> 0]
    /\ raced = {}
    /\ restored = [o \in Order |-> 0]
    /\ refundedAway = {}

Goes(c, pc) == call' = [call EXCEPT ![c].pc = pc]
\* What no dispute or return call touches.
saleVars == <<orderVars, recorded, rec, rel, rev, created, credited>>
At(c, pc, kinds) == call[c].pc = pc /\ Kind[c] \in kinds

-----------------------------------------------------------------------------
(* fileDispute, requestReturn and flagMeasurement                          *)

\* The order must be completed; a dispute also needs a payout that was not
\* released.
MayOpen(c) ==
    /\ status[OrderOfCall(c)] = "completed"
    /\ Kind[c] = "file" => \A e \in Scope(c) : doc[e].state # "released"

OpenCheck(c) ==
    /\ At(c, "ready", Opening)
    /\ Goes(c, IF MayOpen(c) THEN "existing" ELSE "refused")
    /\ UNCHANGED <<saleVars, doc, walletVars, docVars, moneyVars, stockVars, refundedAway>>

Another(c) ==
    \E d \in Call : /\ About[d] = About[c]
                    /\ IF Kind[c] = "file" THEN dispute[d] \in Open
                       ELSE returned[d] \in Active

OpenExisting(c) ==
    /\ At(c, "existing", Opening)
    /\ Goes(c, IF Another(c) THEN "refused" ELSE "freeze")
    /\ UNCHANGED <<saleVars, doc, walletVars, docVars, moneyVars, stockVars, refundedAway>>

\* updateMany: release_date becomes null on every unreleased earning.
OpenFreeze(c) ==
    /\ At(c, "freeze", Opening)
    /\ Schedule(Scope(c), ReleaseDate, "null")
    /\ Goes(c, "create")
    /\ UNCHANGED <<saleVars, walletVars, docVars, moneyVars, stockVars, refundedAway>>

OpenCreate(c) ==
    /\ At(c, "create", Opening)
    /\ Goes(c, "done")
    /\ IF Kind[c] = "file"
       THEN dispute' = [dispute EXCEPT ![c] = "open"] /\ UNCHANGED returned
       ELSE returned' = [returned EXCEPT ![c] = "requested"] /\ UNCHANGED dispute
    /\ UNCHANGED <<saleVars, doc, walletVars, moneyVars, stockVars, refundedAway>>

\* The vendor flags a measurement: a dispute that freezes nothing.
FlagMeasurement(c) ==
    /\ At(c, "ready", {"flag"})
    /\ dispute' = [dispute EXCEPT ![c] = "open"]
    /\ Goes(c, "done")
    /\ UNCHANGED <<saleVars, doc, walletVars, returned, moneyVars, stockVars, refundedAway>>

-----------------------------------------------------------------------------
(* respondToDispute and resolveDispute                                     *)

First(c) == CASE Kind[c] = "respond" -> "save"
              [] Kind[c] = "refundAll" -> "find"
              [] Kind[c] = "refundPart" -> "reduce"
              [] Kind[c] = "favourVendor" -> "unfreeze"

\* The dispute d is loaded; only an undecided one is worked on.
DisputeLoad(c, d) ==
    /\ At(c, "ready", {"respond"} \cup Deciding)
    /\ dispute[d] # "none"
    /\ About[d] = About[c]
    /\ call' = [call EXCEPT ![c].pc = IF dispute[d] \in Open THEN First(c) ELSE "refused",
                            ![c].on = d]
    /\ UNCHANGED <<saleVars, doc, walletVars, docVars, moneyVars, stockVars, refundedAway>>

HeldSum(c) == MapThenSumSet(LAMBDA e : doc[e].net,
                           {e \in Scope(c) : doc[e].state = "held"})
Owed(c) == ~ (HeldSum(c) <= 0)

\* The full refund sums the unreleased earnings; nothing is refunded when the
\* sum is not positive.
RefundAllFind(c) ==
    /\ At(c, "find", {"refundAll"})
    /\ call' = [call EXCEPT ![c].pc = "delete",
                            ![c].owed = Owed(c)]
    /\ UNCHANGED <<saleVars, doc, walletVars, docVars, moneyVars, stockVars, refundedAway>>

\* Mutation: deleteMany without released: false.
AnyState == {"held", "released"}

\* The filter of deleteMany.
Deletable == {"held"}

\* deleteMany over the unreleased earnings; the wallet keeps their pending sum.
RefundAllDelete(c) ==
    LET gone == {e \in Scope(c) : doc[e].state \in Deletable} IN
    /\ At(c, "delete", {"refundAll"})
    /\ doc' = [e \in Earning |-> IF e \in gone THEN [doc[e] EXCEPT !.state = "deleted"]
                                 ELSE doc[e]]
    /\ refundedAway' = refundedAway \cup gone
    /\ Goes(c, IF call[c].owed THEN "refund" ELSE "save")
    /\ UNCHANGED <<saleVars, walletVars, docVars, moneyVars, stockVars>>

\* updateMany with $inc: every unreleased earning loses the whole amount.
RefundPartReduce(c) ==
    /\ At(c, "reduce", {"refundPart"})
    /\ doc' = [e \in Earning |->
                 IF e \in Scope(c) /\ doc[e].state = "held"
                 THEN [doc[e] EXCEPT !.net = @ - Part] ELSE doc[e]]
    /\ Goes(c, "unfreeze")
    /\ UNCHANGED <<saleVars, walletVars, docVars, moneyVars, stockVars, refundedAway>>

\* What is left is released now: after a partial refund, a dispute decided for
\* the vendor, and a rejected return.
Unfreeze(c) ==
    /\ At(c, "unfreeze", {"refundPart", "favourVendor", "reject"})
    /\ Schedule(Scope(c), ReleaseDate, "due")
    /\ Goes(c, CASE Kind[c] = "refundPart" -> "refund"
                 [] Kind[c] = "favourVendor" -> "save"
                 [] Kind[c] = "reject" -> "done")
    /\ UNCHANGED <<saleVars, walletVars, docVars, moneyVars, stockVars, refundedAway>>

Decision(c) == CASE Kind[c] = "respond" -> "under_review"
                 [] Kind[c] = "refundAll" -> "resolved_refund"
                 [] Kind[c] = "refundPart" -> "resolved_partial"
                 [] Kind[c] = "favourVendor" -> "resolved_released"

\* The save sends the status decided from the copy loaded at the start.
DisputeSave(c) ==
    /\ At(c, "save", {"respond"} \cup Deciding)
    /\ dispute' = [dispute EXCEPT ![call[c].on] = Decision(c)]
    /\ Goes(c, "done")
    /\ UNCHANGED <<saleVars, doc, walletVars, returned, moneyVars, stockVars, refundedAway>>

-----------------------------------------------------------------------------
(* The refund both use: processDisputeRefund or markReceived's own lines,  *)
(* then refundPaystackPayment.  Its errors are caught and logged.          *)

AfterRefund(c) == IF Kind[c] = "receive" THEN "find" ELSE "save"

\* Mutation: the status of the transaction is not asked.
AlwaysPaid(o) == o \in Order

\* Only a successful payment is found, loaded and refunded.
Refundable(o) == payment[o] = "success"

RefundLoad(c) ==
    LET o == OrderOfCall(c)
        busy == \E d \in Call \ {c} : /\ OrderOfCall(d) = o
                                      /\ call[d].pc \in {"gateway", "reverse"}
    IN
    /\ At(c, "refund", {"refundAll", "refundPart", "receive"})
    /\ Goes(c, IF Refundable(o) THEN "gateway" ELSE AfterRefund(c))
    /\ raced' = IF Refundable(o) /\ busy THEN raced \cup {o} ELSE raced
    /\ UNCHANGED <<saleVars, doc, walletVars, docVars, payment, refunds, unsaved,
                   stockVars, refundedAway>>

\* Paystack refunds the whole payment and answers, or its answer is lost, or the
\* request fails.
RefundGateway(c) ==
    LET o == OrderOfCall(c)
        refunded == refunds' = [refunds EXCEPT ![o] = @ + 1]
    IN
    /\ call[c].pc = "gateway"
    /\ \/ refunded /\ UNCHANGED unsaved /\ Goes(c, "reverse")
       \/ refunded /\ unsaved' = [unsaved EXCEPT ![o] = @ + 1] /\ Goes(c, AfterRefund(c))
       \/ UNCHANGED <<refunds, unsaved>> /\ Goes(c, AfterRefund(c))
    /\ UNCHANGED <<saleVars, doc, walletVars, docVars, payment, raced, stockVars,
                   refundedAway>>

\* The payment is saved as reversed; or the save fails, or the instance stops
\* before it, and the payment stays refundable.
RefundReverse(c) ==
    LET o == OrderOfCall(c) IN
    /\ call[c].pc = "reverse"
    /\ \/ /\ payment' = [payment EXCEPT ![o] = "reversed"]
          /\ Goes(c, AfterRefund(c))
          /\ UNCHANGED unsaved
       \/ /\ unsaved' = [unsaved EXCEPT ![o] = @ + 1]
          /\ Goes(c, AfterRefund(c)) \/ Goes(c, "error")
          /\ UNCHANGED payment
    /\ UNCHANGED <<saleVars, doc, walletVars, docVars, refunds, raced, stockVars,
                   refundedAway>>

-----------------------------------------------------------------------------
(* approveReturn, rejectReturn and markReceived                            *)

Needs(c) == IF Kind[c] = "receive" THEN "vendor_approved" ELSE "requested"

ReturnLoad(c, d) ==
    /\ At(c, "ready", {"approve", "reject", "receive"})
    /\ returned[d] # "none"
    /\ About[d] = About[c]
    /\ call' = [call EXCEPT ![c].on = d,
                            ![c].pc = IF returned[d] # Needs(c) THEN "refused"
                                      ELSE IF Kind[c] = "receive" THEN "refund"
                                      ELSE "save"]
    /\ UNCHANGED <<saleVars, doc, walletVars, docVars, moneyVars, stockVars, refundedAway>>

ReturnSave(c) ==
    /\ At(c, "save", {"approve", "reject", "receive"})
    /\ returned' = [returned EXCEPT ![call[c].on] =
                      CASE Kind[c] = "approve" -> "vendor_approved"
                        [] Kind[c] = "reject" -> "vendor_rejected"
                        [] Kind[c] = "receive" -> "refund_processed"]
    /\ Goes(c, IF Kind[c] = "reject" THEN "unfreeze" ELSE "done")
    /\ UNCHANGED <<saleVars, doc, walletVars, dispute, moneyVars, stockVars, refundedAway>>

\* markReceived reads every earning of the pair, released or not, and skips
\* those without a positive net amount.
ReceiveFind(c) ==
    LET found == {e \in Scope(c) : doc[e].state \in {"held", "released"} /\ doc[e].net > 0}
    IN
    /\ At(c, "find", {"receive"})
    /\ call' = [call EXCEPT ![c].pc = "loop",
                            ![c].todo = {[earning |-> e, net |-> doc[e].net,
                                          released |-> doc[e].state = "released"]
                                         : e \in found}]
    /\ UNCHANGED <<saleVars, doc, walletVars, docVars, moneyVars, stockVars, refundedAway>>

\* reconcileBusinessWallet loads the wallet for one of them.
ReceiveWallet(c, j) ==
    LET v == VendorOf[j.earning[1]] IN
    /\ call[c].pc = "loop"
    /\ j \in call[c].todo
    /\ call' = [call EXCEPT ![c].pc = "write", ![c].cur = {j}, ![c].todo = @ \ {j},
                            ![c].pending = pending[v], ![c].balance = balance[v]]
    /\ UNCHANGED <<saleVars, doc, walletVars, docVars, moneyVars, stockVars, refundedAway>>

\* The save of the wallet: a released earning comes out of the balance, an
\* unreleased one out of the pending balance.
ReceiveWrite(c, j) ==
    LET v == VendorOf[j.earning[1]] IN
    /\ call[c].pc = "write"
    /\ j \in call[c].cur
    /\ pending' = SaveField(pending, v, call[c].pending, IF j.released THEN 0 ELSE -j.net)
    /\ balance' = SaveField(balance, v, call[c].balance, IF j.released THEN -j.net ELSE 0)
    /\ Goes(c, "record")
    /\ UNCHANGED <<saleVars, doc, docVars, moneyVars, stockVars, refundedAway>>

\* deleteOne by id, or the save of net_amount = 0, which fails when the document
\* is gone and ends the call.
ReceiveRecord(c, j) ==
    LET e == j.earning
        gone == doc[e].state = "deleted"
    IN
    /\ call[c].pc = "record"
    /\ j \in call[c].cur
    /\ doc' = IF gone THEN doc
              ELSE IF j.released THEN [doc EXCEPT ![e].net = 0]
              ELSE [doc EXCEPT ![e].state = "deleted"]
    /\ call' = [call EXCEPT ![c].pc = IF j.released /\ gone THEN "error" ELSE "loop",
                            ![c].cur = {}]
    /\ UNCHANGED <<saleVars, walletVars, docVars, moneyVars, stockVars, refundedAway>>

ReceiveLoopDone(c) ==
    /\ call[c].pc = "loop"
    /\ call[c].todo = {}
    /\ Goes(c, "restore")
    /\ UNCHANGED <<saleVars, doc, walletVars, docVars, moneyVars, stockVars, refundedAway>>

\* Mutation: stock is put back whether or not it was taken.
RestoreAnyway(o) == o \in Order

\* The guard of restoreInventory.
Restorable(o) == deducted[o]

\* restoreInventory of the whole order, in one database transaction.
ReceiveRestore(c) ==
    LET o == OrderOfCall(c) IN
    /\ At(c, "restore", {"receive"})
    /\ deducted' = [deducted EXCEPT ![o] = FALSE]
    /\ restored' = IF Restorable(o) THEN [restored EXCEPT ![o] = @ + 1] ELSE restored
    /\ Goes(c, "save")
    /\ UNCHANGED <<saleVars, doc, walletVars, docVars, moneyVars, refundedAway>>

-----------------------------------------------------------------------------
OpenStep(c) == OpenCheck(c) \/ OpenExisting(c) \/ OpenFreeze(c) \/ OpenCreate(c)
               \/ FlagMeasurement(c)

ResolveStep(c) ==
    \/ RefundAllFind(c) \/ RefundAllDelete(c) \/ RefundPartReduce(c)
    \/ Unfreeze(c) \/ DisputeSave(c)

RefundStep(c) == RefundLoad(c) \/ RefundGateway(c) \/ RefundReverse(c)

ReturnStep(c) ==
    \/ ReturnSave(c) \/ ReceiveFind(c) \/ ReceiveLoopDone(c) \/ ReceiveRestore(c)
    \/ \E j \in call[c].todo : ReceiveWallet(c, j)
    \/ \E j \in call[c].cur : ReceiveWrite(c, j) \/ ReceiveRecord(c, j)

CallStep ==
    \E c \in Call :
      \/ OpenStep(c) \/ ResolveStep(c) \/ RefundStep(c) \/ ReturnStep(c)
      \/ \E d \in Call : DisputeLoad(c, d) \/ ReturnLoad(c, d)

\* The steps of Earnings a delivered order still sees, the reversals aside.
PayoutStep ==
    \/ \E o \in Order : ConfirmSatisfaction(o)
    \/ \E e \in Earning : Elapse(e) \/ AutoReleaseStuck(e)
    \/ ReleaseStep

Payout == PayoutStep /\ UNCHANGED afterVars

AfterNext == CallStep \/ Payout

AfterSpec == AfterInit /\ [][AfterNext]_allVars

\* The crons fire again and again, and the payout delay elapses.
AfterFairness ==
    /\ \A w \in Releaser :
         /\ WF_allVars(ReleaseFind(w) /\ UNCHANGED afterVars)
         /\ WF_allVars(/\ ReleaseDone(w) \/ \E j \in rel[w].todo : ReleaseClaim(w, j)
                       /\ UNCHANGED afterVars)
         /\ SF_allVars(ReleaseCredit(w) /\ UNCHANGED afterVars)
    /\ WF_allVars((\E e \in Earning : Elapse(e) \/ AutoReleaseStuck(e))
                  /\ UNCHANGED afterVars)

AfterFairSpec == AfterSpec /\ AfterFairness

-----------------------------------------------------------------------------
(* Properties, beside ReleasedOnce of Earnings                             *)

\* An earning that a full refund took away from the vendor never reaches the
\* vendor's balance, although the release cron had loaded it before
\* (disputes.service.ts: "Delete unreleased earnings").
RefundedNeverPaid == \A e \in refundedAway : credited[e] = 0

\* A payment is refunded a second time only where two refunds of its order
\* overlap, or for each refund that never made it into the payment's record: its
\* answer was lost, or saving it failed or was cut short.  Disputes and returns
\* decided one after another do not (refundPaystackPayment: "already been
\* refunded").
RefundedOnceUnlessRaced ==
    \A o \in Order : refunds[o] > 1 + unsaved[o] => o \in raced

\* However many vendors mark returns of an order received at once, its stock
\* is put back once ("never restore twice", restoreInventory).
StockBackOnce == \A o \in Order : restored[o] <= 1

\* Claimed by a release run that could neither credit it nor revert its claim.
Forfeited(e) ==
    /\ doc[e].state = "released"
    /\ credited[e] = 0
    /\ \A w \in Releaser : ~ (rel[w].pc = "claimed" /\ rel[w].cur.earning = e)

\* No money of a delivered order stays unscheduled for ever: an unreleased
\* earning is paid, taken back, left with nothing to pay or forfeited
\* (autoReleaseStuckEarnings: "the money would be stuck forever").
EventuallyPaidOut ==
    \A e \in Earning :
      doc[e].state = "held"
        ~> (\/ credited[e] > 0 \/ doc[e].state = "deleted" \/ doc[e].net = 0
            \/ Forfeited(e))
=============================================================================
