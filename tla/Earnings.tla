------------------------------ MODULE Earnings ------------------------------
(***************************************************************************)
(* Vendor earnings: how a paid order becomes BusinessEarning documents,    *)
(* how the documents are scheduled for release, released into the vendor's *)
(* wallet by a cron that every backend instance runs, and reversed when    *)
(* the order is cancelled or an item is rejected.                          *)
(*                                                                         *)
(* Every await of the source that separates a read from the write that     *)
(* depends on it is a boundary between two actions here.  One document is  *)
(* one Mongo document, so a conditional updateOne and a $inc are atomic,   *)
(* and a find followed by a save is not.                                   *)
(*                                                                         *)
(* Left out: the earning of the vendor of an applied fabric, which         *)
(* recordBusinessEarnings creates beside the item's own and whose errors   *)
(* it only logs.  An Item is an ordered item with its own vendor.          *)
(***************************************************************************)
EXTENDS Integers, FiniteSets, FiniteSetsExt, Functions

CONSTANTS
    Order, Item, Vendor,
    OrderOf,      \* OrderOf[i]: the order item i belongs to
    VendorOf,     \* VendorOf[i]: item.business
    Share,        \* Share[e]: the net amount of one earning of an item
    Legacy,       \* orders that may have been paid before earnings_recorded existed
    Recorder,     \* concurrent calls of recordBusinessEarnings
    Releaser,     \* backend instances running the releaseFunds cron
    Reverser,     \* concurrent cancellations and item rejections
    Faults        \* which of the failures below the environment may cause

Milestone == {"upfront", "completion"}
Earning == Item \X Milestone

ASSUME EarningsAssumption ==
    /\ IsFiniteSet(Item)
    /\ OrderOf \in [Item -> Order]
    /\ VendorOf \in [Item -> Vendor]
    /\ Share \in [Earning -> Nat]
    /\ Legacy \subseteq Order
    /\ Faults \subseteq {"crash", "creditError", "revertError", "lostReply"}

VARIABLES
    status,       \* order.status
    paid,         \* orders whose payment succeeded (order.payment_status)
    recorded,     \* order.earnings_recorded
    confirmed,    \* the <<order, vendor>> pairs whose shipment is confirmed
    dispatched,   \* the <<order, vendor>> pairs whose shipment was shipped
    satisfied,    \* order.customer_satisfied
    rejected,     \* the items whose vendor rejected them
    doc,          \* the BusinessEarning documents
    pending,      \* wallet.pending_balance of each vendor
    balance,      \* wallet.balance of each vendor
    rec,          \* local state of each recordBusinessEarnings call
    rel,          \* local state of each releaseFunds run
    rev,          \* local state of each reversal
    created,      \* history: how many documents were created for an earning
    credited      \* history: how often an earning was added to balance

orderVars == <<status, paid, confirmed, dispatched, satisfied, rejected>>
walletVars == <<pending, balance>>
vars == <<orderVars, recorded, doc, walletVars, rec, rel, rev, created, credited>>

OrderStatus ==
    {"pending", "in_review", "processing", "in_transit", "completed", "cancelled"}
ReleaseDate == {"null", "later", "due"}
Doc == [state: {"none", "held", "released", "deleted"},
        date: ReleaseDate, net: Int]

ItemsOf(o) == {i \in Item : OrderOf[i] = o}
VendorsOf(o) == {VendorOf[i] : i \in ItemsOf(o)}

\* An item is split into an upfront and a completion earning only when the
\* order is tailored work and an upfront percentage is configured.
EarningsOf(i) == {e \in {i} \X Milestone : e[2] = "completion" \/ Share[e] > 0}
OrderEarnings(o) == UNION {EarningsOf(i) : i \in ItemsOf(o)}
VendorEarnings(v) == UNION {EarningsOf(i) : i \in {j \in Item : VendorOf[j] = v}}

\* What one loop over a find() result remembers of an earning document.
Job == [earning: Earning, net: Int]
JobOf(e) == [earning |-> e, net |-> doc[e].net]

Idle == [pc |-> "idle", todo |-> {}]
RecState == {Idle} \cup
            [pc: {"claimed", "items"}, order: Order,
             todo: SUBSET Item, docs: SUBSET Earning]
RelState == {Idle} \cup
            [pc: {"loop"}, todo: SUBSET Job] \cup
            [pc: {"claimed"}, todo: SUBSET Job, cur: Job]
RevState == {Idle} \cup
            [pc: {"refund", "findHeld", "held", "released"},
             order: Order, scope: SUBSET Item, todo: SUBSET Job] \cup
            [pc: {"heldWrite", "heldDelete", "relWrite", "relZero"},
             order: Order, scope: SUBSET Item, todo: SUBSET Job,
             cur: Job, pending: Int, balance: Int]

TypeOK ==
    /\ status \in [Order -> OrderStatus]
    /\ paid \subseteq Order
    /\ recorded \in [Order -> BOOLEAN]
    /\ confirmed \subseteq Order \X Vendor
    /\ dispatched \subseteq Order \X Vendor
    /\ satisfied \subseteq Order
    /\ rejected \subseteq Item
    /\ doc \in [Earning -> Doc]
    /\ pending \in [Vendor -> Int]
    /\ balance \in [Vendor -> Int]
    /\ rec \in [Recorder -> RecState]
    /\ rel \in [Releaser -> RelState]
    /\ rev \in [Reverser -> RevState]
    /\ created \in [Earning -> Nat]
    /\ credited \in [Earning -> Nat]

-----------------------------------------------------------------------------
NoDoc == [state |-> "none", date |-> "null", net |-> 0]
HeldDoc(e) == [state |-> "held", date |-> "null", net |-> Share[e]]

\* An item that is not split has no upfront share.
NetOf(i) == Share[<<i, "upfront">>] + Share[<<i, "completion">>]
NetOfVendor(v, S) ==
    SumFunctionOnSet([i \in Item |-> NetOf(i)], {i \in S : VendorOf[i] = v})

\* Every order starts unpaid, except those in L: paid and recorded by a
\* version of the program that had no earnings_recorded flag.
InitWith(L) ==
    LET old == {i \in Item : OrderOf[i] \in L} IN
    /\ status = [o \in Order |-> IF o \in L THEN "in_review" ELSE "pending"]
    /\ paid = L
    /\ recorded = [o \in Order |-> FALSE]
    /\ confirmed = {} /\ dispatched = {} /\ satisfied = {}
    /\ rejected = {}
    /\ doc = [e \in Earning |->
                IF e[1] \in old /\ e \in EarningsOf(e[1]) THEN HeldDoc(e) ELSE NoDoc]
    /\ pending = [v \in Vendor |-> IF L = {} THEN 0 ELSE NetOfVendor(v, old)]
    /\ balance = [v \in Vendor |-> 0]
    /\ rec = [p \in Recorder |-> Idle]
    /\ rel = [w \in Releaser |-> Idle]
    /\ rev = [r \in Reverser |-> Idle]
    /\ created = [e \in Earning |->
                    IF e[1] \in old /\ e \in EarningsOf(e[1]) THEN 1 ELSE 0]
    /\ credited = [e \in Earning |-> 0]

Init == \E L \in SUBSET Legacy : InitWith(L)

-----------------------------------------------------------------------------
(* The order, as far as it decides when earnings are scheduled.            *)

\* updateMany over the held documents in S that satisfy a filter on the date.
Schedule(S, filter, date) ==
    doc' = [e \in Earning |->
              IF e \in S /\ doc[e].state = "held" /\ doc[e].date \in filter
              THEN [doc[e] EXCEPT !.date = date] ELSE doc[e]]

unchangedCalls == UNCHANGED <<rec, rel, rev, created, credited>>

\* The payment succeeds: finalizeCheckoutOrder moves the order to in_review,
\* whatever vendors, who may answer before, made of its status.
Pay(o) ==
    /\ o \notin paid
    /\ paid' = paid \cup {o}
    /\ status' = [status EXCEPT ![o] = "in_review"]
    /\ UNCHANGED <<recorded, confirmed, dispatched, satisfied, rejected,
                   doc, walletVars>>
    /\ unchangedCalls

ActiveVendors(o) == {VendorOf[i] : i \in ItemsOf(o) \ rejected}

\* A vendor confirms, be the order paid or not; the order becomes processing once
\* every vendor that has not rejected its shipment confirmed, whatever the status
\* was before, and the vendor's upfront earnings get a release date.
ConfirmShipment(o, v) ==
    /\ v \in ActiveVendors(o)
    /\ <<o, v>> \notin confirmed
    /\ confirmed' = confirmed \cup {<<o, v>>}
    /\ status' = IF \A u \in ActiveVendors(o) : <<o, u>> \in confirmed'
                 THEN [status EXCEPT ![o] = "processing"] ELSE status
    /\ Schedule({e \in OrderEarnings(o) :
                   VendorOf[e[1]] = v /\ e[2] = "upfront"}, {"null"}, "later")
    /\ UNCHANGED <<recorded, paid, dispatched, satisfied, rejected, walletVars>>
    /\ unchangedCalls

\* A confirmed vendor of a paid order ships.  Neither the order's status nor a
\* cancellation is consulted.  A rejected vendor's shipment is failed, never
\* shipped, so an order with one does not become in_transit here.
Dispatch(o, v) ==
    /\ o \in paid
    /\ <<o, v>> \in confirmed \ dispatched
    /\ v \in ActiveVendors(o)
    /\ dispatched' = dispatched \cup {<<o, v>>}
    /\ status' = IF \A u \in VendorsOf(o) : <<o, u>> \in dispatched'
                 THEN [status EXCEPT ![o] = "in_transit"] ELSE status
    /\ UNCHANGED <<recorded, paid, confirmed, satisfied, rejected, doc, walletVars>>
    /\ unchangedCalls

\* The courier's webhook reports that a shipment moved, be it the only one of the
\* order that was shipped: unless everything is delivered the order is in
\* transit, whatever its status was.
Transit(o) ==
    /\ \E v \in Vendor : <<o, v>> \in dispatched
    /\ status' = [status EXCEPT ![o] = "in_transit"]
    /\ UNCHANGED <<recorded, paid, confirmed, dispatched, satisfied, rejected,
                   doc, walletVars>>
    /\ unchangedCalls

\* The courier's webhook reports the last delivery of an order all of whose
\* shipments were shipped.  A repeated report schedules again what has no date.
Deliver(o) ==
    /\ VendorsOf(o) # {}
    /\ \A v \in VendorsOf(o) : <<o, v>> \in dispatched
    /\ status' = [status EXCEPT ![o] = "completed"]
    /\ Schedule(OrderEarnings(o), {"null"}, "later")
    /\ UNCHANGED <<recorded, paid, confirmed, dispatched, satisfied, rejected,
                   walletVars>>
    /\ unchangedCalls

\* The customer confirms satisfaction: release now, whatever the date was.
ConfirmSatisfaction(o) ==
    /\ status[o] = "completed"
    /\ o \notin satisfied
    /\ satisfied' = satisfied \cup {o}
    /\ Schedule(OrderEarnings(o), ReleaseDate, "due")
    /\ UNCHANGED <<status, recorded, paid, confirmed, dispatched, rejected,
                   walletVars>>
    /\ unchangedCalls

\* The payout delay elapses.
Elapse(e) ==
    /\ doc[e].state = "held"
    /\ doc[e].date = "later"
    /\ doc' = [doc EXCEPT ![e].date = "due"]
    /\ UNCHANGED <<orderVars, recorded, walletVars>>
    /\ unchangedCalls

\* Mutation: a completed order is not eligible.
AutoReleaseInFlight(e) ==
    LET o == OrderOf[e[1]] IN
    /\ \E v \in VendorsOf(o) : <<o, v>> \in dispatched
    /\ status[o] \in {"processing", "in_transit"}
    /\ doc[e].state = "held"
    /\ doc[e].date = "null"
    /\ doc' = [doc EXCEPT ![e].date = "due"]
    /\ UNCHANGED <<orderVars, recorded, walletVars>>
    /\ unchangedCalls

\* The safety-net cron: an unscheduled earning of an order dispatched long
\* enough ago becomes due.
AutoReleaseStuck(e) ==
    LET o == OrderOf[e[1]] IN
    /\ \E v \in VendorsOf(o) : <<o, v>> \in dispatched
    /\ status[o] \in {"processing", "in_transit", "completed"}
    /\ doc[e].state = "held"
    /\ doc[e].date = "null"
    /\ doc' = [doc EXCEPT ![e].date = "due"]
    /\ UNCHANGED <<orderVars, recorded, walletVars>>
    /\ unchangedCalls

-----------------------------------------------------------------------------
(* recordBusinessEarnings                                                  *)

recordVars == <<orderVars, balance, rel, rev, credited>>

\* The filter of the claim.
Unclaimed(o) == ~recorded[o]

\* The atomic claim: the first caller flips earnings_recorded, the others stop.
\* Called for an order whose payment succeeded, by the webhook, the customer's
\* return, the wallet checkout, the bespoke acceptance and the backfill; any
\* of these callers may be late, so the order may have moved on.
RecordClaim(p, o) ==
    /\ rec[p].pc = "idle"
    /\ o \in paid
    /\ Unclaimed(o)
    /\ recorded' = [recorded EXCEPT ![o] = TRUE]
    /\ rec' = [rec EXCEPT ![p] =
                 [pc |-> "claimed", order |-> o, todo |-> {}, docs |-> {}]]
    /\ UNCHANGED <<recordVars, doc, pending, created>>

\* Mutation: no secondary guard.
NeverRecorded(o) == o \notin Order

\* Some earning of the order exists.
AlreadyRecorded(o) ==
    \E e \in OrderEarnings(o) : doc[e].state \in {"held", "released"}

\* The secondary guard for orders that predate the flag: nothing is left to do
\* when the order has earnings already.
RecordLoad(p) ==
    /\ rec[p].pc = "claimed"
    /\ rec' = [rec EXCEPT ![p].pc = "items",
                          ![p].todo = IF AlreadyRecorded(rec[p].order)
                                      THEN {} ELSE ItemsOf(rec[p].order)]
    /\ UNCHANGED <<recordVars, recorded, doc, pending, created>>

\* One businessEarningsModel.create of the item being processed.
RecordDoc(p, e) ==
    /\ rec[p].pc = "items"
    /\ e[1] \in rec[p].todo
    /\ e \in EarningsOf(e[1]) \ rec[p].docs
    /\ rec[p].docs \subseteq EarningsOf(e[1])
    /\ rec' = [rec EXCEPT ![p].docs = @ \cup {e}]
    /\ doc' = [doc EXCEPT ![e] = HeldDoc(e)]
    /\ created' = [created EXCEPT ![e] = @ + 1]
    /\ UNCHANGED <<recordVars, recorded, pending>>

\* The item's documents exist: its net amount is added to pending_balance.
RecordPending(p, i) ==
    /\ rec[p].pc = "items"
    /\ i \in rec[p].todo
    /\ rec[p].docs = EarningsOf(i)
    /\ rec' = [rec EXCEPT ![p].todo = @ \ {i}, ![p].docs = {}]
    /\ pending' = [pending EXCEPT ![VendorOf[i]] = @ + NetOf(i)]
    /\ UNCHANGED <<recordVars, recorded, doc, created>>

\* Mutation: the call stops after any item, not after the last.
RecordStopsEarly(p) ==
    /\ rec[p].pc = "items"
    /\ rec[p].docs = {}
    /\ rec' = [rec EXCEPT ![p] = Idle]
    /\ UNCHANGED <<recordVars, recorded, doc, pending, created>>

RecordDone(p) ==
    /\ rec[p].pc = "items"
    /\ rec[p].todo = {}
    /\ rec' = [rec EXCEPT ![p] = Idle]
    /\ UNCHANGED <<recordVars, recorded, doc, pending, created>>

-----------------------------------------------------------------------------
(* The releaseFunds cron                                                   *)

releaseVars == <<orderVars, recorded, rec, rev, created>>

Due == {e \in Earning : doc[e].state = "held" /\ doc[e].date = "due"}

\* The run loads every due earning at once.
ReleaseFind(w) ==
    /\ rel[w].pc = "idle"
    /\ Due # {}
    /\ rel' = [rel EXCEPT ![w] = [pc |-> "loop", todo |-> {JobOf(e) : e \in Due}]]
    /\ UNCHANGED <<releaseVars, doc, walletVars, credited>>

\* The filter of the claim.
Unreleased(e) == doc[e].state = "held"

\* The conditional update released: false -> true is the claim; a run that
\* loses it, and an earning without a net amount, is skipped.
ReleaseClaim(w, j) ==
    /\ rel[w].pc = "loop"
    /\ j \in rel[w].todo
    /\ LET rest == rel[w].todo \ {j} IN
       IF j.net # 0 /\ Unreleased(j.earning)
       THEN /\ doc' = [doc EXCEPT ![j.earning].state = "released"]
            /\ rel' = [rel EXCEPT ![w] = [pc |-> "claimed", todo |-> rest, cur |-> j]]
       ELSE /\ rel' = [rel EXCEPT ![w].todo = rest]
            /\ UNCHANGED doc
    /\ UNCHANGED <<releaseVars, walletVars, credited>>

\* Mutation: the pending balance is not reduced.
CreditBalanceOnly(j) ==
    LET v == VendorOf[j.earning[1]] IN
    /\ balance' = [balance EXCEPT ![v] = @ + j.net]
    /\ credited' = [credited EXCEPT ![j.earning] = @ + 1]
    /\ UNCHANGED pending

\* The vendor's wallet moves the net amount read by the find, in one $inc.
Credit(j) ==
    LET v == VendorOf[j.earning[1]] IN
    /\ balance' = [balance EXCEPT ![v] = @ + j.net]
    /\ pending' = [pending EXCEPT ![v] = @ - j.net]
    /\ credited' = [credited EXCEPT ![j.earning] = @ + 1]

\* The revert fails as well, its error is swallowed: the earning stays claimed.
LeaveClaimed(w) ==
    /\ rel' = [rel EXCEPT ![w] = [pc |-> "loop", todo |-> rel[w].todo]]
    /\ UNCHANGED doc

\* The credit failed: the claim is reverted so that a later run retries.
RevertClaim(w) ==
    LET j == rel[w].cur IN
    /\ rel' = [rel EXCEPT ![w] = [pc |-> "loop", todo |-> rel[w].todo]]
    /\ doc' = IF doc[j.earning].state = "released"
              THEN [doc EXCEPT ![j.earning].state = "held"] ELSE doc

ReleaseCredit(w) ==
    /\ rel[w].pc = "claimed"
    /\ Credit(rel[w].cur)
    /\ rel' = [rel EXCEPT ![w] = [pc |-> "loop", todo |-> rel[w].todo]]
    /\ UNCHANGED <<releaseVars, doc>>

\* The database reports an error on the credit: either nothing was applied, or
\* the credit was applied and only its reply was lost.  Either way the claim is
\* reverted, unless that fails too.
ReleaseCreditError(w) ==
    /\ rel[w].pc = "claimed"
    /\ \/ /\ "creditError" \in Faults
          /\ UNCHANGED <<walletVars, credited>>
       \/ /\ "lostReply" \in Faults
          /\ credited[rel[w].cur.earning] < 2
          /\ Credit(rel[w].cur)
    /\ \/ RevertClaim(w)
       \/ "revertError" \in Faults /\ LeaveClaimed(w)
    /\ UNCHANGED releaseVars

ReleaseDone(w) ==
    /\ rel[w].pc = "loop"
    /\ rel[w].todo = {}
    /\ rel' = [rel EXCEPT ![w] = Idle]
    /\ UNCHANGED <<releaseVars, doc, walletVars, credited>>

-----------------------------------------------------------------------------
(* cancelOrder, item rejection, and the reversal of earnings they run      *)

reverseVars == <<paid, confirmed, dispatched, satisfied, recorded,
                 rec, rel, created, credited>>

\* cancelOrder checks only that the order is not cancelled yet (and that a
\* successful payment exists), then spends several awaits on the refund.
CancelBegin(r, o) ==
    /\ rev[r].pc = "idle"
    /\ o \in paid
    /\ status[o] # "cancelled"
    /\ rev' = [rev EXCEPT ![r] =
                [pc |-> "refund", order |-> o, scope |-> ItemsOf(o), todo |-> {}]]
    /\ UNCHANGED <<reverseVars, status, rejected, doc, walletVars>>

CancelSave(r) ==
    /\ rev[r].pc = "refund"
    /\ status' = [status EXCEPT ![rev[r].order] = "cancelled"]
    /\ rev' = [rev EXCEPT ![r].pc = "findHeld"]
    /\ UNCHANGED <<reverseVars, rejected, doc, walletVars>>

\* A vendor rejects one item, be the order paid or not; the order is cancelled with its
\* last item, and becomes processing when only confirmed vendors are left.  The
\* reversal is scoped to the item.
RejectItem(r, i) ==
    LET o == OrderOf[i] IN
    /\ rev[r].pc = "idle"
    /\ i \notin rejected
    /\ <<o, VendorOf[i]>> \notin dispatched
    /\ rejected' = rejected \cup {i}
    /\ LET active == {VendorOf[k] : k \in ItemsOf(o) \ rejected'} IN
       status' = [status EXCEPT ![o] =
                    IF active = {} THEN "cancelled"
                    ELSE IF \A u \in active : <<o, u>> \in confirmed THEN "processing"
                    ELSE @]
    /\ rev' = [rev EXCEPT ![r] =
                [pc |-> "findHeld", order |-> o, scope |-> {i}, todo |-> {}]]
    /\ UNCHANGED <<reverseVars, doc, walletVars>>

InScope(r, state) ==
    {e \in Earning : e[1] \in rev[r].scope /\ doc[e].state = state}

\* The two finds: first the unreleased earnings, later the released ones.
ReverseFind(r, from, state) ==
    /\ rev[r].pc = from
    /\ rev' = [rev EXCEPT ![r].pc = state,
                          ![r].todo = {JobOf(e) : e \in InScope(r, state)}]
    /\ UNCHANGED <<reverseVars, status, rejected, doc, walletVars>>

ReverseFindHeld(r) == ReverseFind(r, "findHeld", "held")

ReverseFindReleased(r) ==
    /\ rev[r].todo = {}
    /\ ReverseFind(r, "held", "released")

\* reconcileBusinessWallet loads the wallet; a zero delta touches nothing.
ReconcileRead(r, j) ==
    LET v == VendorOf[j.earning[1]]
        next == CASE j.net # 0 /\ rev[r].pc = "held" -> "heldWrite"
                  [] j.net = 0 /\ rev[r].pc = "held" -> "heldDelete"
                  [] j.net # 0 /\ rev[r].pc = "released" -> "relWrite"
                  [] j.net = 0 /\ rev[r].pc = "released" -> "relZero"
    IN
    /\ rev[r].pc \in {"held", "released"}
    /\ j \in rev[r].todo
    /\ rev' = [rev EXCEPT ![r] =
                [pc |-> next, order |-> rev[r].order, scope |-> rev[r].scope,
                 todo |-> rev[r].todo \ {j}, cur |-> j,
                 pending |-> pending[v], balance |-> balance[v]]]
    /\ UNCHANGED <<reverseVars, status, rejected, doc, walletVars>>

Clamp(n) == IF n < 0 THEN 0 ELSE n

\* The save of the loaded wallet.  Mongoose sends only the fields whose value
\* changed, but it sends the value computed from the earlier read.
SaveField(field, v, read, delta) ==
    IF Clamp(read + delta) = read THEN field
    ELSE [field EXCEPT ![v] = Clamp(read + delta)]

ReconcileWrite(r) ==
    LET j == rev[r].cur
        v == VendorOf[j.earning[1]]
        held == rev[r].pc = "heldWrite"
    IN
    /\ rev[r].pc \in {"heldWrite", "relWrite"}
    /\ pending' = SaveField(pending, v, rev[r].pending, IF held THEN -j.net ELSE 0)
    /\ balance' = SaveField(balance, v, rev[r].balance, IF held THEN 0 ELSE -j.net)
    /\ rev' = [rev EXCEPT ![r].pc = IF held THEN "heldDelete" ELSE "relZero"]
    /\ UNCHANGED <<reverseVars, status, rejected, doc>>

BackTo(r, pc) ==
    rev' = [rev EXCEPT ![r] = [pc |-> pc, order |-> rev[r].order,
                               scope |-> rev[r].scope, todo |-> rev[r].todo]]

\* deleteOne by id: whether the earning was released meanwhile is not asked.
DeleteEarning(r) ==
    LET e == rev[r].cur.earning IN
    /\ rev[r].pc = "heldDelete"
    /\ doc' = [doc EXCEPT ![e].state = "deleted"]
    /\ BackTo(r, "held")
    /\ UNCHANGED <<reverseVars, status, rejected, walletVars>>

\* Mutation: a clawed-back earning becomes unreleased again.
Unrelease(r) ==
    LET e == rev[r].cur.earning IN
    /\ rev[r].pc = "relZero"
    /\ doc' = [doc EXCEPT ![e].state = "held"]
    /\ BackTo(r, "released")
    /\ UNCHANGED <<reverseVars, status, rejected, walletVars>>

\* A clawed-back earning keeps released = true and loses its net amount.
ZeroEarning(r) ==
    LET e == rev[r].cur.earning IN
    /\ rev[r].pc = "relZero"
    /\ doc' = [doc EXCEPT ![e].net = 0]
    /\ BackTo(r, "released")
    /\ UNCHANGED <<reverseVars, status, rejected, walletVars>>

ReverseDone(r) ==
    /\ rev[r].pc = "released"
    /\ rev[r].todo = {}
    /\ rev' = [rev EXCEPT ![r] = Idle]
    /\ UNCHANGED <<reverseVars, status, rejected, doc, walletVars>>

-----------------------------------------------------------------------------
\* The calls whose instance may stop.
Stoppable == IF "crash" \in Faults THEN Recorder \cup Releaser \cup Reverser ELSE {}

\* The backend instance running a call stops (a deployment, auto_stop_machines).
Crash(c) ==
    /\ \/ c \in Recorder /\ rec[c].pc # "idle" /\ rec' = [rec EXCEPT ![c] = Idle]
          /\ UNCHANGED <<rel, rev>>
       \/ c \in Releaser /\ rel[c].pc # "idle" /\ rel' = [rel EXCEPT ![c] = Idle]
          /\ UNCHANGED <<rec, rev>>
       \/ c \in Reverser /\ rev[c].pc # "idle" /\ rev' = [rev EXCEPT ![c] = Idle]
          /\ UNCHANGED <<rec, rel>>
    /\ UNCHANGED <<orderVars, recorded, doc, walletVars, created, credited>>

OrderStep ==
    \/ \E o \in Order :
         \/ Pay(o) \/ Transit(o) \/ Deliver(o) \/ ConfirmSatisfaction(o)
         \/ \E v \in Vendor : \/ ConfirmShipment(o, v) \/ Dispatch(o, v)
    \/ \E e \in Earning : Elapse(e) \/ AutoReleaseStuck(e)

RecordStep ==
    \E p \in Recorder :
      \/ \E o \in Order : RecordClaim(p, o)
      \/ RecordLoad(p)
      \/ \E e \in Earning : RecordDoc(p, e)
      \/ \E i \in Item : RecordPending(p, i)
      \/ RecordDone(p)

ReleaseStep ==
    \E w \in Releaser :
      \/ ReleaseFind(w)
      \/ \E j \in rel[w].todo : ReleaseClaim(w, j)
      \/ ReleaseCredit(w) \/ ReleaseCreditError(w) \/ ReleaseDone(w)

ReverseStep ==
    \E r \in Reverser :
      \/ \E o \in Order : CancelBegin(r, o)
      \/ \E i \in Item : RejectItem(r, i)
      \/ CancelSave(r)
      \/ ReverseFindHeld(r) \/ ReverseFindReleased(r)
      \/ \E j \in rev[r].todo : ReconcileRead(r, j)
      \/ ReconcileWrite(r) \/ DeleteEarning(r) \/ ZeroEarning(r)
      \/ ReverseDone(r)

CrashStep == \E c \in Stoppable : Crash(c)

Next == OrderStep \/ RecordStep \/ ReleaseStep \/ ReverseStep \/ CrashStep

Spec == Init /\ [][Next]_vars

\* A call that runs takes its next step; the cron fires again and again, the
\* payout delay elapses, and a paid order's caller reaches the claim.  The
\* database does not fail a credit for ever: strong fairness of the credit.
Fairness ==
    /\ \A o \in Order : WF_vars(\E p \in Recorder : RecordClaim(p, o))
    /\ \A p \in Recorder :
         WF_vars(\/ RecordLoad(p) \/ RecordDone(p)
                 \/ \E e \in Earning : RecordDoc(p, e)
                 \/ \E i \in Item : RecordPending(p, i))
    /\ \A w \in Releaser :
         /\ WF_vars(ReleaseFind(w))
         /\ WF_vars(ReleaseDone(w) \/ \E j \in rel[w].todo : ReleaseClaim(w, j))
         /\ SF_vars(ReleaseCredit(w))
    /\ \A e \in Earning : WF_vars(Elapse(e))

FairSpec == Spec /\ Fairness

-----------------------------------------------------------------------------
(* Properties                                                              *)

\* Whoever calls recordBusinessEarnings for an order, and however often, an
\* item's earning is created at most once, legacy orders included
\* (business.service.ts: "never record earnings twice for the same order").
RecordedOnce == \A e \in Earning : created[e] <= 1

\* However many instances run the release cron, and whatever is rejected or
\* cancelled meanwhile, an earning enters the vendor's balance at most once
\* (business-earning-cron.ts: the claim against "a duplicate payout").
ReleasedOnce == \A e \in Earning : credited[e] <= 1

NetHeld(v, state) ==
    SumFunctionOnSet([e \in Earning |-> doc[e].net],
                     {e \in VendorEarnings(v) : doc[e].state = state})

Quiet ==
    /\ \A p \in Recorder : rec[p].pc # "items"
    /\ \A w \in Releaser : rel[w].pc # "claimed"
    /\ \A r \in Reverser : rev[r].pc = "idle"

\* Whenever no call is between two writes that belong together, a vendor's
\* pending balance is the sum of its unreleased earnings and its balance the
\* sum of its released ones ("so the wallet stays in sync with the
\* BusinessEarning records", reconcileBusinessWallet).
LedgerInSync ==
    Quiet => \A v \in Vendor : /\ pending[v] = NetHeld(v, "held")
                              /\ balance[v] = NetHeld(v, "released")

\* Every paid order is eventually recorded completely.
EventuallyRecorded ==
    \A o \in Order :
      (o \in paid) ~> (\A e \in OrderEarnings(o) : created[e] > 0)

\* A scheduled earning with a net amount is eventually credited, unless its
\* schedule is frozen or the earning is reversed before; where reverts of failed
\* credits do not fail themselves.
EventuallyReleased ==
    \A e \in Earning :
      (doc[e].state = "held" /\ doc[e].date # "null" /\ Share[e] > 0)
        ~> (credited[e] > 0 \/ doc[e].date = "null" \/ doc[e].state = "deleted")
=============================================================================
