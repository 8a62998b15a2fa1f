--------------------------- MODULE EarningsProofs ---------------------------
(***************************************************************************)
(* Theorems about Earnings, and about AfterSale and LatePenalty, which     *)
(* build on it, for every set of orders, items, vendors, release runs and  *)
(* calls.  With orders from before the earnings_recorded flag (Legacy),    *)
(* those about recording and release leave reversals out: a reversal may   *)
(* delete what shows that such an order is recorded.  A payout step of     *)
(* AfterSale and a step of another call in LatePenalty are steps of        *)
(* Earnings, so the lemmas about single steps serve all three.             *)
(***************************************************************************)
EXTENDS AfterSale, LatePenalty, SumTheorems

-----------------------------------------------------------------------------
(* Facts about the operators of Earnings.                                  *)

\* The documents of an item are earnings of that item (EarningsOf).
LEMMA EarningsOfType ==
    ASSUME NEW i \in Item, NEW e \in EarningsOf(i)
    PROVE  e \in Earning /\ e[1] = i
BY DEF EarningsOf, Earning

\* A job remembers an earning and an amount (JobOf).
LEMMA JobType ==
    ASSUME TypeOK, NEW e \in Earning
    PROVE  JobOf(e) \in Job
BY DEF TypeOK, Doc, JobOf, Job

LEMMA JobParts ==
    ASSUME NEW j \in Job
    PROVE  /\ j.earning \in Earning /\ j.net \in Int
           /\ VendorOf[j.earning[1]] \in Vendor
BY EarningsAssumption DEF Job, Earning

\* What an item adds to pending_balance is a number (NetOf).
LEMMA NetType == ASSUME NEW i \in Item PROVE NetOf(i) \in Nat
<1>1. <<i, "upfront">> \in Earning /\ <<i, "completion">> \in Earning
    BY DEF Earning, Milestone
<1> QED BY <1>1, EarningsAssumption DEF NetOf

\* A new earning is a document without a release date (HeldDoc).
LEMMA HeldDocType == ASSUME NEW e \in Earning PROVE HeldDoc(e) \in Doc
<1>1. Share[e] \in Int BY EarningsAssumption
<1> QED BY <1>1 DEF HeldDoc, Doc, ReleaseDate

-----------------------------------------------------------------------------
(* Type correctness.                                                       *)

\* The sums of what vendors earn with some items are numbers (InitWith).
LEMMA NetOfVendorType ==
    ASSUME NEW v, NEW S, S \subseteq Item
    PROVE  NetOfVendor(v, S) \in Int
<1> DEFINE T == {i \in S : VendorOf[i] = v}
           f == [i \in Item |-> NetOf(i)]
<1>1. T \subseteq Item /\ IsFiniteSet(T) BY EarningsAssumption, FS_Subset
<1>2. \A i \in T : f[i] \in Int BY <1>1, NetType
<1>3. NetOfVendor(v, S) = SumFunctionOnSet(f, T) BY DEF NetOfVendor
<1> HIDE DEF T, f
<1> QED BY <1>1, <1>2, <1>3, SumType

\* The items of orders without the flag.
Old(L) == {i \in Item : OrderOf[i] \in L}

LEMMA InitType == ASSUME NEW L \in SUBSET Legacy, InitWith(L) PROVE TypeOK
<1>1. \A e \in Earning : HeldDoc(e) \in Doc /\ NoDoc \in Doc
    BY EarningsAssumption DEF HeldDoc, NoDoc, Doc, ReleaseDate
<1>2. doc \in [Earning -> Doc] /\ created \in [Earning -> Nat]
    BY <1>1 DEF InitWith
<1>3. status \in [Order -> OrderStatus]
    BY DEF InitWith, OrderStatus
<1>4. pending \in [Vendor -> Int] /\ balance \in [Vendor -> Int]
    <2>1. Old(L) \subseteq Item BY DEF Old
    <2>2. \A v : NetOfVendor(v, Old(L)) \in Int BY <2>1, NetOfVendorType
    <2>3. pending = [v \in Vendor |-> IF L = {} THEN 0 ELSE NetOfVendor(v, Old(L))]
        BY DEF InitWith, Old
    <2> QED BY <2>2, <2>3 DEF InitWith
<1>5. /\ rec \in [Recorder -> RecState]
      /\ rel \in [Releaser -> RelState]
      /\ rev \in [Reverser -> RevState]
    BY DEF InitWith, RecState, RelState, RevState
<1> QED BY <1>2, <1>3, <1>4, <1>5, EarningsAssumption DEF InitWith, TypeOK

\* updateMany keeps the documents' type.
LEMMA ScheduleType ==
    ASSUME TypeOK, NEW S, NEW filter, NEW date \in ReleaseDate,
           Schedule(S, filter, date)
    PROVE  doc' \in [Earning -> Doc]
BY DEF TypeOK, Schedule, Doc

LEMMA OrderStepType == ASSUME TypeOK, OrderStep PROVE TypeOK'
<1>1. ASSUME NEW o \in Order, Pay(o) PROVE TypeOK'
    BY <1>1 DEF Pay, TypeOK, OrderStatus, walletVars, unchangedCalls
<1>2. ASSUME NEW o \in Order, NEW v \in Vendor, ConfirmShipment(o, v) PROVE TypeOK'
    <2>1. doc' \in [Earning -> Doc]
        BY <1>2, ScheduleType DEF ConfirmShipment, ReleaseDate
    <2> QED BY <2>1, <1>2
            DEF ConfirmShipment, TypeOK, OrderStatus, walletVars, unchangedCalls
<1>3. ASSUME NEW o \in Order, NEW v \in Vendor, Dispatch(o, v) PROVE TypeOK'
    BY <1>3 DEF Dispatch, TypeOK, OrderStatus, walletVars, unchangedCalls
<1>4. ASSUME NEW o \in Order, Deliver(o) PROVE TypeOK'
    <2>1. doc' \in [Earning -> Doc]
        BY <1>4, ScheduleType DEF Deliver, ReleaseDate
    <2> QED BY <2>1, <1>4 DEF Deliver, TypeOK, OrderStatus, walletVars, unchangedCalls
<1>5. ASSUME NEW o \in Order, ConfirmSatisfaction(o) PROVE TypeOK'
    <2>1. doc' \in [Earning -> Doc]
        BY <1>5, ScheduleType DEF ConfirmSatisfaction, ReleaseDate
    <2> QED BY <2>1, <1>5 DEF ConfirmSatisfaction, TypeOK, walletVars, unchangedCalls
<1>7. ASSUME NEW o \in Order, Transit(o) PROVE TypeOK'
    BY <1>7 DEF Transit, TypeOK, OrderStatus, walletVars, unchangedCalls
<1>8. ASSUME NEW e \in Earning, Elapse(e) \/ AutoReleaseStuck(e) PROVE TypeOK'
    <2>1. doc' \in [Earning -> Doc]
        BY <1>8 DEF Elapse, AutoReleaseStuck, TypeOK, Doc, ReleaseDate
    <2> QED BY <2>1, <1>8
            DEF Elapse, AutoReleaseStuck, TypeOK, orderVars, walletVars, unchangedCalls
<1> QED BY <1>1, <1>2, <1>3, <1>4, <1>5, <1>7, <1>8 DEF OrderStep

\* The local states by program counter.
LEMMA LocalStates ==
    ASSUME TypeOK
    PROVE  /\ \A p \in Recorder : rec[p].pc # "idle" =>
                rec[p] \in [pc: {"claimed", "items"}, order: Order,
                           todo: SUBSET Item, docs: SUBSET Earning]
           /\ \A w \in Releaser :
                /\ rel[w].pc = "loop" => rel[w] \in [pc: {"loop"}, todo: SUBSET Job]
                /\ rel[w].pc = "claimed" =>
                     rel[w] \in [pc: {"claimed"}, todo: SUBSET Job, cur: Job]
                /\ rel[w].todo \subseteq Job
           /\ \A r \in Reverser :
                /\ rev[r].pc \in {"refund", "findHeld", "held", "released"} =>
                     rev[r] \in [pc: {"refund", "findHeld", "held", "released"},
                                order: Order, scope: SUBSET Item, todo: SUBSET Job]
                /\ rev[r].pc \in {"heldWrite", "heldDelete", "relWrite", "relZero"} =>
                     rev[r] \in [pc: {"heldWrite", "heldDelete", "relWrite", "relZero"},
                                order: Order, scope: SUBSET Item, todo: SUBSET Job,
                                cur: Job, pending: Int, balance: Int]
                /\ rev[r].todo \subseteq Job
BY DEF TypeOK, RecState, RelState, RevState, Idle

LEMMA RecordStepType == ASSUME TypeOK, RecordStep PROVE TypeOK'
<1> USE DEF recordVars, orderVars
<1>1. ASSUME NEW p \in Recorder, NEW o \in Order, RecordClaim(p, o) PROVE TypeOK'
    BY <1>1 DEF RecordClaim, TypeOK, RecState
<1>2. ASSUME NEW p \in Recorder, RecordLoad(p) PROVE TypeOK'
    <2>1. rec[p] \in [pc: {"claimed", "items"}, order: Order,
                     todo: SUBSET Item, docs: SUBSET Earning]
        BY <1>2, LocalStates DEF RecordLoad
    <2>2. rec' \in [Recorder -> RecState]
        BY <2>1, <1>2 DEF RecordLoad, TypeOK, RecState, ItemsOf
    <2> QED BY <2>2, <1>2 DEF RecordLoad, TypeOK
<1>3. ASSUME NEW p \in Recorder, NEW e \in Earning, RecordDoc(p, e) PROVE TypeOK'
    <2>1. rec[p] \in [pc: {"claimed", "items"}, order: Order,
                     todo: SUBSET Item, docs: SUBSET Earning]
        BY <1>3, LocalStates DEF RecordDoc
    <2>2. rec' \in [Recorder -> RecState]
        BY <2>1, <1>3 DEF RecordDoc, TypeOK, RecState
    <2>3. doc' \in [Earning -> Doc]
        BY <1>3, HeldDocType DEF RecordDoc, TypeOK
    <2> QED BY <2>2, <2>3, <1>3 DEF RecordDoc, TypeOK
<1>4. ASSUME NEW p \in Recorder, NEW i \in Item, RecordPending(p, i) PROVE TypeOK'
    <2>1. rec[p] \in [pc: {"claimed", "items"}, order: Order,
                     todo: SUBSET Item, docs: SUBSET Earning]
        BY <1>4, LocalStates DEF RecordPending
    <2>2. rec' \in [Recorder -> RecState]
        BY <2>1, <1>4 DEF RecordPending, TypeOK, RecState
    <2>3. pending' \in [Vendor -> Int]
        <3>1. NetOf(i) \in Int /\ VendorOf[i] \in Vendor
            BY NetType, EarningsAssumption
        <3> QED BY <3>1, <1>4 DEF RecordPending, TypeOK
    <2> QED BY <2>2, <2>3, <1>4 DEF RecordPending, TypeOK
<1>5. ASSUME NEW p \in Recorder, RecordDone(p) PROVE TypeOK'
    BY <1>5 DEF RecordDone, TypeOK, RecState
<1> QED BY <1>1, <1>2, <1>3, <1>4, <1>5 DEF RecordStep

LEMMA ReleaseStepType == ASSUME TypeOK, ReleaseStep PROVE TypeOK'
<1> USE DEF releaseVars, orderVars, walletVars
<1>1. ASSUME NEW w \in Releaser, ReleaseFind(w) PROVE TypeOK'
    <2>1. {JobOf(e) : e \in Due} \in SUBSET Job
        BY JobType DEF Due
    <2>2. rel' \in [Releaser -> RelState]
        BY <2>1, <1>1 DEF ReleaseFind, TypeOK, RelState
    <2> QED BY <2>2, <1>1 DEF ReleaseFind, TypeOK
<1>2. ASSUME NEW w \in Releaser, NEW j \in rel[w].todo, ReleaseClaim(w, j) PROVE TypeOK'
    <2>1. /\ rel[w] \in [pc: {"loop"}, todo: SUBSET Job]
          /\ j \in Job /\ j.earning \in Earning
        BY <1>2, LocalStates DEF ReleaseClaim, Job
    <2>2. rel' \in [Releaser -> RelState]
        BY <2>1, <1>2 DEF ReleaseClaim, TypeOK, RelState
    <2>3. doc' \in [Earning -> Doc]
        <3>1. \/ doc' = [doc EXCEPT ![j.earning].state = "released"]
              \/ UNCHANGED doc
            BY <1>2 DEF ReleaseClaim
        <3>2. doc \in [Earning -> Doc] BY DEF TypeOK
        <3> QED BY <3>1, <3>2 DEF Doc
    <2> QED BY <2>2, <2>3, <1>2 DEF ReleaseClaim, TypeOK
<1>3. ASSUME NEW j \in Job, Credit(j)
      PROVE  /\ pending' \in [Vendor -> Int] /\ balance' \in [Vendor -> Int]
             /\ credited' \in [Earning -> Nat]
    <2>1. j.earning \in Earning /\ j.net \in Int /\ VendorOf[j.earning[1]] \in Vendor
        BY JobParts
    <2> QED BY <2>1, <1>3 DEF Credit, TypeOK
<1>4. ASSUME NEW w \in Releaser, rel[w].pc = "claimed", RevertClaim(w)
      PROVE  doc' \in [Earning -> Doc] /\ rel' \in [Releaser -> RelState]
    <2>1. /\ rel[w] \in [pc: {"claimed"}, todo: SUBSET Job, cur: Job]
          /\ rel[w].cur.earning \in Earning
        BY <1>4, LocalStates DEF Job
    <2>2. rel' \in [Releaser -> RelState]
        BY <2>1, <1>4 DEF RevertClaim, TypeOK, RelState
    <2>3. doc' \in [Earning -> Doc]
        BY <2>1, <1>4 DEF RevertClaim, TypeOK, Doc
    <2> QED BY <2>2, <2>3
<1>8. ASSUME NEW w \in Releaser, rel[w].pc = "claimed", LeaveClaimed(w)
      PROVE  doc' \in [Earning -> Doc] /\ rel' \in [Releaser -> RelState]
    <2>1. rel[w] \in [pc: {"claimed"}, todo: SUBSET Job, cur: Job]
        BY <1>8, LocalStates
    <2> QED BY <2>1, <1>8 DEF LeaveClaimed, TypeOK, RelState
<1>5. ASSUME NEW w \in Releaser, ReleaseCredit(w) PROVE TypeOK'
    <2>1. rel[w] \in [pc: {"claimed"}, todo: SUBSET Job, cur: Job]
        BY <1>5, LocalStates DEF ReleaseCredit
    <2>2. rel' \in [Releaser -> RelState]
        BY <2>1, <1>5 DEF ReleaseCredit, TypeOK, RelState
    <2>3. /\ pending' \in [Vendor -> Int] /\ balance' \in [Vendor -> Int]
          /\ credited' \in [Earning -> Nat]
        BY <2>1, <1>3, <1>5 DEF ReleaseCredit
    <2> QED BY <2>2, <2>3, <1>5 DEF ReleaseCredit, TypeOK
<1>6. ASSUME NEW w \in Releaser, ReleaseCreditError(w) PROVE TypeOK'
    <2>1. rel[w] \in [pc: {"claimed"}, todo: SUBSET Job, cur: Job]
        BY <1>6, LocalStates DEF ReleaseCreditError
    <2>2. doc' \in [Earning -> Doc] /\ rel' \in [Releaser -> RelState]
        BY <1>4, <1>6, <1>8 DEF ReleaseCreditError
    <2>3. /\ pending' \in [Vendor -> Int] /\ balance' \in [Vendor -> Int]
          /\ credited' \in [Earning -> Nat]
        BY <2>1, <1>3, <1>6 DEF ReleaseCreditError, TypeOK
    <2> QED BY <2>2, <2>3, <1>6 DEF ReleaseCreditError, TypeOK
<1>7. ASSUME NEW w \in Releaser, ReleaseDone(w) PROVE TypeOK'
    BY <1>7 DEF ReleaseDone, TypeOK, RelState
<1> QED BY <1>1, <1>2, <1>5, <1>6, <1>7 DEF ReleaseStep

LEMMA ReverseStepType == ASSUME TypeOK, ReverseStep PROVE TypeOK'
<1> USE DEF reverseVars, walletVars
<1>1. ASSUME NEW r \in Reverser, NEW o \in Order, CancelBegin(r, o) PROVE TypeOK'
    <2>1. rev' \in [Reverser -> RevState]
        BY <1>1 DEF CancelBegin, TypeOK, RevState, ItemsOf
    <2> QED BY <2>1, <1>1 DEF CancelBegin, TypeOK
<1>2. ASSUME NEW r \in Reverser, NEW i \in Item, RejectItem(r, i) PROVE TypeOK'
    <2>1. OrderOf[i] \in Order
        BY EarningsAssumption
    <2>2. rev' \in [Reverser -> RevState]
        BY <2>1, <1>2 DEF RejectItem, TypeOK, RevState
    <2>3. status' \in [Order -> OrderStatus]
        BY <2>1, <1>2 DEF RejectItem, TypeOK, OrderStatus
    <2> QED BY <2>2, <2>3, <1>2 DEF RejectItem, TypeOK
<1>3. ASSUME NEW r \in Reverser, CancelSave(r) PROVE TypeOK'
    <2>1. rev[r] \in [pc: {"refund", "findHeld", "held", "released"},
                     order: Order, scope: SUBSET Item, todo: SUBSET Job]
        BY <1>3, LocalStates DEF CancelSave
    <2>2. rev' \in [Reverser -> RevState]
        BY <2>1, <1>3 DEF CancelSave, TypeOK, RevState
    <2>3. status' \in [Order -> OrderStatus]
        BY <2>1, <1>3 DEF CancelSave, TypeOK, OrderStatus
    <2> QED BY <2>2, <2>3, <1>3 DEF CancelSave, TypeOK
<1>4. ASSUME NEW r \in Reverser, NEW from \in {"findHeld", "held"},
             NEW state \in {"held", "released"}, ReverseFind(r, from, state)
      PROVE  TypeOK'
    <2>1. rev[r] \in [pc: {"refund", "findHeld", "held", "released"},
                     order: Order, scope: SUBSET Item, todo: SUBSET Job]
        BY <1>4, LocalStates DEF ReverseFind
    <2>2. {JobOf(e) : e \in InScope(r, state)} \in SUBSET Job
        BY JobType DEF InScope
    <2>3. rev' \in [Reverser -> RevState]
        BY <2>1, <2>2, <1>4 DEF ReverseFind, TypeOK, RevState
    <2> QED BY <2>3, <1>4 DEF ReverseFind, TypeOK
<1>5. ASSUME NEW r \in Reverser, NEW j \in rev[r].todo, ReconcileRead(r, j) PROVE TypeOK'
    <2>1. /\ rev[r] \in [pc: {"refund", "findHeld", "held", "released"},
                        order: Order, scope: SUBSET Item, todo: SUBSET Job]
          /\ j \in Job
        BY <1>5, LocalStates DEF ReconcileRead
    <2>2. /\ pending[VendorOf[j.earning[1]]] \in Int
          /\ balance[VendorOf[j.earning[1]]] \in Int
        BY <2>1, JobParts DEF TypeOK
    <2>3. rev' \in [Reverser -> RevState]
        BY <2>1, <2>2, JobParts, <1>5 DEF ReconcileRead, TypeOK, RevState
    <2> QED BY <2>3, <1>5 DEF ReconcileRead, TypeOK
<1>6. ASSUME NEW r \in Reverser, rev[r].pc \in {"heldWrite", "heldDelete", "relWrite", "relZero"}
      PROVE  /\ rev[r] \in [pc: {"heldWrite", "heldDelete", "relWrite", "relZero"},
                            order: Order, scope: SUBSET Item, todo: SUBSET Job,
                            cur: Job, pending: Int, balance: Int]
             /\ rev[r].cur.earning \in Earning
             /\ VendorOf[rev[r].cur.earning[1]] \in Vendor
             /\ rev[r].cur.net \in Int
    BY <1>6, LocalStates, JobParts
<1>7. ASSUME NEW r \in Reverser, ReconcileWrite(r) PROVE TypeOK'
    <2>1. rev[r].pc \in {"heldWrite", "relWrite"}
        BY <1>7 DEF ReconcileWrite
    <2>2. rev' \in [Reverser -> RevState]
        BY <2>1, <1>6, <1>7 DEF ReconcileWrite, TypeOK, RevState
    <2>3. ASSUME NEW field \in [Vendor -> Int], NEW v \in Vendor,
                 NEW read \in Int, NEW delta \in Int
          PROVE  SaveField(field, v, read, delta) \in [Vendor -> Int]
        BY DEF SaveField, Clamp
    <2>4. pending' \in [Vendor -> Int] /\ balance' \in [Vendor -> Int]
        <3> DEFINE v == VendorOf[rev[r].cur.earning[1]]
                   dp == IF rev[r].pc = "heldWrite" THEN -rev[r].cur.net ELSE 0
                   db == IF rev[r].pc = "heldWrite" THEN 0 ELSE -rev[r].cur.net
        <3>1. /\ dp \in Int /\ db \in Int /\ v \in Vendor
              /\ rev[r].pending \in Int /\ rev[r].balance \in Int
            BY <2>1, <1>6
        <3>2. /\ pending' = SaveField(pending, v, rev[r].pending, dp)
              /\ balance' = SaveField(balance, v, rev[r].balance, db)
            BY <1>7 DEF ReconcileWrite
        <3>3. pending \in [Vendor -> Int] /\ balance \in [Vendor -> Int]
            BY DEF TypeOK
        <3> HIDE DEF v, dp, db
        <3> QED BY <3>1, <3>2, <3>3, <2>3
    <2> QED BY <2>2, <2>4, <1>7 DEF ReconcileWrite, TypeOK
<1>8. ASSUME NEW r \in Reverser, DeleteEarning(r) \/ ZeroEarning(r) PROVE TypeOK'
    <2>1. rev[r].pc \in {"heldDelete", "relZero"}
        BY <1>8 DEF DeleteEarning, ZeroEarning
    <2>2. rev' \in [Reverser -> RevState]
        BY <2>1, <1>6, <1>8 DEF DeleteEarning, ZeroEarning, BackTo, TypeOK, RevState
    <2>3. doc' \in [Earning -> Doc]
        BY <2>1, <1>6, <1>8 DEF DeleteEarning, ZeroEarning, TypeOK, Doc
    <2> QED BY <2>2, <2>3, <1>8 DEF DeleteEarning, ZeroEarning, TypeOK
<1>9. ASSUME NEW r \in Reverser, ReverseDone(r) PROVE TypeOK'
    <2>1. rev' \in [Reverser -> RevState]
        BY <1>9 DEF ReverseDone, TypeOK, RevState
    <2> QED BY <2>1, <1>9 DEF ReverseDone, TypeOK
<1> QED BY <1>1, <1>2, <1>3, <1>4, <1>5, <1>7, <1>8, <1>9
        DEF ReverseStep, ReverseFindHeld, ReverseFindReleased

LEMMA CrashType == ASSUME TypeOK, CrashStep PROVE TypeOK'
BY DEF CrashStep, Crash, TypeOK, orderVars, walletVars, RecState, RelState, RevState

LEMMA NextType == ASSUME TypeOK, [Next]_vars PROVE TypeOK'
<1>1. CASE UNCHANGED vars
    BY <1>1 DEF vars, orderVars, walletVars, TypeOK
<1> QED BY <1>1, OrderStepType, RecordStepType, ReleaseStepType, ReverseStepType,
           CrashType DEF Next

\* Every reachable state is well typed: the order's status stays in the schema's
\* enum, and each call remembers only earnings of the order it works on
\* (the schemas and the local variables of the calls).
THEOREM TypeCorrect == Spec => []TypeOK
<1>1. Init => TypeOK BY InitType DEF Init
<1>2. TypeOK /\ [Next]_vars => TypeOK' BY NextType
<1> QED BY <1>1, <1>2, PTL DEF Spec

-----------------------------------------------------------------------------
(* Recorded once.                                                          *)

\* The orders from before the flag that have all their earnings, unreleased or
\* released.
Whole ==
    {o \in Legacy : \A e \in OrderEarnings(o) :
                      created[e] # 0 /\ doc[e].state \in {"held", "released"}}

\* Reversals delete earnings, after which an order from before the flag is recorded
\* again: there are no such orders, or no reversal is under way.
Undisturbed == Legacy = {} \/ \A r \in Reverser : rev[r].pc = "idle"

\* The claim of an order belongs to at most one call, and that call alone
\* creates the documents the order does not have yet; for an old order it finds
\* them.
ClaimInv ==
    /\ \A e \in Earning : created[e] <= 1
    /\ \A e \in Earning : created[e] # 0 =>
         recorded[OrderOf[e[1]]] \/ OrderOf[e[1]] \in Whole
    /\ \A p \in Recorder : rec[p].pc # "idle" => recorded[rec[p].order]
    /\ \A p, q \in Recorder :
         rec[p].pc # "idle" /\ rec[q].pc # "idle" /\ rec[p].order = rec[q].order
           => p = q
    /\ \A p \in Recorder : rec[p].pc = "claimed" =>
         \/ rec[p].order \in Whole
         \/ \A e \in Earning : OrderOf[e[1]] = rec[p].order => created[e] = 0
    /\ \A p \in Recorder : rec[p].pc = "items" =>
         \A i \in rec[p].todo :
           /\ OrderOf[i] = rec[p].order
           /\ \A e \in Earning : e[1] = i /\ e \notin rec[p].docs => created[e] = 0

\* Where the earnings of an order are found (OrderEarnings).
LEMMA OrderEarningsType ==
    ASSUME NEW o, NEW e \in OrderEarnings(o)
    PROVE  e \in Earning /\ e[1] \in Item /\ OrderOf[e[1]] = o /\ e \in EarningsOf(e[1])
<1>1. PICK i \in ItemsOf(o) : e \in EarningsOf(i) BY DEF OrderEarnings
<1>2. i \in Item /\ OrderOf[i] = o BY DEF ItemsOf
<1> QED BY <1>1, <1>2, EarningsOfType

LEMMA EarningOfOrder ==
    ASSUME NEW e \in Earning, e \in EarningsOf(e[1])
    PROVE  e \in OrderEarnings(OrderOf[e[1]])
<1>1. e[1] \in ItemsOf(OrderOf[e[1]]) BY DEF ItemsOf, Earning
<1> QED BY <1>1 DEF OrderEarnings

LEMMA InitOld ==
    ASSUME NEW L \in SUBSET Legacy, InitWith(L)
    PROVE  /\ L \subseteq Whole
           /\ \A e \in Earning : /\ created[e] \in {0, 1}
                                 /\ created[e] = 0 => doc[e].state = "none"
                                 /\ created[e] # 0 => OrderOf[e[1]] \in L
<1>1. \A e \in Earning : e[1] \in Item BY DEF Earning
<1>2. \A e \in Earning :
        /\ created[e] = IF OrderOf[e[1]] \in L /\ e \in EarningsOf(e[1]) THEN 1 ELSE 0
        /\ doc[e] = IF OrderOf[e[1]] \in L /\ e \in EarningsOf(e[1]) THEN HeldDoc(e) ELSE NoDoc
    BY <1>1 DEF InitWith
<1>3. ASSUME NEW o \in L PROVE o \in Whole
    <2>1. ASSUME NEW e \in OrderEarnings(o)
          PROVE  created[e] # 0 /\ doc[e].state \in {"held", "released"}
        <3>1. e \in Earning /\ OrderOf[e[1]] \in L /\ e \in EarningsOf(e[1])
            BY OrderEarningsType
        <3>2. created[e] = 1 /\ doc[e] = HeldDoc(e) BY <1>2, <3>1
        <3>3. HeldDoc(e).state = "held" BY DEF HeldDoc
        <3> QED BY <3>2, <3>3
    <2> QED BY <2>1 DEF Whole
<1> QED BY <1>2, <1>3 DEF NoDoc

LEMMA InitClaim == ASSUME NEW L \in SUBSET Legacy, InitWith(L) PROVE ClaimInv
<1>1. \A p \in Recorder : rec[p].pc = "idle" BY DEF InitWith, Idle
<1> QED BY <1>1, InitOld DEF ClaimInv

\* Documents of an old order stay, and stay unreleased or released.
LEMMA OldStays ==
    ASSUME \A e \in Earning : created[e] # 0 => created'[e] # 0,
           Legacy = {} \/ \A e \in Earning : doc[e].state \in {"held", "released"} =>
                             doc'[e].state \in {"held", "released"}
    PROVE  Whole \subseteq Whole'
<1> SUFFICES ASSUME NEW o \in Whole PROVE o \in Whole' OBVIOUS
<1>1. ASSUME NEW e \in OrderEarnings(o)
      PROVE  created'[e] # 0 /\ doc'[e].state \in {"held", "released"}
    BY OrderEarningsType DEF Whole
<1> QED BY <1>1 DEF Whole, OrderEarnings, ItemsOf, EarningsOf

\* Steps that touch neither the claims nor the documents' creation.
LEMMA ClaimUnchanged ==
    ASSUME ClaimInv, UNCHANGED <<rec, recorded, created>>,
           Whole \subseteq Whole'
    PROVE  ClaimInv'
BY DEF ClaimInv

LEMMA RecordStepClaim ==
    ASSUME TypeOK, ClaimInv, RecordStep
    PROVE  ClaimInv'
<1>0. \A e \in Earning : e[1] \in Item /\ OrderOf[e[1]] \in Order
    BY EarningsAssumption DEF Earning
<1>6. ASSUME UNCHANGED <<doc, created>> PROVE Whole \subseteq Whole'
    BY <1>6, OldStays
<1>1. ASSUME NEW p \in Recorder, NEW o \in Order, RecordClaim(p, o) PROVE ClaimInv'
    <2>1. /\ rec' = [rec EXCEPT ![p] = [pc |-> "claimed", order |-> o,
                                      todo |-> {}, docs |-> {}]]
          /\ recorded' = [recorded EXCEPT ![o] = TRUE]
          /\ ~recorded[o] /\ created' = created
          /\ rec \in [Recorder -> RecState] /\ recorded \in [Order -> BOOLEAN]
        BY <1>1 DEF RecordClaim, Unclaimed, TypeOK
    <2>10. Whole \subseteq Whole' BY <1>1, <1>6 DEF RecordClaim
    <2>2. \A q \in Recorder : rec[q].pc # "idle" => rec[q].order \in Order
        BY LocalStates
    <2>3. \A q \in Recorder : rec[q].pc # "idle" => rec[q].order # o
        BY <2>1 DEF ClaimInv
    <2>4. o \in Whole \/ \A e \in Earning : OrderOf[e[1]] = o => created[e] = 0
        BY <2>1 DEF ClaimInv
    <2>5. \A e \in Earning : created'[e] # 0 =>
            recorded'[OrderOf[e[1]]] \/ OrderOf[e[1]] \in Whole'
        BY <2>1, <2>10, <1>0 DEF ClaimInv
    <2>11. \A q \in Recorder : rec'[q].pc = "claimed" =>
             \/ rec'[q].order \in Whole'
             \/ \A e \in Earning : OrderOf[e[1]] = rec'[q].order => created'[e] = 0
        BY <2>1, <2>4, <2>10 DEF ClaimInv
    <2>6. \A q \in Recorder : rec'[q].pc # "idle" => recorded'[rec'[q].order]
        BY <2>1, <2>2 DEF ClaimInv
    <2>7. \A q \in Recorder : q # p => rec'[q] = rec[q]
        BY <2>1
    <2>8. rec'[p] = [pc |-> "claimed", order |-> o, todo |-> {}, docs |-> {}]
        BY <2>1
    <2>9. \A q, s \in Recorder :
            rec'[q].pc # "idle" /\ rec'[s].pc # "idle" /\ rec'[q].order = rec'[s].order
              => q = s
        BY <2>3, <2>7, <2>8 DEF ClaimInv
    <2> QED BY <2>1, <2>5, <2>6, <2>7, <2>8, <2>9, <2>11 DEF ClaimInv
<1>2. ASSUME NEW p \in Recorder, RecordLoad(p) PROVE ClaimInv'
    <2>1. rec[p] \in [pc: {"claimed", "items"}, order: Order,
                     todo: SUBSET Item, docs: SUBSET Earning]
        BY <1>2, LocalStates DEF RecordLoad
    <2>10. Whole \subseteq Whole' BY <1>2, <1>6 DEF RecordLoad
    <2>2. /\ created' = created /\ recorded' = recorded
          /\ rec[p].pc = "claimed"
          /\ \A q \in Recorder : q # p => rec'[q] = rec[q]
          /\ rec'[p].pc = "items" /\ rec'[p].order = rec[p].order
          /\ rec'[p].todo = IF AlreadyRecorded(rec[p].order)
                            THEN {} ELSE ItemsOf(rec[p].order)
        BY <2>1, <1>2 DEF RecordLoad, TypeOK
    <2>3. CASE rec[p].order \in Whole
        <3>1. rec'[p].todo = {}
            <4> SUFFICES ASSUME NEW i \in ItemsOf(rec[p].order)
                         PROVE  AlreadyRecorded(rec[p].order)
                BY <2>2
            <4> DEFINE e == <<i, "completion">>
            <4>1. e \in OrderEarnings(rec[p].order)
                BY DEF OrderEarnings, EarningsOf, Milestone
            <4> QED BY <2>3, <4>1 DEF Whole, AlreadyRecorded
        <3> QED BY <2>2, <3>1, <2>10 DEF ClaimInv
    <2>4. CASE rec[p].order \notin Whole
        <3>1. \A i \in rec'[p].todo :
                /\ OrderOf[i] = rec[p].order
                /\ \A e \in Earning : e[1] = i => created[e] = 0
            BY <2>2, <2>4 DEF ItemsOf, ClaimInv
        <3> QED BY <2>2, <3>1, <2>10 DEF ClaimInv
    <2> QED BY <2>3, <2>4
<1>3. ASSUME NEW p \in Recorder, NEW e \in Earning, RecordDoc(p, e) PROVE ClaimInv'
    <2>1. rec[p] \in [pc: {"claimed", "items"}, order: Order,
                     todo: SUBSET Item, docs: SUBSET Earning]
        BY <1>3, LocalStates DEF RecordDoc
    <2>2. /\ created' = [created EXCEPT ![e] = @ + 1] /\ recorded' = recorded
          /\ rec[p].pc = "items" /\ e[1] \in rec[p].todo /\ e \notin rec[p].docs
          /\ \A q \in Recorder : q # p => rec'[q] = rec[q]
          /\ rec'[p].pc = "items" /\ rec'[p].order = rec[p].order
          /\ rec'[p].todo = rec[p].todo /\ rec'[p].docs = rec[p].docs \cup {e}
          /\ created \in [Earning -> Nat]
        BY <2>1, <1>3 DEF RecordDoc, TypeOK
    <2>3. created[e] = 0 /\ OrderOf[e[1]] = rec[p].order /\ recorded[OrderOf[e[1]]]
        BY <2>2 DEF ClaimInv
    <2>4. created'[e] = 1 /\ \A f \in Earning : f # e => created'[f] = created[f]
        BY <2>2, <2>3
    <2>5. \A q \in Recorder : q # p /\ rec[q].pc # "idle" => rec[q].order # OrderOf[e[1]]
        BY <2>2, <2>3 DEF ClaimInv
    <2>10. Whole \subseteq Whole'
        <3>1. \A f \in Earning : created[f] # 0 => created'[f] # 0
            BY <2>3, <2>4
        <3>2. \A f \in Earning : doc[f].state \in {"held", "released"} =>
                                 doc'[f].state \in {"held", "released"}
            BY <1>3 DEF RecordDoc, TypeOK, HeldDoc
        <3> QED BY <3>1, <3>2, OldStays
    <2>6. /\ \A f \in Earning : created'[f] <= 1
          /\ \A f \in Earning : created'[f] # 0 =>
               recorded'[OrderOf[f[1]]] \/ OrderOf[f[1]] \in Whole'
        BY <2>2, <2>3, <2>4, <2>10 DEF ClaimInv
    <2>7. /\ \A q \in Recorder : rec'[q].pc # "idle" => recorded'[rec'[q].order]
          /\ \A q, s \in Recorder :
               rec'[q].pc # "idle" /\ rec'[s].pc # "idle" /\ rec'[q].order = rec'[s].order
                 => q = s
        BY <2>2, <2>3 DEF ClaimInv
    <2>8. \A q \in Recorder : rec'[q].pc = "claimed" =>
            \/ rec'[q].order \in Whole'
            \/ \A f \in Earning : OrderOf[f[1]] = rec'[q].order => created'[f] = 0
        BY <2>2, <2>4, <2>5, <2>10 DEF ClaimInv
    <2>9. \A q \in Recorder : rec'[q].pc = "items" =>
            \A i \in rec'[q].todo :
              /\ OrderOf[i] = rec'[q].order
              /\ \A f \in Earning : f[1] = i /\ f \notin rec'[q].docs => created'[f] = 0
        BY <2>2, <2>4, <2>5 DEF ClaimInv
    <2> QED BY <2>6, <2>7, <2>8, <2>9 DEF ClaimInv
<1>4. ASSUME NEW p \in Recorder, NEW i \in Item, RecordPending(p, i) PROVE ClaimInv'
    <2>1. rec[p] \in [pc: {"claimed", "items"}, order: Order,
                     todo: SUBSET Item, docs: SUBSET Earning]
        BY <1>4, LocalStates DEF RecordPending
    <2>2. /\ created' = created /\ recorded' = recorded
          /\ rec[p].pc = "items" /\ rec[p].docs = EarningsOf(i)
          /\ \A q \in Recorder : q # p => rec'[q] = rec[q]
          /\ rec'[p].pc = "items" /\ rec'[p].order = rec[p].order
          /\ rec'[p].todo = rec[p].todo \ {i} /\ rec'[p].docs = {}
        BY <2>1, <1>4 DEF RecordPending, TypeOK
    <2>3. \A k \in rec'[p].todo : \A e \in Earning : e[1] = k => e \notin rec[p].docs
        BY <2>2, EarningsOfType
    <2>4. Whole \subseteq Whole' BY <1>4, <1>6 DEF RecordPending
    <2> QED BY <2>2, <2>3, <2>4 DEF ClaimInv
<1>5. ASSUME NEW p \in Recorder, RecordDone(p) PROVE ClaimInv'
    <2>1. Whole \subseteq Whole' BY <1>5, <1>6 DEF RecordDone
    <2> QED BY <1>5, <2>1 DEF RecordDone, TypeOK, ClaimInv, Idle
<1> QED BY <1>1, <1>2, <1>3, <1>4, <1>5 DEF RecordStep

\* The order's own steps only schedule.
LEMMA OrderStepDoc ==
    ASSUME TypeOK, OrderStep
    PROVE  /\ \A e \in Earning : doc'[e].state = doc[e].state /\ doc'[e].net = doc[e].net
           /\ UNCHANGED <<rec, rel, walletVars>>
<1>0. ASSUME NEW S, NEW filter, NEW date, Schedule(S, filter, date)
      PROVE  \A e \in Earning : doc'[e].state = doc[e].state /\ doc'[e].net = doc[e].net
    BY <1>0 DEF TypeOK, Schedule, Doc
<1>1. \A e \in Earning : doc'[e].state = doc[e].state /\ doc'[e].net = doc[e].net
    <2>1. CASE \E o \in Order : Pay(o) \/ Transit(o) \/ \E v \in Vendor : Dispatch(o, v)
        BY <2>1 DEF Pay, Transit, Dispatch
    <2>2. CASE \E o \in Order : Deliver(o) \/ ConfirmSatisfaction(o)
        BY <2>2, <1>0 DEF Deliver, ConfirmSatisfaction
    <2>3. CASE \E o \in Order, v \in Vendor : ConfirmShipment(o, v)
        BY <2>3, <1>0 DEF ConfirmShipment
    <2>4. CASE \E e \in Earning : Elapse(e) \/ AutoReleaseStuck(e)
        BY <2>4 DEF Elapse, AutoReleaseStuck, TypeOK, Doc
    <2> QED BY <2>1, <2>2, <2>3, <2>4 DEF OrderStep
<1>2. UNCHANGED <<rec, rel, walletVars>>
    BY DEF OrderStep, Pay, Transit, ConfirmShipment, Dispatch, Deliver, ConfirmSatisfaction,
       Elapse, AutoReleaseStuck, unchangedCalls, walletVars
<1> QED BY <1>1, <1>2

\* Without a reversal under way, no document that was created disappears.
LEMMA OldStaysElsewhere ==
    ASSUME TypeOK, Undisturbed, OrderStep \/ ReleaseStep \/ ReverseStep \/ CrashStep
    PROVE  /\ UNCHANGED <<recorded, created>>
           /\ Whole \subseteq Whole'
<1> DEFINE Stays == \A e \in Earning : doc[e].state \in {"held", "released"} =>
                                       doc'[e].state \in {"held", "released"}
<1>1. CASE OrderStep
    <2>1. UNCHANGED created
        BY <1>1 DEF OrderStep, Pay, Transit, ConfirmShipment, Dispatch, Deliver, ConfirmSatisfaction,
           Elapse, AutoReleaseStuck, unchangedCalls
    <2>2. UNCHANGED recorded
        BY <1>1 DEF OrderStep, Pay, Transit, ConfirmShipment, Dispatch, Deliver, ConfirmSatisfaction,
           Elapse, AutoReleaseStuck
    <2>3. Stays BY <1>1, OrderStepDoc
    <2> QED BY <2>1, <2>2, <2>3, OldStays
<1>2. CASE ReleaseStep
    <2>1. UNCHANGED <<recorded, created>>
        BY <1>2 DEF ReleaseStep, ReleaseFind, ReleaseClaim, ReleaseCredit,
           ReleaseCreditError, ReleaseDone, releaseVars
    <2>2. ASSUME NEW w \in Releaser, NEW j \in rel[w].todo, ReleaseClaim(w, j) PROVE Stays
        BY <2>2 DEF ReleaseClaim, TypeOK, Doc
    <2>3. ASSUME NEW w \in Releaser, ReleaseCreditError(w) PROVE Stays
        BY <2>3 DEF ReleaseCreditError, RevertClaim, LeaveClaimed, TypeOK, Doc
    <2>4. ASSUME NEW w \in Releaser, ReleaseFind(w) \/ ReleaseCredit(w) \/ ReleaseDone(w)
          PROVE  Stays
        BY <2>4 DEF ReleaseFind, ReleaseCredit, ReleaseDone
    <2>5. Stays BY <1>2, <2>2, <2>3, <2>4 DEF ReleaseStep
    <2> QED BY <2>1, <2>5, OldStays
<1>3. CASE ReverseStep
    <2>1. UNCHANGED <<recorded, created>>
        BY <1>3 DEF ReverseStep, CancelBegin, RejectItem, CancelSave, ReverseFindHeld,
           ReverseFindReleased, ReverseFind, ReconcileRead, ReconcileWrite, DeleteEarning,
           ZeroEarning, ReverseDone, reverseVars
    <2>2. CASE Legacy = {} BY <2>1, <2>2, OldStays
    <2>3. CASE \A r \in Reverser : rev[r].pc = "idle"
        <3>1. UNCHANGED doc
            BY <1>3, <2>3 DEF ReverseStep, CancelBegin, RejectItem, CancelSave, ReverseFindHeld,
               ReverseFindReleased, ReverseFind, ReconcileRead, ReconcileWrite, DeleteEarning,
               ZeroEarning, ReverseDone
        <3> QED BY <2>1, <3>1, OldStays
    <2> QED BY <2>2, <2>3 DEF Undisturbed
<1>4. CASE CrashStep
    <2>1. UNCHANGED <<recorded, created, doc>> BY <1>4 DEF CrashStep, Crash
    <2> QED BY <2>1, OldStays
<1> QED BY <1>1, <1>2, <1>3, <1>4

LEMMA NextClaim ==
    ASSUME TypeOK, Undisturbed, ClaimInv, [Next]_vars
    PROVE  ClaimInv'
<1>1. ASSUME OrderStep \/ ReleaseStep \/ ReverseStep PROVE UNCHANGED rec
    <2>1. CASE OrderStep
        BY <2>1 DEF OrderStep, Pay, Transit, ConfirmShipment, Dispatch, Deliver, ConfirmSatisfaction,
           Elapse, AutoReleaseStuck, unchangedCalls
    <2>2. CASE ReleaseStep
        BY <2>2 DEF ReleaseStep, ReleaseFind, ReleaseClaim, ReleaseCredit,
           ReleaseCreditError, ReleaseDone, releaseVars
    <2>3. CASE ReverseStep
        BY <2>3 DEF ReverseStep, CancelBegin, RejectItem, CancelSave, ReverseFindHeld,
           ReverseFindReleased, ReverseFind, ReconcileRead, ReconcileWrite, DeleteEarning,
           ZeroEarning, ReverseDone, reverseVars
    <2> QED BY <1>1, <2>1, <2>2, <2>3
<1>4. ASSUME CrashStep PROVE ClaimInv'
    <2>1. \A q \in Recorder : rec'[q] = rec[q] \/ rec'[q].pc = "idle"
        BY <1>4 DEF CrashStep, Crash, TypeOK, Idle
    <2>2. UNCHANGED <<recorded, created>> /\ Whole \subseteq Whole'
        BY <1>4, OldStaysElsewhere
    <2> QED BY <2>1, <2>2 DEF ClaimInv
<1>5. ASSUME UNCHANGED vars PROVE ClaimInv'
    <2>1. UNCHANGED <<rec, recorded, created, doc>> BY <1>5 DEF vars
    <2>2. Whole \subseteq Whole' BY <2>1, OldStays
    <2> QED BY <2>1, <2>2, ClaimUnchanged
<1> QED BY <1>1, <1>4, <1>5, OldStaysElsewhere, ClaimUnchanged, RecordStepClaim DEF Next

\* For any number of concurrent recording calls, release runs and crashes, an
\* item's earning is created at most once, that of an order from before the flag
\* included; cancellations and rejections may interleave unless there are such
\* orders (recordBusinessEarnings' claim on earnings_recorded and its second guard).
THEOREM RecordsOnce ==
    ASSUME Legacy = {} \/ Reverser = {}
    PROVE  Spec => []RecordedOnce
<1>1. Init => ClaimInv BY InitClaim DEF Init
<1>2. TypeOK /\ ClaimInv /\ [Next]_vars => ClaimInv' BY NextClaim DEF Undisturbed
<1>3. ClaimInv => RecordedOnce BY DEF ClaimInv, RecordedOnce
<1>4. Spec => []TypeOK BY TypeCorrect
<1> QED BY <1>1, <1>2, <1>3, <1>4, PTL DEF Spec

-----------------------------------------------------------------------------
(* Released once.                                                          *)

\* An earning that was credited, or that a run has claimed to credit, is no
\* longer unreleased; at most one run has it claimed, and then it is not
\* credited yet.  A document exists only after its creation, and a reversal
\* touches only documents that were created.
CreditInv ==
    /\ \A e \in Earning : created[e] = 0 => doc[e].state = "none"
    /\ \A r \in Reverser :
         /\ \A j \in rev[r].todo : created[j.earning] # 0
         /\ rev[r].pc \in {"heldWrite", "heldDelete", "relWrite", "relZero"}
              => created[rev[r].cur.earning] # 0
    /\ \A e \in Earning : credited[e] <= 1
    /\ \A e \in Earning : credited[e] # 0 => doc[e].state \in {"released", "deleted"}
    /\ \A w \in Releaser : rel[w].pc = "claimed" =>
         /\ credited[rel[w].cur.earning] = 0
         /\ doc[rel[w].cur.earning].state \in {"released", "deleted"}
    /\ \A w, x \in Releaser :
         rel[w].pc = "claimed" /\ rel[x].pc = "claimed"
           /\ rel[w].cur.earning = rel[x].cur.earning => w = x

LEMMA InitCredit == ASSUME NEW L \in SUBSET Legacy, InitWith(L) PROVE CreditInv
<1>1. /\ \A e \in Earning : credited[e] = 0 /\ (created[e] = 0 => doc[e].state = "none")
      /\ \A r \in Reverser : rev[r] = Idle
      /\ \A w \in Releaser : rel[w] = Idle
    BY InitOld DEF InitWith
<1> QED BY <1>1 DEF CreditInv, Idle

\* Steps that leave each document's state, the credits, the runs and the
\* reversals alone.
LEMMA CreditUnchanged ==
    ASSUME CreditInv, UNCHANGED <<rel, rev, created, credited>>,
           \A e \in Earning : doc'[e].state = doc[e].state,
           \A w \in Releaser : rel[w].pc = "claimed" => rel[w].cur.earning \in Earning
    PROVE  CreditInv'
BY DEF CreditInv

LEMMA ScheduleState ==
    ASSUME TypeOK, NEW S, NEW filter, NEW date, Schedule(S, filter, date)
    PROVE  \A e \in Earning : doc'[e].state = doc[e].state
BY DEF TypeOK, Schedule, Doc

LEMMA RelCur ==
    ASSUME TypeOK
    PROVE  \A w \in Releaser : rel[w].pc = "claimed" =>
             rel[w].cur \in Job /\ rel[w].cur.earning \in Earning
BY LocalStates DEF Job

LEMMA OrderStepCredit ==
    ASSUME TypeOK, CreditInv, OrderStep
    PROVE  CreditInv'
<1>1. \A e \in Earning : doc'[e].state = doc[e].state
    <2>1. CASE \E o \in Order : Pay(o) \/ Transit(o) \/ \E v \in Vendor : Dispatch(o, v)
        BY <2>1 DEF Pay, Transit, Dispatch
    <2>2. CASE \E o \in Order : Deliver(o) \/ ConfirmSatisfaction(o)
        BY <2>2, ScheduleState DEF Deliver, ConfirmSatisfaction
    <2>3. CASE \E o \in Order, v \in Vendor : ConfirmShipment(o, v)
        BY <2>3, ScheduleState DEF ConfirmShipment
    <2>4. CASE \E e \in Earning : Elapse(e) \/ AutoReleaseStuck(e)
        BY <2>4 DEF Elapse, AutoReleaseStuck, TypeOK, Doc
    <2> QED BY <2>1, <2>2, <2>3, <2>4 DEF OrderStep
<1>2. UNCHANGED <<rel, rev, created, credited>>
    BY DEF OrderStep, Pay, Transit, ConfirmShipment, Dispatch, Deliver, ConfirmSatisfaction,
       Elapse, AutoReleaseStuck, unchangedCalls
<1> QED BY <1>1, <1>2, RelCur, CreditUnchanged

\* No release run is at work, and none ever was.
NeverReleased ==
    /\ \A w \in Releaser : rel[w].pc = "idle"
    /\ \A e \in Earning : credited[e] = 0

LEMMA RecordStepCredit ==
    ASSUME TypeOK, ClaimInv \/ NeverReleased, CreditInv, RecordStep
    PROVE  CreditInv'
<1>1. ASSUME NEW p \in Recorder, NEW e \in Earning, RecordDoc(p, e) PROVE CreditInv'
    <2>1. /\ created' = [created EXCEPT ![e] = @ + 1]
          /\ doc' = [doc EXCEPT ![e] = HeldDoc(e)]
          /\ UNCHANGED <<rel, rev, credited>>
          /\ e[1] \in rec[p].todo /\ e \notin rec[p].docs /\ rec[p].pc = "items"
        BY <1>1 DEF RecordDoc, recordVars
    <2>4. credited[e] = 0 /\ \A w \in Releaser : rel[w].pc = "claimed" => rel[w].cur.earning # e
        <3>1. CASE ClaimInv
            <4>1. created[e] = 0 BY <2>1, <3>1 DEF ClaimInv
            <4>2. doc[e].state = "none" BY <4>1 DEF CreditInv
            <4> QED BY <4>2 DEF CreditInv, TypeOK
        <3>2. CASE NeverReleased BY <3>2 DEF NeverReleased
        <3> QED BY <3>1, <3>2
    <2>5. /\ \A f \in Earning : f # e => doc'[f] = doc[f] /\ created'[f] = created[f]
          /\ created'[e] # 0
        BY <2>1 DEF TypeOK
    <2>6. \A w \in Releaser : rel[w].pc = "claimed" => rel[w].cur.earning # e
        BY <2>4
    <2>7. \A r \in Reverser :
            /\ \A j \in rev[r].todo : j.earning \in Earning
            /\ rev[r].pc \in {"heldWrite", "heldDelete", "relWrite", "relZero"}
                 => rev[r].cur.earning \in Earning
        BY LocalStates, JobParts
    <2>8. \A r \in Reverser :
            /\ \A j \in rev'[r].todo : created'[j.earning] # 0
            /\ rev'[r].pc \in {"heldWrite", "heldDelete", "relWrite", "relZero"}
                 => created'[rev'[r].cur.earning] # 0
        BY <2>1, <2>5, <2>7 DEF CreditInv
    <2> QED BY <2>1, <2>4, <2>5, <2>6, <2>8, RelCur DEF CreditInv
<1>2. CASE \A p \in Recorder, e \in Earning : ~RecordDoc(p, e)
    <2>1. UNCHANGED <<rel, rev, created, credited, doc>>
        BY <1>2 DEF RecordStep, RecordClaim, RecordLoad, RecordPending, RecordDone, recordVars
    <2> QED BY <2>1, RelCur, CreditUnchanged
<1> QED BY <1>1, <1>2

LEMMA ReleaseStepCredit ==
    ASSUME "lostReply" \notin Faults, TypeOK, CreditInv, ReleaseStep
    PROVE  CreditInv'
<1>1. ASSUME NEW w \in Releaser, ReleaseFind(w) \/ ReleaseDone(w) PROVE CreditInv'
    <2>1. /\ UNCHANGED <<rev, created, credited, doc>>
          /\ rel'[w].pc # "claimed"
          /\ \A x \in Releaser : x # w => rel'[x] = rel[x]
        BY <1>1 DEF ReleaseFind, ReleaseDone, releaseVars, TypeOK, Idle
    <2> QED BY <2>1 DEF CreditInv
<1>2. ASSUME NEW w \in Releaser, NEW j \in rel[w].todo, ReleaseClaim(w, j)
      PROVE  CreditInv'
    <2>1. /\ rel[w] \in [pc: {"loop"}, todo: SUBSET Job]
          /\ j.earning \in Earning
        BY <1>2, LocalStates, JobParts DEF ReleaseClaim
    <2>2. CASE j.net # 0 /\ Unreleased(j.earning)
        <3> DEFINE e == j.earning
        <3>1. /\ doc' = [doc EXCEPT ![e].state = "released"]
              /\ rel' = [rel EXCEPT ![w] = [pc |-> "claimed",
                                          todo |-> rel[w].todo \ {j}, cur |-> j]]
              /\ doc[e].state = "held"
              /\ UNCHANGED <<rev, created, credited>>
            BY <1>2, <2>2 DEF ReleaseClaim, Unreleased, releaseVars
        <3>2. /\ doc'[e].state = "released"
              /\ \A f \in Earning : f # e => doc'[f] = doc[f]
            BY <2>1, <3>1 DEF TypeOK, Doc
        <3>3. /\ rel'[w].pc = "claimed" /\ rel'[w].cur.earning = e
              /\ \A x \in Releaser : x # w => rel'[x] = rel[x]
            BY <3>1 DEF TypeOK
        <3>4. credited[e] = 0 /\ created[e] # 0
            BY <2>1, <3>1 DEF CreditInv, TypeOK
        <3>5. \A x \in Releaser : rel[x].pc = "claimed" => rel[x].cur.earning # e
            BY <3>1 DEF CreditInv
        <3> HIDE DEF e
        <3> QED BY <3>1, <3>2, <3>3, <3>4, <3>5, RelCur DEF CreditInv
    <2>3. CASE ~(j.net # 0 /\ Unreleased(j.earning))
        <3>1. /\ UNCHANGED <<rev, created, credited, doc>>
              /\ rel'[w].pc = "loop"
              /\ \A x \in Releaser : x # w => rel'[x] = rel[x]
            BY <1>2, <2>1, <2>3 DEF ReleaseClaim, releaseVars, TypeOK
        <3> QED BY <3>1 DEF CreditInv
    <2> QED BY <2>2, <2>3
<1>3. ASSUME NEW w \in Releaser, ReleaseCredit(w) PROVE CreditInv'
    <2> DEFINE e == rel[w].cur.earning
    <2>1. /\ rel[w].pc = "claimed" /\ e \in Earning
          /\ credited' = [credited EXCEPT ![e] = @ + 1]
          /\ UNCHANGED <<rev, created, doc>>
          /\ rel'[w].pc = "loop"
          /\ \A x \in Releaser : x # w => rel'[x] = rel[x]
        BY <1>3, RelCur DEF ReleaseCredit, Credit, releaseVars, TypeOK
    <2>2. credited[e] = 0 /\ doc[e].state \in {"released", "deleted"}
        BY <2>1 DEF CreditInv
    <2>3. \A x \in Releaser : x # w /\ rel[x].pc = "claimed" => rel[x].cur.earning # e
        BY <2>1 DEF CreditInv
    <2>4. credited'[e] = 1 /\ \A f \in Earning : f # e => credited'[f] = credited[f]
        BY <2>1, <2>2 DEF TypeOK
    <2> HIDE DEF e
    <2> QED BY <2>1, <2>2, <2>3, <2>4, RelCur DEF CreditInv
<1>4. ASSUME NEW w \in Releaser, ReleaseCreditError(w) PROVE CreditInv'
    <2> DEFINE e == rel[w].cur.earning
    <2>1. /\ rel[w].pc = "claimed" /\ e \in Earning
          /\ UNCHANGED <<rev, created, credited>>
          /\ rel'[w].pc = "loop"
          /\ \A x \in Releaser : x # w => rel'[x] = rel[x]
        BY <1>4, RelCur DEF ReleaseCreditError, RevertClaim, LeaveClaimed, releaseVars, TypeOK
    <2>2. /\ \A f \in Earning : f # e => doc'[f] = doc[f]
          /\ doc[e].state = "released" => doc'[e].state \in {"held", "released"}
          /\ doc[e].state # "released" => doc'[e] = doc[e]
        BY <1>4, <2>1 DEF ReleaseCreditError, RevertClaim, LeaveClaimed, TypeOK, Doc
    <2>3. credited[e] = 0 /\ created[e] # 0
        BY <2>1 DEF CreditInv
    <2>4. \A x \in Releaser : x # w /\ rel[x].pc = "claimed" => rel[x].cur.earning # e
        BY <2>1 DEF CreditInv
    <2> HIDE DEF e
    <2> QED BY <2>1, <2>2, <2>3, <2>4, RelCur DEF CreditInv
<1> QED BY <1>1, <1>2, <1>3, <1>4 DEF ReleaseStep

\* The places at which a reversal holds a current earning.
Busy == {"heldWrite", "heldDelete", "relWrite", "relZero"}

\* The part of CreditInv about one reversal.
RevPart(s) ==
    /\ \A j \in s.todo : created[j.earning] # 0
    /\ s.pc \in Busy => created[s.cur.earning] # 0

\* What a step of reversal r may change: its own state, which keeps to earnings
\* that were created, and documents of such earnings, which it may delete.
ReverseFrame(r) ==
    /\ UNCHANGED <<rel, created, credited>>
    /\ \A x \in Reverser : x # r => rev'[x] = rev[x]
    /\ RevPart(rev'[r])
    /\ \A e \in Earning : doc'[e].state # doc[e].state =>
         doc'[e].state = "deleted" /\ created[e] # 0

LEMMA ReverseFrameCredit ==
    ASSUME TypeOK, CreditInv, NEW r \in Reverser, ReverseFrame(r)
    PROVE  CreditInv'
<1>1. \A x \in Reverser : RevPart(rev'[x])
    BY DEF CreditInv, RevPart, ReverseFrame, Busy
<1> QED BY <1>1, RelCur DEF CreditInv, RevPart, ReverseFrame, Busy

\* A reversal deletes only earnings that were created, and never makes one
\* held or released.
LEMMA ReverseStepCredit ==
    ASSUME TypeOK, CreditInv, ReverseStep
    PROVE  CreditInv'
<1>1. ASSUME NEW r \in Reverser, UNCHANGED doc,
             \/ \E o \in Order : CancelBegin(r, o)
             \/ \E i \in Item : RejectItem(r, i)
             \/ ReverseDone(r)
      PROVE  CreditInv'
    <2>1. /\ rev'[r].todo = {} /\ rev'[r].pc \notin Busy
          /\ \A x \in Reverser : x # r => rev'[x] = rev[x]
        <3>1. ASSUME NEW o \in Order, CancelBegin(r, o) PROVE <2>1!:
            BY <3>1 DEF CancelBegin, TypeOK, Busy
        <3>2. ASSUME NEW i \in Item, RejectItem(r, i) PROVE <2>1!:
            BY <3>2 DEF RejectItem, TypeOK, Busy
        <3>3. ASSUME ReverseDone(r) PROVE <2>1!:
            BY <3>3 DEF ReverseDone, TypeOK, Idle, Busy
        <3> QED BY <1>1, <3>1, <3>2, <3>3
    <2>2. RevPart(rev'[r]) BY <2>1 DEF RevPart
    <2>3. UNCHANGED <<rel, created, credited>>
        BY <1>1 DEF CancelBegin, RejectItem, ReverseDone, reverseVars
    <2>9. ReverseFrame(r) BY <1>1, <2>1, <2>2, <2>3 DEF ReverseFrame
    <2> QED BY <2>9, ReverseFrameCredit
<1>2. ASSUME NEW r \in Reverser, CancelSave(r) PROVE CreditInv'
    <2>1. rev[r] \in [pc: {"refund", "findHeld", "held", "released"},
                     order: Order, scope: SUBSET Item, todo: SUBSET Job]
        BY <1>2, LocalStates DEF CancelSave
    <2>2. /\ rev'[r].todo = rev[r].todo /\ rev'[r].pc \notin Busy
          /\ \A x \in Reverser : x # r => rev'[x] = rev[x]
          /\ UNCHANGED <<rel, created, credited, doc>>
        BY <1>2, <2>1 DEF CancelSave, TypeOK, reverseVars, Busy
    <2>3. RevPart(rev'[r]) BY <2>2 DEF CreditInv, RevPart
    <2>9. ReverseFrame(r) BY <2>2, <2>3 DEF ReverseFrame
    <2> QED BY <2>9, ReverseFrameCredit
<1>3. ASSUME NEW r \in Reverser, NEW from \in {"findHeld", "held"},
             NEW state \in {"held", "released"}, ReverseFind(r, from, state)
      PROVE  CreditInv'
    <2>1. rev[r] \in [pc: {"refund", "findHeld", "held", "released"},
                     order: Order, scope: SUBSET Item, todo: SUBSET Job]
        BY <1>3, LocalStates DEF ReverseFind
    <2>2. /\ rev'[r].todo = {JobOf(e) : e \in InScope(r, state)} /\ rev'[r].pc \notin Busy
          /\ \A x \in Reverser : x # r => rev'[x] = rev[x]
          /\ UNCHANGED <<rel, created, credited, doc>>
        BY <1>3, <2>1 DEF ReverseFind, TypeOK, reverseVars, Busy
    <2>3. \A e \in InScope(r, state) : created[e] # 0 /\ JobOf(e).earning = e
        BY DEF InScope, CreditInv, JobOf
    <2>4. RevPart(rev'[r]) BY <2>2, <2>3 DEF RevPart
    <2>9. ReverseFrame(r) BY <2>2, <2>4 DEF ReverseFrame
    <2> QED BY <2>9, ReverseFrameCredit
<1>4. ASSUME NEW r \in Reverser, NEW j \in rev[r].todo, ReconcileRead(r, j)
      PROVE  CreditInv'
    <2>1. /\ rev'[r].todo \subseteq rev[r].todo /\ rev'[r].cur = j
          /\ \A x \in Reverser : x # r => rev'[x] = rev[x]
          /\ UNCHANGED <<rel, created, credited, doc>>
        BY <1>4 DEF ReconcileRead, TypeOK, reverseVars
    <2>2. RevPart(rev'[r]) BY <2>1, <1>4 DEF CreditInv, RevPart
    <2>9. ReverseFrame(r) BY <2>1, <2>2 DEF ReverseFrame
    <2> QED BY <2>9, ReverseFrameCredit
<1>5. ASSUME NEW r \in Reverser, rev[r].pc \in Busy
      PROVE  /\ rev[r] \in [pc: Busy, order: Order, scope: SUBSET Item, todo: SUBSET Job,
                            cur: Job, pending: Int, balance: Int]
             /\ rev[r].cur.earning \in Earning /\ created[rev[r].cur.earning] # 0
    BY <1>5, LocalStates, JobParts DEF CreditInv, Busy
<1>6. ASSUME NEW r \in Reverser, ReconcileWrite(r) PROVE CreditInv'
    <2>1. rev[r].pc \in Busy BY <1>6 DEF ReconcileWrite, Busy
    <2>2. /\ rev'[r].todo = rev[r].todo /\ rev'[r].cur = rev[r].cur
          /\ \A x \in Reverser : x # r => rev'[x] = rev[x]
          /\ UNCHANGED <<rel, created, credited, doc>>
        BY <1>6, <2>1, <1>5 DEF ReconcileWrite, TypeOK, reverseVars
    <2>3. RevPart(rev'[r]) BY <2>1, <2>2, <1>5 DEF CreditInv, RevPart
    <2>9. ReverseFrame(r) BY <2>2, <2>3 DEF ReverseFrame
    <2> QED BY <2>9, ReverseFrameCredit
<1>7. ASSUME NEW r \in Reverser, DeleteEarning(r) \/ ZeroEarning(r) PROVE CreditInv'
    <2>1. rev[r].pc \in Busy BY <1>7 DEF DeleteEarning, ZeroEarning, Busy
    <2>2. /\ rev'[r].todo = rev[r].todo /\ rev'[r].pc \notin Busy
          /\ \A x \in Reverser : x # r => rev'[x] = rev[x]
          /\ UNCHANGED <<rel, created, credited>>
        BY <1>7 DEF DeleteEarning, ZeroEarning, BackTo, TypeOK, reverseVars, Busy
    <2>3. RevPart(rev'[r]) BY <2>2 DEF CreditInv, RevPart
    <2>4. \A e \in Earning : doc'[e].state # doc[e].state =>
           doc'[e].state = "deleted" /\ created[e] # 0
        BY <1>7, <2>1, <1>5 DEF DeleteEarning, ZeroEarning, TypeOK, Doc
    <2>9. ReverseFrame(r) BY <2>2, <2>3, <2>4 DEF ReverseFrame
    <2> QED BY <2>9, ReverseFrameCredit
<1>8. ASSUME NEW r \in Reverser,
             \/ \E o \in Order : CancelBegin(r, o)
             \/ \E i \in Item : RejectItem(r, i)
             \/ ReverseDone(r)
      PROVE  UNCHANGED doc
    BY <1>8 DEF CancelBegin, RejectItem, ReverseDone
<1> QED BY <1>1, <1>2, <1>3, <1>4, <1>6, <1>7, <1>8
        DEF ReverseStep, ReverseFindHeld, ReverseFindReleased

LEMMA CrashCredit == ASSUME TypeOK, CreditInv, CrashStep PROVE CreditInv'
<1>1. /\ \A w \in Releaser : rel'[w] = rel[w] \/ rel'[w].pc = "idle"
      /\ \A r \in Reverser : rev'[r] = rev[r] \/ rev'[r] = Idle
      /\ UNCHANGED <<created, credited, doc>>
    <2>1. CASE UNCHANGED rel BY <2>1 DEF CrashStep, Crash, TypeOK
    <2>2. CASE UNCHANGED rev BY <2>2 DEF CrashStep, Crash, TypeOK, Idle
    <2> QED BY <2>1, <2>2 DEF CrashStep, Crash
<1> QED BY <1>1 DEF CreditInv, Idle

LEMMA NextCredit ==
    ASSUME "lostReply" \notin Faults, TypeOK, ClaimInv, CreditInv, [Next]_vars
    PROVE  CreditInv'
<1>1. ASSUME UNCHANGED vars PROVE CreditInv'
    BY <1>1, RelCur, CreditUnchanged DEF vars
<1> QED BY <1>1, OrderStepCredit, RecordStepCredit, ReleaseStepCredit,
           ReverseStepCredit, CrashCredit DEF Next

\* Unless the reply of an applied credit is lost, an earning enters its vendor's
\* balance at most once, for any number of release runs, recording calls, failed
\* credits and crashes, and for any reversals, too, unless an order is from before
\* the flag (releaseFunds' claim and its revert).
THEOREM ReleasesOnce ==
    ASSUME Legacy = {} \/ Reverser = {}, "lostReply" \notin Faults
    PROVE  Spec => []ReleasedOnce
<1>1. Init => ClaimInv /\ CreditInv BY InitClaim, InitCredit DEF Init
<1>2. TypeOK /\ ClaimInv /\ CreditInv /\ [Next]_vars => ClaimInv' /\ CreditInv'
    BY NextClaim, NextCredit DEF Undisturbed
<1>3. CreditInv => ReleasedOnce BY DEF CreditInv, ReleasedOnce
<1>4. Spec => []TypeOK BY TypeCorrect
<1> QED BY <1>1, <1>2, <1>3, <1>4, PTL DEF Spec

-----------------------------------------------------------------------------
(* The wallet agrees with the documents.                                   *)

InRecording(e) == \E p \in Recorder : rec[p].pc = "items" /\ e \in rec[p].docs
InCredit(e) == \E w \in Releaser : rel[w].pc = "claimed" /\ rel[w].cur.earning = e

\* What an earning contributes to its vendor's pending balance: nothing while its
\* item is recorded only in part, and still its net amount while it is claimed
\* and not credited.
ToPending ==
    [e \in Earning |-> (IF doc[e].state = "held" \/ InCredit(e) THEN Share[e] ELSE 0)
                       - (IF InRecording(e) THEN Share[e] ELSE 0)]

\* What it contributes to the balance.
ToBalance ==
    [e \in Earning |-> IF doc[e].state = "released" /\ ~ InCredit(e) THEN Share[e] ELSE 0]

EarningsFor(v) == {e \in Earning : VendorOf[e[1]] = v}

\* A document keeps the share it was created with, and so does what a run has
\* read of it; the item a recording call works on is not finished.
BookInv ==
    /\ \A e \in Earning : doc[e].state # "none" =>
         e \in EarningsOf(e[1]) /\ doc[e].net = Share[e] /\ doc[e].state # "deleted"
    /\ \A w \in Releaser : \A j \in rel[w].todo : j.net = Share[j.earning]
    /\ \A w \in Releaser : rel[w].pc = "claimed" =>
         rel[w].cur.net = Share[rel[w].cur.earning]
    /\ \A p \in Recorder : rec[p].pc = "claimed" => rec[p].docs = {}
    /\ \A p \in Recorder : rec[p].pc = "items" =>
         \A e \in rec[p].docs : e[1] \in rec[p].todo /\ e \in EarningsOf(e[1])

\* Each balance of a vendor is the sum of what its earnings contribute.
SumInv ==
    \A v \in Vendor :
      /\ pending[v] = SumFunctionOnSet(ToPending, EarningsFor(v))
      /\ balance[v] = SumFunctionOnSet(ToBalance, EarningsFor(v))

LEMMA EarningFinite == IsFiniteSet(Earning)
<1> DEFINE Of(m) == Item \X {m}
<1>1. ASSUME NEW m \in Milestone PROVE IsFiniteSet(Of(m))
    <2> DEFINE f == [i \in Item |-> <<i, m>>]
    <2>1. f \in Surjection(Item, Of(m))
        <3>1. f \in [Item -> Of(m)] OBVIOUS
        <3>2. \A t \in Of(m) : \E i \in Item : f[i] = t OBVIOUS
        <3> HIDE DEF f, Of
        <3> QED BY <3>1, <3>2 DEF Surjection
    <2>2. IsFiniteSet(Item) BY EarningsAssumption
    <2> HIDE DEF f, Of
    <2> QED BY <2>1, <2>2, FS_Surjection
<1>2. IsFiniteSet(Of("upfront") \cup Of("completion"))
    <2>1. IsFiniteSet(Of("upfront")) /\ IsFiniteSet(Of("completion"))
        BY <1>1 DEF Milestone
    <2> HIDE DEF Of
    <2> QED BY <2>1, FS_Union
<1>3. Earning = Of("upfront") \cup Of("completion") BY DEF Earning, Milestone
<1> HIDE DEF Of
<1> QED BY <1>2, <1>3

LEMMA EarningsForFinite ==
    ASSUME NEW v
    PROVE  IsFiniteSet(EarningsFor(v)) /\ EarningsFor(v) \subseteq Earning
<1>1. EarningsFor(v) \subseteq Earning BY DEF EarningsFor
<1> QED BY <1>1, EarningFinite, FS_Subset

LEMMA ShareType == ASSUME NEW e \in Earning PROVE Share[e] \in Nat
BY EarningsAssumption

LEMMA ContributionType ==
    \A e \in Earning : /\ ToPending[e] \in Int /\ ToBalance[e] \in Int
                       /\ ToPending'[e] \in Int /\ ToBalance'[e] \in Int
BY ShareType DEF ToPending, ToBalance

\* A step that moves no contribution and no balance.
LEMMA SumUnmoved ==
    ASSUME SumInv, UNCHANGED walletVars,
           \A e \in Earning : ToPending'[e] = ToPending[e] /\ ToBalance'[e] = ToBalance[e]
    PROVE  SumInv'
<1> SUFFICES ASSUME NEW v \in Vendor
             PROVE  /\ pending[v] = SumFunctionOnSet(ToPending', EarningsFor(v))
                    /\ balance[v] = SumFunctionOnSet(ToBalance', EarningsFor(v))
    BY DEF SumInv, walletVars, EarningsFor
<1>1. SumFunctionOnSet(ToPending, EarningsFor(v)) = SumFunctionOnSet(ToPending', EarningsFor(v))
    BY EarningsForFinite, SumSame
<1>2. SumFunctionOnSet(ToBalance, EarningsFor(v)) = SumFunctionOnSet(ToBalance', EarningsFor(v))
    BY EarningsForFinite, SumSame
<1> QED BY <1>1, <1>2 DEF SumInv

\* Contributions follow from the state of the documents, the claims and the
\* recording calls.
LEMMA SameContributions ==
    ASSUME \A e \in Earning : /\ doc'[e].state = doc[e].state
                              /\ InCredit(e)' = InCredit(e)
                              /\ InRecording(e)' = InRecording(e)
    PROVE  \A e \in Earning : ToPending'[e] = ToPending[e] /\ ToBalance'[e] = ToBalance[e]
BY DEF ToPending, ToBalance

\* A change of one earning's contributions, carried by its vendor's balances.
LEMMA SumMoved ==
    ASSUME TypeOK, SumInv, NEW e \in Earning, NEW p \in Int, NEW b \in Int,
           ToPending'[e] = ToPending[e] + p, ToBalance'[e] = ToBalance[e] + b,
           \A f \in Earning : f # e => ToPending'[f] = ToPending[f] /\ ToBalance'[f] = ToBalance[f],
           pending' = [pending EXCEPT ![VendorOf[e[1]]] = @ + p],
           balance' = [balance EXCEPT ![VendorOf[e[1]]] = @ + b]
    PROVE  SumInv'
<1> SUFFICES ASSUME NEW v \in Vendor
             PROVE  /\ pending'[v] = SumFunctionOnSet(ToPending', EarningsFor(v))
                    /\ balance'[v] = SumFunctionOnSet(ToBalance', EarningsFor(v))
    BY DEF SumInv, EarningsFor
<1> DEFINE E == EarningsFor(v)
<1>0. IsFiniteSet(E) /\ E \subseteq Earning BY EarningsForFinite
<1>1. /\ pending[v] = SumFunctionOnSet(ToPending, E)
      /\ balance[v] = SumFunctionOnSet(ToBalance, E)
      /\ pending[v] \in Int /\ balance[v] \in Int
    BY DEF SumInv, TypeOK
<1>2. CASE VendorOf[e[1]] = v
    <2>1. e \in E BY <1>2 DEF EarningsFor
    <2>2. pending'[v] = pending[v] + p /\ balance'[v] = balance[v] + b
        BY <1>2 DEF TypeOK
    <2> HIDE DEF E
    <2>6. \A f \in E : /\ ToPending[f] \in Int /\ ToPending'[f] \in Int
                       /\ ToBalance[f] \in Int /\ ToBalance'[f] \in Int
        BY <1>0, ContributionType
    <2>7. \A f \in E : f # e => ToPending'[f] = ToPending[f] /\ ToBalance'[f] = ToBalance[f]
        BY <1>0
    <2>3. SumFunctionOnSet(ToPending', E)
            = SumFunctionOnSet(ToPending, E) + ToPending'[e] - ToPending[e]
        BY ONLY <1>0, <2>1, <2>6, <2>7, SumUpdate
    <2>4. SumFunctionOnSet(ToBalance', E)
            = SumFunctionOnSet(ToBalance, E) + ToBalance'[e] - ToBalance[e]
        BY ONLY <1>0, <2>1, <2>6, <2>7, SumUpdate
    <2>5. ToPending[e] \in Int /\ ToBalance[e] \in Int BY ContributionType
    <2> QED BY <1>1, <2>2, <2>3, <2>4, <2>5 DEF E
<1>3. CASE VendorOf[e[1]] # v
    <2>1. e \notin E BY <1>3 DEF EarningsFor
    <2>2. pending'[v] = pending[v] /\ balance'[v] = balance[v]
        BY <1>3 DEF TypeOK
    <2> HIDE DEF E
    <2>3. SumFunctionOnSet(ToPending, E) = SumFunctionOnSet(ToPending', E)
        <3>1. \A f \in E : ToPending[f] = ToPending'[f] BY <1>0, <2>1
        <3> QED BY <1>0, <3>1, SumSame
    <2>4. SumFunctionOnSet(ToBalance, E) = SumFunctionOnSet(ToBalance', E)
        <3>1. \A f \in E : ToBalance[f] = ToBalance'[f] BY <1>0, <2>1
        <3> QED BY <1>0, <3>1, SumSame
    <2> QED BY <1>1, <2>2, <2>3, <2>4 DEF E
<1> QED BY <1>2, <1>3

\* What the runs hold in hand is of earnings.
LEMMA RelJobs ==
    ASSUME TypeOK, NEW w \in Releaser
    PROVE  \A j \in rel[w].todo : j \in Job /\ j.earning \in Earning
BY LocalStates DEF Job

LEMMA BookUnchanged ==
    ASSUME TypeOK, BookInv, UNCHANGED <<rec, rel>>,
           \A e \in Earning : doc'[e].state = doc[e].state /\ doc'[e].net = doc[e].net
    PROVE  BookInv'
<1>1. \A e \in Earning : doc'[e].state # "none" =>
        e \in EarningsOf(e[1]) /\ doc'[e].net = Share[e] /\ doc'[e].state # "deleted"
    BY DEF BookInv
<1> QED BY <1>1 DEF BookInv

LEMMA OrderStepBook ==
    ASSUME TypeOK, BookInv, SumInv, OrderStep
    PROVE  BookInv' /\ SumInv'
<1>1. /\ \A e \in Earning : doc'[e].state = doc[e].state /\ doc'[e].net = doc[e].net
      /\ UNCHANGED <<rec, rel, walletVars>>
    BY OrderStepDoc
<1>2. BookInv' BY <1>1, BookUnchanged
<1>3. \A e \in Earning : InCredit(e)' = InCredit(e) /\ InRecording(e)' = InRecording(e)
    BY <1>1 DEF InCredit, InRecording
<1>4. SumInv'
    <2>1. \A e \in Earning : ToPending'[e] = ToPending[e] /\ ToBalance'[e] = ToBalance[e]
        BY <1>1, <1>3, SameContributions
    <2> QED BY <1>1, <2>1, SumUnmoved
<1> QED BY <1>2, <1>4

\* Claiming an order, loading its items and finishing contribute nothing.
LEMMA RecordFrameBook ==
    ASSUME TypeOK, BookInv, SumInv, NEW p \in Recorder,
           UNCHANGED <<doc, rel, walletVars>>,
           \A q \in Recorder : q # p => rec'[q] = rec[q],
           rec[p].pc = "items" => rec[p].docs = {},
           rec'[p].pc # "idle" => rec'[p].docs = {}
    PROVE  BookInv' /\ SumInv'
<1>1. BookInv' BY DEF BookInv
<1>2. \A e \in Earning : InCredit(e)' = InCredit(e)
    BY DEF InCredit
<1>3. \A e \in Earning : InRecording(e)' = InRecording(e)
    <2> SUFFICES ASSUME NEW e \in Earning PROVE InRecording(e)' = InRecording(e)
        OBVIOUS
    <2>1. ~ (rec[p].pc = "items" /\ e \in rec[p].docs) OBVIOUS
    <2>2. ~ (rec'[p].pc = "items" /\ e \in rec'[p].docs) OBVIOUS
    <2> QED BY <2>1, <2>2 DEF InRecording
<1>4. \A e \in Earning : ToPending'[e] = ToPending[e] /\ ToBalance'[e] = ToBalance[e]
    BY <1>2, <1>3, SameContributions
<1> QED BY <1>1, <1>4, SumUnmoved

\* Two recording calls never have the same document.
LEMMA RecordsApart ==
    ASSUME ClaimInv, BookInv, NEW p \in Recorder, NEW q \in Recorder, NEW e \in Earning,
           rec[p].pc = "items", rec[q].pc = "items",
           e \in rec[p].docs \/ e[1] \in rec[p].todo, e \in rec[q].docs
    PROVE  p = q
<1>1. e[1] \in rec[p].todo /\ e[1] \in rec[q].todo BY DEF BookInv
<1>2. OrderOf[e[1]] = rec[p].order /\ OrderOf[e[1]] = rec[q].order
    BY <1>1 DEF ClaimInv
<1> QED BY <1>2 DEF ClaimInv

\* A new document: its item is in the making, so it contributes nothing yet.
LEMMA RecordDocBook ==
    ASSUME TypeOK, ClaimInv, CreditInv, BookInv, SumInv,
           NEW p \in Recorder, NEW e \in Earning, RecordDoc(p, e)
    PROVE  BookInv' /\ SumInv'
<1>1. /\ rec[p].pc = "items" /\ e[1] \in rec[p].todo
      /\ e \in EarningsOf(e[1]) /\ e \notin rec[p].docs
      /\ rec' = [rec EXCEPT ![p].docs = @ \cup {e}]
      /\ doc' = [doc EXCEPT ![e] = HeldDoc(e)]
      /\ UNCHANGED <<rel, walletVars>>
    BY DEF RecordDoc, recordVars, walletVars
<1>2. rec[p] \in [pc: {"claimed", "items"}, order: Order,
                 todo: SUBSET Item, docs: SUBSET Earning]
    BY <1>1, LocalStates
<1>3. /\ rec'[p].pc = "items" /\ rec'[p].docs = rec[p].docs \cup {e}
      /\ rec'[p].todo = rec[p].todo
      /\ \A q \in Recorder : q # p => rec'[q] = rec[q]
    BY <1>1, <1>2 DEF TypeOK
<1>4. created[e] = 0 BY <1>1 DEF ClaimInv
<1>5. doc[e].state = "none" BY <1>4 DEF CreditInv
<1>6. /\ doc'[e].state = "held" /\ doc'[e].net = Share[e]
      /\ \A f \in Earning : f # e => doc'[f] = doc[f]
    BY <1>1 DEF TypeOK, HeldDoc
<1>7. BookInv'
    <2>1. \A f \in Earning : doc'[f].state # "none" =>
            f \in EarningsOf(f[1]) /\ doc'[f].net = Share[f] /\ doc'[f].state # "deleted"
        BY <1>1, <1>6 DEF BookInv
    <2>2. \A q \in Recorder : rec'[q].pc = "claimed" => rec'[q].docs = {}
        BY <1>3 DEF BookInv
    <2>3. \A q \in Recorder : rec'[q].pc = "items" =>
            \A f \in rec'[q].docs : f[1] \in rec'[q].todo /\ f \in EarningsOf(f[1])
        BY <1>1, <1>3 DEF BookInv
    <2>4. UNCHANGED rel BY <1>1
    <2> QED BY <2>1, <2>2, <2>3, <2>4 DEF BookInv
<1>8. \A f \in Earning : InCredit(f)' = InCredit(f)
    BY <1>1 DEF InCredit
<1>9. ~ InCredit(e) BY <1>5 DEF InCredit, CreditInv
<1>10. ~ InRecording(e)
    <2> SUFFICES ASSUME NEW q \in Recorder, rec[q].pc = "items", e \in rec[q].docs
                 PROVE FALSE
        BY DEF InRecording
    <2>1. p = q BY <1>1, RecordsApart
    <2> QED BY <2>1, <1>1
<1>11. InRecording(e)' BY <1>3 DEF InRecording
<1>12. \A f \in Earning : f # e => InRecording(f)' = InRecording(f)
    BY <1>1, <1>3 DEF InRecording
<1>13. ToPending'[e] = ToPending[e] /\ ToBalance'[e] = ToBalance[e]
    <2>1. Share[e] \in Nat BY ShareType
    <2>2. ToPending[e] = 0 /\ ToBalance[e] = 0
        BY <1>5, <1>9, <1>10 DEF ToPending, ToBalance
    <2>3. ToPending'[e] = 0 /\ ToBalance'[e] = 0
        BY <1>6, <1>8, <1>9, <1>11, <2>1 DEF ToPending, ToBalance
    <2> QED BY <2>2, <2>3
<1>14. \A f \in Earning : f # e => ToPending'[f] = ToPending[f] /\ ToBalance'[f] = ToBalance[f]
    BY <1>6, <1>8, <1>12 DEF ToPending, ToBalance
<1>15. SumInv' BY <1>1, <1>13, <1>14, SumUnmoved
<1> QED BY <1>7, <1>15

\* The two earnings of an item change together, by what NetOf adds up.
LEMMA SumMovedTwice ==
    ASSUME NEW i \in Item, NEW f, NEW g,
           \A e \in Earning : f[e] \in Int /\ g[e] \in Int,
           \A e \in Earning : g[e] = IF e[1] = i THEN f[e] + Share[e] ELSE f[e],
           NEW v
    PROVE  SumFunctionOnSet(g, EarningsFor(v)) =
             SumFunctionOnSet(f, EarningsFor(v)) + (IF VendorOf[i] = v THEN NetOf(i) ELSE 0)
<1> DEFINE E == EarningsFor(v)
           u == <<i, "upfront">>
           c == <<i, "completion">>
           h == [e \in Earning |-> IF e = u THEN g[e] ELSE f[e]]
<1>0. IsFiniteSet(E) /\ E \subseteq Earning BY EarningsForFinite
<1>1. u \in Earning /\ c \in Earning /\ u # c /\ u[1] = i /\ c[1] = i
    BY DEF Earning, Milestone
<1>2. \A e \in Earning : e[1] = i => e = u \/ e = c
    BY DEF Earning, Milestone
<1>3. Share[u] \in Nat /\ Share[c] \in Nat BY <1>1, ShareType
<1>4. g[u] = f[u] + Share[u] /\ g[c] = f[c] + Share[c] BY <1>1
<1>5. \A e \in Earning : h[e] \in Int BY <1>1
<1>6. h[u] = g[u] /\ h[c] = f[c] /\ \A e \in Earning : e # u => h[e] = f[e]
    BY <1>1
<1>7. \A e \in Earning : e # c => g[e] = h[e] BY <1>2, <1>6
<1>8. NetOf(i) = Share[u] + Share[c] BY DEF NetOf
<1>9. SumFunctionOnSet(f, E) \in Int BY <1>0, SumType
<1>10. CASE VendorOf[i] = v
    <2>1. u \in E /\ c \in E BY <1>1, <1>10 DEF EarningsFor
    <2> HIDE DEF E, u, c, h
    <2>2. SumFunctionOnSet(h, E) = SumFunctionOnSet(f, E) + h[u] - f[u]
        <3>1. \A y \in E : f[y] \in Int /\ h[y] \in Int BY <1>0, <1>5
        <3>2. \A y \in E : y # u => h[y] = f[y] BY <1>0, <1>6
        <3> QED BY <1>0, <2>1, <3>1, <3>2, SumUpdate
    <2>3. SumFunctionOnSet(g, E) = SumFunctionOnSet(h, E) + g[c] - h[c]
        BY <1>0, <1>5, <1>7, <2>1, SumUpdate
    <2>4. f[u] \in Int /\ f[c] \in Int BY <1>1
    <2>5. SumFunctionOnSet(g, E) = SumFunctionOnSet(f, E) + (Share[u] + Share[c])
        BY <2>2, <2>3, <2>4, <1>3, <1>4, <1>6, <1>9
    <2> QED BY <2>5, <1>8, <1>10 DEF E
<1>11. CASE VendorOf[i] # v
    <2>1. \A e \in E : e[1] # i BY <1>11 DEF EarningsFor
    <2> HIDE DEF E, u, c, h
    <2>2. \A e \in E : g[e] = f[e] BY <2>1, <1>0
    <2>3. SumFunctionOnSet(g, E) = SumFunctionOnSet(f, E) BY <1>0, <2>2, SumSame
    <2> QED BY <2>3, <1>9, <1>11 DEF E
<1> QED BY <1>10, <1>11

\* The shares of the earnings of some items, and nothing for the others.
SharesOf(T) == [e \in Earning |-> IF e[1] \in T THEN Share[e] ELSE 0]

LEMMA OneItemMore ==
    ASSUME NEW v, NEW T, T \subseteq Item, NEW i \in T
    PROVE  SumFunctionOnSet(SharesOf(T), EarningsFor(v)) =
             SumFunctionOnSet(SharesOf(T \ {i}), EarningsFor(v))
               + (IF VendorOf[i] = v THEN NetOf(i) ELSE 0)
<1> DEFINE g == SharesOf(T)
           h == SharesOf(T \ {i})
<1>1. \A e \in Earning : h[e] \in Int /\ g[e] \in Int BY ShareType DEF SharesOf
<1>2. \A e \in Earning : g[e] = IF e[1] = i THEN h[e] + Share[e] ELSE h[e]
    <2> SUFFICES ASSUME NEW e \in Earning
                 PROVE  g[e] = IF e[1] = i THEN h[e] + Share[e] ELSE h[e]
        OBVIOUS
    <2>1. Share[e] \in Int BY ShareType
    <2>2. CASE e[1] = i
        <3>1. g[e] = Share[e] /\ h[e] = 0 BY <2>2 DEF SharesOf
        <3> QED BY <2>1, <2>2, <3>1
    <2>3. CASE e[1] # i BY <2>3 DEF SharesOf
    <2> QED BY <2>2, <2>3
<1>3. i \in Item OBVIOUS
<1> HIDE DEF g, h
<1>4. SumFunctionOnSet(g, EarningsFor(v)) =
        SumFunctionOnSet(h, EarningsFor(v)) + (IF VendorOf[i] = v THEN NetOf(i) ELSE 0)
    BY <1>1, <1>2, <1>3, SumMovedTwice
<1> QED BY <1>4 DEF g, h

\* What the earnings of some items add up to, item by item or earning by earning.
LEMMA NetIsShares ==
    ASSUME NEW v, NEW S, S \subseteq Item, NEW f,
           \A e \in Earning : f[e] = IF e[1] \in S THEN Share[e] ELSE 0
    PROVE  NetOfVendor(v, S) = SumFunctionOnSet(f, EarningsFor(v))
<1> DEFINE Of(T) == {i \in T : VendorOf[i] = v}
           net == [i \in Item |-> NetOf(i)]
           Shares(T) == SharesOf(T)
           E == EarningsFor(v)
           Bad == {T \in SUBSET S : SumFunctionOnSet(net, Of(T)) # SumFunctionOnSet(Shares(T), E)}
<1>0. IsFiniteSet(E) /\ E \subseteq Earning BY EarningsForFinite
<1>1. IsFiniteSet(S) BY EarningsAssumption, FS_Subset
<1>2. S \notin Bad
    <2> SUFFICES ASSUME Bad # {} PROVE FALSE OBVIOUS
    <2>1. PICK T \in Bad : \A t \in Bad : ~ (t \subseteq T /\ t # T)
        <3>1. Bad \subseteq SUBSET S OBVIOUS
        <3> HIDE DEF Bad
        <3> QED BY <1>1, <3>1, LeastSubset
    <2>2. T \subseteq S /\ T \subseteq Item OBVIOUS
    <2>3. ASSUME NEW U, U \subseteq Item PROVE \A e \in E : Shares(U)[e] \in Int
        BY <1>0, ShareType DEF SharesOf
    <2>4. T # {}
        <3>1. ASSUME T = {} PROVE FALSE
            <4>1. SumFunctionOnSet(net, Of(T)) = 0
                <5>1. Of(T) = {} BY <3>1
                <5> QED BY <5>1, SumEmpty
            <4>2. \A e \in E : Shares(T)[e] = 0 BY <1>0, <3>1 DEF SharesOf
            <4>3. SumFunctionOnSet(Shares(T), E) = 0
                <5> HIDE DEF Shares, E
                <5> QED BY <1>0, <4>2, SumZero
            <4> QED BY <4>1, <4>3
        <3> QED BY <3>1
    <2>5. PICK i \in T : TRUE BY <2>4
    <2> DEFINE U == T \ {i}
    <2>6. i \in Item /\ U \subseteq S /\ U \subseteq T /\ U # T BY <2>2
    <2>7. SumFunctionOnSet(net, Of(U)) = SumFunctionOnSet(Shares(U), E)
        BY <2>1, <2>6
    <2>8. SumFunctionOnSet(Shares(T), E) =
            SumFunctionOnSet(Shares(U), E) + (IF VendorOf[i] = v THEN NetOf(i) ELSE 0)
        BY <2>2, OneItemMore DEF SharesOf
    <2>9. SumFunctionOnSet(net, Of(T)) =
            SumFunctionOnSet(net, Of(U)) + (IF VendorOf[i] = v THEN NetOf(i) ELSE 0)
        <3>1. Of(T) \subseteq Item /\ IsFiniteSet(Of(T))
            BY <2>2, EarningsAssumption, FS_Subset
        <3>2. \A k \in Of(T) : net[k] \in Int BY <3>1, NetType
        <3>3. CASE VendorOf[i] = v
            <4>1. i \in Of(T) /\ Of(U) = Of(T) \ {i} BY <3>3
            <4>2. net[i] = NetOf(i) /\ NetOf(i) \in Int BY <2>6, NetType
            <4>3. SumFunctionOnSet(net, Of(T)) = net[i] + SumFunctionOnSet(net, Of(T) \ {i})
                <5> HIDE DEF Of, net, U
                <5> QED BY <3>1, <3>2, <4>1, SumRemove
            <4>4. SumFunctionOnSet(net, Of(U)) \in Int
                <5>1. IsFiniteSet(Of(U)) /\ Of(U) \subseteq Of(T) BY <3>1, FS_Subset
                <5> HIDE DEF Of, net, U
                <5> QED BY <3>2, <5>1, SumType
            <4> HIDE DEF Of, net, U
            <4> QED BY <3>3, <4>1, <4>2, <4>3, <4>4
        <3>4. CASE VendorOf[i] # v
            <4>1. Of(U) = Of(T) BY <3>4
            <4>2. SumFunctionOnSet(net, Of(T)) \in Int
                <5> HIDE DEF Of, net
                <5> QED BY <3>1, <3>2, SumType
            <4> HIDE DEF Of, net, U
            <4> QED BY <3>4, <4>1, <4>2
        <3> QED BY <3>3, <3>4
    <2>10. T \in Bad OBVIOUS
    <2>11. SumFunctionOnSet(net, Of(T)) # SumFunctionOnSet(Shares(T), E) BY <2>10
    <2> HIDE DEF Bad, Of, net, Shares, E, U
    <2> QED BY <2>7, <2>8, <2>9, <2>11
<1>3. SumFunctionOnSet(net, Of(S)) = SumFunctionOnSet(Shares(S), E) BY <1>2
<1>4. \A e \in E : f[e] = Shares(S)[e] BY <1>0 DEF SharesOf
<1>5. NetOfVendor(v, S) = SumFunctionOnSet(net, Of(S)) BY DEF NetOfVendor
<1>6. SumFunctionOnSet(f, E) = SumFunctionOnSet(Shares(S), E)
    <2> HIDE DEF E, Shares
    <2> QED BY <1>0, <1>4, SumSame
<1> QED BY <1>3, <1>5, <1>6

LEMMA InitBook ==
    ASSUME NEW L \in SUBSET Legacy, InitWith(L)
    PROVE  BookInv /\ SumInv
<1> DEFINE S == Old(L)
<1>1. \A e \in Earning : e[1] \in Item BY DEF Earning
<1>2. \A e \in Earning :
        doc[e] = IF e[1] \in S /\ e \in EarningsOf(e[1]) THEN HeldDoc(e) ELSE NoDoc
    BY <1>1 DEF InitWith, Old
<1>3. BookInv
    <2>1. /\ \A p \in Recorder : rec[p].pc = "idle"
          /\ \A w \in Releaser : rel[w].pc = "idle" /\ rel[w].todo = {}
        BY DEF InitWith, Idle
    <2>2. \A e \in Earning : HeldDoc(e).net = Share[e] /\ HeldDoc(e).state = "held"
        BY DEF HeldDoc
    <2>3. NoDoc.state = "none" BY DEF NoDoc
    <2>4. \A e \in Earning : doc[e].state # "none" =>
            e \in EarningsOf(e[1]) /\ doc[e].net = Share[e] /\ doc[e].state # "deleted"
        BY <1>2, <2>2, <2>3
    <2> QED BY <2>1, <2>4 DEF BookInv
<1>4. \A e \in Earning : ~ InCredit(e) /\ ~ InRecording(e)
    BY DEF InitWith, InCredit, InRecording, Idle
<1>5. \A e \in Earning : /\ ToPending[e] = IF e[1] \in S THEN Share[e] ELSE 0
                        /\ ToBalance[e] = 0
    <2> SUFFICES ASSUME NEW e \in Earning
                 PROVE  /\ ToPending[e] = IF e[1] \in S THEN Share[e] ELSE 0
                        /\ ToBalance[e] = 0
        OBVIOUS
    <2>1. Share[e] \in Nat BY ShareType
    <2>2. e \notin EarningsOf(e[1]) => Share[e] = 0
        <3>1. e \in {e[1]} \X Milestone BY DEF Earning
        <3> QED BY <2>1, <3>1 DEF EarningsOf
    <2>3. doc[e].state = IF e[1] \in S /\ e \in EarningsOf(e[1]) THEN "held" ELSE "none"
        <3>1. HeldDoc(e).state = "held" /\ NoDoc.state = "none" BY DEF HeldDoc, NoDoc
        <3> HIDE DEF S
        <3> QED BY <1>2, <3>1
    <2> QED BY <1>4, <2>1, <2>2, <2>3 DEF ToPending, ToBalance
<1>6. \A v \in Vendor : balance[v] = 0 /\ pending[v] = IF L = {} THEN 0 ELSE NetOfVendor(v, S)
    BY DEF InitWith, Old
<1>7. S \subseteq Item /\ (L = {} => S = {}) BY DEF Old
<1> HIDE DEF S
<1>8. \A v : NetOfVendor(v, S) = SumFunctionOnSet(ToPending, EarningsFor(v))
    <2>1. \A e \in Earning : ToPending[e] = IF e[1] \in S THEN Share[e] ELSE 0 BY <1>5
    <2> QED BY <1>7, <2>1, NetIsShares
<1>9. \A v : SumFunctionOnSet(ToBalance, EarningsFor(v)) = 0
    BY <1>5, EarningsForFinite, SumZero
<1>10. \A v : L = {} => SumFunctionOnSet(ToPending, EarningsFor(v)) = 0
    BY <1>5, <1>7, EarningsForFinite, SumZero
<1>11. \A v \in Vendor : pending[v] = SumFunctionOnSet(ToPending, EarningsFor(v))
    BY <1>6, <1>8, <1>10
<1> QED BY <1>3, <1>6, <1>9, <1>11 DEF SumInv

\* The item is finished: its documents contribute from now on, and the pending
\* balance rises by their sum.
LEMMA RecordPendingBook ==
    ASSUME TypeOK, ClaimInv, BookInv, SumInv,
           NEW p \in Recorder, NEW i \in Item, RecordPending(p, i)
    PROVE  BookInv' /\ SumInv'
<1>1. /\ rec[p].pc = "items" /\ i \in rec[p].todo /\ rec[p].docs = EarningsOf(i)
      /\ rec' = [rec EXCEPT ![p].todo = @ \ {i}, ![p].docs = {}]
      /\ pending' = [pending EXCEPT ![VendorOf[i]] = @ + NetOf(i)]
      /\ UNCHANGED <<rel, doc, balance>>
    BY DEF RecordPending, recordVars
<1>2. rec[p] \in [pc: {"claimed", "items"}, order: Order,
                 todo: SUBSET Item, docs: SUBSET Earning]
    BY <1>1, LocalStates
<1>3. /\ rec'[p].pc = "items" /\ rec'[p].docs = {}
      /\ \A q \in Recorder : q # p => rec'[q] = rec[q]
    BY <1>1, <1>2 DEF TypeOK
<1>4. BookInv' BY <1>1, <1>3 DEF BookInv
<1>5. \A e \in Earning : InCredit(e)' = InCredit(e)
    BY <1>1 DEF InCredit
<1>6. \A e \in EarningsOf(i) : InRecording(e) /\ ~ InRecording(e)'
    <2> SUFFICES ASSUME NEW e \in EarningsOf(i) PROVE InRecording(e) /\ ~ InRecording(e)'
        OBVIOUS
    <2>1. e \in Earning /\ e[1] = i BY EarningsOfType
    <2>2. InRecording(e) BY <1>1 DEF InRecording
    <2>3. ASSUME NEW q \in Recorder, rec'[q].pc = "items", e \in rec'[q].docs PROVE FALSE
        <3>1. q # p BY <2>3, <1>3
        <3>2. rec[q].pc = "items" /\ e \in rec[q].docs BY <2>3, <3>1, <1>3
        <3>3. p = q BY <1>1, <2>1, <3>2, RecordsApart
        <3> QED BY <3>1, <3>3
    <2> QED BY <2>2, <2>3 DEF InRecording
<1>7. \A e \in Earning : e \notin EarningsOf(i) => InRecording(e)' = InRecording(e)
    BY <1>1, <1>3 DEF InRecording
<1>8. \A e \in Earning : e[1] = i /\ e \notin EarningsOf(i) => Share[e] = 0
    <2> SUFFICES ASSUME NEW e \in Earning, e[1] = i, e \notin EarningsOf(i)
                 PROVE Share[e] = 0
        OBVIOUS
    <2>1. e \in {i} \X Milestone BY DEF Earning
    <2>2. ~ (Share[e] > 0) BY <2>1 DEF EarningsOf
    <2> QED BY <2>2, ShareType
<1>9. \A e \in Earning : ToPending'[e] =
        IF e[1] = i THEN ToPending[e] + Share[e] ELSE ToPending[e]
    <2> SUFFICES ASSUME NEW e \in Earning
                 PROVE  ToPending'[e] =
                          IF e[1] = i THEN ToPending[e] + Share[e] ELSE ToPending[e]
        OBVIOUS
    <2> DEFINE h == IF doc[e].state = "held" \/ InCredit(e) THEN Share[e] ELSE 0
    <2>0. Share[e] \in Nat /\ h \in Int BY ShareType
    <2>1. /\ ToPending[e] = h - (IF InRecording(e) THEN Share[e] ELSE 0)
          /\ ToPending'[e] = h - (IF InRecording(e)' THEN Share[e] ELSE 0)
        BY <1>1, <1>5 DEF ToPending
    <2> HIDE DEF h
    <2>2. CASE e \in EarningsOf(i)
        <3>1. e[1] = i BY <2>2, EarningsOfType
        <3>2. ToPending[e] = h - Share[e] /\ ToPending'[e] = h - 0
            BY <2>1, <2>2, <1>6
        <3> QED BY <3>1, <3>2, <2>0
    <2>3. CASE e \notin EarningsOf(i)
        <3>1. ToPending'[e] = ToPending[e] BY <2>1, <2>3, <1>7
        <3>2. ToPending[e] \in Int BY ContributionType
        <3> QED BY <3>1, <3>2, <2>3, <1>8
    <2> QED BY <2>2, <2>3
<1>10. \A e \in Earning : ToBalance'[e] = ToBalance[e]
    BY <1>1, <1>5 DEF ToBalance
<1>11. SumInv'
    <2> SUFFICES ASSUME NEW v \in Vendor
                 PROVE  /\ pending'[v] = SumFunctionOnSet(ToPending', EarningsFor(v))
                        /\ balance[v] = SumFunctionOnSet(ToBalance', EarningsFor(v))
        BY <1>1 DEF SumInv, EarningsFor
    <2>1. SumFunctionOnSet(ToPending', EarningsFor(v)) =
            SumFunctionOnSet(ToPending, EarningsFor(v))
              + (IF VendorOf[i] = v THEN NetOf(i) ELSE 0)
        BY <1>9, ContributionType, SumMovedTwice
    <2>2. pending'[v] = pending[v] + (IF VendorOf[i] = v THEN NetOf(i) ELSE 0)
        BY <1>1, NetType DEF TypeOK
    <2>3. SumFunctionOnSet(ToBalance', EarningsFor(v))
            = SumFunctionOnSet(ToBalance, EarningsFor(v))
        BY <1>10, EarningsForFinite, SumSame
    <2>4. /\ pending[v] = SumFunctionOnSet(ToPending, EarningsFor(v))
          /\ balance[v] = SumFunctionOnSet(ToBalance, EarningsFor(v))
        BY DEF SumInv
    <2> QED BY <2>1, <2>2, <2>3, <2>4
<1> QED BY <1>4, <1>11

LEMMA RecordStepBook ==
    ASSUME TypeOK, ClaimInv, CreditInv, BookInv, SumInv, RecordStep
    PROVE  BookInv' /\ SumInv'
<1>1. ASSUME NEW p \in Recorder, NEW o \in Order, RecordClaim(p, o) PROVE BookInv' /\ SumInv'
    <2>1. /\ UNCHANGED <<doc, rel, walletVars>>
          /\ \A q \in Recorder : q # p => rec'[q] = rec[q]
          /\ rec[p].pc = "idle" /\ rec'[p].docs = {}
        BY <1>1 DEF RecordClaim, recordVars, walletVars, TypeOK
    <2> QED BY <2>1, RecordFrameBook
<1>2. ASSUME NEW p \in Recorder, RecordLoad(p) PROVE BookInv' /\ SumInv'
    <2>1. rec[p] \in [pc: {"claimed", "items"}, order: Order,
                     todo: SUBSET Item, docs: SUBSET Earning]
        BY <1>2, LocalStates DEF RecordLoad
    <2>2. /\ UNCHANGED <<doc, rel, walletVars>>
          /\ \A q \in Recorder : q # p => rec'[q] = rec[q]
          /\ rec[p].pc = "claimed" /\ rec'[p].docs = rec[p].docs
        BY <1>2, <2>1 DEF RecordLoad, recordVars, walletVars, TypeOK
    <2>3. rec[p].docs = {} BY <2>2 DEF BookInv
    <2> QED BY <2>2, <2>3, RecordFrameBook
<1>3. ASSUME NEW p \in Recorder, RecordDone(p) PROVE BookInv' /\ SumInv'
    <2>1. /\ UNCHANGED <<doc, rel, walletVars>>
          /\ \A q \in Recorder : q # p => rec'[q] = rec[q]
          /\ rec[p].pc = "items" /\ rec[p].todo = {} /\ rec'[p].pc = "idle"
        BY <1>3 DEF RecordDone, recordVars, walletVars, TypeOK, Idle
    <2>2. rec[p].docs = {} BY <2>1 DEF BookInv
    <2> QED BY <2>1, <2>2, RecordFrameBook
<1> QED BY <1>1, <1>2, <1>3, RecordDocBook, RecordPendingBook DEF RecordStep

\* Finding the due earnings and finishing contribute nothing.
LEMMA ReleaseFrameBook ==
    ASSUME TypeOK, BookInv, SumInv, NEW w \in Releaser,
           UNCHANGED <<doc, rec, walletVars>>,
           \A x \in Releaser : x # w => rel'[x] = rel[x],
           rel[w].pc # "claimed", rel'[w].pc # "claimed",
           \A j \in rel'[w].todo : j.net = Share[j.earning]
    PROVE  BookInv' /\ SumInv'
<1>1. BookInv' BY DEF BookInv
<1>2. \A e \in Earning : InCredit(e)' = InCredit(e)
    BY DEF InCredit
<1>3. \A e \in Earning : InRecording(e)' = InRecording(e)
    BY DEF InRecording
<1>4. \A e \in Earning : ToPending'[e] = ToPending[e] /\ ToBalance'[e] = ToBalance[e]
    BY <1>2, <1>3, SameContributions
<1> QED BY <1>1, <1>4, SumUnmoved

\* Between the claim and the credit an earning still counts as pending.
LEMMA ReleaseClaimBook ==
    ASSUME TypeOK, CreditInv, BookInv, SumInv,
           NEW w \in Releaser, NEW j \in rel[w].todo, ReleaseClaim(w, j)
    PROVE  BookInv' /\ SumInv'
<1>1. /\ rel[w] \in [pc: {"loop"}, todo: SUBSET Job]
      /\ j.earning \in Earning
    BY LocalStates, JobParts DEF ReleaseClaim
<1>2. CASE ~(j.net # 0 /\ Unreleased(j.earning))
    <2>1. /\ UNCHANGED <<doc, rec, walletVars>>
          /\ rel'[w].pc = "loop" /\ rel'[w].todo \subseteq rel[w].todo
          /\ \A x \in Releaser : x # w => rel'[x] = rel[x]
        BY <1>1, <1>2 DEF ReleaseClaim, releaseVars, walletVars, TypeOK
    <2>2. \A k \in rel'[w].todo : k.net = Share[k.earning] BY <2>1 DEF BookInv
    <2> QED BY <1>1, <2>1, <2>2, ReleaseFrameBook
<1>3. CASE j.net # 0 /\ Unreleased(j.earning)
    <2> DEFINE e == j.earning
    <2>1. /\ doc' = [doc EXCEPT ![e].state = "released"]
          /\ rel' = [rel EXCEPT ![w] = [pc |-> "claimed",
                                      todo |-> rel[w].todo \ {j}, cur |-> j]]
          /\ doc[e].state = "held"
          /\ UNCHANGED <<rec, walletVars>>
        BY <1>3 DEF ReleaseClaim, Unreleased, releaseVars, walletVars
    <2>2. /\ doc'[e].state = "released" /\ doc'[e].net = doc[e].net
          /\ \A f \in Earning : f # e => doc'[f] = doc[f]
        BY <1>1, <2>1 DEF TypeOK, Doc
    <2>3. /\ rel'[w].pc = "claimed" /\ rel'[w].cur = j
          /\ rel'[w].todo \subseteq rel[w].todo
          /\ \A x \in Releaser : x # w => rel'[x] = rel[x]
        BY <2>1 DEF TypeOK
    <2>4. j.net = Share[e] BY DEF BookInv
    <2>5. e \in Earning BY <1>1
    <2> HIDE DEF e
    <2>6. BookInv'
        <3>1. \A f \in Earning : doc'[f].state # "none" =>
                f \in EarningsOf(f[1]) /\ doc'[f].net = Share[f] /\ doc'[f].state # "deleted"
            BY <2>1, <2>2, <2>5 DEF BookInv
        <3>2. \A x \in Releaser : \A k \in rel'[x].todo : k.net = Share[k.earning]
            BY <2>3 DEF BookInv
        <3>3. \A x \in Releaser : rel'[x].pc = "claimed" =>
                rel'[x].cur.net = Share[rel'[x].cur.earning]
            BY <2>3, <2>4 DEF BookInv, e
        <3>4. UNCHANGED rec BY <2>1
        <3> QED BY <3>1, <3>2, <3>3, <3>4 DEF BookInv
    <2>7. \A f \in Earning : InRecording(f)' = InRecording(f)
        BY <2>1 DEF InRecording
    <2>8. InCredit(e)' BY <2>3 DEF InCredit, e
    <2>9. \A f \in Earning : f # e => InCredit(f)' = InCredit(f)
        <3>1. rel[w].pc # "claimed" BY <1>1
        <3>2. rel'[w].cur.earning = e BY <2>3 DEF e
        <3> QED BY <2>3, <3>1, <3>2 DEF InCredit
    <2>10. ToPending'[e] = ToPending[e] /\ ToBalance'[e] = ToBalance[e]
        BY <2>1, <2>2, <2>5, <2>7, <2>8 DEF ToPending, ToBalance
    <2>11. \A f \in Earning : f # e =>
             ToPending'[f] = ToPending[f] /\ ToBalance'[f] = ToBalance[f]
        BY <2>2, <2>7, <2>9 DEF ToPending, ToBalance
    <2>12. SumInv' BY <2>1, <2>10, <2>11, SumUnmoved
    <2> QED BY <2>6, <2>12
<1> QED BY <1>2, <1>3

\* A run that ends its claim, credited or reverted, and the earnings it held.
LEMMA ClaimEnds ==
    ASSUME TypeOK, CreditInv, NEW w \in Releaser, rel[w].pc = "claimed",
           rel'[w].pc # "claimed",
           \A x \in Releaser : x # w => rel'[x] = rel[x],
           NEW e \in Earning, e = rel[w].cur.earning
    PROVE  /\ InCredit(e) /\ ~ InCredit(e)'
           /\ \A f \in Earning : f # e => InCredit(f)' = InCredit(f)
<1>1. InCredit(e) BY DEF InCredit
<1>2. \A x \in Releaser : x # w /\ rel[x].pc = "claimed" => rel[x].cur.earning # e
    BY DEF CreditInv
<1>3. ~ InCredit(e)' BY <1>2 DEF InCredit
<1>4. \A f \in Earning : f # e => InCredit(f)' = InCredit(f)
    BY DEF InCredit
<1> QED BY <1>1, <1>3, <1>4

\* The $inc of the release moves the contribution from pending to balance.
LEMMA ReleaseCreditBook ==
    ASSUME TypeOK, CreditInv, BookInv, SumInv, NEW w \in Releaser, ReleaseCredit(w)
    PROVE  BookInv' /\ SumInv'
<1>1. PICK e \in Earning : e = rel[w].cur.earning BY RelCur DEF ReleaseCredit
<1>2. /\ rel[w].pc = "claimed" /\ rel'[w].pc = "loop" /\ rel'[w].todo = rel[w].todo
      /\ \A x \in Releaser : x # w => rel'[x] = rel[x]
      /\ UNCHANGED <<rec, doc>>
    BY DEF ReleaseCredit, releaseVars, TypeOK
<1>3. rel[w].cur.net = Share[e] BY <1>1, <1>2 DEF BookInv
<1>4. Share[e] \in Nat BY ShareType
<1>5. /\ balance' = [balance EXCEPT ![VendorOf[e[1]]] = @ + Share[e]]
      /\ pending' = [pending EXCEPT ![VendorOf[e[1]]] = @ - Share[e]]
    BY <1>1, <1>3 DEF ReleaseCredit, Credit
<1>6. pending' = [pending EXCEPT ![VendorOf[e[1]]] = @ + (- Share[e])]
    <2>1. \A v \in Vendor : pending[v] - Share[e] = pending[v] + (- Share[e])
        BY <1>4 DEF TypeOK
    <2>2. VendorOf[e[1]] \in Vendor BY EarningsAssumption DEF Earning
    <2>3. pending[VendorOf[e[1]]] - Share[e] = pending[VendorOf[e[1]]] + (- Share[e])
        BY <2>1, <2>2
    <2> QED BY <1>5, <2>3
<1>7. BookInv' BY <1>2 DEF BookInv
<1>8. doc[e].state = "released"
    <2>1. doc[e].state \in {"released", "deleted"} BY <1>1, <1>2 DEF CreditInv
    <2> QED BY <2>1 DEF BookInv
<1>9. /\ InCredit(e) /\ ~ InCredit(e)'
      /\ \A f \in Earning : f # e => InCredit(f)' = InCredit(f)
    BY <1>1, <1>2, ClaimEnds
<1>10. \A f \in Earning : InRecording(f)' = InRecording(f)
    BY <1>2 DEF InRecording
<1>11. ToBalance[e] = 0 /\ ToBalance'[e] = Share[e]
    BY <1>2, <1>8, <1>9 DEF ToBalance
<1>12. ToPending'[e] = ToPending[e] + (- Share[e])
    <2> DEFINE r == IF InRecording(e) THEN Share[e] ELSE 0
    <2>1. ToPending[e] = Share[e] - r BY <1>9 DEF ToPending
    <2>2. ToPending'[e] = 0 - r BY <1>2, <1>8, <1>9, <1>10 DEF ToPending
    <2>3. r \in Int BY <1>4
    <2> QED BY <2>1, <2>2, <2>3, <1>4
<1>13. \A f \in Earning : f # e => ToPending'[f] = ToPending[f] /\ ToBalance'[f] = ToBalance[f]
    BY <1>2, <1>9, <1>10 DEF ToPending, ToBalance
<1>14. ToBalance'[e] = ToBalance[e] + Share[e] /\ - Share[e] \in Int /\ Share[e] \in Int
    BY <1>4, <1>11
<1>15. SumInv' BY <1>5, <1>6, <1>12, <1>13, <1>14, SumMoved
<1> QED BY <1>7, <1>15

\* A failed credit takes the claim back: the earning is unreleased as before.
LEMMA ReleaseCreditErrorBook ==
    ASSUME "lostReply" \notin Faults, "revertError" \notin Faults,
           TypeOK, CreditInv, BookInv, SumInv,
           NEW w \in Releaser, ReleaseCreditError(w)
    PROVE  BookInv' /\ SumInv'
<1>1. PICK e \in Earning : e = rel[w].cur.earning BY RelCur DEF ReleaseCreditError
<1>2. /\ rel[w].pc = "claimed" /\ rel'[w].pc = "loop" /\ rel'[w].todo = rel[w].todo
      /\ \A x \in Releaser : x # w => rel'[x] = rel[x]
      /\ UNCHANGED <<rec, walletVars>>
    BY DEF ReleaseCreditError, RevertClaim, LeaveClaimed, releaseVars, walletVars, TypeOK
<1>3. doc[e].state = "released"
    <2>1. doc[e].state \in {"released", "deleted"} BY <1>1, <1>2 DEF CreditInv
    <2> QED BY <2>1 DEF BookInv
<1>4. /\ doc'[e].state = "held" /\ doc'[e].net = doc[e].net
      /\ \A f \in Earning : f # e => doc'[f] = doc[f]
    BY <1>1, <1>3 DEF ReleaseCreditError, RevertClaim, LeaveClaimed, TypeOK, Doc
<1>5. BookInv'
    <2>1. \A f \in Earning : doc'[f].state # "none" =>
            f \in EarningsOf(f[1]) /\ doc'[f].net = Share[f] /\ doc'[f].state # "deleted"
        BY <1>3, <1>4 DEF BookInv
    <2>2. \A x \in Releaser : \A k \in rel'[x].todo : k.net = Share[k.earning]
        BY <1>2 DEF BookInv
    <2>3. \A x \in Releaser : rel'[x].pc = "claimed" =>
            rel'[x].cur.net = Share[rel'[x].cur.earning]
        BY <1>2 DEF BookInv
    <2> QED BY <1>2, <2>1, <2>2, <2>3 DEF BookInv
<1>6. /\ InCredit(e) /\ ~ InCredit(e)'
      /\ \A f \in Earning : f # e => InCredit(f)' = InCredit(f)
    BY <1>1, <1>2, ClaimEnds
<1>7. \A f \in Earning : InRecording(f)' = InRecording(f)
    BY <1>2 DEF InRecording
<1>8. ToPending'[e] = ToPending[e] /\ ToBalance'[e] = ToBalance[e]
    BY <1>4, <1>6, <1>7 DEF ToPending, ToBalance
<1>9. \A f \in Earning : f # e => ToPending'[f] = ToPending[f] /\ ToBalance'[f] = ToBalance[f]
    BY <1>4, <1>6, <1>7 DEF ToPending, ToBalance
<1> QED BY <1>2, <1>5, <1>8, <1>9, SumUnmoved

LEMMA ReleaseStepBook ==
    ASSUME "lostReply" \notin Faults, "revertError" \notin Faults,
           TypeOK, CreditInv, BookInv, SumInv, ReleaseStep
    PROVE  BookInv' /\ SumInv'
<1>1. ASSUME NEW w \in Releaser, ReleaseFind(w) PROVE BookInv' /\ SumInv'
    <2>1. /\ UNCHANGED <<doc, rec, walletVars>>
          /\ \A x \in Releaser : x # w => rel'[x] = rel[x]
          /\ rel[w].pc = "idle" /\ rel'[w].pc = "loop"
          /\ rel'[w].todo = {JobOf(e) : e \in Due}
        BY <1>1 DEF ReleaseFind, releaseVars, walletVars, TypeOK
    <2>2. \A e \in Due : JobOf(e).net = Share[JobOf(e).earning]
        BY DEF Due, JobOf, BookInv
    <2>3. \A j \in rel'[w].todo : j.net = Share[j.earning] BY <2>1, <2>2
    <2> QED BY <2>1, <2>3, ReleaseFrameBook
<1>2. ASSUME NEW w \in Releaser, ReleaseDone(w) PROVE BookInv' /\ SumInv'
    <2>1. /\ UNCHANGED <<doc, rec, walletVars>>
          /\ \A x \in Releaser : x # w => rel'[x] = rel[x]
          /\ rel[w].pc = "loop" /\ rel'[w].pc = "idle" /\ rel'[w].todo = {}
        BY <1>2 DEF ReleaseDone, releaseVars, walletVars, TypeOK, Idle
    <2> QED BY <2>1, ReleaseFrameBook
<1> QED BY <1>1, <1>2, ReleaseClaimBook, ReleaseCreditBook, ReleaseCreditErrorBook
        DEF ReleaseStep

LEMMA NextBook ==
    ASSUME Reverser = {}, Faults \subseteq {"creditError"},
           TypeOK, ClaimInv, CreditInv, BookInv, SumInv, [Next]_vars
    PROVE  BookInv' /\ SumInv'
<1>1. ~ ReverseStep BY DEF ReverseStep
<1>2. ~ CrashStep BY DEF CrashStep, Stoppable
<1>3. CASE UNCHANGED vars
    <2>1. UNCHANGED <<doc, rec, rel, walletVars>> BY <1>3 DEF vars
    <2>2. BookInv' BY <2>1 DEF BookInv
    <2>3. \A e \in Earning : InCredit(e)' = InCredit(e) /\ InRecording(e)' = InRecording(e)
        BY <2>1 DEF InCredit, InRecording
    <2>4. \A e \in Earning : ToPending'[e] = ToPending[e] /\ ToBalance'[e] = ToBalance[e]
        BY <2>1, <2>3, SameContributions
    <2> QED BY <2>1, <2>2, <2>4, SumUnmoved
<1> QED BY <1>1, <1>2, <1>3, OrderStepBook, RecordStepBook, ReleaseStepBook DEF Next

\* When no call is between two writes, a contribution is the document's amount.
LEMMA SumsAreHeld ==
    ASSUME TypeOK, BookInv, SumInv, Quiet, NEW v \in Vendor
    PROVE  pending[v] = NetHeld(v, "held") /\ balance[v] = NetHeld(v, "released")
<1> DEFINE net == [e \in Earning |-> doc[e].net]
           In(s) == {e \in VendorEarnings(v) : doc[e].state = s}
           E == EarningsFor(v)
<1>1. \A e \in Earning : ~ InCredit(e) /\ ~ InRecording(e)
    BY DEF Quiet, InCredit, InRecording
<1>2. \A e \in E : doc[e].state # "none" => e \in VendorEarnings(v)
    <2> SUFFICES ASSUME NEW e \in E, doc[e].state # "none" PROVE e \in VendorEarnings(v)
        OBVIOUS
    <2>1. e \in Earning /\ e[1] \in Item /\ VendorOf[e[1]] = v
        BY DEF EarningsFor, Earning
    <2>2. e \in EarningsOf(e[1]) BY <2>1 DEF BookInv
    <2> QED BY <2>1, <2>2 DEF VendorEarnings
<1>3. VendorEarnings(v) \subseteq E
    BY EarningsOfType DEF VendorEarnings, EarningsFor
<1>4. IsFiniteSet(E) /\ E \subseteq Earning BY EarningsForFinite
<1>5. \A s : NetHeld(v, s) = SumFunctionOnSet(net, In(s)) BY DEF NetHeld
<1>6. ASSUME NEW s \in {"held", "released"}, NEW f,
             \A e \in E : f[e] = IF doc[e].state = s THEN Share[e] ELSE 0
      PROVE  SumFunctionOnSet(f, E) = SumFunctionOnSet(net, In(s))
    <2> DEFINE g == [e \in E |-> IF e \in In(s) THEN net[e] ELSE 0]
    <2>1. In(s) \subseteq E BY <1>3
    <2>2. \A e \in In(s) : net[e] \in Int BY <2>1, <1>4 DEF TypeOK, Doc
    <2>3. SumFunctionOnSet(net, In(s)) = SumFunctionOnSet(g, E)
        <3> HIDE DEF net, In, E
        <3> QED BY <1>4, <2>1, <2>2, SumPart
    <2>4. \A e \in E : f[e] = g[e]
        <3> SUFFICES ASSUME NEW e \in E PROVE f[e] = g[e] OBVIOUS
        <3>1. CASE doc[e].state = s
            <4>1. e \in In(s) BY <3>1, <1>2
            <4>2. doc[e].net = Share[e] BY <3>1, <1>4 DEF BookInv
            <4> QED BY <4>1, <4>2, <1>4, <1>6, <3>1
        <3>2. CASE doc[e].state # s
            BY <1>6, <3>2
        <3> QED BY <3>1, <3>2
    <2> HIDE DEF g, E, In, net
    <2> QED BY <1>4, <2>3, <2>4, SumSame
<1>7. \A e \in E : ToPending[e] = IF doc[e].state = "held" THEN Share[e] ELSE 0
    BY <1>1, <1>4, ShareType DEF ToPending
<1>8. \A e \in E : ToBalance[e] = IF doc[e].state = "released" THEN Share[e] ELSE 0
    BY <1>1, <1>4 DEF ToBalance
<1>9. SumFunctionOnSet(ToPending, E) = NetHeld(v, "held") BY <1>5, <1>6, <1>7
<1>10. SumFunctionOnSet(ToBalance, E) = NetHeld(v, "released") BY <1>5, <1>6, <1>8
<1> QED BY <1>9, <1>10 DEF SumInv

\* Whatever the numbers of recording calls and release runs, and however often
\* the database fails a credit, a wallet is the sum of its vendor's documents
\* whenever no call is between two writes.  Reversals, crashes, and reverts that
\* fail like the credit before them are left out: they do break it
\* (recordBusinessEarnings, releaseFunds and the $inc of each).
THEOREM LedgerAgrees ==
    ASSUME Reverser = {}, Faults \subseteq {"creditError"}
    PROVE  Spec => []LedgerInSync
<1> DEFINE I == ClaimInv /\ CreditInv /\ BookInv /\ SumInv
<1>1. Init => I BY InitClaim, InitCredit, InitBook DEF Init
<1>2. TypeOK /\ I /\ [Next]_vars => I' BY NextClaim, NextCredit, NextBook DEF Undisturbed
<1>3. TypeOK /\ I => LedgerInSync BY SumsAreHeld DEF LedgerInSync
<1>4. Spec => []TypeOK BY TypeCorrect
<1> HIDE DEF I
<1> QED BY <1>1, <1>2, <1>3, <1>4, PTL DEF Spec

-----------------------------------------------------------------------------
(* AfterSale: type correctness.                                            *)

LEMMA AboutType ==
    ASSUME NEW c \in Call
    PROVE  OrderOfCall(c) \in Order /\ VendorOfCall(c) \in Vendor
BY AfterSaleAssumption DEF OrderOfCall, VendorOfCall

LEMMA InitAfterType == ASSUME AfterInit PROVE AfterTypeOK
<1>1. \A e \in Earning : HeldDoc(e) \in Doc /\ NoDoc \in Doc
    BY HeldDocType DEF NoDoc, Doc, ReleaseDate
<1>2. \A e \in Earning : [HeldDoc(e) EXCEPT !.date = "later"] \in Doc
    BY <1>1 DEF Doc, ReleaseDate
<1>3. doc \in [Earning -> Doc] /\ created \in [Earning -> Nat]
    BY <1>1, <1>2 DEF AfterInit
<1>4. "ready" \in CallPC /\ "absent" \in CallPC BY DEF CallPC
<1>5. call \in [Call -> CallState]
    <2>1. \A c \in Call : \A pc \in CallPC : NewCall(c, pc) \in CallState
        BY DEF NewCall, CallState
    <2>2. \E M \in Mix :
            call = [c \in Call |-> NewCall(c, IF c \in M THEN "ready" ELSE "absent")]
        BY DEF AfterInit
    <2> QED BY <1>4, <2>1, <2>2
<1>6. /\ rec \in [Recorder -> RecState]
      /\ rel \in [Releaser -> RelState]
      /\ rev \in [Reverser -> RevState]
    BY DEF AfterInit, RecState, RelState, RevState
<1> QED BY <1>3, <1>5, <1>6, AfterSaleAssumption
        DEF AfterInit, AfterTypeOK, TypeOK, OrderStatus, DisputeStatus, ReturnStatus

\* A step that only moves a call to another program counter keeps its type.
LEMMA GoesType ==
    ASSUME AfterTypeOK, NEW c \in Call, NEW pc \in CallPC, Goes(c, pc)
    PROVE  call' \in [Call -> CallState]
BY DEF AfterTypeOK, CallState, Goes

\* It changes nothing else.
LEMMA GoesFrame ==
    ASSUME AfterTypeOK, NEW c \in Call, NEW pc, Goes(c, pc)
    PROVE  /\ \A d \in Call : call'[d].todo = call[d].todo /\ call'[d].cur = call[d].cur
           /\ \A d \in Call : d # c => call'[d] = call[d]
           /\ call'[c].pc = pc
BY DEF AfterTypeOK, CallState, Goes

\* What a call reads of its own state.
LEMMA CallParts ==
    ASSUME AfterTypeOK, NEW c \in Call
    PROVE  /\ call[c] \in CallState
           /\ call[c].on \in Call
           /\ call[c].todo \subseteq Read /\ call[c].cur \subseteq Read
           /\ call[c].pending \in Int /\ call[c].balance \in Int
BY DEF AfterTypeOK, CallState

LEMMA ReadParts ==
    ASSUME NEW j \in Read
    PROVE  /\ j.earning \in Earning /\ j.net \in Int /\ j.released \in BOOLEAN
           /\ VendorOf[j.earning[1]] \in Vendor
BY EarningsAssumption DEF Read, Earning

\* The parts of AfterTypeOK that a call may change.
CallTypes ==
    /\ doc \in [Earning -> Doc]
    /\ pending \in [Vendor -> Int]
    /\ balance \in [Vendor -> Int]
    /\ dispute \in [Call -> DisputeStatus]
    /\ returned \in [Call -> ReturnStatus]
    /\ payment \in [Order -> {"success", "reversed"}]
    /\ deducted \in [Order -> BOOLEAN]
    /\ call \in [Call -> CallState]
    /\ refunds \in [Order -> Nat]
    /\ unsaved \in [Order -> Nat]
    /\ raced \subseteq Order
    /\ restored \in [Order -> Nat]
    /\ refundedAway \subseteq Earning

LEMMA CallTypesSuffice ==
    ASSUME AfterTypeOK, UNCHANGED saleVars, CallTypes'
    PROVE  AfterTypeOK'
BY DEF AfterTypeOK, TypeOK, CallTypes, saleVars, orderVars

LEMMA OpenCheckType ==
    ASSUME AfterTypeOK, NEW c \in Call, OpenCheck(c)
    PROVE  CallTypes' /\ UNCHANGED saleVars
<1>1. PICK pc \in CallPC : Goes(c, pc) BY DEF OpenCheck, CallPC
<1>2. call' \in [Call -> CallState] BY <1>1, GoesType
<1> QED BY <1>2
        DEF OpenCheck, AfterTypeOK, TypeOK, CallTypes, walletVars, docVars, moneyVars, stockVars

LEMMA OpenExistingType ==
    ASSUME AfterTypeOK, NEW c \in Call, OpenExisting(c)
    PROVE  CallTypes' /\ UNCHANGED saleVars
<1>1. PICK pc \in CallPC : Goes(c, pc) BY DEF OpenExisting, CallPC
<1>2. call' \in [Call -> CallState] BY <1>1, GoesType
<1> QED BY <1>2
        DEF OpenExisting, AfterTypeOK, TypeOK, CallTypes, walletVars, docVars, moneyVars, stockVars

LEMMA OpenFreezeType ==
    ASSUME AfterTypeOK, NEW c \in Call, OpenFreeze(c)
    PROVE  CallTypes' /\ UNCHANGED saleVars
<1>1. PICK pc \in CallPC : Goes(c, pc) BY DEF OpenFreeze, CallPC
<1>2. call' \in [Call -> CallState] BY <1>1, GoesType
<1>3. doc' \in [Earning -> Doc]
    BY ScheduleType DEF OpenFreeze, AfterTypeOK, ReleaseDate
<1> QED BY <1>2, <1>3
        DEF OpenFreeze, AfterTypeOK, TypeOK, CallTypes, walletVars, docVars, moneyVars, stockVars

LEMMA OpenCreateType ==
    ASSUME AfterTypeOK, NEW c \in Call, OpenCreate(c)
    PROVE  CallTypes' /\ UNCHANGED saleVars
<1>1. PICK pc \in CallPC : Goes(c, pc) BY DEF OpenCreate, CallPC
<1>2. call' \in [Call -> CallState] BY <1>1, GoesType
<1> QED BY <1>2
        DEF OpenCreate, AfterTypeOK, TypeOK, CallTypes, walletVars, docVars, moneyVars, stockVars, DisputeStatus, ReturnStatus

LEMMA FlagMeasurementType ==
    ASSUME AfterTypeOK, NEW c \in Call, FlagMeasurement(c)
    PROVE  CallTypes' /\ UNCHANGED saleVars
<1>1. PICK pc \in CallPC : Goes(c, pc) BY DEF FlagMeasurement, CallPC
<1>2. call' \in [Call -> CallState] BY <1>1, GoesType
<1> QED BY <1>2
        DEF FlagMeasurement, AfterTypeOK, TypeOK, CallTypes, walletVars, docVars, moneyVars, stockVars, DisputeStatus

LEMMA DisputeLoadType ==
    ASSUME AfterTypeOK, NEW c \in Call, NEW d \in Call, DisputeLoad(c, d)
    PROVE  CallTypes' /\ UNCHANGED saleVars
<1>1. PICK pc \in CallPC : call' = [call EXCEPT ![c].pc = pc, ![c].on = d]
    BY DEF DisputeLoad, At, First, CallPC, Deciding
<1>2. call' \in [Call -> CallState] BY <1>1 DEF AfterTypeOK, CallState
<1> QED BY <1>2
        DEF DisputeLoad, AfterTypeOK, TypeOK, CallTypes, walletVars, docVars, moneyVars, stockVars

LEMMA RefundAllFindType ==
    ASSUME AfterTypeOK, NEW c \in Call, RefundAllFind(c)
    PROVE  CallTypes' /\ UNCHANGED saleVars
<1>0. "delete" \in CallPC BY DEF CallPC
<1>1. Owed(c) \in BOOLEAN BY DEF Owed
<1>2. call' \in [Call -> CallState]
    BY <1>0, <1>1 DEF RefundAllFind, AfterTypeOK, CallState
<1> QED BY <1>2
        DEF RefundAllFind, AfterTypeOK, TypeOK, CallTypes, walletVars, docVars, moneyVars, stockVars

LEMMA RefundAllDeleteType ==
    ASSUME AfterTypeOK, NEW c \in Call, RefundAllDelete(c)
    PROVE  CallTypes' /\ UNCHANGED saleVars
<1>1. PICK pc \in CallPC : Goes(c, pc) BY DEF RefundAllDelete, CallPC
<1>2. call' \in [Call -> CallState] BY <1>1, GoesType
<1>3. doc' \in [Earning -> Doc]
    BY DEF RefundAllDelete, AfterTypeOK, TypeOK, Doc
<1>4. refundedAway' \subseteq Earning
    <2>1. \A e \in Scope(c) : e \in Earning
        BY EarningsOfType DEF Scope, OrderEarnings, ItemsOf
    <2> QED BY <2>1 DEF RefundAllDelete, AfterTypeOK
<1> QED BY <1>2, <1>3, <1>4
        DEF RefundAllDelete, AfterTypeOK, TypeOK, CallTypes, walletVars, docVars, moneyVars, stockVars

LEMMA RefundPartReduceType ==
    ASSUME AfterTypeOK, NEW c \in Call, RefundPartReduce(c)
    PROVE  CallTypes' /\ UNCHANGED saleVars
<1>1. PICK pc \in CallPC : Goes(c, pc) BY DEF RefundPartReduce, CallPC
<1>2. call' \in [Call -> CallState] BY <1>1, GoesType
<1>3. doc' \in [Earning -> Doc]
    <2>1. doc \in [Earning -> Doc] BY DEF AfterTypeOK, TypeOK
    <2>2. \A e \in Earning : doc'[e] = doc[e] \/ doc'[e] = [doc[e] EXCEPT !.net = @ - Part]
        BY DEF RefundPartReduce
    <2>3. \A e \in Earning : doc[e].net - Part \in Int
        BY <2>1, AfterSaleAssumption DEF Doc
    <2>4. \A e \in Earning : doc'[e] \in Doc
        BY <2>1, <2>2, <2>3 DEF Doc
    <2> QED BY <2>4 DEF RefundPartReduce
<1> QED BY <1>2, <1>3
        DEF RefundPartReduce, AfterTypeOK, TypeOK, CallTypes, walletVars, docVars, moneyVars, stockVars

LEMMA UnfreezeType ==
    ASSUME AfterTypeOK, NEW c \in Call, Unfreeze(c)
    PROVE  CallTypes' /\ UNCHANGED saleVars
<1>1. PICK pc \in CallPC : Goes(c, pc) BY DEF Unfreeze, CallPC, At
<1>2. call' \in [Call -> CallState] BY <1>1, GoesType
<1>3. doc' \in [Earning -> Doc]
    BY ScheduleType DEF Unfreeze, AfterTypeOK, ReleaseDate
<1> QED BY <1>2, <1>3
        DEF Unfreeze, AfterTypeOK, TypeOK, CallTypes, walletVars, docVars, moneyVars, stockVars

LEMMA DisputeSaveType ==
    ASSUME AfterTypeOK, NEW c \in Call, DisputeSave(c)
    PROVE  CallTypes' /\ UNCHANGED saleVars
<1>1. PICK pc \in CallPC : Goes(c, pc) BY DEF DisputeSave, CallPC
<1>2. call' \in [Call -> CallState] BY <1>1, GoesType
<1>3. Decision(c) \in DisputeStatus
    BY DEF DisputeSave, At, Decision, Deciding, DisputeStatus
<1> QED BY <1>2, <1>3, CallParts
        DEF DisputeSave, AfterTypeOK, TypeOK, CallTypes, walletVars, docVars, moneyVars, stockVars

LEMMA RefundLoadType ==
    ASSUME AfterTypeOK, NEW c \in Call, RefundLoad(c)
    PROVE  CallTypes' /\ UNCHANGED saleVars
<1>1. PICK pc \in CallPC : Goes(c, pc) BY DEF RefundLoad, CallPC, AfterRefund
<1>2. call' \in [Call -> CallState] BY <1>1, GoesType
<1> QED BY <1>2, AboutType
        DEF RefundLoad, AfterTypeOK, TypeOK, CallTypes, walletVars, docVars, moneyVars, stockVars

LEMMA RefundGatewayType ==
    ASSUME AfterTypeOK, NEW c \in Call, RefundGateway(c)
    PROVE  CallTypes' /\ UNCHANGED saleVars
<1>1. PICK pc \in CallPC : Goes(c, pc) BY DEF RefundGateway, CallPC, AfterRefund
<1>2. call' \in [Call -> CallState] BY <1>1, GoesType
<1> QED BY <1>2, AboutType
        DEF RefundGateway, AfterTypeOK, TypeOK, CallTypes, walletVars, docVars, moneyVars, stockVars

LEMMA RefundReverseType ==
    ASSUME AfterTypeOK, NEW c \in Call, RefundReverse(c)
    PROVE  CallTypes' /\ UNCHANGED saleVars
<1>1. PICK pc \in CallPC : Goes(c, pc) BY DEF RefundReverse, CallPC, AfterRefund
<1>2. call' \in [Call -> CallState] BY <1>1, GoesType
<1>3. payment' \in [Order -> {"success", "reversed"}] /\ unsaved' \in [Order -> Nat]
    BY AboutType DEF RefundReverse, AfterTypeOK
<1> QED BY <1>2, <1>3
        DEF RefundReverse, AfterTypeOK, TypeOK, CallTypes, walletVars, docVars, moneyVars, stockVars

LEMMA ReturnLoadType ==
    ASSUME AfterTypeOK, NEW c \in Call, NEW d \in Call, ReturnLoad(c, d)
    PROVE  CallTypes' /\ UNCHANGED saleVars
<1>1. PICK pc \in CallPC : call' = [call EXCEPT ![c].on = d, ![c].pc = pc]
    BY DEF ReturnLoad, CallPC
<1>2. call' \in [Call -> CallState] BY <1>1 DEF AfterTypeOK, CallState
<1> QED BY <1>2
        DEF ReturnLoad, AfterTypeOK, TypeOK, CallTypes, walletVars, docVars, moneyVars, stockVars

LEMMA ReturnSaveType ==
    ASSUME AfterTypeOK, NEW c \in Call, ReturnSave(c)
    PROVE  CallTypes' /\ UNCHANGED saleVars
<1>1. PICK pc \in CallPC : Goes(c, pc) BY DEF ReturnSave, CallPC
<1>2. call' \in [Call -> CallState] BY <1>1, GoesType
<1>3. PICK s \in ReturnStatus : returned' = [returned EXCEPT ![call[c].on] = s]
    BY DEF ReturnSave, At, ReturnStatus
<1> QED BY <1>2, <1>3, CallParts
        DEF ReturnSave, AfterTypeOK, TypeOK, CallTypes, walletVars, docVars, moneyVars, stockVars

LEMMA ReceiveFindType ==
    ASSUME AfterTypeOK, NEW c \in Call, ReceiveFind(c)
    PROVE  CallTypes' /\ UNCHANGED saleVars
<1>1. PICK S \in SUBSET Read : call' = [call EXCEPT ![c].pc = "loop", ![c].todo = S]
    <2>1. \A e \in Scope(c) : e \in Earning
        BY EarningsOfType DEF Scope, OrderEarnings, ItemsOf
    <2>2. \A e \in Earning : [earning |-> e, net |-> doc[e].net,
                               released |-> doc[e].state = "released"] \in Read
        BY DEF AfterTypeOK, TypeOK, Doc, Read
    <2> QED BY <2>1, <2>2 DEF ReceiveFind
<1>0. "loop" \in CallPC BY DEF CallPC
<1>2. call' \in [Call -> CallState] BY <1>0, <1>1 DEF AfterTypeOK, CallState
<1> QED BY <1>2
        DEF ReceiveFind, AfterTypeOK, TypeOK, CallTypes, walletVars, docVars, moneyVars, stockVars

LEMMA ReceiveWalletType ==
    ASSUME AfterTypeOK, NEW c \in Call, NEW j \in call[c].todo, ReceiveWallet(c, j)
    PROVE  CallTypes' /\ UNCHANGED saleVars
<1>1. j \in Read BY CallParts
<1>2. pending[VendorOf[j.earning[1]]] \in Int /\ balance[VendorOf[j.earning[1]]] \in Int
    BY <1>1, ReadParts DEF AfterTypeOK, TypeOK
<1>3. call' \in [Call -> CallState]
    BY <1>1, <1>2 DEF ReceiveWallet, AfterTypeOK, CallState, CallPC
<1> QED BY <1>3
        DEF ReceiveWallet, AfterTypeOK, TypeOK, CallTypes, walletVars, docVars, moneyVars, stockVars

LEMMA ReceiveWriteType ==
    ASSUME AfterTypeOK, NEW c \in Call, NEW j \in call[c].cur, ReceiveWrite(c, j)
    PROVE  CallTypes' /\ UNCHANGED saleVars
<1>1. Goes(c, "record") BY DEF ReceiveWrite
<1>2. call' \in [Call -> CallState] BY <1>1, GoesType DEF CallPC
<1>3. j \in Read BY CallParts
<1>4. ASSUME NEW field \in [Vendor -> Int], NEW v \in Vendor,
             NEW read \in Int, NEW delta \in Int
      PROVE  SaveField(field, v, read, delta) \in [Vendor -> Int]
    BY DEF SaveField, Clamp
<1>5. pending' \in [Vendor -> Int] /\ balance' \in [Vendor -> Int]
    <2> DEFINE v == VendorOf[j.earning[1]]
               dp == IF j.released THEN 0 ELSE -j.net
               db == IF j.released THEN -j.net ELSE 0
    <2>1. dp \in Int /\ db \in Int /\ v \in Vendor
        BY <1>3, ReadParts
    <2>2. /\ pending' = SaveField(pending, v, call[c].pending, dp)
          /\ balance' = SaveField(balance, v, call[c].balance, db)
        BY DEF ReceiveWrite
    <2>3. /\ pending \in [Vendor -> Int] /\ balance \in [Vendor -> Int]
          /\ call[c].pending \in Int /\ call[c].balance \in Int
        BY CallParts DEF AfterTypeOK, TypeOK
    <2> HIDE DEF v, dp, db
    <2> QED BY <2>1, <2>2, <2>3, <1>4
<1> QED BY <1>2, <1>5
        DEF ReceiveWrite, AfterTypeOK, TypeOK, CallTypes, walletVars, docVars, moneyVars, stockVars

LEMMA ReceiveRecordType ==
    ASSUME AfterTypeOK, NEW c \in Call, NEW j \in call[c].cur, ReceiveRecord(c, j)
    PROVE  CallTypes' /\ UNCHANGED saleVars
<1>1. PICK pc \in CallPC : call' = [call EXCEPT ![c].pc = pc, ![c].cur = {}]
    BY DEF ReceiveRecord, CallPC
<1>2. call' \in [Call -> CallState] BY <1>1 DEF AfterTypeOK, CallState
<1>3. j \in Read BY CallParts
<1>4. doc' \in [Earning -> Doc]
    <2> DEFINE e == j.earning
    <2>1. e \in Earning /\ doc \in [Earning -> Doc]
        BY <1>3, ReadParts DEF AfterTypeOK, TypeOK
    <2>2. \/ doc' = doc
          \/ doc' = [doc EXCEPT ![e].net = 0]
          \/ doc' = [doc EXCEPT ![e].state = "deleted"]
        BY DEF ReceiveRecord
    <2>3. "deleted" \in {"none", "held", "released", "deleted"} /\ 0 \in Int
        OBVIOUS
    <2> HIDE DEF e
    <2> QED BY <2>1, <2>2, <2>3 DEF Doc
<1> QED BY <1>2, <1>4
        DEF ReceiveRecord, AfterTypeOK, TypeOK, CallTypes, walletVars, docVars, moneyVars, stockVars

LEMMA ReceiveLoopDoneType ==
    ASSUME AfterTypeOK, NEW c \in Call, ReceiveLoopDone(c)
    PROVE  CallTypes' /\ UNCHANGED saleVars
<1>1. PICK pc \in CallPC : Goes(c, pc) BY DEF ReceiveLoopDone, CallPC
<1>2. call' \in [Call -> CallState] BY <1>1, GoesType
<1> QED BY <1>2
        DEF ReceiveLoopDone, AfterTypeOK, TypeOK, CallTypes, walletVars, docVars, moneyVars, stockVars

LEMMA ReceiveRestoreType ==
    ASSUME AfterTypeOK, NEW c \in Call, ReceiveRestore(c)
    PROVE  CallTypes' /\ UNCHANGED saleVars
<1>1. PICK pc \in CallPC : Goes(c, pc) BY DEF ReceiveRestore, CallPC
<1>2. call' \in [Call -> CallState] BY <1>1, GoesType
<1> QED BY <1>2, AboutType
        DEF ReceiveRestore, AfterTypeOK, TypeOK, CallTypes, walletVars, docVars, moneyVars, stockVars

LEMMA CallStepType ==
    ASSUME AfterTypeOK, CallStep
    PROVE  AfterTypeOK'
<1>1. CallTypes' /\ UNCHANGED saleVars BY OpenCheckType, OpenExistingType,
  OpenFreezeType, OpenCreateType, FlagMeasurementType, DisputeLoadType,
  RefundAllFindType, RefundAllDeleteType, RefundPartReduceType, UnfreezeType,
  DisputeSaveType, RefundLoadType, RefundGatewayType, RefundReverseType,
  ReturnLoadType, ReturnSaveType, ReceiveFindType, ReceiveWalletType,
  ReceiveWriteType, ReceiveRecordType, ReceiveLoopDoneType, ReceiveRestoreType DEF
  CallStep, OpenStep, ResolveStep, RefundStep, ReturnStep
<1> QED BY <1>1, CallTypesSuffice

LEMMA PayoutType ==
    ASSUME AfterTypeOK, Payout
    PROVE  AfterTypeOK'
<1>1. TypeOK BY DEF AfterTypeOK
<1>2. OrderStep \/ ReleaseStep BY DEF Payout, PayoutStep, OrderStep
<1>3. TypeOK' BY <1>1, <1>2, OrderStepType, ReleaseStepType
<1> QED BY <1>3
        DEF AfterTypeOK, Payout, afterVars, docVars, moneyVars, stockVars

LEMMA AfterNextType == ASSUME AfterTypeOK, [AfterNext]_allVars PROVE AfterTypeOK'
<1>1. CASE UNCHANGED allVars
    BY <1>1 DEF allVars, afterVars, vars, orderVars, walletVars, docVars, moneyVars,
       stockVars, AfterTypeOK, TypeOK
<1> QED BY <1>1, CallStepType, PayoutType DEF AfterNext

\* Every variable of AfterSale keeps its type.
THEOREM AfterTypeCorrect == AfterSpec => []AfterTypeOK
<1>1. AfterInit => AfterTypeOK BY InitAfterType
<1>2. AfterTypeOK /\ [AfterNext]_allVars => AfterTypeOK' BY AfterNextType
<1> QED BY <1>1, <1>2, PTL DEF AfterSpec

-----------------------------------------------------------------------------
(* What a full refund took away is never paid.                             *)

\* No run has claimed an earning that was refunded away.
AwayInv ==
    \A e \in refundedAway :
      /\ doc[e].state = "deleted"
      /\ credited[e] = 0
      /\ \A w \in Releaser : rel[w].pc = "claimed" => rel[w].cur.earning # e

\* A call leaves the crons and the history of credits alone, only ever deletes
\* documents, and refunds away what was unreleased.
Deletes ==
    /\ UNCHANGED <<rel, rev, created, credited>>
    /\ \A e \in Earning :
         \/ doc'[e].state = doc[e].state
         \/ doc'[e].state = "deleted" /\ doc[e].state # "none"
    /\ \A e \in refundedAway' \ refundedAway :
         doc[e].state = "held" /\ doc'[e].state = "deleted"

\* Calls that touch no document at all.
LEMMA NoDocTouched ==
    ASSUME UNCHANGED <<saleVars, doc, refundedAway>>
    PROVE  Deletes
BY DEF Deletes, saleVars

LEMMA ScheduleDeletes ==
    ASSUME TypeOK, NEW S, NEW date, Schedule(S, ReleaseDate, date),
           UNCHANGED <<saleVars, refundedAway>>
    PROVE  Deletes
<1>1. \A e \in Earning : doc'[e].state = doc[e].state BY ScheduleState
<1> QED BY <1>1 DEF Deletes, saleVars

LEMMA RefundAllDeletes ==
    ASSUME AfterTypeOK, NEW c \in Call, RefundAllDelete(c)
    PROVE  Deletes
<1>1. \A e \in Scope(c) : e \in Earning
    BY EarningsOfType DEF Scope, OrderEarnings, ItemsOf
<1>2. \A e \in Earning : doc[e] \in Doc BY DEF AfterTypeOK, TypeOK
<1>3. \A e \in Earning :
         \/ doc'[e].state = doc[e].state
         \/ doc'[e].state = "deleted" /\ doc[e].state # "none"
    BY <1>2 DEF RefundAllDelete, Deletable, Doc
<1>4. \A e \in refundedAway' \ refundedAway :
         doc[e].state = "held" /\ doc'[e].state = "deleted"
    BY <1>1, <1>2 DEF RefundAllDelete, Deletable, Doc
<1> QED BY <1>3, <1>4 DEF RefundAllDelete, Deletes, saleVars

LEMMA RefundPartDeletes ==
    ASSUME AfterTypeOK, NEW c \in Call, RefundPartReduce(c)
    PROVE  Deletes
<1>1. \A e \in Earning : doc'[e].state = doc[e].state
    BY DEF RefundPartReduce, AfterTypeOK, TypeOK, Doc
<1> QED BY <1>1 DEF RefundPartReduce, Deletes, saleVars

\* markReceived read the documents it deletes or zeroes, so they exist.
ReadInv == \A c \in Call : \A j \in call[c].todo \cup call[c].cur :
             created[j.earning] # 0 /\ doc[j.earning].state # "none"

LEMMA ReceiveRecordDeletes ==
    ASSUME AfterTypeOK, ReadInv, NEW c \in Call, NEW j \in call[c].cur,
           ReceiveRecord(c, j)
    PROVE  Deletes
<1>1. j \in Read /\ j.earning \in Earning BY CallParts, ReadParts
<1>2. doc[j.earning].state # "none" BY DEF ReadInv
<1>3. \A e \in Earning :
         \/ doc'[e].state = doc[e].state
         \/ doc'[e].state = "deleted" /\ doc[e].state # "none"
    BY <1>1, <1>2 DEF ReceiveRecord, AfterTypeOK, TypeOK, Doc
<1> QED BY <1>3 DEF ReceiveRecord, Deletes, saleVars

LEMMA CallStepDeletes ==
    ASSUME AfterTypeOK, ReadInv, CallStep
    PROVE  Deletes
<1>0. TypeOK BY DEF AfterTypeOK
<1>1. ASSUME NEW c \in Call, OpenStep(c) PROVE Deletes
    <2>1. CASE OpenFreeze(c)
        BY <1>0, <2>1, ScheduleDeletes DEF OpenFreeze
    <2> QED BY <1>1, <2>1, NoDocTouched
            DEF OpenStep, OpenCheck, OpenExisting, OpenCreate, FlagMeasurement
<1>2. ASSUME NEW c \in Call, ResolveStep(c) PROVE Deletes
    <2>1. CASE Unfreeze(c)
        BY <1>0, <2>1, ScheduleDeletes DEF Unfreeze
    <2> QED BY <1>2, <2>1, NoDocTouched, RefundAllDeletes, RefundPartDeletes
            DEF ResolveStep, RefundAllFind, DisputeSave
<1>3. ASSUME NEW c \in Call, RefundStep(c) PROVE Deletes
    BY <1>3, NoDocTouched DEF RefundStep, RefundLoad, RefundGateway, RefundReverse
<1>4. ASSUME NEW c \in Call, ReturnStep(c) PROVE Deletes
    <2>1. CASE \E j \in call[c].cur : ReceiveRecord(c, j)
        BY <2>1, ReceiveRecordDeletes
    <2> QED BY <1>4, <2>1, NoDocTouched
            DEF ReturnStep, ReturnSave, ReceiveFind, ReceiveLoopDone, ReceiveRestore,
                ReceiveWallet, ReceiveWrite
<1>5. ASSUME NEW c \in Call, NEW d \in Call, DisputeLoad(c, d) \/ ReturnLoad(c, d)
      PROVE  Deletes
    BY <1>5, NoDocTouched DEF DisputeLoad, ReturnLoad
<1> QED BY <1>1, <1>2, <1>3, <1>4, <1>5 DEF CallStep

\* Whatever a call has still to do was read from documents that exist, and
\* documents do not cease to exist.
LEMMA ReadKept ==
    ASSUME AfterTypeOK, ReadInv, UNCHANGED created,
           \A e \in Earning : doc[e].state # "none" => doc'[e].state # "none",
           \A c \in Call : call'[c].todo \cup call'[c].cur
                             \subseteq call[c].todo \cup call[c].cur
    PROVE  ReadInv'
<1>1. \A c \in Call : \A j \in call[c].todo \cup call[c].cur : j.earning \in Earning
    BY CallParts, ReadParts
<1> QED BY <1>1 DEF ReadInv

LEMMA CallStepRead ==
    ASSUME AfterTypeOK, CreditInv, ReadInv, CallStep
    PROVE  ReadInv'
<1>1. /\ UNCHANGED created
      /\ \A e \in Earning : doc[e].state # "none" => doc'[e].state # "none"
    <2>1. Deletes BY CallStepDeletes
    <2> QED BY <2>1 DEF Deletes
<1>2. ASSUME NEW c \in Call, ReceiveFind(c) PROVE ReadInv'
    <2>1. \A e \in Scope(c) : e \in Earning
        BY EarningsOfType DEF Scope, OrderEarnings, ItemsOf
    <2>2. /\ \A j \in call'[c].todo : /\ created[j.earning] # 0
                                      /\ doc[j.earning].state # "none"
          /\ call'[c].cur = call[c].cur
          /\ \A d \in Call : d # c => call'[d] = call[d]
        BY <1>2, <2>1 DEF ReceiveFind, CreditInv, AfterTypeOK, CallState
    <2>3. UNCHANGED doc BY <1>2 DEF ReceiveFind
    <2> QED BY <1>1, <2>2, <2>3 DEF ReadInv
<1>3. ASSUME NEW c \in Call, OpenStep(c) \/ ResolveStep(c) \/ RefundStep(c)
      PROVE  \A d \in Call : call'[d].todo = call[d].todo /\ call'[d].cur = call[d].cur
    <2>1. CASE OpenStep(c)
        BY <2>1, GoesFrame DEF OpenStep, OpenCheck, OpenExisting, OpenFreeze, OpenCreate,
           FlagMeasurement
    <2>2. CASE RefundAllFind(c)
        BY <2>2 DEF RefundAllFind, AfterTypeOK, CallState
    <2>3. CASE ResolveStep(c) /\ ~RefundAllFind(c)
        BY <2>3, GoesFrame DEF ResolveStep, RefundAllDelete, RefundPartReduce,
           Unfreeze, DisputeSave
    <2>4. CASE RefundStep(c)
        BY <2>4, GoesFrame DEF RefundStep, RefundLoad, RefundGateway, RefundReverse
    <2> QED BY <1>3, <2>1, <2>2, <2>3, <2>4
<1>4. ASSUME NEW c \in Call, NEW d \in Call, DisputeLoad(c, d) \/ ReturnLoad(c, d)
      PROVE  \A x \in Call : call'[x].todo = call[x].todo /\ call'[x].cur = call[x].cur
    BY <1>4 DEF DisputeLoad, ReturnLoad, AfterTypeOK, CallState
<1>5. ASSUME NEW c \in Call,
             \/ ReturnSave(c) \/ ReceiveLoopDone(c) \/ ReceiveRestore(c)
             \/ \E j \in call[c].cur : ReceiveWrite(c, j)
      PROVE  \A x \in Call : call'[x].todo = call[x].todo /\ call'[x].cur = call[x].cur
    BY <1>5, GoesFrame DEF ReturnSave, ReceiveLoopDone, ReceiveRestore, ReceiveWrite
<1>6. ASSUME NEW c \in Call, NEW j \in call[c].todo, ReceiveWallet(c, j)
      PROVE  \A x \in Call : call'[x].todo \cup call'[x].cur
                               \subseteq call[x].todo \cup call[x].cur
    <2>1. /\ call'[c].todo = call[c].todo \ {j} /\ call'[c].cur = {j}
          /\ \A x \in Call : x # c => call'[x] = call[x]
        BY <1>6 DEF ReceiveWallet, AfterTypeOK, CallState
    <2> QED BY <2>1
<1>7. ASSUME NEW c \in Call, NEW j \in call[c].cur, ReceiveRecord(c, j)
      PROVE  \A x \in Call : call'[x].todo \cup call'[x].cur
                               \subseteq call[x].todo \cup call[x].cur
    <2>1. /\ call'[c].todo = call[c].todo /\ call'[c].cur = {}
          /\ \A x \in Call : x # c => call'[x] = call[x]
        BY <1>7 DEF ReceiveRecord, AfterTypeOK, CallState
    <2> QED BY <2>1
<1> QED BY <1>1, <1>2, <1>3, <1>4, <1>5, <1>6, <1>7, ReadKept DEF CallStep, ReturnStep

LEMMA CallStepCredit ==
    ASSUME AfterTypeOK, CreditInv, AwayInv, Deletes, refundedAway' \subseteq Earning
    PROVE  CreditInv' /\ AwayInv'
<1>1. \A w \in Releaser : rel[w].pc = "claimed" => rel[w].cur.earning \in Earning
    BY RelCur DEF AfterTypeOK
<1>2. \A r \in Reverser : \A j \in rev[r].todo : j.earning \in Earning
    BY LocalStates DEF AfterTypeOK, Job
<1>3. CreditInv' BY <1>1, <1>2 DEF CreditInv, Deletes
<1>4. ASSUME NEW e \in refundedAway'
      PROVE  /\ doc'[e].state = "deleted"
             /\ credited'[e] = 0
             /\ \A w \in Releaser : rel'[w].pc = "claimed" => rel'[w].cur.earning # e
    <2>1. e \in Earning BY <1>4
    <2>2. CASE e \in refundedAway
        BY <2>1, <2>2 DEF AwayInv, Deletes
    <2>3. CASE e \notin refundedAway
        <3>1. doc[e].state = "held" /\ doc'[e].state = "deleted"
            BY <1>4, <2>3 DEF Deletes
        <3> QED BY <2>1, <3>1 DEF CreditInv, Deletes, AfterTypeOK, TypeOK
    <2> QED BY <2>2, <2>3
<1> QED BY <1>3, <1>4 DEF AwayInv

\* A release run claims only what is unreleased, and brings back to unreleased
\* only what it had claimed.
LEMMA ReleaseStepAway ==
    ASSUME AfterTypeOK, AwayInv, ReleaseStep, UNCHANGED refundedAway
    PROVE  AwayInv'
<1>0. TypeOK /\ refundedAway \subseteq Earning BY DEF AfterTypeOK
<1>1. ASSUME NEW w \in Releaser, ReleaseFind(w) \/ ReleaseDone(w) PROVE AwayInv'
    BY <1>0, <1>1 DEF ReleaseFind, ReleaseDone, Idle, AwayInv, TypeOK
<1>2. ASSUME NEW w \in Releaser, NEW j \in rel[w].todo, ReleaseClaim(w, j) PROVE AwayInv'
    <2>1. j \in Job /\ j.earning \in Earning
        BY <1>0, LocalStates, JobParts
    <2>2. CASE j.net # 0 /\ Unreleased(j.earning)
        <3>1. /\ doc' = [doc EXCEPT ![j.earning].state = "released"]
              /\ rel' = [rel EXCEPT ![w] = [pc |-> "claimed", todo |-> rel[w].todo \ {j},
                                            cur |-> j]]
              /\ UNCHANGED credited
            BY <1>2, <2>2 DEF ReleaseClaim
        <3>2. j.earning \notin refundedAway BY <2>2 DEF Unreleased, AwayInv
        <3> QED BY <1>0, <2>1, <3>1, <3>2 DEF AwayInv, TypeOK, Doc
    <2>3. CASE ~(j.net # 0 /\ Unreleased(j.earning))
        <3>1. /\ rel' = [rel EXCEPT ![w].todo = rel[w].todo \ {j}]
              /\ UNCHANGED <<doc, credited>>
            BY <1>2, <2>3 DEF ReleaseClaim
        <3>2. \A x \in Releaser : rel'[x].pc = "claimed" => rel'[x] = rel[x]
            <4>1. rel[w].pc = "loop" BY <1>2 DEF ReleaseClaim
            <4>2. rel[w] \in [pc: {"loop"}, todo: SUBSET Job]
                BY <1>0, <4>1, LocalStates
            <4>3. rel'[w].pc = "loop" BY <1>0, <3>1, <4>2 DEF TypeOK
            <4> QED BY <1>0, <3>1, <4>3 DEF TypeOK
        <3> QED BY <3>1, <3>2 DEF AwayInv
    <2> QED BY <2>2, <2>3
<1>3. ASSUME NEW w \in Releaser, ReleaseCredit(w) \/ ReleaseCreditError(w) PROVE AwayInv'
    <2>1. /\ rel[w].pc = "claimed" /\ rel[w].cur.earning \in Earning
          /\ rel[w].cur.earning \notin refundedAway
        BY <1>0, <1>3, RelCur DEF ReleaseCredit, ReleaseCreditError, AwayInv
    <2>2. /\ rel' = [rel EXCEPT ![w] = [pc |-> "loop", todo |-> rel[w].todo]]
          /\ \A e \in Earning : e # rel[w].cur.earning =>
                doc'[e] = doc[e] /\ credited'[e] = credited[e]
        BY <1>0, <1>3, <2>1 DEF ReleaseCredit, ReleaseCreditError, Credit, RevertClaim, LeaveClaimed, TypeOK
    <2> QED BY <1>0, <2>1, <2>2 DEF AwayInv, TypeOK
<1> QED BY <1>1, <1>2, <1>3 DEF ReleaseStep

LEMMA PayoutCredit ==
    ASSUME "lostReply" \notin Faults, AfterTypeOK, CreditInv, ReadInv, AwayInv, Payout
    PROVE  CreditInv' /\ ReadInv' /\ AwayInv'
<1>0. TypeOK BY DEF AfterTypeOK
<1>1. UNCHANGED <<refundedAway, call>> /\ (OrderStep \/ ReleaseStep)
    BY DEF Payout, PayoutStep, OrderStep, afterVars
<1>2. CreditInv' BY <1>0, <1>1, OrderStepCredit, ReleaseStepCredit
<1>3. AwayInv'
    <2>1. CASE ReleaseStep BY <1>1, <2>1, ReleaseStepAway
    <2>2. CASE PayoutStep /\ ~ReleaseStep
        <3>1. \A e \in Earning : doc'[e].state = doc[e].state
            <4>1. CASE \E o \in Order : ConfirmSatisfaction(o)
                BY <1>0, <4>1, ScheduleState DEF ConfirmSatisfaction
            <4>2. CASE \E e \in Earning : Elapse(e) \/ AutoReleaseStuck(e)
                BY <1>0, <4>2 DEF Elapse, AutoReleaseStuck, TypeOK, Doc
            <4> QED BY <2>2, <4>1, <4>2 DEF PayoutStep
        <3>2. UNCHANGED <<rel, credited>>
            BY <2>2 DEF PayoutStep, ConfirmSatisfaction, Elapse, AutoReleaseStuck,
               unchangedCalls
        <3> QED BY <1>1, <3>1, <3>2 DEF AwayInv, AfterTypeOK
    <2> QED BY <2>1, <2>2 DEF Payout
<1>4. ReadInv'
    <2>1. UNCHANGED created
        BY <1>1 DEF OrderStep, Pay, Transit, ConfirmShipment, Dispatch, Deliver,
           ConfirmSatisfaction, Elapse, AutoReleaseStuck, unchangedCalls, ReleaseStep,
           ReleaseFind, ReleaseClaim, ReleaseCredit, ReleaseCreditError, ReleaseDone,
           releaseVars
    <2>2. \A e \in Earning : doc[e].state # "none" => doc'[e].state # "none"
        <3>1. CASE OrderStep
            <4>1. CASE \E o \in Order : Pay(o) \/ Transit(o) \/ \E v \in Vendor : Dispatch(o, v)
                BY <4>1 DEF Pay, Transit, Dispatch
            <4>2. CASE \E o \in Order : \/ Deliver(o) \/ ConfirmSatisfaction(o)
                                        \/ \E v \in Vendor : ConfirmShipment(o, v)
                BY <1>0, <4>2, ScheduleState
                   DEF Deliver, ConfirmSatisfaction, ConfirmShipment
            <4>3. CASE \E e \in Earning : Elapse(e) \/ AutoReleaseStuck(e)
                BY <1>0, <4>3 DEF Elapse, AutoReleaseStuck, TypeOK, Doc
            <4> QED BY <3>1, <4>1, <4>2, <4>3 DEF OrderStep
        <3>2. CASE ReleaseStep
            <4>1. ASSUME NEW w \in Releaser, NEW j \in rel[w].todo, ReleaseClaim(w, j)
                  PROVE  \A e \in Earning : doc[e].state # "none" => doc'[e].state # "none"
                <5>1. j.earning \in Earning BY <1>0, LocalStates, JobParts
                <5>2. \/ doc' = [doc EXCEPT ![j.earning].state = "released"]
                      \/ UNCHANGED doc
                    BY <4>1 DEF ReleaseClaim
                <5> QED BY <1>0, <5>1, <5>2 DEF TypeOK, Doc
            <4>2. ASSUME NEW w \in Releaser, ReleaseCreditError(w)
                  PROVE  \A e \in Earning : doc[e].state # "none" => doc'[e].state # "none"
                <5>1. rel[w].cur.earning \in Earning
                    BY <1>0, <4>2, RelCur DEF ReleaseCreditError
                <5>2. \/ doc' = [doc EXCEPT ![rel[w].cur.earning].state = "held"]
                      \/ UNCHANGED doc
                    BY <4>2 DEF ReleaseCreditError, RevertClaim, LeaveClaimed
                <5> QED BY <1>0, <5>1, <5>2 DEF TypeOK, Doc
            <4>3. ASSUME NEW w \in Releaser,
                         ReleaseFind(w) \/ ReleaseCredit(w) \/ ReleaseDone(w)
                  PROVE  UNCHANGED doc
                BY <4>3 DEF ReleaseFind, ReleaseCredit, ReleaseDone
            <4> QED BY <3>2, <4>1, <4>2, <4>3 DEF ReleaseStep
        <3> QED BY <1>1, <3>1, <3>2
    <2> QED BY <1>1, <2>1, <2>2, ReadKept
<1> QED BY <1>2, <1>3, <1>4

\* Every call starts without anything read.
LEMMA InitCalls ==
    ASSUME AfterInit
    PROVE  \A c \in Call : /\ call[c].todo = {} /\ call[c].cur = {}
                          /\ call[c].pc \in {"ready", "absent"}
<1>1. PICK M \in Mix :
        call = [c \in Call |-> NewCall(c, IF c \in M THEN "ready" ELSE "absent")]
    BY DEF AfterInit
<1>2. ASSUME NEW c \in Call
      PROVE  /\ call[c].todo = {} /\ call[c].cur = {}
             /\ call[c].pc \in {"ready", "absent"}
    <2>0. \A pc : /\ NewCall(c, pc).todo = {} /\ NewCall(c, pc).cur = {}
                  /\ NewCall(c, pc).pc = pc
        BY DEF NewCall
    <2>1. call[c] = NewCall(c, IF c \in M THEN "ready" ELSE "absent") BY <1>1
    <2>2. CASE c \in M BY <2>0, <2>1, <2>2
    <2>3. CASE c \notin M BY <2>0, <2>1, <2>3
    <2> QED BY <2>2, <2>3
<1> QED BY <1>2

LEMMA AfterInitCredit == ASSUME AfterInit PROVE CreditInv /\ ReadInv /\ AwayInv
<1>1. \A e \in Earning : created[e] = 0 => doc[e].state = "none"
    <2>1. \A e \in Earning : e[1] \in Item BY DEF Earning
    <2> QED BY <2>1 DEF AfterInit, NoDoc
<1>2. \A c \in Call : call[c].todo = {} /\ call[c].cur = {}
    BY InitCalls
<1>3. ReadInv BY <1>2 DEF ReadInv
<1>4. /\ \A e \in Earning : credited[e] = 0
      /\ refundedAway = {}
      /\ \A r \in Reverser : rev[r].todo = {} /\ rev[r].pc = "idle"
      /\ \A w \in Releaser : rel[w].pc = "idle"
    BY DEF AfterInit, Idle
<1> QED BY <1>1, <1>3, <1>4 DEF CreditInv, AwayInv

CreditIInv == CreditInv /\ ReadInv /\ AwayInv

LEMMA AfterNextCredit ==
    ASSUME "lostReply" \notin Faults, AfterTypeOK, AfterTypeOK', CreditIInv,
           [AfterNext]_allVars
    PROVE  CreditIInv'
<1> USE DEF CreditIInv
<1>1. CASE UNCHANGED allVars
    BY <1>1 DEF allVars, afterVars, vars, CreditInv, ReadInv, AwayInv
<1>2. CASE CallStep
    <2>1. Deletes BY <1>2, CallStepDeletes
    <2>2. refundedAway' \subseteq Earning BY DEF AfterTypeOK
    <2> QED BY <1>2, <2>1, <2>2, CallStepCredit, CallStepRead
<1>3. CASE Payout BY <1>3, PayoutCredit
<1> QED BY <1>1, <1>2, <1>3 DEF AfterNext

\* Unless the reply of an applied credit is lost, an earning that a full refund
\* took away is never paid, however the admins' decisions interleave with the
\* release runs (resolveDispute's deleteMany against releaseFunds' claim).
THEOREM RefundsAreFinal ==
    ASSUME "lostReply" \notin Faults
    PROVE  AfterSpec => []RefundedNeverPaid
<1>1. AfterInit => CreditIInv BY AfterInitCredit DEF CreditIInv
<1>2. AfterTypeOK /\ AfterTypeOK' /\ CreditIInv /\ [AfterNext]_allVars => CreditIInv'
    BY AfterNextCredit
<1>3. CreditIInv => RefundedNeverPaid BY DEF CreditIInv, AwayInv, RefundedNeverPaid
<1>4. AfterSpec => []AfterTypeOK BY AfterTypeCorrect
<1> QED BY <1>1, <1>2, <1>3, <1>4, PTL DEF AfterSpec

\* The same for the promise of Earnings: disputes and returns do not make the
\* release cron pay an earning twice.
THEOREM ReleasesOnceAfterSale ==
    ASSUME "lostReply" \notin Faults
    PROVE  AfterSpec => []ReleasedOnce
<1>1. AfterInit => CreditIInv BY AfterInitCredit DEF CreditIInv
<1>2. AfterTypeOK /\ AfterTypeOK' /\ CreditIInv /\ [AfterNext]_allVars => CreditIInv'
    BY AfterNextCredit
<1>3. CreditIInv => ReleasedOnce BY DEF CreditIInv, CreditInv, ReleasedOnce
<1>4. AfterSpec => []AfterTypeOK BY AfterTypeCorrect
<1> QED BY <1>1, <1>2, <1>3, <1>4, PTL DEF AfterSpec

-----------------------------------------------------------------------------
(* Refunds that do not overlap are made once.                              *)

Refunding == {"gateway", "reverse"}

\* At most one call is refunding; but for the refunds the payment cannot show,
\* nothing was refunded before the gateway answers, and after one refund the
\* payment is reversed or is about to be.
RefundedFairly(o) ==
    /\ \A c, d \in Call :
           (/\ OrderOfCall(c) = o /\ call[c].pc \in Refunding
            /\ OrderOfCall(d) = o /\ call[d].pc \in Refunding) => c = d
    /\ refunds[o] <= 1 + unsaved[o]
    /\ refunds[o] > unsaved[o] =>
         \/ payment[o] = "reversed"
         \/ \E c \in Call : OrderOfCall(c) = o /\ call[c].pc = "reverse"
    /\ \A c \in Call : OrderOfCall(c) = o /\ call[c].pc = "gateway"
                          => refunds[o] <= unsaved[o]

\* So it is with every order whose refunds never overlapped.
RefundInv == \A o \in Order \ raced : RefundedFairly(o)

\* Steps that move no money and leave who is refunding alone.
LEMMA NotRefunding ==
    ASSUME RefundInv, UNCHANGED moneyVars,
           \A c \in Call : \/ call'[c].pc = call[c].pc
                           \/ call'[c].pc \notin Refunding /\ call[c].pc \notin Refunding
    PROVE  RefundInv'
BY DEF RefundInv, RefundedFairly, moneyVars, Refunding

LEMMA RefundLoadInv ==
    ASSUME AfterTypeOK, RefundInv, NEW c \in Call, RefundLoad(c)
    PROVE  RefundInv'
<1> DEFINE o == OrderOfCall(c)
<1>0. o \in Order BY AboutType
<1>1. /\ call[c].pc = "refund"
      /\ UNCHANGED <<payment, refunds, unsaved>>
      /\ \A d \in Call : d # c => call'[d] = call[d]
    BY DEF RefundLoad, At, Goes, AfterTypeOK
<1>2. CASE ~Refundable(o)
    <2>1. call'[c].pc \notin Refunding /\ raced' = raced
        BY <1>2 DEF RefundLoad, Goes, AfterRefund, Refunding, AfterTypeOK, CallState
    <2> QED BY <1>1, <2>1, NotRefunding DEF moneyVars, Refunding
<1>3. CASE Refundable(o)
    <2>1. call'[c].pc = "gateway"
        BY <1>3 DEF RefundLoad, Goes, AfterTypeOK, CallState
    <2>2. ASSUME NEW p \in Order, p \notin raced' PROVE RefundedFairly(p)'
        <3>1. p \notin raced BY <2>2 DEF RefundLoad
        <3>2. RefundedFairly(p) BY <3>1 DEF RefundInv
        <3>3. CASE p = o
            <4>1. \A d \in Call \ {c} : ~(OrderOfCall(d) = o /\ call[d].pc \in Refunding)
                BY <1>3, <2>2, <3>3 DEF RefundLoad, Refunding
            <4>2. \A d \in Call : OrderOfCall(d) = o => call[d].pc # "reverse"
                BY <1>1, <4>1 DEF Refunding
            <4>3. refunds[o] <= unsaved[o]
                BY <1>0, <1>3, <3>2, <3>3, <4>2 DEF RefundedFairly, Refundable, AfterTypeOK
            <4> QED BY <1>0, <1>1, <2>1, <3>2, <3>3, <4>1, <4>3 DEF RefundedFairly, Refunding
        <3>4. CASE p # o
            BY <1>1, <2>1, <3>2, <3>4 DEF RefundedFairly, Refunding
        <3> QED BY <3>3, <3>4
    <2> QED BY <2>2 DEF RefundInv
<1> QED BY <1>2, <1>3

\* A refund ends: nothing is left of it but what the payment or unsaved shows.
LEMMA RefundEnds ==
    ASSUME AfterTypeOK, RefundInv, NEW c \in Call, NEW o \in Order,
           OrderOfCall(c) = o, call[c].pc \in Refunding, call'[c].pc \notin Refunding,
           \A d \in Call : d # c => call'[d] = call[d],
           UNCHANGED raced,
           \A p \in Order : p # o => /\ refunds'[p] = refunds[p]
                                    /\ unsaved'[p] = unsaved[p]
                                    /\ payment'[p] = payment[p],
           refunds'[o] \in Nat, unsaved'[o] \in Nat,
           o \notin raced => \/ refunds'[o] <= unsaved'[o]
                             \/ refunds'[o] <= 1 + unsaved'[o] /\ payment'[o] = "reversed"
    PROVE  RefundInv'
<1> SUFFICES ASSUME NEW p \in Order, p \notin raced PROVE RefundedFairly(p)'
    BY DEF RefundInv
<1>1. RefundedFairly(p) BY DEF RefundInv
<1>2. \A a \in Call : call'[a].pc \in Refunding => a # c /\ call'[a] = call[a]
    OBVIOUS
<1>3. \A a, d \in Call :
          (/\ OrderOfCall(a) = p /\ call'[a].pc \in Refunding
           /\ OrderOfCall(d) = p /\ call'[d].pc \in Refunding) => a = d
    BY <1>1, <1>2 DEF RefundedFairly
<1>4. CASE p = o
    <2>1. \A a \in Call : OrderOfCall(a) = p => call'[a].pc \notin Refunding
        BY <1>1, <1>2, <1>4 DEF RefundedFairly
    <2>2. refunds'[p] <= 1 + unsaved'[p]
        BY <1>4
    <2>3. refunds'[p] > unsaved'[p] => payment'[p] = "reversed"
        BY <1>4
    <2> QED BY <1>3, <2>1, <2>2, <2>3 DEF RefundedFairly, Refunding
<1>5. CASE p # o
    <2>1. \A a \in Call : OrderOfCall(a) = p => call'[a] = call[a]
        BY <1>5
    <2> QED BY <1>1, <1>3, <1>5, <2>1 DEF RefundedFairly
<1> QED BY <1>4, <1>5

LEMMA RefundGatewayInv ==
    ASSUME AfterTypeOK, RefundInv, NEW c \in Call, RefundGateway(c)
    PROVE  RefundInv'
<1>0. PICK o \in Order : OrderOfCall(c) = o BY AboutType
<1>1. /\ call[c].pc = "gateway" /\ UNCHANGED <<payment, raced>>
      /\ \A d \in Call : d # c => call'[d] = call[d]
    BY DEF RefundGateway, Goes, AfterTypeOK
<1>2. o \notin raced => RefundedFairly(o) /\ refunds[o] <= unsaved[o]
    BY <1>0, <1>1 DEF RefundInv, RefundedFairly
<1>3. /\ refunds[o] \in Nat /\ unsaved[o] \in Nat
      /\ \A p \in Order : p # o => refunds'[p] = refunds[p] /\ unsaved'[p] = unsaved[p]
    BY <1>0 DEF RefundGateway, AfterTypeOK
<1>4. CASE /\ refunds' = [refunds EXCEPT ![o] = @ + 1] /\ UNCHANGED unsaved
           /\ Goes(c, "reverse")
    <2>1. call'[c].pc = "reverse" BY <1>4 DEF Goes, AfterTypeOK, CallState
    <2>2. refunds'[o] = refunds[o] + 1 BY <1>0, <1>4 DEF AfterTypeOK
    <2>3. ASSUME NEW p \in Order, p \notin raced PROVE RefundedFairly(p)'
        <3>1. RefundedFairly(p) BY <2>3 DEF RefundInv
        <3>2. CASE p = o
            BY <1>0, <1>1, <1>2, <1>3, <1>4, <2>1, <2>2, <2>3, <3>1, <3>2
               DEF RefundedFairly, Refunding
        <3>3. CASE p # o
            BY <1>1, <1>3, <1>4, <2>1, <3>1, <3>3 DEF RefundedFairly, Refunding
        <3> QED BY <3>2, <3>3
    <2> QED BY <1>1, <2>3 DEF RefundInv
<1>5. CASE Goes(c, AfterRefund(c))
    <2>1. call'[c].pc \notin Refunding
        BY <1>5 DEF Goes, AfterRefund, Refunding, AfterTypeOK, CallState
    <2>2. refunds'[o] - refunds[o] = unsaved'[o] - unsaved[o] /\ refunds'[o] \in Nat
          /\ unsaved'[o] \in Nat
        <3>1. \/ UNCHANGED <<refunds, unsaved>>
              \/ /\ refunds' = [refunds EXCEPT ![o] = @ + 1]
                 /\ unsaved' = [unsaved EXCEPT ![o] = @ + 1]
            <4>1. Goes(c, "reverse") => call'[c].pc = "reverse"
                BY DEF Goes, AfterTypeOK, CallState
            <4> QED BY <1>0, <2>1, <4>1 DEF RefundGateway, Refunding
        <3> QED BY <1>0, <1>3, <3>1 DEF AfterTypeOK
    <2>3. o \notin raced => refunds'[o] <= unsaved'[o] BY <1>2, <1>3, <2>2
    <2>4. call[c].pc \in Refunding BY <1>1 DEF Refunding
    <2>6. \A p \in Order : p # o => payment'[p] = payment[p] BY <1>1
    <2> QED BY <1>0, <1>1, <1>3, <2>1, <2>2, <2>3, <2>4, <2>6, RefundEnds
<1> QED BY <1>0, <1>4, <1>5 DEF RefundGateway

LEMMA RefundReverseInv ==
    ASSUME AfterTypeOK, RefundInv, NEW c \in Call, RefundReverse(c)
    PROVE  RefundInv'
<1>0. PICK o \in Order : OrderOfCall(c) = o BY AboutType
<1>1. /\ call[c].pc = "reverse" /\ UNCHANGED <<refunds, raced>>
      /\ \A d \in Call : d # c => call'[d] = call[d]
      /\ call'[c].pc \notin Refunding
    BY DEF RefundReverse, Goes, AfterRefund, Refunding, AfterTypeOK, CallState
<1>2. /\ refunds[o] \in Nat /\ unsaved[o] \in Nat
      /\ o \notin raced => refunds[o] <= 1 + unsaved[o]
    BY <1>0 DEF RefundInv, RefundedFairly, AfterTypeOK
<1>3. \/ payment'[o] = "reversed" /\ unsaved'[o] = unsaved[o]
      \/ unsaved'[o] = unsaved[o] + 1
    BY <1>0 DEF RefundReverse, AfterTypeOK
<1>9. refunds'[o] = refunds[o] BY <1>1
<1>4. \A p \in Order : p # o => unsaved'[p] = unsaved[p] /\ payment'[p] = payment[p]
    BY <1>0 DEF RefundReverse, AfterTypeOK
<1>5. unsaved'[o] \in Nat BY <1>2, <1>3
<1>6. o \notin raced => \/ refunds'[o] <= unsaved'[o]
                        \/ refunds'[o] <= 1 + unsaved'[o] /\ payment'[o] = "reversed"
    BY <1>2, <1>3, <1>9
<1>7. call[c].pc \in Refunding BY <1>1 DEF Refunding
<1> QED BY <1>0, <1>1, <1>2, <1>4, <1>5, <1>6, <1>7, RefundEnds

LEMMA CallStepRefund ==
    ASSUME AfterTypeOK, RefundInv, CallStep
    PROVE  RefundInv'
<1> USE DEF Refunding
<1>1. ASSUME NEW c \in Call, OpenStep(c) PROVE RefundInv'
    <2>1. /\ UNCHANGED moneyVars
          /\ \A d \in Call : d # c => call'[d] = call[d]
          /\ call'[c].pc \notin Refunding /\ call[c].pc \notin Refunding
        BY <1>1 DEF OpenStep, OpenCheck, OpenExisting, OpenFreeze, OpenCreate,
           FlagMeasurement, At, Goes, AfterTypeOK, CallState
    <2> QED BY <2>1, NotRefunding
<1>2. ASSUME NEW c \in Call, ResolveStep(c) PROVE RefundInv'
    <2>1. /\ UNCHANGED moneyVars
          /\ \A d \in Call : d # c => call'[d] = call[d]
          /\ call'[c].pc \notin Refunding /\ call[c].pc \notin Refunding
        BY <1>2 DEF ResolveStep, RefundAllFind, RefundAllDelete, RefundPartReduce,
           Unfreeze, DisputeSave, At, Goes, AfterTypeOK, CallState
    <2> QED BY <2>1, NotRefunding
<1>3. ASSUME NEW c \in Call, ReturnStep(c) PROVE RefundInv'
    <2>1. /\ UNCHANGED moneyVars
          /\ call[c].pc \notin Refunding
        BY <1>3 DEF ReturnStep, ReturnSave, ReceiveFind, ReceiveLoopDone, ReceiveRestore,
           ReceiveWallet, ReceiveWrite, ReceiveRecord, At
    <2>2. /\ \A d \in Call : d # c => call'[d] = call[d]
          /\ call'[c].pc \notin Refunding
        <3>1. CASE \/ ReturnSave(c) \/ ReceiveLoopDone(c) \/ ReceiveRestore(c)
                   \/ \E j \in call[c].cur : ReceiveWrite(c, j)
            BY <3>1, GoesFrame DEF ReturnSave, ReceiveLoopDone, ReceiveRestore, ReceiveWrite
        <3>2. CASE ReceiveFind(c)
            BY <3>2 DEF ReceiveFind, AfterTypeOK, CallState
        <3>3. CASE \E j \in call[c].todo : ReceiveWallet(c, j)
            BY <3>3 DEF ReceiveWallet, AfterTypeOK, CallState
        <3>4. CASE \E j \in call[c].cur : ReceiveRecord(c, j)
            BY <3>4 DEF ReceiveRecord, AfterTypeOK, CallState
        <3> QED BY <1>3, <3>1, <3>2, <3>3, <3>4 DEF ReturnStep
    <2> QED BY <2>1, <2>2, NotRefunding
<1>4. ASSUME NEW c \in Call, NEW d \in Call, DisputeLoad(c, d) \/ ReturnLoad(c, d)
      PROVE  RefundInv'
    <2>1. /\ UNCHANGED moneyVars
          /\ \A x \in Call : x # c => call'[x] = call[x]
          /\ call'[c].pc \notin Refunding /\ call[c].pc \notin Refunding
        BY <1>4 DEF DisputeLoad, ReturnLoad, First, Deciding, At, AfterTypeOK, CallState
    <2> QED BY <2>1, NotRefunding
<1>5. ASSUME NEW c \in Call, RefundStep(c) PROVE RefundInv'
    BY <1>5, RefundLoadInv, RefundGatewayInv, RefundReverseInv DEF RefundStep
<1> QED BY <1>1, <1>2, <1>3, <1>4, <1>5 DEF CallStep

\* For any number of disputes, decisions and returns, an order whose refunds never
\* overlapped is refunded at most once more than refunds of it were lost before they
\* reached the payment's record (findByOrderId and refundPaystackPayment look for a
\* successful payment; an answer received and saved leaves it reversed).
THEOREM RefundsOnce == AfterSpec => []RefundedOnceUnlessRaced
<1>1. AfterInit => RefundInv
    <2>1. ASSUME AfterInit PROVE \A c \in Call : call[c].pc \notin Refunding
        BY <2>1, InitCalls DEF Refunding
    <2>2. ASSUME AfterInit PROVE \A o \in Order : refunds[o] = 0 /\ unsaved[o] = 0
        BY <2>2 DEF AfterInit
    <2> QED BY <2>1, <2>2 DEF RefundInv, RefundedFairly, Refunding
<1>2. AfterTypeOK /\ RefundInv /\ [AfterNext]_allVars => RefundInv'
    <2>1. ASSUME UNCHANGED <<moneyVars, call>>, RefundInv PROVE RefundInv'
        BY <2>1, NotRefunding
    <2> QED BY <2>1, CallStepRefund DEF AfterNext, Payout, allVars, afterVars
<1>3. AfterTypeOK /\ RefundInv => RefundedOnceUnlessRaced
    BY DEF AfterTypeOK, RefundInv, RefundedFairly, RefundedOnceUnlessRaced
<1>4. AfterSpec => []AfterTypeOK BY AfterTypeCorrect
<1> QED BY <1>1, <1>2, <1>3, <1>4, PTL DEF AfterSpec
-----------------------------------------------------------------------------
(* Stock is put back once.                                                 *)

\* An order whose stock is still taken was not restored; one that was restored
\* has the flag down.
StockInv ==
    \A o \in Order : /\ deducted[o] => restored[o] = 0
                     /\ ~ deducted[o] => restored[o] = 1

\* The guard and the two writes of restoreInventory.
LEMMA ReceiveRestoreStock ==
    ASSUME AfterTypeOK, StockInv, NEW c \in Call, ReceiveRestore(c)
    PROVE  StockInv'
<1> DEFINE o == OrderOfCall(c)
<1>1. o \in Order BY AboutType
<1>2. /\ deducted \in [Order -> BOOLEAN] /\ restored \in [Order -> Nat]
      /\ deducted' = [deducted EXCEPT ![o] = FALSE]
      /\ restored' = IF deducted[o] THEN [restored EXCEPT ![o] = @ + 1] ELSE restored
    BY DEF AfterTypeOK, ReceiveRestore, Restorable
<1> HIDE DEF o
<1>3. \A x \in Order : x # o => deducted'[x] = deducted[x] /\ restored'[x] = restored[x]
    BY <1>2
<1>4. ~ deducted'[o] BY <1>1, <1>2
<1>5. restored'[o] = 1
    <2>1. CASE deducted[o]
        <3>1. restored[o] = 0 BY <1>1, <2>1 DEF StockInv
        <3> QED BY <1>1, <1>2, <2>1, <3>1
    <2>2. CASE ~ deducted[o]
        <3>1. restored[o] = 1 BY <1>1, <2>2 DEF StockInv
        <3> QED BY <1>2, <2>2, <3>1
    <2> QED BY <2>1, <2>2
<1>6. ASSUME NEW x \in Order, x # o
      PROVE  /\ deducted'[x] => restored'[x] = 0
             /\ ~ deducted'[x] => restored'[x] = 1
    BY <1>3, <1>6 DEF StockInv
<1> QED BY <1>4, <1>5, <1>6 DEF StockInv

\* No other step of a call touches the flag.
LEMMA CallStepStock ==
    ASSUME AfterTypeOK, StockInv, CallStep
    PROVE  StockInv'
<1>1. ASSUME UNCHANGED stockVars PROVE StockInv'
    BY <1>1 DEF stockVars, StockInv
<1>2. ASSUME NEW c \in Call, OpenStep(c) \/ ResolveStep(c) \/ RefundStep(c)
      PROVE  UNCHANGED stockVars
    BY <1>2 DEF OpenStep, OpenCheck, OpenExisting, OpenFreeze, OpenCreate,
       FlagMeasurement, ResolveStep, RefundAllFind, RefundAllDelete,
       RefundPartReduce, Unfreeze, DisputeSave, RefundStep, RefundLoad,
       RefundGateway, RefundReverse
<1>3. ASSUME NEW c \in Call, ReturnStep(c) PROVE ReceiveRestore(c) \/ UNCHANGED stockVars
    BY <1>3 DEF ReturnStep, ReturnSave, ReceiveFind, ReceiveLoopDone, ReceiveWallet,
       ReceiveWrite, ReceiveRecord
<1>4. ASSUME NEW c \in Call, NEW d \in Call, DisputeLoad(c, d) \/ ReturnLoad(c, d)
      PROVE  UNCHANGED stockVars
    BY <1>4 DEF DisputeLoad, ReturnLoad
<1> QED BY <1>1, <1>2, <1>3, <1>4, ReceiveRestoreStock DEF CallStep

\* However many vendors mark returns of an order received, one after another or
\* at once, and whatever else is decided, its stock comes back at most once
\* (restoreInventory returns early when inventory_deducted is down, and lowers
\* it in the transaction that puts the stock back).
THEOREM RestocksOnce == AfterSpec => []StockBackOnce
<1>1. AfterInit => StockInv BY DEF AfterInit, StockInv
<1>2. AfterTypeOK /\ StockInv /\ [AfterNext]_allVars => StockInv'
    <2>1. ASSUME StockInv, UNCHANGED stockVars PROVE StockInv'
        BY <2>1 DEF stockVars, StockInv
    <2> QED BY <2>1, CallStepStock DEF AfterNext, Payout, allVars, afterVars
<1>3. StockInv => StockBackOnce BY DEF StockInv, StockBackOnce
<1>4. AfterSpec => []AfterTypeOK BY AfterTypeCorrect
<1> QED BY <1>1, <1>2, <1>3, <1>4, PTL DEF AfterSpec
-----------------------------------------------------------------------------
(* LatePenalty: type correctness.                                          *)

\* The smaller of two numbers.
LEMMA MinOfTwo ==
    ASSUME NEW a \in Int, NEW b \in Int
    PROVE  /\ Min({a, b}) \in {a, b}
           /\ Min({a, b}) <= a /\ Min({a, b}) <= b
<1>1. \E x \in {a, b} : \A y \in {a, b} : x <= y
    BY SMT
<1>2. Min({a, b}) = CHOOSE x \in {a, b} : \A y \in {a, b} : x <= y
    BY DEF Min
<1> DEFINE m == CHOOSE x \in {a, b} : \A y \in {a, b} : x <= y
<1>3. m \in {a, b} /\ \A y \in {a, b} : m <= y
    BY <1>1
<1> HIDE DEF m
<1> QED BY <1>2, <1>3

\* A penalty is a whole amount of money (the percentage and its rounding in
\* checkLateFulfillments).
LEMMA AmountType ==
    ASSUME NEW s \in Shipment, NEW d \in Day
    PROVE  Amount(s, d) \in Nat
<1>1. Rate \in Nat /\ Cap \in Nat /\ Price[s] \in Nat /\ d \in Nat
    BY LateAssumption DEF Day
<1>2. d * Rate \in Nat BY <1>1
<1>3. Percent(d) \in Nat
    <2> DEFINE a == d * Rate
    <2>1. a \in Nat /\ Percent(d) = Min({a, Cap}) BY <1>2 DEF Percent
    <2> HIDE DEF a
    <2>2. a \in Int /\ Cap \in Int BY <1>1, <2>1
    <2>3. Min({a, Cap}) \in {a, Cap} BY <2>2, MinOfTwo, Zenon
    <2> QED BY <1>1, <2>1, <2>3
<1> DEFINE x == 2 * Price[s] * Percent(d) + 100
<1>4. x \in Nat BY <1>1, <1>3
<1> HIDE DEF x
<1>5. x \div 200 \in Nat BY <1>4
<1> QED BY <1>5 DEF Amount, x

LEMMA ShipmentParts ==
    ASSUME NEW s \in Shipment
    PROVE  s[1] \in Order /\ s[2] \in Vendor
BY DEF Shipment

\* What the save of a loaded wallet leaves is a balance of every vendor.
LEMMA SaveFieldType ==
    ASSUME NEW field \in [Vendor -> Int], NEW v \in Vendor, NEW read \in Int, NEW delta \in Int
    PROVE  SaveField(field, v, read, delta) \in [Vendor -> Int]
BY DEF SaveField, Clamp

\* What a run holds at each place.
LEMMA PenParts ==
    ASSUME pen \in [Run -> PenState], NEW n \in Run
    PROVE  /\ pen[n] \in PenState
           /\ pen[n].todo \subseteq Seen
           /\ pen[n].pc = "idle" => pen[n] = Idle
           /\ pen[n].pc = "loop" => pen[n] \in [pc: {"loop"}, todo: SUBSET Seen]
           /\ pen[n].pc \in Working =>
                pen[n] \in [pc: Working, todo: SUBSET Seen, p: Penalty]
BY DEF PenState, Idle, Working

\* What a run takes from an earning is part of what remains of the penalty, and
\* only a rejection, by one of the Reverser calls, loads an order with an item.
LatePart ==
    /\ \A n \in Run : pen[n].pc \in {"wallet", "write"} =>
         pen[n].p.take <= pen[n].p.remaining
    /\ \A r \in Reverser \cup Reporter :
         copy[r] # <<>> /\ copy[r].items # {} => r \in Reverser

LateInv == LateTypeOK /\ LatePart

LEMMA LateInitType == ASSUME LateInit PROVE LateInv
<1>1. doc \in [Earning -> Doc]
    <2>1. NoDoc \in Doc BY DEF NoDoc, Doc, ReleaseDate
    <2> QED BY <2>1, HeldDocType DEF LateInit
<1>2. pending \in [Vendor -> Int] BY NetOfVendorType DEF LateInit
<1>3. Idle \in RecState /\ Idle \in RelState /\ Idle \in RevState /\ Idle \in PenState
    BY DEF RecState, RelState, RevState, PenState
<1>4. TypeOK
    <2>1. /\ status \in [Order -> OrderStatus]
          /\ recorded \in [Order -> BOOLEAN] /\ paid = Order
          /\ confirmed = {} /\ dispatched = {} /\ satisfied = {} /\ rejected = {}
          /\ balance \in [Vendor -> Int]
          /\ credited \in [Earning -> Nat] /\ created \in [Earning -> Nat]
        BY DEF LateInit, OrderStatus
    <2>2. /\ rec \in [Recorder -> RecState] /\ rel \in [Releaser -> RelState]
          /\ rev \in [Reverser -> RevState]
        BY <1>3 DEF LateInit
    <2> QED BY <1>1, <1>2, <2>1, <2>2 DEF TypeOK
<1>5. 0 \in Day BY LateAssumption DEF Day
<1>6. /\ late \in [Shipment -> Day] /\ tier \in [Shipment -> Day]
      /\ amount \in [Shipment -> Nat] /\ version \in [Order -> Nat]
      /\ given \in [Shipment -> Nat] /\ rewritten = {} /\ mixed = {} /\ made \in Together
      /\ copy = [r \in Reverser \cup Reporter |-> <<>>]
    BY <1>5 DEF LateInit
<1>7. pen = [n \in Run |-> Idle] BY DEF LateInit
<1>8. LateTypeOK BY <1>3, <1>4, <1>6, <1>7 DEF LateTypeOK
<1>9. LatePart BY <1>6, <1>7 DEF LatePart, Idle
<1> QED BY <1>8, <1>9 DEF LateInv
\* A step of run n, and what it may do to the documents of the shipments.
LEMMA PenStep ==
    ASSUME LateInv, TypeOK', mixed' \subseteq Vendor, UNCHANGED <<late, version, copy, made>>,
           tier' \in [Shipment -> Day], amount' \in [Shipment -> Nat],
           given' \in [Shipment -> Nat], rewritten' \subseteq Shipment,
           NEW n \in Run, NEW q \in PenState, pen' = [pen EXCEPT ![n] = q],
           q.pc \in {"wallet", "write"} => q.p.take <= q.p.remaining
    PROVE  LateInv'
<1>1. pen' \in [Run -> PenState] BY DEF LateInv, LateTypeOK
<1>2. LateTypeOK' BY <1>1 DEF LateInv, LateTypeOK
<1>3. LatePart' BY DEF LateInv, LatePart, LateTypeOK
<1> QED BY <1>2, <1>3 DEF LateInv

LEMMA MixingType == ASSUME LateInv, Mixing PROVE mixed' \subseteq Vendor
BY DEF LateInv, LateTypeOK, Mixing

LEMMA LateFindType ==
    ASSUME LateInv, Mixing, NEW n \in Run, LateFind(n) \/ LateDone(n) \/ LateCrash(n)
    PROVE  LateInv'
<1>1. TypeOK'
    BY DEF LateInv, LateTypeOK, LateFind, LateDone, LateCrash, TypeOK, vars, orderVars,
       walletVars
<1>2. PICK q \in PenState : pen' = [pen EXCEPT ![n] = q] /\ q.pc \in {"idle", "loop"}
    <2>1. CASE LateFind(n)
        <3> DEFINE x(s) == [shipment |-> s, tier |-> tier[s], amount |-> amount[s],
                            version |-> version[s[1]]]
                   found == {s \in Shipment : status[s[1]] \in Watched /\ Overdue(s)}
                   q == [pc |-> "loop", todo |-> {x(s) : s \in found}]
        <3>1. \A s \in Shipment : x(s) \in Seen
            BY ShipmentParts DEF LateInv, LateTypeOK, Seen
        <3>2. {x(s) : s \in found} \subseteq Seen BY <3>1
        <3>3. q \in PenState BY <3>2 DEF PenState
        <3>4. pen' = [pen EXCEPT ![n] = q] BY <2>1 DEF LateFind
        <3> QED BY <3>3, <3>4
    <2>2. CASE LateDone(n) \/ LateCrash(n)
        <3>1. Idle \in PenState /\ Idle.pc = "idle" BY DEF PenState, Idle
        <3>2. pen' = [pen EXCEPT ![n] = Idle] BY <2>2 DEF LateDone, LateCrash
        <3> QED BY <3>1, <3>2
    <2> QED BY <2>1, <2>2
<1>3. /\ UNCHANGED <<late, version, copy, made>>
      /\ tier' \in [Shipment -> Day] /\ amount' \in [Shipment -> Nat]
      /\ given' \in [Shipment -> Nat] /\ rewritten' \subseteq Shipment
    BY DEF LateInv, LateTypeOK, LateFind, LateDone, LateCrash, runFrame, histVars
<1> QED BY <1>1, <1>2, <1>3, MixingType, PenStep

LEMMA LateClaimType ==
    ASSUME LateInv, Mixing, NEW n \in Run, NEW x \in pen[n].todo, LateClaim(n, x)
    PROVE  LateInv'
<1> DEFINE s == x.shipment
           d == late[s]
           total == Amount(s, d)
           rest == pen[n].todo \ {x}
           claimed == d > x.tier /\ total > x.amount /\ LowerTier(s, d)
           p == [seen |-> x, tier |-> d, amount |-> total, due |-> total - x.amount,
                 remaining |-> total - x.amount, jobs |-> {}, take |-> 0,
                 pending |-> 0, balance |-> 0]
           q == IF claimed THEN [pc |-> "save", todo |-> rest, p |-> p]
                ELSE [pc |-> "loop", todo |-> rest]
<1>0. pen \in [Run -> PenState] BY DEF LateInv, LateTypeOK
<1>1. TypeOK' /\ UNCHANGED <<late, version, copy, given, made>>
    BY DEF LateInv, LateTypeOK, LateClaim, TypeOK, vars, orderVars, walletVars, runFrame
<1>2. /\ x \in Seen /\ rest \subseteq Seen
      /\ pen[n] \in [pc: {"loop"}, todo: SUBSET Seen]
    BY <1>0, PenParts DEF LateClaim
<1>3. /\ s \in Shipment /\ d \in Day /\ x.tier \in Day /\ x.amount \in Nat /\ total \in Nat
    BY <1>2, AmountType DEF Seen, LateInv, LateTypeOK
<1>4. claimed => total - x.amount \in Nat BY <1>3
<1>5. claimed => p \in Penalty BY <1>2, <1>3, <1>4 DEF Penalty
<1>6. q \in PenState BY <1>2, <1>5 DEF PenState, Working
<1>7. pen' = [pen EXCEPT ![n] = q]
    BY <1>2 DEF LateClaim
<1>8. q.pc \in {"save", "loop"} OBVIOUS
<1>9. /\ tier' \in [Shipment -> Day] /\ amount' \in [Shipment -> Nat]
      /\ rewritten' \subseteq Shipment
    BY <1>3 DEF LateClaim, LateInv, LateTypeOK
<1>10. given' \in [Shipment -> Nat] BY <1>1 DEF LateInv, LateTypeOK
<1> HIDE DEF q
<1> QED BY <1>1, <1>6, <1>7, <1>8, <1>9, <1>10, MixingType, PenStep

LEMMA LateSaveType ==
    ASSUME LateInv, Mixing, NEW n \in Run, LateSave(n)
    PROVE  LateInv'
<1> DEFINE p == pen[n].p
           s == p.seen.shipment
           q == IF version[s[1]] = p.seen.version
                THEN [pc |-> "find", todo |-> pen[n].todo, p |-> p] ELSE Idle
<1>0. pen \in [Run -> PenState] BY DEF LateInv, LateTypeOK
<1>1. TypeOK' /\ UNCHANGED <<late, version, copy, given, made>>
    BY DEF LateInv, LateTypeOK, LateSave, TypeOK, vars, orderVars, walletVars, runFrame
<1>2. pen[n] \in [pc: Working, todo: SUBSET Seen, p: Penalty]
    BY <1>0, PenParts DEF LateSave, Working
<1>3. p \in Penalty /\ s \in Shipment /\ p.tier \in Day /\ p.amount \in Nat
    BY <1>2 DEF Penalty, Seen
<1>4. q \in PenState BY <1>2 DEF PenState, Working
<1>5. pen' = [pen EXCEPT ![n] = q]
    BY <1>2 DEF LateSave, LateGoes
<1>6. q.pc \in {"find", "idle"} BY DEF Idle
<1>7. /\ tier' \in [Shipment -> Day] /\ amount' \in [Shipment -> Nat]
      /\ rewritten' \subseteq Shipment
    BY <1>3 DEF LateSave, LateInv, LateTypeOK
<1>8. given' \in [Shipment -> Nat] BY <1>1 DEF LateInv, LateTypeOK
<1> HIDE DEF q
<1> QED BY <1>1, <1>4, <1>5, <1>6, <1>7, <1>8, MixingType, PenStep
\* The steps of a charge leave the documents of the shipments alone.
LEMMA ChargeStep ==
    ASSUME LateInv, Mixing, TypeOK', NEW n \in Run, NEW q \in PenState,
           pen' = [pen EXCEPT ![n] = q], UNCHANGED chargeFrame,
           q.pc \in {"wallet", "write"} => q.p.take <= q.p.remaining
    PROVE  LateInv'
<1>1. /\ UNCHANGED <<late, version, copy, made>>
      /\ tier' \in [Shipment -> Day] /\ amount' \in [Shipment -> Nat]
      /\ given' \in [Shipment -> Nat] /\ rewritten' \subseteq Shipment
    BY DEF LateInv, LateTypeOK, chargeFrame, runFrame, histVars
<1> QED BY <1>1, MixingType, PenStep

LEMMA LateFindHeldType ==
    ASSUME LateInv, Mixing, NEW n \in Run, LateFindHeld(n)
    PROVE  LateInv'
<1> DEFINE s == pen[n].p.seen.shipment
           held == {e \in OrderEarnings(s[1]) : VendorOf[e[1]] = s[2] /\ doc[e].state = "held"}
           jobs == {JobOf(e) : e \in held}
           q == [pen[n] EXCEPT !.pc = "take", !.p.jobs = jobs]
<1>0. pen \in [Run -> PenState] /\ TypeOK BY DEF LateInv, LateTypeOK
<1>1. pen[n] \in [pc: Working, todo: SUBSET Seen, p: Penalty]
    BY <1>0, PenParts DEF LateFindHeld, Working
<1>2. jobs \in SUBSET Job
    <2>1. OrderEarnings(s[1]) \subseteq Earning
        BY DEF OrderEarnings, EarningsOf, ItemsOf, Earning
    <2> QED BY <1>0, <2>1, JobType
<1>3. pen' = [pen EXCEPT ![n].pc = "take", ![n].p.jobs = jobs] BY DEF LateFindHeld
<1> HIDE DEF jobs
<1>4. q \in [pc: Working, todo: SUBSET Seen, p: Penalty] /\ q.pc = "take"
    BY <1>1, <1>2 DEF Penalty, Working
<1>5. pen' = [pen EXCEPT ![n] = q] BY <1>0, <1>1, <1>3
<1>6. TypeOK' /\ UNCHANGED chargeFrame
    BY <1>0 DEF LateFindHeld, TypeOK, vars, orderVars, walletVars
<1> HIDE DEF q
<1>7. q \in PenState BY <1>4 DEF PenState
<1> QED BY <1>4, <1>5, <1>6, <1>7, ChargeStep

LEMMA LateTakeType ==
    ASSUME LateInv, Mixing, NEW n \in Run, pen[n].pc = "take", NEW j \in pen[n].p.jobs,
           LateTake(n, j)
    PROVE  LateInv'
<1> DEFINE p == pen[n].p
           take == Min({p.remaining, j.net})
           gone == doc[j.earning].state = "deleted"
           q1 == [pen[n] EXCEPT !.p.jobs = @ \ {j}]
           q2 == [pen[n] EXCEPT !.pc = "refund"]
           q3 == [pen[n] EXCEPT !.pc = "wallet", !.p.jobs = @ \ {j}, !.p.take = take]
           q == IF take <= 0 THEN q1 ELSE IF gone THEN q2 ELSE q3
<1>0. pen \in [Run -> PenState] /\ TypeOK BY DEF LateInv, LateTypeOK
<1>1. pen[n] \in [pc: Working, todo: SUBSET Seen, p: Penalty]
    BY <1>0, PenParts DEF Working
<1>2. p \in Penalty /\ j \in Job /\ j.earning \in Earning /\ j.net \in Int /\ p.remaining \in Nat
    BY <1>1, JobParts DEF Penalty
<1>3. take \in Int /\ take <= p.remaining
    <2>1. p.remaining \in Int BY <1>2
    <2>2. /\ take \in {p.remaining, j.net}
          /\ take <= p.remaining
        BY <1>2, <2>1, MinOfTwo, Zenon
    <2> QED BY <1>2, <2>1, <2>2
<1>4. pen' = IF take <= 0 THEN [pen EXCEPT ![n].p.jobs = @ \ {j}]
             ELSE IF gone THEN [pen EXCEPT ![n].pc = "refund"]
             ELSE [pen EXCEPT ![n].pc = "wallet", ![n].p.jobs = @ \ {j}, ![n].p.take = take]
    BY DEF LateTake, LateGoes
<1>5. doc' \in [Earning -> Doc]
    <2> HIDE DEF take, gone
    <2>1. \/ UNCHANGED doc
          \/ doc' = [doc EXCEPT ![j.earning].net = j.net - take]
        BY DEF LateTake, take, gone
    <2> QED BY <1>0, <1>2, <1>3, <2>1 DEF TypeOK, Doc
<1> HIDE DEF take, gone
<1>6. pen' = [pen EXCEPT ![n] = q] BY <1>0, <1>1, <1>4
<1>7. q \in PenState /\ (q.pc \in {"wallet", "write"} => q.p.take <= q.p.remaining)
    <2>1. q1 \in PenState /\ q1.pc = "take"
        BY <1>1 DEF Penalty, PenState, Working
    <2>2. q2 \in PenState /\ q2.pc = "refund"
        BY <1>1 DEF PenState, Working
    <2>3. ASSUME ~ (take <= 0)
          PROVE  q3 \in PenState /\ q3.p.take <= q3.p.remaining
        <3>1. take \in Nat BY <1>3, <2>3
        <3> QED BY <1>1, <1>3, <3>1 DEF Penalty, PenState, Working
    <2> HIDE DEF q1, q2, q3
    <2> QED BY <2>1, <2>2, <2>3
<1>8. TypeOK' /\ UNCHANGED chargeFrame
    BY <1>0, <1>5 DEF LateTake, TypeOK, orderVars, walletVars
<1> HIDE DEF q
<1> QED BY <1>6, <1>7, <1>8, ChargeStep
LEMMA LateWalletType ==
    ASSUME LateInv, Mixing, NEW n \in Run, LateWallet(n)
    PROVE  LateInv'
<1> DEFINE v == pen[n].p.seen.shipment[2]
           q == [pen[n] EXCEPT !.pc = IF @ = "wallet" THEN "write" ELSE "clawWrite",
                               !.p.pending = pending[v], !.p.balance = balance[v]]
<1>0. pen \in [Run -> PenState] /\ TypeOK BY DEF LateInv, LateTypeOK
<1>1. pen[n] \in [pc: Working, todo: SUBSET Seen, p: Penalty]
    BY <1>0, PenParts DEF LateWallet, Working
<1>2. v \in Vendor BY <1>1, ShipmentParts DEF Penalty, Seen
<1>3. pending[v] \in Int /\ balance[v] \in Int BY <1>0, <1>2 DEF TypeOK
<1>4. pen' = [pen EXCEPT ![n].pc = IF @ = "wallet" THEN "write" ELSE "clawWrite",
                         ![n].p.pending = pending[v], ![n].p.balance = balance[v]]
    BY DEF LateWallet
<1> HIDE DEF v
<1>5. pen' = [pen EXCEPT ![n] = q] BY <1>0, <1>1, <1>4
<1>6. /\ q \in [pc: Working, todo: SUBSET Seen, p: Penalty]
      /\ q.p.take = pen[n].p.take /\ q.p.remaining = pen[n].p.remaining
      /\ q.pc = "write" => pen[n].pc = "wallet"
      /\ q.pc \in {"write", "clawWrite"}
    BY <1>1, <1>3 DEF Penalty, Working
<1>7. TypeOK' /\ UNCHANGED chargeFrame
    BY <1>0 DEF LateWallet, TypeOK, vars, orderVars, walletVars
<1> HIDE DEF q
<1>8. q \in PenState BY <1>6 DEF PenState
<1>9. q.pc \in {"wallet", "write"} => q.p.take <= q.p.remaining
    BY <1>6 DEF LateInv, LatePart
<1> QED BY <1>5, <1>7, <1>8, <1>9, ChargeStep

\* The wallet as a run loaded it, and the two places at which it saves it.
LEMMA LateWriteType ==
    ASSUME LateInv, Mixing, NEW n \in Run, LateWrite(n)
    PROVE  LateInv'
<1> DEFINE p == pen[n].p
           v == p.seen.shipment[2]
           q == [pen[n] EXCEPT !.pc = "take", !.p.remaining = Left(p)]
<1>0. pen \in [Run -> PenState] /\ TypeOK BY DEF LateInv, LateTypeOK
<1>1. pen[n] \in [pc: Working, todo: SUBSET Seen, p: Penalty] /\ pen[n].pc = "write"
    BY <1>0, PenParts DEF LateWrite, Working
<1>2. /\ v \in Vendor /\ p.pending \in Int /\ -p.take \in Int
      /\ p.take \in Nat /\ p.remaining \in Nat
    BY <1>1, ShipmentParts DEF Penalty, Seen
<1>3. p.take <= p.remaining BY <1>1 DEF LateInv, LatePart
<1>4. Left(p) \in Nat BY <1>2, <1>3 DEF Left
<1>5. pending' \in [Vendor -> Int]
    <2>1. pending \in [Vendor -> Int] BY <1>0 DEF TypeOK
    <2>2. pending' = SaveField(pending, v, p.pending, -p.take) BY DEF LateWrite
    <2> HIDE DEF v, p
    <2> QED BY <1>2, <2>1, <2>2, SaveFieldType
<1>6. pen' = [pen EXCEPT ![n].pc = "take", ![n].p.remaining = Left(p)] BY DEF LateWrite
<1>7. pen' = [pen EXCEPT ![n] = q] BY <1>0, <1>1, <1>6
<1>8. q \in [pc: Working, todo: SUBSET Seen, p: Penalty] /\ q.pc = "take"
    BY <1>1, <1>4 DEF Penalty, Working
<1>9. TypeOK' /\ UNCHANGED chargeFrame
    BY <1>0, <1>5 DEF LateWrite, TypeOK, orderVars
<1> HIDE DEF q
<1>10. q \in PenState BY <1>8 DEF PenState
<1> QED BY <1>7, <1>8, <1>9, <1>10, ChargeStep

LEMMA LateClawBackType ==
    ASSUME LateInv, Mixing, NEW n \in Run, LateClawBack(n) \/ LateLoopDone(n)
    PROVE  LateInv'
<1> DEFINE p == pen[n].p
           v == p.seen.shipment[2]
<1>0. pen \in [Run -> PenState] /\ TypeOK BY DEF LateInv, LateTypeOK
<1>1. pen[n] \in [pc: Working, todo: SUBSET Seen, p: Penalty]
    BY <1>0, PenParts DEF LateClawBack, LateLoopDone, Working
<1>2. /\ v \in Vendor /\ p.balance \in Int /\ -p.remaining \in Int
    BY <1>1, ShipmentParts DEF Penalty, Seen
<1>3. balance' \in [Vendor -> Int]
    <2>1. balance \in [Vendor -> Int] BY <1>0 DEF TypeOK
    <2>2. \/ balance' = SaveField(balance, v, p.balance, -p.remaining)
          \/ UNCHANGED balance
        BY DEF LateClawBack, LateLoopDone, vars, walletVars
    <2> HIDE DEF v, p
    <2> QED BY <1>2, <2>1, <2>2, SaveFieldType
<1>4. PICK pc \in {"refund", "clawRead"} : pen' = [pen EXCEPT ![n].pc = pc]
    BY DEF LateClawBack, LateLoopDone, LateGoes
<1> DEFINE q == [pen[n] EXCEPT !.pc = pc]
<1>5. pen' = [pen EXCEPT ![n] = q] BY <1>0, <1>1, <1>4
<1>6. q \in PenState /\ q.pc \notin {"wallet", "write"} BY <1>1 DEF PenState, Working
<1>7. TypeOK' /\ UNCHANGED chargeFrame
    BY <1>0, <1>3 DEF LateClawBack, LateLoopDone, TypeOK, vars, orderVars, walletVars
<1> HIDE DEF q
<1> QED BY <1>5, <1>6, <1>7, ChargeStep

LEMMA LateRefundType ==
    ASSUME LateInv, Mixing, NEW n \in Run, LateRefund(n)
    PROVE  LateInv'
<1> DEFINE s == pen[n].p.seen.shipment
           q == [pc |-> "loop", todo |-> pen[n].todo]
<1>0. pen \in [Run -> PenState] BY DEF LateInv, LateTypeOK
<1>1. pen[n] \in [pc: Working, todo: SUBSET Seen, p: Penalty]
    BY <1>0, PenParts DEF LateRefund, Working
<1>2. s \in Shipment /\ pen[n].p.due \in Nat BY <1>1 DEF Penalty, Seen
<1>3. q \in PenState /\ q.pc = "loop" BY <1>1 DEF PenState
<1>4. pen' = [pen EXCEPT ![n] = q] BY DEF LateRefund
<1>5. TypeOK' /\ UNCHANGED <<late, version, copy, made, tier, amount, rewritten>>
    BY DEF LateInv, LateTypeOK, LateRefund, TypeOK, vars, orderVars, walletVars, runFrame
<1>6. given' \in [Shipment -> Nat]
    BY <1>2 DEF LateRefund, LateInv, LateTypeOK
<1>7. /\ tier' \in [Shipment -> Day] /\ amount' \in [Shipment -> Nat]
      /\ rewritten' \subseteq Shipment
    BY <1>5 DEF LateInv, LateTypeOK
<1> HIDE DEF q
<1> QED BY <1>3, <1>4, <1>5, <1>6, <1>7, MixingType, PenStep
\* The other calls make steps of Earnings, or none.
LEMMA BesideNext == ASSUME Beside PROVE Next
BY DEF Beside, EarningsStep, Next, OrderStep, ReverseStep

LEMMA CopyParts ==
    ASSUME LateInv, NEW r \in Reverser \cup Reporter, copy[r] # <<>>
    PROVE  /\ copy[r].order \in Order /\ copy[r].items \subseteq Item
           /\ copy[r].tier \in [Shipment -> Day] /\ copy[r].amount \in [Shipment -> Nat]
           /\ copy[r].items # {} => r \in Reverser
BY DEF LateInv, LateTypeOK, LatePart

LEMMA WholeSaveNext ==
    ASSUME LateInv, NEW r \in Reporter \cup Reverser, WholeSave(r)
    PROVE  [Next]_vars
<1>1. CASE copy[r].items = {} BY <1>1 DEF WholeSave
<1>2. CASE copy[r].items # {}
    <2>1. copy[r] # <<>> BY DEF WholeSave
    <2>2. PICK i \in copy[r].items : RejectItem(r, i) BY <1>2 DEF WholeSave
    <2>3. r \in Reverser /\ i \in Item BY <1>2, <2>1, <2>2, CopyParts
    <2> QED BY <2>2, <2>3 DEF Next, ReverseStep
<1> QED BY <1>1, <1>2

LEMMA BesideType == ASSUME LateInv, Mixing, Beside PROVE LateInv'
<1>1. TypeOK' BY BesideNext, NextType DEF LateInv, LateTypeOK
<1>2. UNCHANGED <<late, tier, amount, version, pen, copy, given, rewritten, made>>
    BY DEF Beside, lateVars, copyVars, histVars
<1>3. mixed' \subseteq Vendor BY MixingType
<1> QED BY <1>1, <1>2, <1>3 DEF LateInv, LateTypeOK, LatePart

LEMMA DayPassesType ==
    ASSUME LateInv, Mixing, NEW s \in Shipment, DayPasses(s)
    PROVE  LateInv'
<1>1. TypeOK'
    BY DEF LateInv, LateTypeOK, DayPasses, TypeOK, vars, orderVars, walletVars
<1>2. UNCHANGED <<tier, amount, version, pen, copy, given, rewritten, made>>
    BY DEF DayPasses, copyVars, histVars
<1>3. late' \in [Shipment -> Day]
    BY LateAssumption DEF DayPasses, LateInv, LateTypeOK, Day
<1>4. mixed' \subseteq Vendor BY MixingType
<1> QED BY <1>1, <1>2, <1>3, <1>4 DEF LateInv, LateTypeOK, LatePart

LEMMA WholeLoadType ==
    ASSUME LateInv, Mixing, NEW r \in Reporter \cup Reverser, NEW o \in Order,
           NEW items \in SUBSET Item, items # {} => r \in Reverser, WholeLoad(r, o, items)
    PROVE  LateInv'
<1> DEFINE c == [order |-> o, items |-> items, version |-> version[o],
                 tier |-> tier, amount |-> amount]
<1>1. TypeOK' /\ UNCHANGED <<late, tier, amount, version, pen, given, rewritten, made>>
    BY DEF LateInv, LateTypeOK, WholeLoad, TypeOK, vars, orderVars, walletVars, lateVars,
       histVars
<1>2. copy' = [copy EXCEPT ![r] = c] BY DEF WholeLoad
<1>3. c \in [order: Order, items: SUBSET Item, version: Nat,
             tier: [Shipment -> Day], amount: [Shipment -> Nat]] /\ c.items = items
    BY DEF LateInv, LateTypeOK
<1>4. mixed' \subseteq Vendor BY MixingType
<1> HIDE DEF c
<1>5. LateTypeOK' BY <1>1, <1>2, <1>3, <1>4 DEF LateInv, LateTypeOK
<1>6. LatePart'
    BY <1>1, <1>2, <1>3 DEF LateInv, LatePart, LateTypeOK
<1> QED BY <1>5, <1>6 DEF LateInv

LEMMA WholeSaveType ==
    ASSUME LateInv, Mixing, NEW r \in Reporter \cup Reverser, WholeSave(r) \/ WholeRefused(r)
    PROVE  LateInv'
<1>1. TypeOK'
    <2>1. CASE WholeSave(r)
        BY <2>1, WholeSaveNext, NextType DEF LateInv, LateTypeOK
    <2>2. CASE WholeRefused(r)
        BY <2>2, NextType DEF WholeRefused, LateInv, LateTypeOK
    <2> QED BY <2>1, <2>2
<1>2. /\ UNCHANGED <<late, pen, given, made>> /\ copy' = [copy EXCEPT ![r] = <<>>]
      /\ copy[r] # <<>>
    BY DEF WholeSave, WholeRefused, lateVars, histVars
<1>3. /\ tier' \in [Shipment -> Day] /\ amount' \in [Shipment -> Nat]
      /\ version' \in [Order -> Nat] /\ rewritten' \subseteq Shipment
    <2>1. CASE WholeSave(r)
        BY <1>2, <2>1, CopyParts DEF WholeSave, LateInv, LateTypeOK
    <2>2. CASE WholeRefused(r)
        BY <2>2 DEF WholeRefused, lateVars, histVars, LateInv, LateTypeOK
    <2> QED BY <2>1, <2>2
<1>4. mixed' \subseteq Vendor BY MixingType
<1>5. LateTypeOK' BY <1>1, <1>2, <1>3, <1>4 DEF LateInv, LateTypeOK
<1>6. LatePart' BY <1>2 DEF LateInv, LatePart, LateTypeOK
<1> QED BY <1>5, <1>6 DEF LateInv

LEMMA LateStutterType == ASSUME LateInv, UNCHANGED lateAllVars PROVE LateInv'
<1>1. TypeOK' BY NextType DEF lateAllVars, LateInv, LateTypeOK
<1> QED BY <1>1 DEF lateAllVars, penaltyVars, lateVars, copyVars, histVars, LateInv,
           LateTypeOK, LatePart

LEMMA LateNextType == ASSUME LateInv, [LateNext]_lateAllVars PROVE LateInv'
<1> SUFFICES ASSUME Steps, Mixing PROVE LateInv'
    BY LateStutterType DEF LateNext, Frame
<1>1. ASSUME NEW o \in Order, NEW r \in Reporter, WholeLoad(r, o, {}) PROVE LateInv'
    <2>1. r \in Reporter \cup Reverser OBVIOUS
    <2> QED BY <1>1, <2>1, WholeLoadType
<1>2. ASSUME NEW o \in Order, NEW r \in Reverser, NEW i \in ItemsOf(o), WholeLoad(r, o, {i})
      PROVE  LateInv'
    <2>1. r \in Reporter \cup Reverser /\ {i} \in SUBSET Item BY DEF ItemsOf
    <2> QED BY <1>2, <2>1, WholeLoadType
<1>3. ASSUME NEW n \in Run, LateStep(n) PROVE LateInv'
    BY <1>3, LateSaveType, LateFindHeldType, LateWalletType, LateWriteType,
       LateClawBackType, LateRefundType, LateFindType, LateTakeType, LateClaimType
       DEF LateStep
<1> QED BY <1>1, <1>2, <1>3, BesideType, DayPassesType, WholeSaveType, LateFindType
        DEF Steps

\* The penalty cron keeps to the documents' types: a run never takes more than
\* what remains of a penalty, so that no increment is negative, whatever the
\* runs, the reports and the releases do meanwhile (checkLateFulfillments).
THEOREM LateTypeCorrect == LateSpec => []LateTypeOK
<1>1. LateInit => LateInv BY LateInitType
<1>2. LateInv /\ [LateNext]_lateAllVars => LateInv' BY LateNextType
<1>3. LateInv => LateTypeOK BY DEF LateInv
<1> QED BY <1>1, <1>2, <1>3, PTL DEF LateSpec
-----------------------------------------------------------------------------
(* LatePenalty: the customer is compensated once per tier.                 *)

\* What a shipment at tier t was penalised in all.
AmountOf(s, t) == IF t = 0 THEN 0 ELSE Amount(s, t)

SeenOk(x) == x.amount = AmountOf(x.shipment, x.tier)

RunOk(q) ==
    /\ \A x \in q.todo : SeenOk(x)
    /\ q.pc \in Working => q.p.amount = AmountOf(q.p.seen.shipment, q.p.tier)

\* Tier and amount go together: in the documents, in what the runs loaded or are
\* about to save, and in every older copy.
AmountInv ==
    /\ \A s \in Shipment : amount[s] = AmountOf(s, tier[s])
    /\ \A n \in Run : RunOk(pen[n])
    /\ \A r \in Reverser \cup Reporter : copy[r] # <<>> =>
         \A s \in Shipment : copy[r].amount[s] = AmountOf(s, copy[r].tier[s])

\* What a run at q claimed for shipment s and did not give to the customer yet.
DueOf(q, s) == IF q.pc \in Working /\ q.p.seen.shipment = s THEN q.p.due ELSE 0
InFlight(s) == [n \in Run |-> DueOf(pen[n], s)]

\* What was given and what is about to be given is covered by the document.
GivenInv ==
    \A s \in Shipment \ rewritten :
      given[s] + SumFunctionOnSet(InFlight(s), Run) <= amount[s]

LEMMA DueType ==
    ASSUME NEW q \in PenState, NEW s
    PROVE  DueOf(q, s) \in Nat /\ DueOf(q, s) \in Int
<1>1. q.pc \in Working => q.p.due \in Nat
    BY DEF PenState, Idle, Working, Penalty
<1> QED BY <1>1 DEF DueOf

LEMMA InFlightType ==
    ASSUME LateInv, NEW s
    PROVE  SumFunctionOnSet(InFlight(s), Run) \in Nat
<1>1. IsFiniteSet(Run) BY LateAssumption
<1>2. \A n \in Run : InFlight(s)[n] \in Nat
    BY DueType DEF InFlight, LateInv, LateTypeOK
<1> HIDE DEF InFlight
<1> QED BY <1>1, <1>2, SumNat

\* A step of run n keeps the books when it gives and claims no more than the
\* document gains.
LEMMA RunStep ==
    ASSUME LateInv, LateInv', AmountInv, GivenInv, NEW n \in Run,
           \A m \in Run : m # n => pen'[m] = pen[m],
           RunOk(pen'[n]), UNCHANGED copy,
           \A s \in Shipment : amount'[s] = AmountOf(s, tier'[s]),
           rewritten \subseteq rewritten',
           \A s \in Shipment \ rewritten' :
             given'[s] + DueOf(pen'[n], s) + amount[s]
               <= given[s] + DueOf(pen[n], s) + amount'[s]
    PROVE  AmountInv' /\ GivenInv'
<1>1. AmountInv' BY DEF AmountInv
<1>2. ASSUME NEW s \in Shipment, s \notin rewritten'
      PROVE  given'[s] + SumFunctionOnSet(InFlight(s)', Run) <= amount'[s]
    <2> DEFINE f == InFlight(s)
               g == InFlight(s)'
    <2>1. /\ \A m \in Run : f[m] = DueOf(pen[m], s)
          /\ \A m \in Run : g[m] = DueOf(pen'[m], s)
        BY DEF InFlight
    <2>2. \A m \in Run : f[m] \in Int /\ g[m] \in Int
        BY <2>1, DueType DEF LateInv, LateTypeOK
    <2>3. \A m \in Run : m # n => g[m] = f[m] BY <2>1
    <2>4. IsFiniteSet(Run) BY LateAssumption
    <2>5. SumFunctionOnSet(f, Run) \in Nat BY InFlightType
    <2>6. given[s] + SumFunctionOnSet(f, Run) <= amount[s] BY <1>2 DEF GivenInv
    <2>7. given'[s] + g[n] + amount[s] <= given[s] + f[n] + amount'[s] BY <1>2, <2>1
    <2>8. /\ given[s] \in Nat /\ given'[s] \in Nat /\ amount[s] \in Nat /\ amount'[s] \in Nat
        BY DEF LateInv, LateTypeOK
    <2>9. f[n] \in Int /\ g[n] \in Int BY <2>2
    <2> HIDE DEF f, g
    <2>10. SumFunctionOnSet(g, Run) = SumFunctionOnSet(f, Run) + g[n] - f[n]
        BY ONLY <2>2, <2>3, <2>4, n \in Run, SumUpdate
    <2>11. given'[s] + SumFunctionOnSet(g, Run) <= amount'[s]
        BY <2>5, <2>6, <2>7, <2>8, <2>9, <2>10
    <2> QED BY <2>11 DEF g
<1>3. GivenInv' BY <1>2 DEF GivenInv
<1> QED BY <1>1, <1>3

\* The steps of a charge keep what they charge for.
LEMMA ChargeKeeps ==
    ASSUME LateInv, NEW n \in Run,
           \/ LateFindHeld(n) \/ LateWallet(n) \/ LateWrite(n) \/ LateLoopDone(n)
           \/ LateClawBack(n)
           \/ pen[n].pc = "take" /\ \E j \in pen[n].p.jobs : LateTake(n, j)
    PROVE  /\ pen'[n].pc \in Working /\ pen[n].pc \in Working
           /\ pen'[n].todo = pen[n].todo
           /\ pen'[n].p.seen = pen[n].p.seen /\ pen'[n].p.tier = pen[n].p.tier
           /\ pen'[n].p.amount = pen[n].p.amount /\ pen'[n].p.due = pen[n].p.due
           /\ \A m \in Run : m # n => pen'[m] = pen[m]
           /\ UNCHANGED <<copy, tier, amount, given, rewritten>>
<1>0. pen \in [Run -> PenState] BY DEF LateInv, LateTypeOK
<1>1. pen[n].pc \in Working
    BY DEF LateFindHeld, LateWallet, LateWrite, LateLoopDone, LateClawBack, Working
<1>2. pen[n] \in [pc: Working, todo: SUBSET Seen, p: Penalty] BY <1>0, <1>1, PenParts
<1>3. UNCHANGED <<copy, tier, amount, given, rewritten>>
    BY DEF LateFindHeld, LateWallet, LateWrite, LateLoopDone, LateClawBack, LateTake,
       chargeFrame, runFrame, histVars
<1>4. CASE LateFindHeld(n) BY <1>0, <1>2, <1>3, <1>4 DEF LateFindHeld, Penalty, Working
<1>5. CASE LateWallet(n) BY <1>0, <1>2, <1>3, <1>5 DEF LateWallet, Penalty, Working
<1>6. CASE LateWrite(n) BY <1>0, <1>2, <1>3, <1>6 DEF LateWrite, Penalty, Working
<1>7. CASE LateLoopDone(n) \/ LateClawBack(n)
    BY <1>0, <1>2, <1>3, <1>7 DEF LateLoopDone, LateClawBack, LateGoes, Penalty, Working
<1>8. CASE pen[n].pc = "take" /\ \E j \in pen[n].p.jobs : LateTake(n, j)
    <2>1. PICK j \in pen[n].p.jobs : LateTake(n, j) BY <1>8
    <2> DEFINE t == Min({pen[n].p.remaining, j.net})
    <2>2. \/ pen' = [pen EXCEPT ![n].p.jobs = @ \ {j}]
          \/ pen' = [pen EXCEPT ![n].pc = "refund"]
          \/ pen' = [pen EXCEPT ![n].pc = "wallet", ![n].p.jobs = @ \ {j}, ![n].p.take = t]
        BY <2>1 DEF LateTake, LateGoes
    <2> HIDE DEF t
    <2>3. CASE pen' = [pen EXCEPT ![n].p.jobs = @ \ {j}]
        BY <1>0, <1>2, <1>3, <2>3 DEF Penalty, Working
    <2>4. CASE pen' = [pen EXCEPT ![n].pc = "refund"]
        BY <1>0, <1>2, <1>3, <2>4 DEF Penalty, Working
    <2>5. CASE pen' = [pen EXCEPT ![n].pc = "wallet", ![n].p.jobs = @ \ {j}, ![n].p.take = t]
        BY <1>0, <1>2, <1>3, <2>5 DEF Penalty, Working
    <2> QED BY <2>2, <2>3, <2>4, <2>5
<1> QED BY <1>4, <1>5, <1>6, <1>7, <1>8

LEMMA ChargeBooks ==
    ASSUME LateInv, LateInv', AmountInv, GivenInv, NEW n \in Run,
           \/ LateFindHeld(n) \/ LateWallet(n) \/ LateWrite(n) \/ LateLoopDone(n)
           \/ LateClawBack(n)
           \/ pen[n].pc = "take" /\ \E j \in pen[n].p.jobs : LateTake(n, j)
    PROVE  AmountInv' /\ GivenInv'
<1>1. /\ pen'[n].pc \in Working /\ pen[n].pc \in Working
      /\ pen'[n].todo = pen[n].todo
      /\ pen'[n].p.seen = pen[n].p.seen /\ pen'[n].p.tier = pen[n].p.tier
      /\ pen'[n].p.amount = pen[n].p.amount /\ pen'[n].p.due = pen[n].p.due
      /\ \A m \in Run : m # n => pen'[m] = pen[m]
      /\ UNCHANGED <<copy, tier, amount, given, rewritten>>
    BY ChargeKeeps
<1>2. RunOk(pen'[n]) BY <1>1 DEF AmountInv, RunOk
<1>3. \A s \in Shipment : amount'[s] = AmountOf(s, tier'[s]) BY <1>1 DEF AmountInv
<1>4. \A s \in Shipment \ rewritten' :
        given'[s] + DueOf(pen'[n], s) + amount[s] <= given[s] + DueOf(pen[n], s) + amount'[s]
    <2>1. \A s : DueOf(pen'[n], s) = DueOf(pen[n], s) BY <1>1 DEF DueOf
    <2>2. \A s : DueOf(pen[n], s) \in Int BY DueType DEF LateInv, LateTypeOK
    <2> QED BY <1>1, <2>1, <2>2 DEF LateInv, LateTypeOK
<1> QED BY <1>1, <1>2, <1>3, <1>4, RunStep
LEMMA ClaimBooks ==
    ASSUME LateInv, LateInv', AmountInv, GivenInv, NEW n \in Run,
           NEW x \in pen[n].todo, LateClaim(n, x)
    PROVE  AmountInv' /\ GivenInv'
<1> DEFINE s == x.shipment
           d == late[s]
           total == Amount(s, d)
           rest == pen[n].todo \ {x}
           claimed == d > x.tier /\ total > x.amount /\ LowerTier(s, d)
           p == [seen |-> x, tier |-> d, amount |-> total, due |-> total - x.amount,
                 remaining |-> total - x.amount, jobs |-> {}, take |-> 0,
                 pending |-> 0, balance |-> 0]
<1>0. pen \in [Run -> PenState] BY DEF LateInv, LateTypeOK
<1>1. UNCHANGED <<copy, given>> BY DEF LateClaim, runFrame
<1>2. /\ x \in Seen /\ pen[n] \in [pc: {"loop"}, todo: SUBSET Seen]
    BY <1>0, PenParts DEF LateClaim
<1>3. /\ s \in Shipment /\ d \in Day /\ x.tier \in Day /\ x.amount \in Nat /\ total \in Nat
    BY <1>2, AmountType DEF Seen, LateInv, LateTypeOK
<1>4. RunOk(pen[n]) /\ SeenOk(x) BY DEF AmountInv, RunOk
<1>5. /\ \A z \in Shipment : tier[z] \in Nat /\ amount[z] \in Nat /\ given[z] \in Nat
      /\ \A z \in Shipment : amount[z] = AmountOf(z, tier[z])
    BY DEF AmountInv, LateInv, LateTypeOK, Day
<1>6. \A z : DueOf(pen[n], z) = 0 BY <1>2 DEF DueOf, Working
<1>7. CASE claimed
    <2>1. /\ tier' = [tier EXCEPT ![s] = d]
          /\ amount' = [amount EXCEPT ![s] = total]
          /\ rewritten' = IF tier[s] < d /\ tier[s] # x.tier
                          THEN rewritten \cup {s} ELSE rewritten
          /\ pen' = [pen EXCEPT ![n] = [pc |-> "save", todo |-> rest, p |-> p]]
        BY <1>7 DEF LateClaim
    <2>2. /\ pen'[n] = [pc |-> "save", todo |-> rest, p |-> p]
          /\ \A m \in Run : m # n => pen'[m] = pen[m]
        BY <1>0, <2>1
    <2>3. d # 0 /\ total = AmountOf(s, d) BY <1>3, <1>7 DEF AmountOf, Day
    <2>4. RunOk(pen'[n]) BY <1>4, <2>2, <2>3 DEF RunOk
    <2>5. \A z \in Shipment : amount'[z] = AmountOf(z, tier'[z])
        <3> HIDE DEF s, d, total
        <3> QED BY <1>3, <1>5, <2>1, <2>3 DEF LateInv, LateTypeOK
    <2>6. DueOf(pen'[n], s) = total - x.amount BY <2>2 DEF DueOf, Working
    <2>7. \A z \in Shipment \ {s} : DueOf(pen'[n], z) = 0 BY <2>2 DEF DueOf
    <2>8. s \notin rewritten' => amount[s] = x.amount
        BY <1>3, <1>4, <1>5, <1>7, <2>1 DEF SeenOk, LowerTier
    <2>9. /\ amount'[s] = total
          /\ \A z \in Shipment \ {s} : amount'[z] = amount[z]
        BY <1>3, <2>1 DEF LateInv, LateTypeOK
    <2>10. \A z \in Shipment \ rewritten' :
             given'[z] + DueOf(pen'[n], z) + amount[z]
               <= given[z] + DueOf(pen[n], z) + amount'[z]
        <3>1. ASSUME NEW z \in Shipment \ rewritten'
              PROVE  given'[z] + DueOf(pen'[n], z) + amount[z]
                       <= given[z] + DueOf(pen[n], z) + amount'[z]
            <4>1. given'[z] = given[z] /\ given[z] \in Nat /\ amount[z] \in Nat
                BY <1>1, <1>5
            <4>2. CASE z = s
                <5> HIDE DEF s, total, p, rest
                <5> QED BY <1>3, <1>6, <2>6, <2>8, <2>9, <3>1, <4>1, <4>2
            <4>3. CASE z # s
                <5> HIDE DEF s, total, p, rest
                <5> QED BY <1>6, <2>7, <2>9, <3>1, <4>1, <4>3
            <4> QED BY <4>2, <4>3
        <3> QED BY <3>1
    <2>11. rewritten \subseteq rewritten' BY <2>1
    <2> QED BY <1>1, <2>2, <2>4, <2>5, <2>10, <2>11, RunStep
<1>8. CASE ~ claimed
    <2>1. /\ pen' = [pen EXCEPT ![n].todo = rest]
          /\ UNCHANGED <<tier, amount, rewritten>>
        BY <1>8 DEF LateClaim
    <2>2. /\ pen'[n].pc = "loop" /\ pen'[n].todo = rest
          /\ \A m \in Run : m # n => pen'[m] = pen[m]
        BY <1>0, <1>2, <2>1
    <2>3. RunOk(pen'[n]) BY <1>4, <2>2 DEF RunOk, Working
    <2>4. \A z : DueOf(pen'[n], z) = 0 BY <2>2 DEF DueOf, Working
    <2>5. \A z \in Shipment \ rewritten' :
            given'[z] + DueOf(pen'[n], z) + amount[z]
              <= given[z] + DueOf(pen[n], z) + amount'[z]
        <3>1. ASSUME NEW z \in Shipment
              PROVE  given'[z] + 0 + amount[z] <= given[z] + 0 + amount'[z]
            <4>1. given[z] \in Nat /\ amount[z] \in Nat BY <1>5
            <4> QED BY ONLY <1>1, <2>1, <4>1
        <3> QED BY <1>6, <2>4, <3>1
    <2> QED BY <1>1, <1>5, <2>1, <2>2, <2>3, <2>5, RunStep
<1> QED BY <1>7, <1>8

LEMMA SaveBooks ==
    ASSUME LateInv, LateInv', AmountInv, GivenInv, NEW n \in Run, LateSave(n)
    PROVE  AmountInv' /\ GivenInv'
<1> DEFINE p == pen[n].p
           s == p.seen.shipment
<1>0. pen \in [Run -> PenState] BY DEF LateInv, LateTypeOK
<1>1. UNCHANGED <<copy, given>> BY DEF LateSave, runFrame
<1>2. pen[n] \in [pc: Working, todo: SUBSET Seen, p: Penalty]
    BY <1>0, PenParts DEF LateSave, Working
<1>3. s \in Shipment /\ p.tier \in Day /\ p.amount \in Nat BY <1>2 DEF Penalty, Seen
<1>4. RunOk(pen[n]) /\ p.amount = AmountOf(s, p.tier)
    BY <1>2 DEF AmountInv, RunOk
<1>5. /\ \A z \in Shipment : amount[z] \in Nat /\ given[z] \in Nat
      /\ \A z \in Shipment : amount[z] = AmountOf(z, tier[z])
    BY DEF AmountInv, LateInv, LateTypeOK
<1>6. \A z : DueOf(pen[n], z) \in Nat BY <1>0, DueType
<1>7. CASE version[s[1]] = p.seen.version
    <2>1. /\ tier' = [tier EXCEPT ![s] = p.tier]
          /\ amount' = [amount EXCEPT ![s] = p.amount]
          /\ rewritten' = IF tier[s] # p.tier THEN rewritten \cup {s} ELSE rewritten
          /\ pen' = [pen EXCEPT ![n].pc = "find"]
        BY <1>7 DEF LateSave, LateGoes
    <2>2. /\ pen'[n].pc = "find" /\ pen'[n].todo = pen[n].todo /\ pen'[n].p = p
          /\ \A m \in Run : m # n => pen'[m] = pen[m]
        BY <1>0, <1>2, <2>1
    <2>3. RunOk(pen'[n]) BY <1>4, <2>2 DEF RunOk
    <2>4. \A z \in Shipment : amount'[z] = AmountOf(z, tier'[z])
        <3> HIDE DEF s
        <3> QED BY <1>3, <1>4, <1>5, <2>1 DEF LateInv, LateTypeOK
    <2>5. \A z : DueOf(pen'[n], z) = DueOf(pen[n], z)
        BY <1>2, <2>2 DEF DueOf, Working
    <2>6. \A z \in Shipment \ rewritten' : amount'[z] = amount[z]
        <3> HIDE DEF s
        <3> QED BY <1>3, <1>4, <1>5, <2>1 DEF LateInv, LateTypeOK
    <2>7. \A z \in Shipment \ rewritten' :
            given'[z] + DueOf(pen'[n], z) + amount[z]
              <= given[z] + DueOf(pen[n], z) + amount'[z]
        BY <1>1, <1>5, <1>6, <2>5, <2>6
    <2>8. rewritten \subseteq rewritten' BY <2>1
    <2> QED BY <1>1, <2>2, <2>3, <2>4, <2>7, <2>8, RunStep
<1>8. CASE version[s[1]] # p.seen.version
    <2>1. pen' = [pen EXCEPT ![n] = Idle] /\ UNCHANGED <<tier, amount, rewritten>>
        BY <1>8 DEF LateSave
    <2>2. pen'[n] = Idle /\ \A m \in Run : m # n => pen'[m] = pen[m]
        BY <1>0, <2>1
    <2>3. RunOk(pen'[n]) /\ \A z : DueOf(pen'[n], z) = 0
        BY <2>2 DEF RunOk, DueOf, Idle, Working
    <2>4. \A z \in Shipment \ rewritten' :
            given'[z] + DueOf(pen'[n], z) + amount[z]
              <= given[z] + DueOf(pen[n], z) + amount'[z]
        BY <1>1, <1>5, <1>6, <2>1, <2>3
    <2> QED BY <1>1, <1>5, <2>1, <2>2, <2>3, <2>4, RunStep
<1> QED BY <1>7, <1>8
LEMMA RefundBooks ==
    ASSUME LateInv, LateInv', AmountInv, GivenInv, NEW n \in Run,
           LateRefund(n) \/ LateDone(n) \/ LateCrash(n) \/ LateFind(n)
    PROVE  AmountInv' /\ GivenInv'
<1>0. pen \in [Run -> PenState] BY DEF LateInv, LateTypeOK
<1>1. UNCHANGED <<copy, tier, amount, rewritten>>
    BY DEF LateRefund, LateDone, LateCrash, LateFind, runFrame, histVars
<1>2. /\ RunOk(pen[n])
      /\ \A z \in Shipment : amount[z] \in Nat /\ given[z] \in Nat
      /\ \A z \in Shipment : amount[z] = AmountOf(z, tier[z])
      /\ \A z : DueOf(pen[n], z) \in Nat
    BY <1>0, DueType DEF AmountInv, LateInv, LateTypeOK
<1>3. CASE LateRefund(n)
    <2> DEFINE s == pen[n].p.seen.shipment
    <2>1. /\ pen[n].pc = "refund"
          /\ given' = [given EXCEPT ![s] = @ + pen[n].p.due]
          /\ pen' = [pen EXCEPT ![n] = [pc |-> "loop", todo |-> pen[n].todo]]
        BY <1>3 DEF LateRefund
    <2>2. /\ pen'[n] = [pc |-> "loop", todo |-> pen[n].todo]
          /\ \A m \in Run : m # n => pen'[m] = pen[m]
        BY <1>0, <2>1
    <2>3. RunOk(pen'[n]) /\ \A z : DueOf(pen'[n], z) = 0
        BY <1>2, <2>2 DEF RunOk, DueOf, Working
    <2>4. DueOf(pen[n], s) = pen[n].p.due BY <2>1 DEF DueOf, Working
    <2>5. s \in Shipment
        BY <1>0, <2>1, PenParts DEF Working, Penalty, Seen
    <2>6. ASSUME NEW z \in Shipment
          PROVE  given'[z] + DueOf(pen'[n], z) + amount[z]
                   <= given[z] + DueOf(pen[n], z) + amount'[z]
        <3>1. given'[z] = IF z = s THEN given[z] + DueOf(pen[n], z) ELSE given[z]
            BY <2>1, <2>4, <2>5 DEF LateInv, LateTypeOK
        <3> HIDE DEF s
        <3>2. given[z] \in Nat /\ amount[z] \in Nat /\ DueOf(pen[n], z) \in Nat BY <1>2
        <3> QED BY <1>1, <2>3, <3>1, <3>2
    <2> QED BY <1>1, <1>2, <2>2, <2>3, <2>6, RunStep
<1>4. CASE LateDone(n) \/ LateCrash(n) \/ LateFind(n)
    <2>1. UNCHANGED given /\ \A m \in Run : m # n => pen'[m] = pen[m]
        BY <1>0, <1>4 DEF LateDone, LateCrash, LateFind, histVars
    <2>2. RunOk(pen'[n]) /\ pen'[n].pc \notin Working
        <3>1. CASE LateDone(n) \/ LateCrash(n)
            BY <1>0, <3>1 DEF LateDone, LateCrash, Idle, RunOk, Working
        <3>2. CASE LateFind(n)
            <4> DEFINE x(s) == [shipment |-> s, tier |-> tier[s], amount |-> amount[s],
                                version |-> version[s[1]]]
                       found == {s \in Shipment : status[s[1]] \in Watched /\ Overdue(s)}
            <4>1. pen' = [pen EXCEPT ![n] = [pc |-> "loop", todo |-> {x(s) : s \in found}]]
                BY <3>2 DEF LateFind
            <4>2. \A s \in Shipment : SeenOk(x(s)) BY <1>2 DEF SeenOk
            <4>3. pen'[n] = [pc |-> "loop", todo |-> {x(s) : s \in found}]
                BY <1>0, <4>1
            <4> QED BY <4>2, <4>3 DEF RunOk, Working
        <3> QED BY <1>4, <3>1, <3>2
    <2>3. \A z : DueOf(pen'[n], z) = 0 BY <2>2 DEF DueOf
    <2>4. ASSUME NEW z \in Shipment
          PROVE  given'[z] + DueOf(pen'[n], z) + amount[z]
                   <= given[z] + DueOf(pen[n], z) + amount'[z]
        <3>1. given[z] \in Nat /\ amount[z] \in Nat /\ DueOf(pen[n], z) \in Nat BY <1>2
        <3> QED BY <1>1, <2>1, <2>3, <3>1
    <2> QED BY <1>1, <1>2, <2>1, <2>2, <2>4, RunStep
<1> QED BY <1>3, <1>4

\* The saves of whole orders put back what was loaded: a shipment whose tier
\* moves by it is one of the rewritten.
LEMMA WholeBooks ==
    ASSUME LateInv, LateInv', AmountInv, GivenInv, NEW r \in Reporter \cup Reverser,
           \/ WholeSave(r) \/ WholeRefused(r)
           \/ \E o \in Order, items \in SUBSET Item : WholeLoad(r, o, items)
    PROVE  AmountInv' /\ GivenInv'
<1>1. UNCHANGED <<pen, given>>
    BY DEF WholeSave, WholeRefused, WholeLoad, histVars
<1>2. \A s : InFlight(s)' = InFlight(s) BY <1>1 DEF InFlight
<1>3. copy \in [Reverser \cup Reporter -> {<<>>} \cup
                  [order: Order, items: SUBSET Item, version: Nat,
                   tier: [Shipment -> Day], amount: [Shipment -> Nat]]]
    BY DEF LateInv, LateTypeOK
<1>4. CASE WholeSave(r)
    <2>1. copy[r] # <<>> /\ copy' = [copy EXCEPT ![r] = <<>>] BY <1>4 DEF WholeSave
    <2>2. \A s \in Shipment : copy[r].amount[s] = AmountOf(s, copy[r].tier[s])
        BY <2>1 DEF AmountInv
    <2>3. \A s \in Shipment : \/ tier'[s] = tier[s] /\ amount'[s] = amount[s]
                              \/ /\ tier'[s] = copy[r].tier[s] /\ amount'[s] = copy[r].amount[s]
                                 /\ copy[r].tier[s] # tier[s] => s \in rewritten'
        BY <1>4 DEF WholeSave
    <2>4. \A s \in Shipment : amount'[s] = AmountOf(s, tier'[s])
        BY <2>2, <2>3 DEF AmountInv
    <2>5. AmountInv' BY <1>1, <1>3, <2>1, <2>4 DEF AmountInv
    <2>6. \A s \in Shipment \ rewritten' : amount'[s] = amount[s]
        BY <2>2, <2>3 DEF AmountInv
    <2>7. rewritten \subseteq rewritten' BY <1>4 DEF WholeSave
    <2>8. GivenInv' BY <1>1, <1>2, <2>6, <2>7 DEF GivenInv
    <2> QED BY <2>5, <2>8
<1>5. CASE ~ WholeSave(r)
    <2>1. UNCHANGED <<tier, amount, rewritten>>
        BY <1>5 DEF WholeRefused, WholeLoad, lateVars, histVars
    <2>2. GivenInv' BY <1>1, <1>2, <2>1 DEF GivenInv
    <2>3. CASE WholeRefused(r)
        <3>1. copy' = [copy EXCEPT ![r] = <<>>] BY <2>3 DEF WholeRefused
        <3> QED BY <1>1, <1>3, <2>1, <2>2, <3>1 DEF AmountInv
    <2>4. ASSUME NEW o \in Order, NEW items \in SUBSET Item, WholeLoad(r, o, items)
          PROVE  AmountInv'
        <3> DEFINE c == [order |-> o, items |-> items, version |-> version[o],
                         tier |-> tier, amount |-> amount]
        <3>1. copy' = [copy EXCEPT ![r] = c] BY <2>4 DEF WholeLoad
        <3>2. c.tier = tier /\ c.amount = amount OBVIOUS
        <3> HIDE DEF c
        <3>3. \A x \in Reverser \cup Reporter : copy'[x] = copy[x] \/ copy'[x] = c
            BY <1>3, <3>1
        <3> QED BY <1>1, <2>1, <3>2, <3>3 DEF AmountInv
    <2> QED BY <1>5, <2>2, <2>3, <2>4
<1> QED BY <1>4, <1>5

BookedInv == LateInv /\ AmountInv /\ GivenInv

LEMMA LateInitBooks == ASSUME LateInit PROVE BookedInv
<1>1. LateInv BY LateInitType
<1>2. AmountInv BY DEF LateInit, AmountInv, AmountOf, RunOk, Idle, Working
<1>3. ASSUME NEW s \in Shipment PROVE given[s] + SumFunctionOnSet(InFlight(s), Run) <= amount[s]
    <2> DEFINE f == InFlight(s)
    <2>1. \A n \in Run : f[n] = 0 BY DEF LateInit, InFlight, DueOf, Idle, Working
    <2>2. IsFiniteSet(Run) BY LateAssumption
    <2>3. given[s] = 0 /\ amount[s] = 0 BY DEF LateInit
    <2> HIDE DEF f
    <2>4. SumFunctionOnSet(f, Run) = 0 BY <2>1, <2>2, SumZero
    <2> QED BY <2>3, <2>4 DEF f
<1> QED BY <1>1, <1>2, <1>3 DEF BookedInv, GivenInv

LEMMA LateNextBooks == ASSUME BookedInv, [LateNext]_lateAllVars PROVE BookedInv'
<1>0. LateInv /\ AmountInv /\ GivenInv BY DEF BookedInv
<1>1. LateInv' BY <1>0, LateNextType
<1>2. ASSUME UNCHANGED <<tier, amount, pen, copy, given, rewritten>>
      PROVE  AmountInv' /\ GivenInv'
    <2>1. \A s : InFlight(s)' = InFlight(s) BY <1>2 DEF InFlight
    <2> QED BY <1>0, <1>2, <2>1 DEF AmountInv, GivenInv
<1>3. ASSUME \/ UNCHANGED lateAllVars \/ Beside \/ \E s \in Shipment : DayPasses(s)
      PROVE  AmountInv' /\ GivenInv'
    <2>1. UNCHANGED <<tier, amount, pen, copy, given, rewritten>>
        BY <1>3 DEF lateAllVars, penaltyVars, lateVars, copyVars, histVars, Beside, DayPasses
    <2> QED BY <1>2, <2>1
<1>4. ASSUME NEW n \in Run, LateFind(n) \/ LateStep(n) \/ LateCrash(n)
      PROVE  AmountInv' /\ GivenInv'
    BY <1>0, <1>1, <1>4, ChargeBooks, ClaimBooks, SaveBooks, RefundBooks DEF LateStep
<1>5. ASSUME NEW r \in Reporter \cup Reverser, WholeSave(r) \/ WholeRefused(r)
      PROVE  AmountInv' /\ GivenInv'
    BY <1>0, <1>1, <1>5, WholeBooks
<1>6. ASSUME NEW o \in Order, NEW r \in Reporter \cup Reverser, NEW items \in SUBSET Item,
             WholeLoad(r, o, items)
      PROVE  AmountInv' /\ GivenInv'
    BY <1>0, <1>1, <1>6, WholeBooks
<1>7. ASSUME NEW o \in Order,
             \/ \E r \in Reporter : WholeLoad(r, o, {})
             \/ \E r \in Reverser, i \in ItemsOf(o) : WholeLoad(r, o, {i})
      PROVE  AmountInv' /\ GivenInv'
    <2>1. \A i \in ItemsOf(o) : {i} \in SUBSET Item BY DEF ItemsOf
    <2> QED BY <1>6, <1>7, <2>1
<1>8. AmountInv' /\ GivenInv'
    BY <1>3, <1>4, <1>5, <1>7 DEF LateNext, Steps
<1> QED BY <1>1, <1>8 DEF BookedInv

\* For any number of instances, orders and days, whatever crashes, reports and
\* rejections come between: a customer is given for a shipment at most the
\* penalty its document shows, unless an older copy of it was used.  The claim's
\* filter carries it: the increments of the claimed tiers add up to the amount
\* (checkLateFulfillments: "only one instance ... proceeds to deduct + refund").
THEOREM CompensatesOnce == LateSpec => []CompensatedOnce
<1>1. LateInit => BookedInv BY LateInitBooks
<1>2. BookedInv /\ [LateNext]_lateAllVars => BookedInv' BY LateNextBooks
<1>3. BookedInv => CompensatedOnce
    <2>1. ASSUME BookedInv, NEW s \in Shipment \ rewritten PROVE given[s] <= amount[s]
        <3>1. SumFunctionOnSet(InFlight(s), Run) \in Nat
            BY <2>1, InFlightType DEF BookedInv
        <3>2. given[s] + SumFunctionOnSet(InFlight(s), Run) <= amount[s]
            BY <2>1 DEF BookedInv, GivenInv
        <3>3. given[s] \in Nat /\ amount[s] \in Nat
            BY <2>1 DEF BookedInv, LateInv, LateTypeOK
        <3> QED BY <3>1, <3>2, <3>3
    <2> QED BY <2>1 DEF CompensatedOnce
<1> QED BY <1>1, <1>2, <1>3, PTL DEF LateSpec
-----------------------------------------------------------------------------
(* LatePenalty: an earning is still paid once.                             *)

\* What is known of recording in each kind of mix: without orders from before the
\* flag, or without a reversal, no earning is recorded twice; a call that is not
\* made has not begun.
MixInv ==
    /\ Legacy = {} \/ made \cap Reverser = {} => ClaimInv
    /\ made \cap Reverser = {} => \A r \in Reverser : rev[r].pc = "idle"
    /\ made \cap Recorder = {} => \A p \in Recorder : rec[p].pc = "idle"
    /\ made \cap Releaser = {} => NeverReleased

LEMMA LateInitMix == ASSUME LateInit PROVE MixInv /\ CreditInv
<1>1. \A e \in Earning :
        /\ created[e] = IF e \in EarningsOf(e[1]) THEN 1 ELSE 0
        /\ doc[e] = IF e \in EarningsOf(e[1]) THEN HeldDoc(e) ELSE NoDoc
        /\ credited[e] = 0 /\ OrderOf[e[1]] \in Order
    BY EarningsAssumption DEF LateInit, Earning
<1>2. HeldDoc(<<>>).state = "held" /\ NoDoc.state = "none" /\ \A e : HeldDoc(e).state = "held"
    BY DEF HeldDoc, NoDoc
<1>3. /\ \A p \in Recorder : rec[p].pc = "idle"
      /\ \A w \in Releaser : rel[w] = Idle /\ rel[w].pc = "idle"
      /\ \A r \in Reverser : rev[r] = Idle /\ rev[r].pc = "idle"
    BY DEF LateInit, Idle
<1>4. ASSUME NEW o \in Legacy PROVE o \in Whole
    <2>1. ASSUME NEW e \in OrderEarnings(o)
          PROVE  created[e] # 0 /\ doc[e].state \in {"held", "released"}
        <3>1. e \in Earning /\ e \in EarningsOf(e[1]) BY OrderEarningsType
        <3>2. created[e] = 1 /\ doc[e] = HeldDoc(e) BY <1>1, <3>1
        <3> QED BY <1>2, <3>2
    <2> QED BY <2>1 DEF Whole
<1>5. ClaimInv
    <2>1. \A e \in Earning : recorded[OrderOf[e[1]]] \/ OrderOf[e[1]] \in Whole
        BY <1>1, <1>4 DEF LateInit
    <2> QED BY <1>1, <1>3, <2>1 DEF ClaimInv
<1>6. CreditInv BY <1>1, <1>2, <1>3 DEF CreditInv, Idle
<1> QED BY <1>1, <1>3, <1>5, <1>6 DEF MixInv, NeverReleased

\* Which calls there are does not change.
LEMMA MadeStays == ASSUME [LateNext]_lateAllVars PROVE made' = made
<1> USE DEF histVars, chargeFrame
<1>3. ASSUME NEW n \in Run, LateFind(n) \/ LateStep(n) \/ LateCrash(n) PROVE made' = made
    BY <1>3 DEF LateFind, LateStep, LateCrash, LateSave, LateFindHeld, LateWallet, LateWrite,
       LateLoopDone, LateClawBack, LateRefund, LateDone, LateTake, LateClaim
<1>4. ASSUME NEW r, WholeSave(r) \/ WholeRefused(r) PROVE made' = made
    BY <1>4 DEF WholeSave, WholeRefused
<1>5. ASSUME NEW r, NEW o, NEW items, WholeLoad(r, o, items) PROVE made' = made
    BY <1>5 DEF WholeLoad
<1>6. ASSUME Beside \/ \E s \in Shipment : DayPasses(s) PROVE made' = made
    BY <1>6 DEF Beside, DayPasses
<1>1. CASE Steps
    BY <1>1, <1>3, <1>4, <1>5, <1>6 DEF Steps
<1>2. CASE UNCHANGED lateAllVars BY <1>2 DEF lateAllVars, penaltyVars, histVars
<1> QED BY <1>1, <1>2 DEF LateNext

LEMMA AbsentStays ==
    ASSUME [LateNext]_lateAllVars
    PROVE  /\ made \cap Recorder = {} => \A p \in Recorder : rec'[p] = rec[p]
           /\ made \cap Releaser = {} => \A w \in Releaser : rel'[w] = rel[w]
           /\ made \cap Reverser = {} => \A r \in Reverser : rev'[r] = rev[r]
<1>1. CASE UNCHANGED lateAllVars BY <1>1 DEF lateAllVars, vars
<1>2. CASE Absent
    <2>1. made \cap Recorder = {} => Recorder \ made = Recorder OBVIOUS
    <2>2. made \cap Releaser = {} => Releaser \ made = Releaser OBVIOUS
    <2>3. made \cap Reverser = {} => Reverser \ made = Reverser OBVIOUS
    <2> QED BY <1>2, <2>1, <2>2, <2>3 DEF Absent
<1> QED BY <1>1, <1>2 DEF LateNext, Frame

\* A step of a recording call moves that call.
LEMMA RecordStepMoves ==
    ASSUME TypeOK, RecordStep
    PROVE  \E p \in Recorder : rec'[p] # rec[p]
<1>1. ASSUME NEW p \in Recorder,
             (\E o \in Order : RecordClaim(p, o)) \/ RecordLoad(p) \/ RecordDone(p)
      PROVE  rec'[p] # rec[p]
    <2>1. ASSUME NEW o \in Order, RecordClaim(p, o) PROVE rec'[p].pc # rec[p].pc
        BY <2>1 DEF RecordClaim, TypeOK
    <2>2. ASSUME RecordLoad(p) PROVE rec'[p].pc # rec[p].pc
        <3>1. rec[p] \in [pc: {"claimed", "items"}, order: Order,
                         todo: SUBSET Item, docs: SUBSET Earning]
            BY <2>2, LocalStates DEF RecordLoad
        <3> QED BY <2>2, <3>1 DEF RecordLoad, TypeOK
    <2>3. ASSUME RecordDone(p) PROVE rec'[p].pc # rec[p].pc
        BY <2>3 DEF RecordDone, TypeOK, Idle
    <2> QED BY <1>1, <2>1, <2>2, <2>3
<1>2. ASSUME NEW p \in Recorder, NEW e \in Earning, RecordDoc(p, e) PROVE rec'[p] # rec[p]
    <2>1. rec[p] \in [pc: {"claimed", "items"}, order: Order,
                     todo: SUBSET Item, docs: SUBSET Earning]
        BY <1>2, LocalStates DEF RecordDoc
    <2>2. e \in rec'[p].docs /\ e \notin rec[p].docs BY <1>2, <2>1 DEF RecordDoc, TypeOK
    <2> QED BY <2>2
<1>3. ASSUME NEW p \in Recorder, NEW i \in Item, RecordPending(p, i) PROVE rec'[p] # rec[p]
    <2>1. rec[p] \in [pc: {"claimed", "items"}, order: Order,
                     todo: SUBSET Item, docs: SUBSET Earning]
        BY <1>3, LocalStates DEF RecordPending
    <2>2. i \notin rec'[p].todo /\ i \in rec[p].todo BY <1>3, <2>1 DEF RecordPending, TypeOK
    <2> QED BY <2>2
<1> QED BY <1>1, <1>2, <1>3 DEF RecordStep

\* While no release run is at work, nothing is credited.
LEMMA NoCredit ==
    ASSUME \A w \in Releaser : rel[w].pc = "idle", [Next]_vars
    PROVE  UNCHANGED credited
<1>1. CASE ReleaseStep
    BY <1>1 DEF ReleaseStep, ReleaseFind, ReleaseClaim, ReleaseCredit, ReleaseCreditError,
       ReleaseDone
<1>2. CASE OrderStep
    BY <1>2 DEF OrderStep, Pay, Transit, ConfirmShipment, Dispatch, Deliver, ConfirmSatisfaction,
       Elapse, AutoReleaseStuck, unchangedCalls
<1>3. CASE RecordStep
    BY <1>3 DEF RecordStep, RecordClaim, RecordLoad, RecordDoc, RecordPending, RecordDone,
       recordVars
<1>4. CASE ReverseStep
    BY <1>4 DEF ReverseStep, CancelBegin, RejectItem, CancelSave, ReverseFindHeld,
       ReverseFindReleased, ReverseFind, ReconcileRead, ReconcileWrite, DeleteEarning,
       ZeroEarning, ReverseDone, reverseVars
<1>5. CASE CrashStep BY <1>5 DEF CrashStep, Crash
<1>6. CASE UNCHANGED vars BY <1>6 DEF vars
<1> QED BY <1>1, <1>2, <1>3, <1>4, <1>5, <1>6 DEF Next

\* A run of the penalty cron changes the amounts of earnings, never their state.
LEMMA LateRunKeeps ==
    ASSUME LateInv, NEW n \in Run, LateFind(n) \/ LateStep(n) \/ LateCrash(n)
    PROVE  /\ UNCHANGED <<recorded, rec, rel, rev, created, credited>>
           /\ \A e \in Earning : doc'[e].state = doc[e].state
<1>0. TypeOK BY DEF LateInv, LateTypeOK
<1>1. UNCHANGED <<recorded, rec, rel, rev, created, credited>>
    BY DEF LateFind, LateCrash, LateStep, LateSave, LateFindHeld, LateWallet,
       LateWrite, LateLoopDone, LateClawBack, LateRefund, LateDone, LateTake,
       LateClaim, vars
<1>2. ASSUME NEW j \in pen[n].p.jobs, LateTake(n, j)
      PROVE  \A e \in Earning : doc'[e].state = doc[e].state
    <2> DEFINE take == Min({pen[n].p.remaining, j.net})
    <2>1. UNCHANGED doc \/ doc' = [doc EXCEPT ![j.earning].net = j.net - take]
        BY <1>2 DEF LateTake
    <2> HIDE DEF take
    <2> QED BY <1>0, <2>1 DEF TypeOK, Doc
<1>3. CASE \A j \in pen[n].p.jobs : ~ LateTake(n, j)
    <2>1. UNCHANGED doc
        BY <1>3 DEF LateFind, LateCrash, LateStep, LateSave, LateFindHeld, LateWallet,
           LateWrite, LateLoopDone, LateClawBack, LateRefund, LateDone, LateClaim, vars
    <2> QED BY <1>1, <2>1
<1>4. CASE \E j \in pen[n].p.jobs : LateTake(n, j)
    BY <1>1, <1>2, <1>4
<1> QED BY <1>3, <1>4

\* Every step is one of Earnings, or one of a run.
LEMMA LateStepKinds ==
    ASSUME LateInv, [LateNext]_lateAllVars
    PROVE  \/ [Next]_vars
           \/ \E n \in Run : LateFind(n) \/ LateStep(n) \/ LateCrash(n)
<1>1. CASE Steps
    <2>1. CASE Beside BY <2>1, BesideNext
    <2>2. ASSUME NEW r \in Reporter \cup Reverser, WholeSave(r) PROVE [Next]_vars
        BY <2>2, WholeSaveNext
    <2>3. ASSUME \/ \E r \in Reporter \cup Reverser : WholeRefused(r)
                 \/ \E s \in Shipment : DayPasses(s)
                 \/ \E o \in Order, r \in Reporter : WholeLoad(r, o, {})
                 \/ \E o \in Order, r \in Reverser, i \in Item : WholeLoad(r, o, {i})
          PROVE  [Next]_vars
        BY <2>3 DEF WholeRefused, DayPasses, WholeLoad
    <2> QED BY <1>1, <2>1, <2>2, <2>3 DEF Steps, ItemsOf
<1>2. CASE UNCHANGED lateAllVars BY <1>2 DEF lateAllVars
<1> QED BY <1>1, <1>2 DEF LateNext

LEMMA LateNextMix ==
    ASSUME LateInv, MixInv, [LateNext]_lateAllVars
    PROVE  MixInv'
<1>0. TypeOK BY DEF LateInv, LateTypeOK
<1>1. made' = made BY MadeStays
<1>2. ASSUME Legacy = {} \/ made \cap Reverser = {} PROVE ClaimInv'
    <2>1. ClaimInv BY <1>2 DEF MixInv
    <2>2. Undisturbed BY <1>2 DEF MixInv, Undisturbed
    <2>3. ASSUME [Next]_vars PROVE ClaimInv' BY <1>0, <2>1, <2>2, <2>3, NextClaim
    <2>4. ASSUME NEW n \in Run, LateFind(n) \/ LateStep(n) \/ LateCrash(n) PROVE ClaimInv'
        <3>1. /\ UNCHANGED <<recorded, rec, created>>
              /\ \A e \in Earning : doc'[e].state = doc[e].state
            BY <2>4, LateRunKeeps
        <3>2. Whole \subseteq Whole' BY <3>1, OldStays
        <3> QED BY <2>1, <3>1, <3>2, ClaimUnchanged
    <2> QED BY <2>3, <2>4, LateStepKinds
<1>3. ASSUME made \cap Releaser = {} PROVE NeverReleased'
    <2>1. NeverReleased BY <1>3 DEF MixInv
    <2>2. \A w \in Releaser : rel'[w] = rel[w] BY <1>3, AbsentStays
    <2>3. UNCHANGED credited
        <3>1. ASSUME [Next]_vars PROVE UNCHANGED credited
            BY <2>1, <3>1, NoCredit DEF NeverReleased
        <3> QED BY <3>1, LateRunKeeps, LateStepKinds
    <2> QED BY <2>1, <2>2, <2>3 DEF NeverReleased
<1>4. /\ made \cap Reverser = {} => \A r \in Reverser : rev'[r].pc = "idle"
      /\ made \cap Recorder = {} => \A p \in Recorder : rec'[p].pc = "idle"
    BY AbsentStays DEF MixInv
<1> QED BY <1>1, <1>2, <1>3, <1>4 DEF MixInv

LEMMA LateNextCredit ==
    ASSUME "lostReply" \notin Faults, LateInv, MixInv, CreditInv, [LateNext]_lateAllVars,
           \/ Legacy = {} \/ made \cap Reverser = {}
           \/ made \cap Recorder = {} \/ made \cap Releaser = {}
    PROVE  CreditInv'
<1>0. TypeOK BY DEF LateInv, LateTypeOK
<1>1. ClaimInv \/ NeverReleased \/ ~ RecordStep
    <2>1. CASE made \cap Recorder = {}
        <3>1. \A p \in Recorder : rec'[p] = rec[p] BY <2>1, AbsentStays
        <3> QED BY <1>0, <3>1, RecordStepMoves
    <2> QED BY <2>1 DEF MixInv
<1>2. ASSUME [Next]_vars PROVE CreditInv'
    <2>1. CASE UNCHANGED vars BY <1>0, <2>1, RelCur, CreditUnchanged DEF vars
    <2> QED BY <1>0, <1>1, <1>2, <2>1, OrderStepCredit, RecordStepCredit, ReleaseStepCredit,
               ReverseStepCredit, CrashCredit DEF Next
<1>3. ASSUME NEW n \in Run, LateFind(n) \/ LateStep(n) \/ LateCrash(n) PROVE CreditInv'
    BY <1>0, <1>3, LateRunKeeps, RelCur, CreditUnchanged
<1> QED BY <1>2, <1>3, LateStepKinds

\* Charging a penalty to an earning that a release run is about to pay does not
\* make it paid twice, nor do the reversals, stops and saves around it
\* (releaseFunds' claim beside checkLateFulfillments).  An order from before the
\* flag whose earnings a reversal deleted is recorded again: with such orders,
\* recording, release and reversal are not all three in one mix.
THEOREM ReleasesOnceLate ==
    ASSUME "lostReply" \notin Faults,
           \/ Legacy = {}
           \/ \A m \in Together :
                \/ m \cap Reverser = {} \/ m \cap Recorder = {} \/ m \cap Releaser = {}
    PROVE  LateSpec => []ReleasedOnce
<1> DEFINE I == LateInv /\ MixInv /\ CreditInv
<1>1. LateInit => I BY LateInitType, LateInitMix
<1>2. I /\ [LateNext]_lateAllVars => I'
    <2> SUFFICES ASSUME I, [LateNext]_lateAllVars PROVE I' OBVIOUS
    <2>1. made \in Together BY DEF LateInv, LateTypeOK
    <2> QED BY <2>1, LateNextType, LateNextMix, LateNextCredit
<1>3. I => ReleasedOnce BY DEF CreditInv, ReleasedOnce
<1> HIDE DEF I
<1> QED BY <1>1, <1>2, <1>3, PTL DEF LateSpec
-----------------------------------------------------------------------------
(* LatePenalty: the vendor bears the penalty.                              *)

\* The earnings of a shipment, and what they were worth when they were recorded.
ShipEarnings(s) == {e \in OrderEarnings(s[1]) : VendorOf[e[1]] = s[2]}
ShareOf(s) == SumFunctionOnSet(Share, ShipEarnings(s))
ShipsOf(v) == {s \in Shipment : s[2] = v}

\* What an earning still contributes to its vendor's pending balance: its amount
\* until it is released and credited.
Unpaid == [e \in Earning |-> IF doc[e].state = "held" \/ InCredit(e) THEN doc[e].net ELSE 0]

\* For a run at q: what it took from an earning and not yet from the wallet, and
\* what the wallet has paid of the penalty.
Taken(q) == IF q.pc \in {"wallet", "write"} THEN q.p.take ELSE 0
Deducted(q) == IF q.pc = "refund" THEN q.p.due ELSE q.p.due - q.p.remaining

\* The accounts of vendor v while t is taken and d is paid for shipment x.  No
\* shipment is charged more than its own earnings were worth.
Account(v, x, t, d) ==
    /\ pending[v] = SumFunctionOnSet(Unpaid, VendorEarnings(v)) + t
    /\ pending[v] + balance[v] = SumFunctionOnSet(Share, VendorEarnings(v)) - GivenFor(v) - d
    /\ \A s \in ShipsOf(v) :
         SumFunctionOnSet(Unpaid, ShipEarnings(s)) + given[s] + (IF s = x THEN t + d ELSE 0)
            <= ShareOf(s)

\* A vendor's earnings are the earnings of its items, and every earning of a
\* shipment is one of them.
LEMMA VendorEarningsParts ==
    ASSUME NEW v
    PROVE  /\ IsFiniteSet(VendorEarnings(v)) /\ VendorEarnings(v) \subseteq Earning
           /\ VendorEarnings(v) = {e \in EarningsFor(v) : e \in EarningsOf(e[1])}
           /\ VendorEarnings(v) \subseteq EarningsFor(v)
<1>1. VendorEarnings(v) = {e \in EarningsFor(v) : e \in EarningsOf(e[1])}
    <2>1. ASSUME NEW e \in VendorEarnings(v)
          PROVE  e \in EarningsFor(v) /\ e \in EarningsOf(e[1])
        <3>1. PICK i \in Item : VendorOf[i] = v /\ e \in EarningsOf(i)
            BY <2>1 DEF VendorEarnings
        <3>2. e \in Earning /\ e[1] = i BY <3>1, EarningsOfType
        <3> QED BY <3>1, <3>2 DEF EarningsFor
    <2>2. ASSUME NEW e \in EarningsFor(v), e \in EarningsOf(e[1])
          PROVE  e \in VendorEarnings(v)
        <3>1. e[1] \in Item /\ VendorOf[e[1]] = v BY DEF EarningsFor, Earning
        <3> QED BY <2>2, <3>1 DEF VendorEarnings
    <2> QED BY <2>1, <2>2
<1>2. IsFiniteSet(EarningsFor(v)) /\ EarningsFor(v) \subseteq Earning BY EarningsForFinite
<1>3. VendorEarnings(v) \subseteq EarningsFor(v) BY <1>1
<1> QED BY <1>1, <1>2, <1>3, FS_Subset

\* The earnings of a shipment are those of its vendor and its order.
LEMMA ShipEarningsParts ==
    ASSUME NEW s \in Shipment
    PROVE  /\ IsFiniteSet(ShipEarnings(s)) /\ ShipEarnings(s) \subseteq Earning
           /\ ShipEarnings(s) = {e \in VendorEarnings(s[2]) : OrderOf[e[1]] = s[1]}
           /\ ShipEarnings(s) \subseteq VendorEarnings(s[2])
<1>1. ASSUME NEW e
      PROVE  e \in ShipEarnings(s) <=> e \in VendorEarnings(s[2]) /\ OrderOf[e[1]] = s[1]
    <2>1. ASSUME e \in ShipEarnings(s)
          PROVE  e \in VendorEarnings(s[2]) /\ OrderOf[e[1]] = s[1]
        <3>1. PICK i \in Item : OrderOf[i] = s[1] /\ e \in EarningsOf(i)
            BY <2>1 DEF ShipEarnings, OrderEarnings, ItemsOf
        <3>2. e \in Earning /\ e[1] = i BY <3>1, EarningsOfType
        <3>3. VendorOf[e[1]] = s[2] BY <2>1 DEF ShipEarnings
        <3> QED BY <3>1, <3>2, <3>3 DEF VendorEarnings
    <2>2. ASSUME e \in VendorEarnings(s[2]), OrderOf[e[1]] = s[1]
          PROVE  e \in ShipEarnings(s)
        <3>1. e \in EarningsFor(s[2]) /\ e \in EarningsOf(e[1])
            BY <2>2, VendorEarningsParts
        <3>2. e[1] \in Item /\ VendorOf[e[1]] = s[2] BY <3>1 DEF EarningsFor, Earning
        <3> QED BY <2>2, <3>1, <3>2 DEF ShipEarnings, OrderEarnings, ItemsOf
    <2> QED BY <2>1, <2>2
<1>2. ShipEarnings(s) \subseteq VendorEarnings(s[2]) BY <1>1
<1>3. ShipEarnings(s) = {e \in VendorEarnings(s[2]) : OrderOf[e[1]] = s[1]} BY <1>1
<1>4. IsFiniteSet(VendorEarnings(s[2])) /\ VendorEarnings(s[2]) \subseteq Earning
    BY VendorEarningsParts
<1> QED BY <1>2, <1>3, <1>4, FS_Subset

\* A vendor has as many shipments as there are orders with its items, at most.
LEMMA ShipsFinite ==
    ASSUME NEW v
    PROVE  IsFiniteSet(ShipsOf(v)) /\ ShipsOf(v) \subseteq Shipment
<1> DEFINE f == [i \in Item |-> <<OrderOf[i], VendorOf[i]>>]
           S == {f[i] : i \in Item}
<1>1. f \in Surjection(Item, S)
    <2>1. f \in [Item -> S] OBVIOUS
    <2>2. \A t \in S : \E i \in Item : f[i] = t OBVIOUS
    <2> HIDE DEF f, S
    <2> QED BY <2>1, <2>2 DEF Surjection
<1>2. IsFiniteSet(S)
    <2>1. IsFiniteSet(Item) BY EarningsAssumption
    <2> HIDE DEF f, S
    <2> QED BY <1>1, <2>1, FS_Surjection
<1>3. ShipsOf(v) \subseteq S
    <2> SUFFICES ASSUME NEW s \in ShipsOf(v) PROVE s \in S OBVIOUS
    <2>1. s \in Order \X Vendor /\ s[2] \in VendorsOf(s[1]) BY DEF ShipsOf, Shipment
    <2>2. PICK i \in Item : OrderOf[i] = s[1] /\ VendorOf[i] = s[2]
        BY <2>1 DEF VendorsOf, ItemsOf
    <2>3. s = <<OrderOf[i], VendorOf[i]>> BY <2>1, <2>2
    <2> QED BY <2>3
<1>4. ShipsOf(v) \subseteq Shipment BY DEF ShipsOf
<1> QED BY <1>2, <1>3, <1>4, FS_Subset

\* What an earning contributes is a number.
LEMMA UnpaidType ==
    ASSUME TypeOK
    PROVE  \A e \in Earning : Unpaid[e] \in Int
BY DEF TypeOK, Doc, Unpaid

\* What a vendor's customers were given adds up to a number.
LEMMA GivenType ==
    ASSUME given \in [Shipment -> Nat], NEW v
    PROVE  GivenFor(v) = SumFunctionOnSet(given, ShipsOf(v)) /\ GivenFor(v) \in Int
<1>1. GivenFor(v) = SumFunctionOnSet(given, ShipsOf(v)) BY DEF GivenFor, ShipsOf
<1>2. \A s \in ShipsOf(v) : given[s] \in Int BY DEF ShipsOf
<1> QED BY <1>1, <1>2, ShipsFinite, SumType

\* After a step, the sums of contributions are numbers.
LEMMA UnpaidSums ==
    ASSUME TypeOK', NEW E, IsFiniteSet(E), E \subseteq Earning
    PROVE  SumFunctionOnSet(Unpaid', E) \in Int
<1>1. \A e \in Earning : Unpaid'[e] \in Int BY DEF TypeOK, Doc, Unpaid
<1> QED BY <1>1, SumType

\* One earning's contribution falls by k.
LEMMA UnpaidMoves ==
    ASSUME TypeOK, TypeOK', NEW E, IsFiniteSet(E), E \subseteq Earning, NEW e \in Earning,
           NEW k \in Int, Unpaid'[e] = Unpaid[e] - k,
           \A f \in E : f # e => Unpaid'[f] = Unpaid[f]
    PROVE  SumFunctionOnSet(Unpaid', E) =
             SumFunctionOnSet(Unpaid, E) - (IF e \in E THEN k ELSE 0)
<1> DEFINE g == Unpaid
           h == Unpaid'
<1>1. \A f \in E : g[f] \in Int /\ h[f] \in Int BY UnpaidType
<1>2. g[e] \in Int /\ h[e] = g[e] - k BY UnpaidType
<1>3. \A f \in E : f # e => h[f] = g[f] OBVIOUS
<1> HIDE DEF g, h
<1>4. SumFunctionOnSet(g, E) \in Int BY <1>1, SumType
<1>5. CASE e \in E
    <2>1. SumFunctionOnSet(h, E) = SumFunctionOnSet(g, E) + h[e] - g[e]
        BY ONLY <1>1, <1>3, <1>5, IsFiniteSet(E), SumUpdate
    <2> QED BY <1>2, <1>4, <1>5, <2>1 DEF g, h
<1>6. CASE e \notin E
    <2>1. \A f \in E : g[f] = h[f] BY <1>3, <1>6
    <2>2. SumFunctionOnSet(g, E) = SumFunctionOnSet(h, E)
        BY ONLY <2>1, IsFiniteSet(E), SumSame
    <2> QED BY <1>4, <1>6, <2>2 DEF g, h
<1> QED BY <1>5, <1>6

\* What the accounts are made of, as numbers.
LEMMA AccountType ==
    ASSUME TypeOK, given \in [Shipment -> Nat], NEW v \in Vendor
    PROVE  /\ pending[v] \in Int /\ balance[v] \in Int
           /\ SumFunctionOnSet(Unpaid, VendorEarnings(v)) \in Int
           /\ SumFunctionOnSet(Share, VendorEarnings(v)) \in Int
           /\ GivenFor(v) \in Int
           /\ \A s \in ShipsOf(v) :
                /\ s \in Shipment /\ given[s] \in Nat /\ ShareOf(s) \in Int
                /\ SumFunctionOnSet(Unpaid, ShipEarnings(s)) \in Int
<1>1. pending[v] \in Int /\ balance[v] \in Int BY DEF TypeOK
<1>2. ASSUME NEW E, IsFiniteSet(E), E \subseteq Earning
      PROVE  SumFunctionOnSet(Unpaid, E) \in Int /\ SumFunctionOnSet(Share, E) \in Int
    <2>1. \A e \in E : Unpaid[e] \in Int /\ Share[e] \in Int BY <1>2, UnpaidType, ShareType
    <2> QED BY <1>2, <2>1, SumType
<1>3. \A s \in ShipsOf(v) :
        /\ s \in Shipment /\ given[s] \in Nat
        /\ IsFiniteSet(ShipEarnings(s)) /\ ShipEarnings(s) \subseteq Earning
    BY ShipEarningsParts DEF ShipsOf
<1>4. \A s \in ShipsOf(v) : /\ ShareOf(s) \in Int
                            /\ SumFunctionOnSet(Unpaid, ShipEarnings(s)) \in Int
    BY <1>2, <1>3 DEF ShareOf
<1> QED BY <1>1, <1>2, <1>3, <1>4, VendorEarningsParts, GivenType

\* A vendor's contributions, and with them every sum of them, stay.
LEMMA UnpaidStays ==
    ASSUME NEW v \in Vendor, \A e \in VendorEarnings(v) : Unpaid'[e] = Unpaid[e]
    PROVE  /\ SumFunctionOnSet(Unpaid', VendorEarnings(v)) =
                SumFunctionOnSet(Unpaid, VendorEarnings(v))
           /\ \A s \in ShipsOf(v) : SumFunctionOnSet(Unpaid', ShipEarnings(s)) =
                                      SumFunctionOnSet(Unpaid, ShipEarnings(s))
<1> DEFINE g == Unpaid
           h == Unpaid'
<1>1. ASSUME NEW E, IsFiniteSet(E), E \subseteq VendorEarnings(v)
      PROVE  SumFunctionOnSet(h, E) = SumFunctionOnSet(g, E)
    <2>1. \A e \in E : h[e] = g[e] BY <1>1
    <2> HIDE DEF g, h
    <2> QED BY <1>1, <2>1, SumSame
<1>2. IsFiniteSet(VendorEarnings(v)) BY VendorEarningsParts
<1>3. ASSUME NEW s \in ShipsOf(v)
      PROVE  IsFiniteSet(ShipEarnings(s)) /\ ShipEarnings(s) \subseteq VendorEarnings(v)
    <2>1. s \in Shipment /\ s[2] = v BY DEF ShipsOf
    <2> QED BY <2>1, ShipEarningsParts
<1> HIDE DEF g, h
<1>4. SumFunctionOnSet(h, VendorEarnings(v)) = SumFunctionOnSet(g, VendorEarnings(v))
    BY <1>1, <1>2
<1>5. \A s \in ShipsOf(v) :
        SumFunctionOnSet(h, ShipEarnings(s)) = SumFunctionOnSet(g, ShipEarnings(s))
    BY <1>1, <1>3
<1> QED BY <1>4, <1>5 DEF g, h

\* A vendor's penalties stay.
LEMMA GivenStays ==
    ASSUME given \in [Shipment -> Nat], given' \in [Shipment -> Nat], NEW v \in Vendor,
           \A s \in ShipsOf(v) : given'[s] = given[s]
    PROVE  GivenFor(v)' = GivenFor(v)
<1>1. /\ GivenFor(v) = SumFunctionOnSet(given, ShipsOf(v))
      /\ GivenFor(v)' = SumFunctionOnSet(given', ShipsOf(v))
    BY DEF GivenFor, ShipsOf
<1>2. SumFunctionOnSet(given, ShipsOf(v)) = SumFunctionOnSet(given', ShipsOf(v))
    BY ShipsFinite, SumSame
<1> QED BY <1>1, <1>2

\* The step leaves everything the accounts of v are made of as it is.
Untouched(v) ==
    /\ pending'[v] = pending[v] /\ balance'[v] = balance[v]
    /\ \A e \in VendorEarnings(v) : Unpaid'[e] = Unpaid[e]
    /\ \A s \in ShipsOf(v) : given'[s] = given[s]

\* A step that leaves all of it as it is leaves the accounts of v as they are.
LEMMA AccountKept ==
    ASSUME given \in [Shipment -> Nat], given' \in [Shipment -> Nat], NEW v \in Vendor,
           NEW x, NEW t, NEW d, Account(v, x, t, d), Untouched(v)
    PROVE  Account(v, x, t, d)'
<1>1. GivenFor(v)' = GivenFor(v) BY GivenStays DEF Untouched
<1>2. /\ SumFunctionOnSet(Unpaid', VendorEarnings(v)) =
           SumFunctionOnSet(Unpaid, VendorEarnings(v))
      /\ \A s \in ShipsOf(v) : SumFunctionOnSet(Unpaid', ShipEarnings(s)) =
                                 SumFunctionOnSet(Unpaid, ShipEarnings(s))
    BY UnpaidStays DEF Untouched
<1>3. /\ pending'[v] = SumFunctionOnSet(Unpaid', VendorEarnings(v)) + t
      /\ pending'[v] + balance'[v]
           = SumFunctionOnSet(Share, VendorEarnings(v)) - GivenFor(v)' - d
    BY <1>1, <1>2 DEF Account, Untouched
<1>4. \A s \in ShipsOf(v) :
        SumFunctionOnSet(Unpaid', ShipEarnings(s)) + given'[s] + (IF s = x THEN t + d ELSE 0)
          <= ShareOf(s)
    BY <1>2 DEF Account, Untouched
<1> QED BY <1>3, <1>4 DEF Account

\* A charge begins.
LEMMA AccountEnters ==
    ASSUME NEW v, NEW x, Account(v, <<>>, 0, 0)
    PROVE  Account(v, x, 0, 0)
<1>1. \A s \in ShipsOf(v) : (IF s = <<>> THEN 0 + 0 ELSE 0) = 0
                         /\ (IF s = x THEN 0 + 0 ELSE 0) = 0
    OBVIOUS
<1> QED BY <1>1 DEF Account

\* A release moves what it claimed to the balance.
LEMMA AccountCredits ==
    ASSUME TypeOK, TypeOK', given \in [Shipment -> Nat], given' \in [Shipment -> Nat],
           NEW v \in Vendor, NEW e \in VendorEarnings(v), NEW k \in Nat,
           Account(v, <<>>, 0, 0),
           pending'[v] = pending[v] - k, balance'[v] = balance[v] + k,
           Unpaid'[e] = Unpaid[e] - k,
           \A f \in VendorEarnings(v) : f # e => Unpaid'[f] = Unpaid[f],
           \A s \in ShipsOf(v) : given'[s] = given[s]
    PROVE  Account(v, <<>>, 0, 0)'
<1>1. GivenFor(v)' = GivenFor(v) BY GivenStays
<1>2. /\ IsFiniteSet(VendorEarnings(v)) /\ VendorEarnings(v) \subseteq Earning /\ e \in Earning
    BY VendorEarningsParts
<1>3. SumFunctionOnSet(Unpaid', VendorEarnings(v)) =
        SumFunctionOnSet(Unpaid, VendorEarnings(v)) - k
    BY <1>2, UnpaidMoves
<1>4. ASSUME NEW s \in ShipsOf(v)
      PROVE  SumFunctionOnSet(Unpaid', ShipEarnings(s))
               <= SumFunctionOnSet(Unpaid, ShipEarnings(s))
    <2>1. s \in Shipment /\ s[2] = v BY DEF ShipsOf
    <2>2. IsFiniteSet(ShipEarnings(s)) /\ ShipEarnings(s) \subseteq VendorEarnings(v)
        BY <2>1, ShipEarningsParts
    <2>3. SumFunctionOnSet(Unpaid', ShipEarnings(s)) =
            SumFunctionOnSet(Unpaid, ShipEarnings(s))
              - (IF e \in ShipEarnings(s) THEN k ELSE 0)
        BY <1>2, <2>2, UnpaidMoves
    <2>4. SumFunctionOnSet(Unpaid, ShipEarnings(s)) \in Int BY AccountType
    <2> QED BY <2>3, <2>4
<1>5. /\ pending[v] \in Int /\ balance[v] \in Int
      /\ SumFunctionOnSet(Unpaid, VendorEarnings(v)) \in Int
    BY AccountType
<1>6. /\ pending'[v] = SumFunctionOnSet(Unpaid', VendorEarnings(v)) + 0
      /\ pending'[v] + balance'[v]
           = SumFunctionOnSet(Share, VendorEarnings(v)) - GivenFor(v)' - 0
    BY <1>1, <1>3, <1>5 DEF Account
<1>7. \A s \in ShipsOf(v) :
        SumFunctionOnSet(Unpaid', ShipEarnings(s)) + given'[s] + (IF s = <<>> THEN 0 + 0 ELSE 0)
          <= ShareOf(s)
    <2> SUFFICES ASSUME NEW s \in ShipsOf(v)
                 PROVE  SumFunctionOnSet(Unpaid', ShipEarnings(s)) + given'[s] + 0 <= ShareOf(s)
        OBVIOUS
    <2>1. SumFunctionOnSet(Unpaid, ShipEarnings(s)) + given[s] + 0 <= ShareOf(s)
        BY DEF Account
    <2>2. /\ SumFunctionOnSet(Unpaid, ShipEarnings(s)) \in Int /\ given[s] \in Nat
          /\ ShareOf(s) \in Int /\ s \in Shipment
        BY AccountType
    <2>3. SumFunctionOnSet(Unpaid', ShipEarnings(s)) \in Int
        BY <2>2, UnpaidSums, ShipEarningsParts
    <2>4. given'[s] = given[s] OBVIOUS
    <2> QED BY <1>4, <2>1, <2>2, <2>3, <2>4
<1> QED BY <1>6, <1>7 DEF Account

\* A run takes k from an earning of the shipment.
LEMMA AccountTakes ==
    ASSUME TypeOK, TypeOK', given \in [Shipment -> Nat], given' \in [Shipment -> Nat],
           NEW v \in Vendor, NEW x \in ShipsOf(v), NEW e \in ShipEarnings(x), NEW k \in Nat,
           NEW d \in Int, Account(v, x, 0, d),
           pending'[v] = pending[v], balance'[v] = balance[v],
           Unpaid'[e] = Unpaid[e] - k,
           \A f \in VendorEarnings(v) : f # e => Unpaid'[f] = Unpaid[f],
           \A s \in ShipsOf(v) : given'[s] = given[s]
    PROVE  Account(v, x, k, d)'
<1>1. GivenFor(v)' = GivenFor(v) BY GivenStays
<1>0. x \in Shipment /\ x[2] = v BY DEF ShipsOf
<1>2. /\ IsFiniteSet(VendorEarnings(v)) /\ VendorEarnings(v) \subseteq Earning
      /\ e \in Earning /\ e \in VendorEarnings(v)
    BY <1>0, VendorEarningsParts, ShipEarningsParts
<1>3. SumFunctionOnSet(Unpaid', VendorEarnings(v)) =
        SumFunctionOnSet(Unpaid, VendorEarnings(v)) - k
    BY <1>2, UnpaidMoves
<1>4. ASSUME NEW s \in ShipsOf(v)
      PROVE  SumFunctionOnSet(Unpaid', ShipEarnings(s)) =
               SumFunctionOnSet(Unpaid, ShipEarnings(s))
                 - (IF e \in ShipEarnings(s) THEN k ELSE 0)
    <2>1. s \in Shipment /\ s[2] = v BY DEF ShipsOf
    <2>2. IsFiniteSet(ShipEarnings(s)) /\ ShipEarnings(s) \subseteq VendorEarnings(v)
        BY <2>1, ShipEarningsParts
    <2> QED BY <1>2, <2>2, UnpaidMoves
<1>5. /\ pending[v] \in Int /\ balance[v] \in Int
      /\ SumFunctionOnSet(Unpaid, VendorEarnings(v)) \in Int
    BY AccountType
<1>6. /\ pending'[v] = SumFunctionOnSet(Unpaid', VendorEarnings(v)) + k
      /\ pending'[v] + balance'[v]
           = SumFunctionOnSet(Share, VendorEarnings(v)) - GivenFor(v)' - d
    BY <1>1, <1>3, <1>5 DEF Account
<1>7. \A s \in ShipsOf(v) :
        SumFunctionOnSet(Unpaid', ShipEarnings(s)) + given'[s] + (IF s = x THEN k + d ELSE 0)
          <= ShareOf(s)
    <2> SUFFICES ASSUME NEW s \in ShipsOf(v)
                 PROVE  SumFunctionOnSet(Unpaid', ShipEarnings(s)) + given'[s]
                          + (IF s = x THEN k + d ELSE 0) <= ShareOf(s)
        OBVIOUS
    <2>1. SumFunctionOnSet(Unpaid, ShipEarnings(s)) + given[s] + (IF s = x THEN 0 + d ELSE 0)
            <= ShareOf(s)
        BY DEF Account
    <2>2. /\ SumFunctionOnSet(Unpaid, ShipEarnings(s)) \in Int /\ given[s] \in Nat
          /\ ShareOf(s) \in Int /\ s \in Shipment
        BY AccountType
    <2>3. SumFunctionOnSet(Unpaid', ShipEarnings(s)) \in Int
        BY <2>2, UnpaidSums, ShipEarningsParts
    <2>4. given'[s] = given[s] OBVIOUS
    <2> QED BY <1>4, <2>1, <2>2, <2>3, <2>4
<1> QED BY <1>6, <1>7 DEF Account

\* The wallet pays what was taken.
LEMMA AccountWrites ==
    ASSUME TypeOK, TypeOK', given \in [Shipment -> Nat], given' \in [Shipment -> Nat],
           NEW v \in Vendor, NEW x, NEW t \in Int, NEW d \in Int, Account(v, x, t, d),
           pending'[v] = pending[v] - t, balance'[v] = balance[v],
           \A e \in VendorEarnings(v) : Unpaid'[e] = Unpaid[e],
           \A s \in ShipsOf(v) : given'[s] = given[s]
    PROVE  Account(v, x, 0, d + t)'
<1>1. GivenFor(v)' = GivenFor(v) BY GivenStays
<1>2. /\ SumFunctionOnSet(Unpaid', VendorEarnings(v)) =
           SumFunctionOnSet(Unpaid, VendorEarnings(v))
      /\ \A s \in ShipsOf(v) : SumFunctionOnSet(Unpaid', ShipEarnings(s)) =
                                 SumFunctionOnSet(Unpaid, ShipEarnings(s))
    BY UnpaidStays
<1>3. /\ pending[v] \in Int /\ balance[v] \in Int
      /\ SumFunctionOnSet(Unpaid, VendorEarnings(v)) \in Int
      /\ SumFunctionOnSet(Share, VendorEarnings(v)) \in Int /\ GivenFor(v) \in Int
    BY AccountType
<1>4. /\ pending[v] = SumFunctionOnSet(Unpaid, VendorEarnings(v)) + t
      /\ pending[v] + balance[v]
           = SumFunctionOnSet(Share, VendorEarnings(v)) - GivenFor(v) - d
    BY DEF Account
<1>5. pending'[v] = SumFunctionOnSet(Unpaid', VendorEarnings(v)) + 0
    BY <1>2, <1>3, <1>4
<1>6. pending'[v] + balance'[v]
        = SumFunctionOnSet(Share, VendorEarnings(v)) - GivenFor(v)' - (d + t)
    BY <1>1, <1>3, <1>4
<1>7. \A s \in ShipsOf(v) :
        SumFunctionOnSet(Unpaid', ShipEarnings(s)) + given'[s]
          + (IF s = x THEN 0 + (d + t) ELSE 0) <= ShareOf(s)
    <2>1. t + d = 0 + (d + t) OBVIOUS
    <2>2. \A s \in ShipsOf(v) :
            SumFunctionOnSet(Unpaid, ShipEarnings(s)) + given[s] + (IF s = x THEN t + d ELSE 0)
              <= ShareOf(s)
        BY DEF Account
    <2> QED BY ONLY <1>2, <2>1, <2>2, \A s \in ShipsOf(v) : given'[s] = given[s]
<1> QED BY <1>5, <1>6, <1>7 DEF Account

\* The balance pays what remains, if it covers it.
LEMMA AccountClaws ==
    ASSUME TypeOK, TypeOK', given \in [Shipment -> Nat], given' \in [Shipment -> Nat],
           NEW v \in Vendor, NEW x \in ShipsOf(v), NEW d \in Int, NEW r \in Int,
           Account(v, x, 0, d),
           SumFunctionOnSet(Unpaid, ShipEarnings(x)) + given[x] + (d + r) <= ShareOf(x),
           pending'[v] = pending[v], balance'[v] = balance[v] - r,
           \A e \in VendorEarnings(v) : Unpaid'[e] = Unpaid[e],
           \A s \in ShipsOf(v) : given'[s] = given[s]
    PROVE  Account(v, x, 0, d + r)'
<1>1. GivenFor(v)' = GivenFor(v) BY GivenStays
<1>2. /\ SumFunctionOnSet(Unpaid', VendorEarnings(v)) =
           SumFunctionOnSet(Unpaid, VendorEarnings(v))
      /\ \A s \in ShipsOf(v) : SumFunctionOnSet(Unpaid', ShipEarnings(s)) =
                                 SumFunctionOnSet(Unpaid, ShipEarnings(s))
    BY UnpaidStays
<1>3. /\ pending[v] \in Int /\ balance[v] \in Int
      /\ SumFunctionOnSet(Unpaid, VendorEarnings(v)) \in Int
      /\ SumFunctionOnSet(Share, VendorEarnings(v)) \in Int /\ GivenFor(v) \in Int
    BY AccountType
<1>4. /\ pending[v] = SumFunctionOnSet(Unpaid, VendorEarnings(v)) + 0
      /\ pending[v] + balance[v]
           = SumFunctionOnSet(Share, VendorEarnings(v)) - GivenFor(v) - d
    BY DEF Account
<1>5. pending'[v] = SumFunctionOnSet(Unpaid', VendorEarnings(v)) + 0
    BY <1>2, <1>3, <1>4
<1>6. pending'[v] + balance'[v]
        = SumFunctionOnSet(Share, VendorEarnings(v)) - GivenFor(v)' - (d + r)
    BY <1>1, <1>3, <1>4
<1>7. ASSUME NEW s \in ShipsOf(v)
      PROVE  SumFunctionOnSet(Unpaid', ShipEarnings(s)) + given'[s]
               + (IF s = x THEN 0 + (d + r) ELSE 0) <= ShareOf(s)
    <2>1. CASE s = x
        <3>1. 0 + (d + r) = d + r OBVIOUS
        <3> QED BY ONLY <1>2, <2>1, <3>1, s \in ShipsOf(v),
                   SumFunctionOnSet(Unpaid, ShipEarnings(x)) + given[x] + (d + r) <= ShareOf(x),
                   \A z \in ShipsOf(v) : given'[z] = given[z]
    <2>2. CASE s # x
        <3>1. SumFunctionOnSet(Unpaid, ShipEarnings(s)) + given[s] + 0 <= ShareOf(s)
            BY <2>2 DEF Account
        <3> QED BY ONLY <1>2, <2>2, <3>1, s \in ShipsOf(v),
                   \A z \in ShipsOf(v) : given'[z] = given[z]
    <2> QED BY <2>1, <2>2
<1> QED BY <1>5, <1>6, <1>7 DEF Account

\* The customer is given what the vendor paid.
LEMMA AccountRefunds ==
    ASSUME TypeOK, TypeOK', given \in [Shipment -> Nat], given' \in [Shipment -> Nat],
           NEW v \in Vendor, NEW x \in ShipsOf(v), NEW d \in Int, Account(v, x, 0, d),
           pending'[v] = pending[v], balance'[v] = balance[v],
           \A e \in VendorEarnings(v) : Unpaid'[e] = Unpaid[e],
           given'[x] = given[x] + d,
           \A s \in ShipsOf(v) : s # x => given'[s] = given[s]
    PROVE  Account(v, <<>>, 0, 0)'
<1>0. x \in Shipment BY DEF ShipsOf
<1>1. GivenFor(v)' = GivenFor(v) + d
    <2>1. /\ GivenFor(v) = SumFunctionOnSet(given, ShipsOf(v))
          /\ GivenFor(v)' = SumFunctionOnSet(given', ShipsOf(v))
        BY DEF GivenFor, ShipsOf
    <2>2. \A s \in ShipsOf(v) : given[s] \in Int /\ given'[s] \in Int BY DEF ShipsOf
    <2>3. SumFunctionOnSet(given', ShipsOf(v))
            = SumFunctionOnSet(given, ShipsOf(v)) + given'[x] - given[x]
        BY ONLY <2>2, ShipsFinite, x \in ShipsOf(v), SumUpdate,
                \A s \in ShipsOf(v) : s # x => given'[s] = given[s]
    <2>4. GivenFor(v) \in Int /\ given[x] \in Int BY <1>0, <2>2, GivenType
    <2> QED BY <2>1, <2>3, <2>4
<1>2. /\ SumFunctionOnSet(Unpaid', VendorEarnings(v)) =
           SumFunctionOnSet(Unpaid, VendorEarnings(v))
      /\ \A s \in ShipsOf(v) : SumFunctionOnSet(Unpaid', ShipEarnings(s)) =
                                 SumFunctionOnSet(Unpaid, ShipEarnings(s))
    BY UnpaidStays
<1>3. /\ pending[v] \in Int /\ balance[v] \in Int
      /\ SumFunctionOnSet(Unpaid, VendorEarnings(v)) \in Int
      /\ SumFunctionOnSet(Share, VendorEarnings(v)) \in Int /\ GivenFor(v) \in Int
    BY AccountType
<1>4. /\ pending[v] = SumFunctionOnSet(Unpaid, VendorEarnings(v)) + 0
      /\ pending[v] + balance[v]
           = SumFunctionOnSet(Share, VendorEarnings(v)) - GivenFor(v) - d
    BY DEF Account
<1>5. pending'[v] = SumFunctionOnSet(Unpaid', VendorEarnings(v)) + 0
    BY <1>2, <1>3, <1>4
<1>6. pending'[v] + balance'[v]
        = SumFunctionOnSet(Share, VendorEarnings(v)) - GivenFor(v)' - 0
    BY <1>1, <1>3, <1>4
<1>7. ASSUME NEW s \in ShipsOf(v)
      PROVE  SumFunctionOnSet(Unpaid', ShipEarnings(s)) + given'[s]
               + (IF s = <<>> THEN 0 + 0 ELSE 0) <= ShareOf(s)
    <2>1. (IF s = <<>> THEN 0 + 0 ELSE 0) = 0 OBVIOUS
    <2>2. /\ SumFunctionOnSet(Unpaid, ShipEarnings(s)) \in Int /\ given[s] \in Nat
          /\ ShareOf(s) \in Int
        BY AccountType
    <2>3. SumFunctionOnSet(Unpaid, ShipEarnings(s)) + given[s] + (IF s = x THEN 0 + d ELSE 0)
            <= ShareOf(s)
        BY DEF Account
    <2>4. CASE s = x BY <1>2, <2>1, <2>2, <2>3, <2>4
    <2>5. CASE s # x BY <1>2, <2>1, <2>2, <2>3, <2>5
    <2> QED BY <2>4, <2>5
<1> QED BY <1>5, <1>6, <1>7 DEF Account

\* When no shipment is charged more than its earnings were worth, the balance covers
\* what the shipment's earnings did not.
LEMMA BalanceCovers ==
    ASSUME TypeOK, given \in [Shipment -> Nat], NEW v \in Vendor, NEW x \in ShipsOf(v),
           NEW d \in Int, NEW r \in Int, Account(v, x, 0, d),
           SumFunctionOnSet(Unpaid, ShipEarnings(x)) + given[x] + (d + r) <= ShareOf(x)
    PROVE  r <= balance[v]
<1> DEFINE P == [s \in ShipsOf(v) |-> ShipEarnings(s)]
           U == [s \in ShipsOf(v) |-> SumFunctionOnSet(Unpaid, P[s])]
           S == [s \in ShipsOf(v) |-> SumFunctionOnSet(Share, P[s])]
           u == Unpaid
           f == [s \in ShipsOf(v) |-> U[s] + given[s]]
           g == [s \in ShipsOf(v) |-> U[s] + given[s] + (IF s = x THEN d + r ELSE 0)]
<1>1. \A s \in ShipsOf(v) : /\ P[s] = ShipEarnings(s) /\ IsFiniteSet(P[s])
                            /\ P[s] \subseteq Earning /\ P[s] \subseteq VendorEarnings(v)
    BY ShipEarningsParts DEF ShipsOf
<1>2. \A s, z \in ShipsOf(v) : s # z => P[s] \cap P[z] = {}
    <2> SUFFICES ASSUME NEW s \in ShipsOf(v), NEW z \in ShipsOf(v), NEW e,
                        e \in P[s], e \in P[z]
                 PROVE  s = z
        OBVIOUS
    <2>1. /\ s \in Shipment /\ z \in Shipment /\ s[2] = v /\ z[2] = v
          /\ s \in Order \X Vendor /\ z \in Order \X Vendor
        BY DEF ShipsOf, Shipment
    <2>2. e \in ShipEarnings(s) /\ e \in ShipEarnings(z) BY <1>1
    <2> HIDE DEF P, U, S, f, g, u
    <2>3. OrderOf[e[1]] = s[1]
        <3>1. ShipEarnings(s) = {a \in VendorEarnings(s[2]) : OrderOf[a[1]] = s[1]}
            BY ONLY <2>1, ShipEarningsParts
        <3> QED BY ONLY <2>2, <3>1
    <2>4. OrderOf[e[1]] = z[1]
        <3>1. ShipEarnings(z) = {a \in VendorEarnings(z[2]) : OrderOf[a[1]] = z[1]}
            BY ONLY <2>1, ShipEarningsParts
        <3> QED BY ONLY <2>2, <3>1
    <2>5. s = <<s[1], s[2]>> /\ z = <<z[1], z[2]>> BY ONLY <2>1
    <2> QED BY ONLY <2>1, <2>3, <2>4, <2>5
<1>3. UNION {P[s] : s \in ShipsOf(v)} = VendorEarnings(v)
    <2>1. ASSUME NEW e \in VendorEarnings(v) PROVE \E s \in ShipsOf(v) : e \in P[s]
        <3>1. e \in EarningsFor(v) /\ e \in EarningsOf(e[1]) BY VendorEarningsParts
        <3>2. e[1] \in Item /\ VendorOf[e[1]] = v BY <3>1 DEF EarningsFor, Earning
        <3> DEFINE s == <<OrderOf[e[1]], v>>
        <3>3. s \in Shipment /\ s[2] = v /\ s[1] = OrderOf[e[1]]
            BY <3>2, EarningsAssumption DEF Shipment, VendorsOf, ItemsOf
        <3>4. s \in ShipsOf(v) BY <3>3 DEF ShipsOf
        <3>5. e \in ShipEarnings(s) BY <3>3, ShipEarningsParts
        <3> QED BY <3>4, <3>5
    <2> QED BY <1>1, <2>1
<1>4. /\ \A e \in Earning : u[e] \in Int /\ Share[e] \in Int
      /\ IsFiniteSet(ShipsOf(v))
    BY UnpaidType, ShareType, ShipsFinite
<1> HIDE DEF P, u
<1>5. SumFunctionOnSet(u, VendorEarnings(v)) =
        SumFunctionOnSet([s \in ShipsOf(v) |-> SumFunctionOnSet(u, P[s])], ShipsOf(v))
    BY ONLY <1>1, <1>2, <1>3, <1>4, SumOfSums
<1>6. SumFunctionOnSet(Share, VendorEarnings(v)) =
        SumFunctionOnSet([s \in ShipsOf(v) |-> SumFunctionOnSet(Share, P[s])], ShipsOf(v))
    BY ONLY <1>1, <1>2, <1>3, <1>4, SumOfSums
<1>7. \A s \in ShipsOf(v) :
        /\ U[s] = SumFunctionOnSet(Unpaid, ShipEarnings(s)) /\ U[s] \in Int
        /\ S[s] = ShareOf(s) /\ S[s] \in Int
        /\ given[s] \in Int
    BY <1>1, AccountType DEF ShareOf
<1>8. /\ SumFunctionOnSet(Unpaid, VendorEarnings(v)) = SumFunctionOnSet(U, ShipsOf(v))
      /\ SumFunctionOnSet(Share, VendorEarnings(v)) = SumFunctionOnSet(S, ShipsOf(v))
    BY <1>5, <1>6 DEF u
<1>9. \A s \in ShipsOf(v) : /\ f[s] = U[s] + given[s] /\ f[s] \in Int
                            /\ g[s] = f[s] + (IF s = x THEN d + r ELSE 0) /\ g[s] \in Int
    BY <1>7
<1>10. \A s \in ShipsOf(v) : g[s] <= S[s]
    <2> SUFFICES ASSUME NEW s \in ShipsOf(v) PROVE g[s] <= S[s] OBVIOUS
    <2>1. CASE s = x
        BY <1>7, <1>9, <2>1
    <2>2. CASE s # x
        <3>1. SumFunctionOnSet(Unpaid, ShipEarnings(s)) + given[s] + 0 <= ShareOf(s)
            BY <2>2 DEF Account
        <3> QED BY <1>7, <1>9, <2>2, <3>1
    <2> QED BY <2>1, <2>2
<1> HIDE DEF U, S, f, g
<1>11. SumFunctionOnSet(g, ShipsOf(v)) <= SumFunctionOnSet(S, ShipsOf(v))
    BY ONLY <1>4, <1>7, <1>9, <1>10, SumMonotone
<1>12. SumFunctionOnSet(f, ShipsOf(v))
         = SumFunctionOnSet(U, ShipsOf(v)) + SumFunctionOnSet(given, ShipsOf(v))
    BY ONLY <1>4, <1>7, <1>9, SumPlus
<1>13. SumFunctionOnSet(g, ShipsOf(v)) = SumFunctionOnSet(f, ShipsOf(v)) + g[x] - f[x]
    <2>1. \A s \in ShipsOf(v) : s # x => g[s] = f[s] BY <1>9
    <2>2. \A s \in ShipsOf(v) : f[s] \in Int /\ g[s] \in Int BY <1>9
    <2>3. IsFiniteSet(ShipsOf(v)) BY <1>4
    <2> QED BY ONLY <2>1, <2>2, <2>3, x \in ShipsOf(v), SumUpdate
<1>14. /\ SumFunctionOnSet(U, ShipsOf(v)) \in Int /\ SumFunctionOnSet(S, ShipsOf(v)) \in Int
       /\ SumFunctionOnSet(given, ShipsOf(v)) = GivenFor(v) /\ GivenFor(v) \in Int
       /\ pending[v] \in Int /\ balance[v] \in Int
    BY <1>8, AccountType, GivenType
<1>15. /\ pending[v] = SumFunctionOnSet(U, ShipsOf(v)) + 0
       /\ pending[v] + balance[v] = SumFunctionOnSet(S, ShipsOf(v)) - GivenFor(v) - d
    BY <1>8 DEF Account
<1>16. g[x] = f[x] + (d + r) /\ f[x] \in Int BY <1>9
<1> QED BY <1>11, <1>12, <1>13, <1>14, <1>15, <1>16

\* No older copy was used for a shipment of v.
Clean(v) == \A s \in ShipsOf(v) : s \notin rewritten

\* While a run charges v, and while none does.
AccountInv(v) ==
    /\ (\A n \in Run : ~ Charging(n, v)) => Account(v, <<>>, 0, 0)
    /\ \A n \in Run : Charging(n, v) =>
         Account(v, pen[n].p.seen.shipment, Taken(pen[n]), Deducted(pen[n]))

\* Every earning of v was recorded, and none of them is below zero.
DocsOf(v) ==
    \A e \in EarningsFor(v) :
      IF e \in EarningsOf(e[1])
      THEN created[e] > 0 /\ doc[e].state \in {"held", "released"} /\ doc[e].net >= 0
      ELSE doc[e].state = "none"

RecordedApart(v) ==
    \A p \in Recorder : rec[p].pc = "items" => \A i \in rec[p].todo : VendorOf[i] # v

\* The release runs know what they are about to pay v, and pay an earning once.
Crediting(w, v) == rel[w].pc = "claimed" /\ VendorOf[rel[w].cur.earning[1]] = v

JobsOf(v) ==
    /\ \A w \in Releaser : \A j \in rel[w].todo :
         VendorOf[j.earning[1]] = v => j.net = doc[j.earning].net
    /\ \A w \in Releaser : Crediting(w, v) =>
         /\ rel[w].cur.net = doc[rel[w].cur.earning].net
         /\ doc[rel[w].cur.earning].state = "released"
    /\ \A w, x \in Releaser :
         Crediting(w, v) /\ Crediting(x, v) /\ rel[w].cur.earning = rel[x].cur.earning => w = x

\* What a run that charges v knows of its earnings and its wallet; what it has
\* not visited or emptied is only left aside when nothing remains to be paid.
ChargeOk(v, q) ==
    /\ q.pc \in {"take", "wallet", "write"} =>
         /\ \A j \in q.p.jobs : doc[j.earning].state = "held" /\ j.net = doc[j.earning].net
         /\ \A e \in ShipEarnings(q.p.seen.shipment) : doc[e].state = "held" =>
              doc[e].net = 0 \/ JobOf(e) \in q.p.jobs \/ q.p.remaining = Taken(q)
    /\ q.pc \in {"clawRead", "clawWrite"} =>
         \A e \in ShipEarnings(q.p.seen.shipment) : doc[e].state = "held" => doc[e].net = 0
    /\ q.pc = "write" => q.p.pending = pending[v]
    /\ q.pc = "clawWrite" => q.p.balance = balance[v]

VendorInv(v) ==
    /\ ~ Meets(v)
    /\ DocsOf(v) /\ RecordedApart(v) /\ JobsOf(v)
    /\ \A n \in Run : Charging(n, v) => ChargeOk(v, pen[n])
    /\ Clean(v) => AccountInv(v)

\* What vendor v sees of the release runs stays, but for new jobs.
SameRelease(v) ==
    \A w \in Releaser :
      /\ Crediting(w, v)' <=> Crediting(w, v)
      /\ Crediting(w, v) => rel'[w].cur = rel[w].cur
      /\ \A j \in rel'[w].todo : VendorOf[j.earning[1]] = v =>
           j \in rel[w].todo \/ j.net = doc[j.earning].net

\* A run works on earnings of its shipment, and has paid nothing before it charges.
RunJobs ==
    \A n \in Run : pen[n].pc \in Working =>
      /\ \A j \in pen[n].p.jobs : j.earning \in ShipEarnings(pen[n].p.seen.shipment)
      /\ pen[n].pc \in {"save", "find"} => pen[n].p.remaining = pen[n].p.due

\* Which sets of a vendor's earnings are part of which.
LEMMA VendorParts ==
    ASSUME NEW v
    PROVE  /\ VendorEarnings(v) \subseteq EarningsFor(v)
           /\ \A s \in ShipsOf(v) : /\ ShipEarnings(s) \subseteq EarningsFor(v)
                                    /\ ShipEarnings(s) \subseteq VendorEarnings(v)
           /\ EarningsFor(v) \subseteq Earning
<1>1. \A s \in ShipsOf(v) : s \in Shipment /\ s[2] = v BY DEF ShipsOf
<1> QED BY <1>1, VendorEarningsParts, ShipEarningsParts, EarningsForFinite

\* A step beside the accounts of v.
LEMMA VendorKept ==
    ASSUME LateInv, LateInv', RunJobs, NEW v \in Vendor, VendorInv(v), ~ Meets(v)',
           rewritten \subseteq rewritten', RecordedApart(v)', SameRelease(v),
           pending'[v] = pending[v], balance'[v] = balance[v],
           \A e \in EarningsFor(v) : /\ doc'[e].state = doc[e].state
                                     /\ doc'[e].net = doc[e].net /\ created'[e] = created[e],
           \A s \in ShipsOf(v) : given'[s] = given[s],
           \A n \in Run : pen'[n] = pen[n] \/ (~ Charging(n, v) /\ ~ Charging(n, v)')
    PROVE  VendorInv(v)'
<1>0. /\ given \in [Shipment -> Nat] /\ given' \in [Shipment -> Nat]
      /\ rel \in [Releaser -> RelState] /\ TypeOK
    BY DEF LateInv, LateTypeOK, TypeOK
<1>1. DocsOf(v)' BY DEF DocsOf, VendorInv, EarningsFor
<1>2. JobsOf(v)'
    <2>1. \A w \in Releaser : \A j \in rel'[w].todo :
            VendorOf[j.earning[1]] = v => j.net = doc'[j.earning].net
        <3> SUFFICES ASSUME NEW w \in Releaser, NEW j \in rel'[w].todo,
                            VendorOf[j.earning[1]] = v
                     PROVE  j.net = doc'[j.earning].net
            OBVIOUS
        <3>0. rel'[w] \in RelState BY DEF LateInv, LateTypeOK, TypeOK
        <3>1. j \in Job /\ j.earning \in Earning BY <3>0 DEF RelState, Idle, Job
        <3>2. j.net = doc[j.earning].net BY DEF SameRelease, VendorInv, JobsOf
        <3>3. j.earning \in EarningsFor(v) BY <3>1 DEF EarningsFor
        <3> QED BY <3>2, <3>3
    <2>2. \A w \in Releaser : Crediting(w, v) => rel[w].cur.earning \in EarningsFor(v)
        BY <1>0, RelCur DEF Crediting, EarningsFor
    <2>3. \A w \in Releaser : Crediting(w, v)' =>
            /\ rel'[w].cur.net = doc'[rel'[w].cur.earning].net
            /\ doc'[rel'[w].cur.earning].state = "released"
        BY <2>2 DEF SameRelease, VendorInv, JobsOf
    <2>4. \A w, x \in Releaser :
            Crediting(w, v)' /\ Crediting(x, v)' /\ rel'[w].cur.earning = rel'[x].cur.earning
              => w = x
        BY DEF SameRelease, VendorInv, JobsOf
    <2> QED BY <2>1, <2>3, <2>4 DEF JobsOf
<1>3. ASSUME NEW n \in Run, Charging(n, v)' PROVE Charging(n, v) /\ pen'[n] = pen[n]
    BY <1>3 DEF Charging
<1>4. ASSUME NEW n \in Run, Charging(n, v)' PROVE ChargeOk(v, pen[n])'
    <2>1. ChargeOk(v, pen[n]) /\ pen'[n] = pen[n] BY <1>3, <1>4 DEF VendorInv
    <2>2. \A e \in ShipEarnings(pen[n].p.seen.shipment) : e \in EarningsFor(v)
        <3>1. pen[n].p.seen.shipment[2] = v BY <1>3, <1>4 DEF Charging
        <3>2. \A e \in ShipEarnings(pen[n].p.seen.shipment) : e \in Earning
            BY OrderEarningsType DEF ShipEarnings
        <3> QED BY <3>1, <3>2 DEF ShipEarnings, EarningsFor
    <2>3. \A j \in pen[n].p.jobs : j.earning \in EarningsFor(v)
        <3>1. pen[n].pc \in Working BY <1>3, <1>4 DEF Charging, Working
        <3> QED BY <2>2, <3>1 DEF RunJobs
    <2>4. \A e \in EarningsFor(v) : JobOf(e)' = JobOf(e) BY DEF JobOf
    <2> QED BY <2>1, <2>2, <2>3, <2>4 DEF ChargeOk, Taken
<1>5. \A e \in VendorEarnings(v) : Unpaid'[e] = Unpaid[e]
    <2>1. \A e \in VendorEarnings(v) : e \in EarningsFor(v) /\ e \in Earning BY VendorParts
    <2>2. ASSUME NEW e \in EarningsFor(v) PROVE InCredit(e)' <=> InCredit(e)
        <3>1. VendorOf[e[1]] = v BY DEF EarningsFor
        <3>2. \A w \in Releaser :
                (rel'[w].pc = "claimed" /\ rel'[w].cur.earning = e)
                  <=> (rel[w].pc = "claimed" /\ rel[w].cur.earning = e)
            BY <3>1 DEF SameRelease, Crediting
        <3> QED BY <3>2 DEF InCredit
    <2> QED BY <2>1, <2>2 DEF Unpaid
<1>6. Untouched(v) BY <1>5 DEF Untouched
<1>7. ASSUME Clean(v)' PROVE AccountInv(v)'
    <2>1. AccountInv(v) BY <1>7 DEF Clean, VendorInv
    <2>2. ASSUME \A n \in Run : ~ Charging(n, v)' PROVE Account(v, <<>>, 0, 0)'
        <3>1. \A n \in Run : ~ Charging(n, v) BY <2>2 DEF Charging
        <3> QED BY <1>0, <1>6, <2>1, <3>1, AccountKept DEF AccountInv
    <2>3. ASSUME NEW n \in Run, Charging(n, v)'
          PROVE  Account(v, pen[n].p.seen.shipment, Taken(pen[n]), Deducted(pen[n]))'
        <3> DEFINE q == pen[n]
        <3>1. Charging(n, v) /\ pen'[n] = pen[n] BY <1>3, <2>3
        <3>2. PICK x, t, d : /\ x = pen[n].p.seen.shipment
                             /\ t = Taken(pen[n]) /\ d = Deducted(pen[n])
            OBVIOUS
        <3>3. Account(v, x, t, d) BY <2>1, <3>1, <3>2 DEF AccountInv
        <3>4. Account(v, x, t, d)' BY <1>0, <1>6, <3>3, AccountKept
        <3>5. /\ x = pen'[n].p.seen.shipment
              /\ t = Taken(pen[n])' /\ d = Deducted(pen[n])'
            BY <3>1, <3>2 DEF Taken, Deducted
        <3> QED BY <3>4, <3>5 DEF Account
    <2> QED BY <2>2, <2>3 DEF AccountInv
<1> QED BY <1>1, <1>2, <1>4, <1>7 DEF VendorInv

\* What a run that charges v holds.
LEMMA ChargeParts ==
    ASSUME LateInv, RunJobs, NEW v \in Vendor, NEW n \in Run, Charging(n, v)
    PROVE  /\ pen[n] \in [pc: Working, todo: SUBSET Seen, p: Penalty]
           /\ pen[n].p.seen.shipment \in ShipsOf(v)
           /\ pen[n].p.seen.shipment \in Shipment /\ pen[n].p.seen.shipment[2] = v
           /\ pen[n].p.remaining \in Nat /\ pen[n].p.due \in Nat /\ pen[n].p.take \in Nat
           /\ pen[n].p.pending \in Int /\ pen[n].p.balance \in Int
           /\ Taken(pen[n]) \in Nat /\ Deducted(pen[n]) \in Int
           /\ \A j \in pen[n].p.jobs :
                /\ j \in Job /\ j.net \in Int
                /\ j.earning \in ShipEarnings(pen[n].p.seen.shipment)
                /\ j.earning \in VendorEarnings(v) /\ j.earning \in EarningsFor(v)
                /\ j.earning \in Earning
<1>1. pen \in [Run -> PenState] BY DEF LateInv, LateTypeOK
<1>2. pen[n].pc \in Working /\ pen[n].p.seen.shipment[2] = v BY DEF Charging, Working
<1>3. pen[n] \in [pc: Working, todo: SUBSET Seen, p: Penalty] BY <1>1, <1>2, PenParts
<1>4. /\ pen[n].p \in Penalty /\ pen[n].p.seen.shipment \in Shipment
      /\ pen[n].p.remaining \in Nat /\ pen[n].p.due \in Nat /\ pen[n].p.take \in Nat
      /\ pen[n].p.pending \in Int /\ pen[n].p.balance \in Int
      /\ pen[n].p.jobs \subseteq Job
    BY <1>3 DEF Penalty, Seen
<1>5. pen[n].p.seen.shipment \in ShipsOf(v) BY <1>2, <1>4 DEF ShipsOf
<1>6. Taken(pen[n]) \in Nat /\ Deducted(pen[n]) \in Int BY <1>4 DEF Taken, Deducted
<1>7. ASSUME NEW j \in pen[n].p.jobs
      PROVE  /\ j \in Job /\ j.net \in Int
             /\ j.earning \in ShipEarnings(pen[n].p.seen.shipment)
             /\ j.earning \in VendorEarnings(v) /\ j.earning \in EarningsFor(v)
             /\ j.earning \in Earning
    <2>1. j \in Job BY <1>4
    <2>2. j.earning \in ShipEarnings(pen[n].p.seen.shipment) BY <1>2 DEF RunJobs
    <2> QED BY <1>5, <2>1, <2>2, VendorParts, JobParts
<1> QED BY <1>2, <1>3, <1>4, <1>5, <1>6, <1>7

\* A run that charges v is alone with its money.
LEMMA ChargesAlone ==
    ASSUME NEW v, ~ Meets(v), NEW n \in Run, Charging(n, v)
    PROVE  /\ \A m \in Run : Charging(m, v) => m = n
           /\ \A w \in Releaser : ~ Releasing(w, v)
BY DEF Meets

\* A step of the run that charges v.
LEMMA ChargeMoves ==
    ASSUME NEW v \in Vendor, NEW n \in Run, VendorInv(v), ~ Meets(v)', Charging(n, v)',
           rewritten \subseteq rewritten', UNCHANGED <<rec, rel, created>>,
           \A e \in EarningsFor(v) :
             doc'[e].state = doc[e].state /\ (doc[e].net >= 0 => doc'[e].net >= 0),
           ChargeOk(v, pen[n])',
           Clean(v) => Account(v, pen[n].p.seen.shipment, Taken(pen[n]), Deducted(pen[n]))'
    PROVE  VendorInv(v)'
<1>1. /\ \A m \in Run : Charging(m, v)' => m = n
      /\ \A w \in Releaser : ~ Releasing(w, v)'
    BY DEF Meets
<1>2. DocsOf(v)' BY DEF DocsOf, VendorInv, EarningsFor
<1>3. JobsOf(v)' BY <1>1 DEF JobsOf, Releasing, Crediting
<1>4. RecordedApart(v)' BY DEF RecordedApart, VendorInv
<1>5. Clean(v)' => Clean(v) BY DEF Clean, ShipsOf
<1>6. Clean(v)' => AccountInv(v)' BY <1>1, <1>5 DEF AccountInv
<1> QED BY <1>1, <1>2, <1>3, <1>4, <1>6 DEF VendorInv

\* The accounts of v while run n charges it.
LEMMA ChargeAccount ==
    ASSUME NEW v, NEW n \in Run, VendorInv(v), Charging(n, v), Clean(v)
    PROVE  Account(v, pen[n].p.seen.shipment, Taken(pen[n]), Deducted(pen[n]))
BY DEF VendorInv, AccountInv

\* The charge begins: the unreleased earnings of the shipment are found.
LEMMA FindHeldBorne ==
    ASSUME LateInv, LateInv', RunJobs, NEW v \in Vendor, VendorInv(v), ~ Meets(v)',
           NEW n \in Run, LateFindHeld(n), pen[n].p.seen.shipment[2] = v
    PROVE  VendorInv(v)'
<1> DEFINE s == pen[n].p.seen.shipment
           held == {e \in OrderEarnings(s[1]) : VendorOf[e[1]] = s[2] /\ doc[e].state = "held"}
           jobs == {JobOf(e) : e \in held}
<1>0. /\ pen \in [Run -> PenState] /\ pen[n].pc \in Working
      /\ given \in [Shipment -> Nat] /\ given' \in [Shipment -> Nat]
    BY DEF LateInv, LateTypeOK, LateFindHeld, Working
<1>1. /\ pen[n] \in [pc: Working, todo: SUBSET Seen, p: Penalty]
      /\ pen[n].p.remaining \in Nat
    BY <1>0, PenParts DEF Penalty
<1>2. /\ pen' = [pen EXCEPT ![n].pc = "take", ![n].p.jobs = jobs]
      /\ UNCHANGED vars /\ UNCHANGED <<given, rewritten>>
    BY DEF LateFindHeld, chargeFrame, histVars
<1> HIDE DEF jobs
<1>3. /\ pen'[n].pc = "take" /\ pen'[n].p.jobs = jobs /\ pen'[n].p.seen.shipment = s
      /\ pen'[n].p.remaining = pen[n].p.remaining /\ pen'[n].p.due = pen[n].p.due
      /\ \A m \in Run : m # n => pen'[m] = pen[m]
    BY <1>0, <1>1, <1>2 DEF Penalty, Working
<1>4. UNCHANGED <<rec, rel, created, doc, pending, balance>>
    BY <1>2 DEF vars, walletVars
<1>5. Charging(n, v)' BY <1>3 DEF Charging
<1>6. \A m \in Run : ~ Charging(m, v)
    <2>1. \A m \in Run : Charging(m, v)' => m = n BY <1>5 DEF Meets
    <2>2. ~ Charging(n, v) BY DEF Charging, LateFindHeld
    <2> QED BY <1>3, <2>1, <2>2 DEF Charging
<1>7. /\ ShipEarnings(s) \subseteq Earning
      /\ \A e \in ShipEarnings(s) : doc[e].state = "held" => JobOf(e) \in jobs
      /\ \A j \in jobs : doc[j.earning].state = "held" /\ j.net = doc[j.earning].net
    BY OrderEarningsType DEF jobs, ShipEarnings, JobOf
<1>8. ChargeOk(v, pen[n])'
    <2>1. \A e : JobOf(e)' = JobOf(e) BY <1>4 DEF JobOf
    <2> QED BY <1>3, <1>4, <1>7, <2>1 DEF ChargeOk
<1>9. ASSUME Clean(v)
      PROVE  Account(v, pen[n].p.seen.shipment, Taken(pen[n]), Deducted(pen[n]))'
    <2>1. Account(v, <<>>, 0, 0) BY <1>6, <1>9 DEF VendorInv, AccountInv
    <2>2. PICK x : x = s OBVIOUS
    <2>3. Account(v, x, 0, 0) BY <2>1, AccountEnters
    <2>4. Untouched(v) BY <1>2, <1>4 DEF Untouched, Unpaid, InCredit
    <2>5. Account(v, x, 0, 0)' BY <1>0, <2>3, <2>4, AccountKept
    <2>6. Taken(pen[n])' = 0 /\ Deducted(pen[n])' = 0
        <3>1. pen[n].p.remaining = pen[n].p.due BY <1>0 DEF RunJobs, LateFindHeld
        <3> QED BY <1>1, <1>3, <3>1 DEF Taken, Deducted
    <2> QED BY <1>3, <2>2, <2>5, <2>6 DEF Account
<1>10. rewritten \subseteq rewritten' BY <1>2
<1> QED BY <1>4, <1>5, <1>8, <1>9, <1>10, ChargeMoves

\* An earning gives what it has, up to what remains.
LEMMA TakeBorne ==
    ASSUME LateInv, LateInv', RunJobs, NEW v \in Vendor, VendorInv(v), ~ Meets(v)',
           NEW n \in Run, Charging(n, v), NEW j \in pen[n].p.jobs, LateTake(n, j)
    PROVE  VendorInv(v)'
<1> DEFINE p == pen[n].p
           s == pen[n].p.seen.shipment
           e == j.earning
           take == Min({p.remaining, j.net})
<1>0. /\ TypeOK /\ TypeOK' /\ pen \in [Run -> PenState] /\ doc \in [Earning -> Doc]
      /\ given \in [Shipment -> Nat] /\ given' \in [Shipment -> Nat]
    BY DEF LateInv, LateTypeOK, TypeOK
<1>1. /\ pen[n] \in [pc: Working, todo: SUBSET Seen, p: Penalty]
      /\ s \in ShipsOf(v) /\ s[2] = v
      /\ p.remaining \in Nat /\ p.due \in Nat /\ p.take \in Nat
      /\ j.net \in Int /\ e \in ShipEarnings(s) /\ e \in VendorEarnings(v) /\ e \in Earning
      /\ \A i \in p.jobs : i \in Job /\ i.earning \in ShipEarnings(s) /\ i.earning \in Earning
    BY ChargeParts
<1>2. /\ pen[n].pc = "take" /\ p.remaining > 0
      /\ UNCHANGED <<rec, rel, created, pending, balance, given, rewritten>>
    BY DEF LateTake, walletVars, chargeFrame, histVars
<1>3. take \in Int /\ take \in {p.remaining, j.net} /\ take <= p.remaining /\ take <= j.net
    <2>1. p.remaining \in Int /\ j.net \in Int BY <1>1
    <2>2. take \in {p.remaining, j.net} /\ take <= p.remaining /\ take <= j.net
        BY <2>1, MinOfTwo, Zenon
    <2> QED BY <2>1, <2>2
<1>4. /\ \A i \in p.jobs : doc[i.earning].state = "held" /\ i.net = doc[i.earning].net
      /\ \A f \in ShipEarnings(s) : doc[f].state = "held" =>
           doc[f].net = 0 \/ JobOf(f) \in p.jobs \/ p.remaining = Taken(pen[n])
      /\ Taken(pen[n]) = 0
    BY <1>2 DEF VendorInv, ChargeOk, Taken
<1>5. doc[e].state = "held" /\ j.net = doc[e].net /\ j.net >= 0
    <2>1. e \in EarningsFor(v) BY <1>1, VendorParts
    <2> QED BY <1>4, <2>1 DEF VendorInv, DocsOf
<1>6. \A f \in ShipEarnings(s) : f # e => JobOf(f) # j BY DEF JobOf
<1>7. rewritten \subseteq rewritten' BY <1>2
<1>8. \A f \in ShipEarnings(s) : f \in Earning BY <1>1, VendorParts
<1>9. Clean(v) => Account(v, s, 0, p.due - p.remaining)
    BY <1>2, <1>4, ChargeAccount DEF Deducted
<1>10. CASE take <= 0
    <2>1. /\ pen' = [pen EXCEPT ![n].p.jobs = @ \ {j}] /\ UNCHANGED doc
        BY <1>10 DEF LateTake
    <2> HIDE DEF take
    <2>2. /\ pen'[n].pc = "take" /\ pen'[n].p.jobs = p.jobs \ {j}
          /\ pen'[n].p.seen.shipment = s
          /\ pen'[n].p.remaining = p.remaining /\ pen'[n].p.due = p.due
          /\ \A m \in Run : m # n => pen'[m] = pen[m]
        BY <1>0, <1>1, <1>2, <2>1 DEF Penalty, Working
    <2>3. j.net = 0 BY <1>1, <1>2, <1>3, <1>5, <1>10
    <2>4. Charging(n, v)' BY <1>1, <2>2 DEF Charging
    <2>5. ChargeOk(v, pen[n])'
        <3>1. \A f : JobOf(f)' = JobOf(f) BY <2>1 DEF JobOf
        <3>2. \A f \in ShipEarnings(s) : doc[f].state = "held" =>
                doc[f].net = 0 \/ JobOf(f) \in p.jobs \ {j}
            BY <1>1, <1>2, <1>4, <1>5, <1>6, <2>3
        <3> QED BY <1>4, <2>1, <2>2, <3>1, <3>2 DEF ChargeOk
    <2>6. ASSUME Clean(v)
          PROVE  Account(v, pen[n].p.seen.shipment, Taken(pen[n]), Deducted(pen[n]))'
        <3>1. PICK x, d : x = s /\ d = p.due - p.remaining OBVIOUS
        <3>2. Untouched(v) BY <1>2, <2>1 DEF Untouched, Unpaid, InCredit
        <3>3. Account(v, x, 0, d)' BY <1>0, <1>9, <2>6, <3>1, <3>2, AccountKept
        <3>4. Taken(pen[n])' = 0 /\ Deducted(pen[n])' = d
            BY <2>2, <3>1 DEF Taken, Deducted
        <3> QED BY <2>2, <3>1, <3>3, <3>4 DEF Account
    <2> QED BY <1>2, <1>7, <2>1, <2>2, <2>4, <2>5, <2>6, ChargeMoves
<1>11. CASE take > 0
    <2>0. ~ (take <= 0) BY <1>3, <1>11
    <2>1. /\ pen' = [pen EXCEPT ![n].pc = "wallet", ![n].p.jobs = @ \ {j}, ![n].p.take = take]
          /\ doc' = [doc EXCEPT ![e].net = j.net - take]
        BY <1>5, <2>0 DEF LateTake
    <2> HIDE DEF take
    <2>2. /\ pen'[n].pc = "wallet" /\ pen'[n].p.jobs = p.jobs \ {j}
          /\ pen'[n].p.seen.shipment = s /\ pen'[n].p.take = take
          /\ pen'[n].p.remaining = p.remaining /\ pen'[n].p.due = p.due
          /\ \A m \in Run : m # n => pen'[m] = pen[m]
        BY <1>0, <1>1, <1>2, <2>1 DEF Penalty, Working
    <2>3. /\ \A f \in Earning : f # e => doc'[f] = doc[f]
          /\ doc'[e].state = "held" /\ doc'[e].net = j.net - take /\ doc'[e].net >= 0
        BY <1>0, <1>1, <1>3, <1>5, <2>1 DEF Doc
    <2>4. Charging(n, v)' BY <1>1, <2>2 DEF Charging
    <2>5. ChargeOk(v, pen[n])'
        <3>1. \A f \in Earning : f # e => JobOf(f)' = JobOf(f) BY <2>3 DEF JobOf
        <3>2. \A i \in p.jobs \ {j} : i.earning # e /\ i.earning \in Earning
            BY <1>1, <1>4, <1>5 DEF Job
        <3>3. \A i \in p.jobs \ {j} : doc'[i.earning].state = "held"
                                   /\ i.net = doc'[i.earning].net
            BY <1>4, <2>3, <3>2
        <3>4. ASSUME NEW f \in ShipEarnings(s), doc'[f].state = "held"
              PROVE  \/ doc'[f].net = 0 \/ JobOf(f)' \in p.jobs \ {j}
                     \/ p.remaining = take
            <4>1. CASE f = e BY <1>1, <1>3, <2>3, <4>1
            <4>2. CASE f # e
                <5>1. f \in Earning /\ doc'[f] = doc[f] BY <1>8, <2>3, <4>2
                <5>2. doc[f].net = 0 \/ JobOf(f) \in p.jobs
                    BY <1>2, <1>4, <3>4, <5>1
                <5> QED BY <1>6, <3>1, <4>2, <5>1, <5>2
            <4> QED BY <4>1, <4>2
        <3>5. Taken(pen[n])' = take BY <2>2 DEF Taken
        <3> QED BY <2>2, <3>3, <3>4, <3>5 DEF ChargeOk
    <2>6. ASSUME Clean(v)
          PROVE  Account(v, pen[n].p.seen.shipment, Taken(pen[n]), Deducted(pen[n]))'
        <3>1. PICK x, d, k, a : x = s /\ d = p.due - p.remaining /\ k = take /\ a = e OBVIOUS
        <3>2. Unpaid'[a] = Unpaid[a] - k
            BY <1>1, <1>5, <2>3, <3>1 DEF Unpaid
        <3>3. \A f \in VendorEarnings(v) : f # a => Unpaid'[f] = Unpaid[f]
            <4>1. \A f \in VendorEarnings(v) : f \in Earning BY VendorEarningsParts
            <4> QED BY <1>2, <2>3, <3>1, <4>1 DEF Unpaid, InCredit
        <3>4. d \in Int /\ k \in Nat /\ x \in ShipsOf(v) /\ a \in ShipEarnings(x)
            BY <1>1, <1>3, <1>11, <3>1
        <3>5. Account(v, x, 0, d) BY <1>9, <2>6, <3>1
        <3>6. /\ pending'[v] = pending[v] /\ balance'[v] = balance[v]
              /\ \A z \in ShipsOf(v) : given'[z] = given[z]
            BY <1>2
        <3>7. Account(v, x, k, d)' BY <1>0, <3>2, <3>3, <3>4, <3>5, <3>6, AccountTakes
        <3>8. Taken(pen[n])' = k /\ Deducted(pen[n])' = d
            BY <2>2, <3>1 DEF Taken, Deducted
        <3> QED BY <2>2, <3>1, <3>7, <3>8 DEF Account
    <2>7. \A f \in EarningsFor(v) :
            doc'[f].state = doc[f].state /\ (doc[f].net >= 0 => doc'[f].net >= 0)
        <3>1. \A f \in EarningsFor(v) : f \in Earning BY VendorParts
        <3> QED BY <1>5, <2>3, <3>1
    <2> QED BY <1>2, <1>7, <2>4, <2>5, <2>6, <2>7, ChargeMoves
<1> QED BY <1>3, <1>10, <1>11

\* The wallet is loaded.
LEMMA WalletBorne ==
    ASSUME LateInv, LateInv', RunJobs, NEW v \in Vendor, VendorInv(v), ~ Meets(v)',
           NEW n \in Run, Charging(n, v), LateWallet(n)
    PROVE  VendorInv(v)'
<1> DEFINE p == pen[n].p
           s == pen[n].p.seen.shipment
           next == IF pen[n].pc = "wallet" THEN "write" ELSE "clawWrite"
<1>0. /\ pen \in [Run -> PenState]
      /\ given \in [Shipment -> Nat] /\ given' \in [Shipment -> Nat]
    BY DEF LateInv, LateTypeOK
<1>1. /\ pen[n] \in [pc: Working, todo: SUBSET Seen, p: Penalty]
      /\ s[2] = v /\ s \in ShipsOf(v)
    BY ChargeParts
<1>2. /\ pen[n].pc \in {"wallet", "clawRead"}
      /\ pen' = [pen EXCEPT ![n].pc = next, ![n].p.pending = pending[v],
                            ![n].p.balance = balance[v]]
      /\ UNCHANGED <<rec, rel, created, doc, pending, balance, given, rewritten>>
    BY <1>1 DEF LateWallet, vars, walletVars, chargeFrame, histVars
<1>3. /\ pen'[n].pc = next /\ pen'[n].p.jobs = p.jobs /\ pen'[n].p.take = p.take
      /\ pen'[n].p.seen.shipment = s
      /\ pen'[n].p.remaining = p.remaining /\ pen'[n].p.due = p.due
      /\ pen'[n].p.pending = pending[v] /\ pen'[n].p.balance = balance[v]
      /\ \A m \in Run : m # n => pen'[m] = pen[m]
    BY <1>0, <1>1, <1>2 DEF Penalty, Working
<1>4. Charging(n, v)' BY <1>1, <1>3 DEF Charging
<1>5. ChargeOk(v, pen[n]) BY DEF VendorInv
<1>6. Taken(pen[n])' = Taken(pen[n]) /\ Deducted(pen[n])' = Deducted(pen[n])
    BY <1>2, <1>3 DEF Taken, Deducted
<1>7. ChargeOk(v, pen[n])'
    <2>1. \A f : JobOf(f)' = JobOf(f) BY <1>2 DEF JobOf
    <2>2. CASE pen[n].pc = "wallet"
        <3>1. pen'[n].pc = "write" BY <1>3, <2>2
        <3>2. /\ \A j \in p.jobs : doc[j.earning].state = "held" /\ j.net = doc[j.earning].net
              /\ \A e \in ShipEarnings(s) : doc[e].state = "held" =>
                   doc[e].net = 0 \/ JobOf(e) \in p.jobs \/ p.remaining = Taken(pen[n])
            BY <1>5, <2>2 DEF ChargeOk
        <3> QED BY <1>2, <1>3, <1>6, <2>1, <3>1, <3>2 DEF ChargeOk
    <2>3. CASE pen[n].pc = "clawRead"
        <3>1. pen'[n].pc = "clawWrite" BY <1>3, <2>3
        <3>2. \A e \in ShipEarnings(s) : doc[e].state = "held" => doc[e].net = 0
            BY <1>5, <2>3 DEF ChargeOk
        <3> QED BY <1>2, <1>3, <3>1, <3>2 DEF ChargeOk
    <2> QED BY <1>2, <2>2, <2>3
<1>8. ASSUME Clean(v)
      PROVE  Account(v, pen[n].p.seen.shipment, Taken(pen[n]), Deducted(pen[n]))'
    <2>1. PICK x, t, d : x = s /\ t = Taken(pen[n]) /\ d = Deducted(pen[n]) OBVIOUS
    <2>2. Untouched(v) BY <1>2 DEF Untouched, Unpaid, InCredit
    <2>3. Account(v, x, t, d) BY <1>8, <2>1, ChargeAccount
    <2>4. Account(v, x, t, d)' BY <1>0, <2>2, <2>3, AccountKept
    <2> QED BY <1>3, <1>6, <2>1, <2>4 DEF Account
<1>9. rewritten \subseteq rewritten' BY <1>2
<1> QED BY <1>2, <1>3, <1>4, <1>7, <1>8, <1>9, ChargeMoves

\* The loop over the earnings is over.
LEMMA LoopDoneBorne ==
    ASSUME LateInv, LateInv', RunJobs, NEW v \in Vendor, VendorInv(v), ~ Meets(v)',
           NEW n \in Run, Charging(n, v), LateLoopDone(n)
    PROVE  VendorInv(v)'
<1> DEFINE p == pen[n].p
           s == pen[n].p.seen.shipment
           next == IF p.remaining > 0 THEN "clawRead" ELSE "refund"
<1>0. /\ pen \in [Run -> PenState]
      /\ given \in [Shipment -> Nat] /\ given' \in [Shipment -> Nat]
    BY DEF LateInv, LateTypeOK
<1>1. /\ pen[n] \in [pc: Working, todo: SUBSET Seen, p: Penalty]
      /\ s[2] = v /\ s \in ShipsOf(v) /\ p.remaining \in Nat /\ p.due \in Nat
    BY ChargeParts
<1>2. /\ pen[n].pc = "take" /\ (p.jobs = {} \/ p.remaining = 0)
      /\ pen' = [pen EXCEPT ![n].pc = next]
      /\ UNCHANGED <<rec, rel, created, doc, pending, balance, given, rewritten>>
    BY DEF LateLoopDone, LateGoes, vars, walletVars, chargeFrame, histVars
<1>3. /\ pen'[n].pc = next /\ pen'[n].p = p
      /\ \A m \in Run : m # n => pen'[m] = pen[m]
    BY <1>0, <1>1, <1>2
<1>4. Charging(n, v)' BY <1>1, <1>3 DEF Charging
<1>5. ChargeOk(v, pen[n]) BY DEF VendorInv
<1>6. Taken(pen[n])' = Taken(pen[n]) /\ Deducted(pen[n])' = Deducted(pen[n])
      /\ Taken(pen[n]) = 0
    BY <1>1, <1>2, <1>3 DEF Taken, Deducted
<1>7. ChargeOk(v, pen[n])'
    BY <1>2, <1>3, <1>5, <1>6 DEF ChargeOk
<1>8. ASSUME Clean(v)
      PROVE  Account(v, pen[n].p.seen.shipment, Taken(pen[n]), Deducted(pen[n]))'
    <2>1. PICK x, t, d : x = s /\ t = Taken(pen[n]) /\ d = Deducted(pen[n]) OBVIOUS
    <2>2. Untouched(v) BY <1>2 DEF Untouched, Unpaid, InCredit
    <2>3. Account(v, x, t, d) BY <1>8, <2>1, ChargeAccount
    <2>4. Account(v, x, t, d)' BY <1>0, <2>2, <2>3, AccountKept
    <2> QED BY <1>3, <1>6, <2>1, <2>4 DEF Account
<1>9. rewritten \subseteq rewritten' BY <1>2
<1> QED BY <1>2, <1>3, <1>4, <1>7, <1>8, <1>9, ChargeMoves

\* What the vendor has not been paid is not below zero.
LEMMA UnpaidNat ==
    ASSUME TypeOK, NEW v \in Vendor, DocsOf(v)
    PROVE  SumFunctionOnSet(Unpaid, VendorEarnings(v)) \in Nat
<1> DEFINE u == Unpaid
<1>1. \A e \in VendorEarnings(v) : u[e] \in Nat
    <2> SUFFICES ASSUME NEW e \in VendorEarnings(v) PROVE u[e] \in Nat OBVIOUS
    <2>1. e \in EarningsFor(v) /\ e \in Earning /\ e \in EarningsOf(e[1])
        BY VendorEarningsParts
    <2>2. doc[e].net \in Int /\ doc[e].net >= 0 BY <2>1 DEF DocsOf, TypeOK, Doc
    <2> QED BY <2>1, <2>2 DEF Unpaid
<1> HIDE DEF u
<1>2. SumFunctionOnSet(u, VendorEarnings(v)) \in Nat
    BY <1>1, VendorEarningsParts, SumNat
<1> QED BY <1>2 DEF u

\* A wallet that covers a change of the balance it was loaded with is changed by it.
LEMMA SaveFieldCovered ==
    ASSUME NEW field \in [Vendor -> Int], NEW v \in Vendor, NEW k \in Int, k <= field[v]
    PROVE  /\ SaveField(field, v, field[v], -k)[v] = field[v] - k
           /\ \A u \in Vendor : u # v => SaveField(field, v, field[v], -k)[u] = field[u]
<1>1. field[v] \in Int OBVIOUS
<1>2. Clamp(field[v] + (-k)) = field[v] - k BY <1>1 DEF Clamp
<1>3. CASE field[v] - k = field[v] BY <1>2, <1>3 DEF SaveField
<1>4. CASE field[v] - k # field[v] BY <1>2, <1>4 DEF SaveField
<1> QED BY <1>3, <1>4

\* The wallet pays what was taken.
LEMMA WriteBorne ==
    ASSUME LateInv, LateInv', RunJobs, NEW v \in Vendor, VendorInv(v), ~ Meets(v)',
           NEW n \in Run, Charging(n, v), LateWrite(n)
    PROVE  VendorInv(v)'
<1> DEFINE p == pen[n].p
           s == pen[n].p.seen.shipment
           left == p.remaining - p.take
<1>0. /\ TypeOK /\ TypeOK' /\ pen \in [Run -> PenState]
      /\ pending \in [Vendor -> Int]
      /\ given \in [Shipment -> Nat] /\ given' \in [Shipment -> Nat]
    BY DEF LateInv, LateTypeOK, TypeOK
<1>1. /\ pen[n] \in [pc: Working, todo: SUBSET Seen, p: Penalty]
      /\ s[2] = v /\ s \in ShipsOf(v)
      /\ p.remaining \in Nat /\ p.due \in Nat /\ p.take \in Nat
    BY ChargeParts
<1>2. /\ pen[n].pc = "write"
      /\ pending' = SaveField(pending, v, p.pending, -p.take)
      /\ pen' = [pen EXCEPT ![n].pc = "take", ![n].p.remaining = left]
      /\ UNCHANGED <<rec, rel, created, doc, balance, given, rewritten>>
    BY <1>1 DEF LateWrite, Left, chargeFrame, histVars
<1> HIDE DEF left
<1>3. /\ pen'[n].pc = "take" /\ pen'[n].p.jobs = p.jobs
      /\ pen'[n].p.seen.shipment = s
      /\ pen'[n].p.remaining = left /\ pen'[n].p.due = p.due
      /\ \A m \in Run : m # n => pen'[m] = pen[m]
    BY <1>0, <1>1, <1>2 DEF Penalty, Working
<1>4. Charging(n, v)' BY <1>1, <1>3 DEF Charging
<1>5. /\ \A j \in p.jobs : doc[j.earning].state = "held" /\ j.net = doc[j.earning].net
      /\ \A e \in ShipEarnings(s) : doc[e].state = "held" =>
           doc[e].net = 0 \/ JobOf(e) \in p.jobs \/ p.remaining = Taken(pen[n])
      /\ p.pending = pending[v]
    BY <1>2 DEF VendorInv, ChargeOk
<1>6. /\ Taken(pen[n]) = p.take /\ Deducted(pen[n]) = p.due - p.remaining
      /\ Taken(pen[n])' = 0 /\ Deducted(pen[n])' = p.due - left
    BY <1>2, <1>3 DEF Taken, Deducted
<1>7. ChargeOk(v, pen[n])'
    <2>1. \A f : JobOf(f)' = JobOf(f) BY <1>2 DEF JobOf
    <2>2. p.remaining = p.take => left = 0 BY <1>1 DEF left
    <2> QED BY <1>2, <1>3, <1>5, <1>6, <2>1, <2>2 DEF ChargeOk
<1>8. ASSUME Clean(v)
      PROVE  Account(v, pen[n].p.seen.shipment, Taken(pen[n]), Deducted(pen[n]))'
    <2>1. PICK x, t, d : x = s /\ t = p.take /\ d = p.due - p.remaining OBVIOUS
    <2>2. t \in Nat /\ d \in Int BY <1>1, <2>1
    <2>3. Account(v, x, t, d) BY <1>6, <1>8, <2>1, ChargeAccount
    <2>4. t <= pending[v]
        <3>1. SumFunctionOnSet(Unpaid, VendorEarnings(v)) \in Nat
            BY <1>0, UnpaidNat DEF VendorInv
        <3> QED BY <2>2, <2>3, <3>1 DEF Account
    <2>5. pending'[v] = pending[v] - t
        <3>1. pending' = SaveField(pending, v, pending[v], -t) BY <1>2, <1>5, <2>1
        <3> QED BY ONLY <1>0, <2>2, <2>4, <3>1, v \in Vendor, SaveFieldCovered
    <2>6. /\ balance'[v] = balance[v] /\ \A z \in ShipsOf(v) : given'[z] = given[z]
          /\ \A e \in VendorEarnings(v) : Unpaid'[e] = Unpaid[e]
        BY <1>2 DEF Unpaid, InCredit
    <2>7. Account(v, x, 0, d + t)' BY <1>0, <2>2, <2>3, <2>5, <2>6, AccountWrites
    <2>8. p.due - left = d + t BY <1>1, <2>1 DEF left
    <2> QED BY <1>3, <1>6, <2>1, <2>7, <2>8 DEF Account
<1>9. rewritten \subseteq rewritten' BY <1>2
<1> QED BY <1>2, <1>3, <1>4, <1>7, <1>8, <1>9, ChargeMoves

\* A charge is covered by the document of its shipment.
LEMMA DueCovered ==
    ASSUME BookedInv, NEW n \in Run, pen[n].pc \in Working,
           NEW s \in Shipment, s = pen[n].p.seen.shipment, s \notin rewritten
    PROVE  \E d \in Day : \/ given[s] + pen[n].p.due <= Amount(s, d)
                          \/ given[s] + pen[n].p.due = 0
<1> DEFINE f == InFlight(s)
<1>0. LateInv BY DEF BookedInv
<1>1. f[n] = pen[n].p.due BY DEF InFlight, DueOf
<1>2. \A m \in Run : f[m] \in Nat BY <1>0, DueType DEF InFlight, LateInv, LateTypeOK
<1>3. IsFiniteSet(Run) BY LateAssumption
<1>4. given[s] + SumFunctionOnSet(f, Run) <= amount[s] BY DEF BookedInv, GivenInv
<1>5. /\ given[s] \in Nat /\ amount[s] \in Nat /\ tier[s] \in Day
      /\ amount[s] = AmountOf(s, tier[s])
    BY <1>0 DEF BookedInv, AmountInv, LateInv, LateTypeOK
<1> HIDE DEF f
<1>6. SumFunctionOnSet(f, Run) = f[n] + SumFunctionOnSet(f, Run \ {n})
    BY <1>2, <1>3, SumRemove
<1>7. SumFunctionOnSet(f, Run \ {n}) \in Nat
    <2>1. IsFiniteSet(Run \ {n}) BY <1>3, FS_Subset
    <2> QED BY <1>2, <2>1, SumNat
<1>8. f[n] \in Nat BY <1>2
<1>9. given[s] + pen[n].p.due <= amount[s] BY <1>1, <1>4, <1>5, <1>6, <1>7, <1>8
<1>10. CASE tier[s] = 0
    <2>1. amount[s] = 0 BY <1>5, <1>10 DEF AmountOf
    <2>2. given[s] + pen[n].p.due = 0 BY <1>1, <1>5, <1>8, <1>9, <2>1
    <2> QED BY <1>5, <2>2
<1>11. CASE tier[s] # 0 BY <1>5, <1>9, <1>11 DEF AmountOf
<1> QED BY <1>10, <1>11

\* No penalty of a shipment is above what its earnings were worth.
Covered == \A s \in Shipment, d \in Day : Amount(s, d) <= ShareOf(s)

\* The charge in hand and those before it are within what the shipment was worth.
LEMMA DueIsCovered ==
    ASSUME BookedInv, Covered, NEW n \in Run, pen[n].pc \in Working,
           NEW s \in Shipment, s = pen[n].p.seen.shipment, s \notin rewritten
    PROVE  given[s] + pen[n].p.due <= ShareOf(s)
<1>1. PICK d \in Day :
        given[s] + pen[n].p.due <= Amount(s, d) \/ given[s] + pen[n].p.due = 0
    BY DueCovered
<1>2. Amount(s, d) <= ShareOf(s) /\ Amount(s, d) \in Nat BY AmountType DEF Covered
<1>3. ShareOf(s) \in Int
    <2>1. \A e \in ShipEarnings(s) : Share[e] \in Int BY ShipEarningsParts, ShareType
    <2> QED BY <2>1, ShipEarningsParts, SumType DEF ShareOf
<1>4. given[s] \in Nat /\ pen[n].p.due \in Nat
    <2>1. pen \in [Run -> PenState] /\ given \in [Shipment -> Nat]
        BY DEF BookedInv, LateInv, LateTypeOK
    <2> QED BY <2>1, PenParts DEF Penalty
<1> QED BY <1>1, <1>2, <1>3, <1>4

\* The balance pays what remains.
LEMMA ClawBackBorne ==
    ASSUME BookedInv, Covered, LateInv', RunJobs,
           NEW v \in Vendor, VendorInv(v), ~ Meets(v)',
           NEW n \in Run, Charging(n, v), LateClawBack(n)
    PROVE  VendorInv(v)'
<1> DEFINE p == pen[n].p
           s == pen[n].p.seen.shipment
<1>0. /\ LateInv /\ TypeOK /\ TypeOK' /\ pen \in [Run -> PenState]
      /\ balance \in [Vendor -> Int]
      /\ given \in [Shipment -> Nat] /\ given' \in [Shipment -> Nat]
    BY DEF BookedInv, LateInv, LateTypeOK, TypeOK
<1>1. /\ pen[n] \in [pc: Working, todo: SUBSET Seen, p: Penalty]
      /\ s[2] = v /\ s \in ShipsOf(v) /\ s \in Shipment
      /\ p.remaining \in Nat /\ p.due \in Nat
    BY <1>0, ChargeParts
<1>2. /\ pen[n].pc = "clawWrite"
      /\ balance' = SaveField(balance, v, p.balance, -p.remaining)
      /\ pen' = [pen EXCEPT ![n].pc = "refund"]
      /\ UNCHANGED <<rec, rel, created, doc, pending, given, rewritten>>
    BY <1>1 DEF LateClawBack, LateGoes, chargeFrame, histVars
<1>3. /\ pen'[n].pc = "refund" /\ pen'[n].p = p
      /\ \A m \in Run : m # n => pen'[m] = pen[m]
    BY <1>0, <1>1, <1>2
<1>4. Charging(n, v)' BY <1>1, <1>3 DEF Charging
<1>5. /\ \A e \in ShipEarnings(s) : doc[e].state = "held" => doc[e].net = 0
      /\ p.balance = balance[v]
    BY <1>2 DEF VendorInv, ChargeOk
<1>6. /\ Taken(pen[n]) = 0 /\ Deducted(pen[n]) = p.due - p.remaining
      /\ Taken(pen[n])' = 0 /\ Deducted(pen[n])' = p.due
    BY <1>2, <1>3 DEF Taken, Deducted
<1>7. ChargeOk(v, pen[n])' BY <1>3 DEF ChargeOk
<1>8. ASSUME Clean(v)
      PROVE  Account(v, pen[n].p.seen.shipment, Taken(pen[n]), Deducted(pen[n]))'
    <2>1. PICK x, d, r : x = s /\ d = p.due - p.remaining /\ r = p.remaining OBVIOUS
    <2>2. r \in Int /\ d \in Int /\ x \in ShipsOf(v) BY <1>1, <2>1
    <2>3. Account(v, x, 0, d) BY <1>6, <1>8, <2>1, ChargeAccount
    <2>4. SumFunctionOnSet(Unpaid, ShipEarnings(x)) = 0
        <3> DEFINE u == Unpaid
        <3>1. \A w \in Releaser : ~ Releasing(w, v) BY ChargesAlone DEF VendorInv
        <3>2. ASSUME NEW e \in ShipEarnings(s) PROVE u[e] = 0
            <4>1. e \in EarningsFor(v) /\ e \in Earning BY <1>1, VendorParts
            <4>2. ~ InCredit(e) BY <3>1, <4>1 DEF InCredit, Releasing, EarningsFor
            <4> QED BY <1>5, <4>1, <4>2 DEF Unpaid
        <3> HIDE DEF u
        <3>3. SumFunctionOnSet(u, ShipEarnings(s)) = 0
            BY <1>1, <3>2, ShipEarningsParts, SumZero
        <3> QED BY <2>1, <3>3 DEF u
    <2>5. SumFunctionOnSet(Unpaid, ShipEarnings(x)) + given[x] + (d + r) <= ShareOf(x)
        <3>1. s \notin rewritten BY <1>1, <1>8 DEF Clean
        <3>2. pen[n].pc \in Working BY <1>2 DEF Working
        <3>3. given[s] + p.due <= ShareOf(s) BY <1>1, <3>1, <3>2, DueIsCovered
        <3>4. given[s] \in Nat /\ d + r = p.due BY <1>0, <1>1, <2>1
        <3> QED BY <1>1, <2>1, <2>4, <3>3, <3>4
    <2>6. r <= balance[v] BY <1>0, <2>2, <2>3, <2>5, BalanceCovers
    <2>7. balance'[v] = balance[v] - r
        <3>1. balance' = SaveField(balance, v, balance[v], -r) BY <1>2, <1>5, <2>1
        <3> QED BY ONLY <1>0, <2>2, <2>6, <3>1, v \in Vendor, SaveFieldCovered
    <2>8. /\ pending'[v] = pending[v] /\ \A z \in ShipsOf(v) : given'[z] = given[z]
          /\ \A e \in VendorEarnings(v) : Unpaid'[e] = Unpaid[e]
        BY <1>2 DEF Unpaid, InCredit
    <2>9. Account(v, x, 0, d + r)' BY <1>0, <2>2, <2>3, <2>5, <2>7, <2>8, AccountClaws
    <2>10. d + r = p.due BY <1>1, <2>1
    <2> QED BY <1>3, <1>6, <2>1, <2>9, <2>10 DEF Account
<1>9. rewritten \subseteq rewritten' BY <1>2
<1> QED BY <1>2, <1>3, <1>4, <1>7, <1>8, <1>9, ChargeMoves

\* The customer is given the penalty, and the charge is over.
LEMMA RefundBorne ==
    ASSUME LateInv, LateInv', RunJobs, NEW v \in Vendor, VendorInv(v), ~ Meets(v)',
           NEW n \in Run, Charging(n, v), LateRefund(n)
    PROVE  VendorInv(v)'
<1> DEFINE p == pen[n].p
           s == pen[n].p.seen.shipment
<1>0. /\ TypeOK /\ TypeOK' /\ pen \in [Run -> PenState]
      /\ given \in [Shipment -> Nat] /\ given' \in [Shipment -> Nat]
    BY DEF LateInv, LateTypeOK
<1>1. s[2] = v /\ s \in ShipsOf(v) /\ s \in Shipment /\ p.due \in Nat BY ChargeParts
<1>2. /\ pen[n].pc = "refund"
      /\ pen' = [pen EXCEPT ![n] = [pc |-> "loop", todo |-> pen[n].todo]]
      /\ given' = [given EXCEPT ![s] = @ + p.due]
      /\ UNCHANGED <<rec, rel, created, doc, pending, balance, rewritten>>
    BY DEF LateRefund, vars, walletVars, histVars
<1>3. pen'[n].pc = "loop" /\ \A m \in Run : m # n => pen'[m] = pen[m]
    BY <1>0, <1>2
<1>4. \A m \in Run : ~ Charging(m, v)'
    <2>1. \A m \in Run : Charging(m, v) => m = n BY ChargesAlone DEF VendorInv
    <2> QED BY <1>3, <2>1 DEF Charging
<1>5. DocsOf(v)' /\ RecordedApart(v)' /\ JobsOf(v)'
    BY <1>2 DEF VendorInv, DocsOf, RecordedApart, JobsOf, Crediting, EarningsFor
<1>6. ASSUME Clean(v)' PROVE Account(v, <<>>, 0, 0)'
    <2>1. Clean(v) BY <1>2, <1>6 DEF Clean
    <2>2. Taken(pen[n]) = 0 /\ Deducted(pen[n]) = p.due BY <1>2 DEF Taken, Deducted
    <2>3. PICK x, d : x = s /\ d = p.due OBVIOUS
    <2>4. Account(v, x, 0, d) BY <2>1, <2>2, <2>3, ChargeAccount
    <2>5. /\ pending'[v] = pending[v] /\ balance'[v] = balance[v]
          /\ \A e \in VendorEarnings(v) : Unpaid'[e] = Unpaid[e]
        BY <1>2 DEF Unpaid, InCredit
    <2>6. /\ given'[x] = given[x] + d /\ d \in Int /\ x \in ShipsOf(v)
          /\ \A z \in ShipsOf(v) : z # x => given'[z] = given[z]
        BY <1>0, <1>1, <1>2, <2>3 DEF ShipsOf
    <2> QED BY <1>0, <2>4, <2>5, <2>6, AccountRefunds
<1>7. Clean(v)' => AccountInv(v)' BY <1>4, <1>6 DEF AccountInv
<1> QED BY <1>4, <1>5, <1>7 DEF VendorInv

\* A step of a release run on an earning of v.
LEMMA ReleaseMoves ==
    ASSUME NEW v \in Vendor, VendorInv(v), ~ Meets(v)', UNCHANGED <<pen, rec>>,
           rewritten \subseteq rewritten',
           NEW w \in Releaser, Releasing(w, v), DocsOf(v)', JobsOf(v)',
           Clean(v) /\ Account(v, <<>>, 0, 0) => Account(v, <<>>, 0, 0)'
    PROVE  VendorInv(v)'
<1>1. \A n \in Run : ~ Charging(n, v) BY DEF VendorInv, Meets
<1>2. \A n \in Run : ~ Charging(n, v)' BY <1>1 DEF Charging
<1>3. RecordedApart(v)' BY DEF RecordedApart, VendorInv
<1>4. Clean(v)' => AccountInv(v)' BY <1>1, <1>2 DEF AccountInv, Clean, ShipsOf, VendorInv
<1> QED BY <1>2, <1>3, <1>4 DEF VendorInv

\* A release run claims an earning of v, or passes over it.
LEMMA ClaimBorne ==
    ASSUME LateInv, LateInv', RunJobs, NEW v \in Vendor, VendorInv(v), ~ Meets(v)',
           UNCHANGED <<pen, given>>, rewritten \subseteq rewritten',
           NEW w \in Releaser, NEW j \in rel[w].todo, ReleaseClaim(w, j)
    PROVE  VendorInv(v)'
<1> DEFINE e == j.earning
           rest == rel[w].todo \ {j}
<1>0. /\ TypeOK /\ rel \in [Releaser -> RelState] /\ doc \in [Earning -> Doc]
      /\ given \in [Shipment -> Nat] /\ given' \in [Shipment -> Nat]
    BY DEF LateInv, LateTypeOK, TypeOK
<1>1. /\ rel[w].pc = "loop" /\ rel[w] \in [pc: {"loop"}, todo: SUBSET Job]
      /\ j \in Job /\ e \in Earning
    BY <1>0, LocalStates, RelJobs DEF ReleaseClaim
<1>2. UNCHANGED <<rec, created, pending, balance>>
    BY DEF ReleaseClaim, releaseVars, walletVars
<1>3. CASE UNCHANGED doc /\ rel' = [rel EXCEPT ![w].todo = rest]
    <2>1. /\ rel'[w].pc = "loop" /\ rel'[w].todo = rest
          /\ \A x \in Releaser : x # w => rel'[x] = rel[x]
        BY <1>0, <1>1, <1>3
    <2>2. SameRelease(v) BY <1>1, <2>1 DEF SameRelease, Crediting
    <2>3. RecordedApart(v)' BY <1>2 DEF RecordedApart, VendorInv
    <2> QED BY <1>2, <1>3, <2>2, <2>3, VendorKept
<1>4. CASE /\ j.net # 0 /\ doc[e].state = "held"
           /\ doc' = [doc EXCEPT ![e].state = "released"]
           /\ rel' = [rel EXCEPT ![w] = [pc |-> "claimed", todo |-> rest, cur |-> j]]
    <2>1. /\ rel'[w].pc = "claimed" /\ rel'[w].todo = rest /\ rel'[w].cur = j
          /\ \A x \in Releaser : x # w => rel'[x] = rel[x]
        BY <1>0, <1>4
    <2>2. /\ doc'[e].state = "released" /\ doc'[e].net = doc[e].net
          /\ \A f \in Earning : f # e => doc'[f] = doc[f]
          /\ \A f \in Earning : doc'[f].net = doc[f].net
        BY <1>0, <1>1, <1>4 DEF Doc
    <2>3. CASE VendorOf[e[1]] # v
        <3>1. SameRelease(v) BY <1>1, <2>1, <2>3 DEF SameRelease, Crediting
        <3>2. RecordedApart(v)' BY <1>2 DEF RecordedApart, VendorInv
        <3>3. \A f \in EarningsFor(v) : f # e /\ f \in Earning BY <2>3 DEF EarningsFor
        <3>4. \A f \in EarningsFor(v) : /\ doc'[f].state = doc[f].state
                                        /\ doc'[f].net = doc[f].net /\ created'[f] = created[f]
            BY <1>2, <2>2, <3>3
        <3> QED BY <1>2, <3>1, <3>2, <3>4, VendorKept
    <2>4. CASE VendorOf[e[1]] = v
        <3>1. Releasing(w, v) BY <2>4 DEF Releasing
        <3>2. e \in EarningsFor(v) /\ \A f \in EarningsFor(v) : f \in Earning
            BY <1>1, <2>4 DEF EarningsFor
        <3>3. DocsOf(v)'
            <4>1. \A f \in EarningsFor(v) :
                    IF f \in EarningsOf(f[1])
                    THEN created[f] > 0 /\ doc'[f].state \in {"held", "released"}
                         /\ doc'[f].net >= 0
                    ELSE doc'[f].state = "none"
                BY <1>4, <2>2, <3>2 DEF VendorInv, DocsOf
            <4> QED BY <1>2, <4>1 DEF DocsOf, EarningsFor
        <3>4. j.net = doc[e].net BY <2>4 DEF VendorInv, JobsOf
        <3>5. \A x \in Releaser : Crediting(x, v) =>
                /\ rel[x].cur.earning # e /\ rel[x].cur.earning \in Earning
                /\ rel'[x] = rel[x] /\ x # w
            BY <1>0, <1>1, <1>4, <2>1, RelCur DEF VendorInv, JobsOf, Crediting
        <3>6. \A x \in Releaser : Crediting(x, v)' => x = w \/ Crediting(x, v)
            BY <2>1 DEF Crediting
        <3>7. \A x \in Releaser : \A i \in rel'[x].todo :
                VendorOf[i.earning[1]] = v => i.net = doc'[i.earning].net
            <4>1. \A x \in Releaser : \A i \in rel'[x].todo :
                    i \in rel[x].todo /\ i.earning \in Earning
                BY <1>0, <2>1, RelJobs
            <4> QED BY <2>2, <4>1 DEF VendorInv, JobsOf
        <3>8. \A x \in Releaser : Crediting(x, v)' =>
                /\ rel'[x].cur.net = doc'[rel'[x].cur.earning].net
                /\ doc'[rel'[x].cur.earning].state = "released"
            BY <2>1, <2>2, <3>4, <3>5, <3>6 DEF VendorInv, JobsOf
        <3>9. \A x, y \in Releaser :
                Crediting(x, v)' /\ Crediting(y, v)'
                 /\ rel'[x].cur.earning = rel'[y].cur.earning
                  => x = y
            BY <2>1, <3>5, <3>6 DEF VendorInv, JobsOf
        <3>10. JobsOf(v)' BY <3>7, <3>8, <3>9 DEF JobsOf
        <3>11. Untouched(v)
            <4>1. \A f \in Earning : f # e => (InCredit(f)' <=> InCredit(f))
                BY <1>1, <2>1 DEF InCredit
            <4>2. InCredit(e)' BY <2>1 DEF InCredit
            <4>3. \A f \in Earning : Unpaid'[f] = Unpaid[f]
                BY <1>4, <2>2, <4>1, <4>2 DEF Unpaid
            <4> QED BY <1>2, <4>3, VendorParts DEF Untouched
        <3>12. Account(v, <<>>, 0, 0) => Account(v, <<>>, 0, 0)'
            BY <1>0, <3>11, AccountKept
        <3> QED BY <1>2, <3>1, <3>3, <3>10, <3>12, ReleaseMoves
    <2> QED BY <2>3, <2>4
<1> QED BY <1>3, <1>4 DEF ReleaseClaim, Unreleased

\* A release run that is done with the earning in hand: it is loose.
LEMMA CreditBorne ==
    ASSUME "lostReply" \notin Faults, "revertError" \notin Faults,
           LateInv, LateInv', RunJobs,
           NEW v \in Vendor, VendorInv(v), ~ Meets(v)', UNCHANGED <<pen, given>>,
           rewritten \subseteq rewritten',
           NEW w \in Releaser, ReleaseCredit(w) \/ ReleaseCreditError(w)
    PROVE  VendorInv(v)'
<1> DEFINE j == rel[w].cur
           e == rel[w].cur.earning
           q == [pc |-> "loop", todo |-> rel[w].todo]
<1>0. /\ TypeOK /\ TypeOK' /\ rel \in [Releaser -> RelState] /\ doc \in [Earning -> Doc]
      /\ pending \in [Vendor -> Int] /\ balance \in [Vendor -> Int]
      /\ given \in [Shipment -> Nat] /\ given' \in [Shipment -> Nat]
    BY DEF LateInv, LateTypeOK, TypeOK
<1>1. /\ rel[w].pc = "claimed" /\ j \in Job /\ j.net \in Int /\ e \in Earning
      /\ VendorOf[e[1]] \in Vendor
    BY <1>0, RelCur, JobParts DEF ReleaseCredit, ReleaseCreditError
<1>2. rel' = [rel EXCEPT ![w] = q] /\ UNCHANGED <<rec, created>>
    BY DEF ReleaseCredit, ReleaseCreditError, RevertClaim, LeaveClaimed, releaseVars
<1>3. /\ rel'[w] = q /\ q.pc = "loop" /\ q.todo = rel[w].todo
      /\ \A x \in Releaser : x # w => rel'[x] = rel[x]
    BY <1>0, <1>2
<1> HIDE DEF q
<1>4. \/ /\ Credit(j) /\ UNCHANGED doc
      \/ /\ UNCHANGED <<pending, balance>>
         /\ doc' = IF doc[e].state = "released" THEN [doc EXCEPT ![e].state = "held"] ELSE doc
    BY DEF ReleaseCredit, ReleaseCreditError, RevertClaim, LeaveClaimed, walletVars
<1>5. /\ \A f \in Earning : f # e => doc'[f] = doc[f]
      /\ \A f \in Earning : doc'[f].net = doc[f].net
    BY <1>0, <1>1, <1>4 DEF Doc
<1>6. CASE VendorOf[e[1]] # v
    <2>1. SameRelease(v)
        <3>1. \A x \in Releaser : Crediting(x, v)' <=> Crediting(x, v)
            BY <1>3, <1>6 DEF Crediting
        <3>2. \A x \in Releaser : Crediting(x, v) => x # w BY <1>6 DEF Crediting
        <3> QED BY <1>3, <3>1, <3>2 DEF SameRelease
    <2>2. RecordedApart(v)' BY <1>2 DEF RecordedApart, VendorInv
    <2>3. pending'[v] = pending[v] /\ balance'[v] = balance[v]
        BY <1>0, <1>1, <1>4, <1>6 DEF Credit
    <2>4. \A f \in EarningsFor(v) : f # e /\ f \in Earning BY <1>6 DEF EarningsFor
    <2>5. \A f \in EarningsFor(v) : /\ doc'[f].state = doc[f].state
                                    /\ doc'[f].net = doc[f].net /\ created'[f] = created[f]
        BY <1>2, <1>5, <2>4
    <2> QED BY <2>1, <2>2, <2>3, <2>5, VendorKept
<1>7. CASE VendorOf[e[1]] = v
    <2>1. Releasing(w, v) /\ Crediting(w, v) BY <1>1, <1>7 DEF Releasing, Crediting
    <2>2. e \in EarningsFor(v) /\ \A f \in EarningsFor(v) : f \in Earning
        BY <1>1, <1>7 DEF EarningsFor
    <2>3. doc[e].state = "released" /\ j.net = doc[e].net BY <2>1 DEF VendorInv, JobsOf
    <2>4. e \in EarningsOf(e[1]) /\ doc[e].net >= 0 BY <2>2, <2>3 DEF VendorInv, DocsOf
    <2>5. e \in VendorEarnings(v) BY <2>2, <2>4, VendorEarningsParts
    <2>6. /\ doc'[e].state \in {"held", "released"}
          /\ (UNCHANGED doc \/ doc'[e].state = "held")
        BY <1>0, <1>1, <1>4, <2>3 DEF Doc
    <2>7. DocsOf(v)'
        <3>1. \A f \in EarningsFor(v) :
                IF f \in EarningsOf(f[1])
                THEN created[f] > 0 /\ doc'[f].state \in {"held", "released"}
                     /\ doc'[f].net >= 0
                ELSE doc'[f].state = "none"
            BY <1>5, <2>2, <2>4, <2>6 DEF VendorInv, DocsOf
        <3> QED BY <1>2, <3>1 DEF DocsOf, EarningsFor
    <2>8. \A x \in Releaser : Crediting(x, v)' =>
            /\ x # w /\ rel'[x] = rel[x] /\ Crediting(x, v)
            /\ rel[x].cur.earning # e /\ rel[x].cur.earning \in Earning
        BY <1>0, <1>3, <2>1, RelCur DEF VendorInv, JobsOf, Crediting
    <2>9. JobsOf(v)'
        <3>1. \A x \in Releaser : \A i \in rel'[x].todo :
                VendorOf[i.earning[1]] = v => i.net = doc'[i.earning].net
            <4>1. \A x \in Releaser : rel'[x].todo = rel[x].todo BY <1>3
            <4>2. \A x \in Releaser : \A i \in rel'[x].todo : i.earning \in Earning
                BY <1>0, <4>1, RelJobs
            <4> QED BY <1>5, <4>1, <4>2 DEF VendorInv, JobsOf
        <3>2. \A x \in Releaser : Crediting(x, v)' =>
                /\ rel'[x].cur.net = doc'[rel'[x].cur.earning].net
                /\ doc'[rel'[x].cur.earning].state = "released"
            BY <1>5, <2>8 DEF VendorInv, JobsOf
        <3>3. \A x, y \in Releaser :
                Crediting(x, v)' /\ Crediting(y, v)'
                 /\ rel'[x].cur.earning = rel'[y].cur.earning
                  => x = y
            BY <2>8 DEF VendorInv, JobsOf
        <3> QED BY <3>1, <3>2, <3>3 DEF JobsOf
    <2>0. PICK a : a = e OBVIOUS
    <2>10. /\ InCredit(a) /\ ~ InCredit(a)'
           /\ \A f \in Earning : f # a => (InCredit(f)' <=> InCredit(f))
        <3>1. InCredit(a) BY <1>1, <2>0 DEF InCredit
        <3>2. ~ InCredit(a)'
            <4>1. \A x \in Releaser : rel'[x].pc = "claimed" /\ rel'[x].cur.earning = a
                    => Crediting(x, v)'
                BY <1>7, <2>0 DEF Crediting
            <4> QED BY <2>0, <2>8, <4>1 DEF InCredit
        <3>3. \A f \in Earning : f # a => (InCredit(f)' <=> InCredit(f))
            BY <1>3, <2>0 DEF InCredit
        <3> QED BY <3>1, <3>2, <3>3
    <2>11. \A f \in Earning : f # a => Unpaid'[f] = Unpaid[f]
        BY <1>5, <2>0, <2>10 DEF Unpaid
    <2>12. ASSUME Account(v, <<>>, 0, 0) PROVE Account(v, <<>>, 0, 0)'
        <3>1. CASE Credit(j) /\ UNCHANGED doc
            <4>1. PICK k : k = j.net OBVIOUS
            <4>2. a \in VendorEarnings(v) /\ k \in Nat BY <1>1, <2>0, <2>3, <2>4, <2>5, <4>1
            <4>3. pending'[v] = pending[v] - k /\ balance'[v] = balance[v] + k
                BY <1>0, <1>1, <1>7, <3>1, <4>1 DEF Credit
            <4>4. Unpaid'[a] = Unpaid[a] - k
                BY <1>1, <2>0, <2>3, <2>10, <3>1, <4>1 DEF Unpaid
            <4>5. \A f \in VendorEarnings(v) : f # a => Unpaid'[f] = Unpaid[f]
                BY <2>11, <4>1, VendorParts
            <4>6. \A s \in ShipsOf(v) : given'[s] = given[s] OBVIOUS
            <4> QED BY <1>0, <2>12, <4>2, <4>3, <4>4, <4>5, <4>6, AccountCredits
        <3>2. CASE UNCHANGED <<pending, balance>> /\ doc'[e].state = "held"
            <4>1. Unpaid'[a] = Unpaid[a] BY <1>1, <1>5, <2>0, <2>10, <3>2 DEF Unpaid
            <4>2. \A f \in VendorEarnings(v) : Unpaid'[f] = Unpaid[f]
                BY <2>11, <4>1, VendorParts
            <4>3. Untouched(v) BY <3>2, <4>2 DEF Untouched
            <4> QED BY <1>0, <2>12, <4>3, AccountKept
        <3> QED
            <4>1. doc' = [doc EXCEPT ![e].state = "held"] => doc'[e].state = "held"
                BY <1>0, <1>1 DEF Doc
            <4> QED BY <1>4, <2>3, <3>1, <3>2, <4>1
    <2> QED BY <1>2, <2>1, <2>7, <2>9, <2>12, ReleaseMoves
<1> QED BY <1>6, <1>7

\* A reversal keeps to the items it was called for.
RevScope ==
    \A r \in Reverser :
      /\ \A j \in rev[r].todo : j.earning[1] \in rev[r].scope
      /\ rev[r].pc \in Busy => rev[r].cur.earning[1] \in rev[r].scope

\* The steps of a reversal keep it to its items.
LEMMA ReverseStepScope ==
    ASSUME TypeOK, RevScope, ReverseStep
    PROVE  RevScope'
<1> DEFINE Kept(r) == /\ \A j \in rev'[r].todo : j.earning[1] \in rev'[r].scope
                      /\ rev'[r].pc \in Busy => rev'[r].cur.earning[1] \in rev'[r].scope
<1>0. rev \in [Reverser -> RevState] BY DEF TypeOK
<1>1. ASSUME NEW r \in Reverser, \A x \in Reverser : x # r => rev'[x] = rev[x], Kept(r)
      PROVE  RevScope'
    BY <1>1 DEF RevScope
<1>2. ASSUME NEW r \in Reverser, NEW o \in Order, CancelBegin(r, o) PROVE RevScope'
    BY <1>0, <1>1, <1>2 DEF CancelBegin, Busy
<1>3. ASSUME NEW r \in Reverser, NEW i \in Item, RejectItem(r, i) PROVE RevScope'
    BY <1>0, <1>1, <1>3 DEF RejectItem, Busy
<1>4. ASSUME NEW r \in Reverser, CancelSave(r) PROVE RevScope'
    <2>1. rev[r] \in [pc: {"refund", "findHeld", "held", "released"},
                     order: Order, scope: SUBSET Item, todo: SUBSET Job]
        BY <1>4, LocalStates DEF CancelSave
    <2>2. /\ rev'[r].pc = "findHeld" /\ rev'[r].todo = rev[r].todo
          /\ rev'[r].scope = rev[r].scope
        BY <1>0, <1>4, <2>1 DEF CancelSave
    <2>3. Kept(r) BY <2>2 DEF RevScope, Busy
    <2> QED BY <1>0, <1>1, <1>4, <2>3 DEF CancelSave
<1>5. ASSUME NEW r \in Reverser, NEW from \in {"findHeld", "held"},
             NEW state \in {"held", "released"}, ReverseFind(r, from, state)
      PROVE  RevScope'
    <2>1. rev[r] \in [pc: {"refund", "findHeld", "held", "released"},
                     order: Order, scope: SUBSET Item, todo: SUBSET Job]
        BY <1>5, LocalStates DEF ReverseFind
    <2> DEFINE found == {JobOf(e) : e \in InScope(r, state)}
    <2>2. \A j \in found : j.earning[1] \in rev[r].scope BY DEF JobOf, InScope
    <2>3. rev' = [rev EXCEPT ![r].pc = state, ![r].todo = found] BY <1>5 DEF ReverseFind
    <2> HIDE DEF found
    <2>4. /\ rev'[r].pc = state /\ rev'[r].todo = found /\ rev'[r].scope = rev[r].scope
          /\ \A x \in Reverser : x # r => rev'[x] = rev[x]
        BY <1>0, <2>1, <2>3
    <2>5. Kept(r) BY <2>2, <2>4 DEF Busy
    <2> QED BY <1>1, <2>4, <2>5
<1>6. ASSUME NEW r \in Reverser, NEW j \in rev[r].todo, ReconcileRead(r, j) PROVE RevScope'
    <2>1. /\ rev'[r].todo = rev[r].todo \ {j} /\ rev'[r].cur = j
          /\ rev'[r].scope = rev[r].scope
          /\ \A x \in Reverser : x # r => rev'[x] = rev[x]
        BY <1>0, <1>6 DEF ReconcileRead
    <2>2. Kept(r) BY <2>1 DEF RevScope
    <2> QED BY <1>1, <2>1, <2>2
<1>7. ASSUME NEW r \in Reverser, rev[r].pc \in Busy
      PROVE  rev[r] \in [pc: Busy, order: Order, scope: SUBSET Item, todo: SUBSET Job,
                         cur: Job, pending: Int, balance: Int]
    BY <1>7, LocalStates DEF Busy
<1>8. ASSUME NEW r \in Reverser, ReconcileWrite(r) PROVE RevScope'
    <2>0. rev[r].pc \in Busy BY <1>8 DEF ReconcileWrite, Busy
    <2>1. /\ rev'[r].todo = rev[r].todo /\ rev'[r].cur = rev[r].cur
          /\ rev'[r].scope = rev[r].scope
          /\ \A x \in Reverser : x # r => rev'[x] = rev[x]
        BY <1>0, <1>7, <1>8, <2>0 DEF ReconcileWrite
    <2>2. Kept(r) BY <2>0, <2>1 DEF RevScope
    <2> QED BY <1>1, <2>1, <2>2
<1>9. ASSUME NEW r \in Reverser, DeleteEarning(r) \/ ZeroEarning(r) PROVE RevScope'
    <2>1. /\ rev'[r].todo = rev[r].todo /\ rev'[r].scope = rev[r].scope
          /\ rev'[r].pc \notin Busy
          /\ \A x \in Reverser : x # r => rev'[x] = rev[x]
        BY <1>0, <1>9 DEF DeleteEarning, ZeroEarning, BackTo, Busy
    <2>2. Kept(r) BY <2>1 DEF RevScope
    <2> QED BY <1>1, <2>1, <2>2
<1>10. ASSUME NEW r \in Reverser, ReverseDone(r) PROVE RevScope'
    BY <1>0, <1>1, <1>10 DEF ReverseDone, Idle, Busy
<1> QED BY <1>2, <1>3, <1>4, <1>5, <1>6, <1>8, <1>9, <1>10
        DEF ReverseStep, ReverseFindHeld, ReverseFindReleased

\* A reversal that is not of v leaves its money alone.
LEMMA ReverseElsewhere ==
    ASSUME TypeOK, RevScope, ReverseStep,
           NEW v \in Vendor, \A r \in Reverser : ~ Reversing(r, v)
    PROVE  /\ pending'[v] = pending[v] /\ balance'[v] = balance[v]
           /\ \A e \in EarningsFor(v) : doc'[e] = doc[e]
           /\ UNCHANGED <<rec, rel, created>>
<1>0. /\ doc \in [Earning -> Doc]
      /\ pending \in [Vendor -> Int] /\ balance \in [Vendor -> Int]
    BY DEF TypeOK
<1>1. UNCHANGED <<rec, rel, created>>
    BY DEF ReverseStep, CancelBegin, RejectItem, CancelSave, ReverseFindHeld,
       ReverseFindReleased, ReverseFind, ReconcileRead, ReconcileWrite, DeleteEarning,
       ZeroEarning, ReverseDone, reverseVars
<1>2. ASSUME NEW r \in Reverser, rev[r].pc \in Busy
      PROVE  /\ rev[r].cur.earning \in Earning /\ VendorOf[rev[r].cur.earning[1]] # v
             /\ VendorOf[rev[r].cur.earning[1]] \in Vendor
    <2>1. rev[r].cur.earning[1] \in rev[r].scope BY <1>2 DEF RevScope
    <2>2. VendorOf[rev[r].cur.earning[1]] # v BY <1>2, <2>1 DEF Reversing, Busy
    <2>3. rev[r].cur \in Job BY <1>2, LocalStates DEF Busy
    <2> QED BY <2>2, <2>3, JobParts
<1>3. ASSUME NEW r \in Reverser, ReconcileWrite(r)
      PROVE  /\ pending'[v] = pending[v] /\ balance'[v] = balance[v] /\ UNCHANGED doc
    <2>1. rev[r].pc \in Busy BY <1>3 DEF ReconcileWrite, Busy
    <2>2. VendorOf[rev[r].cur.earning[1]] # v BY <1>2, <2>1
    <2>3. ASSUME NEW field \in [Vendor -> Int], NEW u, u # v, NEW read, NEW delta
          PROVE  SaveField(field, u, read, delta)[v] = field[v]
        BY <2>3 DEF SaveField
    <2> QED BY <1>0, <1>3, <2>2, <2>3 DEF ReconcileWrite
<1>4. ASSUME NEW r \in Reverser, DeleteEarning(r) \/ ZeroEarning(r)
      PROVE  UNCHANGED <<pending, balance>> /\ \A e \in EarningsFor(v) : doc'[e] = doc[e]
    <2>1. rev[r].pc \in Busy BY <1>4 DEF DeleteEarning, ZeroEarning, Busy
    <2>2. \A e \in EarningsFor(v) : e # rev[r].cur.earning /\ e \in Earning
        BY <1>2, <2>1 DEF EarningsFor
    <2> QED BY <1>0, <1>4, <2>2 DEF DeleteEarning, ZeroEarning, walletVars
<1>5. CASE UNCHANGED <<doc, pending, balance>> BY <1>1, <1>5
<1>6. \/ UNCHANGED <<doc, pending, balance>>
      \/ \E r \in Reverser : ReconcileWrite(r) \/ DeleteEarning(r) \/ ZeroEarning(r)
    BY DEF ReverseStep, CancelBegin, RejectItem, CancelSave, ReverseFindHeld,
       ReverseFindReleased, ReverseFind, ReconcileRead, ReverseDone, walletVars
<1> QED BY <1>1, <1>3, <1>4, <1>5, <1>6

\* Recording concerns the vendors of orders without earnings.
LEMMA RecordElsewhere ==
    ASSUME TypeOK, NEW v \in Vendor, DocsOf(v), RecordedApart(v), RecordStep
    PROVE  /\ RecordedApart(v)'
           /\ pending'[v] = pending[v] /\ balance'[v] = balance[v]
           /\ \A e \in EarningsFor(v) : doc'[e] = doc[e] /\ created'[e] = created[e]
           /\ UNCHANGED rel
<1>0. /\ rec \in [Recorder -> RecState] /\ doc \in [Earning -> Doc]
      /\ pending \in [Vendor -> Int] /\ created \in [Earning -> Nat]
    BY DEF TypeOK
<1>1. UNCHANGED <<rel, balance>>
    BY DEF RecordStep, RecordClaim, RecordLoad, RecordDoc, RecordPending, RecordDone,
       recordVars
<1>2. ASSUME NEW p \in Recorder, \A q \in Recorder : q # p => rec'[q] = rec[q],
             rec'[p].pc = "items" => \A i \in rec'[p].todo : VendorOf[i] # v
      PROVE  RecordedApart(v)'
    BY <1>2 DEF RecordedApart
<1>3. ASSUME NEW p \in Recorder, NEW o \in Order, RecordClaim(p, o)
      PROVE  RecordedApart(v)' /\ UNCHANGED <<doc, pending, created>>
    BY <1>0, <1>2, <1>3 DEF RecordClaim
<1>4. ASSUME NEW p \in Recorder, RecordLoad(p)
      PROVE  RecordedApart(v)' /\ UNCHANGED <<doc, pending, created>>
    <2>1. rec[p] \in [pc: {"claimed", "items"}, order: Order,
                     todo: SUBSET Item, docs: SUBSET Earning]
        BY <1>4, LocalStates DEF RecordLoad
    <2> DEFINE o == rec[p].order
               T == IF AlreadyRecorded(o) THEN {} ELSE ItemsOf(o)
    <2>2. rec' = [rec EXCEPT ![p].pc = "items", ![p].todo = T] BY <1>4 DEF RecordLoad
    <2>3. \A i \in T : VendorOf[i] # v
        <3> SUFFICES ASSUME NEW i \in ItemsOf(o), VendorOf[i] = v PROVE AlreadyRecorded(o)
            OBVIOUS
        <3> DEFINE e == <<i, "completion">>
        <3>1. i \in Item /\ OrderOf[i] = o BY DEF ItemsOf
        <3>2. e \in EarningsOf(i) BY DEF EarningsOf, Milestone
        <3>3. e \in EarningsFor(v) /\ e[1] = i BY <3>1 DEF EarningsFor, Earning, Milestone
        <3>4. e \in OrderEarnings(o) BY <3>1, <3>2 DEF OrderEarnings
        <3>5. doc[e].state \in {"held", "released"} BY <3>2, <3>3 DEF DocsOf
        <3> QED BY <3>4, <3>5 DEF AlreadyRecorded
    <2> HIDE DEF T
    <2>4. /\ rec'[p].todo = T /\ \A q \in Recorder : q # p => rec'[q] = rec[q]
        BY <1>0, <2>1, <2>2
    <2>5. RecordedApart(v)' BY <1>2, <2>3, <2>4
    <2> QED BY <1>4, <2>5 DEF RecordLoad
<1>5. ASSUME NEW p \in Recorder, NEW e \in Earning, RecordDoc(p, e)
      PROVE  /\ RecordedApart(v)' /\ UNCHANGED pending
             /\ \A f \in EarningsFor(v) : doc'[f] = doc[f] /\ created'[f] = created[f]
    <2>1. rec[p] \in [pc: {"claimed", "items"}, order: Order,
                     todo: SUBSET Item, docs: SUBSET Earning]
        BY <1>5, LocalStates DEF RecordDoc
    <2>2. rec'[p].todo = rec[p].todo /\ \A q \in Recorder : q # p => rec'[q] = rec[q]
        BY <1>0, <1>5, <2>1 DEF RecordDoc
    <2>3. rec[p].pc = "items" /\ VendorOf[e[1]] # v BY <1>5 DEF RecordDoc, RecordedApart
    <2>4. RecordedApart(v)' BY <1>2, <2>2, <2>3 DEF RecordedApart
    <2>5. \A f \in EarningsFor(v) : f # e /\ f \in Earning BY <2>3 DEF EarningsFor
    <2> QED BY <1>0, <1>5, <2>4, <2>5 DEF RecordDoc
<1>6. ASSUME NEW p \in Recorder, NEW i \in Item, RecordPending(p, i)
      PROVE  RecordedApart(v)' /\ UNCHANGED <<doc, created>> /\ pending'[v] = pending[v]
    <2>1. rec[p] \in [pc: {"claimed", "items"}, order: Order,
                     todo: SUBSET Item, docs: SUBSET Earning]
        BY <1>6, LocalStates DEF RecordPending
    <2>2. /\ rec'[p].todo \subseteq rec[p].todo
          /\ \A q \in Recorder : q # p => rec'[q] = rec[q]
        BY <1>0, <1>6, <2>1 DEF RecordPending
    <2>3. rec[p].pc = "items" /\ VendorOf[i] # v BY <1>6 DEF RecordPending, RecordedApart
    <2>4. RecordedApart(v)' BY <1>2, <2>2, <2>3 DEF RecordedApart
    <2> QED BY <1>0, <1>6, <2>3, <2>4 DEF RecordPending
<1>7. ASSUME NEW p \in Recorder, RecordDone(p)
      PROVE  RecordedApart(v)' /\ UNCHANGED <<doc, pending, created>>
    BY <1>0, <1>2, <1>7 DEF RecordDone, Idle
<1> QED BY <1>1, <1>3, <1>4, <1>5, <1>6, <1>7 DEF RecordStep

\* The steps of the release runs.
LEMMA ReleaseStepBorne ==
    ASSUME "lostReply" \notin Faults, "revertError" \notin Faults,
           LateInv, LateInv', RunJobs,
           NEW v \in Vendor, VendorInv(v), ~ Meets(v)', UNCHANGED <<pen, given>>,
           rewritten \subseteq rewritten', ReleaseStep
    PROVE  VendorInv(v)'
<1>0. TypeOK /\ rel \in [Releaser -> RelState] BY DEF LateInv, LateTypeOK, TypeOK
<1>1. ASSUME NEW w \in Releaser, ReleaseFind(w) \/ ReleaseDone(w) PROVE VendorInv(v)'
    <2>1. /\ UNCHANGED <<rec, doc, created, pending, balance>>
          /\ rel[w].pc \in {"idle", "loop"} /\ rel'[w].pc \in {"idle", "loop"}
          /\ \A x \in Releaser : x # w => rel'[x] = rel[x]
          /\ \A j \in rel'[w].todo : j.net = doc[j.earning].net
        BY <1>0, <1>1 DEF ReleaseFind, ReleaseDone, releaseVars, walletVars, Idle, JobOf
    <2>2. SameRelease(v) BY <2>1 DEF SameRelease, Crediting
    <2>3. RecordedApart(v)' BY <2>1 DEF RecordedApart, VendorInv
    <2> QED BY <2>1, <2>2, <2>3, VendorKept
<1> QED BY <1>1, ClaimBorne, CreditBorne DEF ReleaseStep

\* A call that stops, when it is not a credit of v that it leaves undone.
LEMMA CrashBorne ==
    ASSUME LateInv, LateInv', RunJobs, NEW v \in Vendor, VendorInv(v), ~ Meets(v)',
           ~ Abandoned(v), UNCHANGED <<pen, given>>, rewritten \subseteq rewritten', CrashStep
    PROVE  VendorInv(v)'
<1>0. rel \in [Releaser -> RelState] /\ rec \in [Recorder -> RecState]
    BY DEF LateInv, LateTypeOK, TypeOK
<1>1. /\ UNCHANGED <<doc, created, pending, balance>>
      /\ \A p \in Recorder : rec'[p] = rec[p] \/ rec'[p] = Idle
      /\ \A w \in Releaser : rel'[w] = rel[w] \/ rel'[w] = Idle
    BY <1>0 DEF CrashStep, Crash, walletVars
<1>2. SameRelease(v)
    <2>1. \A w \in Releaser : Crediting(w, v) => rel'[w] = rel[w]
        BY <1>1 DEF Abandoned, Crediting, Idle
    <2>2. \A w \in Releaser : Crediting(w, v)' => rel'[w] = rel[w]
        BY <1>1 DEF Crediting, Idle
    <2>3. \A w \in Releaser : \A j \in rel'[w].todo : j \in rel[w].todo
        BY <1>1 DEF Idle
    <2> QED BY <2>1, <2>2, <2>3 DEF SameRelease, Crediting
<1>3. RecordedApart(v)' BY <1>1 DEF RecordedApart, VendorInv, Idle
<1> QED BY <1>1, <1>2, <1>3, VendorKept

\* The steps of Earnings.
LEMMA EarningsBorne ==
    ASSUME "lostReply" \notin Faults, "revertError" \notin Faults,
           LateInv, LateInv', RunJobs, RevScope,
           NEW v \in Vendor, VendorInv(v), ~ Meets(v)', ~ Abandoned(v) \/ UNCHANGED vars,
           UNCHANGED <<pen, given>>, rewritten \subseteq rewritten', [Next]_vars
    PROVE  VendorInv(v)'
<1>0. TypeOK BY DEF LateInv, LateTypeOK
<1>1. ASSUME UNCHANGED rel, RecordedApart(v)', pending'[v] = pending[v],
             balance'[v] = balance[v],
             \A e \in EarningsFor(v) : /\ doc'[e].state = doc[e].state
                                       /\ doc'[e].net = doc[e].net /\ created'[e] = created[e]
      PROVE  VendorInv(v)'
    <2>1. SameRelease(v) BY <1>1 DEF SameRelease, Crediting
    <2> QED BY <1>1, <2>1, VendorKept
<1>2. ASSUME UNCHANGED rec PROVE RecordedApart(v)' BY <1>2 DEF RecordedApart, VendorInv
<1>3. CASE OrderStep
    <2>1. UNCHANGED created
        BY <1>3 DEF OrderStep, Pay, Transit, ConfirmShipment, Dispatch, Deliver, ConfirmSatisfaction,
           Elapse, AutoReleaseStuck, unchangedCalls
    <2>2. UNCHANGED <<rec, rel, pending, balance>> BY <1>0, <1>3, OrderStepDoc DEF walletVars
    <2> QED BY <1>0, <1>1, <1>2, <1>3, <2>1, <2>2, OrderStepDoc, VendorParts
<1>4. CASE RecordStep BY <1>0, <1>1, <1>4, RecordElsewhere DEF VendorInv
<1>5. CASE ReverseStep
    <2>1. \A r \in Reverser : ~ Reversing(r, v) BY DEF VendorInv, Meets
    <2> QED BY <1>0, <1>1, <1>2, <1>5, <2>1, ReverseElsewhere
<1>6. CASE UNCHANGED vars BY <1>1, <1>2, <1>6 DEF vars, walletVars
<1> QED BY <1>3, <1>4, <1>5, <1>6, ReleaseStepBorne, CrashBorne DEF Next

\* A shipment that an older copy was used for stays one.
LEMMA RewrittenGrows ==
    ASSUME [LateNext]_lateAllVars
    PROVE  rewritten \subseteq rewritten'
<1> USE DEF histVars, chargeFrame
<1>1. ASSUME NEW n \in Run, LateFind(n) \/ LateStep(n) \/ LateCrash(n)
      PROVE  rewritten \subseteq rewritten'
    BY <1>1 DEF LateFind, LateStep, LateCrash, LateSave, LateFindHeld, LateWallet, LateWrite,
       LateLoopDone, LateClawBack, LateRefund, LateDone, LateTake, LateClaim
<1>2. ASSUME NEW r, WholeSave(r) \/ WholeRefused(r) PROVE rewritten \subseteq rewritten'
    BY <1>2 DEF WholeSave, WholeRefused
<1>3. ASSUME NEW r, NEW o, NEW items, WholeLoad(r, o, items)
      PROVE  rewritten \subseteq rewritten'
    BY <1>3 DEF WholeLoad
<1>4. ASSUME Beside \/ \E s \in Shipment : DayPasses(s) PROVE rewritten \subseteq rewritten'
    BY <1>4 DEF Beside, DayPasses
<1>5. CASE Steps
    BY <1>1, <1>2, <1>3, <1>4, <1>5 DEF Steps
<1>6. CASE UNCHANGED lateAllVars BY <1>6 DEF lateAllVars, penaltyVars
<1> QED BY <1>5, <1>6 DEF LateNext

\* The steps of a charge.
ChargeSteps(n) ==
    \/ LateFindHeld(n) \/ LateWallet(n) \/ LateWrite(n) \/ LateLoopDone(n)
    \/ LateClawBack(n)
    \/ pen[n].pc = "take" /\ \E j \in pen[n].p.jobs : LateTake(n, j)

\* The other steps of a run end a charge or stay between two, and leave the
\* vendors' money alone.
LEMMA RunBetween ==
    ASSUME LateInv, NEW n \in Run,
           LateFind(n) \/ LateStep(n) \/ LateCrash(n), ~ ChargeSteps(n)
    PROVE  /\ pen'[n].pc \in {"idle", "loop"}
              \/ /\ pen[n].pc = "save" /\ pen'[n] = [pen[n] EXCEPT !.pc = "find"]
              \/ /\ pen'[n].pc = "save" /\ pen'[n].p.jobs = {}
                 /\ pen'[n].p.remaining = pen'[n].p.due
           /\ pen[n].pc \in {"idle", "loop", "save"} \/ LateCrash(n) \/ LateRefund(n)
           /\ \A m \in Run : m # n => pen'[m] = pen[m]
           /\ UNCHANGED <<doc, pending, balance>>
           /\ UNCHANGED given \/ LateRefund(n)
<1> USE DEF histVars
<1>0. pen \in [Run -> PenState] BY DEF LateInv, LateTypeOK
<1>1. CASE LateFind(n)
    BY <1>0, <1>1 DEF LateFind, vars, walletVars
<1>2. CASE LateSave(n)
    <2>1. CASE pen' = [pen EXCEPT ![n] = Idle]
        BY <1>0, <1>2, <2>1 DEF LateSave, vars, walletVars, Idle
    <2>2. CASE LateGoes(n, "find")
        BY <1>0, <1>2, <2>2 DEF LateSave, LateGoes, vars, walletVars
    <2> QED BY <1>2, <2>1, <2>2 DEF LateSave
<1>3. CASE LateRefund(n) \/ LateDone(n) \/ LateCrash(n)
    BY <1>0, <1>3 DEF LateRefund, LateDone, LateCrash, vars, walletVars, Idle
<1>4. ASSUME NEW x \in pen[n].todo, LateClaim(n, x)
      PROVE  /\ pen'[n].pc = "loop"
                \/ /\ pen'[n].pc = "save" /\ pen'[n].p.jobs = {}
                   /\ pen'[n].p.remaining = pen'[n].p.due
             /\ pen[n].pc = "loop"
             /\ \A m \in Run : m # n => pen'[m] = pen[m]
             /\ UNCHANGED <<doc, pending, balance, given>>
    <2> DEFINE p == [seen |-> x, tier |-> late[x.shipment],
                     amount |-> Amount(x.shipment, late[x.shipment]),
                     due |-> Amount(x.shipment, late[x.shipment]) - x.amount,
                     remaining |-> Amount(x.shipment, late[x.shipment]) - x.amount,
                     jobs |-> {}, take |-> 0, pending |-> 0, balance |-> 0]
               rest == pen[n].todo \ {x}
    <2>1. p.jobs = {} /\ p.remaining = p.due OBVIOUS
    <2>2. \/ pen' = [pen EXCEPT ![n] = [pc |-> "save", todo |-> rest, p |-> p]]
          \/ pen' = [pen EXCEPT ![n].todo = rest]
        BY <1>4 DEF LateClaim
    <2> HIDE DEF p, rest
    <2>3. pen[n] \in [pc: {"loop"}, todo: SUBSET Seen] /\ pen[n].pc = "loop"
        BY <1>0, <1>4, PenParts DEF LateClaim
    <2>4. UNCHANGED <<doc, pending, balance, given>>
        BY <1>4 DEF LateClaim, vars, walletVars
    <2>5. CASE pen' = [pen EXCEPT ![n] = [pc |-> "save", todo |-> rest, p |-> p]]
        BY <1>0, <2>1, <2>3, <2>4, <2>5
    <2>6. CASE pen' = [pen EXCEPT ![n].todo = rest]
        BY <1>0, <2>3, <2>4, <2>6
    <2> QED BY <2>2, <2>5, <2>6
<1> QED BY <1>1, <1>2, <1>3, <1>4 DEF LateStep, ChargeSteps

\* A charge step of a run works on the vendor it charges, or begins to charge.
LEMMA ChargeVendor ==
    ASSUME LateInv, NEW v, NEW n \in Run, ChargeSteps(n), ~ Charging(n, v),
           ~ (LateFindHeld(n) /\ pen[n].p.seen.shipment[2] = v)
    PROVE  pen[n].p.seen.shipment[2] # v
BY DEF ChargeSteps, Charging, LateWallet, LateWrite, LateLoopDone, LateClawBack

\* A run that does not charge v leaves its money alone.
LEMMA RunElsewhere ==
    ASSUME LateInv, LateInv', RunJobs, NEW v \in Vendor, VendorInv(v), ~ Meets(v)',
           rewritten \subseteq rewritten', NEW n \in Run,
           LateFind(n) \/ LateStep(n) \/ LateCrash(n), ~ Charging(n, v),
           ~ (LateFindHeld(n) /\ pen[n].p.seen.shipment[2] = v)
    PROVE  VendorInv(v)'
<1>0. /\ pending \in [Vendor -> Int] /\ balance \in [Vendor -> Int]
      /\ doc \in [Earning -> Doc] /\ given \in [Shipment -> Nat]
      /\ pen \in [Run -> PenState]
    BY DEF LateInv, LateTypeOK, TypeOK
<1>1. /\ UNCHANGED <<rec, rel, rev, created>>
      /\ \A e \in Earning : doc'[e].state = doc[e].state
    BY LateRunKeeps
<1>2. EarningsFor(v) \subseteq Earning BY VendorParts
<1>3. SameRelease(v) BY <1>1 DEF SameRelease, Crediting
<1>4. RecordedApart(v)' BY <1>1 DEF RecordedApart, VendorInv
<1>5. CASE ChargeSteps(n)
    <2> DEFINE s == pen[n].p.seen.shipment
    <2>1. s[2] # v BY <1>5, ChargeVendor
    <2>2. /\ pen'[n].pc \in Working /\ pen[n].pc \in Working
          /\ pen'[n].p.seen = pen[n].p.seen /\ UNCHANGED given
          /\ \A m \in Run : m # n => pen'[m] = pen[m]
        BY <1>5, ChargeKeeps DEF ChargeSteps
    <2>3. pending'[v] = pending[v] /\ balance'[v] = balance[v]
        <3>1. ASSUME NEW field \in [Vendor -> Int], NEW u, u # v, NEW read, NEW delta
              PROVE  SaveField(field, u, read, delta)[v] = field[v]
            BY <3>1 DEF SaveField
        <3>2. CASE LateWrite(n) BY <1>0, <2>1, <3>1, <3>2 DEF LateWrite
        <3>3. CASE LateClawBack(n) BY <1>0, <2>1, <3>1, <3>3 DEF LateClawBack
        <3>4. CASE LateFindHeld(n) \/ LateWallet(n) \/ LateLoopDone(n)
                   \/ \E j \in pen[n].p.jobs : LateTake(n, j)
            BY <3>4 DEF LateFindHeld, LateWallet, LateLoopDone, LateTake, vars, walletVars
        <3> QED BY <1>5, <3>2, <3>3, <3>4 DEF ChargeSteps
    <2>4. \A e \in EarningsFor(v) : doc'[e].net = doc[e].net
        <3>1. ASSUME NEW j \in pen[n].p.jobs, LateTake(n, j)
              PROVE  \A e \in EarningsFor(v) : doc'[e].net = doc[e].net
            <4> DEFINE take == Min({pen[n].p.remaining, j.net})
            <4>1. j.earning \in ShipEarnings(s) BY <2>2 DEF RunJobs
            <4>2. \A e \in EarningsFor(v) : e # j.earning
                BY <2>1, <4>1 DEF ShipEarnings, EarningsFor
            <4>3. UNCHANGED doc \/ doc' = [doc EXCEPT ![j.earning].net = j.net - take]
                BY <3>1 DEF LateTake
            <4> HIDE DEF take
            <4> QED BY <1>0, <1>2, <4>2, <4>3
        <3>2. CASE LateFindHeld(n) \/ LateWallet(n) \/ LateWrite(n) \/ LateLoopDone(n)
                   \/ LateClawBack(n)
            BY <3>2 DEF LateFindHeld, LateWallet, LateWrite, LateLoopDone, LateClawBack, vars
        <3> QED BY <1>5, <3>1, <3>2 DEF ChargeSteps
    <2>5. \A m \in Run : pen'[m] = pen[m] \/ (~ Charging(m, v) /\ ~ Charging(m, v)')
        BY <2>1, <2>2 DEF Charging
    <2> QED BY <1>1, <1>2, <1>3, <1>4, <2>2, <2>3, <2>4, <2>5, VendorKept
<1>6. CASE ~ ChargeSteps(n)
    <2>1. /\ pen'[n].pc \in {"idle", "loop"}
             \/ /\ pen[n].pc = "save" /\ pen'[n] = [pen[n] EXCEPT !.pc = "find"]
             \/ /\ pen'[n].pc = "save" /\ pen'[n].p.jobs = {}
                /\ pen'[n].p.remaining = pen'[n].p.due
          /\ \A m \in Run : m # n => pen'[m] = pen[m]
          /\ UNCHANGED <<doc, pending, balance>>
          /\ UNCHANGED given \/ LateRefund(n)
        BY <1>6, RunBetween
    <2>2. pen'[n].pc \in {"idle", "loop", "find", "save"}
        <3>1. pen[n].pc = "save" => pen[n] \in [pc: Working, todo: SUBSET Seen, p: Penalty]
            BY <1>0, PenParts DEF Working
        <3> QED BY <2>1, <3>1
    <2>3. \A m \in Run : pen'[m] = pen[m] \/ (~ Charging(m, v) /\ ~ Charging(m, v)')
        BY <2>1, <2>2 DEF Charging
    <2>4. \A s \in ShipsOf(v) : given'[s] = given[s]
        <3>1. CASE LateRefund(n)
            <4>1. pen[n].p.seen.shipment[2] # v BY <3>1 DEF LateRefund, Charging
            <4> QED BY <1>0, <3>1, <4>1 DEF LateRefund, ShipsOf
        <3> QED BY <2>1, <3>1
    <2> QED BY <1>1, <1>2, <1>3, <1>4, <2>1, <2>3, <2>4, VendorKept
<1> QED BY <1>5, <1>6

\* Every step of a run.
LEMMA RunBorne ==
    ASSUME BookedInv, Covered, LateInv', RunJobs,
           NEW v \in Vendor, VendorInv(v), ~ Meets(v)',
           ~ Abandoned(v), rewritten \subseteq rewritten', NEW n \in Run,
           LateFind(n) \/ LateStep(n) \/ LateCrash(n)
    PROVE  VendorInv(v)'
<1>0. LateInv BY DEF BookedInv
<1>1. CASE LateFindHeld(n) /\ pen[n].p.seen.shipment[2] = v BY <1>0, <1>1, FindHeldBorne
<1>2. CASE Charging(n, v)
    <2>1. \/ LateWallet(n) \/ LateWrite(n) \/ LateLoopDone(n) \/ LateClawBack(n)
          \/ LateRefund(n) \/ \E j \in pen[n].p.jobs : LateTake(n, j)
        <3>1. ~ LateCrash(n)
            <4>1. LateCrash(n) => pen'[n].pc = "idle"
                BY <1>0 DEF LateCrash, Idle, LateInv, LateTypeOK
            <4> QED BY <1>2, <4>1 DEF Abandoned
        <3> QED BY <1>2, <3>1 DEF Charging, LateStep, LateFind, LateSave, LateFindHeld,
                   LateDone, LateClaim
    <2> QED BY <1>0, <1>2, <2>1, WalletBorne, WriteBorne, LoopDoneBorne, ClawBackBorne,
               RefundBorne, TakeBorne
<1> QED BY <1>0, <1>1, <1>2, RunElsewhere

\* A run's jobs stay earnings of its shipment.
LEMMA RunJobsKept ==
    ASSUME LateInv, RunJobs, [LateNext]_lateAllVars
    PROVE  RunJobs'
<1>0. pen \in [Run -> PenState] BY DEF LateInv, LateTypeOK
<1>1. ASSUME UNCHANGED pen PROVE RunJobs'
    BY <1>1 DEF RunJobs, ShipEarnings, OrderEarnings
<1>2. ASSUME NEW n \in Run, \A m \in Run : m # n => pen'[m] = pen[m],
             pen'[n].pc \in Working =>
               /\ \A j \in pen'[n].p.jobs : j.earning \in ShipEarnings(pen'[n].p.seen.shipment)
               /\ pen'[n].pc \in {"save", "find"} => pen'[n].p.remaining = pen'[n].p.due
      PROVE  RunJobs'
    BY <1>2 DEF RunJobs
<1>3. ASSUME NEW n \in Run, ChargeSteps(n) PROVE RunJobs'
    <2>1. /\ pen[n].pc \in Working /\ pen'[n].p.seen = pen[n].p.seen
          /\ \A m \in Run : m # n => pen'[m] = pen[m]
        BY <1>0, <1>3, ChargeKeeps DEF ChargeSteps
    <2>2. pen[n] \in [pc: Working, todo: SUBSET Seen, p: Penalty] BY <1>0, <2>1, PenParts
    <2> DEFINE s == pen[n].p.seen.shipment
    <2>3. \A j \in pen[n].p.jobs : j.earning \in ShipEarnings(s) BY <2>1 DEF RunJobs
    <2>4. CASE LateFindHeld(n)
        <3> DEFINE held == {e \in OrderEarnings(s[1]) :
                              VendorOf[e[1]] = s[2] /\ doc[e].state = "held"}
                   jobs == {JobOf(e) : e \in held}
        <3>1. pen' = [pen EXCEPT ![n].pc = "take", ![n].p.jobs = jobs]
            BY <2>4 DEF LateFindHeld
        <3>2. \A j \in jobs : j.earning \in ShipEarnings(s) BY DEF JobOf, ShipEarnings
        <3> HIDE DEF jobs
        <3>3. pen'[n].pc = "take" /\ pen'[n].p.jobs = jobs
            BY <1>0, <2>2, <3>1 DEF Penalty, Working
        <3> QED BY <1>2, <2>1, <3>2, <3>3
    <2>5. CASE LateWallet(n)
        <3>1. pen'[n].p.jobs = pen[n].p.jobs /\ pen'[n].pc \in {"write", "clawWrite"}
            BY <1>0, <2>2, <2>5 DEF LateWallet, Penalty, Working
        <3> QED BY <1>2, <2>1, <2>3, <3>1
    <2>6. CASE LateWrite(n) \/ LateLoopDone(n) \/ LateClawBack(n)
        <3>1. pen'[n].p.jobs = pen[n].p.jobs /\ pen'[n].pc \in {"take", "clawRead", "refund"}
            BY <1>0, <2>2, <2>6 DEF LateWrite, LateLoopDone, LateClawBack, LateGoes, Penalty,
               Working
        <3> QED BY <1>2, <2>1, <2>3, <3>1
    <2>7. CASE pen[n].pc = "take" /\ \E j \in pen[n].p.jobs : LateTake(n, j)
        <3>1. PICK j \in pen[n].p.jobs : LateTake(n, j) BY <2>7
        <3> DEFINE t == Min({pen[n].p.remaining, j.net})
        <3>2. \/ pen' = [pen EXCEPT ![n].p.jobs = @ \ {j}]
              \/ pen' = [pen EXCEPT ![n].pc = "refund"]
              \/ pen' = [pen EXCEPT ![n].pc = "wallet", ![n].p.jobs = @ \ {j}, ![n].p.take = t]
            BY <3>1 DEF LateTake, LateGoes
        <3> HIDE DEF t
        <3>3. pen'[n].p.jobs \subseteq pen[n].p.jobs
              /\ pen'[n].pc \in {"take", "refund", "wallet"}
            BY <1>0, <2>2, <2>7, <3>2 DEF Penalty, Working
        <3> QED BY <1>2, <2>1, <2>3, <3>3
    <2> QED BY <1>3, <2>4, <2>5, <2>6, <2>7 DEF ChargeSteps
<1>4. ASSUME NEW n \in Run, LateFind(n) \/ LateStep(n) \/ LateCrash(n), ~ ChargeSteps(n)
      PROVE  RunJobs'
    <2>1. /\ pen'[n].pc \in {"idle", "loop"}
             \/ /\ pen[n].pc = "save" /\ pen'[n] = [pen[n] EXCEPT !.pc = "find"]
             \/ /\ pen'[n].pc = "save" /\ pen'[n].p.jobs = {}
                /\ pen'[n].p.remaining = pen'[n].p.due
          /\ \A m \in Run : m # n => pen'[m] = pen[m]
        BY <1>4, RunBetween
    <2>2. CASE pen'[n].pc \in {"idle", "loop"}
        <3>1. pen'[n].pc \notin Working BY <2>2 DEF Working
        <3> QED BY <1>2, <2>1, <3>1
    <2>3. CASE pen[n].pc = "save" /\ pen'[n] = [pen[n] EXCEPT !.pc = "find"]
        <3>1. pen[n].pc \in Working BY <2>3 DEF Working
        <3>2. pen[n] \in [pc: Working, todo: SUBSET Seen, p: Penalty] BY <1>0, <3>1, PenParts
        <3>3. pen'[n].p = pen[n].p BY <2>3, <3>2
        <3> QED BY <1>2, <2>1, <2>3, <3>1, <3>3 DEF RunJobs
    <2> QED BY <1>2, <2>1, <2>2, <2>3
<1>5. \/ UNCHANGED pen
      \/ \E n \in Run : LateFind(n) \/ LateStep(n) \/ LateCrash(n)
    BY DEF LateNext, Steps, Beside, DayPasses, WholeLoad, WholeSave, WholeRefused, copyVars,
       lateAllVars, penaltyVars
<1> QED BY <1>1, <1>3, <1>4, <1>5

\* The reversals keep to their items.
LEMMA RevScopeKept ==
    ASSUME LateInv, RevScope, [LateNext]_lateAllVars
    PROVE  RevScope'
<1>0. TypeOK BY DEF LateInv, LateTypeOK
<1>1. ASSUME \A r \in Reverser : rev'[r] = rev[r] \/ rev'[r] = Idle PROVE RevScope'
    BY <1>1 DEF RevScope, Idle, Busy
<1>2. ASSUME [Next]_vars, ~ ReverseStep
      PROVE  \A r \in Reverser : rev'[r] = rev[r] \/ rev'[r] = Idle
    <2>1. CASE OrderStep
        BY <2>1 DEF OrderStep, Pay, Transit, ConfirmShipment, Dispatch, Deliver, ConfirmSatisfaction,
           Elapse, AutoReleaseStuck, unchangedCalls
    <2>2. CASE RecordStep
        BY <2>2 DEF RecordStep, RecordClaim, RecordLoad, RecordDoc, RecordPending, RecordDone,
           recordVars
    <2>3. CASE ReleaseStep
        BY <2>3 DEF ReleaseStep, ReleaseFind, ReleaseClaim, ReleaseCredit,
           ReleaseCreditError, ReleaseDone, releaseVars
    <2>4. CASE CrashStep BY <1>0, <2>4 DEF CrashStep, Crash, TypeOK
    <2>5. CASE UNCHANGED vars BY <2>5 DEF vars
    <2> QED BY <1>2, <2>1, <2>2, <2>3, <2>4, <2>5 DEF Next
<1>3. ASSUME [Next]_vars PROVE RevScope'
    BY <1>0, <1>1, <1>2, <1>3, ReverseStepScope
<1>4. ASSUME NEW n \in Run, LateFind(n) \/ LateStep(n) \/ LateCrash(n) PROVE RevScope'
    BY <1>1, <1>4, LateRunKeeps
<1> QED BY <1>3, <1>4, LateStepKinds

\* What holds of the penalty cron and of every vendor whose money only one call at
\* a time worked on.
BorneInv ==
    /\ BookedInv /\ RunJobs /\ RevScope
    /\ \A v \in Vendor \ mixed : VendorInv(v)

\* In the beginning everything a vendor earned is pending.
LEMMA LateInitAccount ==
    ASSUME LateInit, NEW v \in Vendor
    PROVE  Account(v, <<>>, 0, 0)
<1> DEFINE u == Unpaid
           E == EarningsFor(v)
           V == VendorEarnings(v)
           f == [e \in E |-> IF e \in V THEN Share[e] ELSE 0]
<1>1. \A e \in Earning : Share[e] \in Int BY ShareType
<1>2. /\ IsFiniteSet(E) /\ E \subseteq Earning /\ IsFiniteSet(V)
      /\ V \subseteq E /\ V \subseteq Earning /\ \A e \in V : e \in EarningsOf(e[1])
      /\ \A e \in E : e \in V <=> e \in EarningsOf(e[1])
    BY EarningsForFinite, VendorEarningsParts
<1>3. \A e \in V : u[e] = Share[e]
    <2>1. \A e \in V : doc[e] = HeldDoc(e) BY <1>2 DEF LateInit
    <2>2. \A e : HeldDoc(e).state = "held" /\ HeldDoc(e).net = Share[e]
        BY DEF HeldDoc
    <2>3. \A e \in V : doc[e].state = "held" /\ doc[e].net = Share[e]
        BY <2>1, <2>2
    <2> QED BY <1>2, <2>3 DEF Unpaid
<1>4. \A e \in E : Share[e] = f[e]
    <2>1. \A e \in E : e \notin EarningsOf(e[1]) => Share[e] = 0
        <3> SUFFICES ASSUME NEW e \in E, e \notin EarningsOf(e[1]) PROVE Share[e] = 0 OBVIOUS
        <3>1. e \in Earning /\ e \in {e[1]} \X Milestone BY <1>2 DEF Earning
        <3>2. Share[e] \in Nat BY <3>1, ShareType
        <3> QED BY <3>1, <3>2 DEF EarningsOf
    <2> QED BY <1>2, <2>1
<1>5. SumFunctionOnSet(Share, V) = SumFunctionOnSet(Share, E)
    <2>1. \A e \in V : Share[e] \in Int BY <1>1, <1>2
    <2> HIDE DEF E, V
    <2>2. SumFunctionOnSet(Share, V) = SumFunctionOnSet(f, E) BY <1>2, <2>1, SumPart
    <2> HIDE DEF f
    <2>3. SumFunctionOnSet(Share, E) = SumFunctionOnSet(f, E) BY <1>2, <1>4, SumSame
    <2> QED BY <2>2, <2>3
<1>6. NetOfVendor(v, Item) = SumFunctionOnSet(Share, E)
    <2>1. \A e \in Earning : Share[e] = IF e[1] \in Item THEN Share[e] ELSE 0
        BY DEF Earning
    <2> QED BY <2>1, NetIsShares
<1>7. pending[v] = NetOfVendor(v, Item) /\ balance[v] = 0 BY DEF LateInit
<1>8. ASSUME NEW S, IsFiniteSet(S), S \subseteq V
      PROVE  SumFunctionOnSet(u, S) = SumFunctionOnSet(Share, S)
             /\ SumFunctionOnSet(Share, S) \in Int
    <2>1. \A e \in S : u[e] = Share[e] /\ Share[e] \in Int BY <1>1, <1>2, <1>3, <1>8
    <2> HIDE DEF u, V
    <2> QED BY <1>8, <2>1, SumSame, SumType
<1>9. SumFunctionOnSet(u, V) = SumFunctionOnSet(Share, V) /\ SumFunctionOnSet(Share, V) \in Int
    <2> HIDE DEF u, V
    <2> QED BY <1>2, <1>8
<1>10. \A s \in ShipsOf(v) : given[s] = 0
    BY DEF LateInit, ShipsOf
<1>11. GivenFor(v) = 0
    <2>1. GivenFor(v) = SumFunctionOnSet(given, ShipsOf(v)) BY DEF GivenFor, ShipsOf
    <2> QED BY <1>10, <2>1, ShipsFinite, SumZero
<1>12. ASSUME NEW s \in ShipsOf(v)
       PROVE  SumFunctionOnSet(u, ShipEarnings(s)) = ShareOf(s) /\ ShareOf(s) \in Int
    <2>1. s \in Shipment /\ s[2] = v BY DEF ShipsOf
    <2>2. IsFiniteSet(ShipEarnings(s)) /\ ShipEarnings(s) \subseteq V
        BY <2>1, ShipEarningsParts
    <2> HIDE DEF u, V
    <2> QED BY <1>8, <2>2 DEF ShareOf
<1>13. \A s \in ShipsOf(v) : (IF s = <<>> THEN 0 + 0 ELSE 0) = 0 OBVIOUS
<1> HIDE DEF u, E, V, f
<1>14. /\ pending[v] = SumFunctionOnSet(u, V) + 0
       /\ pending[v] + balance[v] = SumFunctionOnSet(Share, V) - GivenFor(v) - 0
    BY <1>5, <1>6, <1>7, <1>9, <1>11
<1>15. \A s \in ShipsOf(v) :
         SumFunctionOnSet(u, ShipEarnings(s)) + given[s] + (IF s = <<>> THEN 0 + 0 ELSE 0)
           <= ShareOf(s)
    BY <1>10, <1>12, <1>13
<1> QED BY <1>14, <1>15 DEF Account, u, V

\* In the beginning no call is at work.
LEMMA LateInitBorne == ASSUME LateInit PROVE BorneInv
<1>1. /\ \A p \in Recorder : rec[p] = Idle
      /\ \A w \in Releaser : rel[w] = Idle
      /\ \A r \in Reverser : rev[r] = Idle
      /\ \A n \in Run : pen[n] = Idle
    BY DEF LateInit
<1>2. Idle.pc = "idle" /\ Idle.todo = {} BY DEF Idle
<1>3. RunJobs BY <1>1, <1>2 DEF RunJobs, Working
<1>4. RevScope BY <1>1, <1>2 DEF RevScope, Busy
<1>5. ASSUME NEW v \in Vendor PROVE VendorInv(v)
    <2>1. \A n \in Run : ~ Charging(n, v) BY <1>1, <1>2 DEF Charging
    <2>2. ~ Meets(v) BY <1>1, <1>2, <2>1 DEF Meets, Reversing
    <2>3. DocsOf(v)
        <3> SUFFICES ASSUME NEW e \in EarningsFor(v)
                     PROVE  IF e \in EarningsOf(e[1])
                            THEN /\ created[e] > 0 /\ doc[e].state \in {"held", "released"}
                                 /\ doc[e].net >= 0
                            ELSE doc[e].state = "none"
            BY DEF DocsOf
        <3>1. e \in Earning /\ Share[e] \in Nat BY ShareType DEF EarningsFor
        <3>2. CASE e \in EarningsOf(e[1])
            <4>1. created[e] = 1 /\ doc[e] = HeldDoc(e) BY <3>1, <3>2 DEF LateInit
            <4>2. doc[e].state = "held" /\ doc[e].net = Share[e] BY <4>1 DEF HeldDoc
            <4> QED BY <3>1, <3>2, <4>1, <4>2
        <3>3. CASE e \notin EarningsOf(e[1])
            BY <3>1, <3>3 DEF LateInit, NoDoc
        <3> QED BY <3>2, <3>3
    <2>4. RecordedApart(v) BY <1>1, <1>2 DEF RecordedApart
    <2>5. JobsOf(v) BY <1>1, <1>2 DEF JobsOf, Crediting
    <2>6. AccountInv(v) BY <2>1, LateInitAccount DEF AccountInv
    <2> QED BY <2>1, <2>2, <2>3, <2>4, <2>5, <2>6 DEF VendorInv
<1> QED BY <1>3, <1>4, <1>5, LateInitBooks DEF BorneInv

\* Every step keeps it, for each vendor whose money was not mixed.
LEMMA LateNextBorne ==
    ASSUME "lostReply" \notin Faults, "revertError" \notin Faults,
           Covered, BorneInv, [LateNext]_lateAllVars
    PROVE  BorneInv'
<1>0. BookedInv /\ RunJobs /\ RevScope /\ LateInv BY DEF BorneInv, BookedInv
<1>1. BookedInv' /\ LateInv' BY <1>0, LateNextBooks DEF BookedInv
<1>2. RunJobs' /\ RevScope' BY <1>0, RunJobsKept, RevScopeKept
<1>3. rewritten \subseteq rewritten' BY RewrittenGrows
<1>4. CASE UNCHANGED lateAllVars
    <2>1. UNCHANGED <<vars, pen, given, mixed, rel, rev>>
        BY <1>4 DEF lateAllVars, penaltyVars, vars, copyVars, histVars
    <2>2. ASSUME NEW v \in Vendor \ mixed' PROVE VendorInv(v)'
        <3>1. VendorInv(v) BY <2>1 DEF BorneInv
        <3>2. ~ Meets(v)'
            <4>1. ~ Meets(v) BY <3>1 DEF VendorInv
            <4> QED BY <2>1, <4>1 DEF Meets, Charging, Releasing, Reversing
        <3> QED BY <1>0, <1>1, <1>3, <2>1, <3>1, <3>2, EarningsBorne
    <2> QED BY <1>1, <1>2, <2>2 DEF BorneInv
<1>5. CASE LateNext
    <2>1. ASSUME NEW v \in Vendor \ mixed'
          PROVE  VendorInv(v) /\ ~ Meets(v)' /\ ~ Abandoned(v)
        BY <1>5 DEF LateNext, Frame, Mixing, BorneInv
    <2>2. \/ UNCHANGED <<pen, given>> /\ [Next]_vars
          \/ \E n \in Run : LateFind(n) \/ LateStep(n) \/ LateCrash(n)
        <3>1. \/ UNCHANGED <<pen, given>>
              \/ \E n \in Run : LateFind(n) \/ LateStep(n) \/ LateCrash(n)
            BY <1>5 DEF LateNext, Steps, Beside, DayPasses, WholeLoad, WholeSave,
               WholeRefused, copyVars, histVars
        <3> QED BY <1>0, <3>1, LateStepKinds
    <2>3. ASSUME NEW v \in Vendor \ mixed' PROVE VendorInv(v)'
        <3>1. v \in Vendor OBVIOUS
        <3>2. CASE UNCHANGED <<pen, given>> /\ [Next]_vars
            BY <1>0, <1>1, <1>3, <2>1, <3>1, <3>2, EarningsBorne
        <3>3. CASE \E n \in Run : LateFind(n) \/ LateStep(n) \/ LateCrash(n)
            BY <1>0, <1>1, <1>3, <2>1, <3>1, <3>3, RunBorne
        <3> QED BY <2>2, <3>2, <3>3
    <2> QED BY <1>1, <1>2, <2>3 DEF BorneInv
<1> QED BY <1>4, <1>5

\* Between two charges, what is in the accounts is what the documents say.
LEMMA BorneSuffices ==
    ASSUME BorneInv, rewritten = {}
    PROVE  PenaltyIsBorne
<1> SUFFICES ASSUME Still, NEW v \in Vendor \ mixed
             PROVE  /\ pending[v] = NetHeld(v, "held")
                    /\ pending[v] + balance[v] = RecordedNet(v) - GivenFor(v)
    BY DEF PenaltyIsBorne
<1> DEFINE V == VendorEarnings(v)
           H == {e \in V : doc[e].state = "held"}
           net == [e \in Earning |-> doc[e].net]
           f == [e \in V |-> IF e \in H THEN net[e] ELSE 0]
           u == Unpaid
<1>0. TypeOK /\ VendorInv(v) /\ given \in [Shipment -> Nat]
    BY DEF BorneInv, BookedInv, LateInv, LateTypeOK
<1>1. Account(v, <<>>, 0, 0) BY <1>0 DEF Still, VendorInv, AccountInv, Clean
<1>2. IsFiniteSet(V) /\ V \subseteq Earning /\ H \subseteq V BY VendorEarningsParts
<1>3. \A e \in V : u[e] = f[e]
    <2>1. \A e \in V : ~ InCredit(e) BY DEF Still, Quiet, InCredit
    <2> QED BY <1>2, <2>1 DEF Unpaid
<1>4. \A e \in H : net[e] \in Int BY <1>0, <1>2 DEF TypeOK, Doc
<1>5. NetHeld(v, "held") = SumFunctionOnSet(net, H) BY DEF NetHeld
<1>6. SumFunctionOnSet(u, V) = SumFunctionOnSet(net, H)
    <2> HIDE DEF V, H, net, u
    <2>1. SumFunctionOnSet(net, H) = SumFunctionOnSet(f, V) BY <1>2, <1>4, SumPart
    <2> HIDE DEF f
    <2>2. SumFunctionOnSet(u, V) = SumFunctionOnSet(f, V) BY <1>2, <1>3, SumSame
    <2> QED BY <2>1, <2>2
<1>7. RecordedNet(v) = SumFunctionOnSet(Share, V)
    <2>1. \A e \in V : created[e] > 0
        BY <1>0, VendorEarningsParts DEF VendorInv, DocsOf
    <2>2. {e \in V : created[e] > 0} = V BY <2>1
    <2> QED BY <2>2 DEF RecordedNet
<1>8. /\ pending[v] \in Int /\ balance[v] \in Int /\ GivenFor(v) \in Int
      /\ SumFunctionOnSet(u, V) \in Int /\ SumFunctionOnSet(Share, V) \in Int
    BY <1>0, AccountType
<1>9. /\ pending[v] = SumFunctionOnSet(u, V) + 0
      /\ pending[v] + balance[v] = SumFunctionOnSet(Share, V) - GivenFor(v) - 0
    BY <1>1 DEF Account
<1> HIDE DEF u, V, H, net
<1> QED BY <1>5, <1>6, <1>7, <1>8, <1>9

\* However many instances run the cron, whatever is released, reversed, reported and
\* abandoned beside it: whenever no charge, credit or reversal is at work, a vendor
\* whose money only one of them worked on at a time has paid exactly what its
\* customers were given, out of its unreleased earnings or its balance ("otherwise
\* the vendor keeps their money while the platform funds the customer's
\* compensation", checkLateFulfillments).  No penalty may be above what its
\* shipment's earnings were worth (the default cap is 25 % of the price, the
\* default commission 10 %), or the balance would be left at zero and the rest lost;
\* for the same reason no older copy of an order may have been used, which makes the
\* customer be given the same penalty again.
THEOREM BearsPenalty ==
    ASSUME "lostReply" \notin Faults, "revertError" \notin Faults,
           Covered
    PROVE  LateSpec => [](rewritten = {} => PenaltyIsBorne)
<1>1. LateInit => BorneInv BY LateInitBorne
<1>2. BorneInv /\ [LateNext]_lateAllVars => BorneInv' BY LateNextBorne
<1>3. BorneInv => (rewritten = {} => PenaltyIsBorne) BY BorneSuffices
<1> QED BY <1>1, <1>2, <1>3, PTL DEF LateSpec
=============================================================================
