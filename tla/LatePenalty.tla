---------------------------- MODULE LatePenalty ----------------------------
(***************************************************************************)
(* checkLateFulfillments: every hour, on every instance, a cron looks for  *)
(* confirmed shipments past their deadline, takes a share of the items'    *)
(* price that grows with the days from the vendor's earnings or balance,   *)
(* and gives it to the customer.  The earnings are those of Earnings, with *)
(* their release cron, reversals and the vendors' and courier's calls.     *)
(*                                                                         *)
(* A run works on the orders it loaded at its start.  It claims a tier of  *)
(* a shipment in one conditional update, then saves its copy of the order, *)
(* then charges the vendor, one await after another.                       *)
(***************************************************************************)
EXTENDS Earnings

CONSTANTS
    Run,          \* backend instances running the cron
    Reporter,     \* vendors reporting production steps
    Together,     \* who acts, and which failures there are, together
    Rate,         \* late_penalty_percent_per_day
    Cap,          \* late_penalty_max_percent
    Price,        \* Price[s]: what the customer paid for the items of a shipment
    MaxLate,      \* bound of the model: how many days a shipment may be late
    MaxVersion    \* bound of the model: how often an order is saved whole

\* A shipment is an order's part from one vendor.
Shipment == {s \in Order \X Vendor : s[2] \in VendorsOf(s[1])}

ASSUME LateAssumption ==
    /\ IsFiniteSet(Run)
    /\ Rate \in Nat /\ Cap \in Nat
    /\ Price \in [Shipment -> Nat]
    /\ Together \subseteq SUBSET (Faults \cup Run \cup Reporter \cup Recorder \cup Releaser
                              \cup Reverser \cup Vendor \cup {"courier"})
    /\ MaxLate \in Nat \ {0} /\ MaxVersion \in Nat

VARIABLES
    late,         \* how many days each shipment is past its deadline
    tier,         \* shipment.late_penalty_days
    amount,       \* shipment.late_penalty_amount
    version,      \* Mongoose's version of each order
    pen,          \* local state of each run
    copy,         \* the order as each report or rejection loaded it
    given,        \* history: penalties the customer was given, or should have been
    rewritten,    \* history: shipments an old copy was used for
    mixed,        \* history: vendors whose charge met other work on their money
    made          \* who acts, and which failures there are

lateVars == <<late, tier, amount, version>>
copyVars == <<pen, copy>>
histVars == <<given, rewritten, made>>
penaltyVars == <<lateVars, copyVars, histVars, mixed>>
lateAllVars == <<vars, penaltyVars>>

Day == 0..MaxLate
\* A shipment as a run loaded it.
Seen == [shipment: Shipment, tier: Day, amount: Nat, version: Nat]
Working == {"save", "find", "take", "wallet", "write", "clawRead", "clawWrite", "refund"}
\* The shipment in hand, its new tier and amount, the increment and what is left
\* of it, the earnings still to visit, what was taken last and the wallet as loaded.
Penalty == [seen: Seen, tier: Day, amount: Nat, due: Nat, remaining: Nat,
            jobs: SUBSET Job, take: Nat, pending: Int, balance: Int]
PenState == {Idle} \cup [pc: {"loop"}, todo: SUBSET Seen]
            \cup [pc: Working, todo: SUBSET Seen, p: Penalty]

LateTypeOK ==
    /\ TypeOK
    /\ late \in [Shipment -> Day]
    /\ tier \in [Shipment -> Day]
    /\ amount \in [Shipment -> Nat]
    /\ version \in [Order -> Nat]
    /\ pen \in [Run -> PenState]
    /\ copy \in [Reverser \cup Reporter -> {<<>>} \cup
                  [order: Order, items: SUBSET Item, version: Nat,
                   tier: [Shipment -> Day], amount: [Shipment -> Nat]]]
    /\ given \in [Shipment -> Nat]
    /\ rewritten \subseteq Shipment
    /\ mixed \subseteq Vendor
    /\ made \in Together

-----------------------------------------------------------------------------
\* Paid, recorded and in review; a legacy order may lack the flag.
LateInit ==
    /\ status = [o \in Order |-> "in_review"]
    /\ paid = Order
    /\ recorded = [o \in Order |-> o \notin Legacy]
    /\ confirmed = {} /\ dispatched = {} /\ satisfied = {} /\ rejected = {}
    /\ doc = [e \in Earning |-> IF e \in EarningsOf(e[1]) THEN HeldDoc(e) ELSE NoDoc]
    /\ pending = [v \in Vendor |-> NetOfVendor(v, Item)]
    /\ balance = [v \in Vendor |-> 0]
    /\ rec = [p \in Recorder |-> Idle]
    /\ rel = [w \in Releaser |-> Idle]
    /\ rev = [r \in Reverser |-> Idle]
    /\ created = [e \in Earning |-> IF e \in EarningsOf(e[1]) THEN 1 ELSE 0]
    /\ credited = [e \in Earning |-> 0]
    /\ late = [s \in Shipment |-> 0]
    /\ tier = [s \in Shipment |-> 0]
    /\ amount = [s \in Shipment |-> 0]
    /\ version = [o \in Order |-> 0]
    /\ pen = [n \in Run |-> Idle]
    /\ copy = [r \in Reverser \cup Reporter |-> <<>>]
    /\ given = [s \in Shipment |-> 0]
    /\ rewritten = {}
    /\ mixed = {}
    /\ made \in Together

Turned(s) == s[2] \notin ActiveVendors(s[1])
\* Neither shipped nor rejected, and confirmed: the shipments with a deadline.
Awaited(s) == s \in confirmed \ dispatched /\ ~Turned(s)

\* Another day begins after the deadline.
DayPasses(s) ==
    /\ Awaited(s)
    /\ late[s] < MaxLate
    /\ late' = [late EXCEPT ![s] = @ + 1]
    /\ UNCHANGED <<vars, tier, amount, version, copyVars, histVars>>

-----------------------------------------------------------------------------
(* Money: whose work overlaps whose                                        *)

Charging(n, v) ==
    /\ pen[n].pc \in {"take", "wallet", "write", "clawRead", "clawWrite", "refund"}
    /\ pen[n].p.seen.shipment[2] = v

\* A release run that loaded an earning of v and is not over.
Releasing(w, v) ==
    \/ \E j \in rel[w].todo : VendorOf[j.earning[1]] = v
    \/ rel[w].pc = "claimed" /\ VendorOf[rel[w].cur.earning[1]] = v

Reversing(r, v) == rev[r].pc # "idle" /\ \E i \in rev[r].scope : VendorOf[i] = v

Meets(v) ==
    \/ \E n \in Run : Charging(n, v) /\ ( \/ \E w \in Releaser : Releasing(w, v)
                                          \/ \E m \in Run \ {n} : Charging(m, v))
    \/ \E r \in Reverser : Reversing(r, v)

\* A charge or a credit that an instance abandoned.
Abandoned(v) ==
    \/ \E n \in Run : Charging(n, v) /\ pen'[n].pc = "idle"
    \/ \E w \in Releaser : /\ rel[w].pc = "claimed" /\ rel'[w].pc = "idle"
                           /\ VendorOf[rel[w].cur.earning[1]] = v

Mixing == mixed' = mixed \cup {v \in Vendor : Meets(v)' \/ Abandoned(v)}

-----------------------------------------------------------------------------
(* The other calls                                                         *)

\* A vendor reports a production step (items = {}) or rejects an item of an
\* order: the order is loaded.
WholeLoad(r, o, items) ==
    /\ copy[r] = <<>>
    /\ r \in Reverser => rev[r].pc = "idle"
    /\ \A i \in items : /\ VendorOf[i] \in made
                        /\ i \notin rejected /\ <<o, VendorOf[i]>> \notin dispatched
    /\ version[o] < MaxVersion
    /\ copy' = [copy EXCEPT ![r] = [order |-> o, items |-> items, version |-> version[o],
                                    tier |-> tier, amount |-> amount]]
    /\ UNCHANGED <<vars, lateVars, pen, histVars>>

\* The shipments are sent whole, with the penalties they were loaded with, and
\* the version rises; it is checked first.
WholeSave(r) ==
    LET c == copy[r]
        ours == {s \in Shipment : s[1] = c.order}
    IN
    /\ c # <<>>
    /\ version[c.order] = c.version
    /\ IF c.items = {} THEN UNCHANGED vars ELSE \E i \in c.items : RejectItem(r, i)
    /\ tier' = [s \in Shipment |-> IF s \in ours THEN c.tier[s] ELSE tier[s]]
    /\ amount' = [s \in Shipment |-> IF s \in ours THEN c.amount[s] ELSE amount[s]]
    /\ version' = [version EXCEPT ![c.order] = @ + 1]
    /\ rewritten' = rewritten \cup {s \in ours : c.tier[s] # tier[s]}
    /\ copy' = [copy EXCEPT ![r] = <<>>]
    /\ UNCHANGED <<late, pen, given, made>>

\* The version is another one, or the item was shipped meanwhile (that overlap
\* is in Orders).
WholeRefused(r) ==
    LET c == copy[r] IN
    /\ c # <<>>
    /\ \/ version[c.order] # c.version
       \/ \E i \in c.items : <<c.order, VendorOf[i]>> \in dispatched
    /\ copy' = [copy EXCEPT ![r] = <<>>]
    /\ UNCHANGED <<vars, lateVars, pen, histVars>>

\* The steps of Earnings before a delivery, its rejection aside.  Only a release
\* run asks whether the payout delay has elapsed.
EarningsStep ==
    \/ \E o \in Order, v \in Vendor \cap made : ConfirmShipment(o, v) \/ Dispatch(o, v)
    \/ "courier" \in made /\ \E o \in Order : Transit(o)
    \/ made \cap Releaser # {} /\ \E e \in Earning : Elapse(e)
    \/ RecordStep \/ ReleaseStep
    \/ "crash" \in made /\ CrashStep
    \/ \E r \in Reverser :
         \/ \E o \in Order : copy[r] = <<>> /\ CancelBegin(r, o)
         \/ CancelSave(r)
         \/ ReverseFindHeld(r) \/ ReverseFindReleased(r)
         \/ \E j \in rev[r].todo : ReconcileRead(r, j)
         \/ ReconcileWrite(r) \/ DeleteEarning(r) \/ ZeroEarning(r)
         \/ ReverseDone(r)

Beside == EarningsStep /\ UNCHANGED <<lateVars, copyVars, histVars>>

-----------------------------------------------------------------------------
(* checkLateFulfillments                                                   *)

runFrame == <<copy, late, version>>
\* Mutation: only a shipment without a penalty.
NeverPenalised(s) == Awaited(s) /\ late[s] > 0 /\ tier[s] = 0

Overdue(s) == Awaited(s) /\ late[s] > 0

\* The orders the find asks for.  An order in transit is not among them, although
\* another vendor's part may not have been shipped.
Watched == {"processing", "in_review"}

\* The find: watched orders with an overdue shipment, all their shipments that are
\* overdue.
LateFind(n) ==
    LET found == {s \in Shipment : status[s[1]] \in Watched /\ Overdue(s)} IN
    /\ pen[n].pc = "idle"
    /\ found # {}
    /\ pen' = [pen EXCEPT ![n] = [pc |-> "loop", todo |->
                 {[shipment |-> s, tier |-> tier[s], amount |-> amount[s],
                   version |-> version[s[1]]] : s \in found}]]
    /\ UNCHANGED <<vars, runFrame, tier, amount, histVars>>

Percent(d) == Min({d * Rate, Cap})
\* Math.round of the share of the price.
Amount(s, d) == (2 * Price[s] * Percent(d) + 100) \div 200

\* Mutation: an updateOne by the shipment's id alone.
AnyTier(s, d) == s \in Shipment

\* The filter of the claim: the stored tier is a lower one.
LowerTier(s, d) == tier[s] < d

\* The tier of today and what the copy says is missing; a shipment with nothing
\* missing is skipped, and so is one whose tier is claimed already.
LateClaim(n, x) ==
    LET s == x.shipment
        d == late[s]
        total == Amount(s, d)
        rest == pen[n].todo \ {x}
    IN
    /\ pen[n].pc = "loop"
    /\ x \in pen[n].todo
    /\ IF d > x.tier /\ total > x.amount /\ LowerTier(s, d)
       THEN /\ tier' = [tier EXCEPT ![s] = d]
            /\ amount' = [amount EXCEPT ![s] = total]
            /\ rewritten' = IF tier[s] < d /\ tier[s] # x.tier
                            THEN rewritten \cup {s} ELSE rewritten
            /\ pen' = [pen EXCEPT ![n] =
                 [pc |-> "save", todo |-> rest,
                  p |-> [seen |-> x, tier |-> d, amount |-> total, due |-> total - x.amount,
                         remaining |-> total - x.amount, jobs |-> {}, take |-> 0,
                         pending |-> 0, balance |-> 0]]]
       ELSE /\ pen' = [pen EXCEPT ![n].todo = rest]
            /\ UNCHANGED <<tier, amount, rewritten>>
    /\ UNCHANGED <<vars, runFrame, given, made>>

LateGoes(n, pc) == pen' = [pen EXCEPT ![n].pc = pc]

\* order.save() sends the same fields again, by position: it is refused when the
\* version rose since the load, and the refusal ends the whole run.
LateSave(n) ==
    LET p == pen[n].p
        s == p.seen.shipment
    IN
    /\ pen[n].pc = "save"
    /\ IF version[s[1]] = p.seen.version
       THEN /\ tier' = [tier EXCEPT ![s] = p.tier]
            /\ amount' = [amount EXCEPT ![s] = p.amount]
            /\ rewritten' = IF tier[s] # p.tier THEN rewritten \cup {s} ELSE rewritten
            /\ LateGoes(n, "find")
       ELSE /\ pen' = [pen EXCEPT ![n] = Idle]
            /\ UNCHANGED <<tier, amount, rewritten>>
    /\ UNCHANGED <<vars, runFrame, given, made>>

chargeFrame == <<runFrame, tier, amount, histVars>>

\* The vendor's unreleased earnings of the order.
LateFindHeld(n) ==
    LET s == pen[n].p.seen.shipment
        held == {e \in OrderEarnings(s[1]) : VendorOf[e[1]] = s[2] /\ doc[e].state = "held"}
    IN
    /\ pen[n].pc = "find"
    /\ pen' = [pen EXCEPT ![n].pc = "take", ![n].p.jobs = {JobOf(e) : e \in held}]
    /\ UNCHANGED <<vars, chargeFrame>>

\* Mutation: every earning is charged the whole penalty.
WholeLeft(p) == p.remaining

\* What is left of the penalty after a take.
Left(p) == p.remaining - p.take

\* One earning gives what it has, up to what remains.  The save fails when the
\* earning is gone, and the error is caught: the charge ends there.
LateTake(n, j) ==
    LET p == pen[n].p
        take == Min({p.remaining, j.net})
        gone == doc[j.earning].state = "deleted"
    IN
    /\ pen[n].pc = "take"
    /\ j \in p.jobs
    /\ p.remaining > 0
    /\ IF take <= 0 THEN pen' = [pen EXCEPT ![n].p.jobs = @ \ {j}]
       ELSE IF gone THEN LateGoes(n, "refund")
       ELSE pen' = [pen EXCEPT ![n].pc = "wallet", ![n].p.jobs = @ \ {j},
                               ![n].p.take = take]
    /\ doc' = IF take <= 0 \/ gone THEN doc
              ELSE [doc EXCEPT ![j.earning].net = j.net - take]
    /\ UNCHANGED <<orderVars, recorded, walletVars, rec, rel, rev, created, credited,
                   chargeFrame>>

\* reconcileBusinessWallet loads the wallet, for the pending balance or, in the
\* end, for the claw-back.
LateWallet(n) ==
    LET v == pen[n].p.seen.shipment[2] IN
    /\ pen[n].pc \in {"wallet", "clawRead"}
    /\ pen' = [pen EXCEPT ![n].pc = IF @ = "wallet" THEN "write" ELSE "clawWrite",
                          ![n].p.pending = pending[v], ![n].p.balance = balance[v]]
    /\ UNCHANGED <<vars, chargeFrame>>

LateWrite(n) ==
    LET p == pen[n].p
        v == p.seen.shipment[2]
    IN
    /\ pen[n].pc = "write"
    /\ pending' = SaveField(pending, v, p.pending, -p.take)
    /\ pen' = [pen EXCEPT ![n].pc = "take", ![n].p.remaining = Left(p)]
    /\ UNCHANGED <<orderVars, recorded, doc, balance, rec, rel, rev, created, credited,
                   chargeFrame>>

\* The loop is over: what remains comes out of the balance.
LateLoopDone(n) ==
    LET p == pen[n].p IN
    /\ pen[n].pc = "take"
    /\ p.jobs = {} \/ p.remaining = 0
    /\ LateGoes(n, IF p.remaining > 0 THEN "clawRead" ELSE "refund")
    /\ UNCHANGED <<vars, chargeFrame>>

LateClawBack(n) ==
    LET p == pen[n].p
        v == p.seen.shipment[2]
    IN
    /\ pen[n].pc = "clawWrite"
    /\ balance' = SaveField(balance, v, p.balance, -p.remaining)
    /\ LateGoes(n, "refund")
    /\ UNCHANGED <<orderVars, recorded, doc, pending, rec, rel, rev, created, credited,
                   chargeFrame>>

\* processPartialRefund credits the customer, or records what it failed to.
LateRefund(n) ==
    LET s == pen[n].p.seen.shipment IN
    /\ pen[n].pc = "refund"
    /\ given' = [given EXCEPT ![s] = @ + pen[n].p.due]
    /\ pen' = [pen EXCEPT ![n] = [pc |-> "loop", todo |-> pen[n].todo]]
    /\ UNCHANGED <<vars, runFrame, tier, amount, rewritten, made>>

LateDone(n) ==
    /\ pen[n].pc = "loop"
    /\ pen[n].todo = {}
    /\ pen' = [pen EXCEPT ![n] = Idle]
    /\ UNCHANGED <<vars, runFrame, tier, amount, histVars>>

\* The instance running the cron stops.
LateCrash(n) ==
    /\ "crash" \in made
    /\ pen[n].pc # "idle"
    /\ pen' = [pen EXCEPT ![n] = Idle]
    /\ UNCHANGED <<vars, runFrame, tier, amount, histVars>>

LateStep(n) ==
    \/ LateSave(n) \/ LateFindHeld(n) \/ LateWallet(n) \/ LateWrite(n)
    \/ LateLoopDone(n) \/ LateClawBack(n) \/ LateRefund(n) \/ LateDone(n)
    \/ pen[n].pc = "take" /\ \E j \in pen[n].p.jobs : LateTake(n, j)
    \/ \E x \in pen[n].todo : LateClaim(n, x)

-----------------------------------------------------------------------------
Steps ==
    \/ Beside
    \/ \E s \in Shipment : DayPasses(s)
    \/ \E o \in Order :
         \/ \E r \in Reporter : WholeLoad(r, o, {})
         \/ \E r \in Reverser, i \in ItemsOf(o) : WholeLoad(r, o, {i})
    \/ \E r \in Reporter \cup Reverser : WholeSave(r) \/ WholeRefused(r)
    \/ \E n \in Run : LateFind(n) \/ LateStep(n) \/ LateCrash(n)

\* A call that is not made stays where it is.
Absent ==
    /\ \A n \in Run \ made : pen'[n] = pen[n]
    /\ \A r \in (Reporter \cup Reverser) \ made : copy'[r] = copy[r]
    /\ \A p \in Recorder \ made : rec'[p] = rec[p]
    /\ \A w \in Releaser \ made : rel'[w] = rel[w]
    /\ \A r \in Reverser \ made : rev'[r] = rev[r]

Frame == Mixing /\ Absent

LateNext == Steps /\ Frame

LateSpec == LateInit /\ [][LateNext]_lateAllVars

Priced == {s \in Shipment : Price[s] > 0}

\* The cron fires again and again, and not every run is cut off before it has
\* come to a shipment it found.
LateFairness ==
    \A n \in Run :
      /\ WF_lateAllVars(LateFind(n) /\ Frame)
      /\ WF_lateAllVars(LateStep(n) /\ Frame)
      /\ \A s \in Priced :
           SF_lateAllVars((\E x \in pen[n].todo : x.shipment = s /\ LateClaim(n, x)) /\ Frame)

LateFairSpec == LateSpec /\ LateFairness

-----------------------------------------------------------------------------
(* Properties, beside ReleasedOnce of Earnings                             *)

\* However many instances run the cron, and however often, the customer is given
\* for a shipment at most the penalty its document shows, unless a run or a save
\* used an older copy of the document ("only one instance ... proceeds to deduct
\* + refund", checkLateFulfillments).
CompensatedOnce ==
    \A s \in Shipment \ rewritten : given[s] <= amount[s]

Still ==
    /\ Quiet
    /\ \A n \in Run, v \in Vendor : ~Charging(n, v)

RecordedNet(v) ==
    SumFunctionOnSet(Share, {e \in VendorEarnings(v) : created[e] > 0})

GivenFor(v) == SumFunctionOnSet(given, {s \in Shipment : s[2] = v})

\* Whether its earnings were released before the penalty, after it or in part,
\* the vendor bears each charge exactly once, and its pending balance stays the
\* sum of its unreleased earnings, unless the charge overlapped a release, another
\* charge or a reversal ("otherwise the vendor keeps their money while the
\* platform funds the customer's compensation").
PenaltyIsBorne ==
    Still => \A v \in Vendor \ mixed :
      /\ pending[v] = NetHeld(v, "held")
      /\ pending[v] + balance[v] = RecordedNet(v) - GivenFor(v)

\* A shipment that stays late is penalised for the day wherever the cron runs, until
\* it is shipped or turned down or its order leaves the states the cron looks for: it
\* is cancelled, or in transit because the courier took another vendor's part.
LatenessIsPenalised ==
    \A s \in Priced, d \in Day \ {0} :
      (late[s] = d /\ made \cap Run # {}) ~>
        (\/ amount[s] >= Amount(s, d) \/ s \in dispatched \/ Turned(s)
         \/ status[s[1]] \notin Watched)
=============================================================================
