------------------------------- MODULE Bespoke -------------------------------
(***************************************************************************)
(* One bespoke design: its customer asks vendors for quotes, asks for      *)
(* revisions and accepts a quote by paying an order for it from the wallet *)
(* or by card; vendors draft and submit quotes, which expire.  A card      *)
(* payment is finalised by the webhook and by the customer's return, a     *)
(* wallet payment by acceptQuote itself.                                   *)
(*                                                                         *)
(* No call claims the quote it works on: it writes what it decided from    *)
(* the copy it loaded, guarded by the document's version only where it     *)
(* replaces the line items.                                                *)
(***************************************************************************)
EXTENDS Integers, FiniteSets

CONSTANTS
    Quote,        \* quote documents of the design
    VendorOf,     \* VendorOf[q]: the vendor that is asked for it
    MaxVendors,   \* MAX_VENDORS_PER_DESIGN
    Price,        \* totals of line items
    Call,         \* calls of the endpoints
    Kind,         \* Kind[c]: which endpoint
    Of,           \* Of[c]: the quote the call is about
    Asked,        \* Asked[c]: the quotes a request would create
    Bid,          \* Bid[c]: the total of a draft's or submission's line items
    Offer,        \* Offer[q]: the total of a quote that is submitted from the start
    Funds,        \* the customer's wallet
    Start,        \* the calls and quotes a behaviour begins with
    MaxFailures   \* bound on failing steps and stopped instances

Paying == {"payWallet", "payCard"}
CallKind == Paying \cup {"request", "cancel", "revise", "draft", "submit", "finalise"}
QuoteStatus == {"none", "pending", "draft", "submitted", "accepted", "declined",
                "expired", "revision_requested"}
DesignStatus == {"draft", "requesting_quotes", "quoted", "in_production", "cancelled"}

\* A document as it is stored; version is Mongoose's __v.
QuoteDoc == [status: QuoteStatus, total: Nat, version: Nat]

ASSUME BespokeAssumption ==
    /\ Kind \in [Call -> CallKind]
    /\ Of \in [Call -> Quote]
    /\ Asked \in [Call -> SUBSET Quote]
    /\ Price \subseteq Nat
    /\ Bid \in [Call -> Price]
    /\ Offer \in [Quote -> Price]
    /\ Funds \in Nat
    /\ MaxVendors \in Nat /\ MaxFailures \in Nat
    /\ Start \subseteq [calls: SUBSET Call, quotes: [Quote -> {"none", "pending", "submitted"}]]

VARIABLES
    design,       \* the design's status and accepted_quote (a set of at most one)
    quote,        \* the quote documents
    expired,      \* quotes whose expires_at has passed
    order,        \* order[c]: the order document acceptQuote call c created
    charge,       \* charge[c]: the card transaction of call c
    balance,      \* the customer's wallet
    call,         \* local state of each call
    failures,     \* how many steps failed so far
    submitted,    \* history: totals each vendor submitted
    raced,        \* history: quotes saved from a copy that was out of date
    paidFor,      \* history: quotes for which the customer was debited
    withdrawn,    \* history: the customer cancelled the design
    lateClaim     \* history: orders recorded by a call that found them paid

quoteVars == <<quote, expired, submitted, raced>>
designVars == <<design, withdrawn>>
orderVars == <<order, lateClaim>>
moneyVars == <<charge, balance, paidFor>>
vars == <<quoteVars, designVars, orderVars, moneyVars, call, failures>>

OrderDoc == [status: {"none", "pending", "processing"}, paid: BOOLEAN, total: Nat,
             recorded: BOOLEAN, upfront: {"none", "held", "scheduled"}]
CallPC == {"absent", "ready", "existing", "create", "requesting", "expire", "order", "place",
           "pay", "debit", "quote", "accept", "decline", "point", "mark", "claim",
           "record", "schedule", "produce", "refund", "save", "quoted",
           "done", "refused", "conflict", "error"}
CallState == [pc: CallPC, quote: QuoteDoc, design: DesignStatus, on: Call,
              new: SUBSET Quote, already: BOOLEAN]

TypeOK ==
    /\ design \in [status: DesignStatus, accepted: SUBSET Quote]
    /\ quote \in [Quote -> QuoteDoc]
    /\ expired \subseteq Quote
    /\ order \in [Call -> OrderDoc]
    /\ charge \in [Call -> [state: {"none", "open", "paid"}, order: Call]]
    /\ balance \in Nat
    /\ call \in [Call -> CallState]
    /\ failures \in Nat
    /\ submitted \in [Quote -> SUBSET Price]
    /\ raced \subseteq Quote
    /\ paidFor \subseteq Quote
    /\ withdrawn \in BOOLEAN
    /\ lateClaim \subseteq Call

-----------------------------------------------------------------------------
NoOrder == [status |-> "none", paid |-> FALSE, total |-> 0,
            recorded |-> FALSE, upfront |-> "none"]
NewQuote(status) == [status |-> status, total |-> 0, version |-> 0]
NewCall(c, pc) == [pc |-> pc, quote |-> NewQuote("none"), design |-> "draft", on |-> c,
                   new |-> {}, already |-> FALSE]

FirstQuote(q, status) ==
    IF status = "submitted" THEN [status |-> status, total |-> Offer[q], version |-> 1]
    ELSE NewQuote(status)

\* createDesign; an earlier request and its answers may be there already.
Init ==
    /\ \E s \in Start :
         /\ call = [c \in Call |-> NewCall(c, IF c \in s.calls THEN "ready" ELSE "absent")]
         /\ quote = [q \in Quote |-> FirstQuote(q, s.quotes[q])]
         /\ design = [status |-> IF \E q \in Quote : s.quotes[q] = "submitted" THEN "quoted"
                                 ELSE IF \E q \in Quote : s.quotes[q] = "pending"
                                 THEN "requesting_quotes" ELSE "draft",
                      accepted |-> {}]
         /\ submitted = [q \in Quote |-> IF s.quotes[q] = "submitted" THEN {Offer[q]} ELSE {}]
    /\ expired = {}
    /\ order = [c \in Call |-> NoOrder]
    /\ charge = [c \in Call |-> [state |-> "none", order |-> c]]
    /\ balance = Funds
    /\ failures = 0
    /\ raced = {} /\ paidFor = {} /\ withdrawn = FALSE /\ lateClaim = {}

Goes(c, pc) == call' = [call EXCEPT ![c].pc = pc]
At(c, pc, kinds) == call[c].pc = pc /\ Kind[c] \in kinds

\* What a save sends: the paths that differ from the loaded copy.
Sent(new, loaded, stored) == IF new = loaded THEN stored ELSE new

Existing == {q \in Quote : quote[q].status # "none"}
Undecided == {"pending", "draft", "submitted", "revision_requested"}

\* updateMany: the undecided quotes of the design, but for one, are declined.
DeclineOthers(keep) ==
    quote' = [q \in Quote |->
                IF quote[q].status \in Undecided /\ q \notin keep
                THEN [quote[q] EXCEPT !.status = "declined"] ELSE quote[q]]

\* quote.save() by call c with a new status and total: replacing the line items
\* needs the loaded version.
Fits(c, q, total) == total # call[c].quote.total => quote[q].version = call[c].quote.version
SaveQuote(c, q, status, total, pushes) ==
    LET loaded == call[c].quote
        replaced == total # loaded.total
    IN
    /\ quote' = [quote EXCEPT ![q] =
          [status |-> Sent(status, loaded.status, quote[q].status),
           total |-> Sent(total, loaded.total, quote[q].total),
           version |-> quote[q].version + (IF replaced \/ pushes THEN 1 ELSE 0)]]
    /\ raced' = IF quote[q] = loaded THEN raced ELSE raced \cup {q}

-----------------------------------------------------------------------------
(* requestQuotes                                                           *)

\* The vendors are counted before those asked already are left out.
RequestLoad(c) ==
    /\ At(c, "ready", {"request"})
    /\ call' = [call EXCEPT
          ![c].pc = IF /\ design.status \in {"draft", "requesting_quotes", "quoted"}
                       /\ Cardinality(Existing) + Cardinality(Asked[c]) <= MaxVendors
                    THEN "existing" ELSE "refused",
          ![c].design = design.status]
    /\ UNCHANGED <<quoteVars, designVars, orderVars, moneyVars, failures>>

RequestExisting(c) ==
    LET new == {q \in Asked[c] : \A p \in Existing : VendorOf[p] # VendorOf[q]} IN
    /\ At(c, "existing", {"request"})
    /\ call' = [call EXCEPT ![c].pc = IF new = {} THEN "refused" ELSE "create", ![c].new = new]
    /\ UNCHANGED <<quoteVars, designVars, orderVars, moneyVars, failures>>

\* The new quotes are created, each on its own.
RequestCreate(c, q) ==
    /\ At(c, "create", {"request"})
    /\ q \in call[c].new
    /\ quote' = [quote EXCEPT ![q] = NewQuote("pending")]
    /\ call' = [call EXCEPT ![c].pc = IF call[c].new = {q} THEN "requesting" ELSE "create",
                            ![c].new = @ \ {q}]
    /\ UNCHANGED <<expired, submitted, raced, designVars, orderVars, moneyVars, failures>>

RequestSave(c) ==
    /\ At(c, "requesting", {"request"})
    /\ design' = IF call[c].design = "draft"
                 THEN [design EXCEPT !.status = "requesting_quotes"] ELSE design
    /\ Goes(c, "done")
    /\ UNCHANGED <<quoteVars, withdrawn, orderVars, moneyVars, failures>>

-----------------------------------------------------------------------------
(* cancelDesign                                                            *)

CancelLoad(c) ==
    /\ At(c, "ready", {"cancel"})
    /\ call' = [call EXCEPT ![c].pc = IF design.status = "in_production"
                                      THEN "refused" ELSE "decline",
                            ![c].design = design.status]
    /\ UNCHANGED <<quoteVars, designVars, orderVars, moneyVars, failures>>

CancelDecline(c) ==
    /\ At(c, "decline", {"cancel"})
    /\ DeclineOthers({})
    /\ withdrawn' = TRUE
    /\ Goes(c, "save")
    /\ UNCHANGED <<expired, submitted, raced, design, orderVars, moneyVars, failures>>

CancelSave(c) ==
    /\ At(c, "save", {"cancel"})
    /\ design' = [design EXCEPT !.status = Sent("cancelled", call[c].design, @)]
    /\ Goes(c, "done")
    /\ UNCHANGED <<quoteVars, withdrawn, orderVars, moneyVars, failures>>

-----------------------------------------------------------------------------
(* saveQuoteDraft, submitQuote, requestRevision                            *)

\* The statuses in which the vendor may edit the quote.
Editable(status) == status \in {"pending", "draft", "revision_requested"}

MayEdit(c) ==
    LET s == quote[Of[c]].status IN
    IF Kind[c] = "revise" THEN s \in {"submitted", "draft"} ELSE Editable(s)

EditLoad(c) ==
    /\ At(c, "ready", {"draft", "submit", "revise"})
    /\ Of[c] \in Existing
    /\ call' = [call EXCEPT ![c].pc = IF ~ MayEdit(c) THEN "refused"
                                      ELSE IF Kind[c] = "submit" /\ Of[c] \in expired
                                      THEN "expire" ELSE "save",
                            ![c].quote = quote[Of[c]]]
    /\ UNCHANGED <<quoteVars, designVars, orderVars, moneyVars, failures>>

DraftSave(c) ==
    LET q == Of[c] IN
    /\ At(c, "save", {"draft"})
    /\ IF Fits(c, q, Bid[c])
       THEN SaveQuote(c, q, "draft", Bid[c], FALSE) /\ Goes(c, "done")
       ELSE UNCHANGED <<quote, raced>> /\ Goes(c, "conflict")
    /\ UNCHANGED <<expired, submitted, designVars, orderVars, moneyVars, failures>>

SubmitSave(c) ==
    LET q == Of[c] IN
    /\ At(c, "save", {"submit"})
    /\ IF Fits(c, q, Bid[c])
       THEN /\ SaveQuote(c, q, "submitted", Bid[c], call[c].quote.status = "revision_requested")
            /\ submitted' = [submitted EXCEPT ![q] = @ \cup {Bid[c]}]
            /\ Goes(c, "quoted")
       ELSE UNCHANGED <<quote, raced, submitted>> /\ Goes(c, "conflict")
    /\ UNCHANGED <<expired, designVars, orderVars, moneyVars, failures>>

\* The design is marked whatever became of it meanwhile.
SubmitQuoted(c) ==
    /\ At(c, "quoted", {"submit"})
    /\ design' = [design EXCEPT !.status = "quoted"]
    /\ Goes(c, "done")
    /\ UNCHANGED <<quoteVars, withdrawn, orderVars, moneyVars, failures>>

\* The message is pushed to the history, which changes the version.
ReviseSave(c) ==
    /\ At(c, "save", {"revise"})
    /\ SaveQuote(c, Of[c], "revision_requested", call[c].quote.total, TRUE)
    /\ Goes(c, "done")
    /\ UNCHANGED <<expired, submitted, designVars, orderVars, moneyVars, failures>>

\* A submission or an acceptance that found the quote past its date.
ExpireSave(c) ==
    /\ At(c, "expire", {"submit"} \cup Paying)
    /\ SaveQuote(c, Of[c], "expired", call[c].quote.total, FALSE)
    /\ Goes(c, "refused")
    /\ UNCHANGED <<expired, submitted, designVars, orderVars, moneyVars, failures>>

\* A week passes.
Elapse(q) ==
    /\ q \in Existing \ expired
    /\ expired' = expired \cup {q}
    /\ UNCHANGED <<quote, submitted, raced, designVars, orderVars, moneyVars, call, failures>>

\* The nightly cron leaves submitted quotes alone.
ExpireQuotes ==
    /\ quote' = [q \in Quote |->
                   IF q \in expired /\ Editable(quote[q].status)
                   THEN [quote[q] EXCEPT !.status = "expired"] ELSE quote[q]]
    /\ quote' # quote
    /\ UNCHANGED <<expired, submitted, raced, designVars, orderVars, moneyVars, call, failures>>

-----------------------------------------------------------------------------
(* acceptQuote                                                             *)

\* Mutation: a quote is accepted as soon as it has line items.
HasItems(status) == status \in {"draft", "submitted"}

\* Only submitted quotes can be accepted.
Acceptable(status) == status = "submitted"

AcceptLoad(c) ==
    LET q == Of[c] IN
    /\ At(c, "ready", Paying)
    /\ q \in Existing
    /\ call' = [call EXCEPT ![c].pc = IF ~ Acceptable(quote[q].status) THEN "refused"
                                      ELSE IF q \in expired THEN "expire" ELSE "order",
                            ![c].quote = quote[q]]
    /\ UNCHANGED <<quoteVars, designVars, orderVars, moneyVars, failures>>

PendingOrders(q) == {d \in Call : Of[d] = q /\ order[d].status = "pending"}

\* An unpaid order for the quote is used again.
AcceptOrder(c) ==
    LET open == PendingOrders(Of[c]) IN
    /\ At(c, "order", Paying)
    /\ \/ /\ open = {}
          /\ call' = [call EXCEPT ![c].pc = "place", ![c].design = design.status]
       \/ \E d \in open :
            call' = [call EXCEPT ![c].pc = "pay", ![c].design = design.status, ![c].on = d]
    /\ UNCHANGED <<quoteVars, designVars, orderVars, moneyVars, failures>>

\* A new order asks the total of the copy.
AcceptPlace(c) ==
    /\ At(c, "place", Paying)
    /\ order' = [order EXCEPT ![c].status = "pending", ![c].total = call[c].quote.total]
    /\ Goes(c, "pay")
    /\ UNCHANGED <<quoteVars, designVars, lateClaim, moneyVars, failures>>

\* Mutation: the alternatives are declined when the card payment begins.
ChargeAndDecline(c) ==
    /\ At(c, "pay", {"payCard"})
    /\ charge' = [charge EXCEPT ![c] = [state |-> "open", order |-> call[c].on]]
    /\ DeclineOthers({Of[c]})
    /\ Goes(c, "done")
    /\ UNCHANGED <<expired, submitted, raced, designVars, orderVars, balance, paidFor, failures>>

\* By card: the transaction is created and its payment page opened.
AcceptCharge(c) ==
    /\ At(c, "pay", {"payCard"})
    /\ charge' = [charge EXCEPT ![c] = [state |-> "open", order |-> call[c].on]]
    /\ Goes(c, "done")
    /\ UNCHANGED <<quoteVars, designVars, orderVars, balance, paidFor, failures>>

AcceptBalance(c) ==
    /\ At(c, "pay", {"payWallet"})
    /\ Goes(c, IF balance < order[call[c].on].total THEN "refused" ELSE "debit")
    /\ UNCHANGED <<quoteVars, designVars, orderVars, moneyVars, failures>>

\* debitWallet is conditional; its error leaves the call.
AcceptDebit(c) ==
    LET total == order[call[c].on].total IN
    /\ At(c, "debit", {"payWallet"})
    /\ IF balance >= total
       THEN /\ balance' = balance - total
            /\ paidFor' = paidFor \cup {Of[c]}
            /\ Goes(c, "accept")
       ELSE UNCHANGED <<balance, paidFor>> /\ Goes(c, "error")
    /\ UNCHANGED <<quoteVars, designVars, orderVars, charge, failures>>

\* A step after the debit fails: the wallet is credited, what was written stays.
AcceptFails(c) ==
    /\ Kind[c] = "payWallet"
    /\ call[c].pc \in {"accept", "decline", "produce", "mark", "claim", "record", "schedule"}
    /\ failures < MaxFailures
    /\ failures' = failures + 1
    /\ Goes(c, "refund")
    /\ UNCHANGED <<quoteVars, designVars, orderVars, moneyVars>>

AcceptRefund(c) ==
    /\ At(c, "refund", {"payWallet"})
    /\ balance' = balance + order[call[c].on].total
    /\ Goes(c, "error")
    /\ UNCHANGED <<quoteVars, designVars, orderVars, charge, paidFor, failures>>

-----------------------------------------------------------------------------
(* finalizeCheckoutOrder, with finalizeBespokeAcceptance                   *)

\* The customer pays on the payment page.
Charge(c) ==
    /\ charge[c].state = "open"
    /\ charge' = [charge EXCEPT ![c].state = "paid"]
    /\ paidFor' = paidFor \cup {Of[charge[c].order]}
    /\ UNCHANGED <<quoteVars, designVars, orderVars, balance, call, failures>>

\* Mutation: the status of the transaction is not asked.
Opened(c) == charge[c].state # "none"

\* Only a successful transaction is finalised.
Successful(c) == charge[c].state = "paid"

\* The order is read; one that is paid already skips the bespoke part.
FinaliseLoad(c, d) ==
    LET o == charge[d].order IN
    /\ At(c, "ready", {"finalise"})
    /\ Successful(d)
    /\ call' = [call EXCEPT ![c].pc = IF order[o].paid THEN "mark" ELSE "quote",
                            ![c].on = o, ![c].already = order[o].paid]
    /\ UNCHANGED <<quoteVars, designVars, orderVars, moneyVars, failures>>

FinaliseQuote(c) ==
    LET q == Of[call[c].on] IN
    /\ At(c, "quote", {"finalise"})
    /\ call' = [call EXCEPT ![c].pc = IF quote[q].status = "accepted" THEN "mark" ELSE "accept",
                            ![c].quote = quote[q]]
    /\ UNCHANGED <<quoteVars, designVars, orderVars, moneyVars, failures>>

\* An error of finalizeBespokeAcceptance is logged.
FinaliseSwallow(c) ==
    /\ Kind[c] = "finalise"
    /\ call[c].pc \in {"quote", "accept", "decline", "point"}
    /\ failures < MaxFailures
    /\ failures' = failures + 1
    /\ Goes(c, "mark")
    /\ UNCHANGED <<quoteVars, designVars, orderVars, moneyVars>>

-----------------------------------------------------------------------------
(* The steps of both finalisations, in the order of each                   *)

Finalising == {"payWallet", "finalise"}

\* The quote is accepted, whatever its status is by now.
Accept(c) ==
    LET q == Of[call[c].on] IN
    /\ At(c, "accept", Finalising)
    /\ SaveQuote(c, q, "accepted", call[c].quote.total, FALSE)
    /\ Goes(c, "decline")
    /\ UNCHANGED <<expired, submitted, designVars, orderVars, moneyVars, failures>>

Decline(c) ==
    /\ At(c, "decline", Finalising)
    /\ DeclineOthers({Of[call[c].on]})
    /\ Goes(c, IF Kind[c] = "finalise" THEN "point" ELSE "produce")
    /\ UNCHANGED <<expired, submitted, raced, designVars, orderVars, moneyVars, failures>>

Point(c) ==
    /\ At(c, "point", {"finalise"})
    /\ design' = [design EXCEPT !.accepted = {Of[call[c].on]}]
    /\ Goes(c, "mark")
    /\ UNCHANGED <<quoteVars, withdrawn, orderVars, moneyVars, failures>>

\* design.save() of the wallet's copy, updateOne by the webhook.
Produce(c) ==
    /\ At(c, "produce", Finalising)
    /\ design' = IF Kind[c] = "finalise" THEN [design EXCEPT !.status = "in_production"]
                 ELSE [status |-> Sent("in_production", call[c].design, design.status),
                       accepted |-> {Of[c]}]
    /\ Goes(c, IF Kind[c] = "finalise" THEN "done" ELSE "mark")
    /\ UNCHANGED <<quoteVars, withdrawn, orderVars, moneyVars, failures>>

Mark(c) ==
    /\ At(c, "mark", Finalising)
    /\ order' = [order EXCEPT ![call[c].on].status = "processing", ![call[c].on].paid = TRUE]
    /\ Goes(c, "claim")
    /\ UNCHANGED <<quoteVars, designVars, lateClaim, moneyVars, failures>>

\* Mutation: whether the order was paid is asked again after it was marked.
FollowsMarked(c) == IF order[call[c].on].paid THEN "done" ELSE "schedule"

\* Only a finaliser that did not find the order paid goes on to the upfront part.
Follows(c) == IF call[c].already THEN "done" ELSE "schedule"

\* recordBusinessEarnings: the claim on the order, then the documents.
Claim(c) ==
    LET o == call[c].on IN
    /\ At(c, "claim", Finalising)
    /\ IF order[o].recorded
       THEN UNCHANGED orderVars /\ Goes(c, Follows(c))
       ELSE /\ order' = [order EXCEPT ![o].recorded = TRUE]
            /\ lateClaim' = IF call[c].already THEN lateClaim \cup {o} ELSE lateClaim
            /\ Goes(c, "record")
    /\ UNCHANGED <<quoteVars, designVars, moneyVars, failures>>

Record(c) ==
    /\ At(c, "record", Finalising)
    /\ order' = [order EXCEPT ![call[c].on].upfront = "held"]
    /\ Goes(c, Follows(c))
    /\ UNCHANGED <<quoteVars, designVars, lateClaim, moneyVars, failures>>

\* The upfront earnings that are recorded by now get their release date.
Schedule(c) ==
    LET o == call[c].on IN
    /\ At(c, "schedule", Finalising)
    /\ order' = IF order[o].upfront = "held" THEN [order EXCEPT ![o].upfront = "scheduled"]
                ELSE order
    /\ Goes(c, IF Kind[c] = "finalise" THEN "produce" ELSE "done")
    /\ UNCHANGED <<quoteVars, designVars, lateClaim, moneyVars, failures>>

-----------------------------------------------------------------------------
Over == {"absent", "ready", "done", "refused", "conflict", "error"}

\* An instance stops.
Crash(c) ==
    /\ call[c].pc \notin Over
    /\ failures < MaxFailures
    /\ failures' = failures + 1
    /\ Goes(c, "error")
    /\ UNCHANGED <<quoteVars, designVars, orderVars, moneyVars>>

Begin(c) ==
    \/ RequestLoad(c) \/ CancelLoad(c) \/ EditLoad(c) \/ AcceptLoad(c)
    \/ \E d \in Call : FinaliseLoad(c, d)

RequestStep(c) == RequestExisting(c) \/ RequestSave(c)
                  \/ \E q \in call[c].new : RequestCreate(c, q)
EditStep(c) ==
    \/ CancelDecline(c) \/ CancelSave(c) \/ DraftSave(c) \/ SubmitSave(c)
    \/ SubmitQuoted(c) \/ ReviseSave(c) \/ ExpireSave(c)
AcceptStep(c) ==
    \/ AcceptOrder(c) \/ AcceptPlace(c) \/ AcceptCharge(c) \/ AcceptBalance(c)
    \/ AcceptDebit(c) \/ AcceptRefund(c)
FinaliseStep(c) ==
    \/ FinaliseQuote(c) \/ Accept(c) \/ Decline(c) \/ Point(c) \/ Produce(c)
    \/ Mark(c) \/ Claim(c) \/ Record(c) \/ Schedule(c)

Working == \E c \in Call : RequestStep(c) \/ EditStep(c) \/ AcceptStep(c) \/ FinaliseStep(c)

Next ==
    \/ Working
    \/ \E c \in Call : \/ Begin(c) \/ Charge(c)
                       \/ AcceptFails(c) \/ FinaliseSwallow(c) \/ Crash(c)
    \/ \E q \in Quote : Elapse(q)
    \/ ExpireQuotes

Spec == Init /\ [][Next]_vars

\* A handler that runs goes on.  Nobody need make a request.
FairSpec == Spec /\ WF_vars(Working)

-----------------------------------------------------------------------------
(* Properties                                                              *)

\* A quote is accepted only for a customer who was debited for an order of it
\* (acceptQuote: "acceptance is finalised only once payment SUCCEEDS").
AcceptedIsPaid ==
    \A q \in Quote : quote[q].status = "accepted" => q \in paidFor

\* A quote is declined only because the customer withdrew the design or paid
\* for another quote: an abandoned card payment declines nothing (acceptQuote:
\* "never leaves the customer stuck with every other quote already declined").
DeclinedForReason ==
    \A q \in Quote :
      quote[q].status = "declined" => withdrawn \/ \E p \in paidFor : p # q

\* An order asks a price its vendor submitted, unless a call wrote over a
\* change of the quote it had not seen.
PriceWasSubmitted ==
    \A c \in Call :
      order[c].status # "none" => Of[c] \in raced \/ order[c].total \in submitted[Of[c]]

Unfunded == {c \in Call : order[c].paid /\ order[c].upfront # "scheduled"}

\* The upfront milestone of every paid order is scheduled in the end, whichever
\* of the finalisers wins which step, unless one of them fails or the earnings
\* are recorded by one that found the order paid (finalizeCheckoutOrder:
\* "Release the tailor's UPFRONT milestone").
UpfrontScheduled == <>[](failures > 0 \/ Unfunded \subseteq lateClaim)
=============================================================================
