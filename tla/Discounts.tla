------------------------------ MODULE Discounts ------------------------------
(***************************************************************************)
(* The discounts of one vendor and the prices they leave on its products.  *)
(* A product stores the discount applied to it and the price it gave; the  *)
(* stored price is recomputed by whatever changes a discount, by the event *)
(* of a changed product, and by a cron that follows the discounts' dates.  *)
(*                                                                         *)
(* None of them excludes another.  Each works on copies of the discount    *)
(* and of the products it read, and writes the product by id.              *)
(***************************************************************************)
EXTENDS Integers, FiniteSets, FiniteSetsExt

CONSTANTS
    Discount, Product,
    NoDiscount,   \* applied_discount: null
    Trait,        \* what a discount's conditions tell apart in a product
    Goods,        \* base price and trait of a product, at first and when edited
    Value,        \* the values of discounts
    Offer,        \* discounts the vendor makes, and what an update makes of one
    Sale,         \* the mixes of calls a behaviour begins with
    MaxStops      \* bound on the calls an instance leaves unfinished

DiscountCall == {"create", "update", "delete", "include", "exclude", "upsert", "refresh"}
Phase == {"before", "open", "over"}     \* of start_date and end_date
Unit == {"percentage", "fixed"}         \* of type and value_type
Terms == [unit: Unit, value: Value]

ASSUME DiscountAssumption ==
    /\ NoDiscount \notin Discount /\ Discount # {}
    /\ Goods \subseteq [base: Nat, trait: Trait]
    /\ Value \subseteq Nat /\ Value # {} /\ Trait # {}
    /\ Offer \subseteq [phase: {"before", "open"}, terms: Terms, wanted: SUBSET Trait]
    /\ Sale \subseteq SUBSET DiscountCall
    /\ MaxStops \in Nat

VARIABLES
    discount,     \* the Discount documents
    product,      \* the Product documents
    dcall,        \* local state of each call
    stops,        \* how many calls were left unfinished so far
    loose,        \* history: products whose price rests on an outdated copy
    abandoned     \* history: discounts whose withdrawal nobody completes

discountVars == <<discount, product, dcall, stops, loose, abandoned>>
history == <<loose, abandoned>>

\* wanted: the traits its conditions accept, all of them when it is store-wide.
DiscountDoc ==
    [stored: BOOLEAN, active: BOOLEAN, phase: Phase, terms: Terms, wanted: SUBSET Trait,
     includes: SUBSET Product, excludes: SUBSET Product]
ProductDoc == [base: Nat, trait: Trait, applied: Discount \cup {NoDiscount}, price: Nat]
CallPC == {"absent", "ready", "load", "products", "loop", "write", "lists", "product",
           "event", "discounts", "due", "clear", "remove", "done"}

\* due: what the cron still has to switch on or off; doc, seen: copies it read.
CallState ==
    [pc: CallPC, d: Discount, p: SUBSET Product, todo: SUBSET Product,
     due: SUBSET [d: Discount, active: BOOLEAN],
     doc: [Discount -> DiscountDoc], seen: [Product -> ProductDoc]]

DiscountTypeOK ==
    /\ discount \in [Discount -> DiscountDoc]
    /\ product \in [Product -> ProductDoc]
    /\ dcall \in [DiscountCall -> CallState]
    /\ stops \in Nat
    /\ loose \subseteq Product
    /\ abandoned \subseteq Discount

\* calculateDiscountedPrice: never below zero; nothing for a product without a price.
PriceOf(base, terms) ==
    base - Min({base, IF terms.unit = "fixed" THEN terms.value
                      ELSE (base * terms.value) \div 100})

Fits(doc, p, copy) ==
    p \notin doc.excludes /\ (p \in doc.includes \/ copy.trait \in doc.wanted)

Carries(p, d) == product[p].applied = d
Priced(copy, d, terms) == [copy EXCEPT !.applied = d, !.price = PriceOf(copy.base, terms)]
Cleared(copy) == [copy EXCEPT !.applied = NoDiscount, !.price = 0]

NoDoc == [stored |-> FALSE, active |-> FALSE, phase |-> "over", terms |-> CHOOSE t \in Terms : TRUE,
          wanted |-> {}, includes |-> {}, excludes |-> {}]
NoProduct == [base |-> 0, trait |-> CHOOSE t \in Trait : TRUE, applied |-> NoDiscount, price |-> 0]
Made(offer) ==
    [stored |-> TRUE, active |-> TRUE, phase |-> offer.phase, terms |-> offer.terms,
     wanted |-> offer.wanted, includes |-> {}, excludes |-> {}]

\* A call that is not about a discount has some discount in its d.
First == CHOOSE d \in Discount : TRUE
CallIn(pc) == [pc |-> pc, d |-> First, p |-> {}, todo |-> {}, due |-> {},
               doc |-> [d \in Discount |-> NoDoc], seen |-> [p \in Product |-> NoProduct]]

\* The vendor's first discount is stored and was applied to what it fits.
DiscountInit ==
    /\ \E offer \in Offer, goods \in [Product -> Goods] :
         LET copy(p) == [base |-> goods[p].base, trait |-> goods[p].trait,
                         applied |-> NoDiscount, price |-> 0]
         IN /\ discount = [d \in Discount |-> IF d = First THEN Made(offer) ELSE NoDoc]
            /\ product = [p \in Product |->
                 IF offer.phase = "open" /\ Fits(Made(offer), p, copy(p))
                 THEN Priced(copy(p), First, offer.terms) ELSE copy(p)]
    /\ \E mix \in Sale :
         dcall = [c \in DiscountCall |->
                    CallIn(IF c \in mix THEN "ready" ELSE "absent")]
    /\ stops = 0 /\ loose = {} /\ abandoned = {}

-----------------------------------------------------------------------------
Goes(c, pc) == dcall' = [dcall EXCEPT ![c].pc = pc]
Ends(c) == dcall' = [dcall EXCEPT ![c] = CallIn("done")]
Starts(c, pc, d, p) ==
    /\ dcall[c].pc = "ready"
    /\ dcall' = [dcall EXCEPT ![c] =
         IF pc = "done" THEN CallIn("done") ELSE [@ EXCEPT !.pc = pc, !.d = d, !.p = p]]
At(c, pc) == dcall[c].pc = pc

\* Where a call goes on when its application of a discount ends; due is what
\* the cron still has to do.
Returned(c, due) ==
    IF c = "refresh" THEN [CallIn("due") EXCEPT !.due = due] ELSE CallIn("done")

\* updateOne of a product: whether the price follows from what is stored now.
Outdated(p, d, terms, base) ==
    ~discount[d].stored \/ discount[d].terms # terms \/ product[p].base # base

WritePrice(p, d, terms, base) ==
    /\ product' = [product EXCEPT ![p].applied = d, ![p].price = PriceOf(base, terms)]
    /\ loose' = IF Outdated(p, d, terms, base) THEN loose \cup {p} ELSE loose \ {p}

ClearPrice(P) ==
    /\ product' = [p \in Product |-> IF p \in P THEN Cleared(product[p]) ELSE product[p]]
    /\ loose' = loose \ P

-----------------------------------------------------------------------------
(* create, update, delete                                                  *)

Create(d) ==
    /\ ~discount[d].stored
    /\ \E offer \in Offer : discount' = [discount EXCEPT ![d] = Made(offer)]
    /\ Starts("create", "load", d, {})
    /\ UNCHANGED <<product, history, stops>>

\* The fields of an update; any of these is followed by a new application.
Edited(doc) ==
    {[doc EXCEPT !.terms = o.terms] : o \in Offer}
      \cup {[doc EXCEPT !.wanted = o.wanted] : o \in Offer}
      \cup {[doc EXCEPT !.active = a] : a \in BOOLEAN}

\* Dates, value_type or condition_match alone are saved and nothing else.
Silent(doc) ==
    {[doc EXCEPT !.phase = o.phase] : o \in Offer}
      \cup {[doc EXCEPT !.wanted = o.wanted] : o \in Offer}
      \cup {[doc EXCEPT !.terms.unit = u] : u \in Unit}

\* Mutation: only new conditions are applied again.
ReappliesConditions(old, new) == old.wanted # new.wanted

Reapplies(old, new) == new \in Edited(old)

\* The save writes the given fields whatever the loaded copy says, so it is one
\* step with the load.
Update(d) ==
    /\ discount[d].stored
    /\ \/ \E new \in Edited(discount[d]) :
            /\ discount' = [discount EXCEPT ![d] = new]
            /\ Starts("update", IF Reapplies(discount[d], new) THEN "load" ELSE "done", d, {})
            /\ abandoned' = IF discount[d].active /\ ~new.active
                            THEN abandoned \cup {d} ELSE abandoned
            /\ UNCHANGED loose
       \/ \E new \in Silent(discount[d]) :
            /\ discount' = [discount EXCEPT ![d] = new]
            /\ Starts("update", "done", d, {})
            /\ loose' = IF new.terms # discount[d].terms
                        THEN loose \cup {p \in Product : Carries(p, d)} ELSE loose
            /\ UNCHANGED abandoned
    /\ UNCHANGED <<product, stops>>

\* updateMany, then the document goes; what put it back meanwhile is late.
Delete(d) ==
    /\ discount[d].stored
    /\ ClearPrice({p \in Product : Carries(p, d)})
    /\ Starts("delete", "remove", d, {})
    /\ UNCHANGED <<discount, abandoned, stops>>

DeleteRemove ==
    /\ At("delete", "remove")
    /\ LET d == dcall["delete"].d IN
         /\ discount' = [discount EXCEPT ![d] = NoDoc]
         /\ loose' = loose \cup {p \in Product : Carries(p, d)}
    /\ Ends("delete")
    /\ UNCHANGED <<product, abandoned, stops>>

-----------------------------------------------------------------------------
(* includeProduct, excludeProduct                                          *)

OverrideLoad(c, d, p) ==
    /\ c \in {"include", "exclude"}
    /\ discount[d].stored
    /\ At(c, "ready")
    /\ dcall' = [dcall EXCEPT ![c] = [CallIn("lists") EXCEPT !.d = d, !.p = {p}, !.doc = discount]]
    /\ UNCHANGED <<discount, product, history, stops>>

Listed(c, doc, P) ==
    IF c = "include"
    THEN [doc EXCEPT !.excludes = @ \ P, !.includes = @ \cup P]
    ELSE [doc EXCEPT !.includes = @ \ P, !.excludes = @ \cup P]

\* A deleted discount is not there to update, and the call goes on.
OverrideLists(c) ==
    /\ At(c, "lists")
    /\ LET d == dcall[c].d IN
         discount' = IF discount[d].stored
                     THEN [discount EXCEPT ![d] = Listed(c, @, dcall[c].p)] ELSE discount
    /\ Goes(c, "product")
    /\ UNCHANGED <<product, history, stops>>

OverrideProduct(c) ==
    /\ At(c, "product")
    /\ dcall' = [dcall EXCEPT ![c] =
         IF c = "include" \/ \E p \in dcall[c].p : Carries(p, dcall[c].d)
         THEN [@ EXCEPT !.pc = "write", !.seen = product] ELSE CallIn("done")]
    /\ UNCHANGED <<discount, product, history, stops>>

\* The product is priced by the copy of the discount loaded first, also when
\* the discount is switched off or out of its dates.
IncludeWrite ==
    /\ At("include", "write")
    /\ \E p \in dcall["include"].p :
         LET call == dcall["include"] IN
         WritePrice(p, call.d, call.doc[call.d].terms, call.seen[p].base)
    /\ Ends("include")
    /\ UNCHANGED <<discount, abandoned, stops>>

ExcludeWrite ==
    /\ At("exclude", "write")
    /\ ClearPrice(dcall["exclude"].p)
    /\ Ends("exclude")
    /\ UNCHANGED <<discount, abandoned, stops>>

-----------------------------------------------------------------------------
(* applyDiscountToMatchingProducts                                         *)

Applying == {"create", "update", "refresh"}

\* A discount that is gone ends the call, and the whole cron run with it; one
\* that is switched off or out of its dates leaves the products as they are.
ApplyLoad(c) ==
    LET d == dcall[c].d
        applies == discount[d].stored /\ discount[d].active /\ discount[d].phase = "open"
    IN
    /\ c \in Applying /\ At(c, "load")
    /\ dcall' = [dcall EXCEPT ![c] =
         IF applies THEN [@ EXCEPT !.pc = "products", !.doc = discount]
         ELSE Returned(c, IF discount[d].stored THEN @.due ELSE {})]
    /\ loose' = IF applies THEN loose ELSE loose \cup {p \in Product : Carries(p, d)}
    /\ UNCHANGED <<discount, product, abandoned, stops>>

\* The products it will write are known from the copies it reads here.
ApplyProducts(c) ==
    LET call == dcall[c] IN
    /\ c \in Applying /\ At(c, "products")
    /\ dcall' = [dcall EXCEPT
         ![c].pc = "loop", ![c].seen = product,
         ![c].todo = {p \in Product : \/ Fits(call.doc[call.d], p, product[p])
                                      \/ Carries(p, call.d)}]
    /\ UNCHANGED <<discount, product, history, stops>>

\* The discount the copy carries, when it is another one, is loaded and kept
\* if it is no worse.
Keeps(mine, other) == other <= mine

ApplyCompare(c, p) ==
    LET call == dcall[c]
        copy == call.seen[p]
        mine == PriceOf(copy.base, call.doc[call.d].terms)
    IN
    /\ c \in Applying /\ At(c, "loop")
    /\ p \in call.todo
    /\ Fits(call.doc[call.d], p, copy)
    /\ copy.applied \notin {NoDiscount, call.d}
    /\ dcall' = [dcall EXCEPT
         ![c].todo = @ \ {p},
         ![c].pc = IF /\ discount[copy.applied].stored
                      /\ Keeps(mine, PriceOf(copy.base, discount[copy.applied].terms))
                   THEN "loop" ELSE "write",
         ![c].p = {p}]
    /\ UNCHANGED <<discount, product, history, stops>>

ApplyWrite(c, p) ==
    LET call == dcall[c] IN
    /\ c \in Applying
    /\ \/ /\ At(c, "write") /\ p \in call.p
       \/ /\ At(c, "loop") /\ p \in call.todo
          /\ Fits(call.doc[call.d], p, call.seen[p])
          /\ call.seen[p].applied \in {NoDiscount, call.d}
    /\ WritePrice(p, call.d, call.doc[call.d].terms, call.seen[p].base)
    /\ dcall' = [dcall EXCEPT ![c].pc = "loop", ![c].todo = @ \ {p}]
    /\ UNCHANGED <<discount, abandoned, stops>>

\* A product that no longer fits loses what it carries, whichever that is now.
ApplyClear(c, p) ==
    /\ c \in Applying /\ At(c, "loop")
    /\ p \in dcall[c].todo
    /\ ~Fits(dcall[c].doc[dcall[c].d], p, dcall[c].seen[p])
    /\ ClearPrice({p})
    /\ dcall' = [dcall EXCEPT ![c].todo = @ \ {p}]
    /\ UNCHANGED <<discount, abandoned, stops>>

ApplyEnd(c) ==
    /\ c \in Applying /\ At(c, "loop")
    /\ dcall[c].todo = {}
    /\ dcall' = [dcall EXCEPT ![c] = Returned(c, @.due)]
    /\ UNCHANGED <<discount, product, history, stops>>

-----------------------------------------------------------------------------
(* upsert and syncProductWithDiscounts                                     *)

\* A saved product emits product.upserted; its listener starts afterwards.
Upsert(p) ==
    /\ \E g \in Goods :
         product' = [product EXCEPT ![p].base = g.base, ![p].trait = g.trait]
    /\ Starts("upsert", "event", First, {p})
    /\ UNCHANGED <<discount, history, stops>>

SyncProduct ==
    /\ At("upsert", "event")
    /\ dcall' = [dcall EXCEPT !["upsert"].pc = "discounts", !["upsert"].seen = product]
    /\ UNCHANGED <<discount, product, history, stops>>

\* The copies the listener writes by are those of one find.
SyncDiscounts ==
    /\ At("upsert", "discounts")
    /\ dcall' = [dcall EXCEPT !["upsert"].pc = "write", !["upsert"].doc = discount]
    /\ UNCHANGED <<discount, product, history, stops>>

\* Manual overrides are not consulted.
Valid(doc, copy) ==
    doc.stored /\ doc.active /\ doc.phase = "open" /\ copy.trait \in doc.wanted

\* The discount with the lowest price below the base price, if there is one.
SyncWrite(p) ==
    LET call == dcall["upsert"]
        price(d) == PriceOf(call.seen[p].base, call.doc[d].terms)
        saving == {d \in Discount : /\ Valid(call.doc[d], call.seen[p])
                                    /\ price(d) < call.seen[p].base}
    IN
    /\ At("upsert", "write") /\ call.p = {p}
    /\ \/ \E d \in saving :
            /\ \A other \in saving : price(d) <= price(other)
            /\ WritePrice(p, d, call.doc[d].terms, call.seen[p].base)
       \/ /\ saving = {} /\ call.seen[p].applied # NoDiscount
          /\ ClearPrice({p})
       \/ /\ saving = {} /\ call.seen[p].applied = NoDiscount
          /\ UNCHANGED <<product, loose>>
    /\ Ends("upsert")
    /\ UNCHANGED <<discount, abandoned, stops>>

-----------------------------------------------------------------------------
(* refreshDiscountsJob, every ten minutes                                  *)

Starting(doc) == doc.stored /\ doc.phase = "open" /\ ~doc.active

\* Mutation: a discount that is over is not switched off.
EndingNever(doc) == doc.stored /\ doc.phase = "before" /\ doc.active

Ending(doc) == doc.stored /\ doc.phase # "open" /\ doc.active

\* A run that finds nothing to do is left out.
RefreshLoad ==
    LET due == {d \in Discount : Starting(discount[d]) \/ Ending(discount[d])} IN
    /\ At("refresh", "ready") /\ due # {}
    /\ dcall' = [dcall EXCEPT !["refresh"] = [CallIn("due") EXCEPT !.due =
                    {[d |-> d, active |-> Starting(discount[d])] : d \in due}]]
    /\ UNCHANGED <<discount, product, history, stops>>

\* save() of the copy with is_active turned round.  The document must still be
\* there; otherwise the error ends this run of the cron.
RefreshSave(job) ==
    /\ At("refresh", "due") /\ job \in dcall["refresh"].due
    /\ IF discount[job.d].stored
       THEN /\ discount' = [discount EXCEPT ![job.d].active = job.active]
            /\ dcall' = [dcall EXCEPT
                 !["refresh"].pc = IF job.active THEN "load" ELSE "clear",
                 !["refresh"].d = job.d, !["refresh"].due = @ \ {job}]
       ELSE /\ dcall' = [dcall EXCEPT !["refresh"].due = {}]
            /\ UNCHANGED discount
    /\ UNCHANGED <<product, history, stops>>

RefreshClear ==
    /\ At("refresh", "clear")
    /\ ClearPrice({p \in Product : Carries(p, dcall["refresh"].d)})
    /\ dcall' = [dcall EXCEPT !["refresh"] = Returned("refresh", @.due)]
    /\ UNCHANGED <<discount, abandoned, stops>>

RefreshEnd ==
    /\ At("refresh", "due") /\ dcall["refresh"].due = {}
    /\ dcall' = [dcall EXCEPT !["refresh"] = CallIn("ready")]
    /\ UNCHANGED <<discount, product, history, stops>>

-----------------------------------------------------------------------------
(* The environment                                                         *)

Elapse(d) ==
    /\ discount[d].stored /\ discount[d].phase # "over"
    /\ discount' = [discount EXCEPT ![d].phase = IF @ = "before" THEN "open" ELSE "over"]
    /\ UNCHANGED <<product, dcall, stops, history>>

\* The products a call that stops would still have priced.
Unpriced(c) ==
    IF c = "upsert" THEN dcall[c].p
    ELSE IF c \in Applying THEN {p \in Product : Carries(p, dcall[c].d)} ELSE {}

\* An instance stops: what the call had begun stays as it is.  The cron runs
\* again.
DiscountCrash(c) ==
    /\ stops < MaxStops
    /\ stops' = stops + 1
    /\ dcall[c].pc \notin {"absent", "ready", "done"}
    /\ loose' = loose \cup Unpriced(c)
    /\ abandoned' = IF At(c, "clear") THEN abandoned \cup {dcall[c].d} ELSE abandoned
    /\ dcall' = [dcall EXCEPT ![c] = CallIn(IF c = "refresh" THEN "ready" ELSE "done")]
    /\ UNCHANGED <<discount, product>>

-----------------------------------------------------------------------------
DiscountRequest ==
    \/ \E d \in Discount : Create(d) \/ Update(d) \/ Delete(d)
    \/ \E c \in DiscountCall, d \in Discount, p \in Product : OverrideLoad(c, d, p)
    \/ \E p \in Product : Upsert(p)

ApplyStep(c) ==
    \/ ApplyLoad(c) \/ ApplyProducts(c) \/ ApplyEnd(c)
    \/ \E p \in Product : ApplyCompare(c, p) \/ ApplyWrite(c, p) \/ ApplyClear(c, p)

RefreshStep ==
    RefreshLoad \/ RefreshClear \/ RefreshEnd \/ \E job \in dcall["refresh"].due : RefreshSave(job)

DiscountWorking ==
    \/ \E c \in DiscountCall : OverrideLists(c) \/ OverrideProduct(c) \/ ApplyStep(c)
    \/ DeleteRemove \/ IncludeWrite \/ ExcludeWrite \/ SyncProduct \/ SyncDiscounts
    \/ \E p \in Product : SyncWrite(p)
    \/ RefreshStep

DiscountNext ==
    \/ DiscountRequest \/ DiscountWorking
    \/ \E d \in Discount : Elapse(d)
    \/ \E c \in DiscountCall : DiscountCrash(c)

-----------------------------------------------------------------------------
(* Properties                                                              *)

Resting == \A c \in DiscountCall : dcall[c].pc \in {"absent", "ready", "done"}

\* Once the calls have ended, the price a product shows is what its discount
\* gives for its base price, and the discount exists: but for a price written
\* from a copy that had changed, or where the discount was not applied again
\* because only its value_type changed, it was off or out of its dates, or the
\* call was cut short.
PriceFollowsDiscount ==
    Resting => \A p \in Product :
      product[p].applied = NoDiscount \/ p \in loose \/
      LET d == product[p].applied IN
        discount[d].stored /\ product[p].price = PriceOf(product[p].base, discount[d].terms)

\* The cron keeps up with the dates: an active discount that is over leaves
\* every product that carries it, and one that was switched off before it
\* opened is switched on.
DatesAreFollowed ==
    dcall["refresh"].pc # "absent" =>
    \A d \in Discount :
      /\ \A p \in Product :
           (discount[d].active /\ discount[d].phase = "over" /\ Carries(p, d))
             ~> (\/ ~Carries(p, d) \/ ~discount[d].stored \/ discount[d].phase # "over"
                 \/ d \in abandoned)
      /\ Starting(discount[d]) ~> ~Starting(discount[d])
=============================================================================
