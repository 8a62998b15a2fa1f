-------------------------- MODULE StorefrontProofs --------------------------
(***************************************************************************)
(* Theorems about Storefront, for every set of discounts, products,        *)
(* reservations, values and mixes of calls.                                *)
(***************************************************************************)
EXTENDS Storefront, SumTheorems

-----------------------------------------------------------------------------
(* Type correctness.                                                       *)

LEMMA MinOfTwo ==
    ASSUME NEW a \in Int, NEW b \in Int
    PROVE  Min({a, b}) \in {a, b} /\ Min({a, b}) <= a
<1>1. \E x \in {a, b} : \A y \in {a, b} : x <= y
    <2>1. CASE a <= b BY <2>1
    <2>2. CASE b <= a BY <2>2
    <2> QED BY <2>1, <2>2
<1>2. /\ Min({a, b}) \in {a, b}
      /\ \A y \in {a, b} : Min({a, b}) <= y
    BY <1>1 DEF Min
<1> QED BY <1>2

\* A price is never below zero.
LEMMA PriceType ==
    ASSUME NEW base \in Nat, NEW terms \in Terms
    PROVE  PriceOf(base, terms) \in Nat
<1> DEFINE off == IF terms.unit = "fixed" THEN terms.value
                  ELSE (base * terms.value) \div 100
<1>1. terms.value \in Nat
    BY DiscountAssumption DEF Terms
<1>2. base * terms.value \in Nat BY <1>1
<1>3. \A n \in Nat : n \div 100 \in Nat OBVIOUS
<1>4. off \in Nat BY <1>1, <1>2, <1>3
<1> HIDE DEF off
<1>5. Min({base, off}) \in {base, off} /\ Min({base, off}) <= base
    BY <1>4, MinOfTwo
<1>6. base - Min({base, off}) \in Nat
    BY <1>4, <1>5
<1> QED BY <1>6 DEF PriceOf, off

LEMMA DocTypes ==
    /\ NoDoc \in DiscountDoc
    /\ NoProduct \in ProductDoc
    /\ \A offer \in Offer : Made(offer) \in DiscountDoc
<1>1. \E t \in Terms : TRUE
    <2>1. PICK v \in Value : TRUE BY DiscountAssumption
    <2>2. [unit |-> "fixed", value |-> v] \in Terms BY <2>1 DEF Terms, Unit
    <2> QED BY <2>2
<1>2. (CHOOSE t \in Terms : TRUE) \in Terms BY <1>1
<1>3. (CHOOSE t \in Trait : TRUE) \in Trait BY DiscountAssumption
<1>4. NoDoc \in DiscountDoc BY <1>2 DEF NoDoc, DiscountDoc, Phase
<1>5. NoProduct \in ProductDoc BY <1>3 DEF NoProduct, ProductDoc
<1>6. \A offer \in Offer : Made(offer) \in DiscountDoc
    BY DiscountAssumption DEF Made, DiscountDoc, Phase
<1> QED BY <1>4, <1>5, <1>6

LEMMA FirstType == First \in Discount
BY DiscountAssumption DEF First

LEMMA CallInType == \A pc \in CallPC : CallIn(pc) \in CallState
BY DocTypes, FirstType DEF CallIn, CallState

\* Writing fields of a call.
LEMMA CallFields ==
    ASSUME NEW k \in CallState
    PROVE  /\ \A pc \in CallPC : [k EXCEPT !.pc = pc] \in CallState
           /\ \A d \in Discount : [k EXCEPT !.d = d] \in CallState
           /\ \A P \in SUBSET Product : [k EXCEPT !.p = P] \in CallState
           /\ \A P \in SUBSET Product : [k EXCEPT !.todo = P] \in CallState
           /\ \A D \in SUBSET [d: Discount, active: BOOLEAN] : [k EXCEPT !.due = D] \in CallState
           /\ \A f \in [Discount -> DiscountDoc] : [k EXCEPT !.doc = f] \in CallState
           /\ \A f \in [Product -> ProductDoc] : [k EXCEPT !.seen = f] \in CallState
BY DEF CallState

\* What an update makes of a document.
LEMMA EditTypes ==
    ASSUME NEW doc \in DiscountDoc, NEW new \in Edited(doc) \cup Silent(doc)
    PROVE  new \in DiscountDoc /\ new.stored = doc.stored
<1>1. \A o \in Offer : o.terms \in Terms /\ o.wanted \in SUBSET Trait /\ o.phase \in Phase
    BY DiscountAssumption DEF Phase
<1>2. /\ \A t \in Terms : [doc EXCEPT !.terms = t] \in DiscountDoc
      /\ \A w \in SUBSET Trait : [doc EXCEPT !.wanted = w] \in DiscountDoc
      /\ \A a \in BOOLEAN : [doc EXCEPT !.active = a] \in DiscountDoc
      /\ \A f \in Phase : [doc EXCEPT !.phase = f] \in DiscountDoc
    BY DEF DiscountDoc
<1>3. \A u \in Unit : [doc.terms EXCEPT !.unit = u] \in Terms
    BY DEF DiscountDoc, Terms
<1>4. \A u \in Unit : [doc EXCEPT !.terms.unit = u] = [doc EXCEPT !.terms = [doc.terms EXCEPT !.unit = u]]
    OBVIOUS
<1>5. CASE new \in Silent(doc)
    <2>1. CASE \E o \in Offer : new = [doc EXCEPT !.phase = o.phase]
        BY <2>1, <1>1, <1>2 DEF DiscountDoc
    <2>2. CASE \E o \in Offer : new = [doc EXCEPT !.wanted = o.wanted]
        BY <2>2, <1>1, <1>2 DEF DiscountDoc
    <2>3. CASE \E u \in Unit : new = [doc EXCEPT !.terms.unit = u]
        <3>1. PICK u \in Unit : new = [doc EXCEPT !.terms.unit = u] BY <2>3
        <3>2. new = [doc EXCEPT !.terms = [doc.terms EXCEPT !.unit = u]] BY <3>1
        <3>3. [doc.terms EXCEPT !.unit = u] \in Terms BY <1>3, <3>1
        <3>4. new \in DiscountDoc BY <3>2, <3>3, <1>2
        <3> QED BY <3>2, <3>4 DEF DiscountDoc
    <2> QED BY <1>5, <2>1, <2>2, <2>3 DEF Silent
<1>6. CASE new \in Edited(doc)
    <2>1. CASE \E o \in Offer : new = [doc EXCEPT !.terms = o.terms]
        BY <2>1, <1>1, <1>2 DEF DiscountDoc
    <2>2. CASE \E o \in Offer : new = [doc EXCEPT !.wanted = o.wanted]
        BY <2>2, <1>1, <1>2 DEF DiscountDoc
    <2>3. CASE \E a \in BOOLEAN : new = [doc EXCEPT !.active = a]
        BY <2>3, <1>2 DEF DiscountDoc
    <2> QED BY <1>6, <2>1, <2>2, <2>3 DEF Edited
<1> QED BY <1>5, <1>6

\* Where a call goes on after applying a discount.
LEMMA ReturnedType ==
    ASSUME NEW c \in DiscountCall, NEW due \in SUBSET [d: Discount, active: BOOLEAN]
    PROVE  Returned(c, due) \in CallState
<1>1. CallIn("due") \in CallState /\ CallIn("done") \in CallState
    BY CallInType DEF CallPC
<1> QED BY <1>1, CallFields DEF Returned

LEMMA StartsType ==
    ASSUME DiscountTypeOK, NEW c \in DiscountCall, NEW pc \in CallPC,
           NEW d \in Discount, NEW P \in SUBSET Product, Starts(c, pc, d, P)
    PROVE  /\ dcall' \in [DiscountCall -> CallState]
           /\ dcall[c].pc = "ready"
           /\ \A b \in DiscountCall \ {c} : dcall'[b] = dcall[b]
           /\ pc # "done" => dcall'[c].pc = pc /\ dcall'[c].d = d /\ dcall'[c].p = P
<1>1. dcall[c] \in CallState BY DEF DiscountTypeOK
<1>2. [dcall[c] EXCEPT !.pc = pc, !.d = d, !.p = P] \in CallState
    BY <1>1 DEF CallState
<1>3. CallIn("done") \in CallState BY CallInType DEF CallPC
<1>4. /\ dcall' = [dcall EXCEPT ![c] = IF pc = "done" THEN CallIn("done")
                                       ELSE [dcall[c] EXCEPT !.pc = pc, !.d = d, !.p = P]]
      /\ dcall[c].pc = "ready"
    BY DEF Starts
<1> QED BY <1>1, <1>2, <1>3, <1>4 DEF DiscountTypeOK, CallState

\* A step of one call.
LEMMA StepType ==
    ASSUME DiscountTypeOK, NEW c \in DiscountCall, NEW k \in CallState,
           dcall' = [dcall EXCEPT ![c] = k]
    PROVE  /\ dcall' \in [DiscountCall -> CallState]
           /\ dcall'[c] = k
           /\ \A b \in DiscountCall \ {c} : dcall'[b] = dcall[b]
BY DEF DiscountTypeOK

\* What writing a price does.
LEMMA WriteFacts ==
    ASSUME DiscountTypeOK, NEW p \in Product, NEW d \in Discount, NEW terms \in Terms,
           NEW base \in Nat, WritePrice(p, d, terms, base)
    PROVE  /\ product' \in [Product -> ProductDoc]
           /\ loose' \subseteq Product
           /\ product'[p].applied = d
           /\ product'[p].price = PriceOf(base, terms)
           /\ product'[p].base = product[p].base
           /\ p \notin loose' => /\ discount[d].stored /\ discount[d].terms = terms
                                 /\ product[p].base = base
           /\ \A q \in Product \ {p} : product'[q] = product[q] /\ (q \in loose => q \in loose')
<1>1. PriceOf(base, terms) \in Nat BY PriceType
<1>2. product[p] \in ProductDoc BY DEF DiscountTypeOK
<1>3. [[product[p] EXCEPT !.applied = d] EXCEPT !.price = PriceOf(base, terms)] \in ProductDoc
    BY <1>1, <1>2 DEF ProductDoc
<1>4. product' = [[product EXCEPT ![p].applied = d] EXCEPT ![p].price = PriceOf(base, terms)]
    BY DEF WritePrice
<1>5. /\ product' \in [Product -> ProductDoc]
      /\ product'[p].applied = d
      /\ product'[p].price = PriceOf(base, terms)
      /\ product'[p].base = product[p].base
      /\ \A q \in Product \ {p} : product'[q] = product[q]
    BY <1>2, <1>3, <1>4 DEF DiscountTypeOK, ProductDoc
<1>6. loose' = IF Outdated(p, d, terms, base) THEN loose \cup {p} ELSE loose \ {p}
    BY DEF WritePrice
<1> QED BY <1>5, <1>6 DEF DiscountTypeOK, Outdated

\* What clearing prices does.
LEMMA ClearFacts ==
    ASSUME DiscountTypeOK, NEW P \in SUBSET Product, ClearPrice(P)
    PROVE  /\ product' \in [Product -> ProductDoc]
           /\ loose' \subseteq Product
           /\ \A q \in P : product'[q].applied = NoDiscount
           /\ \A q \in Product \ P : product'[q] = product[q] /\ (q \in loose => q \in loose')
<1>1. \A q \in Product : Cleared(product[q]) \in ProductDoc /\ Cleared(product[q]).applied = NoDiscount
    BY DEF DiscountTypeOK, ProductDoc, Cleared
<1> QED BY <1>1 DEF DiscountTypeOK, ClearPrice

LEMMA DiscountInitType == ASSUME Init PROVE DiscountTypeOK
<1>1. CASE DiscountInit
    <2>1. First \in Discount BY FirstType
    <2>2. PICK offer \in Offer, goods \in [Product -> Goods] :
            /\ discount = [d \in Discount |-> IF d = First THEN Made(offer) ELSE NoDoc]
            /\ product = [p \in Product |->
                 IF offer.phase = "open"
                    /\ Fits(Made(offer), p, [base |-> goods[p].base, trait |-> goods[p].trait,
                                             applied |-> NoDiscount, price |-> 0])
                 THEN Priced([base |-> goods[p].base, trait |-> goods[p].trait,
                              applied |-> NoDiscount, price |-> 0], First, offer.terms)
                 ELSE [base |-> goods[p].base, trait |-> goods[p].trait,
                       applied |-> NoDiscount, price |-> 0]]
        BY <1>1 DEF DiscountInit
    <2>3. \A p \in Product : goods[p].base \in Nat /\ goods[p].trait \in Trait
        BY DiscountAssumption
    <2>4. offer.terms \in Terms BY DiscountAssumption
    <2>5. \A p \in Product : PriceOf(goods[p].base, offer.terms) \in Nat
        BY <2>3, <2>4, PriceType
    <2>6. product \in [Product -> ProductDoc]
        BY <2>1, <2>2, <2>3, <2>5 DEF Priced, ProductDoc
    <2>7. discount \in [Discount -> DiscountDoc]
        BY <2>2, DocTypes
    <2>8. dcall \in [DiscountCall -> CallState]
        BY <1>1, CallInType DEF DiscountInit, CallPC
    <2> QED BY <1>1, <2>6, <2>7, <2>8 DEF DiscountInit, DiscountTypeOK
<1>2. CASE NoDiscounts
    <2>1. CallIn("absent") \in CallState BY CallInType DEF CallPC
    <2> QED BY <1>2, <2>1, DocTypes DEF NoDiscounts, DiscountTypeOK
<1> QED BY <1>1, <1>2 DEF Init

\* The copies a call works on.
LEMMA CopyTypes ==
    ASSUME DiscountTypeOK, NEW c \in DiscountCall
    PROVE  /\ dcall[c] \in CallState
           /\ dcall[c].d \in Discount
           /\ dcall[c].p \in SUBSET Product /\ dcall[c].todo \in SUBSET Product
           /\ dcall[c].due \in SUBSET [d: Discount, active: BOOLEAN]
           /\ \A d \in Discount : dcall[c].doc[d] \in DiscountDoc /\ dcall[c].doc[d].terms \in Terms
           /\ \A p \in Product : dcall[c].seen[p] \in ProductDoc /\ dcall[c].seen[p].base \in Nat
BY DEF DiscountTypeOK, CallState, DiscountDoc, ProductDoc

LEMMA RequestType == ASSUME DiscountTypeOK, DiscountRequest PROVE DiscountTypeOK'
<1> USE DEF CallPC
<1>0. {"create", "update", "delete", "upsert"} \subseteq DiscountCall BY DEF DiscountCall
<1>1. CASE \E d \in Discount : Create(d)
    <2>1. PICK d \in Discount : Create(d) BY <1>1
    <2>2. dcall' \in [DiscountCall -> CallState]
        <3>1. Starts("create", "load", d, {}) BY <2>1 DEF Create
        <3> QED BY <1>0, <3>1, StartsType
    <2> QED BY <2>1, <2>2, DocTypes DEF Create, DiscountTypeOK, history
<1>2. CASE \E d \in Discount : Update(d)
    <2>1. PICK d \in Discount : Update(d) BY <1>2
    <2>2. dcall' \in [DiscountCall -> CallState]
        <3>1. PICK pc \in {"load", "done"} : Starts("update", pc, d, {})
            BY <2>1 DEF Update
        <3> QED BY <1>0, <3>1, StartsType
    <2>3. PICK new \in Edited(discount[d]) \cup Silent(discount[d]) :
             discount' = [discount EXCEPT ![d] = new]
        BY <2>1 DEF Update
    <2>4. new \in DiscountDoc BY EditTypes DEF DiscountTypeOK
    <2>5. discount' \in [Discount -> DiscountDoc] BY <2>3, <2>4 DEF DiscountTypeOK
    <2>6. loose' \subseteq Product /\ abandoned' \subseteq Discount
        BY <2>1 DEF Update, DiscountTypeOK
    <2> QED BY <2>1, <2>2, <2>5, <2>6 DEF Update, DiscountTypeOK
<1>3. CASE \E d \in Discount : Delete(d)
    <2>1. PICK d \in Discount : Delete(d) BY <1>3
    <2>2. dcall' \in [DiscountCall -> CallState]
        <3>1. Starts("delete", "remove", d, {}) BY <2>1 DEF Delete
        <3> QED BY <1>0, <3>1, StartsType
    <2>3. product' \in [Product -> ProductDoc] /\ loose' \subseteq Product
        BY <2>1, ClearFacts DEF Delete
    <2> QED BY <2>1, <2>2, <2>3 DEF Delete, DiscountTypeOK
<1>4. CASE \E c \in DiscountCall, d \in Discount, p \in Product : OverrideLoad(c, d, p)
    <2>1. PICK c \in DiscountCall, d \in Discount, p \in Product : OverrideLoad(c, d, p)
        BY <1>4
    <2>2. CallIn("lists") \in CallState BY CallInType
    <2>3. [CallIn("lists") EXCEPT !.d = d, !.p = {p}, !.doc = discount] \in CallState
        BY <2>2 DEF CallState, DiscountTypeOK
    <2> QED BY <2>1, <2>3, StepType DEF OverrideLoad, DiscountTypeOK, history
<1>5. CASE \E p \in Product : Upsert(p)
    <2>1. PICK p \in Product : Upsert(p) BY <1>5
    <2>2. PICK g \in Goods : product' = [product EXCEPT ![p].base = g.base, ![p].trait = g.trait]
        BY <2>1 DEF Upsert
    <2>3. g.base \in Nat /\ g.trait \in Trait BY DiscountAssumption
    <2>4. product' \in [Product -> ProductDoc]
        BY <2>2, <2>3 DEF DiscountTypeOK, ProductDoc
    <2>5. dcall' \in [DiscountCall -> CallState]
        <3>1. Starts("upsert", "event", First, {p}) BY <2>1 DEF Upsert
        <3>2. {p} \in SUBSET Product OBVIOUS
        <3> QED BY <1>0, <3>1, <3>2, StartsType, FirstType
    <2> QED BY <2>1, <2>4, <2>5 DEF Upsert, DiscountTypeOK, history
<1> QED BY <1>1, <1>2, <1>3, <1>4, <1>5 DEF DiscountRequest

LEMMA OverrideType ==
    ASSUME DiscountTypeOK, NEW c \in DiscountCall,
           OverrideLists(c) \/ OverrideProduct(c) \/ IncludeWrite \/ ExcludeWrite
    PROVE  DiscountTypeOK'
<1> USE DEF CallPC
<1>0. dcall \in [DiscountCall -> CallState] BY DEF DiscountTypeOK
<1>1. CASE OverrideLists(c)
    <2>1. dcall' \in [DiscountCall -> CallState]
        BY <1>0, <1>1, CallFields, StepType DEF OverrideLists, Goes
    <2>2. \A d \in Discount : Listed(c, discount[d], dcall[c].p) \in DiscountDoc
        <3> SUFFICES ASSUME NEW d \in Discount PROVE Listed(c, discount[d], dcall[c].p) \in DiscountDoc
            OBVIOUS
        <3>1. \A I, X \in SUBSET Product :
                [discount[d] EXCEPT !.excludes = X, !.includes = I] \in DiscountDoc
            BY DEF DiscountTypeOK, DiscountDoc
        <3>2. \A I, X \in SUBSET Product :
                [discount[d] EXCEPT !.includes = I, !.excludes = X] \in DiscountDoc
            BY DEF DiscountTypeOK, DiscountDoc
        <3>3. /\ discount[d].includes \in SUBSET Product
              /\ discount[d].excludes \in SUBSET Product
              /\ dcall[c].p \in SUBSET Product
            BY CopyTypes DEF DiscountTypeOK, DiscountDoc
        <3> QED BY <3>1, <3>2, <3>3 DEF Listed
    <2>3. discount' \in [Discount -> DiscountDoc]
        BY <1>1, <2>2 DEF OverrideLists, DiscountTypeOK
    <2> QED BY <1>1, <2>1, <2>3 DEF OverrideLists, DiscountTypeOK, history
<1>2. CASE OverrideProduct(c)
    <2>1. CallIn("done") \in CallState BY CallInType
    <2>2. [dcall[c] EXCEPT !.pc = "write", !.seen = product] \in CallState
        BY <1>0 DEF CallState, DiscountTypeOK
    <2>3. PICK k \in CallState : dcall' = [dcall EXCEPT ![c] = k]
        BY <1>2, <2>1, <2>2 DEF OverrideProduct
    <2>4. dcall' \in [DiscountCall -> CallState] BY <2>3, StepType
    <2> QED BY <1>2, <2>4 DEF OverrideProduct, DiscountTypeOK, history
<1>3. CASE IncludeWrite
    <2> DEFINE k == dcall["include"]
    <2>1. k \in CallState BY <1>0 DEF DiscountCall
    <2>2. PICK p \in k.p : WritePrice(p, k.d, k.doc[k.d].terms, k.seen[p].base)
        BY <1>3 DEF IncludeWrite
    <2>3. k.d \in Discount /\ p \in Product
        BY <1>3, <2>1 DEF IncludeWrite, CallState
    <2>4. k.doc[k.d].terms \in Terms /\ k.seen[p].base \in Nat
        BY <2>1, <2>3 DEF CallState, DiscountDoc, ProductDoc
    <2> HIDE DEF k
    <2>5. product' \in [Product -> ProductDoc] /\ loose' \subseteq Product
        BY <2>2, <2>3, <2>4, WriteFacts
    <2>6. dcall' \in [DiscountCall -> CallState]
        BY <1>3, CallInType, StepType DEF IncludeWrite, Ends, DiscountCall
    <2> QED BY <1>3, <2>5, <2>6 DEF IncludeWrite, DiscountTypeOK
<1>4. CASE ExcludeWrite
    <2>1. dcall["exclude"].p \in SUBSET Product
        BY <1>0 DEF CallState, DiscountCall
    <2>2. product' \in [Product -> ProductDoc] /\ loose' \subseteq Product
        BY <1>4, <2>1, ClearFacts DEF ExcludeWrite
    <2>3. dcall' \in [DiscountCall -> CallState]
        BY <1>4, CallInType, StepType DEF ExcludeWrite, Ends, DiscountCall
    <2> QED BY <1>4, <2>2, <2>3 DEF ExcludeWrite, DiscountTypeOK
<1> QED BY <1>1, <1>2, <1>3, <1>4

LEMMA ApplyType ==
    ASSUME DiscountTypeOK, NEW c \in DiscountCall, ApplyStep(c)
    PROVE  DiscountTypeOK'
<1> USE DEF CallPC
<1>0. dcall[c] \in CallState BY CopyTypes
<1>1. CASE ApplyLoad(c)
    <2> DEFINE k == [dcall[c] EXCEPT !.pc = "products", !.doc = discount]
               due == IF discount[dcall[c].d].stored THEN dcall[c].due ELSE {}
    <2>1. k \in CallState BY <1>0 DEF CallState, DiscountTypeOK
    <2>2. Returned(c, due) \in CallState BY CopyTypes, ReturnedType
    <2>3. \/ dcall' = [dcall EXCEPT ![c] = k]
          \/ dcall' = [dcall EXCEPT ![c] = Returned(c, due)]
        BY <1>1 DEF ApplyLoad
    <2> HIDE DEF k, due
    <2>4. dcall' \in [DiscountCall -> CallState] BY <2>1, <2>2, <2>3, StepType
    <2>5. loose' \subseteq Product BY <1>1 DEF ApplyLoad, DiscountTypeOK
    <2> QED BY <1>1, <2>4, <2>5 DEF ApplyLoad, DiscountTypeOK
<1>2. CASE ApplyProducts(c)
    <2> DEFINE P == {p \in Product : \/ Fits(dcall[c].doc[dcall[c].d], p, product[p])
                                     \/ Carries(p, dcall[c].d)}
               k == [dcall[c] EXCEPT !.pc = "loop", !.seen = product, !.todo = P]
    <2>1. P \in SUBSET Product OBVIOUS
    <2>2. dcall' = [dcall EXCEPT ![c] = k]
        BY <1>0, <1>2 DEF ApplyProducts, DiscountTypeOK
    <2> HIDE DEF P
    <2>3. k \in CallState BY <1>0, <2>1 DEF CallState, DiscountTypeOK
    <2> HIDE DEF k
    <2>4. dcall' \in [DiscountCall -> CallState] BY <2>2, <2>3, StepType
    <2> QED BY <1>2, <2>4 DEF ApplyProducts, DiscountTypeOK, history
<1>3. CASE ApplyEnd(c)
    <2>1. Returned(c, dcall[c].due) \in CallState BY CopyTypes, ReturnedType
    <2> QED BY <1>3, <2>1, StepType DEF ApplyEnd, DiscountTypeOK, history
<1>4. CASE \E p \in Product : ApplyCompare(c, p)
    <2>1. PICK p \in Product : ApplyCompare(c, p) BY <1>4
    <2>2. PICK pc \in {"loop", "write"} :
             dcall' = [dcall EXCEPT ![c].todo = dcall[c].todo \ {p}, ![c].pc = pc, ![c].p = {p}]
        BY <2>1 DEF ApplyCompare
    <2> DEFINE k == [dcall[c] EXCEPT !.todo = dcall[c].todo \ {p}, !.pc = pc, !.p = {p}]
    <2>3. dcall' = [dcall EXCEPT ![c] = k] BY <1>0, <2>2 DEF DiscountTypeOK
    <2>4. k \in CallState BY <1>0, CopyTypes DEF CallState
    <2> HIDE DEF k
    <2>5. dcall' \in [DiscountCall -> CallState] BY <2>3, <2>4, StepType
    <2> QED BY <2>1, <2>5 DEF ApplyCompare, DiscountTypeOK, history
<1>5. CASE \E p \in Product : ApplyWrite(c, p)
    <2>1. PICK p \in Product : ApplyWrite(c, p) BY <1>5
    <2>2. product' \in [Product -> ProductDoc] /\ loose' \subseteq Product
        BY <2>1, CopyTypes, WriteFacts DEF ApplyWrite
    <2> DEFINE k == [dcall[c] EXCEPT !.pc = "loop", !.todo = dcall[c].todo \ {p}]
    <2>3. dcall' = [dcall EXCEPT ![c] = k] BY <1>0, <2>1 DEF ApplyWrite, DiscountTypeOK
    <2>4. k \in CallState BY <1>0, CopyTypes DEF CallState
    <2> HIDE DEF k
    <2>5. dcall' \in [DiscountCall -> CallState] BY <2>3, <2>4, StepType
    <2> QED BY <2>1, <2>2, <2>5 DEF ApplyWrite, DiscountTypeOK
<1>6. CASE \E p \in Product : ApplyClear(c, p)
    <2>1. PICK p \in Product : ApplyClear(c, p) BY <1>6
    <2>2. product' \in [Product -> ProductDoc] /\ loose' \subseteq Product
        BY <2>1, ClearFacts DEF ApplyClear
    <2> DEFINE k == [dcall[c] EXCEPT !.todo = dcall[c].todo \ {p}]
    <2>3. dcall' = [dcall EXCEPT ![c] = k] BY <1>0, <2>1 DEF ApplyClear, DiscountTypeOK
    <2>4. k \in CallState BY <1>0, CopyTypes DEF CallState
    <2> HIDE DEF k
    <2>5. dcall' \in [DiscountCall -> CallState] BY <2>3, <2>4, StepType
    <2> QED BY <2>1, <2>2, <2>5 DEF ApplyClear, DiscountTypeOK
<1> QED BY <1>1, <1>2, <1>3, <1>4, <1>5, <1>6 DEF ApplyStep

LEMMA SyncType ==
    ASSUME DiscountTypeOK, SyncProduct \/ SyncDiscounts \/ \E p \in Product : SyncWrite(p)
    PROVE  DiscountTypeOK'
<1> USE DEF CallPC
<1>0. "upsert" \in DiscountCall BY DEF DiscountCall
<1>1. dcall["upsert"] \in CallState BY <1>0, CopyTypes
<1>2. CASE SyncProduct
    <2> DEFINE k == [dcall["upsert"] EXCEPT !.pc = "discounts", !.seen = product]
    <2>1. dcall' = [dcall EXCEPT !["upsert"] = k] BY <1>0, <1>1, <1>2 DEF SyncProduct, DiscountTypeOK
    <2>2. k \in CallState BY <1>1 DEF CallState, DiscountTypeOK
    <2> HIDE DEF k
    <2>3. dcall' \in [DiscountCall -> CallState] BY <1>0, <2>1, <2>2, StepType
    <2> QED BY <1>2, <2>3 DEF SyncProduct, DiscountTypeOK, history
<1>3. CASE SyncDiscounts
    <2> DEFINE k == [dcall["upsert"] EXCEPT !.pc = "write", !.doc = discount]
    <2>1. dcall' = [dcall EXCEPT !["upsert"] = k] BY <1>0, <1>1, <1>3 DEF SyncDiscounts, DiscountTypeOK
    <2>2. k \in CallState BY <1>1 DEF CallState, DiscountTypeOK
    <2> HIDE DEF k
    <2>3. dcall' \in [DiscountCall -> CallState] BY <1>0, <2>1, <2>2, StepType
    <2> QED BY <1>3, <2>3 DEF SyncDiscounts, DiscountTypeOK, history
<1>4. CASE \E p \in Product : SyncWrite(p)
    <2>1. PICK p \in Product : SyncWrite(p) BY <1>4
    <2>2. \/ \E d \in Discount : WritePrice(p, d, dcall["upsert"].doc[d].terms, dcall["upsert"].seen[p].base)
          \/ ClearPrice({p})
          \/ UNCHANGED <<product, loose>>
        BY <2>1 DEF SyncWrite
    <2>3. product' \in [Product -> ProductDoc] /\ loose' \subseteq Product
        <3>1. CASE \E d \in Discount :
                     WritePrice(p, d, dcall["upsert"].doc[d].terms, dcall["upsert"].seen[p].base)
            BY <3>1, <1>0, CopyTypes, WriteFacts
        <3>2. CASE ClearPrice({p}) BY <3>2, ClearFacts
        <3>3. CASE UNCHANGED <<product, loose>> BY <3>3 DEF DiscountTypeOK
        <3> QED BY <2>2, <3>1, <3>2, <3>3
    <2>4. dcall' \in [DiscountCall -> CallState]
        BY <1>0, <2>1, CallInType, StepType DEF SyncWrite, Ends
    <2> QED BY <2>1, <2>3, <2>4 DEF SyncWrite, DiscountTypeOK
<1> QED BY <1>2, <1>3, <1>4

LEMMA RefreshType == ASSUME DiscountTypeOK, RefreshStep PROVE DiscountTypeOK'
<1> USE DEF CallPC
<1>0. "refresh" \in DiscountCall BY DEF DiscountCall
<1>1. dcall["refresh"] \in CallState BY <1>0, CopyTypes
<1>2. CASE RefreshLoad
    <2> DEFINE D == {[d |-> d, active |-> Starting(discount[d])] :
                       d \in {e \in Discount : Starting(discount[e]) \/ Ending(discount[e])}}
               k == [CallIn("due") EXCEPT !.due = D]
    <2>1. D \in SUBSET [d: Discount, active: BOOLEAN]
        <3>1. \A e \in Discount : Starting(discount[e]) \in BOOLEAN BY DEF Starting
        <3>2. \A e \in Discount, a \in BOOLEAN : [d |-> e, active |-> a] \in [d: Discount, active: BOOLEAN]
            OBVIOUS
        <3> QED BY <3>1, <3>2
    <2>2. dcall' = [dcall EXCEPT !["refresh"] = k] BY <1>2 DEF RefreshLoad
    <2> HIDE DEF D
    <2>3. k \in CallState BY <2>1, CallInType, CallFields
    <2> HIDE DEF k
    <2>4. dcall' \in [DiscountCall -> CallState] BY <1>0, <2>2, <2>3, StepType
    <2> QED BY <1>2, <2>4 DEF RefreshLoad, DiscountTypeOK, history
<1>3. CASE \E job \in dcall["refresh"].due : RefreshSave(job)
    <2>1. PICK job \in dcall["refresh"].due : RefreshSave(job) BY <1>3
    <2>2. job \in [d: Discount, active: BOOLEAN] BY <1>0, <2>1, CopyTypes
    <2>3. CASE discount[job.d].stored
        <3>1. PICK pc \in {"load", "clear"} :
                 dcall' = [dcall EXCEPT !["refresh"].pc = pc, !["refresh"].d = job.d,
                                        !["refresh"].due = dcall["refresh"].due \ {job}]
            BY <2>1, <2>3 DEF RefreshSave
        <3> DEFINE k == [dcall["refresh"] EXCEPT !.pc = pc, !.d = job.d,
                                                 !.due = dcall["refresh"].due \ {job}]
        <3>2. dcall' = [dcall EXCEPT !["refresh"] = k] BY <1>0, <1>1, <3>1 DEF DiscountTypeOK
        <3>3. k \in CallState BY <1>1, <2>2 DEF CallState
        <3> HIDE DEF k
        <3>4. dcall' \in [DiscountCall -> CallState] BY <1>0, <3>2, <3>3, StepType
        <3>5. [discount[job.d] EXCEPT !.active = job.active] \in DiscountDoc
            BY <2>2 DEF DiscountTypeOK, DiscountDoc
        <3>6. discount' \in [Discount -> DiscountDoc]
            BY <2>1, <2>2, <2>3, <3>5 DEF RefreshSave, DiscountTypeOK
        <3> QED BY <2>1, <3>4, <3>6 DEF RefreshSave, DiscountTypeOK, history
    <2>4. CASE ~discount[job.d].stored
        <3>1. dcall' \in [DiscountCall -> CallState]
            BY <1>0, <1>1, <2>1, <2>4, CallFields, StepType DEF RefreshSave
        <3> QED BY <2>1, <2>4, <3>1 DEF RefreshSave, DiscountTypeOK, history
    <2> QED BY <2>3, <2>4
<1>4. CASE RefreshClear
    <2>1. Returned("refresh", dcall["refresh"].due) \in CallState BY <1>0, CopyTypes, ReturnedType
    <2>2. dcall' \in [DiscountCall -> CallState] BY <1>0, <1>4, <2>1, StepType DEF RefreshClear
    <2>3. product' \in [Product -> ProductDoc] /\ loose' \subseteq Product
        BY <1>4, ClearFacts DEF RefreshClear
    <2> QED BY <1>4, <2>2, <2>3 DEF RefreshClear, DiscountTypeOK
<1>5. CASE RefreshEnd
    <2>1. dcall' \in [DiscountCall -> CallState]
        BY <1>0, <1>5, CallInType, StepType DEF RefreshEnd
    <2> QED BY <1>5, <2>1 DEF RefreshEnd, DiscountTypeOK, history
<1> QED BY <1>2, <1>3, <1>4, <1>5 DEF RefreshStep

LEMMA OtherType ==
    ASSUME DiscountTypeOK,
           \/ DeleteRemove
           \/ \E d \in Discount : Elapse(d)
           \/ \E c \in DiscountCall : DiscountCrash(c)
    PROVE  DiscountTypeOK'
<1> USE DEF CallPC
<1>1. CASE DeleteRemove
    <2>1. dcall' \in [DiscountCall -> CallState]
        BY <1>1, CallInType, StepType DEF DeleteRemove, Ends, DiscountCall
    <2>2. discount' \in [Discount -> DiscountDoc]
        BY <1>1, DocTypes DEF DeleteRemove, DiscountTypeOK
    <2>3. loose' \subseteq Product BY <1>1 DEF DeleteRemove, DiscountTypeOK
    <2> QED BY <1>1, <2>1, <2>2, <2>3 DEF DeleteRemove, DiscountTypeOK
<1>2. CASE \E d \in Discount : Elapse(d)
    <2>1. PICK d \in Discount : Elapse(d) BY <1>2
    <2>2. \A phase \in Phase : [discount[d] EXCEPT !.phase = phase] \in DiscountDoc
        BY DEF DiscountTypeOK, DiscountDoc
    <2>3. discount' \in [Discount -> DiscountDoc]
        BY <2>1, <2>2 DEF Elapse, DiscountTypeOK, Phase
    <2> QED BY <2>1, <2>3 DEF Elapse, DiscountTypeOK, history
<1>3. CASE \E c \in DiscountCall : DiscountCrash(c)
    <2>1. PICK c \in DiscountCall : DiscountCrash(c) BY <1>3
    <2>2. dcall' \in [DiscountCall -> CallState]
        BY <2>1, CallInType, StepType DEF DiscountCrash
    <2>3. Unpriced(c) \subseteq Product BY CopyTypes DEF Unpriced
    <2>4. stops' \in Nat BY <2>1 DEF DiscountCrash, DiscountTypeOK
    <2>5. loose' \subseteq Product /\ abandoned' \subseteq Discount
        BY <2>1, <2>3, CopyTypes DEF DiscountCrash, DiscountTypeOK
    <2> QED BY <2>1, <2>2, <2>4, <2>5 DEF DiscountCrash, DiscountTypeOK
<1> QED BY <1>1, <1>2, <1>3

\* Writing fields of a reservation's call.
LEMMA ReserveFields ==
    /\ \A pc \in ReservePC : ReserveIn(pc) \in ReserveState
    /\ \A k \in ReserveState :
         /\ \A pc \in ReservePC : [k EXCEPT !.pc = pc] \in ReserveState
         /\ \A pc \in ReservePC, y \in Int : [k EXCEPT !.pc = pc, !.yards = y] \in ReserveState
         /\ \A pc \in ReservePC, f \in ReservationStatus :
              [k EXCEPT !.pc = pc, !.found = f] \in ReserveState
<1>1. \A pc \in ReservePC : ReserveIn(pc) \in ReserveState
    BY DEF ReserveIn, ReserveState, ReservationStatus
<1>2. \A k \in ReserveState, pc \in ReservePC : [k EXCEPT !.pc = pc] \in ReserveState
    BY DEF ReserveState
<1>3. \A k \in ReserveState, pc \in ReservePC, y \in Int :
        [k EXCEPT !.pc = pc, !.yards = y] \in ReserveState
    BY DEF ReserveState
<1>4. \A k \in ReserveState, pc \in ReservePC, f \in ReservationStatus :
        [k EXCEPT !.pc = pc, !.found = f] \in ReserveState
    BY DEF ReserveState
<1> QED BY <1>1, <1>2, <1>3, <1>4

\* A step of one of its calls.
LEMMA ReserveStep ==
    ASSUME ReservationTypeOK, NEW c \in ReserveCall, NEW pc \in ReservePC,
           \/ Moves(c, pc) \/ Finishes(c, pc)
           \/ \E y \in Int : rcall' = [rcall EXCEPT ![c].pc = pc, ![c].yards = y]
           \/ \E f \in ReservationStatus : rcall' = [rcall EXCEPT ![c].pc = pc, ![c].found = f]
    PROVE  rcall' \in [ReserveCall -> ReserveState]
<1>1. rcall \in [ReserveCall -> ReserveState] /\ rcall[c] \in ReserveState
    BY DEF ReservationTypeOK
<1>2. \A k \in ReserveState : [rcall EXCEPT ![c] = k] \in [ReserveCall -> ReserveState]
    BY <1>1
<1>3. CASE Moves(c, pc)
    <2>1. rcall' = [rcall EXCEPT ![c] = [rcall[c] EXCEPT !.pc = pc]] BY <1>3 DEF Moves
    <2> QED BY <1>1, <1>2, <2>1, ReserveFields
<1>4. CASE Finishes(c, pc) BY <1>2, <1>4, ReserveFields DEF Finishes
<1>5. CASE \E y \in Int : rcall' = [rcall EXCEPT ![c].pc = pc, ![c].yards = y]
    <2>1. PICK y \in Int : rcall' = [rcall EXCEPT ![c].pc = pc, ![c].yards = y] BY <1>5
    <2>2. rcall' = [rcall EXCEPT ![c] = [rcall[c] EXCEPT !.pc = pc, !.yards = y]]
        BY <1>1, <2>1
    <2> QED BY <1>1, <1>2, <2>2, ReserveFields
<1>6. CASE \E f \in ReservationStatus : rcall' = [rcall EXCEPT ![c].pc = pc, ![c].found = f]
    <2>1. PICK f \in ReservationStatus : rcall' = [rcall EXCEPT ![c].pc = pc, ![c].found = f] BY <1>6
    <2>2. rcall' = [rcall EXCEPT ![c] = [rcall[c] EXCEPT !.pc = pc, !.found = f]]
        BY <1>1, <2>1
    <2> QED BY <1>1, <1>2, <2>2, ReserveFields
<1> QED BY <1>3, <1>4, <1>5, <1>6

LEMMA ReservationInitType == ASSUME Init PROVE ReservationTypeOK
<1>1. CASE ReservationInit
    <2>1. PICK e \in Event :
            /\ rcall = [c \in ReserveCall |-> ReserveIn(IF c \in e.calls THEN "ready" ELSE "absent")]
            /\ reservation = [r \in Reservation |-> IF r \in e.made THEN "active" ELSE "none"]
            /\ stock = Supply - TakenAtFirst(e)
        BY <1>1 DEF ReservationInit
    <2>2. stock \in Int BY <2>1, ReservationAssumption
    <2>3. rcall \in [ReserveCall -> ReserveState] BY <2>1, ReserveFields DEF ReservePC
    <2>4. reservation \in [Reservation -> ReservationStatus] BY <2>1 DEF ReservationStatus
    <2> QED BY <1>1, <2>2, <2>3, <2>4 DEF ReservationInit, ReservationTypeOK
<1>2. CASE NoReservations
    <2>1. rcall \in [ReserveCall -> ReserveState] BY <1>2, ReserveFields DEF NoReservations, ReservePC
    <2>2. stock \in Int BY <1>2, ReservationAssumption DEF NoReservations
    <2> QED BY <1>2, <2>1, <2>2 DEF NoReservations, ReservationTypeOK, ReservationStatus
<1> QED BY <1>1, <1>2 DEF Init

LEMMA ReservationType == ASSUME ReservationTypeOK, ReservationNext PROVE ReservationTypeOK'
<1> USE DEF ReservePC
<1>1. /\ \A r \in Reservation : Total[r] \in Nat
      /\ \A c \in ReserveCall : About[c] \in Reservation /\ Yards[c] \in Nat
    BY ReservationAssumption
<1>2. stock \in Int /\ \A c \in ReserveCall : rcall[c].yards \in Int
    BY DEF ReservationTypeOK, ReserveState
<1>3. \A c \in ReserveCall, s \in ReservationStatus :
        [reservation EXCEPT ![About[c]] = s] \in [Reservation -> ReservationStatus]
    BY <1>1 DEF ReservationTypeOK
<1>4. ASSUME NEW c \in ReserveCall, ReserveLoad(c) PROVE ReservationTypeOK'
    <2>1. Finishes(c, "refused") \/ rcall' = [rcall EXCEPT ![c].pc = "lock", ![c].yards = stock]
        BY <1>4 DEF ReserveLoad
    <2>2. rcall' \in [ReserveCall -> ReserveState] BY <1>2, <2>1, ReserveStep
    <2> QED BY <1>4, <2>2 DEF ReserveLoad, ReservationTypeOK
<1>5. ASSUME NEW c \in ReserveCall, ReserveLock(c) PROVE ReservationTypeOK'
    <2>1. rcall' \in [ReserveCall -> ReserveState] BY <1>5, ReserveStep DEF ReserveLock
    <2>2. stock' \in Int BY <1>1, <1>2, <1>5 DEF ReserveLock, SaveStock
    <2> QED BY <1>5, <2>1, <2>2 DEF ReserveLock, SaveStock, Notes, ReservationTypeOK
<1>6. ASSUME NEW c \in ReserveCall, ReserveRecord(c) PROVE ReservationTypeOK'
    <2>1. rcall' \in [ReserveCall -> ReserveState] BY <1>6, ReserveStep DEF ReserveRecord
    <2>2. reservation' \in [Reservation -> ReservationStatus]
        BY <1>3, <1>6 DEF ReserveRecord, ReservationStatus
    <2> QED BY <1>6, <2>1, <2>2 DEF ReserveRecord, ReservationTypeOK
<1>7. ASSUME NEW c \in ReserveCall, CloseLoad(c) PROVE ReservationTypeOK'
    <2>1. \/ Finishes(c, "refused")
          \/ \E pc \in {"stock", "close"} : rcall' = [rcall EXCEPT ![c].pc = pc, ![c].found = Status(c)]
        BY <1>7 DEF CloseLoad
    <2>2. Status(c) \in ReservationStatus BY <1>1 DEF Status, ReservationTypeOK
    <2>3. rcall' \in [ReserveCall -> ReserveState] BY <2>1, <2>2, ReserveStep
    <2> QED BY <1>7, <2>3 DEF CloseLoad, ReservationTypeOK
<1>8. ASSUME NEW c \in ReserveCall, CloseStock(c) PROVE ReservationTypeOK'
    <2>1. rcall' = [rcall EXCEPT ![c].pc = "release", ![c].yards = stock]
        BY <1>8 DEF CloseStock
    <2>2. rcall' \in [ReserveCall -> ReserveState] BY <1>2, <2>1, ReserveStep
    <2> QED BY <1>8, <2>2 DEF CloseStock, ReservationTypeOK
<1>9. ASSUME NEW c \in ReserveCall, CloseRelease(c) PROVE ReservationTypeOK'
    <2>1. rcall' \in [ReserveCall -> ReserveState] BY <1>9, ReserveStep DEF CloseRelease
    <2>2. stock' \in Int BY <1>1, <1>2, <1>9 DEF CloseRelease, SaveStock
    <2> QED BY <1>9, <2>1, <2>2 DEF CloseRelease, SaveStock, Notes, ReservationTypeOK
<1>10. ASSUME NEW c \in ReserveCall, CloseSave(c) PROVE ReservationTypeOK'
    <2>1. PICK pc \in {"done", "ready"} : Finishes(c, pc) BY <1>10 DEF CloseSave
    <2>2. rcall' \in [ReserveCall -> ReserveState] BY <2>1, ReserveStep
    <2>3. Closed(c) \in ReservationStatus BY DEF Closed, ReservationStatus
    <2>4. reservation' \in [Reservation -> ReservationStatus]
        BY <1>3, <1>10, <2>3 DEF CloseSave
    <2> QED BY <1>10, <2>2, <2>4 DEF CloseSave, Notes, ReservationTypeOK
<1>11. ASSUME NEW c \in ReserveCall, Buy(c) PROVE ReservationTypeOK'
    <2>1. PICK pc \in {"done", "refused"} : Finishes(c, pc) BY <1>11 DEF Buy
    <2>2. rcall' \in [ReserveCall -> ReserveState] BY <2>1, ReserveStep
    <2>3. stock' \in Int BY <1>1, <1>2, <1>11 DEF Buy
    <2> QED BY <1>11, <2>2, <2>3 DEF Buy, ReservationTypeOK
<1>12. ASSUME NEW c \in ReserveCall, ReserveCrash(c) PROVE ReservationTypeOK'
    <2>1. PICK pc \in {"failed", "ready"} : Finishes(c, pc) BY <1>12 DEF ReserveCrash
    <2>2. rcall' \in [ReserveCall -> ReserveState] BY <2>1, ReserveStep
    <2> QED BY <1>12, <2>2 DEF ReserveCrash, Notes, ReservationTypeOK
<1>13. ASSUME NEW r \in Reservation, Deadline(r) PROVE ReservationTypeOK'
    BY <1>13 DEF Deadline, ReservationTypeOK
<1> QED BY <1>4, <1>5, <1>6, <1>7, <1>8, <1>9, <1>10, <1>11, <1>12, <1>13
        DEF ReservationNext, ReserveRequest, ReserveWorking

\* Discounts, products, reservations, the stock and the calls about them keep
\* their types.
THEOREM TypeCorrect == Spec => [](DiscountTypeOK /\ ReservationTypeOK)
<1>1. ASSUME DiscountTypeOK, [Next]_vars PROVE DiscountTypeOK'
    <2>1. CASE DiscountNext
        <3>1. CASE DiscountWorking
            BY <3>1, <1>1, OverrideType, ApplyType, SyncType, RefreshType, OtherType
               DEF DiscountWorking, DiscountCall
        <3> QED BY <2>1, <3>1, <1>1, RequestType, OtherType DEF DiscountNext
    <2>2. CASE UNCHANGED discountVars
        BY <2>2, <1>1 DEF discountVars, history, DiscountTypeOK
    <2> QED BY <1>1, <2>1, <2>2 DEF Next, vars
<1>2. ASSUME ReservationTypeOK, [Next]_vars PROVE ReservationTypeOK'
    <2>1. CASE ReservationNext BY <2>1, <1>2, ReservationType
    <2>2. CASE UNCHANGED reservationVars
        BY <2>2, <1>2 DEF reservationVars, ReservationTypeOK
    <2> QED BY <1>2, <2>1, <2>2 DEF Next, vars
<1> QED BY <1>1, <1>2, DiscountInitType, ReservationInitType, PTL DEF Spec

-----------------------------------------------------------------------------
(* Prices follow discounts.                                                *)

\* What a call k of kind c still has to do about p, which carries a: apply
\* the discount again, or take up the change of the product.
OwesIn(c, k, p, a) ==
    \/ c \in Applying /\ k.pc \in {"load", "products"} /\ a = k.d
    \/ c \in Applying /\ k.pc \in {"loop", "write"} /\ a = k.d /\ p \in k.todo /\ k.seen[p].applied = k.d
    \/ c = "upsert" /\ k.pc = "event" /\ p \in k.p
    \/ c = "upsert" /\ k.pc \in {"discounts", "write"} /\ p \in k.p /\ k.seen[p].applied # NoDiscount

Owes(c, p) == OwesIn(c, dcall[c], p, product[p].applied)

Settled(p) ==
    \/ product[p].applied = NoDiscount
    \/ p \in loose
    \/ /\ discount[product[p].applied].stored
       /\ product[p].price = PriceOf(product[p].base, discount[product[p].applied].terms)

\* PriceFollowsDiscount speaks of moments at which no call runs.  While calls
\* run, a price that does not follow is one that a call is about to write.
PriceInv == \A p \in Product : Settled(p) \/ \E c \in DiscountCall : Owes(c, p)

\* Where no call touches a product, its price and what the price rests on stay.
LEMMA Undisturbed ==
    ASSUME NEW p \in Product,
           product'[p] = product[p],
           p \in loose => p \in loose',
           \A d \in Discount : Carries(p, d) =>
             \/ p \in loose'
             \/ discount'[d].stored = discount[d].stored /\ discount'[d].terms = discount[d].terms,
           product[p].applied \in Discount \cup {NoDiscount},
           Settled(p)
    PROVE  Settled(p)'
<1>1. CASE product[p].applied = NoDiscount BY <1>1 DEF Settled
<1>2. CASE p \in loose BY <1>2 DEF Settled
<1>3. CASE product[p].applied # NoDiscount /\ p \notin loose
    <2> DEFINE d == product[p].applied
    <2>1. d \in Discount BY <1>3
    <2>2. discount[d].stored /\ product[p].price = PriceOf(product[p].base, discount[d].terms)
        BY <1>3 DEF Settled
    <2>3. Carries(p, d) BY DEF Carries
    <2>4. CASE p \in loose' BY <2>4 DEF Settled
    <2>5. CASE discount'[d].stored = discount[d].stored /\ discount'[d].terms = discount[d].terms
        BY <2>2, <2>5 DEF Settled
    <2> QED BY <2>1, <2>3, <2>4, <2>5
<1> QED BY <1>1, <1>2, <1>3

LEMMA WriteSettles ==
    ASSUME DiscountTypeOK, NEW p \in Product, NEW d \in Discount, NEW terms \in Terms,
           NEW base \in Nat, WritePrice(p, d, terms, base), discount' = discount
    PROVE  /\ Settled(p)'
           /\ \A q \in Product \ {p} : product'[q] = product[q] /\ (Settled(q) => Settled(q)')
<1>1. /\ product'[p].applied = d
      /\ product'[p].price = PriceOf(base, terms)
      /\ product'[p].base = product[p].base
      /\ p \notin loose' => /\ discount[d].stored /\ discount[d].terms = terms
                            /\ product[p].base = base
      /\ \A q \in Product \ {p} : product'[q] = product[q] /\ (q \in loose => q \in loose')
    BY WriteFacts
<1>2. Settled(p)' BY <1>1 DEF Settled
<1>3. \A q \in Product : product[q].applied \in Discount \cup {NoDiscount}
    BY DEF DiscountTypeOK, ProductDoc
<1>4. \A q \in Product \ {p} : Settled(q) => Settled(q)'
    BY <1>1, <1>3, Undisturbed
<1> QED BY <1>1, <1>2, <1>4

LEMMA ClearSettles ==
    ASSUME DiscountTypeOK, NEW P \in SUBSET Product, ClearPrice(P), discount' = discount
    PROVE  /\ \A q \in P : Settled(q)'
           /\ \A q \in Product \ P : product'[q] = product[q] /\ (Settled(q) => Settled(q)')
<1>1. /\ \A q \in P : product'[q].applied = NoDiscount
      /\ \A q \in Product \ P : product'[q] = product[q] /\ (q \in loose => q \in loose')
    BY ClearFacts
<1>2. \A q \in P : Settled(q)' BY <1>1 DEF Settled
<1>3. \A q \in Product : product[q].applied \in Discount \cup {NoDiscount}
    BY DEF DiscountTypeOK, ProductDoc
<1>4. \A q \in Product \ P : Settled(q) => Settled(q)'
    BY <1>1, <1>3, Undisturbed
<1> QED BY <1>1, <1>2, <1>4

\* A step that writes no product, and changes no discount's terms.
LEMMA NothingWritten ==
    ASSUME DiscountTypeOK, product' = product, loose \subseteq loose',
           \A d \in Discount : /\ discount'[d].stored = discount[d].stored
                               /\ discount'[d].terms = discount[d].terms
    PROVE  \A q \in Product : product'[q] = product[q] /\ (Settled(q) => Settled(q)')
<1>1. \A q \in Product : product[q].applied \in Discount \cup {NoDiscount}
    BY DEF DiscountTypeOK, ProductDoc
<1> QED BY <1>1, Undisturbed

\* A step of one call: what the others owe they still owe, unless the product
\* no longer carries the same.
LEMMA Carried ==
    ASSUME PriceInv, NEW c \in DiscountCall,
           \A b \in DiscountCall \ {c} : dcall'[b] = dcall[b],
           \A p \in Product :
             \/ Settled(p)'
             \/ OwesIn(c, dcall'[c], p, product'[p].applied)
             \/ product'[p].applied = product[p].applied /\ ~Settled(p) /\ ~Owes(c, p)
    PROVE  PriceInv'
<1> SUFFICES ASSUME NEW p \in Product, ~Settled(p)'
             PROVE  \E b \in DiscountCall : Owes(b, p)'
    BY DEF PriceInv
<1>1. CASE OwesIn(c, dcall'[c], p, product'[p].applied)
    <2>1. Owes(c, p)' BY <1>1 DEF Owes, OwesIn, Applying
    <2> QED BY <2>1
<1>2. CASE product'[p].applied = product[p].applied /\ ~Settled(p) /\ ~Owes(c, p)
    <2>1. PICK b \in DiscountCall : Owes(b, p) BY <1>2 DEF PriceInv
    <2>2. b # c BY <1>2, <2>1
    <2>3. dcall'[b] = dcall[b] BY <2>2
    <2>4. Owes(b, p)' BY <1>2, <2>1, <2>3 DEF Owes, OwesIn, Applying
    <2> QED BY <2>4
<1> QED BY <1>1, <1>2

\* A call that owes nothing and writes nothing may go anywhere.
LEMMA CarriedIdle ==
    ASSUME PriceInv, NEW c \in DiscountCall,
           \A b \in DiscountCall \ {c} : dcall'[b] = dcall[b],
           \A p \in Product : product'[p] = product[p] /\ (Settled(p) => Settled(p)'),
           \A p \in Product : ~Owes(c, p) \/ Settled(p)'
    PROVE  PriceInv'
BY Carried

LEMMA InitPriced == ASSUME Init PROVE PriceInv
<1>1. CASE DiscountInit
    <2>1. PICK offer \in Offer, goods \in [Product -> Goods] :
            /\ discount = [d \in Discount |-> IF d = First THEN Made(offer) ELSE NoDoc]
            /\ product = [p \in Product |->
                 IF offer.phase = "open"
                    /\ Fits(Made(offer), p, [base |-> goods[p].base, trait |-> goods[p].trait,
                                             applied |-> NoDiscount, price |-> 0])
                 THEN Priced([base |-> goods[p].base, trait |-> goods[p].trait,
                              applied |-> NoDiscount, price |-> 0], First, offer.terms)
                 ELSE [base |-> goods[p].base, trait |-> goods[p].trait,
                       applied |-> NoDiscount, price |-> 0]]
        BY <1>1 DEF DiscountInit
    <2>2. discount[First].stored /\ discount[First].terms = offer.terms
        BY <2>1, FirstType DEF Made
    <2>3. \A p \in Product : Settled(p)
        <3> SUFFICES ASSUME NEW p \in Product PROVE Settled(p) OBVIOUS
        <3>1. \/ product[p].applied = NoDiscount
              \/ product[p].applied = First /\ product[p].price = PriceOf(product[p].base, offer.terms)
            BY <2>1 DEF Priced
        <3> QED BY <2>2, <3>1 DEF Settled
    <2> QED BY <2>3 DEF PriceInv
<1>2. CASE NoDiscounts
    BY <1>2 DEF NoDiscounts, NoProduct, PriceInv, Settled
<1> QED BY <1>1, <1>2 DEF Init

LEMMA RequestPriced == ASSUME DiscountTypeOK, PriceInv, DiscountRequest PROVE PriceInv'
<1> USE DEF CallPC
<1>0. {"create", "update", "delete", "upsert"} \subseteq DiscountCall BY DEF DiscountCall
<1>1. ASSUME NEW d \in Discount, Create(d) PROVE PriceInv'
    <2>1. Starts("create", "load", d, {}) BY <1>1 DEF Create
    <2>2. /\ \A b \in DiscountCall \ {"create"} : dcall'[b] = dcall[b]
          /\ dcall["create"].pc = "ready" /\ dcall'["create"].pc = "load" /\ dcall'["create"].d = d
        BY <1>0, <2>1, StartsType
    <2>3. product' = product /\ loose' = loose /\ \A e \in Discount \ {d} : discount'[e] = discount[e]
        BY <1>1 DEF Create, history, DiscountTypeOK
    <2>4. \A p \in Product : ~Carries(p, d) => (Settled(p) => Settled(p)')
        <3>1. \A p \in Product : product[p].applied \in Discount \cup {NoDiscount}
            BY DEF DiscountTypeOK, ProductDoc
        <3> QED BY <2>3, <3>1, Undisturbed
    <2>5. \A p \in Product : Carries(p, d) => OwesIn("create", dcall'["create"], p, product'[p].applied)
        BY <2>2, <2>3 DEF OwesIn, Applying, Carries
    <2>6. \A p \in Product : ~Owes("create", p) BY <2>2 DEF Owes, OwesIn
    <2> QED BY <1>0, <2>2, <2>3, <2>4, <2>5, <2>6, Carried
<1>2. ASSUME NEW d \in Discount, Update(d) PROVE PriceInv'
    <2>1. PICK new \in Edited(discount[d]) \cup Silent(discount[d]), pc \in {"load", "done"} :
            /\ discount' = [discount EXCEPT ![d] = new]
            /\ Starts("update", pc, d, {})
            /\ \/ pc = "load" /\ loose' = loose
               \/ /\ pc = "done"
                  /\ loose' = IF new.terms # discount[d].terms
                              THEN loose \cup {p \in Product : Carries(p, d)} ELSE loose
        BY <1>2 DEF Update, Reapplies
    <2>2. /\ \A b \in DiscountCall \ {"update"} : dcall'[b] = dcall[b]
          /\ dcall["update"].pc = "ready"
          /\ pc = "load" => dcall'["update"].pc = "load" /\ dcall'["update"].d = d
        BY <1>0, <2>1, StartsType
    <2>3. product' = product /\ loose \subseteq loose'
        BY <1>2, <2>1 DEF Update
    <2>4. \A e \in Discount \ {d} : discount'[e] = discount[e]
        BY <2>1 DEF DiscountTypeOK
    <2>5. discount'[d].stored = discount[d].stored /\ discount'[d].terms = new.terms
        BY <2>1, EditTypes DEF DiscountTypeOK
    <2>6. \A p \in Product :
             pc = "load" /\ Carries(p, d) => OwesIn("update", dcall'["update"], p, product'[p].applied)
        BY <2>2, <2>3 DEF OwesIn, Applying, Carries
    <2>7. \A p \in Product : pc = "done" \/ ~Carries(p, d) => (Settled(p) => Settled(p)')
        <3>1. \A p \in Product : product[p].applied \in Discount \cup {NoDiscount}
            BY DEF DiscountTypeOK, ProductDoc
        <3> SUFFICES ASSUME NEW p \in Product, pc = "done" \/ ~Carries(p, d), Settled(p)
                     PROVE  Settled(p)'
            OBVIOUS
        <3>2. ASSUME NEW e \in Discount, Carries(p, e)
              PROVE  \/ p \in loose'
                     \/ discount'[e].stored = discount[e].stored /\ discount'[e].terms = discount[e].terms
            BY <2>1, <2>4, <2>5, <3>2
        <3> QED BY <2>3, <3>1, <3>2, Undisturbed
    <2>8. \A p \in Product : ~Owes("update", p) BY <2>2 DEF Owes, OwesIn
    <2> QED BY <1>0, <2>1, <2>2, <2>3, <2>6, <2>7, <2>8, Carried
<1>3. ASSUME NEW d \in Discount, Delete(d) PROVE PriceInv'
    <2> DEFINE P == {p \in Product : Carries(p, d)}
    <2>1. Starts("delete", "remove", d, {}) BY <1>3 DEF Delete
    <2>2. \A b \in DiscountCall \ {"delete"} : dcall'[b] = dcall[b]
        BY <1>0, <2>1, StartsType
    <2>3. ClearPrice(P) /\ discount' = discount /\ P \in SUBSET Product BY <1>3 DEF Delete
    <2> HIDE DEF P
    <2>4. /\ \A q \in P : Settled(q)'
          /\ \A q \in Product \ P : product'[q] = product[q] /\ (Settled(q) => Settled(q)')
        BY <2>3, ClearSettles
    <2>5. \A p \in Product : ~Owes("delete", p) BY DEF Owes, OwesIn, Applying
    <2> QED BY <1>0, <2>2, <2>4, <2>5, Carried
<1>4. ASSUME NEW c \in DiscountCall, NEW d \in Discount, NEW p \in Product, OverrideLoad(c, d, p)
      PROVE  PriceInv'
    <2>1. \A b \in DiscountCall \ {c} : dcall'[b] = dcall[b]
        BY <1>4 DEF OverrideLoad, DiscountTypeOK
    <2>2. \A q \in Product : product'[q] = product[q] /\ (Settled(q) => Settled(q)')
        BY <1>4, NothingWritten DEF OverrideLoad, history
    <2>3. \A q \in Product : ~Owes(c, q) BY <1>4 DEF OverrideLoad, Owes, OwesIn, Applying
    <2> QED BY <2>1, <2>2, <2>3, CarriedIdle
<1>5. ASSUME NEW p \in Product, Upsert(p) PROVE PriceInv'
    <2>1. Starts("upsert", "event", First, {p}) BY <1>5 DEF Upsert
    <2>2. {p} \in SUBSET Product OBVIOUS
    <2>3. /\ \A b \in DiscountCall \ {"upsert"} : dcall'[b] = dcall[b]
          /\ dcall["upsert"].pc = "ready" /\ dcall'["upsert"].pc = "event" /\ dcall'["upsert"].p = {p}
        BY <1>0, <2>1, <2>2, StartsType, FirstType
    <2>4. OwesIn("upsert", dcall'["upsert"], p, product'[p].applied)
        BY <2>3 DEF OwesIn
    <2>5. \A q \in Product \ {p} : product'[q] = product[q]
        BY <1>5 DEF Upsert, DiscountTypeOK
    <2>6. discount' = discount /\ loose' = loose BY <1>5 DEF Upsert, history
    <2>7. \A q \in Product \ {p} : Settled(q) => Settled(q)'
        <3>1. \A q \in Product : product[q].applied \in Discount \cup {NoDiscount}
            BY DEF DiscountTypeOK, ProductDoc
        <3> QED BY <2>5, <2>6, <3>1, Undisturbed
    <2>8. \A q \in Product : ~Owes("upsert", q) BY <2>3 DEF Owes, OwesIn
    <2> QED BY <1>0, <2>3, <2>4, <2>5, <2>7, <2>8, Carried
<1> QED BY <1>1, <1>2, <1>3, <1>4, <1>5 DEF DiscountRequest

LEMMA OverridePriced ==
    ASSUME DiscountTypeOK, PriceInv, NEW c \in DiscountCall,
           OverrideLists(c) \/ OverrideProduct(c) \/ IncludeWrite \/ ExcludeWrite
    PROVE  PriceInv'
<1>1. CASE OverrideLists(c)
    <2>1. \A b \in DiscountCall \ {c} : dcall'[b] = dcall[b]
        BY <1>1 DEF OverrideLists, Goes, DiscountTypeOK
    <2>2. \A d \in Discount : /\ discount'[d].stored = discount[d].stored
                              /\ discount'[d].terms = discount[d].terms
        BY <1>1 DEF OverrideLists, Listed, DiscountTypeOK, DiscountDoc
    <2>3. \A q \in Product : product'[q] = product[q] /\ (Settled(q) => Settled(q)')
        BY <1>1, <2>2, NothingWritten DEF OverrideLists, history
    <2>4. \A q \in Product : ~Owes(c, q) BY <1>1 DEF OverrideLists, At, Owes, OwesIn, Applying
    <2> QED BY <2>1, <2>3, <2>4, CarriedIdle
<1>2. CASE OverrideProduct(c)
    <2>1. \A b \in DiscountCall \ {c} : dcall'[b] = dcall[b]
        BY <1>2 DEF OverrideProduct, DiscountTypeOK
    <2>2. \A q \in Product : product'[q] = product[q] /\ (Settled(q) => Settled(q)')
        BY <1>2, NothingWritten DEF OverrideProduct, history
    <2>3. \A q \in Product : ~Owes(c, q) BY <1>2 DEF OverrideProduct, At, Owes, OwesIn, Applying
    <2> QED BY <2>1, <2>2, <2>3, CarriedIdle
<1>3. CASE IncludeWrite
    <2> DEFINE k == dcall["include"]
    <2>0. "include" \in DiscountCall BY DEF DiscountCall
    <2>1. PICK p \in k.p : WritePrice(p, k.d, k.doc[k.d].terms, k.seen[p].base)
        BY <1>3 DEF IncludeWrite
    <2>2. /\ p \in Product /\ k.d \in Discount
          /\ k.doc[k.d].terms \in Terms /\ k.seen[p].base \in Nat
        BY <2>0, <2>1, CopyTypes
    <2>3. discount' = discount /\ \A b \in DiscountCall \ {"include"} : dcall'[b] = dcall[b]
        BY <1>3 DEF IncludeWrite, Ends, DiscountTypeOK
    <2>4. \A q \in Product : ~Owes("include", q) BY DEF Owes, OwesIn, Applying
    <2> HIDE DEF k
    <2>5. /\ Settled(p)'
          /\ \A q \in Product \ {p} : product'[q] = product[q] /\ (Settled(q) => Settled(q)')
        BY <2>1, <2>2, <2>3, WriteSettles
    <2> QED BY <2>0, <2>3, <2>4, <2>5, Carried
<1>4. CASE ExcludeWrite
    <2>0. "exclude" \in DiscountCall BY DEF DiscountCall
    <2>1. dcall["exclude"].p \in SUBSET Product BY <2>0, CopyTypes
    <2>2. discount' = discount /\ \A b \in DiscountCall \ {"exclude"} : dcall'[b] = dcall[b]
        BY <1>4 DEF ExcludeWrite, Ends, DiscountTypeOK
    <2>3. \A q \in Product : ~Owes("exclude", q) BY DEF Owes, OwesIn, Applying
    <2>4. /\ \A q \in dcall["exclude"].p : Settled(q)'
          /\ \A q \in Product \ dcall["exclude"].p :
               product'[q] = product[q] /\ (Settled(q) => Settled(q)')
        BY <1>4, <2>1, <2>2, ClearSettles DEF ExcludeWrite
    <2> QED BY <2>0, <2>2, <2>3, <2>4, Carried
<1> QED BY <1>1, <1>2, <1>3, <1>4

LEMMA ApplyPriced ==
    ASSUME DiscountTypeOK, PriceInv, NEW c \in DiscountCall, ApplyStep(c)
    PROVE  PriceInv'
<1>0. dcall[c] \in CallState BY CopyTypes
<1>1. CASE ApplyLoad(c)
    <2> DEFINE d == dcall[c].d
    <2>1. d \in Discount BY CopyTypes
    <2>2. /\ product' = product /\ discount' = discount
          /\ \A b \in DiscountCall \ {c} : dcall'[b] = dcall[b]
          /\ c \in Applying
        BY <1>1 DEF ApplyLoad, DiscountTypeOK
    <2>3. \/ /\ dcall'[c] = [dcall[c] EXCEPT !.pc = "products", !.doc = discount]
             /\ loose' = loose
          \/ loose' = loose \cup {p \in Product : Carries(p, d)}
        BY <1>1 DEF ApplyLoad, DiscountTypeOK
    <2>4. \A q \in Product : product'[q] = product[q] /\ (Settled(q) => Settled(q)')
        BY <2>2, <2>3, NothingWritten
    <2>5. \A q \in Product : Owes(c, q) => Carries(q, d)
        BY <1>1 DEF ApplyLoad, At, Owes, OwesIn, Carries, Applying
    <2>6. CASE dcall'[c] = [dcall[c] EXCEPT !.pc = "products", !.doc = discount]
        <3>1. dcall'[c].pc = "products" /\ dcall'[c].d = d
            BY <1>0, <2>6 DEF CallState
        <3>2. \A q \in Product : Carries(q, d) => OwesIn(c, dcall'[c], q, product'[q].applied)
            BY <2>2, <3>1 DEF OwesIn, Carries
        <3> QED BY <2>2, <2>4, <2>5, <3>2, Carried
    <2>7. CASE loose' = loose \cup {p \in Product : Carries(p, d)}
        <3>1. \A q \in Product : Carries(q, d) => Settled(q)' BY <2>7 DEF Settled
        <3> QED BY <2>2, <2>4, <2>5, <3>1, CarriedIdle
    <2> QED BY <2>3, <2>6, <2>7
<1>2. CASE ApplyProducts(c)
    <2> DEFINE d == dcall[c].d
               P == {p \in Product : Fits(dcall[c].doc[d], p, product[p]) \/ Carries(p, d)}
    <2>1. /\ product' = product /\ discount' = discount /\ loose' = loose
          /\ \A b \in DiscountCall \ {c} : dcall'[b] = dcall[b]
          /\ c \in Applying /\ dcall[c].pc = "products"
        BY <1>2 DEF ApplyProducts, At, DiscountTypeOK, history
    <2>2. dcall'[c] = [dcall[c] EXCEPT !.pc = "loop", !.seen = product, !.todo = P]
        BY <1>0, <1>2 DEF ApplyProducts, DiscountTypeOK
    <2>3. \A q \in Product : Carries(q, d) => q \in P OBVIOUS
    <2> HIDE DEF P
    <2>4. dcall'[c].pc = "loop" /\ dcall'[c].d = d /\ dcall'[c].todo = P /\ dcall'[c].seen = product
        BY <1>0, <2>2 DEF CallState
    <2>5. \A q \in Product : product'[q] = product[q] /\ (Settled(q) => Settled(q)')
        BY <2>1, NothingWritten
    <2>6. \A q \in Product : Owes(c, q) => Carries(q, d)
        BY <2>1 DEF Owes, OwesIn, Carries, Applying
    <2>7. \A q \in Product : Carries(q, d) => OwesIn(c, dcall'[c], q, product'[q].applied)
        BY <2>1, <2>3, <2>4 DEF OwesIn, Carries
    <2> QED BY <2>1, <2>5, <2>6, <2>7, Carried
<1>3. CASE ApplyEnd(c)
    <2>1. \A b \in DiscountCall \ {c} : dcall'[b] = dcall[b]
        BY <1>3 DEF ApplyEnd, DiscountTypeOK
    <2>2. \A q \in Product : product'[q] = product[q] /\ (Settled(q) => Settled(q)')
        BY <1>3, NothingWritten DEF ApplyEnd, history
    <2>3. \A q \in Product : ~Owes(c, q)
        BY <1>3 DEF ApplyEnd, At, Owes, OwesIn, Applying
    <2> QED BY <2>1, <2>2, <2>3, CarriedIdle
<1>4. ASSUME NEW p \in Product, ApplyCompare(c, p) PROVE PriceInv'
    <2> DEFINE k == dcall[c]
    <2>1. PICK pc \in {"loop", "write"} :
             dcall' = [dcall EXCEPT ![c].todo = k.todo \ {p}, ![c].pc = pc, ![c].p = {p}]
        BY <1>4 DEF ApplyCompare
    <2>2. dcall'[c] = [k EXCEPT !.todo = k.todo \ {p}, !.pc = pc, !.p = {p}]
        BY <1>0, <2>1 DEF DiscountTypeOK
    <2>3. /\ dcall'[c].pc \in {"loop", "write"} /\ dcall'[c].d = k.d
          /\ dcall'[c].todo = k.todo \ {p} /\ dcall'[c].seen = k.seen
        BY <1>0, <2>2 DEF CallState
    <2>4. /\ c \in Applying /\ k.pc = "loop" /\ k.seen[p].applied # k.d
          /\ product' = product /\ discount' = discount /\ loose' = loose
        BY <1>4 DEF ApplyCompare, At, history
    <2>5. \A b \in DiscountCall \ {c} : dcall'[b] = dcall[b]
        BY <2>1 DEF DiscountTypeOK
    <2>6. \A q \in Product : product'[q] = product[q] /\ (Settled(q) => Settled(q)')
        BY <2>4, NothingWritten
    <2>7. \A q \in Product : Owes(c, q) => OwesIn(c, dcall'[c], q, product'[q].applied)
        BY <2>3, <2>4 DEF Owes, OwesIn, Applying
    <2> HIDE DEF k
    <2> QED BY <2>5, <2>6, <2>7, Carried
<1>5. ASSUME NEW p \in Product, ApplyWrite(c, p) PROVE PriceInv'
    <2> DEFINE k == dcall[c]
    <2>1. /\ dcall' = [dcall EXCEPT ![c].pc = "loop", ![c].todo = k.todo \ {p}]
          /\ WritePrice(p, k.d, k.doc[k.d].terms, k.seen[p].base)
          /\ discount' = discount /\ c \in Applying /\ k.pc \in {"loop", "write"}
        BY <1>5 DEF ApplyWrite, At
    <2>2. dcall'[c] = [k EXCEPT !.pc = "loop", !.todo = k.todo \ {p}]
        BY <1>0, <2>1 DEF DiscountTypeOK
    <2>3. /\ dcall'[c].pc = "loop" /\ dcall'[c].d = k.d
          /\ dcall'[c].todo = k.todo \ {p} /\ dcall'[c].seen = k.seen
        BY <1>0, <2>2 DEF CallState
    <2>4. \A b \in DiscountCall \ {c} : dcall'[b] = dcall[b]
        BY <2>1 DEF DiscountTypeOK
    <2>5. k.d \in Discount /\ k.doc[k.d].terms \in Terms /\ k.seen[p].base \in Nat
        BY CopyTypes
    <2>6. /\ Settled(p)'
          /\ \A q \in Product \ {p} : product'[q] = product[q] /\ (Settled(q) => Settled(q)')
        <3> HIDE DEF k
        <3> QED BY <2>1, <2>5, WriteSettles
    <2>7. \A q \in Product \ {p} : Owes(c, q) => OwesIn(c, dcall'[c], q, product'[q].applied)
        BY <2>1, <2>3, <2>6 DEF Owes, OwesIn, Applying
    <2> HIDE DEF k
    <2> QED BY <2>4, <2>6, <2>7, Carried
<1>6. ASSUME NEW p \in Product, ApplyClear(c, p) PROVE PriceInv'
    <2> DEFINE k == dcall[c]
    <2>1. /\ dcall' = [dcall EXCEPT ![c].todo = k.todo \ {p}]
          /\ ClearPrice({p}) /\ discount' = discount /\ c \in Applying /\ k.pc = "loop"
        BY <1>6 DEF ApplyClear, At
    <2>2. dcall'[c] = [k EXCEPT !.todo = k.todo \ {p}]
        BY <1>0, <2>1 DEF DiscountTypeOK
    <2>3. /\ dcall'[c].pc = "loop" /\ dcall'[c].d = k.d
          /\ dcall'[c].todo = k.todo \ {p} /\ dcall'[c].seen = k.seen
        BY <1>0, <2>1, <2>2 DEF CallState
    <2>4. \A b \in DiscountCall \ {c} : dcall'[b] = dcall[b]
        BY <2>1 DEF DiscountTypeOK
    <2>5. {p} \in SUBSET Product OBVIOUS
    <2>6. /\ Settled(p)'
          /\ \A q \in Product \ {p} : product'[q] = product[q] /\ (Settled(q) => Settled(q)')
        BY <2>1, <2>5, ClearSettles
    <2>7. \A q \in Product \ {p} : Owes(c, q) => OwesIn(c, dcall'[c], q, product'[q].applied)
        BY <2>1, <2>3, <2>6 DEF Owes, OwesIn, Applying
    <2> HIDE DEF k
    <2> QED BY <2>4, <2>6, <2>7, Carried
<1> QED BY <1>1, <1>2, <1>3, <1>4, <1>5, <1>6 DEF ApplyStep

LEMMA SyncPriced ==
    ASSUME DiscountTypeOK, PriceInv, SyncProduct \/ SyncDiscounts \/ \E p \in Product : SyncWrite(p)
    PROVE  PriceInv'
<1> DEFINE k == dcall["upsert"]
<1>0. "upsert" \in DiscountCall BY DEF DiscountCall
<1>1. k \in CallState BY <1>0, CopyTypes
<1>2. CASE SyncProduct
    <2>1. dcall'["upsert"] = [k EXCEPT !.pc = "discounts", !.seen = product]
        BY <1>0, <1>1, <1>2 DEF SyncProduct, DiscountTypeOK
    <2>2. dcall'["upsert"].pc = "discounts" /\ dcall'["upsert"].seen = product /\ dcall'["upsert"].p = k.p
        BY <1>1, <2>1 DEF CallState
    <2>3. /\ k.pc = "event" /\ product' = product /\ discount' = discount /\ loose' = loose
          /\ \A b \in DiscountCall \ {"upsert"} : dcall'[b] = dcall[b]
        BY <1>2 DEF SyncProduct, At, history, DiscountTypeOK
    <2>4. \A q \in Product : product'[q] = product[q] /\ (Settled(q) => Settled(q)')
        BY <2>3, NothingWritten
    <2>5. \A q \in Product : Owes("upsert", q) => q \in k.p
        BY <2>3 DEF Owes, OwesIn, Applying
    <2>6. \A q \in Product : q \in k.p =>
             Settled(q)' \/ OwesIn("upsert", dcall'["upsert"], q, product'[q].applied)
        BY <2>2, <2>3 DEF OwesIn, Settled
    <2> HIDE DEF k
    <2> QED BY <1>0, <2>3, <2>4, <2>5, <2>6, Carried
<1>3. CASE SyncDiscounts
    <2>1. dcall'["upsert"] = [k EXCEPT !.pc = "write", !.doc = discount]
        BY <1>0, <1>1, <1>3 DEF SyncDiscounts, DiscountTypeOK
    <2>2. dcall'["upsert"].pc = "write" /\ dcall'["upsert"].seen = k.seen /\ dcall'["upsert"].p = k.p
        BY <1>1, <2>1 DEF CallState
    <2>3. /\ k.pc = "discounts" /\ product' = product /\ discount' = discount /\ loose' = loose
          /\ \A b \in DiscountCall \ {"upsert"} : dcall'[b] = dcall[b]
        BY <1>3 DEF SyncDiscounts, At, history, DiscountTypeOK
    <2>4. \A q \in Product : product'[q] = product[q] /\ (Settled(q) => Settled(q)')
        BY <2>3, NothingWritten
    <2>5. \A q \in Product : Owes("upsert", q) =>
             OwesIn("upsert", dcall'["upsert"], q, product'[q].applied)
        BY <2>2, <2>3 DEF Owes, OwesIn, Applying
    <2> HIDE DEF k
    <2> QED BY <1>0, <2>3, <2>4, <2>5, Carried
<1>4. ASSUME NEW p \in Product, SyncWrite(p) PROVE PriceInv'
    <2>1. /\ k.p = {p} /\ k.pc = "write" /\ discount' = discount
          /\ dcall' = [dcall EXCEPT !["upsert"] = CallIn("done")]
        BY <1>4 DEF SyncWrite, At, Ends
    <2>2. \A b \in DiscountCall \ {"upsert"} : dcall'[b] = dcall[b]
        BY <2>1 DEF DiscountTypeOK
    <2>3. \/ \E d \in Discount : WritePrice(p, d, k.doc[d].terms, k.seen[p].base)
          \/ ClearPrice({p})
          \/ k.seen[p].applied = NoDiscount /\ product' = product /\ loose' = loose
        BY <1>4 DEF SyncWrite
    <2>4. \A q \in Product : Owes("upsert", q) => q \in k.p /\ k.seen[q].applied # NoDiscount
        BY <2>1 DEF Owes, OwesIn, Applying
    <2> HIDE DEF k
    <2>5. CASE \E d \in Discount : WritePrice(p, d, dcall["upsert"].doc[d].terms, dcall["upsert"].seen[p].base)
        <3>1. PICK d \in Discount : WritePrice(p, d, dcall["upsert"].doc[d].terms, dcall["upsert"].seen[p].base)
            BY <2>5
        <3>2. dcall["upsert"].doc[d].terms \in Terms /\ dcall["upsert"].seen[p].base \in Nat
            BY <1>0, CopyTypes
        <3>3. /\ Settled(p)'
              /\ \A q \in Product \ {p} : product'[q] = product[q] /\ (Settled(q) => Settled(q)')
            BY <2>1, <3>1, <3>2, WriteSettles
        <3> QED BY <1>0, <2>1, <2>2, <2>4, <3>3, Carried
    <2>6. CASE ClearPrice({p})
        <3>1. {p} \in SUBSET Product OBVIOUS
        <3>2. /\ Settled(p)'
              /\ \A q \in Product \ {p} : product'[q] = product[q] /\ (Settled(q) => Settled(q)')
            BY <2>1, <2>6, <3>1, ClearSettles
        <3> QED BY <1>0, <2>1, <2>2, <2>4, <3>2, Carried
    <2>7. CASE k.seen[p].applied = NoDiscount /\ product' = product /\ loose' = loose
        <3>1. \A q \in Product : product'[q] = product[q] /\ (Settled(q) => Settled(q)')
            BY <2>1, <2>7, NothingWritten
        <3>2. \A q \in Product : ~Owes("upsert", q) BY <2>1, <2>4, <2>7
        <3> QED BY <1>0, <2>2, <3>1, <3>2, CarriedIdle
    <2> QED BY <2>3, <2>5, <2>6, <2>7 DEF k
<1> QED BY <1>2, <1>3, <1>4

LEMMA RefreshPriced == ASSUME DiscountTypeOK, PriceInv, RefreshStep PROVE PriceInv'
<1>0. "refresh" \in DiscountCall BY DEF DiscountCall
<1>1. CASE RefreshLoad \/ RefreshEnd
    <2>1. \A b \in DiscountCall \ {"refresh"} : dcall'[b] = dcall[b]
        BY <1>1 DEF RefreshLoad, RefreshEnd, DiscountTypeOK
    <2>2. \A q \in Product : product'[q] = product[q] /\ (Settled(q) => Settled(q)')
        BY <1>1, NothingWritten DEF RefreshLoad, RefreshEnd, history
    <2>3. \A q \in Product : ~Owes("refresh", q)
        BY <1>1 DEF RefreshLoad, RefreshEnd, At, Owes, OwesIn
    <2> QED BY <1>0, <2>1, <2>2, <2>3, CarriedIdle
<1>2. ASSUME NEW job \in dcall["refresh"].due, RefreshSave(job) PROVE PriceInv'
    <2>1. \A b \in DiscountCall \ {"refresh"} : dcall'[b] = dcall[b]
        BY <1>2 DEF RefreshSave, DiscountTypeOK
    <2>2. \A d \in Discount : /\ discount'[d].stored = discount[d].stored
                              /\ discount'[d].terms = discount[d].terms
        BY <1>2 DEF RefreshSave, DiscountTypeOK, DiscountDoc
    <2>3. \A q \in Product : product'[q] = product[q] /\ (Settled(q) => Settled(q)')
        BY <1>2, <2>2, NothingWritten DEF RefreshSave, history
    <2>4. \A q \in Product : ~Owes("refresh", q)
        BY <1>2 DEF RefreshSave, At, Owes, OwesIn
    <2> QED BY <1>0, <2>1, <2>3, <2>4, CarriedIdle
<1>3. CASE RefreshClear
    <2> DEFINE P == {p \in Product : Carries(p, dcall["refresh"].d)}
    <2>1. /\ \A b \in DiscountCall \ {"refresh"} : dcall'[b] = dcall[b]
          /\ dcall["refresh"].pc = "clear" /\ discount' = discount
        BY <1>3 DEF RefreshClear, At, DiscountTypeOK
    <2>2. ClearPrice(P) /\ P \in SUBSET Product BY <1>3 DEF RefreshClear
    <2>3. \A q \in Product : ~Owes("refresh", q) BY <2>1 DEF Owes, OwesIn
    <2> HIDE DEF P
    <2>4. /\ \A q \in P : Settled(q)'
          /\ \A q \in Product \ P : product'[q] = product[q] /\ (Settled(q) => Settled(q)')
        BY <2>1, <2>2, ClearSettles
    <2> QED BY <1>0, <2>1, <2>3, <2>4, Carried
<1> QED BY <1>1, <1>2, <1>3 DEF RefreshStep

LEMMA OtherPriced ==
    ASSUME DiscountTypeOK, PriceInv,
           \/ DeleteRemove
           \/ \E d \in Discount : Elapse(d)
           \/ \E c \in DiscountCall : DiscountCrash(c)
    PROVE  PriceInv'
<1>0. \A p \in Product : product[p].applied \in Discount \cup {NoDiscount}
    BY DEF DiscountTypeOK, ProductDoc
<1>1. CASE DeleteRemove
    <2> DEFINE d == dcall["delete"].d
    <2>0. "delete" \in DiscountCall BY DEF DiscountCall
    <2>1. /\ \A b \in DiscountCall \ {"delete"} : dcall'[b] = dcall[b]
          /\ \A e \in Discount \ {d} : discount'[e] = discount[e]
          /\ loose' = loose \cup {p \in Product : Carries(p, d)}
          /\ product' = product
        BY <1>1 DEF DeleteRemove, Ends, DiscountTypeOK
    <2>2. \A q \in Product : ~Owes("delete", q) BY DEF Owes, OwesIn, Applying
    <2>3. \A q \in Product : Carries(q, d) => q \in loose' BY <2>1
    <2> HIDE DEF d
    <2>4. \A q \in Product : Settled(q) => Settled(q)'
        BY <1>0, <2>1, <2>3, Undisturbed
    <2> QED BY <2>0, <2>1, <2>2, <2>4, CarriedIdle
<1>2. ASSUME NEW d \in Discount, Elapse(d) PROVE PriceInv'
    <2>0. "create" \in DiscountCall BY DEF DiscountCall
    <2>1. \A e \in Discount : /\ discount'[e].stored = discount[e].stored
                              /\ discount'[e].terms = discount[e].terms
        BY <1>2 DEF Elapse, DiscountTypeOK, DiscountDoc
    <2>2. product' = product /\ dcall' = dcall /\ loose' = loose BY <1>2 DEF Elapse, history
    <2>3. \A q \in Product : product'[q] = product[q] /\ (Settled(q) => Settled(q)')
        BY <2>1, <2>2, NothingWritten
    <2>4. \A q \in Product, c \in DiscountCall : Owes(c, q) => Owes(c, q)'
        BY <2>2 DEF Owes, OwesIn, Applying
    <2> QED BY <2>3, <2>4 DEF PriceInv
<1>3. ASSUME NEW c \in DiscountCall, DiscountCrash(c) PROVE PriceInv'
    <2>1. /\ \A b \in DiscountCall \ {c} : dcall'[b] = dcall[b]
          /\ loose' = loose \cup Unpriced(c) /\ product' = product /\ discount' = discount
        BY <1>3 DEF DiscountCrash, DiscountTypeOK
    <2>2. \A q \in Product : Owes(c, q) => q \in loose'
        BY <2>1 DEF Owes, OwesIn, Unpriced, Applying, Carries
    <2>3. \A q \in Product : Owes(c, q) => Settled(q)' BY <2>2 DEF Settled
    <2>4. \A q \in Product : product'[q] = product[q] /\ (Settled(q) => Settled(q)')
        BY <2>1, NothingWritten
    <2> QED BY <2>1, <2>3, <2>4, CarriedIdle
<1> QED BY <1>1, <1>2, <1>3

\* Whoever changes discounts and products at once, and wherever calls stop:
\* when none is under way, every price left on a product is what its discount
\* gives, or rests on a copy the model says was outdated.
THEOREM PricesFollow == Spec => []PriceFollowsDiscount
<1>1. ASSUME DiscountTypeOK, PriceInv, [Next]_vars PROVE PriceInv'
    <2>1. CASE DiscountNext
        <3>1. CASE DiscountWorking
            BY <3>1, <1>1, OverridePriced, ApplyPriced, SyncPriced, RefreshPriced, OtherPriced
               DEF DiscountWorking, DiscountCall
        <3> QED BY <2>1, <3>1, <1>1, RequestPriced, OtherPriced DEF DiscountNext
    <2>2. CASE UNCHANGED discountVars
        <3>1. \A p \in Product : Settled(p) => Settled(p)'
            BY <2>2 DEF discountVars, Settled
        <3>2. \A p \in Product, c \in DiscountCall : Owes(c, p) => Owes(c, p)'
            BY <2>2 DEF discountVars, Owes, OwesIn, Applying
        <3> QED BY <1>1, <3>1, <3>2 DEF PriceInv
    <2> QED BY <1>1, <2>1, <2>2 DEF Next, vars
<1>2. PriceInv => PriceFollowsDiscount
    <2> SUFFICES ASSUME PriceInv, Resting, NEW p \in Product PROVE Settled(p)
        BY DEF PriceFollowsDiscount, Settled
    <2>1. \A c \in DiscountCall : ~Owes(c, p) BY DEF Resting, Owes, OwesIn
    <2> QED BY <2>1 DEF PriceInv
<1> QED BY <1>1, <1>2, InitPriced, TypeCorrect, PTL DEF Spec
-----------------------------------------------------------------------------
(* Every yard is accounted for.                                            *)

\* Which calls are where, and what a closing one found.
PlaceInv ==
    \A c \in ReserveCall :
      /\ rcall[c].pc \in {"lock", "record"} => Endpoint[c] = "reserve"
      /\ rcall[c].pc \in {"stock", "release", "close"} =>
           Endpoint[c] \in Closing /\ rcall[c].found = "active"

\* The reservation of a call that makes one is not there yet.
FreshInv ==
    \A c \in ReserveCall : rcall[c].pc \in {"lock", "record"} => Status(c) = "none"

\* Yards a call accounts for: sold, taken for a reservation to come, given back by
\* a closing one.
Sold(c) == IF Endpoint[c] = "buy" /\ rcall[c].pc = "done" THEN Yards[c] ELSE 0
Locked(c) == IF rcall[c].pc = "record" THEN Total[About[c]] ELSE 0
Freed(c) == IF rcall[c].pc = "close" THEN Total[About[c]] ELSE 0
Flow == [c \in ReserveCall |-> Sold(c) + Locked(c) - Freed(c)]

\* Yards a reservation holds.
HeldNow == [r \in Reservation |-> IF reservation[r] = "active" THEN Total[r] ELSE 0]

YardInv ==
    stock + SumFunctionOnSet(Flow, ReserveCall) + SumFunctionOnSet(HeldNow, Reservation) = Supply

YardsInv == PlaceInv /\ (~overtaken => FreshInv /\ YardInv)

LEMMA ReserveTypes ==
    /\ \A r \in Reservation : Total[r] \in Nat
    /\ \A c \in ReserveCall : About[c] \in Reservation /\ Yards[c] \in Nat /\ Total[About[c]] \in Nat
    /\ IsFiniteSet(Reservation) /\ IsFiniteSet(ReserveCall) /\ Supply \in Nat
BY ReservationAssumption

LEMMA FlowType ==
    /\ \A c \in ReserveCall : /\ Sold(c) \in Nat /\ Locked(c) \in Nat /\ Freed(c) \in Nat
                              /\ Flow[c] \in Int
    /\ \A r \in Reservation : HeldNow[r] \in Int
<1>1. \A c \in ReserveCall : Sold(c) \in Nat /\ Locked(c) \in Nat /\ Freed(c) \in Nat
    BY ReserveTypes DEF Sold, Locked, Freed
<1>2. \A r \in Reservation : HeldNow[r] \in Int BY ReserveTypes DEF HeldNow
<1> QED BY <1>1, <1>2 DEF Flow

LEMMA FlowTypeNext ==
    /\ \A c \in ReserveCall : Flow'[c] \in Int
    /\ \A r \in Reservation : HeldNow'[r] \in Int
<1>1. \A c \in ReserveCall : Sold(c)' \in Nat /\ Locked(c)' \in Nat /\ Freed(c)' \in Nat
    BY ReserveTypes DEF Sold, Locked, Freed
<1>2. \A r \in Reservation : HeldNow'[r] \in Int BY ReserveTypes DEF HeldNow
<1> QED BY <1>1, <1>2 DEF Flow

\* A step of one call about one reservation keeps the sum when what it takes from
\* one place it puts into another.
LEMMA YardsMoved ==
    ASSUME ReservationTypeOK, ReservationTypeOK', YardInv, NEW c \in ReserveCall,
           \A d \in ReserveCall : d # c => rcall'[d] = rcall[d],
           \A r \in Reservation : r # About[c] => reservation'[r] = reservation[r],
           stock' + Flow'[c] + HeldNow'[About[c]] = stock + Flow[c] + HeldNow[About[c]]
    PROVE  YardInv'
<1> DEFINE R == About[c]
<1>0. R \in Reservation /\ IsFiniteSet(Reservation) /\ IsFiniteSet(ReserveCall) BY ReserveTypes
<1>1. \A d \in ReserveCall : d # c => Flow'[d] = Flow[d]
    BY DEF Flow, Sold, Locked, Freed
<1>2. SumFunctionOnSet(Flow', ReserveCall)
        = SumFunctionOnSet(Flow, ReserveCall) + Flow'[c] - Flow[c]
    <2> DEFINE f == Flow
               g == Flow'
    <2>1. \A d \in ReserveCall : f[d] \in Int /\ g[d] \in Int BY FlowType, FlowTypeNext
    <2>2. \A d \in ReserveCall : d # c => g[d] = f[d] BY <1>1
    <2> HIDE DEF f, g
    <2>3. SumFunctionOnSet(g, ReserveCall) = SumFunctionOnSet(f, ReserveCall) + g[c] - f[c]
        BY ONLY <1>0, <2>1, <2>2, c \in ReserveCall, SumUpdate
    <2> QED BY <2>3 DEF f, g
<1>3. \A r \in Reservation : r # R => HeldNow'[r] = HeldNow[r] BY DEF HeldNow
<1>4. SumFunctionOnSet(HeldNow', Reservation)
        = SumFunctionOnSet(HeldNow, Reservation) + HeldNow'[R] - HeldNow[R]
    <2>1. \A r \in Reservation : HeldNow[r] \in Int /\ HeldNow'[r] \in Int
        BY FlowType, FlowTypeNext
    <2> HIDE DEF R
    <2> QED BY <1>0, <1>3, <2>1, SumUpdate
<1>5. /\ SumFunctionOnSet(Flow, ReserveCall) \in Int
      /\ SumFunctionOnSet(HeldNow, Reservation) \in Int
    BY <1>0, FlowType, SumType
<1>6. stock \in Int /\ stock' \in Int BY DEF ReservationTypeOK
<1>7. Flow[c] \in Int /\ Flow'[c] \in Int /\ HeldNow[R] \in Int /\ HeldNow'[R] \in Int
    BY <1>0, FlowType, FlowTypeNext
<1>8. stock + SumFunctionOnSet(Flow, ReserveCall) + SumFunctionOnSet(HeldNow, Reservation) = Supply
    BY DEF YardInv
<1>9. stock' + SumFunctionOnSet(Flow', ReserveCall) + SumFunctionOnSet(HeldNow', Reservation) = Supply
    BY <1>2, <1>4, <1>5, <1>6, <1>7, <1>8
<1> QED BY <1>9 DEF YardInv

\* The local state of a call after a step of it.
LEMMA CallMoves ==
    ASSUME ReservationTypeOK, NEW c \in ReserveCall, NEW pc, Moves(c, pc) \/ Finishes(c, pc)
    PROVE  /\ rcall'[c].pc = pc /\ (Moves(c, pc) => rcall'[c].found = rcall[c].found)
           /\ \A d \in ReserveCall : d # c => rcall'[d] = rcall[d]
BY DEF ReservationTypeOK, ReserveState, Moves, ReserveIn, Finishes

\* Where a call stands for yards.
Counted == {"record", "close"}

\* A step of a call that moves no yards.
LEMMA NoYards ==
    ASSUME ReservationTypeOK, ReservationTypeOK', YardsInv, NEW c \in ReserveCall,
           UNCHANGED <<stock, reservation>>, ~ overtaken' => ~ overtaken,
           \A d \in ReserveCall : d # c => rcall'[d] = rcall[d],
           rcall'[c].pc = "lock" => Endpoint[c] = "reserve" /\ Status(c) = "none",
           rcall'[c].pc \in {"stock", "release"} => Endpoint[c] \in Closing /\ rcall'[c].found = "active",
           ~ overtaken' => rcall[c].pc \notin Counted,
           rcall'[c].pc \notin Counted, Endpoint[c] # "buy" \/ {rcall[c].pc, rcall'[c].pc} \cap {"done"} = {}
    PROVE  YardsInv'
<1>1. About[c] \in Reservation BY ReserveTypes
<1>2. PlaceInv' BY DEF YardsInv, PlaceInv, Counted
<1>3. ASSUME ~ overtaken' PROVE FreshInv' /\ YardInv'
    <2>1. FreshInv /\ YardInv /\ rcall[c].pc \notin Counted BY <1>3 DEF YardsInv
    <2>2. FreshInv' BY <2>1 DEF FreshInv, Status, Counted
    <2>3. Sold(c) = 0 /\ Locked(c) = 0 /\ Freed(c) = 0 BY <2>1 DEF Sold, Locked, Freed, Counted
    <2>4. Sold(c)' = 0 /\ Locked(c)' = 0 /\ Freed(c)' = 0 BY DEF Sold, Locked, Freed, Counted
    <2>5. Flow'[c] = Flow[c] BY <2>3, <2>4 DEF Flow
    <2>6. HeldNow'[About[c]] = HeldNow[About[c]] BY <1>1 DEF HeldNow
    <2>7. YardInv' BY <2>1, <2>5, <2>6, YardsMoved
    <2> QED BY <2>2, <2>7
<1> QED BY <1>2, <1>3 DEF YardsInv

LEMMA InitYards == ASSUME Init PROVE YardsInv
<1>0. ReservationTypeOK BY ReservationInitType
<1>1. \A c \in ReserveCall : rcall[c].pc \in {"ready", "absent"}
    BY DEF Init, ReservationInit, NoReservations, ReserveIn
<1>2. PICK made \in SUBSET Reservation :
        /\ reservation = [r \in Reservation |-> IF r \in made THEN "active" ELSE "none"]
        /\ stock = Supply - SumFunctionOnSet(Total, made)
    <2>1. CASE ReservationInit
        <3>1. PICK e \in Event :
                /\ reservation = [r \in Reservation |-> IF r \in e.made THEN "active" ELSE "none"]
                /\ stock = Supply - TakenAtFirst(e)
            BY <2>1 DEF ReservationInit
        <3>2. e.made \in SUBSET Reservation BY ReservationAssumption
        <3> QED BY <3>1, <3>2 DEF TakenAtFirst
    <2>2. CASE NoReservations
        <3>1. reservation = [r \in Reservation |-> IF r \in {} THEN "active" ELSE "none"]
            BY <2>2 DEF NoReservations
        <3>2. stock = Supply - SumFunctionOnSet(Total, {})
            BY <2>2, SumEmpty, ReserveTypes DEF NoReservations
        <3> QED BY <3>1, <3>2
    <2> QED BY <2>1, <2>2 DEF Init
<1>3. PlaceInv /\ FreshInv BY <1>1 DEF PlaceInv, FreshInv
<1>4. \A c \in ReserveCall : Flow[c] = 0
    <2>1. \A c \in ReserveCall : Sold(c) = 0 /\ Locked(c) = 0 /\ Freed(c) = 0
        BY <1>1 DEF Sold, Locked, Freed
    <2> QED BY <2>1 DEF Flow
<1>5. SumFunctionOnSet(Flow, ReserveCall) = 0 BY <1>4, ReserveTypes, SumZero
<1>6. SumFunctionOnSet(HeldNow, Reservation) = SumFunctionOnSet(Total, made)
    <2> DEFINE g == [r \in Reservation |-> IF r \in made THEN Total[r] ELSE 0]
    <2>1. SumFunctionOnSet(Total, made) = SumFunctionOnSet(g, Reservation)
        <3>1. \A r \in made : Total[r] \in Int BY ReserveTypes
        <3> QED BY <3>1, ReserveTypes, SumPart
    <2>2. \A r \in Reservation : HeldNow[r] = g[r] BY <1>2 DEF HeldNow
    <2> HIDE DEF g
    <2>3. SumFunctionOnSet(HeldNow, Reservation) = SumFunctionOnSet(g, Reservation)
        BY <2>2, ReserveTypes, SumSame
    <2> QED BY <2>1, <2>3
<1>7. SumFunctionOnSet(HeldNow, Reservation) \in Int BY FlowType, ReserveTypes, SumType
<1>8. YardInv BY <1>2, <1>5, <1>6, <1>7, ReserveTypes DEF YardInv
<1> QED BY <1>3, <1>8 DEF YardsInv

\* Loading moves no yards.
LEMMA LoadYards ==
    ASSUME ReservationTypeOK, ReservationTypeOK', YardsInv, NEW c \in ReserveCall,
           ReserveLoad(c) \/ CloseStock(c)
    PROVE  YardsInv'
<1>1. CASE ReserveLoad(c)
    <2>1. /\ rcall[c].pc = "ready" /\ Endpoint[c] = "reserve" /\ Status(c) = "none"
          /\ UNCHANGED <<stock, reservation, overtaken>>
        BY <1>1 DEF ReserveLoad, AtCall
    <2>2. /\ rcall'[c].pc \in {"refused", "lock"}
          /\ \A d \in ReserveCall : d # c => rcall'[d] = rcall[d]
        <3>1. CASE Finishes(c, "refused") BY <3>1, CallMoves
        <3>2. CASE rcall' = [rcall EXCEPT ![c].pc = "lock", ![c].yards = stock]
            BY <3>2 DEF ReservationTypeOK, ReserveState
        <3> QED BY <1>1, <3>1, <3>2 DEF ReserveLoad
    <2> QED BY <2>1, <2>2, NoYards DEF Counted
<1>2. CASE CloseStock(c)
    <2>1. /\ rcall[c].pc = "stock" /\ Endpoint[c] \in Closing
          /\ UNCHANGED <<stock, reservation, overtaken>>
          /\ rcall'[c].pc = "release" /\ rcall'[c].found = rcall[c].found
          /\ \A d \in ReserveCall : d # c => rcall'[d] = rcall[d]
        BY <1>2 DEF CloseStock, AtCall, ReservationTypeOK, ReserveState
    <2> QED BY <2>1, NoYards DEF Counted, YardsInv, PlaceInv
<1> QED BY <1>1, <1>2

\* A reservation of no yards closes without giving any back.
LEMMA CloseLoadYards ==
    ASSUME ReservationTypeOK, ReservationTypeOK', YardsInv, NEW c \in ReserveCall, CloseLoad(c)
    PROVE  YardsInv'
<1>0. About[c] \in Reservation /\ Total[About[c]] \in Nat BY ReserveTypes
<1>1. /\ rcall[c].pc = "ready" /\ Endpoint[c] \in Closing
      /\ UNCHANGED <<stock, reservation, overtaken>>
    BY DEF CloseLoad, AtCall
<1>2. CASE Finishes(c, "refused")
    <2>1. /\ rcall'[c].pc = "refused"
          /\ \A d \in ReserveCall : d # c => rcall'[d] = rcall[d]
        BY <1>2, CallMoves
    <2> QED BY <1>1, <2>1, NoYards DEF Counted
<1> DEFINE next == IF Total[About[c]] > 0 THEN "stock" ELSE "close"
<1>3. ~ Finishes(c, "refused") =>
        /\ rcall'[c].pc = next /\ rcall'[c].found = "active"
        /\ \A d \in ReserveCall : d # c => rcall'[d] = rcall[d]
    <2> SUFFICES ASSUME ~ Finishes(c, "refused")
                 PROVE  /\ rcall'[c].pc = next /\ rcall'[c].found = "active"
                        /\ \A d \in ReserveCall : d # c => rcall'[d] = rcall[d]
        OBVIOUS
    <2>1. /\ Status(c) = "active"
          /\ rcall' = [rcall EXCEPT ![c].pc = next, ![c].found = Status(c)]
        BY DEF CloseLoad, Closable
    <2> QED BY <2>1 DEF ReservationTypeOK, ReserveState
<1>4. CASE rcall'[c].pc = "stock" /\ ~ Finishes(c, "refused")
    BY <1>1, <1>3, <1>4, NoYards DEF Counted
<1>5. CASE rcall'[c].pc = "close" /\ ~ Finishes(c, "refused") /\ ~ (Total[About[c]] > 0)
    <2>1. /\ rcall'[c].pc = "close" /\ rcall'[c].found = "active"
          /\ \A d \in ReserveCall : d # c => rcall'[d] = rcall[d]
        BY <1>3, <1>5
    <2>2. PlaceInv' BY <1>1, <2>1 DEF YardsInv, PlaceInv
    <2>3. ASSUME ~ overtaken' PROVE FreshInv' /\ YardInv'
        <3>1. FreshInv /\ YardInv BY <1>1, <2>3 DEF YardsInv
        <3>2. FreshInv' BY <1>1, <2>1, <3>1 DEF FreshInv, Status
        <3>3. Total[About[c]] = 0 BY <1>0, <1>5
        <3>4. Sold(c) = 0 /\ Locked(c) = 0 /\ Freed(c) = 0
            BY <1>1 DEF Sold, Locked, Freed
        <3>5. Sold(c)' = 0 /\ Locked(c)' = 0 /\ Freed(c)' = 0
            BY <2>1, <3>3 DEF Sold, Locked, Freed
        <3>6. Flow'[c] = Flow[c] BY <3>4, <3>5 DEF Flow
        <3>7. HeldNow'[About[c]] = HeldNow[About[c]] BY <1>0, <1>1 DEF HeldNow
        <3>8. YardInv' BY <1>1, <2>1, <3>1, <3>6, <3>7, YardsMoved
        <3> QED BY <3>2, <3>8
    <2> QED BY <2>2, <2>3 DEF YardsInv
<1> QED BY <1>2, <1>3, <1>4, <1>5

\* A call that stops halfway is noted; elsewhere it holds no yards.
LEMMA ReserveCrashYards ==
    ASSUME ReservationTypeOK, ReservationTypeOK', YardsInv, NEW c \in ReserveCall, ReserveCrash(c)
    PROVE  YardsInv'
<1>1. /\ rcall[c].pc \notin {"absent", "ready", "done", "refused", "failed"}
      /\ overtaken' = (overtaken \/ rcall[c].pc \in Halfway)
      /\ UNCHANGED <<stock, reservation>>
    BY DEF ReserveCrash, Notes
<1>2. /\ rcall'[c].pc \in {"ready", "failed"}
      /\ \A d \in ReserveCall : d # c => rcall'[d] = rcall[d]
    BY CallMoves DEF ReserveCrash
<1>3. ~ overtaken' => rcall[c].pc \notin Counted BY <1>1 DEF Halfway, Counted
<1> QED BY <1>1, <1>2, <1>3, NoYards DEF Counted

\* The yards leave the stock, and the call accounts for them.
LEMMA ReserveLockYards ==
    ASSUME ReservationTypeOK, ReservationTypeOK', YardsInv, NEW c \in ReserveCall, ReserveLock(c)
    PROVE  YardsInv'
<1>0. About[c] \in Reservation /\ Total[About[c]] \in Nat BY ReserveTypes
<1>1. /\ rcall[c].pc = "lock" /\ Endpoint[c] = "reserve"
      /\ stock' = rcall[c].yards - Total[About[c]]
      /\ overtaken' = (overtaken \/ stock # rcall[c].yards)
      /\ UNCHANGED reservation
    BY DEF ReserveLock, AtCall, SaveStock, Notes
<1>2. /\ rcall'[c].pc = "record"
      /\ \A d \in ReserveCall : d # c => rcall'[d] = rcall[d]
    BY CallMoves DEF ReserveLock
<1>3. PlaceInv' BY <1>1, <1>2 DEF YardsInv, PlaceInv
<1>4. ASSUME ~ overtaken' PROVE FreshInv' /\ YardInv'
    <2>1. FreshInv /\ YardInv BY <1>1, <1>4 DEF YardsInv
    <2>2. FreshInv' BY <1>1, <1>2, <2>1 DEF FreshInv, Status
    <2>3. stock' = stock - Total[About[c]] /\ stock \in Int
        BY <1>1, <1>4 DEF ReservationTypeOK
    <2>4. Sold(c) = 0 /\ Locked(c) = 0 /\ Freed(c) = 0
        BY <1>1 DEF Sold, Locked, Freed
    <2>5. Sold(c)' = 0 /\ Locked(c)' = Total[About[c]] /\ Freed(c)' = 0
        BY <1>2 DEF Sold, Locked, Freed
    <2>6. Flow[c] = 0 /\ Flow'[c] = Total[About[c]] BY <1>0, <2>4, <2>5 DEF Flow
    <2>7. HeldNow'[About[c]] = HeldNow[About[c]] /\ HeldNow[About[c]] \in Int
        BY <1>0, <1>1, FlowType DEF HeldNow
    <2>8. stock' + Flow'[c] + HeldNow'[About[c]] = stock + Flow[c] + HeldNow[About[c]]
        BY <1>0, <2>3, <2>6, <2>7
    <2>9. YardInv' BY <1>1, <1>2, <2>1, <2>8, YardsMoved
    <2> QED BY <2>2, <2>9
<1> QED BY <1>3, <1>4 DEF YardsInv

\* The reservation takes them over from the call that made it, which fails.
LEMMA ReserveRecordYards ==
    ASSUME ReservationTypeOK, ReservationTypeOK', YardsInv, NEW c \in ReserveCall, ReserveRecord(c)
    PROVE  YardsInv'
<1>0. About[c] \in Reservation /\ Total[About[c]] \in Nat BY ReserveTypes
<1>1. /\ rcall[c].pc = "record" /\ Endpoint[c] = "reserve"
      /\ \A r \in Reservation : r # About[c] => reservation'[r] = reservation[r]
      /\ reservation'[About[c]] = "active"
      /\ UNCHANGED <<stock, overtaken>>
    BY <1>0 DEF ReserveRecord, AtCall, ReservationTypeOK
<1>2. /\ rcall'[c].pc = "failed"
      /\ \A d \in ReserveCall : d # c => rcall'[d] = rcall[d]
    BY CallMoves DEF ReserveRecord
<1>3. PlaceInv' BY <1>1, <1>2 DEF YardsInv, PlaceInv
<1>4. ASSUME ~ overtaken' PROVE FreshInv' /\ YardInv'
    <2>1. FreshInv /\ YardInv BY <1>1, <1>4 DEF YardsInv
    <2>2. reservation[About[c]] = "none" BY <1>1, <2>1 DEF FreshInv, Status
    <2>3. \A d \in ReserveCall : d # c /\ rcall[d].pc \in {"lock", "record"} => About[d] # About[c]
        BY <1>1, ReservationAssumption DEF YardsInv, PlaceInv
    <2>4. FreshInv'
        <3> SUFFICES ASSUME NEW d \in ReserveCall, rcall'[d].pc \in {"lock", "record"}
                     PROVE  reservation'[About[d]] = "none"
            BY DEF FreshInv, Status
        <3>1. d # c /\ rcall[d].pc \in {"lock", "record"} BY <1>2
        <3>2. About[d] # About[c] /\ reservation[About[d]] = "none"
            BY <2>1, <2>3, <3>1 DEF FreshInv, Status
        <3> QED BY <1>1, <3>2, ReserveTypes
    <2>5. Sold(c) = 0 /\ Locked(c) = Total[About[c]] /\ Freed(c) = 0
        BY <1>1 DEF Sold, Locked, Freed
    <2>6. Sold(c)' = 0 /\ Locked(c)' = 0 /\ Freed(c)' = 0
        BY <1>2 DEF Sold, Locked, Freed
    <2>7. Flow[c] = Total[About[c]] /\ Flow'[c] = 0 BY <1>0, <2>5, <2>6 DEF Flow
    <2>8. HeldNow[About[c]] = 0 /\ HeldNow'[About[c]] = Total[About[c]]
        BY <1>0, <1>1, <2>2 DEF HeldNow
    <2>9. stock \in Int BY DEF ReservationTypeOK
    <2>10. stock' + Flow'[c] + HeldNow'[About[c]] = stock + Flow[c] + HeldNow[About[c]]
        BY <1>0, <1>1, <2>7, <2>8, <2>9
    <2>11. YardInv' BY <1>1, <1>2, <2>1, <2>10, YardsMoved
    <2> QED BY <2>4, <2>11
<1> QED BY <1>3, <1>4 DEF YardsInv

\* The yards go back to the stock, and the call accounts for that until the
\* reservation is closed.
LEMMA CloseReleaseYards ==
    ASSUME ReservationTypeOK, ReservationTypeOK', YardsInv, NEW c \in ReserveCall, CloseRelease(c)
    PROVE  YardsInv'
<1>0. About[c] \in Reservation /\ Total[About[c]] \in Nat BY ReserveTypes
<1>1. /\ rcall[c].pc = "release" /\ Endpoint[c] \in Closing
      /\ stock' = rcall[c].yards + Total[About[c]]
      /\ overtaken' = (overtaken \/ stock # rcall[c].yards)
      /\ UNCHANGED reservation
    BY DEF CloseRelease, AtCall, SaveStock, Notes
<1>2. /\ rcall'[c].pc = "close" /\ rcall'[c].found = rcall[c].found
      /\ \A d \in ReserveCall : d # c => rcall'[d] = rcall[d]
    BY CallMoves DEF CloseRelease
<1>3. PlaceInv' BY <1>1, <1>2 DEF YardsInv, PlaceInv
<1>4. ASSUME ~ overtaken' PROVE FreshInv' /\ YardInv'
    <2>1. FreshInv /\ YardInv BY <1>1, <1>4 DEF YardsInv
    <2>2. FreshInv' BY <1>1, <1>2, <2>1 DEF FreshInv, Status
    <2>3. stock' = stock + Total[About[c]] /\ stock \in Int
        BY <1>1, <1>4 DEF ReservationTypeOK
    <2>4. Sold(c) = 0 /\ Locked(c) = 0 /\ Freed(c) = 0
        BY <1>1 DEF Sold, Locked, Freed
    <2>5. Sold(c)' = 0 /\ Locked(c)' = 0 /\ Freed(c)' = Total[About[c]]
        BY <1>2 DEF Sold, Locked, Freed
    <2>6. Flow[c] = 0 /\ Flow'[c] = 0 - Total[About[c]] BY <1>0, <2>4, <2>5 DEF Flow
    <2>7. HeldNow'[About[c]] = HeldNow[About[c]] /\ HeldNow[About[c]] \in Int
        BY <1>0, <1>1, FlowType DEF HeldNow
    <2>8. stock' + Flow'[c] + HeldNow'[About[c]] = stock + Flow[c] + HeldNow[About[c]]
        BY <1>0, <2>3, <2>6, <2>7
    <2>9. YardInv' BY <1>1, <1>2, <2>1, <2>8, YardsMoved
    <2> QED BY <2>2, <2>9
<1> QED BY <1>3, <1>4 DEF YardsInv

\* Closed, the reservation holds no yards, and the call none either.
LEMMA CloseSaveYards ==
    ASSUME ReservationTypeOK, ReservationTypeOK', YardsInv, NEW c \in ReserveCall, CloseSave(c)
    PROVE  YardsInv'
<1>0. About[c] \in Reservation /\ Total[About[c]] \in Nat BY ReserveTypes
<1>1. /\ rcall[c].pc = "close" /\ Endpoint[c] \in Closing
      /\ overtaken' = (overtaken \/ reservation[About[c]] # rcall[c].found)
      /\ rcall[c].found = "active"
      /\ \A r \in Reservation : r # About[c] => reservation'[r] = reservation[r]
      /\ reservation'[About[c]] \in {"cancelled", "expired"}
      /\ UNCHANGED stock
    BY <1>0 DEF CloseSave, AtCall, Notes, Status, Closed, ReservationTypeOK, YardsInv, PlaceInv
<1>2. /\ rcall'[c].pc \in {"done", "ready"}
      /\ \A d \in ReserveCall : d # c => rcall'[d] = rcall[d]
    BY CallMoves DEF CloseSave
<1>3. PlaceInv' BY <1>1, <1>2 DEF YardsInv, PlaceInv
<1>4. ASSUME ~ overtaken' PROVE FreshInv' /\ YardInv'
    <2>1. FreshInv /\ YardInv /\ reservation[About[c]] = "active" BY <1>1, <1>4 DEF YardsInv
    <2>2. FreshInv'
        <3> SUFFICES ASSUME NEW d \in ReserveCall, rcall'[d].pc \in {"lock", "record"}
                     PROVE  reservation'[About[d]] = "none"
            BY DEF FreshInv, Status
        <3>1. d # c /\ rcall[d].pc \in {"lock", "record"} BY <1>2
        <3>2. reservation[About[d]] = "none" /\ About[d] # About[c]
            BY <2>1, <3>1 DEF FreshInv, Status
        <3> QED BY <1>1, <3>2, ReserveTypes
    <2>3. Sold(c) = 0 /\ Locked(c) = 0 /\ Freed(c) = Total[About[c]]
        BY <1>1 DEF Sold, Locked, Freed
    <2>4. Sold(c)' = 0 /\ Locked(c)' = 0 /\ Freed(c)' = 0
        BY <1>1, <1>2 DEF Sold, Locked, Freed, Closing
    <2>5. Flow[c] = 0 - Total[About[c]] /\ Flow'[c] = 0 BY <1>0, <2>3, <2>4 DEF Flow
    <2>6. HeldNow[About[c]] = Total[About[c]] /\ HeldNow'[About[c]] = 0
        BY <1>0, <1>1, <2>1 DEF HeldNow
    <2>7. stock \in Int BY DEF ReservationTypeOK
    <2>8. stock' + Flow'[c] + HeldNow'[About[c]] = stock + Flow[c] + HeldNow[About[c]]
        BY <1>0, <1>1, <2>5, <2>6, <2>7
    <2>9. YardInv' BY <1>1, <1>2, <2>1, <2>8, YardsMoved
    <2> QED BY <2>2, <2>9
<1> QED BY <1>3, <1>4 DEF YardsInv

\* What a sale takes from the stock its call accounts for.
LEMMA BuyYards ==
    ASSUME ReservationTypeOK, ReservationTypeOK', YardsInv, NEW c \in ReserveCall, Buy(c)
    PROVE  YardsInv'
<1>0. About[c] \in Reservation /\ Yards[c] \in Nat BY ReserveTypes
<1>1. /\ rcall[c].pc = "ready" /\ Endpoint[c] = "buy"
      /\ UNCHANGED <<reservation, overtaken>>
    BY DEF Buy, AtCall
<1>2. CASE Finishes(c, "refused") /\ UNCHANGED stock
    <2>1. /\ rcall'[c].pc = "refused"
          /\ \A d \in ReserveCall : d # c => rcall'[d] = rcall[d]
        BY <1>2, CallMoves
    <2> QED BY <1>1, <1>2, <2>1, NoYards DEF Counted
<1>3. CASE Finishes(c, "done") /\ stock' = stock - Yards[c]
    <2>1. /\ rcall'[c].pc = "done"
          /\ \A d \in ReserveCall : d # c => rcall'[d] = rcall[d]
        BY <1>3, CallMoves
    <2>2. PlaceInv' BY <1>1, <2>1 DEF YardsInv, PlaceInv
    <2>3. ASSUME ~ overtaken' PROVE FreshInv' /\ YardInv'
        <3>1. FreshInv /\ YardInv BY <1>1, <2>3 DEF YardsInv
        <3>2. FreshInv' BY <1>1, <2>1, <3>1 DEF FreshInv, Status
        <3>3. Sold(c) = 0 /\ Locked(c) = 0 /\ Freed(c) = 0
            BY <1>1 DEF Sold, Locked, Freed
        <3>4. Sold(c)' = Yards[c] /\ Locked(c)' = 0 /\ Freed(c)' = 0
            BY <1>1, <2>1 DEF Sold, Locked, Freed
        <3>5. Flow[c] = 0 /\ Flow'[c] = Yards[c] BY <1>0, <3>3, <3>4 DEF Flow
        <3>6. HeldNow'[About[c]] = HeldNow[About[c]] /\ HeldNow[About[c]] \in Int
            BY <1>0, <1>1, FlowType DEF HeldNow
        <3>7. stock \in Int BY DEF ReservationTypeOK
        <3>8. stock' + Flow'[c] + HeldNow'[About[c]] = stock + Flow[c] + HeldNow[About[c]]
            BY <1>0, <1>3, <3>5, <3>6, <3>7
        <3>9. YardInv' BY <1>1, <2>1, <3>1, <3>8, YardsMoved
        <3> QED BY <3>2, <3>9
    <2> QED BY <2>2, <2>3 DEF YardsInv
<1> QED BY <1>2, <1>3 DEF Buy

\* A deadline passes and other steps pass by without a change to these.
LEMMA OtherYards ==
    ASSUME YardsInv, UNCHANGED <<stock, reservation, rcall, overtaken>>
    PROVE  YardsInv'
<1>1. PlaceInv' BY DEF YardsInv, PlaceInv
<1>2. FreshInv => FreshInv' BY DEF FreshInv, Status
<1>3. Flow' = Flow /\ HeldNow' = HeldNow
    BY DEF Flow, Sold, Locked, Freed, HeldNow
<1>4. YardInv => YardInv' BY <1>3 DEF YardInv
<1> QED BY <1>1, <1>2, <1>4 DEF YardsInv

LEMMA NextYards ==
    ASSUME ReservationTypeOK, ReservationTypeOK', YardsInv, ReservationNext
    PROVE  YardsInv'
<1>1. CASE ReserveRequest
    BY <1>1, LoadYards, BuyYards, CloseLoadYards DEF ReserveRequest
<1>2. CASE ReserveWorking
    BY <1>2, ReserveLockYards, ReserveRecordYards, CloseLoadYards, LoadYards,
       CloseReleaseYards, CloseSaveYards
       DEF ReserveWorking
<1>3. CASE \E c \in ReserveCall : ReserveCrash(c) BY <1>3, ReserveCrashYards
<1>4. CASE \E r \in Reservation : Deadline(r) BY <1>4, OtherYards DEF Deadline
<1> QED BY <1>1, <1>2, <1>3, <1>4 DEF ReservationNext

\* When no call is under way, the calls account for what was sold, and nothing
\* else.
LEMMA RestingYards ==
    ASSUME ReservationTypeOK, YardsInv, Idling, ~ overtaken
    PROVE  YardsAccountedFor
<1>1. YardInv BY DEF YardsInv
<1> DEFINE sold == [c \in ReserveCall |-> IF c \in Sales THEN Yards[c] ELSE 0]
           held == [r \in Reservation |-> IF r \in Active THEN Total[r] ELSE 0]
<1>2. \A c \in ReserveCall : Flow[c] = sold[c]
    <2> SUFFICES ASSUME NEW c \in ReserveCall PROVE Flow[c] = sold[c] OBVIOUS
    <2>1. Locked(c) = 0 /\ Freed(c) = 0 BY DEF Locked, Freed, Idling, AtRest
    <2>2. Sold(c) = sold[c] BY DEF Sold, Sales
    <2>3. Sold(c) \in Nat BY FlowType
    <2>4. Flow[c] = Sold(c) BY <2>1, <2>3 DEF Flow
    <2> QED BY <2>2, <2>4
<1>3. \A r \in Reservation : HeldNow[r] = held[r] BY DEF HeldNow, Active
<1>4. SumFunctionOnSet(Yards, Sales) = SumFunctionOnSet(Flow, ReserveCall)
    <2>1. Sales \subseteq ReserveCall /\ \A c \in Sales : Yards[c] \in Int
        BY ReserveTypes DEF Sales
    <2>2. SumFunctionOnSet(Yards, Sales) = SumFunctionOnSet(sold, ReserveCall)
        BY <2>1, ReserveTypes, SumPart
    <2> HIDE DEF sold
    <2>3. SumFunctionOnSet(Flow, ReserveCall) = SumFunctionOnSet(sold, ReserveCall)
        BY <1>2, ReserveTypes, SumSame
    <2> QED BY <2>2, <2>3
<1>5. SumFunctionOnSet(Total, Active) = SumFunctionOnSet(HeldNow, Reservation)
    <2>1. Active \subseteq Reservation /\ \A r \in Active : Total[r] \in Int
        BY ReserveTypes DEF Active
    <2>2. SumFunctionOnSet(Total, Active) = SumFunctionOnSet(held, Reservation)
        BY <2>1, ReserveTypes, SumPart
    <2> HIDE DEF held
    <2>3. SumFunctionOnSet(HeldNow, Reservation) = SumFunctionOnSet(held, Reservation)
        BY <1>3, ReserveTypes, SumSame
    <2> QED BY <2>2, <2>3
<1>6. /\ stock \in Int /\ SumFunctionOnSet(Flow, ReserveCall) \in Int
      /\ SumFunctionOnSet(HeldNow, Reservation) \in Int
    BY FlowType, ReserveTypes, SumType DEF ReservationTypeOK
<1>7. stock + SumFunctionOnSet(Total, Active) + SumFunctionOnSet(Yards, Sales) = Supply
    BY <1>1, <1>4, <1>5, <1>6 DEF YardInv
<1> QED BY <1>7 DEF YardsAccountedFor

\* YardsInv follows every yard through the calls that carry it from the stock to
\* a reservation, to a sale and back: at rest none is lost and none given back
\* twice, although every call that reserves fails, unless a call wrote over a
\* change it had not seen or stopped between two writes.
THEOREM YardsAreAccountedFor == Spec => []YardsAccountedFor
<1>1. ASSUME ReservationTypeOK, ReservationTypeOK', YardsInv, [Next]_vars PROVE YardsInv'
    <2>1. CASE ReservationNext BY <2>1, <1>1, NextYards
    <2>2. CASE UNCHANGED reservationVars
        BY <2>2, <1>1, OtherYards DEF reservationVars
    <2> QED BY <1>1, <2>1, <2>2 DEF Next, vars
<1>2. ReservationTypeOK /\ YardsInv => YardsAccountedFor
    BY RestingYards DEF YardsAccountedFor
<1> QED BY <1>1, <1>2, InitYards, TypeCorrect, PTL DEF Spec
=============================================================================
