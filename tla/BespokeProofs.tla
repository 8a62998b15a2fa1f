--------------------------- MODULE BespokeProofs ---------------------------
(***************************************************************************)
(* Theorems about Bespoke, for every set of quotes, prices and calls.      *)
(***************************************************************************)
EXTENDS Bespoke, TLAPS

-----------------------------------------------------------------------------
(* Type correctness.                                                       *)

LEMMA ConstantTypes ==
    ASSUME NEW c \in Call
    PROVE  /\ Of[c] \in Quote /\ Asked[c] \subseteq Quote
           /\ Bid[c] \in Price /\ Bid[c] \in Nat
BY BespokeAssumption

LEMMA InitType == ASSUME Init PROVE TypeOK
<1>1. PICK s \in Start :
         /\ call = [c \in Call |-> NewCall(c, IF c \in s.calls THEN "ready" ELSE "absent")]
         /\ quote = [q \in Quote |-> FirstQuote(q, s.quotes[q])]
         /\ design = [status |-> IF \E q \in Quote : s.quotes[q] = "submitted" THEN "quoted"
                                 ELSE IF \E q \in Quote : s.quotes[q] = "pending"
                                 THEN "requesting_quotes" ELSE "draft",
                      accepted |-> {}]
         /\ submitted = [q \in Quote |-> IF s.quotes[q] = "submitted" THEN {Offer[q]} ELSE {}]
    BY DEF Init
<1>2. s.quotes \in [Quote -> {"none", "pending", "submitted"}]
    BY BespokeAssumption
<1>3. \A q \in Quote : Offer[q] \in Price /\ Offer[q] \in Nat
    BY BespokeAssumption
<1>4. \A q \in Quote : FirstQuote(q, s.quotes[q]) \in QuoteDoc
    BY <1>2, <1>3 DEF FirstQuote, NewQuote, QuoteDoc, QuoteStatus
<1>5. quote \in [Quote -> QuoteDoc] /\ submitted \in [Quote -> SUBSET Price]
    BY <1>1, <1>3, <1>4
<1>6. \A c \in Call : \A pc \in {"ready", "absent"} : NewCall(c, pc) \in CallState
    BY DEF NewCall, NewQuote, CallState, CallPC, QuoteDoc, QuoteStatus, DesignStatus
<1>7. call \in [Call -> CallState]
    BY <1>1, <1>6
<1>8. design \in [status: DesignStatus, accepted: SUBSET Quote]
    BY <1>1 DEF DesignStatus
<1>9. order \in [Call -> OrderDoc] /\ charge \in [Call -> [state: {"none", "open", "paid"}, order: Call]]
    BY DEF Init, NoOrder, OrderDoc
<1> QED BY <1>5, <1>7, <1>8, <1>9, BespokeAssumption DEF Init, TypeOK

\* A step that only moves a call to another program counter keeps its type,
\* and every other call's state.
LEMMA GoesType ==
    ASSUME TypeOK, NEW c \in Call, NEW pc \in CallPC, Goes(c, pc)
    PROVE  call' \in [Call -> CallState]
BY DEF TypeOK, CallState, Goes

\* Writing a field of a call's state.
LEMMA FieldTypes ==
    ASSUME NEW f \in [Call -> CallState], NEW c \in Call
    PROVE  /\ \A pc \in CallPC : [f EXCEPT ![c].pc = pc] \in [Call -> CallState]
           /\ \A q \in QuoteDoc : [f EXCEPT ![c].quote = q] \in [Call -> CallState]
           /\ \A d \in DesignStatus : [f EXCEPT ![c].design = d] \in [Call -> CallState]
           /\ \A o \in Call : [f EXCEPT ![c].on = o] \in [Call -> CallState]
           /\ \A n \in SUBSET Quote : [f EXCEPT ![c].new = n] \in [Call -> CallState]
           /\ \A a \in BOOLEAN : [f EXCEPT ![c].already = a] \in [Call -> CallState]
<1>1. f[c] \in CallState OBVIOUS
<1>2. /\ \A pc \in CallPC : [f[c] EXCEPT !.pc = pc] \in CallState
      /\ \A q \in QuoteDoc : [f[c] EXCEPT !.quote = q] \in CallState
      /\ \A d \in DesignStatus : [f[c] EXCEPT !.design = d] \in CallState
      /\ \A o \in Call : [f[c] EXCEPT !.on = o] \in CallState
      /\ \A n \in SUBSET Quote : [f[c] EXCEPT !.new = n] \in CallState
      /\ \A a \in BOOLEAN : [f[c] EXCEPT !.already = a] \in CallState
    BY <1>1 DEF CallState
<1> QED BY <1>1, <1>2

LEMMA CallParts ==
    ASSUME TypeOK, NEW c \in Call
    PROVE  /\ call[c] \in CallState
           /\ call[c].on \in Call
           /\ call[c].quote \in QuoteDoc /\ call[c].quote.total \in Nat
           /\ call[c].design \in DesignStatus
           /\ call[c].new \subseteq Quote /\ call[c].already \in BOOLEAN
BY DEF TypeOK, CallState, QuoteDoc

\* A save of a quote leaves every other quote alone, and either finds the
\* document as its copy has it or marks the quote as raced.
LEMMA SaveQuoteFacts ==
    ASSUME TypeOK, NEW c \in Call, NEW q \in Quote, NEW status \in QuoteStatus,
           NEW total \in Nat, NEW pushes \in BOOLEAN, SaveQuote(c, q, status, total, pushes)
    PROVE  /\ quote' \in [Quote -> QuoteDoc]
           /\ raced' \subseteq Quote /\ raced \subseteq raced'
           /\ \A p \in Quote : p # q => quote'[p] = quote[p]
           /\ quote'[q].status \in {status, quote[q].status}
           /\ q \in raced' \/ (quote'[q].status = status /\ quote'[q].total = total)
<1> DEFINE d == [status |-> Sent(status, call[c].quote.status, quote[q].status),
                 total |-> Sent(total, call[c].quote.total, quote[q].total),
                 version |-> quote[q].version
                              + (IF total # call[c].quote.total \/ pushes THEN 1 ELSE 0)]
<1>1. quote' = [quote EXCEPT ![q] = d]
    BY DEF SaveQuote
<1>2. quote[q] \in QuoteDoc
    BY DEF TypeOK
<1>3. d \in QuoteDoc
    BY <1>2 DEF QuoteDoc, Sent
<1>4. quote'[q] = d /\ \A p \in Quote : p # q => quote'[p] = quote[p]
    BY <1>1 DEF TypeOK
<1>5. raced' = IF quote[q] = call[c].quote THEN raced ELSE raced \cup {q}
    BY DEF SaveQuote
<1>6. d.status \in {status, quote[q].status}
    BY DEF Sent
<1>7. quote[q] = call[c].quote => d.status = status /\ d.total = total
    BY DEF Sent
<1>8. quote' \in [Quote -> QuoteDoc]
    BY <1>1, <1>3 DEF TypeOK
<1>9. raced' \subseteq Quote /\ raced \subseteq raced'
    BY <1>5 DEF TypeOK
<1> HIDE DEF d
<1> QED BY <1>4, <1>5, <1>6, <1>7, <1>8, <1>9

LEMMA DeclineOthersFacts ==
    ASSUME TypeOK, NEW keep \in SUBSET Quote, DeclineOthers(keep)
    PROVE  /\ quote' \in [Quote -> QuoteDoc]
           /\ \A p \in Quote : \/ quote'[p] = quote[p]
                               \/ p \notin keep /\ quote'[p].status = "declined"
<1>1. \A p \in Quote : quote[p] \in QuoteDoc
    BY DEF TypeOK
<1>2. \A p \in Quote : [quote[p] EXCEPT !.status = "declined"] \in QuoteDoc
    BY <1>1 DEF QuoteDoc, QuoteStatus
<1> QED BY <1>1, <1>2 DEF DeclineOthers, QuoteDoc

LEMMA RequestLoadType ==
    ASSUME TypeOK, NEW c \in Call, RequestLoad(c)
    PROVE  TypeOK'
<1>1. PICK pc \in CallPC : call' = [call EXCEPT ![c].pc = pc, ![c].design = design.status]
    BY DEF RequestLoad, CallPC
<1>2. call \in [Call -> CallState] /\ design.status \in DesignStatus
    BY DEF TypeOK
<1>3. call' \in [Call -> CallState]
    BY <1>1, <1>2, FieldTypes
<1> QED BY <1>3 DEF RequestLoad, TypeOK, quoteVars, designVars, orderVars, moneyVars

LEMMA RequestExistingType ==
    ASSUME TypeOK, NEW c \in Call, RequestExisting(c)
    PROVE  TypeOK'
<1> DEFINE new == {q \in Asked[c] : \A p \in Existing : VendorOf[p] # VendorOf[q]}
<1>1. new \in SUBSET Quote BY ConstantTypes
<1>2. PICK pc \in CallPC : call' = [call EXCEPT ![c].pc = pc, ![c].new = new]
    BY DEF RequestExisting, CallPC
<1> HIDE DEF new
<1>3. call \in [Call -> CallState]
    BY DEF TypeOK
<1>4. call' \in [Call -> CallState]
    BY <1>1, <1>2, <1>3, FieldTypes
<1> QED BY <1>4 DEF RequestExisting, TypeOK, quoteVars, designVars, orderVars, moneyVars

LEMMA RequestCreateType ==
    ASSUME TypeOK, NEW c \in Call, NEW q \in Quote, RequestCreate(c, q)
    PROVE  TypeOK'
<1>1. PICK pc \in CallPC : call' = [call EXCEPT ![c].pc = pc, ![c].new = call[c].new \ {q}]
    BY DEF RequestCreate, CallPC
<1>2. call \in [Call -> CallState] /\ call[c].new \ {q} \subseteq Quote
    BY CallParts DEF TypeOK
<1>3. call' \in [Call -> CallState]
    BY <1>1, <1>2, FieldTypes
<1>4. quote' \in [Quote -> QuoteDoc]
    BY DEF RequestCreate, TypeOK, NewQuote, QuoteDoc, QuoteStatus
<1> QED BY <1>3, <1>4 DEF RequestCreate, TypeOK, quoteVars, designVars, orderVars, moneyVars

LEMMA RequestSaveType ==
    ASSUME TypeOK, NEW c \in Call, RequestSave(c)
    PROVE  TypeOK'
<1>1. PICK pc \in CallPC : Goes(c, pc) BY DEF RequestSave, CallPC
<1>2. call' \in [Call -> CallState] BY <1>1, GoesType
<1>3. design' \in [status: DesignStatus, accepted: SUBSET Quote]
    BY CallParts, ConstantTypes DEF RequestSave, TypeOK, DesignStatus, Sent
<1> QED BY <1>2, <1>3 DEF RequestSave, TypeOK, quoteVars, designVars, orderVars, moneyVars

LEMMA CancelLoadType ==
    ASSUME TypeOK, NEW c \in Call, CancelLoad(c)
    PROVE  TypeOK'
<1>1. PICK pc \in CallPC : call' = [call EXCEPT ![c].pc = pc, ![c].design = design.status]
    BY DEF CancelLoad, CallPC
<1>2. call \in [Call -> CallState] /\ design.status \in DesignStatus
    BY DEF TypeOK
<1>3. call' \in [Call -> CallState]
    BY <1>1, <1>2, FieldTypes
<1> QED BY <1>3 DEF CancelLoad, TypeOK, quoteVars, designVars, orderVars, moneyVars

LEMMA CancelDeclineType ==
    ASSUME TypeOK, NEW c \in Call, CancelDecline(c)
    PROVE  TypeOK'
<1>1. PICK pc \in CallPC : Goes(c, pc) BY DEF CancelDecline, CallPC
<1>2. call' \in [Call -> CallState] BY <1>1, GoesType
<1>3. quote' \in [Quote -> QuoteDoc]
    BY DeclineOthersFacts DEF CancelDecline
<1> QED BY <1>2, <1>3 DEF CancelDecline, TypeOK, quoteVars, designVars, orderVars, moneyVars

LEMMA CancelSaveType ==
    ASSUME TypeOK, NEW c \in Call, CancelSave(c)
    PROVE  TypeOK'
<1>1. PICK pc \in CallPC : Goes(c, pc) BY DEF CancelSave, CallPC
<1>2. call' \in [Call -> CallState] BY <1>1, GoesType
<1>3. design' \in [status: DesignStatus, accepted: SUBSET Quote]
    BY CallParts, ConstantTypes DEF CancelSave, TypeOK, DesignStatus, Sent
<1> QED BY <1>2, <1>3 DEF CancelSave, TypeOK, quoteVars, designVars, orderVars, moneyVars

LEMMA EditLoadType ==
    ASSUME TypeOK, NEW c \in Call, EditLoad(c)
    PROVE  TypeOK'
<1>1. quote[Of[c]] \in QuoteDoc BY ConstantTypes DEF TypeOK
<1>2. PICK pc \in CallPC : call' = [call EXCEPT ![c].pc = pc, ![c].quote = quote[Of[c]]]
    BY DEF EditLoad, CallPC
<1>3. call \in [Call -> CallState] /\ design.status \in DesignStatus
    BY DEF TypeOK
<1>4. call' \in [Call -> CallState]
    BY <1>2, <1>3, FieldTypes, <1>1
<1> QED BY <1>4 DEF EditLoad, TypeOK, quoteVars, designVars, orderVars, moneyVars

LEMMA DraftSaveType ==
    ASSUME TypeOK, NEW c \in Call, DraftSave(c)
    PROVE  TypeOK'
<1>1. PICK pc \in CallPC : Goes(c, pc) BY DEF DraftSave, CallPC
<1>2. call' \in [Call -> CallState] BY <1>1, GoesType
<1>3. quote' \in [Quote -> QuoteDoc] /\ raced' \subseteq Quote
    <2>1. Of[c] \in Quote /\ Bid[c] \in Nat BY ConstantTypes, CallParts
    <2>2. CASE SaveQuote(c, Of[c], "draft", Bid[c], FALSE)
        BY <2>1, <2>2, SaveQuoteFacts DEF QuoteStatus
    <2>3. CASE UNCHANGED <<quote, raced>>
        BY <2>3 DEF TypeOK
    <2> QED BY <2>2, <2>3 DEF DraftSave
<1> QED BY <1>2, <1>3 DEF DraftSave, TypeOK, quoteVars, designVars, orderVars, moneyVars

LEMMA SubmitSaveType ==
    ASSUME TypeOK, NEW c \in Call, SubmitSave(c)
    PROVE  TypeOK'
<1>1. PICK pc \in CallPC : Goes(c, pc) BY DEF SubmitSave, CallPC
<1>2. call' \in [Call -> CallState] BY <1>1, GoesType
<1>3. quote' \in [Quote -> QuoteDoc] /\ raced' \subseteq Quote
    <2>1. Of[c] \in Quote /\ Bid[c] \in Nat BY ConstantTypes, CallParts
    <2>2. CASE SaveQuote(c, Of[c], "submitted", Bid[c], call[c].quote.status = "revision_requested")
        BY <2>1, <2>2, SaveQuoteFacts DEF QuoteStatus
    <2>3. CASE UNCHANGED <<quote, raced>>
        BY <2>3 DEF TypeOK
    <2> QED BY <2>2, <2>3 DEF SubmitSave
<1>4. submitted' \in [Quote -> SUBSET Price]
    BY ConstantTypes DEF SubmitSave, TypeOK
<1> QED BY <1>2, <1>3, <1>4 DEF SubmitSave, TypeOK, quoteVars, designVars, orderVars, moneyVars

LEMMA SubmitQuotedType ==
    ASSUME TypeOK, NEW c \in Call, SubmitQuoted(c)
    PROVE  TypeOK'
<1>1. PICK pc \in CallPC : Goes(c, pc) BY DEF SubmitQuoted, CallPC
<1>2. call' \in [Call -> CallState] BY <1>1, GoesType
<1>3. design' \in [status: DesignStatus, accepted: SUBSET Quote]
    BY CallParts, ConstantTypes DEF SubmitQuoted, TypeOK, DesignStatus, Sent
<1> QED BY <1>2, <1>3 DEF SubmitQuoted, TypeOK, quoteVars, designVars, orderVars, moneyVars

LEMMA ReviseSaveType ==
    ASSUME TypeOK, NEW c \in Call, ReviseSave(c)
    PROVE  TypeOK'
<1>1. PICK pc \in CallPC : Goes(c, pc) BY DEF ReviseSave, CallPC
<1>2. call' \in [Call -> CallState] BY <1>1, GoesType
<1>3. quote' \in [Quote -> QuoteDoc] /\ raced' \subseteq Quote
    <2>1. Of[c] \in Quote /\ call[c].quote.total \in Nat BY ConstantTypes, CallParts
    <2>2. CASE SaveQuote(c, Of[c], "revision_requested", call[c].quote.total, TRUE)
        BY <2>1, <2>2, SaveQuoteFacts DEF QuoteStatus
    <2> QED BY <2>2 DEF ReviseSave
<1> QED BY <1>2, <1>3 DEF ReviseSave, TypeOK, quoteVars, designVars, orderVars, moneyVars

LEMMA ExpireSaveType ==
    ASSUME TypeOK, NEW c \in Call, ExpireSave(c)
    PROVE  TypeOK'
<1>1. PICK pc \in CallPC : Goes(c, pc) BY DEF ExpireSave, CallPC
<1>2. call' \in [Call -> CallState] BY <1>1, GoesType
<1>3. quote' \in [Quote -> QuoteDoc] /\ raced' \subseteq Quote
    <2>1. Of[c] \in Quote /\ call[c].quote.total \in Nat BY ConstantTypes, CallParts
    <2>2. CASE SaveQuote(c, Of[c], "expired", call[c].quote.total, FALSE)
        BY <2>1, <2>2, SaveQuoteFacts DEF QuoteStatus
    <2> QED BY <2>2 DEF ExpireSave
<1> QED BY <1>2, <1>3 DEF ExpireSave, TypeOK, quoteVars, designVars, orderVars, moneyVars

LEMMA ElapseType == ASSUME TypeOK, NEW q \in Quote, Elapse(q) PROVE TypeOK'
BY DEF Elapse, TypeOK, Existing, designVars, orderVars, moneyVars

LEMMA ExpireQuotesType == ASSUME TypeOK, ExpireQuotes PROVE TypeOK'
<1>1. \A p \in Quote : quote[p] \in QuoteDoc /\ [quote[p] EXCEPT !.status = "expired"] \in QuoteDoc
    BY DEF TypeOK, QuoteDoc, QuoteStatus
<1>2. quote' \in [Quote -> QuoteDoc]
    BY <1>1 DEF ExpireQuotes
<1> QED BY <1>2 DEF ExpireQuotes, TypeOK, designVars, orderVars, moneyVars

LEMMA AcceptLoadType ==
    ASSUME TypeOK, NEW c \in Call, AcceptLoad(c)
    PROVE  TypeOK'
<1>1. quote[Of[c]] \in QuoteDoc BY ConstantTypes DEF TypeOK
<1>2. PICK pc \in CallPC : call' = [call EXCEPT ![c].pc = pc, ![c].quote = quote[Of[c]]]
    BY DEF AcceptLoad, CallPC
<1>3. call \in [Call -> CallState] /\ design.status \in DesignStatus
    BY DEF TypeOK
<1>4. call' \in [Call -> CallState]
    BY <1>2, <1>3, FieldTypes, <1>1
<1> QED BY <1>4 DEF AcceptLoad, TypeOK, quoteVars, designVars, orderVars, moneyVars

LEMMA AcceptOrderType ==
    ASSUME TypeOK, NEW c \in Call, AcceptOrder(c)
    PROVE  TypeOK'
<1>1. /\ call \in [Call -> CallState] /\ design.status \in DesignStatus
      /\ "place" \in CallPC /\ "pay" \in CallPC
    BY DEF TypeOK, CallPC
<1>2. CASE call' = [call EXCEPT ![c].pc = "place", ![c].design = design.status]
    <2>1. call' \in [Call -> CallState]
        BY <1>2, <1>1, FieldTypes
    <2> QED BY <2>1 DEF AcceptOrder, TypeOK, quoteVars, designVars, orderVars, moneyVars
<1>3. CASE \E d \in PendingOrders(Of[c]) :
              call' = [call EXCEPT ![c].pc = "pay", ![c].design = design.status, ![c].on = d]
    <2>1. PICK d \in Call :
              call' = [call EXCEPT ![c].pc = "pay", ![c].design = design.status, ![c].on = d]
        BY <1>3 DEF PendingOrders
    <2>2. call' \in [Call -> CallState]
        BY <1>1, <2>1, FieldTypes
    <2> QED BY <2>2 DEF AcceptOrder, TypeOK, quoteVars, designVars, orderVars, moneyVars
<1> QED BY <1>2, <1>3 DEF AcceptOrder, TypeOK, quoteVars, designVars, orderVars, moneyVars

LEMMA AcceptPlaceType ==
    ASSUME TypeOK, NEW c \in Call, AcceptPlace(c)
    PROVE  TypeOK'
<1>1. PICK pc \in CallPC : Goes(c, pc) BY DEF AcceptPlace, CallPC
<1>2. call' \in [Call -> CallState] BY <1>1, GoesType
<1>3. order \in [Call -> OrderDoc] /\ call[c].on \in Call /\ call[c].quote.total \in Nat
    BY CallParts DEF TypeOK
<1>4. order' \in [Call -> OrderDoc]
    BY <1>3 DEF AcceptPlace, OrderDoc
<1> QED BY <1>2, <1>4 DEF AcceptPlace, TypeOK, quoteVars, designVars, orderVars, moneyVars

LEMMA AcceptChargeType ==
    ASSUME TypeOK, NEW c \in Call, AcceptCharge(c)
    PROVE  TypeOK'
<1>1. PICK pc \in CallPC : Goes(c, pc) BY DEF AcceptCharge, CallPC
<1>2. call' \in [Call -> CallState] BY <1>1, GoesType
<1>3. charge' \in [Call -> [state: {"none", "open", "paid"}, order: Call]]
    BY CallParts DEF AcceptCharge, TypeOK
<1> QED BY <1>2, <1>3 DEF AcceptCharge, TypeOK, quoteVars, designVars, orderVars, moneyVars

LEMMA AcceptBalanceType ==
    ASSUME TypeOK, NEW c \in Call, AcceptBalance(c)
    PROVE  TypeOK'
<1>1. PICK pc \in CallPC : Goes(c, pc) BY DEF AcceptBalance, CallPC
<1>2. call' \in [Call -> CallState] BY <1>1, GoesType
<1> QED BY <1>2 DEF AcceptBalance, TypeOK, quoteVars, designVars, orderVars, moneyVars

LEMMA AcceptDebitType ==
    ASSUME TypeOK, NEW c \in Call, AcceptDebit(c)
    PROVE  TypeOK'
<1>1. PICK pc \in CallPC : Goes(c, pc) BY DEF AcceptDebit, CallPC
<1>2. call' \in [Call -> CallState] BY <1>1, GoesType
<1>3. order[call[c].on].total \in Nat BY CallParts DEF TypeOK, OrderDoc
<1> QED BY <1>2, <1>3, ConstantTypes DEF AcceptDebit, TypeOK, quoteVars, designVars, orderVars, moneyVars

LEMMA AcceptFailsType ==
    ASSUME TypeOK, NEW c \in Call, AcceptFails(c)
    PROVE  TypeOK'
<1>1. PICK pc \in CallPC : Goes(c, pc) BY DEF AcceptFails, CallPC
<1>2. call' \in [Call -> CallState] BY <1>1, GoesType
<1> QED BY <1>2 DEF AcceptFails, TypeOK, quoteVars, designVars, orderVars, moneyVars

LEMMA AcceptRefundType ==
    ASSUME TypeOK, NEW c \in Call, AcceptRefund(c)
    PROVE  TypeOK'
<1>1. PICK pc \in CallPC : Goes(c, pc) BY DEF AcceptRefund, CallPC
<1>2. call' \in [Call -> CallState] BY <1>1, GoesType
<1>3. order[call[c].on].total \in Nat BY CallParts DEF TypeOK, OrderDoc
<1> QED BY <1>2, <1>3 DEF AcceptRefund, TypeOK, quoteVars, designVars, orderVars, moneyVars

LEMMA ChargeType == ASSUME TypeOK, NEW c \in Call, Charge(c) PROVE TypeOK'
<1>1. charge[c].order \in Call /\ Of[charge[c].order] \in Quote
    BY ConstantTypes DEF TypeOK
<1> QED BY <1>1 DEF Charge, TypeOK, quoteVars, designVars, orderVars

LEMMA FinaliseLoadType ==
    ASSUME TypeOK, NEW c \in Call, NEW d \in Call, FinaliseLoad(c, d)
    PROVE  TypeOK'
<1> DEFINE o == charge[d].order
<1>1. o \in Call /\ order[o].paid \in BOOLEAN BY DEF TypeOK, OrderDoc
<1>2. PICK pc \in CallPC : call' = [call EXCEPT ![c].pc = pc, ![c].on = o, ![c].already = order[o].paid]
    BY DEF FinaliseLoad, CallPC
<1> HIDE DEF o
<1>3. call \in [Call -> CallState]
    BY DEF TypeOK
<1>4. call' \in [Call -> CallState]
    BY <1>1, <1>2, <1>3, FieldTypes
<1> QED BY <1>4 DEF FinaliseLoad, TypeOK, quoteVars, designVars, orderVars, moneyVars

LEMMA FinaliseQuoteType ==
    ASSUME TypeOK, NEW c \in Call, FinaliseQuote(c)
    PROVE  TypeOK'
<1> DEFINE q == Of[call[c].on]
<1>1. quote[q] \in QuoteDoc BY CallParts, ConstantTypes DEF TypeOK
<1>2. PICK pc \in CallPC : call' = [call EXCEPT ![c].pc = pc, ![c].quote = quote[q]]
    BY DEF FinaliseQuote, CallPC
<1> HIDE DEF q
<1>3. call \in [Call -> CallState]
    BY DEF TypeOK
<1>4. call' \in [Call -> CallState]
    BY <1>1, <1>2, <1>3, FieldTypes
<1> QED BY <1>4 DEF FinaliseQuote, TypeOK, quoteVars, designVars, orderVars, moneyVars

LEMMA FinaliseSwallowType ==
    ASSUME TypeOK, NEW c \in Call, FinaliseSwallow(c)
    PROVE  TypeOK'
<1>1. PICK pc \in CallPC : Goes(c, pc) BY DEF FinaliseSwallow, CallPC
<1>2. call' \in [Call -> CallState] BY <1>1, GoesType
<1> QED BY <1>2 DEF FinaliseSwallow, TypeOK, quoteVars, designVars, orderVars, moneyVars

LEMMA AcceptType ==
    ASSUME TypeOK, NEW c \in Call, Accept(c)
    PROVE  TypeOK'
<1>1. PICK pc \in CallPC : Goes(c, pc) BY DEF Accept, CallPC
<1>2. call' \in [Call -> CallState] BY <1>1, GoesType
<1>3. quote' \in [Quote -> QuoteDoc] /\ raced' \subseteq Quote
    <2>1. Of[call[c].on] \in Quote /\ call[c].quote.total \in Nat BY ConstantTypes, CallParts
    <2>2. CASE SaveQuote(c, Of[call[c].on], "accepted", call[c].quote.total, FALSE)
        BY <2>1, <2>2, SaveQuoteFacts DEF QuoteStatus
    <2> QED BY <2>2 DEF Accept
<1> QED BY <1>2, <1>3 DEF Accept, TypeOK, quoteVars, designVars, orderVars, moneyVars

LEMMA DeclineType ==
    ASSUME TypeOK, NEW c \in Call, Decline(c)
    PROVE  TypeOK'
<1>1. PICK pc \in CallPC : Goes(c, pc) BY DEF Decline, CallPC
<1>2. call' \in [Call -> CallState] BY <1>1, GoesType
<1>3. {Of[call[c].on]} \in SUBSET Quote BY CallParts, ConstantTypes
<1>4. quote' \in [Quote -> QuoteDoc]
    BY DeclineOthersFacts, <1>3 DEF Decline
<1> QED BY <1>2, <1>4 DEF Decline, TypeOK, quoteVars, designVars, orderVars, moneyVars

LEMMA PointType ==
    ASSUME TypeOK, NEW c \in Call, Point(c)
    PROVE  TypeOK'
<1>1. PICK pc \in CallPC : Goes(c, pc) BY DEF Point, CallPC
<1>2. call' \in [Call -> CallState] BY <1>1, GoesType
<1>3. Of[call[c].on] \in Quote BY CallParts, ConstantTypes
<1>4. design' \in [status: DesignStatus, accepted: SUBSET Quote]
    BY <1>3, CallParts, ConstantTypes DEF Point, TypeOK, DesignStatus, Sent
<1> QED BY <1>2, <1>4 DEF Point, TypeOK, quoteVars, designVars, orderVars, moneyVars

LEMMA ProduceType ==
    ASSUME TypeOK, NEW c \in Call, Produce(c)
    PROVE  TypeOK'
<1>1. PICK pc \in CallPC : Goes(c, pc) BY DEF Produce, CallPC
<1>2. call' \in [Call -> CallState] BY <1>1, GoesType
<1>3. Of[call[c].on] \in Quote BY CallParts, ConstantTypes
<1>4. design' \in [status: DesignStatus, accepted: SUBSET Quote]
    BY <1>3, CallParts, ConstantTypes DEF Produce, TypeOK, DesignStatus, Sent
<1> QED BY <1>2, <1>4 DEF Produce, TypeOK, quoteVars, designVars, orderVars, moneyVars

LEMMA MarkType ==
    ASSUME TypeOK, NEW c \in Call, Mark(c)
    PROVE  TypeOK'
<1>1. PICK pc \in CallPC : Goes(c, pc) BY DEF Mark, CallPC
<1>2. call' \in [Call -> CallState] BY <1>1, GoesType
<1>3. order \in [Call -> OrderDoc] /\ call[c].on \in Call /\ call[c].quote.total \in Nat
    BY CallParts DEF TypeOK
<1>4. order' \in [Call -> OrderDoc]
    BY <1>3 DEF Mark, OrderDoc
<1> QED BY <1>2, <1>4 DEF Mark, TypeOK, quoteVars, designVars, orderVars, moneyVars

LEMMA ClaimType ==
    ASSUME TypeOK, NEW c \in Call, Claim(c)
    PROVE  TypeOK'
<1>1. PICK pc \in CallPC : Goes(c, pc) BY DEF Claim, CallPC, Follows
<1>2. call' \in [Call -> CallState] BY <1>1, GoesType
<1>3. order \in [Call -> OrderDoc] /\ call[c].on \in Call /\ call[c].quote.total \in Nat
    BY CallParts DEF TypeOK
<1>4. order' \in [Call -> OrderDoc]
    <2>1. order' = order \/ order' = [order EXCEPT ![call[c].on].recorded = TRUE]
        BY DEF Claim, orderVars
    <2> QED BY <1>3, <2>1 DEF OrderDoc
<1>5. lateClaim' \subseteq Call BY CallParts DEF Claim, TypeOK, orderVars
<1> QED BY <1>2, <1>4, <1>5 DEF Claim, TypeOK, quoteVars, designVars, orderVars, moneyVars

LEMMA RecordType ==
    ASSUME TypeOK, NEW c \in Call, Record(c)
    PROVE  TypeOK'
<1>1. PICK pc \in CallPC : Goes(c, pc) BY DEF Record, CallPC, Follows
<1>2. call' \in [Call -> CallState] BY <1>1, GoesType
<1>3. order \in [Call -> OrderDoc] /\ call[c].on \in Call /\ call[c].quote.total \in Nat
    BY CallParts DEF TypeOK
<1>4. order' \in [Call -> OrderDoc]
    BY <1>3 DEF Record, OrderDoc
<1> QED BY <1>2, <1>4 DEF Record, TypeOK, quoteVars, designVars, orderVars, moneyVars

LEMMA ScheduleType ==
    ASSUME TypeOK, NEW c \in Call, Schedule(c)
    PROVE  TypeOK'
<1>1. PICK pc \in CallPC : Goes(c, pc) BY DEF Schedule, CallPC
<1>2. call' \in [Call -> CallState] BY <1>1, GoesType
<1>3. order \in [Call -> OrderDoc] /\ call[c].on \in Call /\ call[c].quote.total \in Nat
    BY CallParts DEF TypeOK
<1>4. order' \in [Call -> OrderDoc]
    BY <1>3 DEF Schedule, OrderDoc
<1> QED BY <1>2, <1>4 DEF Schedule, TypeOK, quoteVars, designVars, orderVars, moneyVars

LEMMA CrashType ==
    ASSUME TypeOK, NEW c \in Call, Crash(c)
    PROVE  TypeOK'
<1>1. PICK pc \in CallPC : Goes(c, pc) BY DEF Crash, CallPC
<1>2. call' \in [Call -> CallState] BY <1>1, GoesType
<1> QED BY <1>2 DEF Crash, TypeOK, quoteVars, designVars, orderVars, moneyVars

LEMMA NextType == ASSUME TypeOK, Next PROVE TypeOK'
<1>1. \A c \in Call : Begin(c) => TypeOK'
    BY RequestLoadType, CancelLoadType, EditLoadType, AcceptLoadType, FinaliseLoadType DEF Begin
<1>2. \A c \in Call : RequestStep(c) => TypeOK'
    BY CallParts, RequestExistingType, RequestSaveType, RequestCreateType DEF RequestStep
<1>3. \A c \in Call : EditStep(c) => TypeOK'
    BY CancelDeclineType, CancelSaveType, DraftSaveType, SubmitSaveType, SubmitQuotedType, ReviseSaveType, ExpireSaveType DEF EditStep
<1>4. \A c \in Call : AcceptStep(c) => TypeOK'
    BY AcceptOrderType, AcceptPlaceType, AcceptChargeType, AcceptBalanceType, AcceptDebitType, AcceptRefundType DEF AcceptStep
<1>5. \A c \in Call : FinaliseStep(c) => TypeOK'
    BY FinaliseQuoteType, AcceptType, DeclineType, PointType, ProduceType, MarkType, ClaimType, RecordType, ScheduleType DEF FinaliseStep
<1>6. \A c \in Call : Charge(c) \/ AcceptFails(c) \/ FinaliseSwallow(c) \/ Crash(c) => TypeOK'
    BY ChargeType, AcceptFailsType, FinaliseSwallowType, CrashType
<1>7. \A q \in Quote : Elapse(q) => TypeOK'
    BY ElapseType
<1>8. ExpireQuotes => TypeOK'
    BY ExpireQuotesType
<1> QED BY <1>1, <1>2, <1>3, <1>4, <1>5, <1>6, <1>7, <1>8 DEF Next, Working

\* Quotes, orders, charges and every call keep the types the definitions give
\* them, whatever requests and payments interleave.
THEOREM TypeCorrect == Spec => []TypeOK
<1>1. TypeOK /\ [Next]_vars => TypeOK'
    <2>1. CASE Next BY <2>1, NextType
    <2>2. CASE UNCHANGED vars
        BY <2>2 DEF vars, quoteVars, designVars, orderVars, moneyVars, TypeOK
    <2> QED BY <2>1, <2>2
<1> QED BY InitType, <1>1, PTL DEF Spec

-----------------------------------------------------------------------------
(* What payments and submissions stand behind.                              *)

LEMMA GoesFrame ==
    ASSUME TypeOK, NEW c \in Call, NEW pc, Goes(c, pc)
    PROVE  /\ \A d \in Call : d # c => call'[d] = call[d]
           /\ call'[c].pc = pc /\ call'[c].on = call[c].on /\ call'[c].quote = call[c].quote
BY DEF TypeOK, CallState, Goes

\* Where a call acts for an order that was paid.
PaidPC == {"quote", "accept", "decline", "point", "mark", "claim", "record", "schedule", "produce"}

\* Where it acts for an order.
OrderPC == PaidPC \cup {"pay", "debit"}

\* A payment stands behind whatever follows it: the steps of a finalisation, a
\* successful transaction, an accepted quote and the others' refusal.
PaidInv ==
    /\ \A c \in Call :
         /\ Kind[c] \in Finalising /\ call[c].pc \in PaidPC => Of[call[c].on] \in paidFor
         /\ Kind[c] \in Paying => Of[call[c].on] = Of[c]
         /\ charge[c].state = "paid" => Of[charge[c].order] \in paidFor
    /\ AcceptedIsPaid
    /\ DeclinedForReason

\* A submission stands behind whatever follows it: a submitted quote, the copy
\* an acceptance works on, an order.
PriceInv ==
    /\ \A q \in Quote :
         quote[q].status = "submitted" => q \in raced \/ quote[q].total \in submitted[q]
    /\ \A c \in Call :
         Kind[c] \in Paying /\ call[c].pc \in {"order", "place"} =>
           Of[c] \in raced \/ call[c].quote.total \in submitted[Of[c]]
    /\ \A c \in Call :
         /\ Kind[c] \in Finalising \cup Paying /\ call[c].pc \in OrderPC =>
              order[call[c].on].status # "none"
         /\ Kind[c] \in Paying /\ call[c].pc \in {"ready", "order", "place"} => call[c].on = c
         /\ charge[c].state # "none" => order[charge[c].order].status # "none"
    /\ PriceWasSubmitted

Inv == TypeOK /\ PaidInv /\ PriceInv

\* What no step takes back.
Kept ==
    /\ paidFor \subseteq paidFor' /\ (withdrawn => withdrawn')
    /\ raced \subseteq raced'
    /\ \A q \in Quote : submitted[q] \subseteq submitted'[q]

\* What a step may do to the calls ...
CallsKept ==
    \A c \in Call :
      \/ call'[c] = call[c]
      \/ /\ Kind[c] \in Finalising /\ call'[c].pc \in PaidPC => Of[call'[c].on] \in paidFor'
         /\ Kind[c] \in Paying => Of[call'[c].on] = Of[c]
         /\ Kind[c] \in Paying /\ call'[c].pc \in {"order", "place"} =>
              Of[c] \in raced' \/ call'[c].quote.total \in submitted'[Of[c]]
         /\ Kind[c] \in Finalising \cup Paying /\ call'[c].pc \in OrderPC =>
              order'[call'[c].on].status # "none"
         /\ Kind[c] \in Paying /\ call'[c].pc \in {"ready", "order", "place"} => call'[c].on = c

\* ... to a quote ...
QuoteKept(q) ==
    \/ quote'[q] = quote[q]
    \/ /\ quote'[q].status = "accepted" =>
            q \in paidFor' \/ quote[q].status = "accepted"
       /\ quote'[q].status = "declined" =>
            withdrawn' \/ (\E p \in paidFor' : p # q) \/ quote[q].status = "declined"
       /\ quote'[q].status = "submitted" => q \in raced' \/ quote'[q].total \in submitted'[q]

\* ... and to the orders and their charges.
OrdersKept ==
    \A c \in Call :
      /\ \/ charge'[c] = charge[c]
         \/ /\ charge'[c].state = "paid" => Of[charge'[c].order] \in paidFor'
            /\ order'[charge'[c].order].status # "none"
      /\ order[c].status # "none" => order'[c].status # "none"
      /\ \/ order'[c].status # "none" =>
              order[c].status # "none" /\ order'[c].total = order[c].total
         \/ Of[c] \in raced' \/ order'[c].total \in submitted'[Of[c]]

QuotesKept == \A q \in Quote : QuoteKept(q)

LEMMA KeptPaid ==
    ASSUME Inv, Kept, CallsKept, QuotesKept, OrdersKept
    PROVE  PaidInv'
<1>1. ASSUME NEW c \in Call
      PROVE  /\ Kind[c] \in Finalising /\ call'[c].pc \in PaidPC => Of[call'[c].on] \in paidFor'
             /\ Kind[c] \in Paying => Of[call'[c].on] = Of[c]
    BY DEF Inv, PaidInv, Kept, CallsKept
<1>2. ASSUME NEW c \in Call
      PROVE  charge'[c].state = "paid" => Of[charge'[c].order] \in paidFor'
    BY DEF Inv, PaidInv, Kept, OrdersKept
<1>3. ASSUME NEW q \in Quote, quote'[q].status = "accepted" PROVE q \in paidFor'
    BY <1>3 DEF Inv, PaidInv, AcceptedIsPaid, Kept, QuotesKept, QuoteKept
<1>4. ASSUME NEW q \in Quote, quote'[q].status = "declined"
      PROVE  withdrawn' \/ \E p \in paidFor' : p # q
    <2>1. CASE quote[q].status = "declined"
        <3>1. withdrawn \/ \E p \in paidFor : p # q
            BY <2>1 DEF Inv, PaidInv, DeclinedForReason
        <3> QED BY <3>1 DEF Kept
    <2>2. CASE quote[q].status # "declined"
        BY <1>4, <2>2 DEF QuotesKept, QuoteKept
    <2> QED BY <2>1, <2>2
<1>5. AcceptedIsPaid'
    BY <1>3 DEF AcceptedIsPaid
<1>6. DeclinedForReason'
    BY <1>4 DEF DeclinedForReason
<1> QED BY <1>1, <1>2, <1>5, <1>6 DEF PaidInv

LEMMA KeptPrice ==
    ASSUME Inv, Kept, CallsKept, QuotesKept, OrdersKept
    PROVE  PriceInv'
<1>1. \A c \in Call : Of[c] \in Quote
    BY ConstantTypes
<1>2. ASSUME NEW q \in Quote, quote'[q].status = "submitted"
      PROVE  q \in raced' \/ quote'[q].total \in submitted'[q]
    <2>1. CASE quote'[q] = quote[q]
        BY <1>2, <2>1 DEF Inv, PriceInv, Kept
    <2> QED BY <1>2, <2>1 DEF QuotesKept, QuoteKept
<1>3. ASSUME NEW c \in Call, Kind[c] \in Paying, call'[c].pc \in {"order", "place"}
      PROVE  Of[c] \in raced' \/ call'[c].quote.total \in submitted'[Of[c]]
    <2>1. CASE call'[c] = call[c]
        BY <1>1, <1>3, <2>1 DEF Inv, PriceInv, Kept
    <2> QED BY <1>3, <2>1 DEF CallsKept
<1>4. ASSUME NEW c \in Call, order'[c].status # "none"
      PROVE  Of[c] \in raced' \/ order'[c].total \in submitted'[Of[c]]
    <2>1. CASE order[c].status # "none" /\ order'[c].total = order[c].total
        BY <1>1, <2>1 DEF Inv, PriceInv, PriceWasSubmitted, Kept
    <2> QED BY <1>4, <2>1 DEF OrdersKept
<1>5. PriceWasSubmitted'
    BY <1>4 DEF PriceWasSubmitted
<1>6. \A c \in Call : call[c].on \in Call /\ charge[c].order \in Call
    BY CallParts DEF Inv, TypeOK
<1>7. ASSUME NEW c \in Call, Kind[c] \in Finalising \cup Paying, call'[c].pc \in OrderPC
      PROVE  order'[call'[c].on].status # "none"
    <2>1. CASE call'[c] = call[c]
        BY <1>6, <1>7, <2>1 DEF Inv, PriceInv, OrdersKept
    <2> QED BY <1>7, <2>1 DEF CallsKept
<1>8. ASSUME NEW c \in Call, charge'[c].state # "none"
      PROVE  order'[charge'[c].order].status # "none"
    <2>1. CASE charge'[c] = charge[c]
        BY <1>6, <1>8, <2>1 DEF Inv, PriceInv, OrdersKept
    <2> QED BY <1>8, <2>1 DEF OrdersKept
<1>9. ASSUME NEW c \in Call, Kind[c] \in Paying, call'[c].pc \in {"ready", "order", "place"}
      PROVE  call'[c].on = c
    BY <1>9 DEF Inv, PriceInv, CallsKept
<1> QED BY <1>2, <1>3, <1>5, <1>7, <1>8, <1>9 DEF PriceInv

LEMMA RequestLoadKeeps ==
    ASSUME Inv, NEW c \in Call, RequestLoad(c)
    PROVE  Kept /\ CallsKept /\ QuotesKept /\ OrdersKept
<1>1. Kept
    BY DEF RequestLoad, Kept, quoteVars, designVars, orderVars, moneyVars
<1>2. OrdersKept
    BY DEF RequestLoad, OrdersKept, quoteVars, designVars, orderVars, moneyVars
<1>3. CallsKept
    <2>1. Kind[c] \notin Finalising \cup Paying
        BY DEF RequestLoad, At, Paying, Finalising
    <2> QED BY <2>1 DEF RequestLoad, Goes, CallsKept, Inv, PaidInv, PriceInv, TypeOK, CallState
<1>4. QuotesKept
    BY DEF RequestLoad, QuotesKept, QuoteKept, quoteVars, designVars, orderVars, moneyVars
<1> QED BY <1>1, <1>2, <1>4, <1>3

LEMMA RequestExistingKeeps ==
    ASSUME Inv, NEW c \in Call, RequestExisting(c)
    PROVE  Kept /\ CallsKept /\ QuotesKept /\ OrdersKept
<1>1. Kept
    BY DEF RequestExisting, Kept, quoteVars, designVars, orderVars, moneyVars
<1>2. OrdersKept
    BY DEF RequestExisting, OrdersKept, quoteVars, designVars, orderVars, moneyVars
<1>3. CallsKept
    <2>1. Kind[c] \notin Finalising \cup Paying
        BY DEF RequestExisting, At, Paying, Finalising
    <2> QED BY <2>1 DEF RequestExisting, Goes, CallsKept, Inv, PaidInv, PriceInv, TypeOK, CallState
<1>4. QuotesKept
    BY DEF RequestExisting, QuotesKept, QuoteKept, quoteVars, designVars, orderVars, moneyVars
<1> QED BY <1>1, <1>2, <1>4, <1>3

LEMMA RequestCreateKeeps ==
    ASSUME Inv, NEW c \in Call, NEW q \in Quote, RequestCreate(c, q)
    PROVE  Kept /\ CallsKept /\ QuotesKept /\ OrdersKept
<1>1. Kept
    BY DEF RequestCreate, Kept, designVars, orderVars, moneyVars
<1>2. OrdersKept
    BY DEF RequestCreate, OrdersKept, quoteVars, designVars, orderVars, moneyVars
<1>3. CallsKept
    <2>1. Kind[c] \notin Finalising \cup Paying
        BY DEF RequestCreate, At, Paying, Finalising
    <2> QED BY <2>1 DEF RequestCreate, Goes, CallsKept, Inv, PaidInv, PriceInv, TypeOK, CallState
<1>4. QuotesKept
    BY DEF RequestCreate, NewQuote, Inv, TypeOK, QuotesKept, QuoteKept
<1> QED BY <1>1, <1>2, <1>4, <1>3

LEMMA RequestSaveKeeps ==
    ASSUME Inv, NEW c \in Call, RequestSave(c)
    PROVE  Kept /\ CallsKept /\ QuotesKept /\ OrdersKept
<1>1. Kept
    BY DEF RequestSave, Kept, quoteVars, designVars, orderVars, moneyVars
<1>2. OrdersKept
    BY DEF RequestSave, OrdersKept, quoteVars, designVars, orderVars, moneyVars
<1>3. CallsKept
    <2>1. Kind[c] \notin Finalising \cup Paying
        BY DEF RequestSave, At, Paying, Finalising
    <2> QED BY <2>1 DEF RequestSave, Goes, CallsKept, Inv, PaidInv, PriceInv, TypeOK, CallState
<1>4. QuotesKept
    BY DEF RequestSave, QuotesKept, QuoteKept, quoteVars, designVars, orderVars, moneyVars
<1> QED BY <1>1, <1>2, <1>4, <1>3

LEMMA CancelLoadKeeps ==
    ASSUME Inv, NEW c \in Call, CancelLoad(c)
    PROVE  Kept /\ CallsKept /\ QuotesKept /\ OrdersKept
<1>1. Kept
    BY DEF CancelLoad, Kept, quoteVars, designVars, orderVars, moneyVars
<1>2. OrdersKept
    BY DEF CancelLoad, OrdersKept, quoteVars, designVars, orderVars, moneyVars
<1>3. CallsKept
    <2>1. Kind[c] \notin Finalising \cup Paying
        BY DEF CancelLoad, At, Paying, Finalising
    <2> QED BY <2>1 DEF CancelLoad, Goes, CallsKept, Inv, PaidInv, PriceInv, TypeOK, CallState
<1>4. QuotesKept
    BY DEF CancelLoad, QuotesKept, QuoteKept, quoteVars, designVars, orderVars, moneyVars
<1> QED BY <1>1, <1>2, <1>4, <1>3

LEMMA CancelDeclineKeeps ==
    ASSUME Inv, NEW c \in Call, CancelDecline(c)
    PROVE  Kept /\ CallsKept /\ QuotesKept /\ OrdersKept
<1>1. Kept
    BY DEF CancelDecline, Kept, quoteVars, designVars, orderVars, moneyVars
<1>2. OrdersKept
    BY DEF CancelDecline, OrdersKept, quoteVars, designVars, orderVars, moneyVars
<1>3. CallsKept
    <2>1. Kind[c] \notin Finalising \cup Paying
        BY DEF CancelDecline, At, Paying, Finalising
    <2> QED BY <2>1 DEF CancelDecline, Goes, CallsKept, Inv, PaidInv, PriceInv, TypeOK, CallState
<1>4. QuotesKept
    BY DeclineOthersFacts DEF CancelDecline, Inv, QuotesKept, QuoteKept
<1> QED BY <1>1, <1>2, <1>4, <1>3

LEMMA CancelSaveKeeps ==
    ASSUME Inv, NEW c \in Call, CancelSave(c)
    PROVE  Kept /\ CallsKept /\ QuotesKept /\ OrdersKept
<1>1. Kept
    BY DEF CancelSave, Kept, quoteVars, designVars, orderVars, moneyVars
<1>2. OrdersKept
    BY DEF CancelSave, OrdersKept, quoteVars, designVars, orderVars, moneyVars
<1>3. CallsKept
    <2>1. Kind[c] \notin Finalising \cup Paying
        BY DEF CancelSave, At, Paying, Finalising
    <2> QED BY <2>1 DEF CancelSave, Goes, CallsKept, Inv, PaidInv, PriceInv, TypeOK, CallState
<1>4. QuotesKept
    BY DEF CancelSave, QuotesKept, QuoteKept, quoteVars, designVars, orderVars, moneyVars
<1> QED BY <1>1, <1>2, <1>4, <1>3

LEMMA EditLoadKeeps ==
    ASSUME Inv, NEW c \in Call, EditLoad(c)
    PROVE  Kept /\ CallsKept /\ QuotesKept /\ OrdersKept
<1>1. Kept
    BY DEF EditLoad, Kept, quoteVars, designVars, orderVars, moneyVars
<1>2. OrdersKept
    BY DEF EditLoad, OrdersKept, quoteVars, designVars, orderVars, moneyVars
<1>3. CallsKept
    <2>1. Kind[c] \notin Finalising \cup Paying
        BY DEF EditLoad, At, Paying, Finalising
    <2> QED BY <2>1 DEF EditLoad, Goes, CallsKept, Inv, PaidInv, PriceInv, TypeOK, CallState
<1>4. QuotesKept
    BY DEF EditLoad, QuotesKept, QuoteKept, quoteVars, designVars, orderVars, moneyVars
<1> QED BY <1>1, <1>2, <1>4, <1>3

LEMMA DraftSaveKeeps ==
    ASSUME Inv, NEW c \in Call, DraftSave(c)
    PROVE  Kept /\ CallsKept /\ QuotesKept /\ OrdersKept
<1>1. Kept
    <2>1. Of[c] \in Quote /\ Bid[c] \in Nat
        BY ConstantTypes, CallParts DEF Inv
    <2>2. CASE SaveQuote(c, Of[c], "draft", Bid[c], FALSE)
        <3>1. raced \subseteq raced'
            BY <2>1, <2>2, SaveQuoteFacts DEF Inv, QuoteStatus
        <3> QED BY <3>1 DEF DraftSave, Kept, designVars, moneyVars
    <2>3. CASE UNCHANGED raced
        BY <2>3 DEF DraftSave, Kept, designVars, moneyVars
    <2> QED BY <2>2, <2>3 DEF DraftSave
<1>2. OrdersKept
    BY DEF DraftSave, OrdersKept, orderVars, moneyVars
<1>3. CallsKept
    <2>1. Kind[c] \notin Finalising \cup Paying
        BY DEF DraftSave, At, Paying, Finalising
    <2> QED BY <2>1 DEF DraftSave, Goes, CallsKept, Inv, PaidInv, PriceInv, TypeOK, CallState
<1>4. QuotesKept
    <2>1. Of[c] \in Quote /\ Bid[c] \in Nat
        BY ConstantTypes, CallParts DEF Inv
    <2>2. CASE SaveQuote(c, Of[c], "draft", Bid[c], FALSE)
        <3>1. /\ \A p \in Quote : p # Of[c] => quote'[p] = quote[p]
              /\ quote'[Of[c]].status \in {"draft", quote[Of[c]].status}
              /\ Of[c] \in raced' \/ quote'[Of[c]].status = "draft"
            BY <2>1, <2>2, SaveQuoteFacts DEF Inv, QuoteStatus
        <3> QED BY <3>1 DEF QuotesKept, QuoteKept
    <2>3. CASE UNCHANGED quote
        BY <2>3 DEF QuotesKept, QuoteKept
    <2> QED BY <2>2, <2>3 DEF DraftSave
<1> QED BY <1>1, <1>2, <1>4, <1>3

LEMMA SubmitSaveKeeps ==
    ASSUME Inv, NEW c \in Call, SubmitSave(c)
    PROVE  Kept /\ CallsKept /\ QuotesKept /\ OrdersKept
<1>1. /\ Of[c] \in Quote /\ Bid[c] \in Nat /\ Bid[c] \in Price
      /\ \A q \in Quote : submitted[q] \subseteq Price
    BY ConstantTypes DEF Inv, TypeOK
<1> DEFINE S == SaveQuote(c, Of[c], "submitted", Bid[c], call[c].quote.status = "revision_requested")
<1>2. ASSUME S, submitted' = [submitted EXCEPT ![Of[c]] = submitted[Of[c]] \cup {Bid[c]}]
      PROVE  Kept /\ QuotesKept
    <2>1. /\ raced \subseteq raced'
          /\ \A p \in Quote : p # Of[c] => quote'[p] = quote[p]
          /\ Of[c] \in raced' \/ (quote'[Of[c]].status = "submitted" /\ quote'[Of[c]].total = Bid[c])
          /\ quote'[Of[c]].status \in {"submitted", quote[Of[c]].status}
        BY <1>1, <1>2, SaveQuoteFacts DEF Inv, QuoteStatus
    <2>2. Bid[c] \in submitted'[Of[c]] /\ \A q \in Quote : submitted[q] \subseteq submitted'[q]
        BY <1>1, <1>2 DEF Inv, TypeOK
    <2>3. Kept
        BY <2>1, <2>2 DEF SubmitSave, Kept, designVars, moneyVars
    <2>4. QuotesKept
        BY <2>1, <2>2 DEF QuotesKept, QuoteKept
    <2> QED BY <2>3, <2>4
<1>3. ASSUME UNCHANGED <<quote, raced, submitted>>
      PROVE  Kept /\ QuotesKept
    <2>1. Kept
        BY <1>3 DEF SubmitSave, Kept, designVars, moneyVars
    <2>2. QuotesKept
        BY <1>3 DEF QuotesKept, QuoteKept
    <2> QED BY <2>1, <2>2
<1>4. Kept /\ QuotesKept
    BY <1>2, <1>3 DEF SubmitSave
<1>5. Kept
    BY <1>4
<1>6. OrdersKept
    BY DEF SubmitSave, OrdersKept, orderVars, moneyVars
<1>7. CallsKept
    <2>1. Kind[c] \notin Finalising \cup Paying
        BY DEF SubmitSave, At, Paying, Finalising
    <2> QED BY <2>1 DEF SubmitSave, Goes, CallsKept, Inv, PaidInv, PriceInv, TypeOK, CallState
<1>8. QuotesKept
    BY <1>4
<1> QED BY <1>5, <1>6, <1>8, <1>7

LEMMA SubmitQuotedKeeps ==
    ASSUME Inv, NEW c \in Call, SubmitQuoted(c)
    PROVE  Kept /\ CallsKept /\ QuotesKept /\ OrdersKept
<1>1. Kept
    BY DEF SubmitQuoted, Kept, quoteVars, designVars, orderVars, moneyVars
<1>2. OrdersKept
    BY DEF SubmitQuoted, OrdersKept, quoteVars, designVars, orderVars, moneyVars
<1>3. CallsKept
    <2>1. Kind[c] \notin Finalising \cup Paying
        BY DEF SubmitQuoted, At, Paying, Finalising
    <2> QED BY <2>1 DEF SubmitQuoted, Goes, CallsKept, Inv, PaidInv, PriceInv, TypeOK, CallState
<1>4. QuotesKept
    BY DEF SubmitQuoted, QuotesKept, QuoteKept, quoteVars, designVars, orderVars, moneyVars
<1> QED BY <1>1, <1>2, <1>4, <1>3

LEMMA ReviseSaveKeeps ==
    ASSUME Inv, NEW c \in Call, ReviseSave(c)
    PROVE  Kept /\ CallsKept /\ QuotesKept /\ OrdersKept
<1>1. Kept
    <2>1. Of[c] \in Quote /\ call[c].quote.total \in Nat
        BY ConstantTypes, CallParts DEF Inv
    <2>2. CASE SaveQuote(c, Of[c], "revision_requested", call[c].quote.total, TRUE)
        <3>1. raced \subseteq raced'
            BY <2>1, <2>2, SaveQuoteFacts DEF Inv, QuoteStatus
        <3> QED BY <3>1 DEF ReviseSave, Kept, designVars, moneyVars
    <2> QED BY <2>2 DEF ReviseSave
<1>2. OrdersKept
    BY DEF ReviseSave, OrdersKept, orderVars, moneyVars
<1>3. CallsKept
    <2>1. Kind[c] \notin Finalising \cup Paying
        BY DEF ReviseSave, At, Paying, Finalising
    <2> QED BY <2>1 DEF ReviseSave, Goes, CallsKept, Inv, PaidInv, PriceInv, TypeOK, CallState
<1>4. QuotesKept
    <2>1. Of[c] \in Quote /\ call[c].quote.total \in Nat
        BY ConstantTypes, CallParts DEF Inv
    <2>2. CASE SaveQuote(c, Of[c], "revision_requested", call[c].quote.total, TRUE)
        <3>1. /\ \A p \in Quote : p # Of[c] => quote'[p] = quote[p]
              /\ quote'[Of[c]].status \in {"revision_requested", quote[Of[c]].status}
              /\ Of[c] \in raced' \/ quote'[Of[c]].status = "revision_requested"
            BY <2>1, <2>2, SaveQuoteFacts DEF Inv, QuoteStatus
        <3> QED BY <3>1 DEF QuotesKept, QuoteKept
    <2> QED BY <2>2 DEF ReviseSave
<1> QED BY <1>1, <1>2, <1>4, <1>3

LEMMA ExpireSaveKeeps ==
    ASSUME Inv, NEW c \in Call, ExpireSave(c)
    PROVE  Kept /\ CallsKept /\ QuotesKept /\ OrdersKept
<1>1. Kept
    <2>1. Of[c] \in Quote /\ call[c].quote.total \in Nat
        BY ConstantTypes, CallParts DEF Inv
    <2>2. CASE SaveQuote(c, Of[c], "expired", call[c].quote.total, FALSE)
        <3>1. raced \subseteq raced'
            BY <2>1, <2>2, SaveQuoteFacts DEF Inv, QuoteStatus
        <3> QED BY <3>1 DEF ExpireSave, Kept, designVars, moneyVars
    <2> QED BY <2>2 DEF ExpireSave
<1>2. OrdersKept
    BY DEF ExpireSave, OrdersKept, orderVars, moneyVars
<1>3. \A d \in Call : call[d].on \in Call
    BY CallParts DEF Inv
<1>4. CallsKept
    <2>1. PICK pc : /\ Goes(c, pc) /\ pc \notin {"ready", "order", "place"}
                    /\ Kind[c] \in Finalising /\ pc \in PaidPC => Of[call[c].on] \in paidFor'
        BY DEF ExpireSave, Inv, PaidInv, PriceInv, PaidPC, At, Paying, Finalising
    <2>2. Kind[c] \in Finalising \cup Paying /\ call'[c].pc \in OrderPC =>
            order'[call[c].on].status # "none"
        BY <2>1, GoesFrame, <1>3, <1>2
        DEF ExpireSave, Inv, PaidInv, PriceInv, OrderPC, PaidPC, OrdersKept, At, Paying, Finalising
    <2>3. /\ \A d \in Call : d # c => call'[d] = call[d]
          /\ call'[c].pc = pc /\ call'[c].on = call[c].on
        BY <2>1, GoesFrame DEF Inv
    <2>4. Kind[c] \in Paying => Of[call[c].on] = Of[c]
        BY DEF Inv, PaidInv
    <2> QED BY <2>1, <2>2, <2>3, <2>4 DEF CallsKept
<1>5. QuotesKept
    <2>1. Of[c] \in Quote /\ call[c].quote.total \in Nat
        BY ConstantTypes, CallParts DEF Inv
    <2>2. CASE SaveQuote(c, Of[c], "expired", call[c].quote.total, FALSE)
        <3>1. /\ \A p \in Quote : p # Of[c] => quote'[p] = quote[p]
              /\ quote'[Of[c]].status \in {"expired", quote[Of[c]].status}
              /\ Of[c] \in raced' \/ quote'[Of[c]].status = "expired"
            BY <2>1, <2>2, SaveQuoteFacts DEF Inv, QuoteStatus
        <3> QED BY <3>1 DEF QuotesKept, QuoteKept
    <2> QED BY <2>2 DEF ExpireSave
<1> QED BY <1>1, <1>2, <1>5, <1>4

LEMMA ElapseKeeps ==
    ASSUME Inv, NEW q \in Quote, Elapse(q)
    PROVE  Kept /\ CallsKept /\ QuotesKept /\ OrdersKept
<1>1. Kept
    BY DEF Elapse, Kept, designVars, orderVars, moneyVars
<1>2. OrdersKept
    BY DEF Elapse, OrdersKept, designVars, orderVars, moneyVars
<1>3. CallsKept
    BY DEF Elapse, CallsKept
<1>4. QuotesKept
    BY DEF Elapse, QuotesKept, QuoteKept
<1> QED BY <1>1, <1>2, <1>4, <1>3

LEMMA ExpireQuotesKeeps ==
    ASSUME Inv, ExpireQuotes
    PROVE  Kept /\ CallsKept /\ QuotesKept /\ OrdersKept
<1>1. Kept
    BY DEF ExpireQuotes, Kept, designVars, orderVars, moneyVars
<1>2. OrdersKept
    BY DEF ExpireQuotes, OrdersKept, designVars, orderVars, moneyVars
<1>3. CallsKept
    BY DEF ExpireQuotes, CallsKept
<1>4. QuotesKept
    BY DEF ExpireQuotes, Inv, TypeOK, QuoteDoc, QuotesKept, QuoteKept
<1> QED BY <1>1, <1>2, <1>4, <1>3

LEMMA AcceptLoadKeeps ==
    ASSUME Inv, NEW c \in Call, AcceptLoad(c)
    PROVE  Kept /\ CallsKept /\ QuotesKept /\ OrdersKept
<1>1. Kept
    BY DEF AcceptLoad, Kept, quoteVars, designVars, orderVars, moneyVars
<1>2. OrdersKept
    BY DEF AcceptLoad, OrdersKept, quoteVars, designVars, orderVars, moneyVars
<1>3. CallsKept
    <2>1. Of[c] \in Quote
        BY ConstantTypes
    <2>2. PICK pc \in CallPC :
                    /\ call' = [call EXCEPT ![c].pc = pc, ![c].quote = quote[Of[c]]]
                    /\ pc \notin OrderPC
                    /\ pc \in {"order", "place"} => quote[Of[c]].status = "submitted"
                    /\ Kind[c] \in Paying /\ call[c].pc = "ready"
        BY DEF AcceptLoad, Acceptable, PaidPC, OrderPC, At, CallPC
    <2>3. /\ call'[c].pc = pc /\ call'[c].quote = quote[Of[c]] /\ call'[c].on = call[c].on
          /\ \A d \in Call : d # c => call'[d] = call[d]
        BY <2>2 DEF Inv, TypeOK, CallState
    <2>4. raced' = raced /\ submitted' = submitted
        BY DEF AcceptLoad, quoteVars
    <2> QED BY <2>1, <2>2, <2>3, <2>4 DEF Inv, PaidInv, PriceInv, CallsKept, OrderPC
<1>4. QuotesKept
    BY DEF AcceptLoad, QuotesKept, QuoteKept, quoteVars, designVars, orderVars, moneyVars
<1> QED BY <1>1, <1>2, <1>4, <1>3

LEMMA AcceptOrderKeeps ==
    ASSUME Inv, NEW c \in Call, AcceptOrder(c)
    PROVE  Kept /\ CallsKept /\ QuotesKept /\ OrdersKept
<1>1. Kept
    BY DEF AcceptOrder, Kept, quoteVars, designVars, orderVars, moneyVars
<1>2. OrdersKept
    BY DEF AcceptOrder, OrdersKept, quoteVars, designVars, orderVars, moneyVars
<1>3. CallsKept
    <2>1. PICK d \in Call, pc \in CallPC :
                                /\ call' = [call EXCEPT ![c].pc = pc, ![c].design = design.status, ![c].on = d]
                                /\ Of[d] = Of[c] /\ pc \in {"place", "pay"}
                                /\ pc = "place" => d = c
                                /\ pc = "pay" => order[d].status # "none"
        <3>1. CASE call' = [call EXCEPT ![c].pc = "place", ![c].design = design.status]
            <4>1. call[c].on = c
                BY DEF AcceptOrder, At, Inv, PaidInv, PriceInv
            <4>2. call' = [call EXCEPT ![c].pc = "place", ![c].design = design.status, ![c].on = call[c].on]
                BY <3>1, CallParts DEF Inv, TypeOK, CallState
            <4> QED BY <4>1, <4>2 DEF CallPC
        <3>2. CASE \E d \in PendingOrders(Of[c]) :
                     call' = [call EXCEPT ![c].pc = "pay", ![c].design = design.status, ![c].on = d]
            BY <3>2 DEF PendingOrders, CallPC
        <3> QED BY <3>1, <3>2 DEF AcceptOrder
    <2>2. /\ call'[c].pc = pc /\ call'[c].quote = call[c].quote /\ call'[c].on = d
          /\ \A e \in Call : e # c => call'[e] = call[e]
        BY <2>1 DEF Inv, TypeOK, CallState
    <2>3. Kind[c] \in Paying /\ call[c].pc = "order" /\ pc \notin PaidPC
        BY <2>1 DEF AcceptOrder, At, PaidPC
    <2>4. raced' = raced /\ submitted' = submitted /\ order' = order
        BY DEF AcceptOrder, quoteVars, orderVars
    <2> QED BY <2>1, <2>2, <2>3, <2>4 DEF Inv, PaidInv, PriceInv, CallsKept, OrderPC
<1>4. QuotesKept
    BY DEF AcceptOrder, QuotesKept, QuoteKept, quoteVars, designVars, orderVars, moneyVars
<1> QED BY <1>1, <1>2, <1>4, <1>3

LEMMA AcceptPlaceKeeps ==
    ASSUME Inv, NEW c \in Call, AcceptPlace(c)
    PROVE  Kept /\ CallsKept /\ QuotesKept /\ OrdersKept
<1>1. Kept
    BY DEF AcceptPlace, Kept, quoteVars, designVars, orderVars, moneyVars
<1>2. OrdersKept
    <2>1. Of[c] \in raced \/ call[c].quote.total \in submitted[Of[c]]
        BY DEF AcceptPlace, At, Inv, PaidInv, PriceInv
    <2>2. /\ \A d \in Call : d # c => order'[d] = order[d]
          /\ order'[c].total = call[c].quote.total /\ order'[c].status = "pending"
        BY DEF AcceptPlace, Inv, TypeOK, OrderDoc
    <2> QED BY <2>1, <2>2 DEF AcceptPlace, OrdersKept, quoteVars, moneyVars
<1>3. CallsKept
    <2>1. PICK pc : /\ Goes(c, pc) /\ pc \notin {"ready", "order", "place"}
                    /\ Kind[c] \in Finalising /\ pc \in PaidPC => Of[call[c].on] \in paidFor'
        BY DEF AcceptPlace, Inv, PaidInv, PriceInv, PaidPC, At, Paying, Finalising
    <2>2. Kind[c] \in Finalising \cup Paying /\ call'[c].pc \in OrderPC =>
            order'[call[c].on].status # "none"
        <3>1. call[c].on = c
            BY DEF AcceptPlace, At, Inv, PriceInv
        <3>2. order'[c].status = "pending"
            BY DEF AcceptPlace, Inv, TypeOK, OrderDoc
        <3> QED BY <3>1, <3>2
    <2>3. /\ \A d \in Call : d # c => call'[d] = call[d]
          /\ call'[c].pc = pc /\ call'[c].on = call[c].on
        BY <2>1, GoesFrame DEF Inv
    <2>4. Kind[c] \in Paying => Of[call[c].on] = Of[c]
        BY DEF Inv, PaidInv
    <2> QED BY <2>1, <2>2, <2>3, <2>4 DEF CallsKept
<1>4. QuotesKept
    BY DEF AcceptPlace, QuotesKept, QuoteKept, quoteVars, designVars, orderVars, moneyVars
<1> QED BY <1>1, <1>2, <1>4, <1>3

LEMMA AcceptChargeKeeps ==
    ASSUME Inv, NEW c \in Call, AcceptCharge(c)
    PROVE  Kept /\ CallsKept /\ QuotesKept /\ OrdersKept
<1>1. Kept
    BY DEF AcceptCharge, Kept, quoteVars, designVars, orderVars, moneyVars
<1>2. OrdersKept
    BY DEF AcceptCharge, Inv, PriceInv, OrderPC, At, Paying, TypeOK, OrdersKept, orderVars
<1>3. \A d \in Call : call[d].on \in Call
    BY CallParts DEF Inv
<1>4. CallsKept
    <2>1. PICK pc : /\ Goes(c, pc) /\ pc \notin {"ready", "order", "place"}
                    /\ Kind[c] \in Finalising /\ pc \in PaidPC => Of[call[c].on] \in paidFor'
        BY DEF AcceptCharge, Inv, PaidInv, PriceInv, PaidPC, At, Paying, Finalising
    <2>2. Kind[c] \in Finalising \cup Paying /\ call'[c].pc \in OrderPC =>
            order'[call[c].on].status # "none"
        BY <2>1, GoesFrame, <1>3, <1>2
        DEF AcceptCharge, Inv, PaidInv, PriceInv, OrderPC, PaidPC, OrdersKept, At, Paying, Finalising
    <2>3. /\ \A d \in Call : d # c => call'[d] = call[d]
          /\ call'[c].pc = pc /\ call'[c].on = call[c].on
        BY <2>1, GoesFrame DEF Inv
    <2>4. Kind[c] \in Paying => Of[call[c].on] = Of[c]
        BY DEF Inv, PaidInv
    <2> QED BY <2>1, <2>2, <2>3, <2>4 DEF CallsKept
<1>5. QuotesKept
    BY DEF AcceptCharge, QuotesKept, QuoteKept, quoteVars, designVars, orderVars, moneyVars
<1> QED BY <1>1, <1>2, <1>5, <1>4

LEMMA AcceptBalanceKeeps ==
    ASSUME Inv, NEW c \in Call, AcceptBalance(c)
    PROVE  Kept /\ CallsKept /\ QuotesKept /\ OrdersKept
<1>1. Kept
    BY DEF AcceptBalance, Kept, quoteVars, designVars, orderVars, moneyVars
<1>2. OrdersKept
    BY DEF AcceptBalance, OrdersKept, quoteVars, designVars, orderVars, moneyVars
<1>3. \A d \in Call : call[d].on \in Call
    BY CallParts DEF Inv
<1>4. CallsKept
    <2>1. PICK pc : /\ Goes(c, pc) /\ pc \notin {"ready", "order", "place"}
                    /\ Kind[c] \in Finalising /\ pc \in PaidPC => Of[call[c].on] \in paidFor'
        BY DEF AcceptBalance, Inv, PaidInv, PriceInv, PaidPC, At, Paying, Finalising
    <2>2. Kind[c] \in Finalising \cup Paying /\ call'[c].pc \in OrderPC =>
            order'[call[c].on].status # "none"
        BY <2>1, GoesFrame, <1>3, <1>2
        DEF AcceptBalance, Inv, PaidInv, PriceInv, OrderPC, PaidPC, OrdersKept, At, Paying, Finalising
    <2>3. /\ \A d \in Call : d # c => call'[d] = call[d]
          /\ call'[c].pc = pc /\ call'[c].on = call[c].on
        BY <2>1, GoesFrame DEF Inv
    <2>4. Kind[c] \in Paying => Of[call[c].on] = Of[c]
        BY DEF Inv, PaidInv
    <2> QED BY <2>1, <2>2, <2>3, <2>4 DEF CallsKept
<1>5. QuotesKept
    BY DEF AcceptBalance, QuotesKept, QuoteKept, quoteVars, designVars, orderVars, moneyVars
<1> QED BY <1>1, <1>2, <1>5, <1>4

LEMMA AcceptDebitKeeps ==
    ASSUME Inv, NEW c \in Call, AcceptDebit(c)
    PROVE  Kept /\ CallsKept /\ QuotesKept /\ OrdersKept
<1>1. Kept
    BY DEF AcceptDebit, Kept, quoteVars, designVars, orderVars, moneyVars
<1>2. OrdersKept
    BY DEF AcceptDebit, OrdersKept, quoteVars, designVars, orderVars, moneyVars
<1>3. CallsKept
    <2>1. Kind[c] \in Paying /\ Of[call[c].on] = Of[c]
        BY DEF AcceptDebit, At, Inv, PaidInv, PriceInv, Paying
    <2>2. PICK pc : /\ Goes(c, pc) /\ pc \in {"accept", "error"}
                    /\ pc = "accept" => Of[c] \in paidFor'
        BY DEF AcceptDebit
    <2>3. order'[call[c].on].status # "none"
        <3>1. Kind[c] \in Finalising \cup Paying /\ call[c].pc \in OrderPC
            BY DEF AcceptDebit, At, Finalising, OrderPC
        <3> QED BY <3>1 DEF AcceptDebit, Inv, PaidInv, PriceInv, orderVars
    <2> QED BY <2>1, <2>2, <2>3, GoesFrame DEF Inv, PaidInv, PriceInv, CallsKept, PaidPC
<1>4. QuotesKept
    BY DEF AcceptDebit, QuotesKept, QuoteKept, quoteVars, designVars, orderVars, moneyVars
<1> QED BY <1>1, <1>2, <1>4, <1>3

LEMMA AcceptFailsKeeps ==
    ASSUME Inv, NEW c \in Call, AcceptFails(c)
    PROVE  Kept /\ CallsKept /\ QuotesKept /\ OrdersKept
<1>1. Kept
    BY DEF AcceptFails, Kept, quoteVars, designVars, orderVars, moneyVars
<1>2. OrdersKept
    BY DEF AcceptFails, OrdersKept, quoteVars, designVars, orderVars, moneyVars
<1>3. \A d \in Call : call[d].on \in Call
    BY CallParts DEF Inv
<1>4. CallsKept
    <2>1. PICK pc : /\ Goes(c, pc) /\ pc \notin {"ready", "order", "place"}
                    /\ Kind[c] \in Finalising /\ pc \in PaidPC => Of[call[c].on] \in paidFor'
        BY DEF AcceptFails, Inv, PaidInv, PriceInv, PaidPC, At, Paying, Finalising
    <2>2. Kind[c] \in Finalising \cup Paying /\ call'[c].pc \in OrderPC =>
            order'[call[c].on].status # "none"
        BY <2>1, GoesFrame, <1>3, <1>2
        DEF AcceptFails, Inv, PaidInv, PriceInv, OrderPC, PaidPC, OrdersKept, At, Paying, Finalising
    <2>3. /\ \A d \in Call : d # c => call'[d] = call[d]
          /\ call'[c].pc = pc /\ call'[c].on = call[c].on
        BY <2>1, GoesFrame DEF Inv
    <2>4. Kind[c] \in Paying => Of[call[c].on] = Of[c]
        BY DEF Inv, PaidInv
    <2> QED BY <2>1, <2>2, <2>3, <2>4 DEF CallsKept
<1>5. QuotesKept
    BY DEF AcceptFails, QuotesKept, QuoteKept, quoteVars, designVars, orderVars, moneyVars
<1> QED BY <1>1, <1>2, <1>5, <1>4

LEMMA AcceptRefundKeeps ==
    ASSUME Inv, NEW c \in Call, AcceptRefund(c)
    PROVE  Kept /\ CallsKept /\ QuotesKept /\ OrdersKept
<1>1. Kept
    BY DEF AcceptRefund, Kept, quoteVars, designVars, orderVars, moneyVars
<1>2. OrdersKept
    BY DEF AcceptRefund, OrdersKept, quoteVars, designVars, orderVars, moneyVars
<1>3. \A d \in Call : call[d].on \in Call
    BY CallParts DEF Inv
<1>4. CallsKept
    <2>1. PICK pc : /\ Goes(c, pc) /\ pc \notin {"ready", "order", "place"}
                    /\ Kind[c] \in Finalising /\ pc \in PaidPC => Of[call[c].on] \in paidFor'
        BY DEF AcceptRefund, Inv, PaidInv, PriceInv, PaidPC, At, Paying, Finalising
    <2>2. Kind[c] \in Finalising \cup Paying /\ call'[c].pc \in OrderPC =>
            order'[call[c].on].status # "none"
        BY <2>1, GoesFrame, <1>3, <1>2
        DEF AcceptRefund, Inv, PaidInv, PriceInv, OrderPC, PaidPC, OrdersKept, At, Paying, Finalising
    <2>3. /\ \A d \in Call : d # c => call'[d] = call[d]
          /\ call'[c].pc = pc /\ call'[c].on = call[c].on
        BY <2>1, GoesFrame DEF Inv
    <2>4. Kind[c] \in Paying => Of[call[c].on] = Of[c]
        BY DEF Inv, PaidInv
    <2> QED BY <2>1, <2>2, <2>3, <2>4 DEF CallsKept
<1>5. QuotesKept
    BY DEF AcceptRefund, QuotesKept, QuoteKept, quoteVars, designVars, orderVars, moneyVars
<1> QED BY <1>1, <1>2, <1>5, <1>4

LEMMA ChargeKeeps ==
    ASSUME Inv, NEW c \in Call, Charge(c)
    PROVE  Kept /\ CallsKept /\ QuotesKept /\ OrdersKept
<1>1. Kept
    BY DEF Charge, Kept, quoteVars, designVars
<1>2. OrdersKept
    BY DEF Charge, Inv, PriceInv, TypeOK, OrdersKept, orderVars
<1>3. CallsKept
    BY DEF Charge, CallsKept
<1>4. QuotesKept
    BY DEF Charge, QuotesKept, QuoteKept, quoteVars, designVars, orderVars, moneyVars
<1> QED BY <1>1, <1>2, <1>4, <1>3

LEMMA FinaliseLoadKeeps ==
    ASSUME Inv, NEW c \in Call, NEW d \in Call, FinaliseLoad(c, d)
    PROVE  Kept /\ CallsKept /\ QuotesKept /\ OrdersKept
<1>1. Kept
    BY DEF FinaliseLoad, Kept, quoteVars, designVars, orderVars, moneyVars
<1>2. OrdersKept
    BY DEF FinaliseLoad, OrdersKept, quoteVars, designVars, orderVars, moneyVars
<1>3. CallsKept
    <2> DEFINE o == charge[d].order
    <2>1. PICK pc : call' = [call EXCEPT ![c].pc = pc, ![c].on = o, ![c].already = order[o].paid]
        BY DEF FinaliseLoad
    <2>2. Of[o] \in paidFor'
        BY DEF FinaliseLoad, Successful, Inv, PaidInv, PriceInv, moneyVars
    <2>3. Kind[c] = "finalise" /\ order'[o].status # "none"
        BY DEF FinaliseLoad, At, Successful, Inv, PaidInv, PriceInv, orderVars
    <2>4. call'[c].on = o /\ \A e \in Call : e # c => call'[e] = call[e]
        BY <2>1 DEF Inv, TypeOK, CallState
    <2> HIDE DEF o
    <2> QED BY <2>2, <2>3, <2>4 DEF CallsKept, Paying
<1>4. QuotesKept
    BY DEF FinaliseLoad, QuotesKept, QuoteKept, quoteVars, designVars, orderVars, moneyVars
<1> QED BY <1>1, <1>2, <1>4, <1>3

LEMMA FinaliseQuoteKeeps ==
    ASSUME Inv, NEW c \in Call, FinaliseQuote(c)
    PROVE  Kept /\ CallsKept /\ QuotesKept /\ OrdersKept
<1>1. Kept
    BY DEF FinaliseQuote, Kept, quoteVars, designVars, orderVars, moneyVars
<1>2. OrdersKept
    BY DEF FinaliseQuote, OrdersKept, quoteVars, designVars, orderVars, moneyVars
<1>3. CallsKept
    <2>1. PICK pc : call' = [call EXCEPT ![c].pc = pc, ![c].quote = quote[Of[call[c].on]]]
        BY DEF FinaliseQuote
    <2>2. /\ Kind[c] = "finalise" /\ Of[call[c].on] \in paidFor'
          /\ order'[call[c].on].status # "none"
        BY DEF FinaliseQuote, At, Inv, PaidInv, PriceInv, PaidPC, OrderPC, Finalising, moneyVars, orderVars
    <2>3. call'[c].on = call[c].on /\ \A e \in Call : e # c => call'[e] = call[e]
        BY <2>1 DEF Inv, TypeOK, CallState
    <2> QED BY <2>2, <2>3 DEF CallsKept, Paying
<1>4. QuotesKept
    BY DEF FinaliseQuote, QuotesKept, QuoteKept, quoteVars, designVars, orderVars, moneyVars
<1> QED BY <1>1, <1>2, <1>4, <1>3

LEMMA FinaliseSwallowKeeps ==
    ASSUME Inv, NEW c \in Call, FinaliseSwallow(c)
    PROVE  Kept /\ CallsKept /\ QuotesKept /\ OrdersKept
<1>1. Kept
    BY DEF FinaliseSwallow, Kept, quoteVars, designVars, orderVars, moneyVars
<1>2. OrdersKept
    BY DEF FinaliseSwallow, OrdersKept, quoteVars, designVars, orderVars, moneyVars
<1>3. \A d \in Call : call[d].on \in Call
    BY CallParts DEF Inv
<1>4. CallsKept
    <2>1. PICK pc : /\ Goes(c, pc) /\ pc \notin {"ready", "order", "place"}
                    /\ Kind[c] \in Finalising /\ pc \in PaidPC => Of[call[c].on] \in paidFor'
        BY DEF FinaliseSwallow, Inv, PaidInv, PriceInv, PaidPC, At, Paying, Finalising, moneyVars
    <2>2. Kind[c] \in Finalising \cup Paying /\ call'[c].pc \in OrderPC =>
            order'[call[c].on].status # "none"
        BY <2>1, GoesFrame, <1>3, <1>2
        DEF FinaliseSwallow, Inv, PaidInv, PriceInv, OrderPC, PaidPC, OrdersKept, At, Paying, Finalising, moneyVars
    <2>3. /\ \A d \in Call : d # c => call'[d] = call[d]
          /\ call'[c].pc = pc /\ call'[c].on = call[c].on
        BY <2>1, GoesFrame DEF Inv
    <2>4. Kind[c] \in Paying => Of[call[c].on] = Of[c]
        BY DEF Inv, PaidInv
    <2> QED BY <2>1, <2>2, <2>3, <2>4 DEF CallsKept
<1>5. QuotesKept
    BY DEF FinaliseSwallow, QuotesKept, QuoteKept, quoteVars, designVars, orderVars, moneyVars
<1> QED BY <1>1, <1>2, <1>5, <1>4

LEMMA AcceptKeeps ==
    ASSUME Inv, NEW c \in Call, Accept(c)
    PROVE  Kept /\ CallsKept /\ QuotesKept /\ OrdersKept
<1>1. Kept
    <2>1. Of[call[c].on] \in Quote /\ call[c].quote.total \in Nat
        BY ConstantTypes, CallParts DEF Inv
    <2>2. CASE SaveQuote(c, Of[call[c].on], "accepted", call[c].quote.total, FALSE)
        <3>1. raced \subseteq raced'
            BY <2>1, <2>2, SaveQuoteFacts DEF Inv, QuoteStatus
        <3> QED BY <3>1 DEF Accept, Kept, designVars, moneyVars
    <2> QED BY <2>2 DEF Accept
<1>2. OrdersKept
    BY DEF Accept, OrdersKept, orderVars, moneyVars
<1>3. \A d \in Call : call[d].on \in Call
    BY CallParts DEF Inv
<1>4. CallsKept
    <2>1. PICK pc : /\ Goes(c, pc) /\ pc \notin {"ready", "order", "place"}
                    /\ Kind[c] \in Finalising /\ pc \in PaidPC => Of[call[c].on] \in paidFor'
        BY DEF Accept, Inv, PaidInv, PriceInv, PaidPC, At, Paying, Finalising, moneyVars
    <2>2. Kind[c] \in Finalising \cup Paying /\ call'[c].pc \in OrderPC =>
            order'[call[c].on].status # "none"
        BY <2>1, GoesFrame, <1>3, <1>2
        DEF Accept, Inv, PaidInv, PriceInv, OrderPC, PaidPC, OrdersKept, At, Paying, Finalising, moneyVars
    <2>3. /\ \A d \in Call : d # c => call'[d] = call[d]
          /\ call'[c].pc = pc /\ call'[c].on = call[c].on
        BY <2>1, GoesFrame DEF Inv
    <2>4. Kind[c] \in Paying => Of[call[c].on] = Of[c]
        BY DEF Inv, PaidInv
    <2> QED BY <2>1, <2>2, <2>3, <2>4 DEF CallsKept
<1>5. QuotesKept
    <2>1. Of[call[c].on] \in Quote /\ call[c].quote.total \in Nat
        BY ConstantTypes, CallParts DEF Inv
    <2>2. CASE SaveQuote(c, Of[call[c].on], "accepted", call[c].quote.total, FALSE)
        <3>1. /\ \A p \in Quote : p # Of[call[c].on] => quote'[p] = quote[p]
              /\ quote'[Of[call[c].on]].status \in {"accepted", quote[Of[call[c].on]].status}
              /\ Of[call[c].on] \in raced' \/ quote'[Of[call[c].on]].status = "accepted"
            BY <2>1, <2>2, SaveQuoteFacts DEF Inv, QuoteStatus
        <3>2. Of[call[c].on] \in paidFor'
            BY DEF Accept, At, Inv, PaidInv, PaidPC, moneyVars
        <3> QED BY <3>1, <3>2 DEF QuotesKept, QuoteKept
    <2> QED BY <2>2 DEF Accept
<1> QED BY <1>1, <1>2, <1>5, <1>4

LEMMA DeclineKeeps ==
    ASSUME Inv, NEW c \in Call, Decline(c)
    PROVE  Kept /\ CallsKept /\ QuotesKept /\ OrdersKept
<1>1. Kept
    BY DEF Decline, Kept, quoteVars, designVars, orderVars, moneyVars
<1>2. OrdersKept
    BY DEF Decline, OrdersKept, quoteVars, designVars, orderVars, moneyVars
<1>3. \A d \in Call : call[d].on \in Call
    BY CallParts DEF Inv
<1>4. CallsKept
    <2>1. PICK pc : /\ Goes(c, pc) /\ pc \notin {"ready", "order", "place"}
                    /\ Kind[c] \in Finalising /\ pc \in PaidPC => Of[call[c].on] \in paidFor'
        BY DEF Decline, Inv, PaidInv, PriceInv, PaidPC, At, Paying, Finalising, moneyVars
    <2>2. Kind[c] \in Finalising \cup Paying /\ call'[c].pc \in OrderPC =>
            order'[call[c].on].status # "none"
        BY <2>1, GoesFrame, <1>3, <1>2
        DEF Decline, Inv, PaidInv, PriceInv, OrderPC, PaidPC, OrdersKept, At, Paying, Finalising, moneyVars
    <2>3. /\ \A d \in Call : d # c => call'[d] = call[d]
          /\ call'[c].pc = pc /\ call'[c].on = call[c].on
        BY <2>1, GoesFrame DEF Inv
    <2>4. Kind[c] \in Paying => Of[call[c].on] = Of[c]
        BY DEF Inv, PaidInv
    <2> QED BY <2>1, <2>2, <2>3, <2>4 DEF CallsKept
<1>5. QuotesKept
    <2>1. Of[call[c].on] \in paidFor' /\ {Of[call[c].on]} \in SUBSET Quote
        BY CallParts, ConstantTypes DEF Decline, At, Inv, PaidInv, PaidPC, moneyVars
    <2> QED BY <2>1, DeclineOthersFacts DEF Decline, Inv, QuotesKept, QuoteKept
<1> QED BY <1>1, <1>2, <1>5, <1>4

LEMMA PointKeeps ==
    ASSUME Inv, NEW c \in Call, Point(c)
    PROVE  Kept /\ CallsKept /\ QuotesKept /\ OrdersKept
<1>1. Kept
    BY DEF Point, Kept, quoteVars, designVars, orderVars, moneyVars
<1>2. OrdersKept
    BY DEF Point, OrdersKept, quoteVars, designVars, orderVars, moneyVars
<1>3. \A d \in Call : call[d].on \in Call
    BY CallParts DEF Inv
<1>4. CallsKept
    <2>1. PICK pc : /\ Goes(c, pc) /\ pc \notin {"ready", "order", "place"}
                    /\ Kind[c] \in Finalising /\ pc \in PaidPC => Of[call[c].on] \in paidFor'
        BY DEF Point, Inv, PaidInv, PriceInv, PaidPC, At, Paying, Finalising, moneyVars
    <2>2. Kind[c] \in Finalising \cup Paying /\ call'[c].pc \in OrderPC =>
            order'[call[c].on].status # "none"
        BY <2>1, GoesFrame, <1>3, <1>2
        DEF Point, Inv, PaidInv, PriceInv, OrderPC, PaidPC, OrdersKept, At, Paying, Finalising, moneyVars
    <2>3. /\ \A d \in Call : d # c => call'[d] = call[d]
          /\ call'[c].pc = pc /\ call'[c].on = call[c].on
        BY <2>1, GoesFrame DEF Inv
    <2>4. Kind[c] \in Paying => Of[call[c].on] = Of[c]
        BY DEF Inv, PaidInv
    <2> QED BY <2>1, <2>2, <2>3, <2>4 DEF CallsKept
<1>5. QuotesKept
    BY DEF Point, QuotesKept, QuoteKept, quoteVars, designVars, orderVars, moneyVars
<1> QED BY <1>1, <1>2, <1>5, <1>4

LEMMA ProduceKeeps ==
    ASSUME Inv, NEW c \in Call, Produce(c)
    PROVE  Kept /\ CallsKept /\ QuotesKept /\ OrdersKept
<1>1. Kept
    BY DEF Produce, Kept, quoteVars, designVars, orderVars, moneyVars
<1>2. OrdersKept
    BY DEF Produce, OrdersKept, quoteVars, designVars, orderVars, moneyVars
<1>3. \A d \in Call : call[d].on \in Call
    BY CallParts DEF Inv
<1>4. CallsKept
    <2>1. PICK pc : /\ Goes(c, pc) /\ pc \notin {"ready", "order", "place"}
                    /\ Kind[c] \in Finalising /\ pc \in PaidPC => Of[call[c].on] \in paidFor'
        BY DEF Produce, Inv, PaidInv, PriceInv, PaidPC, At, Paying, Finalising, moneyVars
    <2>2. Kind[c] \in Finalising \cup Paying /\ call'[c].pc \in OrderPC =>
            order'[call[c].on].status # "none"
        BY <2>1, GoesFrame, <1>3, <1>2
        DEF Produce, Inv, PaidInv, PriceInv, OrderPC, PaidPC, OrdersKept, At, Paying, Finalising, moneyVars
    <2>3. /\ \A d \in Call : d # c => call'[d] = call[d]
          /\ call'[c].pc = pc /\ call'[c].on = call[c].on
        BY <2>1, GoesFrame DEF Inv
    <2>4. Kind[c] \in Paying => Of[call[c].on] = Of[c]
        BY DEF Inv, PaidInv
    <2> QED BY <2>1, <2>2, <2>3, <2>4 DEF CallsKept
<1>5. QuotesKept
    BY DEF Produce, QuotesKept, QuoteKept, quoteVars, designVars, orderVars, moneyVars
<1> QED BY <1>1, <1>2, <1>5, <1>4

LEMMA MarkKeeps ==
    ASSUME Inv, NEW c \in Call, Mark(c)
    PROVE  Kept /\ CallsKept /\ QuotesKept /\ OrdersKept
<1>1. Kept
    BY DEF Mark, Kept, quoteVars, designVars, orderVars, moneyVars
<1>2. OrdersKept
    <2>1. \A d \in Call : order'[d].total = order[d].total /\ (order[d].status = "none" <=> order'[d].status = "none")
        BY CallParts DEF Mark, Inv, PaidInv, PriceInv, OrderPC, PaidPC, At, TypeOK, OrderDoc, orderVars
    <2> QED BY <2>1 DEF Mark, OrdersKept, moneyVars
<1>3. \A d \in Call : call[d].on \in Call
    BY CallParts DEF Inv
<1>4. CallsKept
    <2>1. PICK pc : /\ Goes(c, pc) /\ pc \notin {"ready", "order", "place"}
                    /\ Kind[c] \in Finalising /\ pc \in PaidPC => Of[call[c].on] \in paidFor'
        BY DEF Mark, Inv, PaidInv, PriceInv, PaidPC, At, Paying, Finalising, moneyVars
    <2>2. Kind[c] \in Finalising \cup Paying /\ call'[c].pc \in OrderPC =>
            order'[call[c].on].status # "none"
        BY <2>1, GoesFrame, <1>3, <1>2
        DEF Mark, Inv, PaidInv, PriceInv, OrderPC, PaidPC, OrdersKept, At, Paying, Finalising, moneyVars
    <2>3. /\ \A d \in Call : d # c => call'[d] = call[d]
          /\ call'[c].pc = pc /\ call'[c].on = call[c].on
        BY <2>1, GoesFrame DEF Inv
    <2>4. Kind[c] \in Paying => Of[call[c].on] = Of[c]
        BY DEF Inv, PaidInv
    <2> QED BY <2>1, <2>2, <2>3, <2>4 DEF CallsKept
<1>5. QuotesKept
    BY DEF Mark, QuotesKept, QuoteKept, quoteVars, designVars, orderVars, moneyVars
<1> QED BY <1>1, <1>2, <1>5, <1>4

LEMMA ClaimKeeps ==
    ASSUME Inv, NEW c \in Call, Claim(c)
    PROVE  Kept /\ CallsKept /\ QuotesKept /\ OrdersKept
<1>1. Kept
    BY DEF Claim, Kept, quoteVars, designVars, orderVars, moneyVars
<1>2. OrdersKept
    <2>1. \A d \in Call : order'[d].total = order[d].total /\ (order[d].status = "none" <=> order'[d].status = "none")
        BY CallParts DEF Claim, Inv, PaidInv, PriceInv, OrderPC, PaidPC, At, TypeOK, OrderDoc, orderVars
    <2> QED BY <2>1 DEF Claim, OrdersKept, moneyVars
<1>3. \A d \in Call : call[d].on \in Call
    BY CallParts DEF Inv
<1>4. CallsKept
    <2>1. PICK pc : /\ Goes(c, pc) /\ pc \notin {"ready", "order", "place"}
                    /\ Kind[c] \in Finalising /\ pc \in PaidPC => Of[call[c].on] \in paidFor'
        BY DEF Claim, Inv, PaidInv, PriceInv, PaidPC, At, Paying, Finalising, Follows, moneyVars
    <2>2. Kind[c] \in Finalising \cup Paying /\ call'[c].pc \in OrderPC =>
            order'[call[c].on].status # "none"
        BY <2>1, GoesFrame, <1>3, <1>2
        DEF Claim, Inv, PaidInv, PriceInv, OrderPC, PaidPC, OrdersKept, At, Paying, Finalising, Follows, moneyVars
    <2>3. /\ \A d \in Call : d # c => call'[d] = call[d]
          /\ call'[c].pc = pc /\ call'[c].on = call[c].on
        BY <2>1, GoesFrame DEF Inv
    <2>4. Kind[c] \in Paying => Of[call[c].on] = Of[c]
        BY DEF Inv, PaidInv
    <2> QED BY <2>1, <2>2, <2>3, <2>4 DEF CallsKept
<1>5. QuotesKept
    BY DEF Claim, QuotesKept, QuoteKept, quoteVars, designVars, orderVars, moneyVars
<1> QED BY <1>1, <1>2, <1>5, <1>4

LEMMA RecordKeeps ==
    ASSUME Inv, NEW c \in Call, Record(c)
    PROVE  Kept /\ CallsKept /\ QuotesKept /\ OrdersKept
<1>1. Kept
    BY DEF Record, Kept, quoteVars, designVars, orderVars, moneyVars
<1>2. OrdersKept
    <2>1. \A d \in Call : order'[d].total = order[d].total /\ (order[d].status = "none" <=> order'[d].status = "none")
        BY CallParts DEF Record, Inv, PaidInv, PriceInv, OrderPC, PaidPC, At, TypeOK, OrderDoc, orderVars
    <2> QED BY <2>1 DEF Record, OrdersKept, moneyVars
<1>3. \A d \in Call : call[d].on \in Call
    BY CallParts DEF Inv
<1>4. CallsKept
    <2>1. PICK pc : /\ Goes(c, pc) /\ pc \notin {"ready", "order", "place"}
                    /\ Kind[c] \in Finalising /\ pc \in PaidPC => Of[call[c].on] \in paidFor'
        BY DEF Record, Inv, PaidInv, PriceInv, PaidPC, At, Paying, Finalising, Follows, moneyVars
    <2>2. Kind[c] \in Finalising \cup Paying /\ call'[c].pc \in OrderPC =>
            order'[call[c].on].status # "none"
        BY <2>1, GoesFrame, <1>3, <1>2
        DEF Record, Inv, PaidInv, PriceInv, OrderPC, PaidPC, OrdersKept, At, Paying, Finalising, Follows, moneyVars
    <2>3. /\ \A d \in Call : d # c => call'[d] = call[d]
          /\ call'[c].pc = pc /\ call'[c].on = call[c].on
        BY <2>1, GoesFrame DEF Inv
    <2>4. Kind[c] \in Paying => Of[call[c].on] = Of[c]
        BY DEF Inv, PaidInv
    <2> QED BY <2>1, <2>2, <2>3, <2>4 DEF CallsKept
<1>5. QuotesKept
    BY DEF Record, QuotesKept, QuoteKept, quoteVars, designVars, orderVars, moneyVars
<1> QED BY <1>1, <1>2, <1>5, <1>4

LEMMA ScheduleKeeps ==
    ASSUME Inv, NEW c \in Call, Schedule(c)
    PROVE  Kept /\ CallsKept /\ QuotesKept /\ OrdersKept
<1>1. Kept
    BY DEF Schedule, Kept, quoteVars, designVars, orderVars, moneyVars
<1>2. OrdersKept
    <2>1. \A d \in Call : order'[d].total = order[d].total /\ (order[d].status = "none" <=> order'[d].status = "none")
        BY CallParts DEF Schedule, Inv, PaidInv, PriceInv, OrderPC, PaidPC, At, TypeOK, OrderDoc, orderVars
    <2> QED BY <2>1 DEF Schedule, OrdersKept, moneyVars
<1>3. \A d \in Call : call[d].on \in Call
    BY CallParts DEF Inv
<1>4. CallsKept
    <2>1. PICK pc : /\ Goes(c, pc) /\ pc \notin {"ready", "order", "place"}
                    /\ Kind[c] \in Finalising /\ pc \in PaidPC => Of[call[c].on] \in paidFor'
        BY DEF Schedule, Inv, PaidInv, PriceInv, PaidPC, At, Paying, Finalising, Follows, moneyVars
    <2>2. Kind[c] \in Finalising \cup Paying /\ call'[c].pc \in OrderPC =>
            order'[call[c].on].status # "none"
        BY <2>1, GoesFrame, <1>3, <1>2
        DEF Schedule, Inv, PaidInv, PriceInv, OrderPC, PaidPC, OrdersKept, At, Paying, Finalising, Follows, moneyVars
    <2>3. /\ \A d \in Call : d # c => call'[d] = call[d]
          /\ call'[c].pc = pc /\ call'[c].on = call[c].on
        BY <2>1, GoesFrame DEF Inv
    <2>4. Kind[c] \in Paying => Of[call[c].on] = Of[c]
        BY DEF Inv, PaidInv
    <2> QED BY <2>1, <2>2, <2>3, <2>4 DEF CallsKept
<1>5. QuotesKept
    BY DEF Schedule, QuotesKept, QuoteKept, quoteVars, designVars, orderVars, moneyVars
<1> QED BY <1>1, <1>2, <1>5, <1>4

LEMMA CrashKeeps ==
    ASSUME Inv, NEW c \in Call, Crash(c)
    PROVE  Kept /\ CallsKept /\ QuotesKept /\ OrdersKept
<1>1. Kept
    BY DEF Crash, Kept, quoteVars, designVars, orderVars, moneyVars
<1>2. OrdersKept
    BY DEF Crash, OrdersKept, quoteVars, designVars, orderVars, moneyVars
<1>3. \A d \in Call : call[d].on \in Call
    BY CallParts DEF Inv
<1>4. CallsKept
    <2>1. PICK pc : /\ Goes(c, pc) /\ pc \notin {"ready", "order", "place"}
                    /\ Kind[c] \in Finalising /\ pc \in PaidPC => Of[call[c].on] \in paidFor'
        BY DEF Crash, Inv, PaidInv, PriceInv, PaidPC, At, Paying, Finalising
    <2>2. Kind[c] \in Finalising \cup Paying /\ call'[c].pc \in OrderPC =>
            order'[call[c].on].status # "none"
        BY <2>1, GoesFrame, <1>3, <1>2
        DEF Crash, Inv, PaidInv, PriceInv, OrderPC, PaidPC, OrdersKept, At, Paying, Finalising
    <2>3. /\ \A d \in Call : d # c => call'[d] = call[d]
          /\ call'[c].pc = pc /\ call'[c].on = call[c].on
        BY <2>1, GoesFrame DEF Inv
    <2>4. Kind[c] \in Paying => Of[call[c].on] = Of[c]
        BY DEF Inv, PaidInv
    <2> QED BY <2>1, <2>2, <2>3, <2>4 DEF CallsKept
<1>5. QuotesKept
    BY DEF Crash, QuotesKept, QuoteKept, quoteVars, designVars, orderVars, moneyVars
<1> QED BY <1>1, <1>2, <1>5, <1>4

LEMMA NextKeeps ==
    ASSUME Inv, Next
    PROVE  Kept /\ CallsKept /\ QuotesKept /\ OrdersKept
<1>1. \A c \in Call : Begin(c) => (Kept /\ CallsKept /\ QuotesKept /\ OrdersKept)
    BY RequestLoadKeeps, CancelLoadKeeps, EditLoadKeeps, AcceptLoadKeeps, FinaliseLoadKeeps DEF Begin
<1>2. \A c \in Call : RequestStep(c) => (Kept /\ CallsKept /\ QuotesKept /\ OrdersKept)
    BY CallParts, RequestExistingKeeps, RequestSaveKeeps, RequestCreateKeeps DEF RequestStep, Inv
<1>3. \A c \in Call : EditStep(c) => (Kept /\ CallsKept /\ QuotesKept /\ OrdersKept)
    BY CancelDeclineKeeps, CancelSaveKeeps, DraftSaveKeeps, SubmitSaveKeeps, SubmitQuotedKeeps, ReviseSaveKeeps, ExpireSaveKeeps DEF EditStep
<1>4. \A c \in Call : AcceptStep(c) => (Kept /\ CallsKept /\ QuotesKept /\ OrdersKept)
    BY AcceptOrderKeeps, AcceptPlaceKeeps, AcceptChargeKeeps, AcceptBalanceKeeps, AcceptDebitKeeps, AcceptRefundKeeps DEF AcceptStep
<1>5. \A c \in Call : FinaliseStep(c) => (Kept /\ CallsKept /\ QuotesKept /\ OrdersKept)
    BY FinaliseQuoteKeeps, AcceptKeeps, DeclineKeeps, PointKeeps, ProduceKeeps, MarkKeeps, ClaimKeeps, RecordKeeps, ScheduleKeeps DEF FinaliseStep
<1>6. \A c \in Call : Charge(c) \/ AcceptFails(c) \/ FinaliseSwallow(c) \/ Crash(c) => (Kept /\ CallsKept /\ QuotesKept /\ OrdersKept)
    BY ChargeKeeps, AcceptFailsKeeps, FinaliseSwallowKeeps, CrashKeeps
<1>7. \A q \in Quote : Elapse(q) => (Kept /\ CallsKept /\ QuotesKept /\ OrdersKept)
    BY ElapseKeeps
<1>8. ExpireQuotes => (Kept /\ CallsKept /\ QuotesKept /\ OrdersKept)
    BY ExpireQuotesKeeps
<1> QED BY <1>1, <1>2, <1>3, <1>4, <1>5, <1>6, <1>7, <1>8 DEF Next, Working

LEMMA InitInv == ASSUME Init PROVE Inv
<1>1. PICK s \in Start :
         /\ call = [c \in Call |-> NewCall(c, IF c \in s.calls THEN "ready" ELSE "absent")]
         /\ quote = [q \in Quote |-> FirstQuote(q, s.quotes[q])]
         /\ submitted = [q \in Quote |-> IF s.quotes[q] = "submitted" THEN {Offer[q]} ELSE {}]
    BY DEF Init
<1>2. s.quotes \in [Quote -> {"none", "pending", "submitted"}]
    BY BespokeAssumption
<1>3. \A q \in Quote :
         /\ quote[q].status \in {"none", "pending", "submitted"}
         /\ quote[q].status = "submitted" => quote[q].total \in submitted[q]
    BY <1>1, <1>2 DEF FirstQuote, NewQuote
<1>4. \A c \in Call : call[c].pc \in {"ready", "absent"} /\ call[c].on = c
    BY <1>1 DEF NewCall
<1>5. \A c \in Call : order[c].status = "none" /\ charge[c].state = "none"
    BY DEF Init, NoOrder
<1>6. PaidInv
    BY <1>3, <1>4, <1>5 DEF PaidInv, PaidPC, AcceptedIsPaid, DeclinedForReason
<1>7. PriceInv
    BY <1>3, <1>4, <1>5 DEF PriceInv, PaidPC, OrderPC, PriceWasSubmitted
<1> QED BY <1>6, <1>7, InitType DEF Inv

LEMMA Invariant == Spec => []Inv
<1>1. ASSUME Inv, [Next]_vars PROVE Inv'
    <2>1. CASE Next
        <3>1. TypeOK' BY <1>1, <2>1, NextType DEF Inv
        <3>2. PaidInv' BY <1>1, <2>1, NextKeeps, KeptPaid
        <3>3. PriceInv' BY <1>1, <2>1, NextKeeps, KeptPrice
        <3> QED BY <3>1, <3>2, <3>3 DEF Inv
    <2>2. CASE UNCHANGED vars
        <3>1. TypeOK' BY <1>1, <2>2 DEF vars, quoteVars, designVars, orderVars, moneyVars, Inv, TypeOK
        <3>2. /\ Kept /\ CallsKept /\ QuotesKept /\ OrdersKept
            BY <2>2 DEF vars, quoteVars, designVars, orderVars, moneyVars,
                        Kept, CallsKept, QuotesKept, QuoteKept, OrdersKept
        <3>3. PaidInv' BY <1>1, <3>2, KeptPaid
        <3>4. PriceInv' BY <1>1, <3>2, KeptPrice
        <3> QED BY <3>1, <3>3, <3>4 DEF Inv
    <2> QED BY <1>1, <2>1, <2>2
<1> QED BY InitInv, <1>1, PTL DEF Spec

\* Acceptance follows payment: whatever a finalisation finds, overtakes or
\* repeats, a quote is accepted only when the customer was debited for it.
THEOREM AcceptsOnlyPaid == Spec => []AcceptedIsPaid
<1>1. Inv => AcceptedIsPaid
    BY DEF Inv, PaidInv
<1> QED BY Invariant, <1>1, PTL

\* A quote is declined for a withdrawn design or for another quote that was
\* paid, never by a payment that was only begun.
THEOREM DeclinesForReason == Spec => []DeclinedForReason
<1>1. Inv => DeclinedForReason
    BY DEF Inv, PaidInv
<1> QED BY Invariant, <1>1, PTL

\* The price of an order was submitted by the vendor, for every interleaving of
\* drafts, submissions and revisions that do not overwrite each other unseen.
THEOREM OrdersSubmittedPrice == Spec => []PriceWasSubmitted
<1>1. Inv => PriceWasSubmitted
    BY DEF Inv, PriceInv
<1> QED BY Invariant, <1>1, PTL
=============================================================================
