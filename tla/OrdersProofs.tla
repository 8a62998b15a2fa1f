---------------------------- MODULE OrdersProofs ----------------------------
(***************************************************************************)
(* Theorems about Orders, for every order and every set of calls on it.    *)
(***************************************************************************)
EXTENDS Orders, SumTheorems

-----------------------------------------------------------------------------
(* Facts about the constants and about the operators of OrderDocument.     *)

\* The first shipment of a set (Min).
LEMMA LeastShipment ==
    ASSUME NEW S, S \subseteq Shipment, S # {}
    PROVE  Min(S) \in S /\ \A s \in S : Min(S) <= s
<1>1. S \subseteq Nat BY OrderAssumption DEF Shipment
<1>2. \E n \in S : \A m \in S : ~ (<<m, n>> \in OpToRel(<, Nat))
    BY <1>1, NatLessThanWellFounded, WFMin
<1>3. PICK n \in S : \A m \in S : ~ (<<m, n>> \in OpToRel(<, Nat)) BY <1>2
<1>4. \A m \in S : ~ (m < n)
  <2>1. TAKE m \in S
  <2>2. <<m, n>> \in Nat \X Nat /\ <<m, n>>[1] = m /\ <<m, n>>[2] = n BY <1>1
  <2>3. m < n => <<m, n>> \in OpToRel(<, Nat) BY <2>2 DEF OpToRel
  <2> QED BY <1>3, <2>3
<1>5. \E x \in S : \A y \in S : x <= y BY <1>1, <1>4
<1> QED BY <1>5 DEF Min

\* Each handler takes a vendor, an item or a shipment.
LEMMA ArgType ==
    ASSUME NEW c \in Call
    PROVE  /\ Op[c] \in {"confirm", "rejectShipment", "rejectItem", "cancel", "cron",
                         "stage", "fulfil", "webhook"}
           /\ Op[c] \in {"confirm", "rejectShipment", "stage", "fulfil"} => Arg[c] \in Vendor
           /\ Op[c] = "rejectItem" => Arg[c] \in Item
           /\ Op[c] = "webhook" => Arg[c] \in Shipment
BY OrderAssumption DEF OpOn

\* Every vendor has a first shipment.
LEMMA FirstType ==
    ASSUME NEW v \in Vendor
    PROVE  FirstOf(v) \in Shipment /\ Business[FirstOf(v)] = v
<1>1. ShipmentsOf(v) \subseteq Shipment /\ ShipmentsOf(v) # {}
    BY OrderAssumption DEF ShipmentsOf
<1>2. FirstOf(v) \in ShipmentsOf(v) BY <1>1, LeastShipment DEF FirstOf
<1> QED BY <1>2 DEF ShipmentsOf

LEMMA NewOrderType == NewOrder \in OrderDoc
BY DEF NewOrder, OrderDoc, OrderStatus, ShipmentStatus

LEMMA AtType == ASSUME NEW pc \in {"new"} \cup Running \cup Ended PROVE At(pc) \in CallState
BY NewOrderType DEF At, CallState

\* A rejection changes a document into a document.
LEMMA FailType ==
    ASSUME NEW d \in OrderDoc, NEW S, S \subseteq Shipment
    PROVE  Fail(d, S) \in OrderDoc
BY DEF Fail, OrderDoc, ShipmentStatus

LEMMA SettleType == ASSUME NEW d \in OrderDoc PROVE Settle(d) \in OrderDoc
BY DEF Settle, OrderDoc, OrderStatus

LEMMA GarmentType ==
    ASSUME NEW d \in OrderDoc, NEW v
    PROVE  ActiveGarment(d, v) \subseteq Shipment \ Fabric
<1> DEFINE open == (ShipmentsOf(v) \ Fabric) \ d.rejected
<1>1. open \subseteq Shipment BY DEF ShipmentsOf
<1>2. open # {} => Min(open) \in open BY <1>1, LeastShipment
<1> QED BY <1>1, <1>2 DEF ActiveGarment, ShipmentsOf

LEMMA RejectItemsType ==
    ASSUME NEW d \in OrderDoc, NEW v, NEW items, items \subseteq Item
    PROVE  RejectItems(d, v, items) \in OrderDoc
<1> DEFINE legs == {Leg[i] : i \in items} \ ({0} \cup d.rejected)
           declined == d.declined \cup items
           own == IF ItemsOf(v) \subseteq declined THEN ActiveGarment(d, v) ELSE {}
<1>1. legs \cup own \subseteq Shipment BY OrderAssumption, GarmentType
<1>2. Fail(d, legs \cup own) \in OrderDoc BY <1>1, FailType
<1>3. declined \subseteq Item BY DEF OrderDoc
<1>4. [Fail(d, legs \cup own) EXCEPT !.declined = declined] \in OrderDoc
  <2> HIDE DEF legs, own, declined
  <2> QED BY <1>2, <1>3 DEF OrderDoc
<1> QED BY <1>4, SettleType DEF RejectItems

LEMMA UnwindType ==
    ASSUME NEW d \in OrderDoc, NEW s \in Fabric
    PROVE  UnwindFabric(d, s) \in OrderDoc
<1>1. {s} \cup ActiveGarment(d, Destination[s]) \subseteq Shipment
    BY OrderAssumption, GarmentType
<1> QED BY <1>1, FailType, SettleType DEF UnwindFabric

-----------------------------------------------------------------------------
(* Type correctness.  Where a call is says which handler runs it and what it *)
(* has in hand.                                                             *)

Rejecting == {"rejectSave", "rejectRefund", "rejectRestore"}

PlaceInv ==
    \A c \in Call :
      /\ call[c].pc = "confirmSave" => Op[c] = "confirm"
      /\ call[c].pc \in Rejecting =>
           /\ Op[c] \in {"rejectShipment", "rejectItem", "cron"}
           /\ call[c].at \subseteq Fabric
           /\ Op[c] = "cron" => call[c].at # {}
           /\ Op[c] = "rejectItem" => call[c].at = {}
      /\ call[c].pc \in {"cancelRefund", "cancelSave", "cancelRestore"} => Op[c] = "cancel"
      /\ call[c].pc = "cronScan" => Op[c] = "cron" /\ call[c].todo \subseteq Shipment
      /\ call[c].pc = "stageSave" => Op[c] = "stage"
      /\ call[c].pc \in {"claim", "label", "shipSave"} => Op[c] = "fulfil"
      /\ call[c].pc \in {"schedule", "hookSave"} => Op[c] = "webhook" /\ call[c].event # ""

\* A step that moves one call, changes the document into a document and leaves
\* the rest to its type.
CallMoves(c, new) == call' = [call EXCEPT ![c] = new]

\* What is in place for a call that ends, or waits again.
LEMMA CallMovesPlace ==
    ASSUME TypeOK, PlaceInv, NEW c \in Call, NEW new \in CallState, CallMoves(c, new),
           new.pc \in {"new"} \cup Ended
    PROVE  call' \in [Call -> CallState] /\ PlaceInv'
<1>1. call' \in [Call -> CallState] BY DEF TypeOK, CallMoves
<1>2. \A d \in Call : d # c => call'[d] = call[d] BY DEF TypeOK, CallMoves
<1>3. call'[c] = new BY DEF TypeOK, CallMoves
<1> QED BY <1>1, <1>2, <1>3 DEF PlaceInv, Ended, Rejecting

LEMMA EndPlace ==
    ASSUME TypeOK, PlaceInv, NEW c \in Call, NEW pc \in {"new"} \cup Ended, End(c, pc)
    PROVE  call' \in [Call -> CallState] /\ PlaceInv'
<1>1. At(pc) \in CallState /\ At(pc).pc = pc BY AtType DEF At
<1>2. CallMoves(c, At(pc)) BY DEF End, CallMoves
<1> QED BY <1>1, <1>2, CallMovesPlace

LEMMA OverPlace ==
    ASSUME TypeOK, PlaceInv, NEW c \in Call, NEW pc \in Ended, Over(c, pc)
    PROVE  call' \in [Call -> CallState] /\ PlaceInv'
BY EndPlace DEF Over

\* A call moves to a place that fits its handler and what it holds.
LEMMA MovePlace ==
    ASSUME TypeOK, PlaceInv, NEW c \in Call, NEW new \in CallState, CallMoves(c, new),
           new.pc = "confirmSave" => Op[c] = "confirm",
           new.pc \in Rejecting =>
             /\ Op[c] \in {"rejectShipment", "rejectItem", "cron"}
             /\ new.at \subseteq Fabric
             /\ Op[c] = "cron" => new.at # {}
             /\ Op[c] = "rejectItem" => new.at = {},
           new.pc \in {"cancelRefund", "cancelSave", "cancelRestore"} => Op[c] = "cancel",
           new.pc = "cronScan" => Op[c] = "cron" /\ new.todo \subseteq Shipment,
           new.pc = "stageSave" => Op[c] = "stage",
           new.pc \in {"claim", "label", "shipSave"} => Op[c] = "fulfil",
           new.pc \in {"schedule", "hookSave"} => Op[c] = "webhook" /\ new.event # ""
    PROVE  call' \in [Call -> CallState] /\ PlaceInv'
<1>1. call' \in [Call -> CallState] BY DEF TypeOK, CallMoves
<1>2. \A d \in Call : d # c => call'[d] = call[d] BY DEF TypeOK, CallMoves
<1>3. call'[c] = new BY DEF TypeOK, CallMoves
<1> QED BY <1>1, <1>2, <1>3 DEF PlaceInv

\* The loaded document is the stored one.
LEMMA LoadedState ==
    ASSUME TypeOK, NEW pc \in {"new"} \cup Running \cup Ended
    PROVE  /\ [At(pc) EXCEPT !.doc = order] \in CallState
           /\ [At(pc) EXCEPT !.doc = order].pc = pc
           /\ [At(pc) EXCEPT !.doc = order].at = {}
           /\ [At(pc) EXCEPT !.doc = order].todo = {}
           /\ [At(pc) EXCEPT !.doc = order].doc = order
BY NewOrderType DEF At, CallState, TypeOK

LEMMA CallFields ==
    ASSUME TypeOK, NEW c \in Call
    PROVE  /\ call[c] \in CallState
           /\ call[c].doc \in OrderDoc /\ call[c].at \subseteq Shipment
           /\ call[c].todo \subseteq Item \cup Shipment
           /\ call[c].pc \in {"new"} \cup Running \cup Ended
BY DEF TypeOK, CallState

LEMMA InitPlace == Init => TypeOK /\ PlaceInv
<1> SUFFICES ASSUME Init PROVE TypeOK /\ PlaceInv OBVIOUS
<1>1. order \in OrderDoc BY NewOrderType DEF Init
<1>2. PICK made \in Mix : call = [c \in Call |-> At(IF c \in made THEN "new" ELSE "unused")]
    BY DEF Init
<1>3. \A c \in Call : call[c] \in CallState /\ call[c].pc \in {"new", "unused"}
    BY <1>2, AtType DEF At, Ended
<1>4. call \in [Call -> CallState] BY <1>2, <1>3
<1>5. PlaceInv BY <1>3 DEF PlaceInv, Rejecting
<1> QED BY <1>1, <1>4, <1>5 DEF Init, TypeOK

\* What a rejection has in hand: the shipment it unwinds, or its items.
LEMMA RejectionParts ==
    ASSUME TypeOK, PlaceInv, NEW c \in Call, call[c].pc \in Rejecting
    PROVE  /\ Unwinds(c) => Unwound(c) \in Fabric /\ Destination[Unwound(c)] \in Vendor
           /\ ~Unwinds(c) => RejectedItems(c) \subseteq Item
                             /\ Op[c] \in {"rejectShipment", "rejectItem"}
           /\ AfterReject(c) \in OrderDoc
<1>1. call[c].doc \in OrderDoc /\ call[c].at \subseteq Fabric
    BY CallFields DEF PlaceInv
<1>2. CASE Unwinds(c)
  <2>1. Unwound(c) \in Fabric BY <1>1, <1>2 DEF Unwinds, Unwound
  <2> QED BY <1>1, <1>2, <2>1, UnwindType, OrderAssumption DEF AfterReject
<1>3. CASE ~Unwinds(c)
  <2>1. Op[c] \in {"rejectShipment", "rejectItem"} BY <1>3 DEF PlaceInv, Unwinds
  <2>2. RejectedItems(c) \subseteq Item
      BY <2>1, ArgType DEF RejectedItems, ItemsOf, Undeclined
  <2> QED BY <1>1, <1>3, <2>1, <2>2, RejectItemsType DEF AfterReject
<1> QED BY <1>2, <1>3

LEMMA PaidType ==
    ASSUME NEW S, NEW D, NEW counts \in [D -> Nat]
    PROVE  Paid(counts, S) \in [D -> Nat]
BY DEF Paid

LEMMA PartlyType == ASSUME NEW d \in OrderDoc PROVE PartiallyRefunded(d) \in OrderDoc
BY DEF PartiallyRefunded, OrderDoc

LEMMA RestoreType ==
    ASSUME TypeOK, NEW S, RestoreItems(S)
    PROVE  restocked' \in [Item -> Nat]
BY PaidType DEF RestoreItems, TypeOK

LEMMA RejectPlace ==
    ASSUME TypeOK, PlaceInv, NEW c \in Call, RejectStep(c)
    PROVE  TypeOK' /\ PlaceInv'
<1> USE DEF reviewFrame, carrierVars, customerVars, refundVars
<1>1. CASE RejectShipmentLoad(c)
  <2> DEFINE new == [At("rejectSave") EXCEPT !.doc = order, !.at = {FirstOf(Arg[c])} \cap Fabric]
  <2>1. Op[c] = "rejectShipment" BY <1>1 DEF RejectShipmentLoad
  <2>2. /\ new \in CallState /\ new.pc = "rejectSave" /\ new.at \subseteq Fabric
      BY NewOrderType, OrderAssumption DEF At, CallState, TypeOK, Running
  <2>3. CASE CallMoves(c, new)
    <3> HIDE DEF new
    <3>1. call' \in [Call -> CallState] /\ PlaceInv'
        BY <2>1, <2>2, <2>3, MovePlace
    <3> QED BY <1>1, <3>1 DEF RejectShipmentLoad, TypeOK
  <2>4. CASE End(c, "refused")
    <3>1. call' \in [Call -> CallState] /\ PlaceInv' BY <2>4, EndPlace DEF Ended
    <3> QED BY <1>1, <3>1 DEF RejectShipmentLoad, TypeOK
  <2> QED BY <1>1, <2>3, <2>4 DEF RejectShipmentLoad, CallMoves
<1>2. CASE RejectItemLoad(c)
  <2>1. Op[c] = "rejectItem" BY <1>2 DEF RejectItemLoad
  <2> DEFINE new == [At("rejectSave") EXCEPT !.doc = order]
  <2>2. new \in CallState /\ new.pc = "rejectSave" /\ new.at = {}
      BY LoadedState DEF Running
  <2>3. CASE Load(c, "rejectSave")
    <3>0. CallMoves(c, new) BY <2>3 DEF Load, CallMoves
    <3> HIDE DEF new
    <3>1. call' \in [Call -> CallState] /\ PlaceInv'
        BY <2>1, <2>2, <3>0, MovePlace
    <3> QED BY <1>2, <3>1 DEF RejectItemLoad, TypeOK
  <2>4. CASE End(c, "refused")
    <3>1. call' \in [Call -> CallState] /\ PlaceInv' BY <2>4, EndPlace DEF Ended
    <3> QED BY <1>2, <3>1 DEF RejectItemLoad, TypeOK
  <2> QED BY <1>2, <2>3, <2>4 DEF RejectItemLoad
<1>3. CASE RejectSave(c)
  <2>1. call[c].pc = "rejectSave" BY <1>3 DEF RejectSave
  <2>2. AfterReject(c) \in OrderDoc BY <2>1, RejectionParts DEF Rejecting
  <2>3. CASE Current(c)
    <3>1. order' \in OrderDoc
      <4> DEFINE d == AfterReject(c)
                 loaded == call[c].doc
                 written == [d EXCEPT
                  !.version = @ + 1,
                  !.status = Written(d.status, loaded.status, order.status),
                  !.refundStatus = Written(d.refundStatus, loaded.refundStatus, order.refundStatus),
                  !.declined = IF Unwinds(c) THEN order.declined ELSE d.declined,
                  !.deducted = order.deducted]
      <4>1. order' = written BY <1>3, <2>3 DEF RejectSave
      <4>2. d \in OrderDoc /\ loaded \in OrderDoc /\ order \in OrderDoc
          BY <2>2, CallFields DEF TypeOK
      <4> HIDE DEF d, loaded
      <4>3. Written(d.status, loaded.status, order.status) \in OrderStatus
          BY <4>2 DEF OrderDoc, Written
      <4>4. Written(d.refundStatus, loaded.refundStatus, order.refundStatus)
              \in {"none", "partial", "refunded"}
          BY <4>2 DEF OrderDoc, Written
      <4> DEFINE declined == IF Unwinds(c) THEN order.declined ELSE d.declined
      <4>5. declined \subseteq Item /\ order.deducted \in BOOLEAN /\ d.version + 1 \in Nat
          BY <4>2 DEF OrderDoc
      <4> HIDE DEF declined
      <4>6. \A st \in OrderStatus, rs \in {"none", "partial", "refunded"} :
              [d EXCEPT !.version = @ + 1, !.status = st, !.refundStatus = rs,
                        !.declined = declined, !.deducted = order.deducted] \in OrderDoc
          BY <4>2, <4>5 DEF OrderDoc
      <4>7. written \in OrderDoc BY <4>3, <4>4, <4>6 DEF declined
      <4> QED BY <4>1, <4>7
    <3> DEFINE new == [call[c] EXCEPT !.pc = "rejectRefund"]
    <3>2. CallMoves(c, new) BY <1>3, <2>3 DEF RejectSave, Goto, CallMoves
    <3>3. new \in CallState /\ new.pc = "rejectRefund" /\ new.at = call[c].at
        BY CallFields DEF CallState, Running
    <3>4. call' \in [Call -> CallState] /\ PlaceInv'
      <4> HIDE DEF new
      <4> QED BY <2>1, <3>2, <3>3, MovePlace DEF PlaceInv, Rejecting
    <3> QED BY <1>3, <3>1, <3>4 DEF RejectSave, TypeOK
  <2>4. CASE ~Current(c)
    <3>1. Over(c, "conflict") BY <1>3, <2>4 DEF RejectSave
    <3>2. call' \in [Call -> CallState] /\ PlaceInv' BY <3>1, OverPlace DEF Ended
    <3> QED BY <1>3, <2>4, <3>2 DEF RejectSave, TypeOK
  <2> QED BY <2>3, <2>4
<1>4. CASE RejectRefund(c)
  <2>1. call[c].pc = "rejectRefund" BY <1>4 DEF RejectRefund, RefundParts
  <2>2. refund' \in [Part -> Nat] BY <1>4, PaidType DEF RejectRefund, RefundParts, TypeOK
  <2>3. order' \in OrderDoc BY <1>4, PartlyType DEF RejectRefund, RefundParts, TypeOK
  <2> DEFINE items == IF Unwinds(c) THEN {} ELSE RejectedItems(c)
             new == [call[c] EXCEPT !.pc = "rejectRestore", !.todo = items]
  <2>4. items \subseteq Item BY <2>1, RejectionParts DEF Rejecting
  <2>5. CallMoves(c, new) BY <1>4, CallFields DEF RejectRefund, RefundParts, CallMoves, CallState, TypeOK
  <2>6. new \in CallState /\ new.pc = "rejectRestore" /\ new.at = call[c].at
    <3> HIDE DEF items
    <3> QED BY <2>4, CallFields DEF CallState, Running
  <2>7. call' \in [Call -> CallState] /\ PlaceInv'
    <3> HIDE DEF new
    <3> QED BY <2>1, <2>5, <2>6, MovePlace DEF PlaceInv, Rejecting
  <2>8. refundErrors' \subseteq Part
      BY <1>4 DEF RejectRefund, RefundParts, RefundedParts, TypeOK
  <2> QED BY <1>4, <2>2, <2>3, <2>7, <2>8 DEF RejectRefund, TypeOK
<1>5. ASSUME NEW i \in Item, RejectRestoreItem(c, i) PROVE TypeOK' /\ PlaceInv'
  <2>1. call[c].pc = "rejectRestore" BY <1>5 DEF RejectRestoreItem, refundVars
  <2>2. restocked' \in [Item -> Nat] BY <1>5, RestoreType DEF RejectRestoreItem, refundVars
  <2> DEFINE new == [call[c] EXCEPT !.todo = @ \ {i}]
  <2>3. CallMoves(c, new) BY <1>5 DEF RejectRestoreItem, refundVars, CallMoves
  <2>4. new \in CallState /\ new.pc = "rejectRestore" /\ new.at = call[c].at
      BY <2>1, CallFields DEF CallState
  <2>5. call' \in [Call -> CallState] /\ PlaceInv'
    <3> HIDE DEF new
    <3> QED BY <2>1, <2>3, <2>4, MovePlace DEF PlaceInv, Rejecting
  <2> QED BY <1>5, <2>2, <2>5 DEF RejectRestoreItem, refundVars, TypeOK
<1>6. CASE RejectEnd(c)
  <2>1. restocked' \in [Item -> Nat] BY <1>6, RestoreType DEF RejectEnd, refundVars, TypeOK
  <2>2. Over(c, "done") BY <1>6 DEF RejectEnd, refundVars
  <2>3. call' \in [Call -> CallState] /\ PlaceInv' BY <2>2, OverPlace DEF Ended
  <2> QED BY <1>6, <2>1, <2>3 DEF RejectEnd, refundVars, TypeOK
<1> QED BY <1>1, <1>2, <1>3, <1>4, <1>5, <1>6 DEF RejectStep

LEMMA ConfirmPlace ==
    ASSUME TypeOK, PlaceInv, NEW c \in Call, ConfirmStep(c)
    PROVE  TypeOK' /\ PlaceInv'
<1> USE DEF reviewFrame, carrierVars, customerVars, refundVars
<1>1. CASE ConfirmLoad(c)
  <2> DEFINE new == [At("confirmSave") EXCEPT !.doc = order]
  <2>1. Op[c] = "confirm" BY <1>1 DEF ConfirmLoad
  <2>2. new \in CallState /\ new.pc = "confirmSave" BY LoadedState DEF Running
  <2>3. CASE Load(c, "confirmSave")
    <3>1. CallMoves(c, new) BY <2>3 DEF Load, CallMoves
    <3> HIDE DEF new
    <3>2. call' \in [Call -> CallState] /\ PlaceInv'
        BY <2>1, <2>2, <3>1, MovePlace DEF Rejecting
    <3> QED BY <1>1, <3>2 DEF ConfirmLoad, TypeOK
  <2>4. CASE End(c, "refused")
    <3>1. call' \in [Call -> CallState] /\ PlaceInv' BY <2>4, EndPlace DEF Ended
    <3> QED BY <1>1, <3>1 DEF ConfirmLoad, TypeOK
  <2> QED BY <1>1, <2>3, <2>4 DEF ConfirmLoad
<1>2. CASE ConfirmSave(c)
  <2> DEFINE s == FirstOf(Arg[c])
             d == [call[c].doc EXCEPT !.confirmed = @ \cup {s}]
             status == IF AllConfirmed(d) THEN "processing" ELSE call[c].doc.status
  <2>1. s \in Shipment BY <1>2, ArgType, FirstType DEF ConfirmSave, PlaceInv
  <2>2. status \in OrderStatus BY CallFields DEF OrderDoc, OrderStatus
  <2>3. order' \in OrderDoc
    <3> DEFINE st == Written(status, call[c].doc.status, order.status)
    <3>1. st \in OrderStatus
      <4> HIDE DEF status
      <4> QED BY <2>2 DEF TypeOK, OrderDoc, Written
    <3>2. order' = order \/ order' = [order EXCEPT !.confirmed = @ \cup {s}, !.status = st]
        BY <1>2 DEF ConfirmSave
    <3> HIDE DEF s, st
    <3>3. order.confirmed \cup {s} \subseteq Shipment BY <2>1 DEF TypeOK, OrderDoc
    <3>4. [order EXCEPT !.confirmed = @ \cup {s}, !.status = st] \in OrderDoc
        BY <3>1, <3>3 DEF TypeOK, OrderDoc
    <3> QED BY <3>2, <3>4 DEF TypeOK
  <2>4. End(c, "done") \/ End(c, "conflict") BY <1>2 DEF ConfirmSave
  <2>5. call' \in [Call -> CallState] /\ PlaceInv' BY <2>4, EndPlace DEF Ended
  <2> QED BY <1>2, <2>3, <2>5 DEF ConfirmSave, TypeOK
<1> QED BY <1>1, <1>2 DEF ConfirmStep

LEMMA CancelPlace ==
    ASSUME TypeOK, PlaceInv, NEW c \in Call, CancelStep(c)
    PROVE  TypeOK' /\ PlaceInv'
<1> USE DEF reviewFrame, carrierVars, customerVars, refundVars
<1>1. CASE CancelLoad(c)
  <2> DEFINE new == [At("cancelRefund") EXCEPT !.doc = order]
  <2>1. Op[c] = "cancel" BY <1>1 DEF CancelLoad
  <2>2. new \in CallState /\ new.pc = "cancelRefund" BY LoadedState DEF Running
  <2>3. CASE Load(c, "cancelRefund")
    <3>1. CallMoves(c, new) BY <2>3 DEF Load, CallMoves
    <3> HIDE DEF new
    <3>2. call' \in [Call -> CallState] /\ PlaceInv'
        BY <2>1, <2>2, <3>1, MovePlace DEF Rejecting
    <3> QED BY <1>1, <3>2 DEF CancelLoad, TypeOK
  <2>4. CASE End(c, "refused")
    <3>1. call' \in [Call -> CallState] /\ PlaceInv' BY <2>4, EndPlace DEF Ended
    <3> QED BY <1>1, <3>1 DEF CancelLoad, TypeOK
  <2> QED BY <1>1, <2>3, <2>4 DEF CancelLoad
<1>2. ASSUME CancelRefund(c) \/ CancelSave(c) PROVE TypeOK' /\ PlaceInv'
  <2>1. Op[c] = "cancel" BY <1>2 DEF CancelRefund, CancelSave, PlaceInv
  <2>2. (\E pc \in {"cancelSave", "cancelRestore"} : Goto(c, pc)) \/ End(c, "failed")
      BY <1>2 DEF CancelRefund, CancelSave
  <2>3. ASSUME NEW pc \in {"cancelSave", "cancelRestore"}, Goto(c, pc)
        PROVE  call' \in [Call -> CallState] /\ PlaceInv'
    <3> DEFINE new == [call[c] EXCEPT !.pc = pc]
    <3>1. CallMoves(c, new) BY <2>3 DEF Goto, CallMoves
    <3>2. new \in CallState /\ new.pc = pc BY CallFields DEF CallState, Running
    <3> HIDE DEF new
    <3> QED BY <2>1, <2>3, <3>1, <3>2, MovePlace DEF Rejecting
  <2>4. End(c, "failed") => call' \in [Call -> CallState] /\ PlaceInv'
      BY EndPlace DEF Ended
  <2>6. call' \in [Call -> CallState] /\ PlaceInv' BY <2>2, <2>3, <2>4
  <2>7. order' \in OrderDoc
    <3>1. Written("refunded", call[c].doc.refundStatus, order.refundStatus)
            \in {"none", "partial", "refunded"}
        BY DEF TypeOK, OrderDoc, Written
    <3> QED BY <1>2, <3>1 DEF CancelRefund, CancelSave, TypeOK, OrderDoc, OrderStatus
  <2>8. refund' \in [Part -> Nat]
      BY <1>2, PaidType DEF CancelRefund, CancelSave, TypeOK
  <2> QED BY <1>2, <2>6, <2>7, <2>8 DEF CancelRefund, CancelSave, TypeOK
<1>3. CASE CancelRestore(c)
  <2>1. restocked' \in [Item -> Nat] BY <1>3, RestoreType DEF CancelRestore, refundVars
  <2>2. order' \in OrderDoc BY <1>3 DEF CancelRestore, refundVars, TypeOK, OrderDoc
  <2>3. call' \in [Call -> CallState] /\ PlaceInv'
      BY <1>3, EndPlace DEF CancelRestore, refundVars, Ended
  <2> QED BY <1>3, <2>1, <2>2, <2>3 DEF CancelRestore, refundVars, TypeOK
<1> QED BY <1>1, <1>2, <1>3 DEF CancelStep

LEMMA CronPlace ==
    ASSUME TypeOK, PlaceInv, NEW c \in Call, CronStep(c)
    PROVE  TypeOK' /\ PlaceInv'
<1> USE DEF reviewFrame, carrierVars, customerVars, refundVars
<1>1. CASE CronLoad(c)
  <2> DEFINE todo == Shipment \ (order.confirmed \cup order.rejected)
             new == [At("cronScan") EXCEPT !.doc = order, !.todo = todo]
  <2>1. Op[c] = "cron" BY <1>1 DEF CronLoad
  <2>2. new \in CallState /\ new.pc = "cronScan" /\ new.todo \subseteq Shipment
      BY NewOrderType DEF At, CallState, TypeOK, Running
  <2>3. CallMoves(c, new) BY <1>1 DEF CronLoad, CallMoves
  <2>4. call' \in [Call -> CallState] /\ PlaceInv'
    <3> HIDE DEF new
    <3> QED BY <2>1, <2>2, <2>3, MovePlace DEF Rejecting
  <2> QED BY <1>1, <2>4 DEF CronLoad, TypeOK
<1>2. CASE CronClaimFabric(c)
  <2> DEFINE s == Min(call[c].todo)
             claiming == [call[c] EXCEPT !.pc = "rejectSave", !.at = {s},
                            !.doc = [call[c].doc EXCEPT !.claimed = @ \cup {s}]]
             skipping == [call[c] EXCEPT !.todo = @ \ {s}]
  <2>1. /\ Op[c] = "cron" /\ call[c].pc = "cronScan" /\ call[c].todo \subseteq Shipment
        /\ s \in Fabric /\ s \in Shipment
      BY <1>2, OrderAssumption DEF CronClaimFabric, PlaceInv
  <2>2. CASE CallMoves(c, claiming) /\ Claim(s)
    <3>1. claiming \in CallState /\ claiming.pc = "rejectSave" /\ claiming.at = {s}
      <4> DEFINE doc == [call[c].doc EXCEPT !.claimed = @ \cup {s}]
      <4>1. doc \in OrderDoc BY <2>1, CallFields DEF OrderDoc
      <4> HIDE DEF doc, s
      <4>2. [call[c] EXCEPT !.pc = "rejectSave", !.at = {s}, !.doc = doc] \in CallState
          BY <2>1, <4>1, CallFields DEF CallState, Running
      <4>3. /\ [call[c] EXCEPT !.pc = "rejectSave", !.at = {s}, !.doc = doc].pc = "rejectSave"
            /\ [call[c] EXCEPT !.pc = "rejectSave", !.at = {s}, !.doc = doc].at = {s}
          BY CallFields DEF CallState
      <4> QED BY <4>2, <4>3 DEF doc, s
    <3>2. order' \in OrderDoc BY <2>1, <2>2 DEF Claim, TypeOK, OrderDoc
    <3>3. call' \in [Call -> CallState] /\ PlaceInv'
      <4> HIDE DEF claiming
      <4> QED BY <2>1, <2>2, <3>1, MovePlace DEF Rejecting
    <3> QED BY <1>2, <3>2, <3>3 DEF CronClaimFabric, TypeOK
  <2>3. CASE CallMoves(c, skipping) /\ UNCHANGED order
    <3>1. skipping \in CallState /\ skipping.pc = "cronScan" /\ skipping.todo \subseteq Shipment
        BY <2>1, CallFields DEF CallState
    <3>2. call' \in [Call -> CallState] /\ PlaceInv'
      <4> HIDE DEF skipping
      <4> QED BY <2>1, <2>3, <3>1, MovePlace DEF Rejecting
    <3> QED BY <1>2, <2>3, <3>2 DEF CronClaimFabric, TypeOK
  <2> QED BY <1>2, <2>2, <2>3, CallFields DEF CronClaimFabric, CallMoves, CallState, TypeOK
<1>3. CASE CronClaimGarment(c)
  <2> DEFINE s == Min(call[c].todo)
             own == IF Claimable(s) THEN {s} ELSE {}
             doc == [Fail(call[c].doc, {s}) EXCEPT !.claimed = @ \cup own]
             new == [call[c] EXCEPT !.todo = @ \ {s}, !.at = @ \cup {s}, !.doc = doc]
             parts == {p \in Part : \/ p = <<"fee", s>>
                                    \/ /\ p[1] = "goods"
                                       /\ p[2] \in Undeclined(ItemsOf(Business[s]), call[c].doc)}
  <2>1. /\ Op[c] = "cron" /\ call[c].pc = "cronScan" /\ call[c].todo \subseteq Shipment
        /\ s \in Shipment
      BY <1>3, LeastShipment DEF CronClaimGarment, refundVars, PlaceInv
  <2>2. doc \in OrderDoc
    <3>1. Fail(call[c].doc, {s}) \in OrderDoc BY <2>1, CallFields, FailType
    <3>2. own \subseteq Shipment BY <2>1
    <3> HIDE DEF own
    <3> QED BY <3>1, <3>2 DEF OrderDoc
  <2>3. CallMoves(c, new)
    <3>1. call' = [call EXCEPT ![c].todo = @ \ {s}, ![c].at = @ \cup {s}, ![c].doc = doc]
        BY <1>3 DEF CronClaimGarment, refundVars
    <3> HIDE DEF s, own, doc
    <3> QED BY <3>1, CallFields DEF TypeOK, CallState, CallMoves
  <2>4. new \in CallState /\ new.pc = "cronScan" /\ new.todo \subseteq Shipment
    <3> HIDE DEF doc
    <3> QED BY <2>1, <2>2, CallFields DEF CallState
  <2>5. call' \in [Call -> CallState] /\ PlaceInv'
    <3> HIDE DEF new
    <3> QED BY <2>1, <2>3, <2>4, MovePlace DEF Rejecting
  <2>6. order' \in OrderDoc
    <3>1. order' = order \/ Claim(s) BY <1>3 DEF CronClaimGarment, refundVars
    <3> HIDE DEF s
    <3>2. order.claimed \cup {s} \subseteq Shipment BY <2>1 DEF TypeOK, OrderDoc
    <3>3. [order EXCEPT !.claimed = @ \cup {s}] \in OrderDoc
        BY <3>2 DEF TypeOK, OrderDoc
    <3> QED BY <3>1, <3>3 DEF Claim, TypeOK
  <2>7. background' \subseteq [task: {"refund", "restock"}, shipment: Shipment, parts: SUBSET Part]
    <3>1. parts \subseteq Part OBVIOUS
    <3>2. background' \subseteq background \cup {[task |-> "refund", shipment |-> s, parts |-> parts],
                                               [task |-> "restock", shipment |-> s, parts |-> parts]}
        BY <1>3 DEF CronClaimGarment, refundVars
    <3> HIDE DEF parts, s
    <3> QED BY <2>1, <3>1, <3>2 DEF TypeOK
  <2> QED BY <1>3, <2>5, <2>6, <2>7 DEF CronClaimGarment, refundVars, TypeOK
<1>4. CASE CronSave(c)
  <2> DEFINE d == Settle(call[c].doc)
             st == Written(d.status, call[c].doc.status, Fail(order, call[c].at).status)
  <2>1. order' \in OrderDoc
    <3>1. d \in OrderDoc /\ call[c].doc \in OrderDoc BY CallFields, SettleType
    <3>2. Fail(order, call[c].at) \in OrderDoc BY CallFields, FailType DEF TypeOK
    <3>3. st \in OrderStatus
      <4> HIDE DEF d
      <4> QED BY <3>1, <3>2 DEF OrderDoc, Written
    <3>4. order' = order \/ order' = [Fail(order, call[c].at) EXCEPT !.status = st]
        BY <1>4 DEF CronSave
    <3> HIDE DEF st
    <3> QED BY <3>2, <3>3, <3>4 DEF TypeOK, OrderDoc
  <2>2. Over(c, "done") BY <1>4 DEF CronSave
  <2>3. call' \in [Call -> CallState] /\ PlaceInv' BY <2>2, OverPlace DEF Ended
  <2> QED BY <1>4, <2>1, <2>3 DEF CronSave, TypeOK
<1> QED BY <1>1, <1>2, <1>3, <1>4 DEF CronStep

\* A document with some of its paths set.
LEMMA SaveType ==
    ASSUME NEW d \in OrderDoc, NEW ship \in [Shipment -> ShipmentStatus], NEW status \in OrderStatus
    PROVE  [d EXCEPT !.ship = ship, !.status = status] \in OrderDoc
BY DEF OrderDoc

LEMMA LabelType ==
    ASSUME NEW d \in OrderDoc, NEW ship \in [Shipment -> ShipmentStatus],
           NEW label \in [Shipment -> Nat], NEW status \in OrderStatus
    PROVE  [d EXCEPT !.label = label, !.ship = ship, !.status = status] \in OrderDoc
BY DEF OrderDoc

LEMMA StageType ==
    ASSUME NEW d \in OrderDoc, NEW v \in Nat, NEW a \in SUBSET Shipment,
           NEW b \in SUBSET Shipment, NEW e \in SUBSET Shipment,
           NEW label \in [Shipment -> Nat], NEW ship \in [Shipment -> ShipmentStatus]
    PROVE  [d EXCEPT !.version = v, !.confirmed = a, !.rejected = b,
                     !.claimed = e, !.label = label, !.ship = ship] \in OrderDoc
BY DEF OrderDoc

LEMMA StagePlace ==
    ASSUME TypeOK, PlaceInv, NEW c \in Call, StageStep(c)
    PROVE  TypeOK' /\ PlaceInv'
<1> USE DEF shippingFrame, carrierVars, customerVars, refundVars
<1>1. CASE StageLoad(c)
  <2> DEFINE new == [At("stageSave") EXCEPT !.doc = order]
  <2>1. Op[c] = "stage" BY <1>1 DEF StageLoad
  <2>2. new \in CallState /\ new.pc = "stageSave" BY LoadedState DEF Running
  <2>3. CASE Load(c, "stageSave")
    <3>1. CallMoves(c, new) BY <2>3 DEF Load, CallMoves
    <3> HIDE DEF new
    <3>2. call' \in [Call -> CallState] /\ PlaceInv'
        BY <2>1, <2>2, <3>1, MovePlace DEF Rejecting
    <3> QED BY <1>1, <3>2 DEF StageLoad, TypeOK
  <2>4. CASE End(c, "refused")
    <3>1. call' \in [Call -> CallState] /\ PlaceInv' BY <2>4, EndPlace DEF Ended
    <3> QED BY <1>1, <3>1 DEF StageLoad, TypeOK
  <2> QED BY <1>1, <2>3, <2>4 DEF StageLoad
<1>2. ASSUME NEW ready \in BOOLEAN, StageSave(c, ready) PROVE TypeOK' /\ PlaceInv'
  <2> DEFINE s == Min(ShipmentsOf(Arg[c]) \ Fabric)
             loaded == call[c].doc
             ship == IF ready /\ loaded.ship[s] = "pending"
                     THEN [loaded.ship EXCEPT ![s] = "ready"] ELSE loaded.ship
  <2>1. loaded \in OrderDoc BY CallFields
  <2>2. ship \in [Shipment -> ShipmentStatus]
    <3> HIDE DEF s, loaded
    <3> QED BY <2>1 DEF OrderDoc, ShipmentStatus
  <2>3. order' \in OrderDoc
    <3>1. \/ order' = order
          \/ order' = [order EXCEPT !.version = @ + 1,
                        !.confirmed = loaded.confirmed, !.rejected = loaded.rejected,
                        !.claimed = loaded.claimed, !.label = loaded.label, !.ship = ship]
        BY <1>2 DEF StageSave
    <3>2. /\ loaded.confirmed \in SUBSET Shipment /\ loaded.rejected \in SUBSET Shipment
          /\ loaded.claimed \in SUBSET Shipment /\ loaded.label \in [Shipment -> Nat]
        BY <2>1 DEF OrderDoc
    <3>3. order \in OrderDoc /\ order.version + 1 \in Nat BY DEF TypeOK, OrderDoc
    <3> HIDE DEF loaded, ship
    <3>4. [order EXCEPT !.version = @ + 1,
                        !.confirmed = loaded.confirmed, !.rejected = loaded.rejected,
                        !.claimed = loaded.claimed, !.label = loaded.label, !.ship = ship]
            \in OrderDoc
        BY <2>2, <3>2, <3>3, StageType
    <3> QED BY <3>1, <3>3, <3>4
  <2>4. End(c, "done") \/ End(c, "conflict") BY <1>2 DEF StageSave
  <2>5. call' \in [Call -> CallState] /\ PlaceInv' BY <2>4, EndPlace DEF Ended
  <2> QED BY <1>2, <2>3, <2>5 DEF StageSave, TypeOK
<1> QED BY <1>1, <1>2 DEF StageStep

\* One shipment's status is set.
LEMMA ShipType ==
    ASSUME NEW d \in OrderDoc, NEW s, NEW st \in ShipmentStatus
    PROVE  [d EXCEPT !.ship[s] = st] \in OrderDoc
<1>1. [d.ship EXCEPT ![s] = st] \in [Shipment -> ShipmentStatus] BY DEF OrderDoc
<1>2. [d EXCEPT !.ship[s] = st] = [d EXCEPT !.ship = [d.ship EXCEPT ![s] = st]] OBVIOUS
<1> QED BY <1>1, <1>2 DEF OrderDoc

LEMMA FulfilPlace ==
    ASSUME TypeOK, PlaceInv, NEW c \in Call, FulfilStep(c)
    PROVE  TypeOK' /\ PlaceInv'
<1> USE DEF shippingFrame, carrierVars, customerVars, refundVars
<1>1. CASE FulfilCheck(c)
  <2> DEFINE new == [call[c] EXCEPT !.pc = "claim"]
  <2>1. Op[c] = "fulfil" BY <1>1 DEF FulfilCheck
  <2>2. new \in CallState /\ new.pc = "claim" BY CallFields DEF CallState, Running
  <2>3. CASE Goto(c, "claim")
    <3>1. CallMoves(c, new) BY <2>3 DEF Goto, CallMoves
    <3> HIDE DEF new
    <3>2. call' \in [Call -> CallState] /\ PlaceInv'
        BY <2>1, <2>2, <3>1, MovePlace DEF Rejecting
    <3> QED BY <1>1, <3>2 DEF FulfilCheck, TypeOK
  <2>4. CASE End(c, "refused")
    <3>1. call' \in [Call -> CallState] /\ PlaceInv' BY <2>4, EndPlace DEF Ended
    <3> QED BY <1>1, <3>1 DEF FulfilCheck, TypeOK
  <2> QED BY <1>1, <2>3, <2>4 DEF FulfilCheck
<1>2. CASE FulfilClaim(c)
  <2> DEFINE new == [At("label") EXCEPT !.doc = order']
  <2>1. Op[c] = "fulfil" BY <1>2 DEF FulfilClaim, PlaceInv
  <2>2. order' \in OrderDoc
    <3>1. order' = order \/ \E t : order' = [order EXCEPT !.ship[t] = "ready"]
        BY <1>2 DEF FulfilClaim
    <3>2. CASE \E t : order' = [order EXCEPT !.ship[t] = "ready"]
      <4>1. PICK t : order' = [order EXCEPT !.ship[t] = "ready"] BY <3>2
      <4>2. "ready" \in ShipmentStatus /\ order \in OrderDoc BY DEF ShipmentStatus, TypeOK
      <4>3. [order EXCEPT !.ship[t] = "ready"] \in OrderDoc BY <4>2, ShipType
      <4> QED BY <4>1, <4>3
    <3> QED BY <3>1, <3>2 DEF TypeOK
  <2>3. new \in CallState /\ new.pc = "label"
      BY <2>2, NewOrderType DEF At, CallState, Running
  <2>4. CASE End(c, "refused") \/ End(c, "gated")
    <3>1. call' \in [Call -> CallState] /\ PlaceInv' BY <2>4, EndPlace DEF Ended
    <3> QED BY <1>2, <2>2, <3>1 DEF FulfilClaim, TypeOK
  <2>5. CASE CallMoves(c, new)
    <3> HIDE DEF new
    <3>1. call' \in [Call -> CallState] /\ PlaceInv'
        BY <2>1, <2>3, <2>5, MovePlace DEF Rejecting
    <3> QED BY <1>2, <2>2, <3>1 DEF FulfilClaim, TypeOK
  <2> QED BY <1>2, <2>4, <2>5 DEF FulfilClaim, CallMoves
<1>3. CASE BuyLabel(c)
  <2> DEFINE s == FirstOf(Arg[c])
             doc == [call[c].doc EXCEPT !.label[s] = labels[s] + 1]
             new == [call[c] EXCEPT !.pc = "shipSave", !.doc = doc]
  <2>1. Op[c] = "fulfil" BY <1>3 DEF BuyLabel, PlaceInv
  <2>2. s \in Shipment BY <2>1, ArgType, FirstType
  <2>3. doc \in OrderDoc
    <3>1. labels[s] + 1 \in Nat BY <2>2 DEF TypeOK
    <3>2. doc = [call[c].doc EXCEPT !.label = [call[c].doc.label EXCEPT ![s] = labels[s] + 1]]
        OBVIOUS
    <3>3. [call[c].doc.label EXCEPT ![s] = labels[s] + 1] \in [Shipment -> Nat]
        BY <3>1, CallFields DEF OrderDoc
    <3> HIDE DEF s, doc
    <3> QED BY <3>2, <3>3, CallFields DEF OrderDoc
  <2>4. CallMoves(c, new)
    <3> HIDE DEF s
    <3> QED BY <1>3, CallFields DEF BuyLabel, CallMoves, CallState, TypeOK, s
  <2>5. new \in CallState /\ new.pc = "shipSave"
    <3> HIDE DEF doc
    <3> QED BY <2>3, CallFields DEF CallState, Running
  <2>6. call' \in [Call -> CallState] /\ PlaceInv'
    <3> HIDE DEF new
    <3> QED BY <2>1, <2>4, <2>5, MovePlace DEF Rejecting
  <2>7. labels' \in [Shipment -> Nat]
    <3>1. labels' = [labels EXCEPT ![s] = @ + 1] BY <1>3 DEF BuyLabel
    <3> HIDE DEF s
    <3> QED BY <2>2, <3>1 DEF TypeOK
  <2> QED BY <1>3, <2>6, <2>7 DEF BuyLabel, TypeOK
<1>4. CASE LabelFails(c)
  <2>1. order' \in OrderDoc
    <3>1. order' = order \/ \E t : order' = [order EXCEPT !.ship[t] = "pending"]
        BY <1>4 DEF LabelFails
    <3>2. CASE \E t : order' = [order EXCEPT !.ship[t] = "pending"]
      <4>1. PICK t : order' = [order EXCEPT !.ship[t] = "pending"] BY <3>2
      <4>2. "pending" \in ShipmentStatus /\ order \in OrderDoc BY DEF ShipmentStatus, TypeOK
      <4>3. [order EXCEPT !.ship[t] = "pending"] \in OrderDoc BY <4>2, ShipType
      <4> QED BY <4>1, <4>3
    <3> QED BY <3>1, <3>2 DEF TypeOK
  <2>2. call' \in [Call -> CallState] /\ PlaceInv'
      BY <1>4, EndPlace DEF LabelFails, Ended
  <2> QED BY <1>4, <2>1, <2>2 DEF LabelFails, TypeOK
<1>5. CASE ShipSave(c)
  <2> DEFINE s == FirstOf(Arg[c])
             loaded == call[c].doc
             allShipped == \A t \in Shipment \ {s} :
                             loaded.ship[t] \in {"shipped", "in_transit", "delivered"}
             st == Written("shipped", loaded.ship[s], order.ship[s])
             status == IF allShipped THEN Written("in_transit", loaded.status, order.status)
                       ELSE order.status
  <2>1. s \in Shipment BY <1>5, ArgType, FirstType DEF ShipSave, PlaceInv
  <2>2. loaded \in OrderDoc /\ order \in OrderDoc BY CallFields DEF TypeOK
  <2>3. order' \in OrderDoc
    <3>1. order' = order \/ order' = [order EXCEPT !.label[s] = loaded.label[s],
                                                 !.ship[s] = st, !.status = status]
        BY <1>5 DEF ShipSave
    <3>2. st \in ShipmentStatus
      <4> HIDE DEF s, loaded
      <4> QED BY <2>1, <2>2 DEF Written, OrderDoc, ShipmentStatus
    <3>3. status \in OrderStatus
      <4> HIDE DEF allShipped, loaded
      <4> QED BY <2>2 DEF Written, OrderDoc, OrderStatus
    <3> HIDE DEF s, loaded, st, status
    <3> DEFINE label == [order.label EXCEPT ![s] = loaded.label[s]]
               ship == [order.ship EXCEPT ![s] = st]
    <3>4. label \in [Shipment -> Nat] /\ ship \in [Shipment -> ShipmentStatus]
        BY <2>1, <2>2, <3>2 DEF OrderDoc
    <3>5. [order EXCEPT !.label[s] = loaded.label[s], !.ship[s] = st, !.status = status]
            = [order EXCEPT !.label = label, !.ship = ship, !.status = status]
        BY <2>2 DEF OrderDoc
    <3> HIDE DEF label, ship
    <3>6. [order EXCEPT !.label = label, !.ship = ship, !.status = status] \in OrderDoc
        BY <2>2, <3>3, <3>4, LabelType
    <3> QED BY <2>2, <3>1, <3>5, <3>6
  <2>4. End(c, "done") \/ End(c, "conflict") BY <1>5 DEF ShipSave
  <2>5. call' \in [Call -> CallState] /\ PlaceInv' BY <2>4, EndPlace DEF Ended
  <2> QED BY <1>5, <2>3, <2>5 DEF ShipSave, TypeOK
<1> QED BY <1>1, <1>2, <1>3, <1>4, <1>5 DEF FulfilStep

LEMMA HookPlace ==
    ASSUME TypeOK, PlaceInv, NEW c \in Call, HookStep(c)
    PROVE  TypeOK' /\ PlaceInv'
<1> USE DEF shippingFrame, carrierVars, customerVars, refundVars
<1>1. ASSUME NEW event \in {"in_transit", "delivered", "failed"}, HookLoad(c, event)
      PROVE  TypeOK' /\ PlaceInv'
  <2> DEFINE pc == IF Completes(order, Arg[c], event) THEN "schedule" ELSE "hookSave"
             new == [At(pc) EXCEPT !.doc = order, !.event = event]
  <2>1. Op[c] = "webhook" BY <1>1 DEF HookLoad
  <2>2. pc \in {"schedule", "hookSave"} OBVIOUS
  <2>3. new \in CallState /\ new.pc = pc /\ new.event # ""
    <3> HIDE DEF pc
    <3> QED BY <2>2, NewOrderType DEF At, CallState, TypeOK, Running
  <2>4. CASE CallMoves(c, new)
    <3>1. call' \in [Call -> CallState] /\ PlaceInv'
      <4> HIDE DEF new, pc
      <4> QED BY <2>1, <2>2, <2>3, <2>4, MovePlace DEF Rejecting
    <3> QED BY <1>1, <3>1 DEF HookLoad, TypeOK
  <2>5. CASE End(c, "refused")
    <3>1. call' \in [Call -> CallState] /\ PlaceInv' BY <2>5, EndPlace DEF Ended
    <3> QED BY <1>1, <3>1 DEF HookLoad, TypeOK
  <2> QED BY <1>1, <2>4, <2>5 DEF HookLoad, CallMoves
<1>2. CASE HookSchedule(c)
  <2> DEFINE new == [call[c] EXCEPT !.pc = "hookSave"]
  <2>1. Op[c] = "webhook" /\ call[c].event # "" BY <1>2 DEF HookSchedule, PlaceInv
  <2>2. CallMoves(c, new) BY <1>2 DEF HookSchedule, Goto, CallMoves
  <2>3. new \in CallState /\ new.pc = "hookSave" /\ new.event = call[c].event
      BY CallFields DEF CallState, Running
  <2>4. call' \in [Call -> CallState] /\ PlaceInv'
    <3> HIDE DEF new
    <3> QED BY <2>1, <2>2, <2>3, MovePlace DEF Rejecting
  <2> QED BY <1>2, <2>4 DEF HookSchedule, TypeOK
<1>3. CASE HookSave(c)
  <2> DEFINE s == Arg[c]
             loaded == call[c].doc
             event == call[c].event
             ship == [loaded.ship EXCEPT ![s] = event]
             status == IF Completes(loaded, s, event) THEN "completed"
                       ELSE IF \E t \in Shipment : ship[t] \in {"shipped", "in_transit"}
                       THEN "in_transit" ELSE loaded.status
             st == Written(event, loaded.ship[s], order.ship[s])
             stat == Written(status, loaded.status, order.status)
  <2>1. s \in Shipment /\ event \in ShipmentStatus
    <3>1. event # "" /\ Op[c] = "webhook" BY <1>3 DEF HookSave, PlaceInv
    <3>2. event \in {"", "in_transit", "delivered", "failed"} BY CallFields DEF CallState
    <3> QED BY <3>1, <3>2, ArgType DEF ShipmentStatus
  <2>2. loaded \in OrderDoc /\ order \in OrderDoc BY CallFields DEF TypeOK
  <2>3. order' \in OrderDoc
    <3>1. order' = order \/ order' = [order EXCEPT !.ship[s] = st, !.status = stat]
        BY <1>3 DEF HookSave
    <3>2. st \in ShipmentStatus
      <4> HIDE DEF s, loaded, event
      <4> QED BY <2>1, <2>2 DEF Written, OrderDoc
    <3>3. stat \in OrderStatus
      <4>1. status \in OrderStatus
        <5> HIDE DEF ship, loaded
        <5> QED BY <2>2 DEF OrderDoc, OrderStatus
      <4> HIDE DEF status, loaded
      <4> QED BY <2>2, <4>1 DEF Written, OrderDoc
    <3> HIDE DEF s, st, stat
    <3> DEFINE moved == [order.ship EXCEPT ![s] = st]
    <3>4. moved \in [Shipment -> ShipmentStatus] BY <2>1, <2>2, <3>2 DEF OrderDoc
    <3>5. [order EXCEPT !.ship[s] = st, !.status = stat]
            = [order EXCEPT !.ship = moved, !.status = stat]
        BY <2>2 DEF OrderDoc
    <3> HIDE DEF moved
    <3>6. [order EXCEPT !.ship = moved, !.status = stat] \in OrderDoc
        BY <2>2, <3>3, <3>4, SaveType
    <3> QED BY <2>2, <3>1, <3>5, <3>6
  <2>4. End(c, "done") \/ End(c, "conflict") BY <1>3 DEF HookSave
  <2>5. call' \in [Call -> CallState] /\ PlaceInv' BY <2>4, EndPlace DEF Ended
  <2> QED BY <1>3, <2>3, <2>5 DEF HookSave, TypeOK
<1> QED BY <1>1, <1>2, <1>3 DEF HookStep

\* What auto-reject runs started in background.
LEMMA BackgroundPlace ==
    ASSUME TypeOK, PlaceInv, BackgroundStep
    PROVE  TypeOK' /\ PlaceInv'
<1> USE DEF reviewFrame, carrierVars
<1>1. PICK t \in background : BackgroundRefund(t) \/ BackgroundRestore(t) BY DEF BackgroundStep
<1>2. CASE BackgroundRefund(t)
  <2>1. refund' \in [Part -> Nat] BY <1>2, PaidType DEF BackgroundRefund, RefundParts, TypeOK
  <2>2. order' \in OrderDoc BY <1>2, PartlyType DEF BackgroundRefund, RefundParts, TypeOK
  <2> QED BY <1>2, <2>1, <2>2 DEF BackgroundRefund, RefundParts, TypeOK, PlaceInv
<1>3. CASE BackgroundRestore(t)
  <2>1. restocked' \in [Item -> Nat] BY <1>3, RestoreType DEF BackgroundRestore, refundVars
  <2> QED BY <1>3, <2>1 DEF BackgroundRestore, refundVars, TypeOK, PlaceInv
<1> QED BY <1>1, <1>2, <1>3

\* The carrier moves parcels only.
LEMMA CarrierPlace ==
    ASSUME TypeOK, PlaceInv, CarrierStep
    PROVE  TypeOK' /\ PlaceInv'
<1> USE DEF shippingFrame, customerVars, refundVars
<1>1. PICK s \in Shipment : \/ \E n \in 1..MaxLabel : Pickup(s, n)
                            \/ \E at \in {"delivered", "failed"} : Arrive(s, at)
    BY DEF CarrierStep
<1>2. ASSUME NEW n \in 1..MaxLabel, Pickup(s, n) PROVE TypeOK' /\ PlaceInv'
  <2>1. n \in Nat BY <1>2 DEF Pickup, TypeOK
  <2>2. parcel' \in [Shipment -> [label: Nat, at: {"none", "moving", "delivered", "failed"}]]
      BY <1>2, <2>1 DEF Pickup, TypeOK
  <2> QED BY <1>2, <2>2 DEF Pickup, TypeOK, PlaceInv
<1>3. ASSUME NEW at \in {"delivered", "failed"}, Arrive(s, at) PROVE TypeOK' /\ PlaceInv'
  <2>1. parcel' \in [Shipment -> [label: Nat, at: {"none", "moving", "delivered", "failed"}]]
      BY <1>3 DEF Arrive, TypeOK
  <2> QED BY <1>3, <2>1 DEF Arrive, TypeOK, PlaceInv
<1> QED BY <1>1, <1>2, <1>3

LEMMA CrashPlace ==
    ASSUME TypeOK, PlaceInv, Crash
    PROVE  TypeOK' /\ PlaceInv'
<1> USE DEF carrierVars
<1>1. crashes' \in Nat BY DEF Crash, refundVars, TypeOK
<1>2. CASE \E c \in Call : call[c].pc \in Running /\ Over(c, "crashed")
  <2>1. PICK c \in Call : Over(c, "crashed") BY <1>2
  <2>2. call' \in [Call -> CallState] /\ PlaceInv' BY <2>1, OverPlace DEF Ended
  <2>3. background' \subseteq background BY DEF Crash, refundVars
  <2> QED BY <1>1, <2>2, <2>3 DEF Crash, refundVars, TypeOK
<1>3. CASE UNCHANGED call
  <2>1. background' \subseteq background BY DEF Crash, refundVars
  <2> QED BY <1>1, <1>3, <2>1 DEF Crash, refundVars, TypeOK, PlaceInv
<1> QED BY <1>2, <1>3 DEF Crash, refundVars

LEMMA NextPlace == TypeOK /\ PlaceInv /\ [Next]_vars => TypeOK' /\ PlaceInv'
<1> SUFFICES ASSUME TypeOK, PlaceInv, [Next]_vars PROVE TypeOK' /\ PlaceInv' OBVIOUS
<1>1. ASSUME NEW c \in Call,
             \/ ConfirmStep(c) \/ RejectStep(c) \/ CancelStep(c) \/ CronStep(c)
             \/ StageStep(c) \/ FulfilStep(c) \/ HookStep(c)
      PROVE  TypeOK' /\ PlaceInv'
    BY <1>1, ConfirmPlace, RejectPlace, CancelPlace, CronPlace, StagePlace, FulfilPlace, HookPlace
<1>2. CASE UNCHANGED vars BY <1>2 DEF vars, refundVars, TypeOK, PlaceInv
<1> QED BY <1>1, <1>2, BackgroundPlace, CarrierPlace, CrashPlace DEF Next

\* Every state of an order, of the calls on it and of its parcels has its type.
THEOREM OrderTypeCorrect == Spec => [](TypeOK /\ PlaceInv)
BY InitPlace, NextPlace, PTL DEF Spec

-----------------------------------------------------------------------------
(* How a call moves, and what a rejection makes of a document.              *)

\* Nothing else moves than call c.
Still(c) == \A d \in Call \ {c} : call'[d] = call[d]

LEMMA Moves ==
    ASSUME TypeOK, NEW c \in Call, NEW pc
    PROVE  /\ End(c, pc) => Still(c) /\ call'[c] = At(pc)
           /\ Over(c, pc) => Still(c) /\ call'[c] \in {At(pc), At("new")}
           /\ Load(c, pc) => Still(c) /\ call'[c] = [At(pc) EXCEPT !.doc = order]
           /\ Goto(c, pc) => Still(c) /\ call'[c] = [call[c] EXCEPT !.pc = pc]
<1>1. \A new : call' = [call EXCEPT ![c] = new] => Still(c) /\ call'[c] = new
    BY DEF TypeOK, Still
<1>2. End(c, pc) => call' = [call EXCEPT ![c] = At(pc)] BY DEF End
<1>3. Over(c, pc) => call' = [call EXCEPT ![c] = At(pc)] \/ call' = [call EXCEPT ![c] = At("new")]
    BY DEF Over, End
<1>4. Load(c, pc) => call' = [call EXCEPT ![c] = [At(pc) EXCEPT !.doc = order]] BY DEF Load
<1>5. Goto(c, pc) => call' = [call EXCEPT ![c] = [call[c] EXCEPT !.pc = pc]]
    BY DEF Goto, TypeOK, CallState
<1> QED BY <1>1, <1>2, <1>3, <1>4, <1>5

\* The fields of a fresh and of a loaded state.
LEMMA AtIs ==
    ASSUME NEW pc
    PROVE  /\ At(pc).pc = pc /\ At(pc).doc = NewOrder /\ At(pc).todo = {}
           /\ At(pc).at = {} /\ At(pc).event = ""
BY DEF At

LEMMA LoadIs ==
    ASSUME NEW pc, NEW c \in Call, TypeOK, Load(c, pc)
    PROVE  /\ Still(c) /\ call'[c].pc = pc /\ call'[c].doc = order
           /\ call'[c].todo = {} /\ call'[c].at = {} /\ call'[c].event = ""
<1>1. LET new == [At(pc) EXCEPT !.doc = order] IN
        new.pc = pc /\ new.doc = order /\ new.todo = {} /\ new.at = {} /\ new.event = ""
    BY DEF At
<1>2. Still(c) /\ call'[c] = [At(pc) EXCEPT !.doc = order] BY Moves
<1> QED BY <1>1, <1>2

LEMMA GotoIs ==
    ASSUME NEW pc, NEW c \in Call, TypeOK, Goto(c, pc)
    PROVE  /\ Still(c) /\ call'[c].pc = pc /\ call'[c].doc = call[c].doc
           /\ call'[c].todo = call[c].todo /\ call'[c].at = call[c].at
           /\ call'[c].event = call[c].event
<1>1. LET new == [call[c] EXCEPT !.pc = pc] IN
        /\ new.pc = pc /\ new.doc = call[c].doc /\ new.todo = call[c].todo
        /\ new.at = call[c].at /\ new.event = call[c].event
    BY CallFields DEF CallState
<1>2. Still(c) /\ call'[c] = [call[c] EXCEPT !.pc = pc] BY Moves
<1> QED BY <1>1, <1>2

LEMMA EndIs ==
    ASSUME NEW pc, NEW c \in Call, TypeOK, End(c, pc)
    PROVE  /\ Still(c) /\ call'[c].pc = pc /\ call'[c].doc = NewOrder
           /\ call'[c].todo = {} /\ call'[c].at = {} /\ call'[c].event = ""
<1>1. Still(c) /\ call'[c] = At(pc) BY Moves
<1> QED BY <1>1, AtIs

LEMMA OverIs ==
    ASSUME NEW pc, NEW c \in Call, TypeOK, Over(c, pc)
    PROVE  /\ Still(c) /\ call'[c].pc \in {pc, "new"} /\ call'[c].doc = NewOrder
           /\ call'[c].todo = {} /\ call'[c].at = {} /\ call'[c].event = ""
<1>1. End(c, pc) \/ End(c, "new") BY DEF Over
<1> QED BY <1>1, EndIs

\* The shipments that a rejection fails.
Failing(c) ==
    LET d == call[c].doc
        v == IF Op[c] = "rejectItem" THEN Owner[Arg[c]] ELSE Arg[c]
    IN IF Unwinds(c) THEN {Unwound(c)} \cup ActiveGarment(d, Destination[Unwound(c)])
       ELSE ({Leg[i] : i \in RejectedItems(c)} \ ({0} \cup d.rejected))
              \cup (IF ItemsOf(v) \subseteq d.declined \cup RejectedItems(c)
                    THEN ActiveGarment(d, v) ELSE {})

LEMMA SettleIs ==
    ASSUME NEW d \in OrderDoc
    PROVE  LET e == Settle(d) IN
           /\ e.version = d.version /\ e.confirmed = d.confirmed /\ e.rejected = d.rejected
           /\ e.claimed = d.claimed /\ e.ship = d.ship /\ e.label = d.label
           /\ e.declined = d.declined /\ e.deducted = d.deducted
           /\ e.status \in {d.status, "cancelled", "processing"}
           /\ e.refundStatus \in {d.refundStatus, "refunded"}
BY DEF Settle, OrderDoc

LEMMA FailIs ==
    ASSUME NEW d \in OrderDoc, NEW S \in SUBSET Shipment
    PROVE  LET e == Fail(d, S) IN
           /\ e.version = d.version /\ e.confirmed = d.confirmed
           /\ e.rejected = d.rejected \cup S
           /\ e.claimed = d.claimed /\ e.label = d.label
           /\ e.declined = d.declined /\ e.deducted = d.deducted
           /\ e.status = d.status /\ e.refundStatus = d.refundStatus
           /\ \A s \in Shipment : e.ship[s] = "delivered" => d.ship[s] = "delivered"
BY DEF Fail, OrderDoc

LEMMA AfterRejectIs ==
    ASSUME TypeOK, PlaceInv, NEW c \in Call, call[c].pc \in Rejecting
    PROVE  LET d == call[c].doc
               e == AfterReject(c)
           IN /\ Failing(c) \subseteq Shipment
              /\ e.version = d.version /\ e.confirmed = d.confirmed
              /\ e.rejected = d.rejected \cup Failing(c)
              /\ e.claimed = d.claimed /\ e.label = d.label
              /\ e.declined = d.declined \cup (IF Unwinds(c) THEN {} ELSE RejectedItems(c))
              /\ e.status \in {d.status, "cancelled", "processing"}
              /\ e.refundStatus \in {d.refundStatus, "refunded"}
              /\ \A s \in Shipment : e.ship[s] = "delivered" => d.ship[s] = "delivered"
<1> DEFINE d == call[c].doc
           v == IF Op[c] = "rejectItem" THEN Owner[Arg[c]] ELSE Arg[c]
<1>1. d \in OrderDoc BY CallFields
<1>2. CASE Unwinds(c)
  <2>1. Unwound(c) \in Fabric BY <1>2, RejectionParts
  <2>2. Failing(c) = {Unwound(c)} \cup ActiveGarment(d, Destination[Unwound(c)])
      BY <1>2 DEF Failing
  <2>3. Failing(c) \in SUBSET Shipment BY <1>1, <2>1, <2>2, GarmentType, OrderAssumption
  <2>4. AfterReject(c) = Settle(Fail(d, Failing(c))) BY <1>2, <2>2 DEF AfterReject, UnwindFabric
  <2> HIDE DEF d
  <2>5. Fail(d, Failing(c)) \in OrderDoc BY <1>1, <2>3, FailType
  <2>6. d.declined \cup (IF Unwinds(c) THEN {} ELSE RejectedItems(c)) = d.declined BY <1>2
  <2> QED BY <1>1, <2>3, <2>4, <2>5, <2>6, FailIs, SettleIs DEF d
<1>3. CASE ~Unwinds(c)
  <2> DEFINE items == RejectedItems(c)
             declined == d.declined \cup items
             failed == Fail(d, Failing(c))
             both == [failed EXCEPT !.declined = declined]
  <2>1. items \subseteq Item BY <1>3, RejectionParts
  <2>2. Failing(c) \in SUBSET Shipment
    <3>1. ActiveGarment(d, v) \subseteq Shipment BY <1>1, GarmentType
    <3>2. {Leg[i] : i \in items} \ ({0} \cup d.rejected) \subseteq Shipment
        BY <2>1, OrderAssumption
    <3> QED BY <1>3, <3>1, <3>2 DEF Failing
  <2>3. AfterReject(c) = Settle(both) BY <1>3 DEF AfterReject, RejectItems, Failing
  <2>4. failed \in OrderDoc BY <1>1, <2>2, FailType
  <2>5. declined \subseteq Item BY <1>1, <2>1 DEF OrderDoc
  <2>6. declined = d.declined \cup (IF Unwinds(c) THEN {} ELSE RejectedItems(c)) BY <1>3
  <2>7. LET e == failed IN
           /\ e.version = d.version /\ e.confirmed = d.confirmed
           /\ e.rejected = d.rejected \cup Failing(c)
           /\ e.claimed = d.claimed /\ e.label = d.label
           /\ e.status = d.status /\ e.refundStatus = d.refundStatus
           /\ \A s \in Shipment : e.ship[s] = "delivered" => d.ship[s] = "delivered"
      BY <1>1, <2>2, FailIs
  <2> HIDE DEF failed, declined, items
  <2>8. /\ both \in OrderDoc
        /\ both.version = failed.version /\ both.confirmed = failed.confirmed
        /\ both.rejected = failed.rejected /\ both.claimed = failed.claimed
        /\ both.label = failed.label /\ both.declined = declined
        /\ both.status = failed.status /\ both.refundStatus = failed.refundStatus
        /\ both.ship = failed.ship
      BY <2>4, <2>5 DEF OrderDoc
  <2> HIDE DEF both, d
  <2> QED BY <2>2, <2>3, <2>6, <2>7, <2>8, SettleIs DEF d
<1> QED BY <1>2, <1>3

LEMMA PartlyIs ==
    ASSUME NEW d \in OrderDoc
    PROVE  LET e == PartiallyRefunded(d) IN
           /\ e.version = d.version /\ e.confirmed = d.confirmed /\ e.rejected = d.rejected
           /\ e.claimed = d.claimed /\ e.ship = d.ship /\ e.label = d.label
           /\ e.declined = d.declined /\ e.deducted = d.deducted /\ e.status = d.status
BY DEF PartiallyRefunded, OrderDoc

-----------------------------------------------------------------------------
(* What each step does to the document and to its call.                    *)

LEMMA ConfirmSaveIs ==
    ASSUME TypeOK, NEW c \in Call, ConfirmSave(c)
    PROVE  /\ Still(c) /\ call'[c].pc \notin Running /\ call'[c].doc = NewOrder
           /\ order'.version = order.version /\ order'.rejected = order.rejected
           /\ order'.claimed = order.claimed /\ order'.ship = order.ship
           /\ order'.declined = order.declined /\ order'.deducted = order.deducted
           /\ order'.status = "completed" => order.status = "completed"
<1> DEFINE loaded == call[c].doc
           d == [loaded EXCEPT !.confirmed = @ \cup {FirstOf(Arg[c])}]
           status == IF AllConfirmed(d) THEN "processing" ELSE loaded.status
           st == Written(status, loaded.status, order.status)
<1>1. order' = order \/ order' = [order EXCEPT !.confirmed = @ \cup {FirstOf(Arg[c])},
                                              !.status = st]
    BY DEF ConfirmSave
<1>2. st = "completed" => order.status = "completed" BY DEF Written
<1>3. End(c, "done") \/ End(c, "conflict") BY DEF ConfirmSave
<1>4. Still(c) /\ call'[c].pc \notin Running /\ call'[c].doc = NewOrder
    BY <1>3, EndIs DEF Running
<1> HIDE DEF st
<1> QED BY <1>1, <1>2, <1>4 DEF TypeOK, OrderDoc

LEMMA RejectShipmentLoadIs ==
    ASSUME TypeOK, NEW c \in Call, RejectShipmentLoad(c)
    PROVE  /\ Still(c) /\ order' = order
           /\ \/ /\ call'[c].pc = "rejectSave" /\ call'[c].doc = order
                 /\ call'[c].at = {FirstOf(Arg[c])} \cap Fabric
                 /\ FirstOf(Arg[c]) \notin order.rejected
              \/ call'[c].pc \notin Running /\ call'[c].doc = NewOrder
<1> DEFINE new == [At("rejectSave") EXCEPT !.doc = order, !.at = {FirstOf(Arg[c])} \cap Fabric]
<1>1. CASE call' = [call EXCEPT ![c] = new] /\ FirstOf(Arg[c]) \notin order.rejected
  <2>1. /\ new.doc = order /\ new.pc = "rejectSave"
        /\ new.at = {FirstOf(Arg[c])} \cap Fabric
      BY DEF At
  <2> HIDE DEF new
  <2>2. Still(c) /\ call'[c] = new BY <1>1 DEF Still, TypeOK
  <2> QED BY <1>1, <2>1, <2>2 DEF RejectShipmentLoad
<1>2. CASE End(c, "refused")
  <2>1. Still(c) /\ call'[c].pc \notin Running /\ call'[c].doc = NewOrder
      BY <1>2, EndIs DEF Running
  <2> QED BY <2>1 DEF RejectShipmentLoad
<1> QED BY <1>1, <1>2 DEF RejectShipmentLoad

LEMMA RejectItemLoadIs ==
    ASSUME TypeOK, NEW c \in Call, RejectItemLoad(c)
    PROVE  /\ Still(c) /\ order' = order
           /\ \/ /\ call'[c].pc = "rejectSave" /\ call'[c].doc = order
                 /\ call'[c].at = {} /\ Arg[c] \notin order.declined
              \/ call'[c].pc \notin Running /\ call'[c].doc = NewOrder
<1>1. CASE Load(c, "rejectSave") /\ Arg[c] \notin order.declined
    BY <1>1, LoadIs DEF RejectItemLoad
<1>2. CASE End(c, "refused")
  <2>1. Still(c) /\ call'[c].pc \notin Running /\ call'[c].doc = NewOrder
      BY <1>2, EndIs DEF Running
  <2> QED BY <2>1 DEF RejectItemLoad
<1> QED BY <1>1, <1>2 DEF RejectItemLoad

\* A rejection writes its copy over the document, or finds that it is stale.
LEMMA RejectSaveIs ==
    ASSUME TypeOK, PlaceInv, NEW c \in Call, RejectSave(c)
    PROVE  LET d == call[c].doc IN
           /\ Still(c) /\ order'.deducted = order.deducted
           /\ order'.status = "completed" => order.status = "completed"
           /\ \/ /\ Current(c)
                 /\ call'[c].pc = "rejectRefund" /\ call'[c].doc = d
                 /\ call'[c].at = call[c].at
                 /\ order'.version = order.version + 1
                 /\ order'.rejected = d.rejected \cup Failing(c)
                 /\ order'.claimed = d.claimed
                 /\ order'.declined = IF Unwinds(c) THEN order.declined
                                      ELSE d.declined \cup RejectedItems(c)
                 /\ \A s \in Shipment : order'.ship[s] = "delivered" => d.ship[s] = "delivered"
              \/ /\ ~Current(c) /\ order' = order
                 /\ call'[c].pc \notin Running /\ call'[c].doc = NewOrder
<1>1. CASE ~Current(c)
  <2>1. order' = order /\ Over(c, "conflict") BY <1>1 DEF RejectSave
  <2>2. Still(c) /\ call'[c].pc \in {"conflict", "new"} /\ call'[c].doc = NewOrder
      BY <2>1, OverIs
  <2>3. call'[c].pc \notin Running BY <2>2 DEF Running
  <2> QED BY <1>1, <2>1, <2>2, <2>3
<1>2. CASE Current(c)
  <2> DEFINE d == AfterReject(c)
             loaded == call[c].doc
             st == Written(d.status, loaded.status, order.status)
             rs == Written(d.refundStatus, loaded.refundStatus, order.refundStatus)
             declined == IF Unwinds(c) THEN order.declined ELSE d.declined
  <2>1. order' = [d EXCEPT !.version = @ + 1, !.status = st, !.refundStatus = rs,
                           !.declined = declined, !.deducted = order.deducted]
      BY <1>2 DEF RejectSave
  <2>2. call[c].pc \in Rejecting BY DEF RejectSave, Rejecting
  <2>3. d \in OrderDoc BY <2>2, RejectionParts
  <2>4. /\ d.status \in {loaded.status, "cancelled", "processing"}
        /\ d.version = loaded.version /\ d.claimed = loaded.claimed
        /\ d.rejected = loaded.rejected \cup Failing(c)
        /\ d.declined = loaded.declined \cup (IF Unwinds(c) THEN {} ELSE RejectedItems(c))
        /\ \A s \in Shipment : d.ship[s] = "delivered" => loaded.ship[s] = "delivered"
      BY <2>2, AfterRejectIs
  <2>5. st = "completed" => order.status = "completed" BY <2>4 DEF Written
  <2>6. declined = IF Unwinds(c) THEN order.declined ELSE loaded.declined \cup RejectedItems(c)
      BY <2>4
  <2>7. Goto(c, "rejectRefund") BY <1>2 DEF RejectSave
  <2>8. /\ Still(c) /\ call'[c].pc = "rejectRefund" /\ call'[c].doc = loaded
        /\ call'[c].at = call[c].at
      BY <2>7, GotoIs
  <2>9. d.version = order.version BY <1>2, <2>4 DEF Current
  <2> HIDE DEF st, rs, declined, d
  <2>10. /\ order'.version = d.version + 1 /\ order'.status = st /\ order'.ship = d.ship
         /\ order'.rejected = d.rejected /\ order'.claimed = d.claimed
         /\ order'.declined = declined /\ order'.deducted = order.deducted
      BY <2>1, <2>3 DEF OrderDoc
  <2> QED BY <1>2, <2>4, <2>5, <2>6, <2>8, <2>9, <2>10
<1> QED BY <1>1, <1>2

LEMMA RejectRefundIs ==
    ASSUME TypeOK, NEW c \in Call, RejectRefund(c)
    PROVE  /\ Still(c) /\ call'[c].pc = "rejectRestore" /\ call'[c].doc = call[c].doc
           /\ call'[c].at = call[c].at
           /\ call'[c].todo = IF Unwinds(c) THEN {} ELSE RejectedItems(c)
           /\ order'.version = order.version /\ order'.rejected = order.rejected
           /\ order'.claimed = order.claimed /\ order'.ship = order.ship
           /\ order'.declined = order.declined /\ order'.deducted = order.deducted
           /\ order'.status = order.status
<1> DEFINE todo == IF Unwinds(c) THEN {} ELSE RejectedItems(c)
           new == [call[c] EXCEPT !.pc = "rejectRestore", !.todo = todo]
<1>1. call' = [call EXCEPT ![c] = new] BY CallFields DEF RejectRefund, RefundParts, CallState, TypeOK
<1> HIDE DEF todo
<1>2. /\ new.pc = "rejectRestore" /\ new.doc = call[c].doc /\ new.at = call[c].at
      /\ new.todo = todo
    BY CallFields DEF CallState
<1> HIDE DEF new
<1>3. Still(c) /\ call'[c] = new BY <1>1 DEF Still, TypeOK
<1>4. order' \in {order, PartiallyRefunded(order)} BY DEF RejectRefund, RefundParts
<1> QED BY <1>2, <1>3, <1>4, PartlyIs DEF TypeOK, todo

LEMMA RestoreItemIs ==
    ASSUME TypeOK, NEW c \in Call, NEW i \in Item, RejectRestoreItem(c, i)
    PROVE  /\ Still(c) /\ call'[c].pc = "rejectRestore" /\ call'[c].doc = call[c].doc
           /\ call'[c].at = call[c].at /\ call'[c].todo = call[c].todo \ {i}
           /\ order' = order
<1> DEFINE new == [call[c] EXCEPT !.todo = @ \ {i}]
<1>1. call' = [call EXCEPT ![c] = new] BY CallFields DEF RejectRestoreItem, refundVars, CallState, TypeOK
<1>2. /\ new.pc = call[c].pc /\ new.doc = call[c].doc /\ new.at = call[c].at
      /\ new.todo = call[c].todo \ {i}
    BY CallFields DEF CallState
<1> HIDE DEF new
<1>3. Still(c) /\ call'[c] = new BY <1>1 DEF Still, TypeOK
<1> QED BY <1>2, <1>3 DEF RejectRestoreItem, refundVars

LEMMA CancelIs ==
    ASSUME TypeOK, NEW c \in Call, CancelSave(c) \/ CancelRestore(c)
    PROVE  /\ Still(c)
           /\ CancelSave(c) => call'[c].pc = "cancelRestore" /\ call'[c].doc = call[c].doc
           /\ CancelRestore(c) => call'[c].pc \notin Running /\ call'[c].doc = NewOrder
           /\ order'.version = order.version /\ order'.rejected = order.rejected
           /\ order'.claimed = order.claimed /\ order'.ship = order.ship
           /\ order'.declined = order.declined
           /\ order'.status = "completed" => order.status = "completed"
<1>1. CASE CancelSave(c)
  <2>1. Goto(c, "cancelRestore") BY <1>1 DEF CancelSave
  <2>2. Still(c) /\ call'[c].pc = "cancelRestore" /\ call'[c].doc = call[c].doc
      BY <2>1, GotoIs
  <2>3. ~CancelRestore(c) BY <1>1 DEF CancelSave, CancelRestore, refundVars
  <2>4. \E rs : order' = [order EXCEPT !.status = "cancelled", !.refundStatus = rs]
      BY <1>1 DEF CancelSave
  <2>5. /\ order'.version = order.version /\ order'.rejected = order.rejected
        /\ order'.claimed = order.claimed /\ order'.ship = order.ship
        /\ order'.declined = order.declined /\ order'.status = "cancelled"
      BY <2>4 DEF TypeOK, OrderDoc
  <2> QED BY <2>2, <2>3, <2>5
<1>2. CASE CancelRestore(c)
  <2>1. End(c, "done") BY <1>2 DEF CancelRestore, refundVars
  <2>2. Still(c) /\ call'[c].pc \notin Running /\ call'[c].doc = NewOrder
      BY <2>1, EndIs DEF Running
  <2>3. ~CancelSave(c) BY <1>2 DEF CancelSave, CancelRestore, refundVars
  <2>4. order' = [order EXCEPT !.deducted = FALSE] BY <1>2 DEF CancelRestore, refundVars
  <2>5. /\ order'.version = order.version /\ order'.rejected = order.rejected
        /\ order'.claimed = order.claimed /\ order'.ship = order.ship
        /\ order'.declined = order.declined /\ order'.status = order.status
      BY <2>4 DEF TypeOK, OrderDoc
  <2> QED BY <2>2, <2>3, <2>5
<1> QED BY <1>1, <1>2

LEMMA CronLoadIs ==
    ASSUME TypeOK, NEW c \in Call, CronLoad(c)
    PROVE  /\ Still(c) /\ call'[c].pc = "cronScan" /\ call'[c].doc = order
           /\ call'[c].at = {} /\ call'[c].todo = Shipment \ (order.confirmed \cup order.rejected)
           /\ order' = order
<1> DEFINE todo == Shipment \ (order.confirmed \cup order.rejected)
           new == [At("cronScan") EXCEPT !.doc = order, !.todo = todo]
<1>1. call' = [call EXCEPT ![c] = new] BY DEF CronLoad
<1> HIDE DEF todo
<1>2. new.doc = order /\ new.pc = "cronScan" /\ new.at = {} /\ new.todo = todo BY DEF At
<1> HIDE DEF new
<1>3. Still(c) /\ call'[c] = new BY <1>1 DEF Still, TypeOK
<1> QED BY <1>2, <1>3 DEF CronLoad, todo

\* A cron run claims a fabric shipment and goes on to unwind it, or passes over it.
LEMMA ClaimFabricIs ==
    ASSUME TypeOK, PlaceInv, NEW c \in Call, CronClaimFabric(c)
    PROVE  LET s == Min(call[c].todo) IN
           /\ s \in Fabric /\ s \in Shipment /\ Still(c)
           /\ \/ /\ call'[c].pc = "rejectSave" /\ call'[c].at = {s} /\ s \notin order.claimed
                 /\ call'[c].doc = [call[c].doc EXCEPT !.claimed = @ \cup {s}]
                 /\ order' = [order EXCEPT !.claimed = @ \cup {s}]
              \/ /\ call'[c].pc = "cronScan" /\ call'[c].doc = call[c].doc
                 /\ call'[c].at = call[c].at /\ call'[c].todo = call[c].todo \ {s}
                 /\ order' = order
<1> DEFINE s == Min(call[c].todo)
           claimed == [call[c].doc EXCEPT !.claimed = @ \cup {s}]
           won == [call[c] EXCEPT !.pc = "rejectSave", !.at = {s}, !.doc = claimed]
           lost == [call[c] EXCEPT !.todo = @ \ {s}]
<1>1. \/ call' = [call EXCEPT ![c] = won] /\ Claim(s) /\ Claimable(s)
      \/ call' = [call EXCEPT ![c] = lost] /\ UNCHANGED order
    BY CallFields DEF CronClaimFabric, CallMoves, CallState, TypeOK
<1>2. s \in Fabric /\ s \in Shipment /\ call[c].pc = "cronScan"
    BY OrderAssumption DEF CronClaimFabric
<1> HIDE DEF claimed, s
<1>3. /\ won.doc = claimed /\ won.pc = "rejectSave" /\ won.at = {s}
      /\ lost.doc = call[c].doc /\ lost.pc = "cronScan" /\ lost.at = call[c].at
      /\ lost.todo = call[c].todo \ {s}
    BY <1>2, CallFields DEF CallState
<1> HIDE DEF won, lost
<1>4. CASE call' = [call EXCEPT ![c] = won] /\ Claim(s) /\ Claimable(s)
  <2>1. Still(c) /\ call'[c] = won BY <1>4 DEF Still, TypeOK
  <2> QED BY <1>2, <1>3, <1>4, <2>1 DEF Claim, Claimable, s, claimed
<1>5. CASE call' = [call EXCEPT ![c] = lost] /\ UNCHANGED order
  <2>1. Still(c) /\ call'[c] = lost BY <1>5 DEF Still, TypeOK
  <2> QED BY <1>2, <1>3, <1>5, <2>1 DEF s
<1> QED BY <1>1, <1>4, <1>5

\* Another shipment fails in the copy, claimed or not.
LEMMA ClaimGarmentIs ==
    ASSUME TypeOK, PlaceInv, NEW c \in Call, CronClaimGarment(c)
    PROVE  LET s == Min(call[c].todo)
               d == call[c].doc
               won == IF Claimable(s) THEN {s} ELSE {}
           IN
           /\ s \in call[c].todo /\ s \in Shipment \ Fabric /\ Still(c)
           /\ call'[c].pc = "cronScan" /\ call'[c].at = call[c].at \cup {s}
           /\ call'[c].todo = call[c].todo \ {s}
           /\ call'[c].doc \in OrderDoc
           /\ call'[c].doc.version = d.version
           /\ call'[c].doc.rejected = d.rejected \cup {s}
           /\ call'[c].doc.claimed = d.claimed \cup won
           /\ call'[c].doc.declined = d.declined
           /\ \A t \in Shipment : call'[c].doc.ship[t] = "delivered" => d.ship[t] = "delivered"
           /\ order' = [order EXCEPT !.claimed = @ \cup won]
<1> DEFINE s == Min(call[c].todo)
           d == call[c].doc
           won == IF Claimable(s) THEN {s} ELSE {}
           failed == Fail(d, {s})
           doc == [failed EXCEPT !.claimed = @ \cup won]
           new == [call[c] EXCEPT !.todo = @ \ {s}, !.at = @ \cup {s}, !.doc = doc]
<1>1. s \in call[c].todo /\ s \in Shipment \ Fabric /\ call[c].pc = "cronScan"
  <2>1. call[c].todo # {} /\ call[c].todo \subseteq Shipment /\ s \notin Fabric
      BY DEF CronClaimGarment, refundVars, PlaceInv
  <2> QED BY <2>1, LeastShipment DEF CronClaimGarment, refundVars
<1>2. call' = [call EXCEPT ![c] = new]
    BY CallFields DEF CronClaimGarment, refundVars, CallState, TypeOK
<1>3. order' = [order EXCEPT !.claimed = @ \cup won]
  <2>1. CASE Claimable(s) BY <2>1 DEF CronClaimGarment, refundVars, Claim
  <2>2. CASE ~Claimable(s)
    <3>1. order' = order /\ won = {} BY <2>2 DEF CronClaimGarment, refundVars
    <3>2. order = [order EXCEPT !.claimed = @ \cup {}] BY DEF TypeOK, OrderDoc
    <3> QED BY <3>1, <3>2
  <2> QED BY <2>1, <2>2
<1> HIDE DEF s
<1>4. d \in OrderDoc /\ won \in SUBSET Shipment /\ {s} \in SUBSET Shipment
    BY <1>1, CallFields
<1>5. failed \in OrderDoc BY <1>4, FailType
<1> HIDE DEF d
<1>6. /\ failed.version = d.version /\ failed.rejected = d.rejected \cup {s}
      /\ failed.claimed = d.claimed /\ failed.declined = d.declined
      /\ \A t \in Shipment : failed.ship[t] = "delivered" => d.ship[t] = "delivered"
    BY <1>4, FailIs
<1> HIDE DEF failed, won
<1>7. /\ doc \in OrderDoc
      /\ doc.version = failed.version /\ doc.rejected = failed.rejected
      /\ doc.claimed = failed.claimed \cup won /\ doc.declined = failed.declined
      /\ doc.ship = failed.ship
  <2>1. failed.claimed \cup won \subseteq Shipment BY <1>4, <1>5 DEF OrderDoc
  <2> QED BY <1>5, <2>1 DEF OrderDoc
<1> HIDE DEF doc
<1>8. /\ new.doc = doc /\ new.pc = call[c].pc /\ new.at = call[c].at \cup {s}
      /\ new.todo = call[c].todo \ {s}
    BY CallFields DEF CallState
<1> HIDE DEF new
<1>9. Still(c) /\ call'[c] = new BY <1>2 DEF Still, TypeOK
<1> QED BY <1>1, <1>3, <1>6, <1>7, <1>8, <1>9 DEF s, d, won

LEMMA CronSaveIs ==
    ASSUME TypeOK, NEW c \in Call, CronSave(c)
    PROVE  /\ Still(c) /\ call'[c].pc \notin Running /\ call'[c].doc = NewOrder
           /\ order'.version = order.version /\ order'.claimed = order.claimed
           /\ order'.declined = order.declined /\ order'.deducted = order.deducted
           /\ \/ order'.rejected = order.rejected
              \/ Current(c) /\ order'.rejected = order.rejected \cup call[c].at
           /\ order'.status = "completed" => order.status = "completed"
           /\ \A t \in Shipment : order'.ship[t] = "delivered" => order.ship[t] = "delivered"
<1> DEFINE d == Settle(call[c].doc)
           failed == Fail(order, call[c].at)
           st == Written(d.status, call[c].doc.status, failed.status)
<1>1. Over(c, "done") BY DEF CronSave
<1>2. Still(c) /\ call'[c].pc \in {"done", "new"} /\ call'[c].doc = NewOrder BY <1>1, OverIs
<1>3. call'[c].pc \notin Running BY <1>2 DEF Running
<1>4. d.status \in {call[c].doc.status, "cancelled", "processing"} BY CallFields, SettleIs
<1>5. order \in OrderDoc /\ call[c].at \in SUBSET Shipment BY CallFields DEF TypeOK
<1>6. failed \in OrderDoc BY <1>5, FailType
<1>7. /\ failed.version = order.version /\ failed.claimed = order.claimed
      /\ failed.declined = order.declined /\ failed.deducted = order.deducted
      /\ failed.rejected = order.rejected \cup call[c].at /\ failed.status = order.status
      /\ \A t \in Shipment : failed.ship[t] = "delivered" => order.ship[t] = "delivered"
    BY <1>5, FailIs
<1>8. st = "completed" => order.status = "completed" BY <1>4, <1>7 DEF Written
<1>9. order' = order \/ (Current(c) /\ order' = [failed EXCEPT !.status = st]) BY DEF CronSave
<1> HIDE DEF st, failed
<1>10. CASE order' = order BY <1>2, <1>3, <1>10
<1>11. CASE Current(c) /\ order' = [failed EXCEPT !.status = st]
  <2>1. /\ order'.version = failed.version /\ order'.claimed = failed.claimed
        /\ order'.declined = failed.declined /\ order'.deducted = failed.deducted
        /\ order'.rejected = failed.rejected /\ order'.ship = failed.ship
        /\ order'.status = st
      BY <1>6, <1>11 DEF OrderDoc
  <2> QED BY <1>2, <1>3, <1>7, <1>8, <1>11, <2>1
<1> QED BY <1>9, <1>10, <1>11

LEMMA StageSaveIs ==
    ASSUME TypeOK, NEW c \in Call, NEW ready \in BOOLEAN, StageSave(c, ready)
    PROVE  LET d == call[c].doc IN
           /\ Still(c) /\ call'[c].pc \notin Running /\ call'[c].doc = NewOrder
           /\ order'.status = order.status /\ order'.declined = order.declined
           /\ order'.deducted = order.deducted
           /\ \/ order' = order
              \/ /\ Current(c) /\ order'.version = order.version + 1
                 /\ order'.rejected = d.rejected /\ order'.claimed = d.claimed
                 /\ \A t \in Shipment : order'.ship[t] = "delivered" => d.ship[t] = "delivered"
<1> DEFINE s == Min(ShipmentsOf(Arg[c]) \ Fabric)
           loaded == call[c].doc
           ship == IF ready /\ loaded.ship[s] = "pending"
                   THEN [loaded.ship EXCEPT ![s] = "ready"] ELSE loaded.ship
<1>1. End(c, "done") \/ End(c, "conflict") BY DEF StageSave
<1>2. Still(c) /\ call'[c].pc \notin Running /\ call'[c].doc = NewOrder
    BY <1>1, EndIs DEF Running
<1>3. \/ order' = order
      \/ Current(c) /\ order' = [order EXCEPT !.version = @ + 1,
                      !.confirmed = loaded.confirmed, !.rejected = loaded.rejected,
                      !.claimed = loaded.claimed, !.label = loaded.label, !.ship = ship]
    BY DEF StageSave
<1>4. \A t \in Shipment : ship[t] = "delivered" => loaded.ship[t] = "delivered"
  <2>1. loaded.ship \in [Shipment -> ShipmentStatus] BY CallFields DEF OrderDoc
  <2> HIDE DEF s
  <2> QED BY <2>1
<1> HIDE DEF loaded, ship
<1>5. \/ order' = order
      \/ /\ Current(c) /\ order'.version = order.version + 1
         /\ order'.rejected = loaded.rejected /\ order'.claimed = loaded.claimed
         /\ order'.ship = ship /\ order'.status = order.status
         /\ order'.declined = order.declined /\ order'.deducted = order.deducted
    BY <1>3 DEF TypeOK, OrderDoc
<1> QED BY <1>2, <1>4, <1>5 DEF loaded

\* What a document says is delivered is delivered.
Truthful(d) == \A s \in Shipment : d.ship[s] = "delivered" => Delivered(s)

\* A step of the fulfilment or of a webhook changes statuses and labels only.
Shipped ==
    /\ order'.version = order.version /\ order'.rejected = order.rejected
    /\ order'.claimed = order.claimed /\ order'.declined = order.declined
    /\ order'.deducted = order.deducted

LEMMA SetShipIs ==
    ASSUME TypeOK, NEW t, NEW st, order' = [order EXCEPT !.ship[t] = st], st # "delivered"
    PROVE  /\ Shipped /\ order'.status = order.status
           /\ \A u \in Shipment : order'.ship[u] = "delivered" => order.ship[u] = "delivered"
BY DEF TypeOK, OrderDoc, Shipped

LEMMA FulfilClaimIs ==
    ASSUME TypeOK, NEW c \in Call, FulfilClaim(c)
    PROVE  /\ Still(c) /\ Shipped /\ order'.status = order.status
           /\ \A u \in Shipment : order'.ship[u] = "delivered" => order.ship[u] = "delivered"
           /\ \/ call'[c].pc \notin Running /\ call'[c].doc = NewOrder
              \/ /\ call'[c].pc = "label" /\ call'[c].doc = order'
                 /\ FirstOf(Arg[c]) \in Fabric \/ AwaitedFabric(order', FirstOf(Arg[c])) = {}
<1> DEFINE s == FirstOf(Arg[c])
           new == [At("label") EXCEPT !.doc = order']
<1>1. \/ order' = order
      \/ \E t : order' = [order EXCEPT !.ship[t] = "ready"]
    BY DEF FulfilClaim
<1>2. /\ Shipped /\ order'.status = order.status
      /\ \A u \in Shipment : order'.ship[u] = "delivered" => order.ship[u] = "delivered"
  <2>1. CASE order' = order BY <2>1 DEF Shipped
  <2>2. CASE \E t : order' = [order EXCEPT !.ship[t] = "ready"]
    <3>1. PICK t : order' = [order EXCEPT !.ship[t] = "ready"] BY <2>2
    <3> QED BY <3>1, SetShipIs
  <2> QED BY <1>1, <2>1, <2>2
<1>3. CASE End(c, "refused") \/ End(c, "gated")
  <2>1. Still(c) /\ call'[c].pc \notin Running /\ call'[c].doc = NewOrder
      BY <1>3, EndIs DEF Running
  <2> QED BY <1>2, <2>1
<1>4. CASE call' = [call EXCEPT ![c] = new] /\ (s \in Fabric \/ AwaitedFabric(order', s) = {})
  <2>1. new.pc = "label" /\ new.doc = order' BY DEF At
  <2> HIDE DEF new
  <2>2. Still(c) /\ call'[c] = new BY <1>4 DEF Still, TypeOK
  <2> QED BY <1>2, <1>4, <2>1, <2>2
<1> QED BY <1>3, <1>4 DEF FulfilClaim

LEMMA BuyLabelIs ==
    ASSUME TypeOK, NEW c \in Call, BuyLabel(c)
    PROVE  /\ Still(c) /\ call'[c].pc = "shipSave" /\ call'[c].doc.ship = call[c].doc.ship
           /\ call'[c].doc.version = call[c].doc.version
           /\ \A s \in Shipment : s # FirstOf(Arg[c]) => labels'[s] = labels[s]
<1> DEFINE s == FirstOf(Arg[c])
           doc == [call[c].doc EXCEPT !.label[s] = labels[s] + 1]
           new == [call[c] EXCEPT !.pc = "shipSave", !.doc = doc]
<1>1. call' = [call EXCEPT ![c] = new] BY CallFields DEF BuyLabel, CallState, TypeOK
<1>2. doc.ship = call[c].doc.ship /\ doc.version = call[c].doc.version
    BY CallFields DEF OrderDoc
<1> HIDE DEF doc
<1>3. new.pc = "shipSave" /\ new.doc = doc BY CallFields DEF CallState
<1> HIDE DEF new
<1>4. Still(c) /\ call'[c] = new BY <1>1 DEF Still, TypeOK
<1>5. \A t \in Shipment : t # s => labels'[t] = labels[t] BY DEF BuyLabel, TypeOK
<1> QED BY <1>2, <1>3, <1>4, <1>5

LEMMA LabelFailsIs ==
    ASSUME TypeOK, NEW c \in Call, LabelFails(c)
    PROVE  /\ Still(c) /\ Shipped /\ order'.status = order.status
           /\ \A u \in Shipment : order'.ship[u] = "delivered" => order.ship[u] = "delivered"
           /\ call'[c].pc \notin Running /\ call'[c].doc = NewOrder
<1>1. order' = order \/ \E t : order' = [order EXCEPT !.ship[t] = "pending"]
    BY DEF LabelFails
<1>2. /\ Shipped /\ order'.status = order.status
      /\ \A u \in Shipment : order'.ship[u] = "delivered" => order.ship[u] = "delivered"
  <2>1. CASE order' = order BY <2>1 DEF Shipped
  <2>2. CASE \E t : order' = [order EXCEPT !.ship[t] = "pending"]
    <3>1. PICK t : order' = [order EXCEPT !.ship[t] = "pending"] BY <2>2
    <3> QED BY <3>1, SetShipIs
  <2> QED BY <1>1, <2>1, <2>2
<1>3. End(c, "failed") BY DEF LabelFails
<1>4. Still(c) /\ call'[c].pc \notin Running /\ call'[c].doc = NewOrder
    BY <1>3, EndIs DEF Running
<1> QED BY <1>2, <1>4

\* A save of one shipment's status and of the order's, with its label or without.
LEMMA SaveIs ==
    ASSUME NEW d \in OrderDoc, NEW e, NEW s, NEW st, NEW status,
           e = [d EXCEPT !.ship[s] = st, !.status = status],
           st = "delivered" => d.ship[s] = "delivered" \/ Delivered(s),
           Truthful(d)
    PROVE  /\ e.version = d.version /\ e.rejected = d.rejected
           /\ e.claimed = d.claimed /\ e.declined = d.declined
           /\ e.deducted = d.deducted
           /\ e.status \in {d.status, status}
           /\ \A u \in Shipment : e.ship[u] = "delivered" => Delivered(u)
BY DEF OrderDoc, Truthful

LEMMA SaveLabelIs ==
    ASSUME NEW d \in OrderDoc, NEW e, NEW s, NEW st, NEW status, NEW n,
           e = [d EXCEPT !.label[s] = n, !.ship[s] = st, !.status = status],
           st = "delivered" => d.ship[s] = "delivered" \/ Delivered(s),
           Truthful(d)
    PROVE  /\ e.version = d.version /\ e.rejected = d.rejected
           /\ e.claimed = d.claimed /\ e.declined = d.declined
           /\ e.deducted = d.deducted
           /\ e.status \in {d.status, status}
           /\ \A u \in Shipment : e.ship[u] = "delivered" => Delivered(u)
BY DEF OrderDoc, Truthful

LEMMA ShipSaveIs ==
    ASSUME TypeOK, PlaceInv, NEW c \in Call, ShipSave(c), Truthful(order)
    PROVE  /\ Still(c) /\ Shipped /\ call'[c].pc \notin Running /\ call'[c].doc = NewOrder
           /\ order'.status = "completed" => order.status = "completed"
           /\ \A u \in Shipment : order'.ship[u] = "delivered" => Delivered(u)
<1> DEFINE s == FirstOf(Arg[c])
           loaded == call[c].doc
           allShipped == \A t \in Shipment \ {s} :
                           loaded.ship[t] \in {"shipped", "in_transit", "delivered"}
           st == Written("shipped", loaded.ship[s], order.ship[s])
           status == IF allShipped THEN Written("in_transit", loaded.status, order.status)
                     ELSE order.status
           n == loaded.label[s]
<1>1. order' = order \/ order' = [order EXCEPT !.label[s] = n, !.ship[s] = st, !.status = status]
    BY DEF ShipSave
<1>2. /\ st = "delivered" => order.ship[s] = "delivered"
      /\ status = "completed" => order.status = "completed"
  <2> HIDE DEF allShipped
  <2> QED BY DEF Written
<1>3. End(c, "done") \/ End(c, "conflict") BY DEF ShipSave
<1>4. Still(c) /\ call'[c].pc \notin Running /\ call'[c].doc = NewOrder
    BY <1>3, EndIs DEF Running
<1>5. order \in OrderDoc BY DEF TypeOK
<1> HIDE DEF s, loaded, allShipped, st, status, n
<1>6. /\ Shipped /\ order'.status \in {order.status, status}
      /\ \A u \in Shipment : order'.ship[u] = "delivered" => Delivered(u)
  <2>1. CASE order' = order BY <2>1 DEF Shipped, Truthful
  <2>2. CASE order' = [order EXCEPT !.label[s] = n, !.ship[s] = st, !.status = status]
    <3> DEFINE e == order'
    <3>1. e = [order EXCEPT !.label[s] = n, !.ship[s] = st, !.status = status] BY <2>2
    <3> HIDE DEF e
    <3>2. /\ e.version = order.version /\ e.rejected = order.rejected
          /\ e.claimed = order.claimed /\ e.declined = order.declined
          /\ e.deducted = order.deducted
          /\ e.status \in {order.status, status}
          /\ \A u \in Shipment : e.ship[u] = "delivered" => Delivered(u)
        BY <1>2, <1>5, <3>1, SaveLabelIs
    <3> QED BY <3>2 DEF e, Shipped
  <2> QED BY <1>1, <2>1, <2>2
<1> QED BY <1>2, <1>4, <1>6

LEMMA HookLoadIs ==
    ASSUME TypeOK, NEW c \in Call, NEW event, HookLoad(c, event)
    PROVE  /\ Still(c) /\ order' = order
           /\ \/ call'[c].pc \notin Running /\ call'[c].doc = NewOrder
              \/ /\ call'[c].pc = IF Completes(order, Arg[c], event) THEN "schedule" ELSE "hookSave"
                 /\ call'[c].doc = order /\ call'[c].event = event
<1> DEFINE pc == IF Completes(order, Arg[c], event) THEN "schedule" ELSE "hookSave"
           new == [At(pc) EXCEPT !.doc = order, !.event = event]
<1>1. CASE End(c, "refused")
  <2>1. Still(c) /\ call'[c].pc \notin Running /\ call'[c].doc = NewOrder
      BY <1>1, EndIs DEF Running
  <2> QED BY <2>1 DEF HookLoad
<1>2. CASE call' = [call EXCEPT ![c] = new]
  <2> HIDE DEF pc
  <2>1. new.pc = pc /\ new.doc = order /\ new.event = event BY DEF At
  <2> HIDE DEF new
  <2>2. Still(c) /\ call'[c] = new BY <1>2 DEF Still, TypeOK
  <2> QED BY <2>1, <2>2 DEF HookLoad, pc
<1> QED BY <1>1, <1>2 DEF HookLoad

\* A webhook saves what it loaded and what it was told, both of them true.
LEMMA HookSaveIs ==
    ASSUME TypeOK, PlaceInv, NEW c \in Call, HookSave(c),
           Truthful(order), Truthful(call[c].doc),
           call[c].event = "delivered" => Delivered(Arg[c])
    PROVE  /\ Still(c) /\ Shipped /\ call'[c].pc \notin Running /\ call'[c].doc = NewOrder
           /\ order'.status = "completed" =>
                order.status = "completed" \/ \A u \in Shipment : Delivered(u)
           /\ \A u \in Shipment : order'.ship[u] = "delivered" => Delivered(u)
<1> DEFINE s == Arg[c]
           loaded == call[c].doc
           event == call[c].event
           ship == [loaded.ship EXCEPT ![s] = event]
           new == IF Completes(loaded, s, event) THEN "completed"
                  ELSE IF \E t \in Shipment : ship[t] \in {"shipped", "in_transit"}
                  THEN "in_transit" ELSE loaded.status
           st == Written(event, loaded.ship[s], order.ship[s])
           status == Written(new, loaded.status, order.status)
<1>1. order' = order \/ order' = [order EXCEPT !.ship[s] = st, !.status = status]
    BY DEF HookSave
<1>2. st = "delivered" => order.ship[s] = "delivered" \/ Delivered(s) BY DEF Written
<1>3. status = "completed" => order.status = "completed" \/ \A u \in Shipment : Delivered(u)
  <2>1. Completes(loaded, s, event) => \A u \in Shipment : Delivered(u)
    <3> SUFFICES ASSUME event = "delivered", OthersDelivered(loaded, s), NEW u \in Shipment
                 PROVE  Delivered(u)
        BY DEF Completes
    <3> QED BY DEF OthersDelivered, Truthful
  <2>2. new = "completed" => Completes(loaded, s, event) \/ new = loaded.status
    <3> HIDE DEF ship
    <3> QED OBVIOUS
  <2> HIDE DEF new
  <2> QED BY <2>1, <2>2 DEF Written
<1>4. End(c, "done") \/ End(c, "conflict") BY DEF HookSave
<1>5. Still(c) /\ call'[c].pc \notin Running /\ call'[c].doc = NewOrder
    BY <1>4, EndIs DEF Running
<1>6. order \in OrderDoc BY DEF TypeOK
<1> HIDE DEF s, loaded, event, ship, new, st, status
<1>7. /\ Shipped /\ order'.status \in {order.status, status}
      /\ \A u \in Shipment : order'.ship[u] = "delivered" => Delivered(u)
  <2>1. CASE order' = order BY <2>1 DEF Shipped, Truthful
  <2>2. CASE order' = [order EXCEPT !.ship[s] = st, !.status = status]
    <3> DEFINE e == order'
    <3>1. e = [order EXCEPT !.ship[s] = st, !.status = status] BY <2>2
    <3> HIDE DEF e
    <3>2. /\ e.version = order.version /\ e.rejected = order.rejected
          /\ e.claimed = order.claimed /\ e.declined = order.declined
          /\ e.deducted = order.deducted
          /\ e.status \in {order.status, status}
          /\ \A u \in Shipment : e.ship[u] = "delivered" => Delivered(u)
        BY <1>2, <1>6, <3>1, SaveIs
    <3> QED BY <3>2 DEF e, Shipped
  <2> QED BY <1>1, <2>1, <2>2
<1> QED BY <1>3, <1>5, <1>7

-----------------------------------------------------------------------------
(* Deliveries.  No document says of a shipment that it is delivered before   *)
(* the carrier has delivered it, and what a webhook or a label depends on    *)
(* stays true while its call waits.                                          *)

\* The fabric that s is sewn from has reached its vendor.
Fed(s) == \A f \in Fabric : Destination[f] = Business[s] => Delivered(f)

DeliveryInv ==
    /\ Truthful(order)
    /\ \A c \in Call :
         /\ Truthful(call[c].doc)
         /\ call[c].pc \in {"schedule", "hookSave"} /\ call[c].event = "delivered" =>
              Delivered(Arg[c])
         /\ call[c].pc = "schedule" => Completes(call[c].doc, Arg[c], call[c].event)
         /\ call[c].pc = "label" /\ FirstOf(Arg[c]) \notin Fabric => Fed(FirstOf(Arg[c]))
    /\ CompletedMeansDelivered
    /\ FabricBeforeGarment

\* A step of one call that says only what the carrier did.
LEMMA DeliveryKept ==
    ASSUME TypeOK, DeliveryInv, NEW c \in Call, Still(c), UNCHANGED parcel,
           Truthful(order'), Truthful(call'[c].doc),
           call'[c].pc \in {"schedule", "hookSave"} /\ call'[c].event = "delivered" =>
             Delivered(Arg[c]),
           call'[c].pc = "schedule" => Completes(call'[c].doc, Arg[c], call'[c].event),
           call'[c].pc = "label" /\ FirstOf(Arg[c]) \notin Fabric => Fed(FirstOf(Arg[c])),
           \A s \in Shipment : labels'[s] = labels[s] \/ s \in Fabric \/ Fed(s),
           scheduled' \/ order'.status = "completed" =>
             scheduled \/ order.status = "completed" \/ \A s \in Shipment : Delivered(s)
    PROVE  DeliveryInv'
<1>1. \A s : Delivered(s)' = Delivered(s) BY DEF Delivered
<1>2. \A d : Truthful(d)' = (\A s \in Shipment : d'.ship[s] = "delivered" => Delivered(s))
    BY <1>1 DEF Truthful
<1>3. \A s : Fed(s)' = Fed(s) BY <1>1 DEF Fed
<1>4. Truthful(order)' BY <1>1 DEF Truthful
<1>5. \A e \in Call :
         /\ Truthful(call[e].doc)'
         /\ call'[e].pc \in {"schedule", "hookSave"} /\ call'[e].event = "delivered" =>
              Delivered(Arg[e])'
         /\ call'[e].pc = "schedule" => Completes(call'[e].doc, Arg[e], call'[e].event)
         /\ call'[e].pc = "label" /\ FirstOf(Arg[e]) \notin Fabric => Fed(FirstOf(Arg[e]))'
  <2>1. TAKE e \in Call
  <2>2. CASE e = c BY <1>1, <1>3, <2>2 DEF Truthful
  <2>3. CASE e # c
    <3>1. call'[e] = call[e] BY <2>3 DEF Still
    <3> QED BY <1>1, <1>3, <3>1 DEF DeliveryInv, Truthful
  <2> QED BY <2>2, <2>3
<1>6. CompletedMeansDelivered' BY <1>1 DEF DeliveryInv, CompletedMeansDelivered
<1>7. FabricBeforeGarment'
  <2> SUFFICES ASSUME NEW s \in Shipment \ Fabric, labels'[s] > 0 PROVE Fed(s)
      BY <1>1 DEF FabricBeforeGarment, Fed
  <2> QED BY DEF DeliveryInv, FabricBeforeGarment, Fed
<1> QED BY <1>4, <1>5, <1>6, <1>7 DEF DeliveryInv

Busy == {"schedule", "hookSave", "label"}

\* A step of the review.
LEMMA QuietKept ==
    ASSUME TypeOK, DeliveryInv, NEW c \in Call, Still(c), UNCHANGED <<parcel, labels, scheduled>>,
           Truthful(order'), Truthful(call'[c].doc), call'[c].pc \notin Busy,
           order'.status = "completed" => order.status = "completed"
    PROVE  DeliveryInv'
BY DeliveryKept DEF Busy

LEMMA NewTruth == Truthful(NewOrder)
BY DEF Truthful, NewOrder

\* A call that ends, waits again, loads the document or goes on.
LEMMA QuietMove ==
    ASSUME TypeOK, DeliveryInv, NEW c \in Call, NEW pc, pc \notin Busy
    PROVE  /\ End(c, pc) => Still(c) /\ Truthful(call'[c].doc) /\ call'[c].pc \notin Busy
           /\ Over(c, pc) => Still(c) /\ Truthful(call'[c].doc) /\ call'[c].pc \notin Busy
           /\ Load(c, pc) => Still(c) /\ Truthful(call'[c].doc) /\ call'[c].pc \notin Busy
           /\ Goto(c, pc) => Still(c) /\ Truthful(call'[c].doc) /\ call'[c].pc \notin Busy
<1>1. Truthful(order) /\ Truthful(call[c].doc) BY DEF DeliveryInv
<1>2. "new" \notin Busy BY DEF Busy
<1>3. End(c, pc) => Still(c) /\ Truthful(call'[c].doc) /\ call'[c].pc \notin Busy
    BY EndIs, NewTruth
<1>4. Over(c, pc) => Still(c) /\ Truthful(call'[c].doc) /\ call'[c].pc \notin Busy
  <2> SUFFICES ASSUME Over(c, pc)
               PROVE  Still(c) /\ Truthful(call'[c].doc) /\ call'[c].pc \notin Busy
      OBVIOUS
  <2>1. Still(c) /\ call'[c].pc \in {pc, "new"} /\ call'[c].doc = NewOrder BY OverIs
  <2> QED BY <1>2, <2>1, NewTruth
<1>5. Load(c, pc) => Still(c) /\ Truthful(call'[c].doc) /\ call'[c].pc \notin Busy
  <2> SUFFICES ASSUME Load(c, pc)
               PROVE  Still(c) /\ Truthful(call'[c].doc) /\ call'[c].pc \notin Busy
      OBVIOUS
  <2>1. Still(c) /\ call'[c].pc = pc /\ call'[c].doc = order BY LoadIs
  <2> QED BY <1>1, <2>1
<1>6. Goto(c, pc) => Still(c) /\ Truthful(call'[c].doc) /\ call'[c].pc \notin Busy
    BY <1>1, GotoIs
<1> QED BY <1>3, <1>4, <1>5, <1>6

LEMMA Quiet == \A pc : pc \notin Running => pc \notin Busy
BY DEF Running, Busy

LEMMA ReviewDelivery ==
    ASSUME TypeOK, PlaceInv, DeliveryInv, NEW c \in Call,
           ConfirmStep(c) \/ RejectStep(c) \/ CancelStep(c)
    PROVE  DeliveryInv'
<1> USE DEF reviewFrame, carrierVars, customerVars, refundVars
<1>0. Truthful(order) /\ Truthful(call[c].doc) BY DEF DeliveryInv
<1>1. CASE ConfirmLoad(c)
  <2>1. Load(c, "confirmSave") \/ End(c, "refused") BY <1>1 DEF ConfirmLoad
  <2>2. Still(c) /\ Truthful(call'[c].doc) /\ call'[c].pc \notin Busy
      BY <2>1, QuietMove DEF Busy
  <2> QED BY <1>0, <1>1, <2>2, QuietKept DEF ConfirmLoad
<1>2. CASE ConfirmSave(c)
  <2>1. Truthful(order') BY <1>0, <1>2, ConfirmSaveIs DEF Truthful
  <2> QED BY <1>2, <2>1, ConfirmSaveIs, NewTruth, Quiet, QuietKept DEF ConfirmSave
<1>3. CASE RejectShipmentLoad(c)
  <2>1. call'[c].pc \notin Busy /\ Truthful(call'[c].doc)
      BY <1>0, <1>3, RejectShipmentLoadIs, NewTruth, Quiet DEF Busy
  <2> QED BY <1>0, <1>3, <2>1, RejectShipmentLoadIs, QuietKept DEF RejectShipmentLoad
<1>4. CASE RejectItemLoad(c)
  <2>1. call'[c].pc \notin Busy /\ Truthful(call'[c].doc)
      BY <1>0, <1>4, RejectItemLoadIs, NewTruth, Quiet DEF Busy
  <2> QED BY <1>0, <1>4, <2>1, RejectItemLoadIs, QuietKept DEF RejectItemLoad
<1>5. CASE RejectSave(c)
  <2>1. call'[c].pc \notin Busy /\ Truthful(call'[c].doc)
      BY <1>0, <1>5, RejectSaveIs, NewTruth, Quiet DEF Busy
  <2>2. Truthful(order') BY <1>0, <1>5, RejectSaveIs DEF Truthful
  <2> QED BY <1>5, <2>1, <2>2, RejectSaveIs, QuietKept DEF RejectSave
<1>6. CASE RejectRefund(c)
  <2>1. Truthful(order') BY <1>0, <1>6, RejectRefundIs DEF Truthful
  <2>2. call'[c].pc \notin Busy /\ Truthful(call'[c].doc) BY <1>0, <1>6, RejectRefundIs DEF Busy
  <2> QED BY <1>6, <2>1, <2>2, RejectRefundIs, QuietKept DEF RejectRefund, RefundParts
<1>7. ASSUME NEW i \in Item, RejectRestoreItem(c, i) PROVE DeliveryInv'
  <2>1. call'[c].pc \notin Busy /\ Truthful(call'[c].doc) BY <1>0, <1>7, RestoreItemIs DEF Busy
  <2> QED BY <1>0, <1>7, <2>1, RestoreItemIs, QuietKept DEF RejectRestoreItem, refundVars
<1>8. CASE RejectEnd(c)
  <2>1. Over(c, "done") BY <1>8 DEF RejectEnd, refundVars
  <2>2. Still(c) /\ Truthful(call'[c].doc) /\ call'[c].pc \notin Busy
      BY <2>1, QuietMove DEF Busy
  <2> QED BY <1>0, <1>8, <2>2, QuietKept DEF RejectEnd, refundVars
<1>9. CASE CancelLoad(c)
  <2>1. Load(c, "cancelRefund") \/ End(c, "refused") BY <1>9 DEF CancelLoad
  <2>2. Still(c) /\ Truthful(call'[c].doc) /\ call'[c].pc \notin Busy
      BY <2>1, QuietMove DEF Busy
  <2> QED BY <1>0, <1>9, <2>2, QuietKept DEF CancelLoad
<1>10. CASE CancelRefund(c)
  <2>1. Goto(c, "cancelSave") \/ End(c, "failed") BY <1>10 DEF CancelRefund
  <2>2. Still(c) /\ Truthful(call'[c].doc) /\ call'[c].pc \notin Busy
      BY <2>1, QuietMove DEF Busy
  <2> QED BY <1>0, <1>10, <2>2, QuietKept DEF CancelRefund
<1>11. CASE CancelSave(c) \/ CancelRestore(c)
  <2>1. Truthful(order') BY <1>0, <1>11, CancelIs DEF Truthful
  <2>2. call'[c].pc \notin Busy /\ Truthful(call'[c].doc)
      BY <1>0, <1>11, CancelIs, NewTruth, Quiet DEF Busy
  <2> QED BY <1>11, <2>1, <2>2, CancelIs, QuietKept DEF CancelSave, CancelRestore, refundVars
<1> QED BY <1>1, <1>2, <1>3, <1>4, <1>5, <1>6, <1>7, <1>8, <1>9, <1>10, <1>11
        DEF ConfirmStep, RejectStep, CancelStep

LEMMA CronDelivery ==
    ASSUME TypeOK, PlaceInv, DeliveryInv, NEW c \in Call, CronStep(c) \/ StageStep(c)
    PROVE  DeliveryInv'
<1> USE DEF reviewFrame, shippingFrame, carrierVars, customerVars, refundVars
<1>0. Truthful(order) /\ Truthful(call[c].doc) BY DEF DeliveryInv
<1>1. CASE CronLoad(c)
  <2>1. call'[c].pc \notin Busy BY <1>1, CronLoadIs DEF Busy
  <2> QED BY <1>0, <1>1, <2>1, CronLoadIs, QuietKept DEF CronLoad
<1>2. CASE CronClaimFabric(c)
  <2> DEFINE s == Min(call[c].todo)
  <2>1. call'[c].pc \notin Busy /\ Still(c) BY <1>2, ClaimFabricIs DEF Busy
  <2>2. order'.ship = order.ship /\ order'.status = order.status
      BY <1>2, ClaimFabricIs DEF TypeOK, OrderDoc
  <2>3. call'[c].doc.ship = call[c].doc.ship BY <1>2, ClaimFabricIs, CallFields DEF OrderDoc
  <2>4. Truthful(order') /\ Truthful(call'[c].doc) BY <1>0, <2>2, <2>3 DEF Truthful
  <2> QED BY <1>2, <2>1, <2>2, <2>4, QuietKept DEF CronClaimFabric
<1>3. CASE CronClaimGarment(c)
  <2>1. call'[c].pc \notin Busy /\ Still(c) BY <1>3, ClaimGarmentIs DEF Busy
  <2>2. order'.ship = order.ship /\ order'.status = order.status
      BY <1>3, ClaimGarmentIs DEF TypeOK, OrderDoc
  <2>3. Truthful(order') BY <1>0, <2>2 DEF Truthful
  <2>4. Truthful(call'[c].doc) BY <1>0, <1>3, ClaimGarmentIs DEF Truthful
  <2> QED BY <1>3, <2>1, <2>2, <2>3, <2>4, QuietKept DEF CronClaimGarment, refundVars
<1>4. CASE CronSave(c)
  <2>1. Truthful(order') BY <1>0, <1>4, CronSaveIs DEF Truthful
  <2> QED BY <1>4, <2>1, CronSaveIs, NewTruth, Quiet, QuietKept DEF CronSave
<1>5. CASE StageLoad(c)
  <2>1. Load(c, "stageSave") \/ End(c, "refused") BY <1>5 DEF StageLoad
  <2>2. Still(c) /\ Truthful(call'[c].doc) /\ call'[c].pc \notin Busy
      BY <2>1, QuietMove DEF Busy
  <2> QED BY <1>0, <1>5, <2>2, QuietKept DEF StageLoad
<1>6. ASSUME NEW ready \in BOOLEAN, StageSave(c, ready) PROVE DeliveryInv'
  <2>1. Truthful(order') BY <1>0, <1>6, StageSaveIs DEF Truthful
  <2> QED BY <1>6, <2>1, StageSaveIs, NewTruth, Quiet, QuietKept DEF StageSave
<1> QED BY <1>1, <1>2, <1>3, <1>4, <1>5, <1>6 DEF CronStep, StageStep

LEMMA FulfilDelivery ==
    ASSUME TypeOK, PlaceInv, DeliveryInv, NEW c \in Call, FulfilStep(c)
    PROVE  DeliveryInv'
<1> USE DEF shippingFrame, carrierVars, customerVars, refundVars
<1> DEFINE s == FirstOf(Arg[c])
<1>0. Truthful(order) /\ Truthful(call[c].doc) BY DEF DeliveryInv
<1>1. CASE FulfilCheck(c)
  <2>1. Goto(c, "claim") \/ End(c, "refused") BY <1>1 DEF FulfilCheck
  <2>2. Still(c) /\ Truthful(call'[c].doc) /\ call'[c].pc \notin Busy
      BY <2>1, QuietMove DEF Busy
  <2> QED BY <1>0, <1>1, <2>2, QuietKept DEF FulfilCheck
<1>2. CASE FulfilClaim(c)
  <2>1. Truthful(order') BY <1>0, <1>2, FulfilClaimIs DEF Truthful
  <2>2. Truthful(call'[c].doc) BY <1>2, <2>1, FulfilClaimIs, NewTruth
  <2>3. call'[c].pc \notin {"schedule", "hookSave"} BY <1>2, FulfilClaimIs DEF Running
  <2>4. call'[c].pc = "label" /\ s \notin Fabric => Fed(s)
    <3> SUFFICES ASSUME call'[c].pc = "label", s \notin Fabric,
                        NEW f \in Fabric, Destination[f] = Business[s]
                 PROVE  Delivered(f)
        BY DEF Fed
    <3>1. AwaitedFabric(order', s) = {} BY <1>2, FulfilClaimIs DEF Running
    <3>2. order'.ship[f] = "delivered" BY <3>1 DEF AwaitedFabric
    <3> QED BY <2>1, <3>2, OrderAssumption DEF Truthful
  <2> HIDE DEF s
  <2>5. Still(c) /\ order'.status = order.status /\ UNCHANGED <<parcel, labels, scheduled>>
      BY <1>2, FulfilClaimIs DEF FulfilClaim
  <2> QED BY <2>1, <2>2, <2>3, <2>4, <2>5, DeliveryKept DEF s
<1>3. CASE BuyLabel(c)
  <2>1. call[c].pc = "label" /\ order' = order /\ UNCHANGED <<parcel, scheduled>>
      BY <1>3 DEF BuyLabel
  <2>2. s \in Fabric \/ Fed(s) BY <2>1 DEF DeliveryInv
  <2>3. Still(c) /\ call'[c].pc = "shipSave" /\ call'[c].doc.ship = call[c].doc.ship
      BY <1>3, BuyLabelIs
  <2>4. \A t \in Shipment : labels'[t] = labels[t] \/ t \in Fabric \/ Fed(t)
      BY <1>3, <2>2, BuyLabelIs
  <2>5. Truthful(call'[c].doc) BY <1>0, <2>3 DEF Truthful
  <2> HIDE DEF s
  <2> QED BY <1>0, <2>1, <2>3, <2>4, <2>5, DeliveryKept
<1>4. CASE LabelFails(c)
  <2>1. Truthful(order') BY <1>0, <1>4, LabelFailsIs DEF Truthful
  <2> QED BY <1>4, <2>1, LabelFailsIs, NewTruth, Quiet, QuietKept DEF LabelFails
<1>5. CASE ShipSave(c)
  <2>1. Truthful(order') BY <1>0, <1>5, ShipSaveIs DEF Truthful
  <2> QED BY <1>0, <1>5, <2>1, ShipSaveIs, NewTruth, Quiet, QuietKept DEF ShipSave
<1> QED BY <1>1, <1>2, <1>3, <1>4, <1>5 DEF FulfilStep

LEMMA HookDelivery ==
    ASSUME TypeOK, PlaceInv, DeliveryInv, NEW c \in Call, HookStep(c)
    PROVE  DeliveryInv'
<1> USE DEF shippingFrame, carrierVars, customerVars, refundVars
<1> DEFINE s == Arg[c]
<1>0. Truthful(order) /\ Truthful(call[c].doc) BY DEF DeliveryInv
<1>1. ASSUME NEW event \in {"in_transit", "delivered", "failed"}, HookLoad(c, event)
      PROVE  DeliveryInv'
  <2>1. Still(c) /\ order' = order /\ UNCHANGED <<parcel, labels, scheduled>>
      BY <1>1, HookLoadIs DEF HookLoad
  <2>2. CASE call'[c].pc \notin Running /\ call'[c].doc = NewOrder
      BY <1>0, <2>1, <2>2, NewTruth, Quiet, QuietKept
  <2>3. CASE /\ call'[c].pc = IF Completes(order, Arg[c], event) THEN "schedule" ELSE "hookSave"
             /\ call'[c].doc = order /\ call'[c].event = event
    <3>1. event = "delivered" => Delivered(Arg[c])
      <4> SUFFICES ASSUME event = "delivered" PROVE Delivered(Arg[c]) OBVIOUS
      <4>1. event \in Reports(Arg[c]) /\ parcel[Arg[c]].at # "none" /\ Op[c] = "webhook"
          BY <1>1 DEF HookLoad
      <4>2. Arg[c] \in Shipment BY <4>1, ArgType
      <4>3. parcel[Arg[c]].at \in {"moving", "delivered", "failed"} BY <4>1, <4>2 DEF TypeOK
      <4> QED BY <4>1, <4>3 DEF Reports, StatusMap, Delivered
    <3>2. call'[c].pc = "schedule" => Completes(call'[c].doc, Arg[c], call'[c].event)
        BY <2>3
    <3>3. call'[c].pc # "label" BY <2>3
    <3>4. Truthful(order') /\ Truthful(call'[c].doc) BY <1>0, <2>1, <2>3
    <3> QED BY <2>1, <2>3, <3>1, <3>2, <3>3, <3>4, DeliveryKept
  <2> QED BY <1>1, <2>2, <2>3, HookLoadIs
<1>2. CASE HookSchedule(c)
  <2>1. call[c].pc = "schedule" /\ Goto(c, "hookSave") /\ order' = order
        /\ UNCHANGED <<parcel, labels>>
      BY <1>2 DEF HookSchedule
  <2>2. /\ Still(c) /\ call'[c].pc = "hookSave" /\ call'[c].doc = call[c].doc
        /\ call'[c].event = call[c].event
      BY <2>1, GotoIs
  <2>3. Completes(call[c].doc, Arg[c], call[c].event) BY <2>1 DEF DeliveryInv
  <2>4. Delivered(Arg[c]) BY <2>1, <2>3 DEF DeliveryInv, Completes
  <2>5. \A t \in Shipment : Delivered(t)
      BY <1>0, <2>3, <2>4 DEF Completes, OthersDelivered, Truthful
  <2> QED BY <1>0, <2>1, <2>2, <2>4, <2>5, DeliveryKept
<1>3. CASE HookSave(c)
  <2>1. call[c].pc = "hookSave" /\ UNCHANGED <<parcel, labels, scheduled>> BY <1>3 DEF HookSave
  <2>2. call[c].event = "delivered" => Delivered(Arg[c]) BY <2>1 DEF DeliveryInv
  <2>3. /\ Still(c) /\ call'[c].pc \notin Running /\ call'[c].doc = NewOrder
        /\ order'.status = "completed" =>
             order.status = "completed" \/ \A u \in Shipment : Delivered(u)
        /\ \A u \in Shipment : order'.ship[u] = "delivered" => Delivered(u)
      BY <1>0, <1>3, <2>2, HookSaveIs
  <2>4. Truthful(order') /\ Truthful(call'[c].doc) BY <2>3, NewTruth DEF Truthful
  <2>5. call'[c].pc \notin Busy BY <2>3, Quiet
  <2> QED BY <2>1, <2>3, <2>4, <2>5, DeliveryKept DEF Busy
<1> QED BY <1>1, <1>2, <1>3 DEF HookStep

LEMMA CarrierDelivery ==
    ASSUME TypeOK, PlaceInv, DeliveryInv, CarrierStep
    PROVE  DeliveryInv'
<1> USE DEF shippingFrame, customerVars, refundVars
<1>1. /\ UNCHANGED <<order, call, labels, scheduled>>
      /\ \A t \in Shipment : Delivered(t) => Delivered(t)'
  <2>1. PICK s \in Shipment : \/ \E n \in 1..MaxLabel : Pickup(s, n)
                              \/ \E at \in {"delivered", "failed"} : Arrive(s, at)
      BY DEF CarrierStep
  <2>2. ASSUME NEW n \in 1..MaxLabel, Pickup(s, n)
        PROVE  /\ UNCHANGED <<order, call, labels, scheduled>>
               /\ \A t \in Shipment : Delivered(t) => Delivered(t)'
      BY <2>2 DEF Pickup, Delivered, TypeOK
  <2>3. ASSUME NEW at \in {"delivered", "failed"}, Arrive(s, at)
        PROVE  /\ UNCHANGED <<order, call, labels, scheduled>>
               /\ \A t \in Shipment : Delivered(t) => Delivered(t)'
      BY <2>3 DEF Arrive, Delivered, TypeOK
  <2> QED BY <2>1, <2>2, <2>3
<1>2. Truthful(order)' BY <1>1 DEF DeliveryInv, Truthful
<1>3. \A c \in Call :
         /\ Truthful(call[c].doc)'
         /\ call[c].pc \in {"schedule", "hookSave"} /\ call[c].event = "delivered" =>
              Delivered(Arg[c])'
         /\ call[c].pc = "label" /\ FirstOf(Arg[c]) \notin Fabric => Fed(FirstOf(Arg[c]))'
  <2>1. TAKE c \in Call
  <2>2. call[c].pc \in {"schedule", "hookSave"} => Arg[c] \in Shipment
      BY ArgType DEF PlaceInv
  <2>3. Truthful(call[c].doc)' BY <1>1 DEF DeliveryInv, Truthful
  <2>4. \A s : Fed(s) => Fed(s)' BY <1>1, OrderAssumption DEF Fed
  <2> QED BY <1>1, <2>2, <2>3, <2>4 DEF DeliveryInv
<1>4. CompletedMeansDelivered' BY <1>1 DEF DeliveryInv, CompletedMeansDelivered
<1>5. FabricBeforeGarment' BY <1>1, OrderAssumption DEF DeliveryInv, FabricBeforeGarment
<1> QED BY <1>1, <1>2, <1>3, <1>4, <1>5 DEF DeliveryInv

LEMMA NextDelivery ==
    TypeOK /\ PlaceInv /\ DeliveryInv /\ [Next]_vars => DeliveryInv'
<1> SUFFICES ASSUME TypeOK, PlaceInv, DeliveryInv, [Next]_vars PROVE DeliveryInv' OBVIOUS
<1>0. Truthful(order) BY DEF DeliveryInv
<1>1. ASSUME NEW c \in Call,
             \/ ConfirmStep(c) \/ RejectStep(c) \/ CancelStep(c) \/ CronStep(c)
             \/ StageStep(c) \/ FulfilStep(c) \/ HookStep(c)
      PROVE  DeliveryInv'
    BY <1>1, ReviewDelivery, CronDelivery, FulfilDelivery, HookDelivery
<1>2. ASSUME UNCHANGED <<call, labels, scheduled, parcel>>, order'.ship = order.ship,
             order'.status = order.status
      PROVE  DeliveryInv'
  <2>1. (\A s : Delivered(s)' = Delivered(s)) /\ (\A s : Fed(s)' = Fed(s))
      BY <1>2 DEF Delivered, Fed
  <2>2. \A c \in Call : Truthful(call[c].doc)' BY <1>2, <2>1 DEF DeliveryInv, Truthful
  <2>3. Truthful(order)' BY <1>0, <1>2, <2>1 DEF Truthful
  <2>4. CompletedMeansDelivered' /\ FabricBeforeGarment'
      BY <1>2, <2>1 DEF DeliveryInv, CompletedMeansDelivered, FabricBeforeGarment
  <2> QED BY <1>2, <2>1, <2>2, <2>3, <2>4 DEF DeliveryInv
<1>3. CASE UNCHANGED vars BY <1>2, <1>3 DEF vars, refundVars
<1>4. CASE BackgroundStep
  <2>1. PICK t \in background : BackgroundRefund(t) \/ BackgroundRestore(t)
      BY <1>4 DEF BackgroundStep
  <2>2. UNCHANGED <<call, labels, scheduled, parcel>> /\ order' \in {order, PartiallyRefunded(order)}
      BY <2>1 DEF BackgroundRefund, RefundParts, BackgroundRestore, refundVars, reviewFrame, carrierVars
  <2>3. order'.ship = order.ship /\ order'.status = order.status
      BY <2>2, PartlyIs DEF TypeOK
  <2> QED BY <1>2, <2>2, <2>3
<1>5. CASE Crash
  <2>1. CASE \E c \in Call : Over(c, "crashed")
    <3>1. PICK c \in Call : Over(c, "crashed") BY <2>1
    <3>2. Still(c) /\ Truthful(call'[c].doc) /\ call'[c].pc \notin Busy
        BY <3>1, QuietMove DEF Busy
    <3> QED BY <1>0, <1>5, <3>2, QuietKept DEF Crash, refundVars, carrierVars
  <2>2. CASE UNCHANGED call BY <1>2, <1>5, <2>2 DEF Crash, refundVars, carrierVars
  <2> QED BY <1>5, <2>1, <2>2 DEF Crash, refundVars
<1> QED BY <1>1, <1>3, <1>4, <1>5, CarrierDelivery DEF Next

LEMMA InitDelivery == Init => DeliveryInv
<1> SUFFICES ASSUME Init PROVE DeliveryInv OBVIOUS
<1>1. Truthful(order) BY NewTruth DEF Init
<1>2. \A c \in Call : call[c].pc \in {"new", "unused"} /\ call[c].doc = NewOrder
  <2>1. PICK made \in Mix : call = [c \in Call |-> At(IF c \in made THEN "new" ELSE "unused")]
      BY DEF Init
  <2> QED BY <2>1 DEF At
<1>3. order.status # "completed" /\ scheduled = FALSE BY DEF Init, NewOrder
<1> QED BY <1>1, <1>2, <1>3, NewTruth DEF DeliveryInv, CompletedMeansDelivered,
           FabricBeforeGarment, Init

LEMMA DeliveryCorrect == Spec => []DeliveryInv
BY InitPlace, NextPlace, InitDelivery, NextDelivery, PTL DEF Spec

\* The order is completed, and its earnings get their release date, only when
\* the carrier has delivered all of its parcels (handleShipbubbleWebhook).
THEOREM CompletesDelivered == Spec => []CompletedMeansDelivered
BY DeliveryCorrect, PTL DEF DeliveryInv

\* No label is bought for a garment before its fabric has arrived
\* (fulfillVendorShipment).
THEOREM FabricFirst == Spec => []FabricBeforeGarment
BY DeliveryCorrect, PTL DEF DeliveryInv

-----------------------------------------------------------------------------
(* Refunds and rejections.  What the customer has the money back for stays   *)
(* marked in the document, under two conditions.                             *)

\* A vendor has one garment shipment of an order: createOrder makes one per
\* vendor, and fabric shipments beside them.
OneGarment == \A s, t \in Shipment \ Fabric : Business[s] = Business[t] => s = t

\* No save of a whole array runs beside the auto-reject, whose claims do not
\* change the version, and no second run of it where it saves arrays itself.
CronApart(made) ==
    \A c, d \in made :
      Op[c] = "cron" =>
        /\ Op[d] \notin {"stage", "rejectShipment", "rejectItem"}
        /\ (Op[d] = "cron" => c = d \/ Fabric = {})

\* The calls of a behaviour are made together.
ApartInv ==
    \A c, d \in Call :
      call[c].pc # "unused" /\ call[d].pc # "unused" /\ Op[c] = "cron" =>
        /\ Op[d] \notin {"stage", "rejectShipment", "rejectItem"}
        /\ (Op[d] = "cron" => c = d \/ Fabric = {})

\* The call may still save the arrays of its copy.
Saves(c) ==
    \/ call[c].pc \in {"rejectSave", "stageSave"}
    \/ call[c].pc = "cronScan" /\ Fabric # {}

AllPaid == \A p \in Part : refund[p] > 0

\* A copy that may be saved misses no mark of the document, and what a call
\* refunds or restores next is marked.
CallMarks(c) ==
    LET d == call[c].doc IN
    /\ d.version <= order.version
    /\ Current(c) /\ Saves(c) =>
          /\ order.declined \subseteq d.declined
          /\ order.rejected \subseteq d.rejected
          /\ order.claimed \subseteq d.claimed
    /\ call[c].pc = "rejectRefund" /\ ~Unwinds(c) => RejectedItems(c) \subseteq order.declined
    /\ call[c].pc = "rejectRestore" => call[c].todo \subseteq order.declined
    /\ call[c].pc \in {"rejectRefund", "rejectRestore"} /\ Unwinds(c) =>
         ShipmentsOf(Destination[Unwound(c)]) \ Fabric \subseteq order.rejected \cup order.claimed
    /\ call[c].pc \in {"cancelSave", "cancelRestore"} => AllPaid

\* What runs in background belongs to a claimed garment.
TaskMarks(t) ==
    /\ t.shipment \in order.claimed \ Fabric
    /\ \A p \in t.parts : p[1] = "goods" => Owner[p[2]] = Business[t.shipment]

RefundInv ==
    /\ ApartInv
    /\ \A c \in Call : CallMarks(c)
    /\ \A t \in background : TaskMarks(t)
    /\ RefundIsForRejected

\* What a call has in hand is in its local state.
LEMMA SameCall ==
    ASSUME NEW c \in Call, call'[c] = call[c]
    PROVE  /\ Unwinds(c)' = Unwinds(c) /\ Unwound(c)' = Unwound(c)
           /\ RejectedItems(c)' = RejectedItems(c) /\ Saves(c)' = Saves(c)
BY DEF Unwinds, Unwound, RejectedItems, Saves

\* The document loses no mark.
Grows ==
    /\ order.declined \subseteq order'.declined
    /\ order.rejected \subseteq order'.rejected
    /\ order.claimed \subseteq order'.claimed
    /\ order.version <= order'.version

LEMMA GivenGrows == ASSUME Grows, NEW i \in Item PROVE Given(i) => Given(i)'
BY DEF Grows, Given

\* The calls of S move, and what the others rely on is kept.
LEMMA RefundKept ==
    ASSUME TypeOK, TypeOK', RefundInv, Grows, NEW S \in SUBSET Call,
           \A d \in Call \ S : call'[d] = call[d],
           \A c \in S : call[c].pc # "unused" /\ CallMarks(c)',
           \/ /\ order'.declined = order.declined /\ order'.rejected = order.rejected
              /\ order'.claimed = order.claimed
           \/ order'.version # order.version
           \/ \A d \in Call \ S : ~Saves(d),
           \A t \in background' \ background : TaskMarks(t)',
           \A p \in Part : refund[p] <= refund'[p],
           \A i \in Item : \/ Given(i)' \/ AllPaid'
                           \/ /\ refund'[<<"goods", i>>] = refund[<<"goods", i>>]
                              /\ restocked'[i] = restocked[i]
    PROVE  RefundInv' /\ Grows
<1>0. /\ order.version \in Nat /\ order'.version \in Nat /\ order.version <= order'.version
      /\ \A d \in Call : call[d].doc.version \in Nat
  <2>1. \A d \in Call : call[d].doc.version \in Nat BY CallFields DEF OrderDoc
  <2> QED BY <2>1 DEF TypeOK, OrderDoc, Grows
<1>1. ApartInv'
  <2>1. \A c \in Call : call'[c].pc # "unused" => call[c].pc # "unused" OBVIOUS
  <2> QED BY <2>1 DEF ApartInv, RefundInv
<1>2. AllPaid => AllPaid'
  <2>1. \A p \in Part : refund[p] \in Nat /\ refund'[p] \in Nat BY DEF TypeOK
  <2> QED BY <2>1 DEF AllPaid
<1>3. \A c \in Call : CallMarks(c)'
  <2> SUFFICES ASSUME NEW d \in Call, d \notin S PROVE CallMarks(d)' OBVIOUS
  <2>1. call'[d] = call[d] OBVIOUS
  <2>2. CallMarks(d) BY DEF RefundInv
  <2>3. call[d].doc.version <= order'.version BY <1>0, <2>2 DEF CallMarks
  <2>4. ASSUME Current(d)', Saves(d)
        PROVE  /\ order'.declined \subseteq call[d].doc.declined
               /\ order'.rejected \subseteq call[d].doc.rejected
               /\ order'.claimed \subseteq call[d].doc.claimed
    <3>1. call[d].doc.version = order'.version BY <2>1, <2>4 DEF Current
    <3>2. call[d].doc.version <= order.version BY <2>2 DEF CallMarks
    <3>3. order'.version = order.version BY <1>0, <3>1, <3>2
    <3>4. Current(d) BY <3>1, <3>3 DEF Current
    <3> QED BY <2>2, <2>4, <3>3, <3>4 DEF CallMarks
  <2>5. /\ Unwinds(d)' = Unwinds(d) /\ Unwound(d)' = Unwound(d)
        /\ RejectedItems(d)' = RejectedItems(d) /\ Saves(d)' = Saves(d)
      BY <2>1, SameCall
  <2> QED BY <1>2, <2>1, <2>2, <2>3, <2>4, <2>5 DEF CallMarks, Grows
<1>4. \A t \in background' : TaskMarks(t)' BY DEF RefundInv, TaskMarks, Grows
<1>5. RefundIsForRejected'
  <2> SUFFICES ASSUME NEW i \in Item, refund'[<<"goods", i>>] > 0 \/ restocked'[i] > 0
               PROVE  Given(i)' \/ AllPaid'
      BY DEF RefundIsForRejected, AllPaid
  <2>1. CASE /\ refund'[<<"goods", i>>] = refund[<<"goods", i>>]
             /\ restocked'[i] = restocked[i]
    <3>1. Given(i) \/ AllPaid BY <2>1 DEF RefundInv, RefundIsForRejected, AllPaid
    <3> QED BY <1>2, <3>1, GivenGrows
  <2> QED BY <2>1
<1> QED BY <1>1, <1>3, <1>4, <1>5 DEF RefundInv

\* A step that refunds and restores nothing.
LEMMA MarksKept ==
    ASSUME TypeOK, TypeOK', RefundInv, Grows, NEW c \in Call, Still(c),
           call[c].pc # "unused", CallMarks(c)',
           \/ /\ order'.declined = order.declined /\ order'.rejected = order.rejected
              /\ order'.claimed = order.claimed
           \/ order'.version # order.version
           \/ \A d \in Call \ {c} : ~Saves(d),
           UNCHANGED <<refund, restocked>>,
           \A t \in background' \ background : TaskMarks(t)'
    PROVE  RefundInv' /\ Grows
<1>1. \A d \in Call \ {c} : call'[d] = call[d] BY DEF Still
<1>2. {c} \in SUBSET Call OBVIOUS
<1>3. \A p \in Part : refund[p] <= refund'[p] BY DEF TypeOK
<1> QED BY <1>1, <1>2, <1>3, RefundKept

\* Places where a call holds no promise about the marks.
Light == {"new", "confirmSave", "cancelRefund", "claim", "label", "shipSave", "schedule",
          "hookSave"} \cup Ended

LEMMA LightMarks ==
    ASSUME NEW c \in Call, TypeOK', call'[c].pc \in Light,
           call'[c].doc.version <= order'.version
    PROVE  CallMarks(c)'
BY DEF CallMarks, Light, Ended, Saves

LEMMA NewMarks ==
    ASSUME NEW c \in Call, TypeOK', call'[c].pc \notin Running, call'[c].doc = NewOrder
    PROVE  CallMarks(c)'
<1>1. call'[c].doc.version <= order'.version BY DEF NewOrder, TypeOK, OrderDoc
<1>2. call'[c].pc \in {"new"} \cup Ended BY DEF TypeOK, CallState
<1> QED BY <1>1, <1>2, LightMarks DEF Light

LEMMA LoadMarks ==
    ASSUME NEW c \in Call, TypeOK', call'[c].doc = order',
           call'[c].pc \in Light \cup {"rejectSave", "stageSave", "cronScan"}
    PROVE  CallMarks(c)'
<1>1. call'[c].doc.version <= order'.version BY DEF TypeOK, OrderDoc
<1> QED BY <1>1 DEF CallMarks, Light, Ended

\* A step that leaves the marks alone.
LEMMA MarksSame ==
    ASSUME TypeOK, TypeOK', RefundInv, NEW c \in Call, Still(c), Shipped,
           call[c].pc # "unused", CallMarks(c)', UNCHANGED customerVars
    PROVE  RefundInv' /\ Grows
<1>1. Grows BY DEF Shipped, Grows, TypeOK, OrderDoc
<1> QED BY <1>1, MarksKept DEF Shipped, customerVars, refundVars

\* A call that ends, waits again, or loads the document.
LEMMA MoveMarks ==
    ASSUME TypeOK, TypeOK', RefundInv, NEW c \in Call, NEW pc, order' = order,
           call[c].pc # "unused", UNCHANGED customerVars,
           \/ End(c, pc) /\ pc \notin Running
           \/ Over(c, pc) /\ pc \notin Running
           \/ Load(c, pc) /\ pc \in Light \cup {"rejectSave", "stageSave", "cronScan"}
           \/ Goto(c, pc) /\ pc \in Light
    PROVE  RefundInv' /\ Grows
<1>0. Shipped BY DEF Shipped
<1>1. CASE End(c, pc) /\ pc \notin Running
  <2>1. Still(c) /\ call'[c].pc = pc /\ call'[c].doc = NewOrder BY <1>1, EndIs
  <2> QED BY <1>0, <1>1, <2>1, NewMarks, MarksSame
<1>2. CASE Over(c, pc) /\ pc \notin Running
  <2>1. Still(c) /\ call'[c].pc \in {pc, "new"} /\ call'[c].doc = NewOrder BY <1>2, OverIs
  <2>2. call'[c].pc \notin Running BY <1>2, <2>1 DEF Running
  <2> QED BY <1>0, <2>1, <2>2, NewMarks, MarksSame
<1>3. CASE Load(c, pc) /\ pc \in Light \cup {"rejectSave", "stageSave", "cronScan"}
  <2>1. Still(c) /\ call'[c].pc = pc /\ call'[c].doc = order BY <1>3, LoadIs
  <2> QED BY <1>0, <1>3, <2>1, LoadMarks, MarksSame
<1>4. CASE Goto(c, pc) /\ pc \in Light
  <2>1. Still(c) /\ call'[c].pc = pc /\ call'[c].doc = call[c].doc BY <1>4, GotoIs
  <2>2. call[c].doc.version <= order.version BY DEF RefundInv, CallMarks
  <2> QED BY <1>0, <1>4, <2>1, <2>2, LightMarks, MarksSame
<1> QED BY <1>1, <1>2, <1>3, <1>4

LEMMA ConfirmMarks ==
    ASSUME TypeOK, TypeOK', PlaceInv, RefundInv, NEW c \in Call, ConfirmStep(c)
    PROVE  RefundInv' /\ Grows
<1>1. CASE ConfirmLoad(c)
  <2>1. Load(c, "confirmSave") \/ End(c, "refused") BY <1>1 DEF ConfirmLoad
  <2>2. call[c].pc # "unused" /\ order' = order /\ UNCHANGED customerVars
      BY <1>1 DEF ConfirmLoad
  <2> QED BY <2>1, <2>2, MoveMarks DEF Light, Running
<1>2. CASE ConfirmSave(c)
  <2>1. call[c].pc # "unused" /\ UNCHANGED customerVars BY <1>2 DEF ConfirmSave
  <2> QED BY <1>2, <2>1, ConfirmSaveIs, NewMarks, MarksSame DEF Shipped
<1> QED BY <1>1, <1>2 DEF ConfirmStep

LEMMA HookMarks ==
    ASSUME TypeOK, TypeOK', PlaceInv, DeliveryInv, RefundInv, NEW c \in Call,
           FulfilStep(c) \/ HookStep(c)
    PROVE  RefundInv' /\ Grows
<1> USE DEF shippingFrame
<1>0. Truthful(order) /\ Truthful(call[c].doc) BY DEF DeliveryInv
<1>1. CASE FulfilCheck(c)
  <2>1. Goto(c, "claim") \/ End(c, "refused") BY <1>1 DEF FulfilCheck
  <2>2. call[c].pc # "unused" /\ order' = order /\ UNCHANGED customerVars
      BY <1>1 DEF FulfilCheck
  <2> QED BY <2>1, <2>2, MoveMarks DEF Light, Running
<1>2. CASE FulfilClaim(c)
  <2>1. call[c].pc # "unused" /\ UNCHANGED customerVars BY <1>2 DEF FulfilClaim
  <2>2. Still(c) /\ Shipped BY <1>2, FulfilClaimIs
  <2>3. CASE call'[c].pc \notin Running /\ call'[c].doc = NewOrder
      BY <2>1, <2>2, <2>3, NewMarks, MarksSame
  <2>4. CASE call'[c].pc = "label" /\ call'[c].doc = order'
      BY <2>1, <2>2, <2>4, LoadMarks, MarksSame DEF Light
  <2> QED BY <1>2, <2>3, <2>4, FulfilClaimIs
<1>3. CASE BuyLabel(c)
  <2>1. call[c].pc # "unused" /\ UNCHANGED customerVars /\ order' = order
      BY <1>3 DEF BuyLabel
  <2>2. Still(c) /\ call'[c].pc = "shipSave" BY <1>3, BuyLabelIs
  <2>3. call'[c].doc.version = call[c].doc.version BY <1>3, BuyLabelIs
  <2>4. call[c].doc.version <= order.version BY DEF RefundInv, CallMarks
  <2>5. CallMarks(c)' BY <2>1, <2>2, <2>3, <2>4, LightMarks DEF Light
  <2> QED BY <2>1, <2>2, <2>5, MarksSame DEF Shipped
<1>4. CASE LabelFails(c)
  <2>1. call[c].pc # "unused" /\ UNCHANGED customerVars BY <1>4 DEF LabelFails
  <2> QED BY <1>4, <2>1, LabelFailsIs, NewMarks, MarksSame
<1>5. CASE ShipSave(c)
  <2>1. call[c].pc # "unused" /\ UNCHANGED customerVars BY <1>5 DEF ShipSave
  <2> QED BY <1>0, <1>5, <2>1, ShipSaveIs, NewMarks, MarksSame
<1>6. ASSUME NEW event, HookLoad(c, event) PROVE RefundInv' /\ Grows
  <2>1. call[c].pc # "unused" /\ UNCHANGED customerVars BY <1>6 DEF HookLoad
  <2>2. Still(c) /\ order' = order BY <1>6, HookLoadIs
  <2>3. CASE call'[c].pc \notin Running /\ call'[c].doc = NewOrder
      BY <2>1, <2>2, <2>3, NewMarks, MarksSame DEF Shipped
  <2>4. CASE call'[c].pc \in {"schedule", "hookSave"} /\ call'[c].doc = order
    <3>1. CallMarks(c)' BY <2>2, <2>4, LoadMarks DEF Light
    <3> QED BY <2>1, <2>2, <3>1, MarksSame DEF Shipped
  <2> QED BY <1>6, <2>3, <2>4, HookLoadIs
<1>7. CASE HookSchedule(c)
  <2>1. call[c].pc # "unused" /\ order' = order /\ UNCHANGED customerVars /\ Goto(c, "hookSave")
      BY <1>7 DEF HookSchedule
  <2> QED BY <2>1, MoveMarks DEF Light
<1>8. CASE HookSave(c)
  <2>1. call[c].pc # "unused" /\ UNCHANGED customerVars BY <1>8 DEF HookSave
  <2>2. call[c].event = "delivered" => Delivered(Arg[c]) BY <1>8 DEF DeliveryInv, HookSave
  <2>3. Still(c) /\ Shipped /\ call'[c].pc \notin Running /\ call'[c].doc = NewOrder
      BY <1>0, <1>8, <2>2, HookSaveIs
  <2> QED BY <2>1, <2>3, NewMarks, MarksSame
<1> QED BY <1>1, <1>2, <1>3, <1>4, <1>5, <1>6, <1>7, <1>8 DEF FulfilStep, HookStep

LEMMA StageMarks ==
    ASSUME TypeOK, TypeOK', PlaceInv, RefundInv, NEW c \in Call, StageStep(c)
    PROVE  RefundInv' /\ Grows
<1> USE DEF shippingFrame
<1>1. CASE StageLoad(c)
  <2>1. Load(c, "stageSave") \/ End(c, "refused") BY <1>1 DEF StageLoad
  <2>2. call[c].pc # "unused" /\ order' = order /\ UNCHANGED customerVars
      BY <1>1 DEF StageLoad
  <2> QED BY <2>1, <2>2, MoveMarks DEF Light, Running
<1>2. ASSUME NEW ready \in BOOLEAN, StageSave(c, ready) PROVE RefundInv' /\ Grows
  <2>1. call[c].pc = "stageSave" /\ UNCHANGED customerVars BY <1>2 DEF StageSave
  <2>2. /\ Still(c) /\ call'[c].pc \notin Running /\ call'[c].doc = NewOrder
        /\ order'.declined = order.declined
      BY <1>2, StageSaveIs
  <2>3. CASE order' = order
      BY <2>1, <2>2, <2>3, NewMarks, MarksSame DEF Shipped
  <2>4. CASE /\ Current(c) /\ order'.version = order.version + 1
             /\ order'.rejected = call[c].doc.rejected /\ order'.claimed = call[c].doc.claimed
    <3>1. /\ order.rejected \subseteq call[c].doc.rejected
          /\ order.claimed \subseteq call[c].doc.claimed
        BY <2>1, <2>4 DEF RefundInv, CallMarks, Saves
    <3>2. order.version \in Nat BY DEF TypeOK, OrderDoc
    <3>3. Grows BY <2>2, <2>4, <3>1, <3>2 DEF Grows
    <3>4. order'.version # order.version BY <2>4, <3>2
    <3>5. CallMarks(c)' BY <2>2, NewMarks
    <3> QED BY <2>1, <2>2, <3>3, <3>4, <3>5, MarksKept DEF customerVars, refundVars
  <2> QED BY <1>2, <2>3, <2>4, StageSaveIs
<1> QED BY <1>1, <1>2 DEF StageStep

LEMMA PaidIs ==
    ASSUME NEW D, NEW counts \in [D -> Nat], NEW S
    PROVE  /\ \A x \in D : counts[x] <= Paid(counts, S)[x]
           /\ \A x \in D : x \in S => Paid(counts, S)[x] = counts[x] + 1
           /\ \A x \in D : x \notin S => Paid(counts, S)[x] = counts[x]
BY DEF Paid

\* A restore counts each of its items once, or finds the order's mark gone.
LEMMA RestoreIs ==
    ASSUME TypeOK, NEW S, RestoreItems(S)
    PROVE  /\ \A i \in Item : i \notin S => restocked'[i] = restocked[i]
           /\ \A i \in Item : i \in S =>
                restocked'[i] = restocked[i] + (IF order.deducted THEN 1 ELSE 0)
<1>1. \A i \in Item : restocked[i] \in Nat BY DEF TypeOK
<1>2. CASE order.deducted
  <2>1. restocked' = Paid(restocked, S) BY <1>2 DEF RestoreItems
  <2> QED BY <1>2, <2>1, PaidIs DEF TypeOK
<1>3. CASE ~order.deducted BY <1>1, <1>3 DEF RestoreItems
<1> QED BY <1>2, <1>3

LEMMA GarmentFails ==
    ASSUME OneGarment, NEW d \in OrderDoc, NEW v
    PROVE  ShipmentsOf(v) \ Fabric \subseteq d.rejected \cup ActiveGarment(d, v)
<1> DEFINE open == (ShipmentsOf(v) \ Fabric) \ d.rejected
<1>1. SUFFICES ASSUME NEW g \in open PROVE g \in ActiveGarment(d, v) OBVIOUS
<1>2. open \subseteq Shipment /\ open # {} BY DEF ShipmentsOf
<1>3. Min(open) \in open BY <1>2, LeastShipment
<1>4. Min(open) = g BY <1>3 DEF OneGarment, ShipmentsOf
<1> QED BY <1>2, <1>4 DEF ActiveGarment

LEMMA RejectMarks ==
    ASSUME OneGarment, TypeOK, TypeOK', PlaceInv, RefundInv, NEW c \in Call, RejectStep(c)
    PROVE  RefundInv' /\ Grows
<1> USE DEF reviewFrame
<1>0. CallMarks(c) /\ call[c] \in CallState BY CallFields DEF RefundInv
<1>1. CASE RejectShipmentLoad(c)
  <2>1. call[c].pc # "unused" /\ UNCHANGED customerVars BY <1>1 DEF RejectShipmentLoad
  <2>2. Still(c) /\ order' = order BY <1>1, RejectShipmentLoadIs
  <2>3. CallMarks(c)' BY <1>1, <2>2, RejectShipmentLoadIs, NewMarks, LoadMarks
  <2> QED BY <2>1, <2>2, <2>3, MarksSame DEF Shipped
<1>2. CASE RejectItemLoad(c)
  <2>1. call[c].pc # "unused" /\ UNCHANGED customerVars BY <1>2 DEF RejectItemLoad
  <2>2. Still(c) /\ order' = order BY <1>2, RejectItemLoadIs
  <2>3. CallMarks(c)' BY <1>2, <2>2, RejectItemLoadIs, NewMarks, LoadMarks
  <2> QED BY <2>1, <2>2, <2>3, MarksSame DEF Shipped
<1>3. CASE RejectSave(c)
  <2> DEFINE d == call[c].doc
  <2>1. call[c].pc = "rejectSave" /\ UNCHANGED customerVars BY <1>3 DEF RejectSave
  <2>2. CASE order' = order /\ call'[c].pc \notin Running /\ call'[c].doc = NewOrder
    <3>1. Still(c) BY <1>3, RejectSaveIs
    <3> QED BY <2>1, <2>2, <3>1, NewMarks, MarksSame DEF Shipped
  <2>3. CASE /\ Current(c)
             /\ call'[c].pc = "rejectRefund" /\ call'[c].doc = d /\ call'[c].at = call[c].at
             /\ order'.version = order.version + 1
             /\ order'.rejected = d.rejected \cup Failing(c) /\ order'.claimed = d.claimed
             /\ order'.declined = IF Unwinds(c) THEN order.declined
                                  ELSE d.declined \cup RejectedItems(c)
    <3>1. /\ order.declined \subseteq d.declined /\ order.rejected \subseteq d.rejected
          /\ order.claimed \subseteq d.claimed /\ d.version <= order.version
        BY <1>0, <2>1, <2>3 DEF CallMarks, Saves
    <3>2. order.version \in Nat /\ d.version \in Nat BY CallFields DEF TypeOK, OrderDoc
    <3>3. Grows BY <2>3, <3>1, <3>2 DEF Grows
    <3>4. Unwinds(c)' = Unwinds(c) /\ Unwound(c)' = Unwound(c) /\ RejectedItems(c)' = RejectedItems(c)
        BY <2>3 DEF Unwinds, Unwound, RejectedItems
    <3>5. Unwinds(c) => ShipmentsOf(Destination[Unwound(c)]) \ Fabric \subseteq order'.rejected
      <4> SUFFICES ASSUME Unwinds(c)
                   PROVE  ShipmentsOf(Destination[Unwound(c)]) \ Fabric \subseteq order'.rejected
          OBVIOUS
      <4>1. ActiveGarment(d, Destination[Unwound(c)]) \subseteq Failing(c) BY DEF Failing
      <4>2. d \in OrderDoc BY CallFields
      <4>3. ShipmentsOf(Destination[Unwound(c)]) \ Fabric
              \subseteq d.rejected \cup ActiveGarment(d, Destination[Unwound(c)])
        <5> HIDE DEF d
        <5> QED BY <4>2, GarmentFails
      <4> QED BY <2>3, <4>1, <4>3
    <3>6. d.version <= order'.version BY <2>3, <3>1, <3>2
    <3>7. CallMarks(c)'
      <4>1. ~Unwinds(c) => RejectedItems(c) \subseteq order'.declined BY <2>3
      <4>2. ~Saves(c)' BY <2>3 DEF Saves
      <4>3. call'[c].pc = "rejectRefund" /\ call'[c].doc.version <= order'.version BY <2>3, <3>6
      <4>4. Unwinds(c)' => ShipmentsOf(Destination[Unwound(c)'])
                              \ Fabric \subseteq order'.rejected \cup order'.claimed
          BY <3>4, <3>5
      <4>5. ~Unwinds(c)' => RejectedItems(c)' \subseteq order'.declined BY <3>4, <4>1
      <4> HIDE DEF d
      <4> QED BY <4>2, <4>3, <4>4, <4>5 DEF CallMarks
    <3>8. Still(c) BY <1>3, RejectSaveIs
    <3>9. order'.version # order.version BY <2>3, <3>2
    <3> QED BY <2>1, <3>3, <3>7, <3>8, <3>9, MarksKept DEF customerVars, refundVars
  <2> QED BY <1>3, <2>2, <2>3, RejectSaveIs
<1>4. CASE RejectRefund(c)
  <2>1. /\ call[c].pc = "rejectRefund" /\ refund' \in {refund, Paid(refund, RefundedParts(c))}
        /\ UNCHANGED <<restocked, background>>
      BY <1>4 DEF RejectRefund, RefundParts
  <2>2. /\ Still(c) /\ call'[c].pc = "rejectRestore" /\ call'[c].doc = call[c].doc
        /\ call'[c].at = call[c].at
        /\ call'[c].todo = IF Unwinds(c) THEN {} ELSE RejectedItems(c)
        /\ Shipped
      BY <1>4, RejectRefundIs DEF Shipped
  <2>3. Grows BY <2>2 DEF Grows, Shipped, TypeOK, OrderDoc
  <2>4. Unwinds(c)' = Unwinds(c) /\ Unwound(c)' = Unwound(c)
      BY <2>2 DEF Unwinds, Unwound
  <2>5. CallMarks(c)'
      BY <1>0, <2>1, <2>2, <2>4 DEF CallMarks, Saves, Shipped
  <2>6. ASSUME NEW i \in Item
        PROVE  Given(i)' \/ (/\ refund'[<<"goods", i>>] = refund[<<"goods", i>>]
                             /\ restocked'[i] = restocked[i])
    <3>1. <<"goods", i>> \in Part BY DEF Part
    <3>2. CASE <<"goods", i>> \notin RefundedParts(c)
        BY <2>1, <3>1, <3>2, PaidIs DEF TypeOK
    <3>3. CASE <<"goods", i>> \in RefundedParts(c)
      <4>1. IF Unwinds(c) THEN i \in ItemsOf(Destination[Unwound(c)]) ELSE i \in RejectedItems(c)
          BY <3>3 DEF RefundedParts
      <4>2. CASE Unwinds(c)
        <5>1. Owner[i] = Destination[Unwound(c)] BY <4>1, <4>2 DEF ItemsOf
        <5> QED BY <1>0, <2>1, <2>3, <4>2, <5>1, GivenGrows DEF CallMarks, Given
      <4>3. CASE ~Unwinds(c)
          BY <1>0, <2>1, <2>3, <4>1, <4>3, GivenGrows DEF CallMarks, Given
      <4> QED BY <4>2, <4>3
    <3> QED BY <3>2, <3>3
  <2>7. \A p \in Part : refund[p] <= refund'[p] BY <2>1, PaidIs DEF TypeOK
  <2>8. \A d \in Call \ {c} : call'[d] = call[d] BY <2>2 DEF Still
  <2>9. {c} \in SUBSET Call OBVIOUS
  <2> QED BY <2>1, <2>2, <2>3, <2>5, <2>6, <2>7, <2>8, <2>9, RefundKept DEF Shipped
<1>5. ASSUME NEW i \in Item, RejectRestoreItem(c, i) PROVE RefundInv' /\ Grows
  <2>1. /\ call[c].pc = "rejectRestore" /\ i \in call[c].todo /\ RestoreItems({i})
        /\ UNCHANGED <<refund, background>>
      BY <1>5 DEF RejectRestoreItem, refundVars
  <2>2. /\ Still(c) /\ call'[c].pc = "rejectRestore" /\ call'[c].doc = call[c].doc
        /\ call'[c].at = call[c].at /\ call'[c].todo = call[c].todo \ {i} /\ order' = order
      BY <1>5, RestoreItemIs
  <2>3. Grows BY <2>2 DEF Grows, TypeOK, OrderDoc
  <2>4. Unwinds(c)' = Unwinds(c) /\ Unwound(c)' = Unwound(c)
      BY <2>2 DEF Unwinds, Unwound
  <2>5. CallMarks(c)' BY <1>0, <2>1, <2>2, <2>4 DEF CallMarks, Saves
  <2>6. Given(i)' BY <1>0, <2>1, <2>3, GivenGrows DEF CallMarks, Given
  <2>7. \A j \in Item : \/ Given(j)'
                        \/ /\ refund'[<<"goods", j>>] = refund[<<"goods", j>>]
                           /\ restocked'[j] = restocked[j]
      BY <2>1, <2>6, RestoreIs
  <2>8. \A d \in Call \ {c} : call'[d] = call[d] BY <2>2 DEF Still
  <2>9. {c} \in SUBSET Call /\ (\A p \in Part : refund[p] <= refund'[p])
      BY <2>1 DEF TypeOK
  <2> QED BY <2>1, <2>2, <2>3, <2>5, <2>7, <2>8, <2>9, RefundKept
<1>6. CASE RejectEnd(c)
  <2>1. /\ call[c].pc = "rejectRestore" /\ Over(c, "done") /\ UNCHANGED <<order, refund, background>>
      BY <1>6 DEF RejectEnd, refundVars
  <2>2. /\ Still(c) /\ call'[c].pc \in {"done", "new"} /\ call'[c].doc = NewOrder
      BY <2>1, OverIs
  <2>3. CallMarks(c)' BY <2>2, NewMarks DEF Running
  <2>4. Grows BY <2>1 DEF Grows, TypeOK, OrderDoc
  <2>5. ASSUME NEW i \in Item PROVE Given(i)' \/ restocked'[i] = restocked[i]
    <3>1. CASE ~Unwinds(c) BY <1>6, <3>1 DEF RejectEnd, refundVars
    <3>2. CASE Unwinds(c)
      <4>1. RestoreItems(Undeclined(ItemsOf(Destination[Unwound(c)]), order))
          BY <1>6, <3>2 DEF RejectEnd, refundVars
      <4>2. CASE i \in ItemsOf(Destination[Unwound(c)])
        <5>1. Owner[i] = Destination[Unwound(c)] BY <4>2 DEF ItemsOf
        <5> QED BY <1>0, <2>1, <2>4, <3>2, <5>1, GivenGrows DEF CallMarks, Given
      <4>3. CASE i \notin ItemsOf(Destination[Unwound(c)])
          BY <4>1, <4>3, RestoreIs DEF Undeclined
      <4> QED BY <4>2, <4>3
    <3> QED BY <3>1, <3>2
  <2>6. \A d \in Call \ {c} : call'[d] = call[d] BY <2>2 DEF Still
  <2>7. {c} \in SUBSET Call /\ (\A p \in Part : refund[p] <= refund'[p])
      BY <2>1 DEF TypeOK
  <2> QED BY <2>1, <2>2, <2>3, <2>4, <2>5, <2>6, <2>7, RefundKept
<1> QED BY <1>1, <1>2, <1>3, <1>4, <1>5, <1>6 DEF RejectStep

LEMMA CancelMarks ==
    ASSUME TypeOK, TypeOK', PlaceInv, RefundInv, NEW c \in Call, CancelStep(c)
    PROVE  RefundInv' /\ Grows
<1> USE DEF reviewFrame
<1>0. CallMarks(c) BY DEF RefundInv
<1>1. CASE CancelLoad(c)
  <2>1. Load(c, "cancelRefund") \/ End(c, "refused") BY <1>1 DEF CancelLoad
  <2>2. call[c].pc # "unused" /\ order' = order /\ UNCHANGED customerVars
      BY <1>1 DEF CancelLoad
  <2> QED BY <2>1, <2>2, MoveMarks DEF Light, Running
<1>2. CASE CancelRefund(c)
  <2>0. CASE UNCHANGED refund /\ End(c, "failed")
    <3>1. call[c].pc # "unused" /\ order' = order /\ UNCHANGED customerVars
        BY <1>2, <2>0 DEF CancelRefund, customerVars, refundVars
    <3> QED BY <2>0, <3>1, MoveMarks DEF Light, Running
  <2> SUFFICES ASSUME refund' = Paid(refund, Part), Goto(c, "cancelSave") \/ End(c, "failed")
               PROVE  RefundInv' /\ Grows
      BY <1>2, <2>0 DEF CancelRefund
  <2>1. /\ call[c].pc = "cancelRefund" /\ refund' = Paid(refund, Part)
        /\ UNCHANGED <<order, restocked, background>>
      BY <1>2 DEF CancelRefund
  <2>2. /\ Still(c)
        /\ \/ call'[c].pc = "cancelSave" /\ call'[c].doc = call[c].doc
           \/ call'[c].pc \notin Running /\ call'[c].doc = NewOrder
    <3>1. CASE Goto(c, "cancelSave") BY <3>1, GotoIs
    <3>2. CASE End(c, "failed") BY <3>2, EndIs DEF Running
    <3> QED BY <3>1, <3>2
  <2>3. \A p \in Part : refund[p] <= refund'[p] /\ refund'[p] > 0
    <3>1. \A p \in Part : refund'[p] = refund[p] + 1 BY <2>1, PaidIs DEF TypeOK
    <3> QED BY <3>1 DEF TypeOK
  <2>4. AllPaid' BY <2>3 DEF AllPaid
  <2>5. CallMarks(c)'
    <3>1. CASE call'[c].pc = "cancelSave" /\ call'[c].doc = call[c].doc
        BY <1>0, <2>1, <2>4, <3>1 DEF CallMarks, Saves
    <3>2. CASE call'[c].pc \notin Running /\ call'[c].doc = NewOrder BY <3>2, NewMarks
    <3> QED BY <2>2, <3>1, <3>2
  <2>6. Grows BY <2>1 DEF Grows, TypeOK, OrderDoc
  <2>7. \A d \in Call \ {c} : call'[d] = call[d] BY <2>2 DEF Still
  <2>8. {c} \in SUBSET Call OBVIOUS
  <2> QED BY <2>1, <2>3, <2>4, <2>5, <2>6, <2>7, <2>8, RefundKept
<1>3. CASE CancelSave(c)
  <2>1. /\ call[c].pc = "cancelSave" /\ UNCHANGED customerVars BY <1>3 DEF CancelSave
  <2>2. /\ Still(c) /\ call'[c].pc = "cancelRestore" /\ call'[c].doc = call[c].doc
        /\ order'.version = order.version /\ order'.rejected = order.rejected
        /\ order'.claimed = order.claimed /\ order'.declined = order.declined
      BY <1>3, CancelIs
  <2>3. AllPaid' BY <1>0, <2>1 DEF CallMarks, AllPaid, customerVars, refundVars
  <2>4. CallMarks(c)' BY <1>0, <2>2, <2>3 DEF CallMarks, Saves
  <2>5. Grows BY <2>2 DEF Grows, TypeOK, OrderDoc
  <2> QED BY <2>1, <2>2, <2>4, <2>5, MarksKept DEF customerVars, refundVars
<1>4. CASE CancelRestore(c)
  <2>1. /\ call[c].pc = "cancelRestore" /\ UNCHANGED <<refund, background>>
      BY <1>4 DEF CancelRestore, refundVars
  <2>2. /\ Still(c) /\ call'[c].pc \notin Running /\ call'[c].doc = NewOrder
        /\ order'.version = order.version /\ order'.rejected = order.rejected
        /\ order'.claimed = order.claimed /\ order'.declined = order.declined
      BY <1>4, CancelIs
  <2>3. AllPaid' BY <1>0, <2>1 DEF CallMarks, AllPaid
  <2>4. CallMarks(c)' BY <2>2, NewMarks
  <2>5. Grows BY <2>2 DEF Grows, TypeOK, OrderDoc
  <2>6. \A d \in Call \ {c} : call'[d] = call[d] BY <2>2 DEF Still
  <2>7. {c} \in SUBSET Call /\ (\A p \in Part : refund[p] <= refund'[p])
      BY <2>1 DEF TypeOK
  <2> QED BY <2>1, <2>2, <2>3, <2>4, <2>5, <2>6, <2>7, RefundKept
<1> QED BY <1>1, <1>2, <1>3, <1>4 DEF CancelStep

\* Beside a run of the auto-reject no other call saves whole arrays.
LEMMA CronAlone ==
    ASSUME TypeOK, PlaceInv, ApartInv, NEW c \in Call, Op[c] = "cron", call[c].pc # "unused",
           NEW d \in Call, d # c
    PROVE  ~Saves(d)
<1> SUFFICES ASSUME Saves(d) PROVE FALSE OBVIOUS
<1>1. call[d].pc # "unused" BY DEF Saves
<1>2. /\ Op[d] \notin {"stage", "rejectShipment", "rejectItem"}
      /\ Op[d] = "cron" => Fabric = {}
    BY <1>1 DEF ApartInv
<1>3. CASE call[d].pc = "rejectSave"
  <2>1. Op[d] = "cron" /\ call[d].at # {} /\ call[d].at \subseteq Fabric
      BY <1>2, <1>3 DEF PlaceInv, Rejecting
  <2> QED BY <1>2, <2>1
<1>4. CASE call[d].pc = "stageSave" BY <1>2, <1>4 DEF PlaceInv
<1>5. CASE call[d].pc = "cronScan" /\ Fabric # {} BY <1>2, <1>5 DEF PlaceInv
<1> QED BY <1>3, <1>4, <1>5 DEF Saves

LEMMA CronMarks ==
    ASSUME TypeOK, TypeOK', PlaceInv, RefundInv, NEW c \in Call, CronStep(c)
    PROVE  RefundInv' /\ Grows
<1> USE DEF reviewFrame
<1>0. CallMarks(c) /\ call[c].doc \in OrderDoc /\ call'[c].doc \in OrderDoc
  <2>1. call'[c].doc \in OrderDoc BY DEF TypeOK, CallState
  <2> QED BY <2>1, CallFields DEF RefundInv
<1>1. CASE CronLoad(c)
  <2>1. call[c].pc # "unused" /\ UNCHANGED customerVars BY <1>1 DEF CronLoad
  <2>2. Still(c) /\ order' = order /\ call'[c].pc = "cronScan" /\ call'[c].doc = order
      BY <1>1, CronLoadIs
  <2> QED BY <2>1, <2>2, LoadMarks, MarksSame DEF Shipped
<1>2. ASSUME call[c].pc = "cronScan" PROVE \A d \in Call \ {c} : ~Saves(d)
  <2>1. Op[c] = "cron" /\ call[c].pc # "unused" BY <1>2 DEF PlaceInv
  <2> QED BY <2>1, CronAlone DEF RefundInv
<1>3. CASE CronClaimFabric(c)
  <2> DEFINE s == Min(call[c].todo)
  <2>1. call[c].pc = "cronScan" /\ UNCHANGED customerVars BY <1>3 DEF CronClaimFabric
  <2>2. s \in Fabric /\ s \in Shipment /\ Still(c) BY <1>3, ClaimFabricIs
  <2>3. CASE /\ call'[c].pc = "rejectSave"
             /\ call'[c].doc = [call[c].doc EXCEPT !.claimed = @ \cup {s}]
             /\ order' = [order EXCEPT !.claimed = @ \cup {s}]
    <3> HIDE DEF s
    <3>1. /\ order'.version = order.version /\ order'.rejected = order.rejected
          /\ order'.declined = order.declined /\ order'.claimed = order.claimed \cup {s}
        BY <2>3 DEF TypeOK, OrderDoc
    <3>2. /\ call'[c].doc.version = call[c].doc.version
          /\ call'[c].doc.rejected = call[c].doc.rejected
          /\ call'[c].doc.declined = call[c].doc.declined
          /\ call'[c].doc.claimed = call[c].doc.claimed \cup {s}
        BY <1>0, <2>3 DEF OrderDoc
    <3>3. Grows BY <3>1 DEF Grows, TypeOK, OrderDoc
    <3>4. Current(c)' = Current(c) BY <3>1, <3>2 DEF Current
    <3>5. Saves(c) BY <2>1, <2>2 DEF Saves, s
    <3>6. CallMarks(c)' BY <1>0, <2>3, <3>1, <3>2, <3>4, <3>5 DEF CallMarks
    <3> QED BY <1>2, <2>1, <2>2, <3>3, <3>6, MarksKept DEF customerVars, refundVars
  <2>4. CASE /\ call'[c].pc = "cronScan" /\ call'[c].doc = call[c].doc /\ order' = order
    <3>1. CallMarks(c)' BY <1>0, <2>1, <2>4 DEF CallMarks, Saves, Current
    <3> QED BY <2>1, <2>2, <2>4, <3>1, MarksSame DEF Shipped
  <2> QED BY <1>3, <2>3, <2>4, ClaimFabricIs
<1>4. CASE CronClaimGarment(c)
  <2> DEFINE s == Min(call[c].todo)
             d == call[c].doc
             won == IF Claimable(s) THEN {s} ELSE {}
             parts == {p \in Part : \/ p = <<"fee", s>>
                                    \/ /\ p[1] = "goods"
                                       /\ p[2] \in Undeclined(ItemsOf(Business[s]), call[c].doc)}
  <2>1. call[c].pc = "cronScan" /\ UNCHANGED <<refund, restocked>>
      BY <1>4 DEF CronClaimGarment, refundVars
  <2>2. /\ s \in Shipment \ Fabric /\ Still(c) /\ call'[c].pc = "cronScan"
        /\ call'[c].doc.version = d.version /\ call'[c].doc.rejected = d.rejected \cup {s}
        /\ call'[c].doc.claimed = d.claimed \cup won /\ call'[c].doc.declined = d.declined
        /\ order' = [order EXCEPT !.claimed = @ \cup won]
      BY <1>4, ClaimGarmentIs
  <2>3. /\ background' \subseteq background \cup
             {[task |-> "refund", shipment |-> s, parts |-> parts],
              [task |-> "restock", shipment |-> s, parts |-> parts]}
        /\ won = {} => background' = background
      BY <1>4 DEF CronClaimGarment, refundVars
  <2>4. \A p \in parts : p[1] = "goods" => Owner[p[2]] = Business[s]
    <3> SUFFICES ASSUME NEW p \in parts, p[1] = "goods" PROVE Owner[p[2]] = Business[s] OBVIOUS
    <3>1. p # <<"fee", s>> OBVIOUS
    <3>2. p[2] \in ItemsOf(Business[s]) BY <3>1 DEF Undeclined
    <3> QED BY <3>2 DEF ItemsOf
  <2>5. won = {} \/ won = {s} OBVIOUS
  <2> HIDE DEF s, won, parts
  <2>6. /\ order'.version = order.version /\ order'.rejected = order.rejected
        /\ order'.declined = order.declined /\ order'.claimed = order.claimed \cup won
      BY <2>2 DEF TypeOK, OrderDoc
  <2>7. Grows BY <2>6 DEF Grows, TypeOK, OrderDoc
  <2>8. Current(c)' = Current(c) BY <2>2, <2>6 DEF Current
  <2>9. Saves(c)' = Saves(c) BY <2>1, <2>2 DEF Saves
  <2>10. CallMarks(c)' BY <1>0, <2>2, <2>6, <2>8, <2>9 DEF CallMarks
  <2>11. \A t \in background' \ background : TaskMarks(t)'
    <3>1. TAKE t \in background' \ background
    <3>2. t.shipment = s /\ t.parts = parts /\ won = {s} BY <2>3, <2>5
    <3> QED BY <2>2, <2>4, <2>6, <3>2 DEF TaskMarks
  <2> QED BY <1>2, <2>1, <2>2, <2>7, <2>10, <2>11, MarksKept
<1>5. CASE CronSave(c)
  <2>1. call[c].pc = "cronScan" /\ UNCHANGED customerVars BY <1>5 DEF CronSave
  <2>2. /\ Still(c) /\ call'[c].pc \notin Running /\ call'[c].doc = NewOrder
        /\ order'.version = order.version /\ order'.claimed = order.claimed
        /\ order'.declined = order.declined /\ order.rejected \subseteq order'.rejected
      BY <1>5, CronSaveIs
  <2>3. Grows BY <2>2 DEF Grows, TypeOK, OrderDoc
  <2>4. CallMarks(c)' BY <2>2, NewMarks
  <2> QED BY <1>2, <2>1, <2>2, <2>3, <2>4, MarksKept DEF customerVars, refundVars
<1> QED BY <1>1, <1>3, <1>4, <1>5 DEF CronStep

LEMMA BackgroundMarks ==
    ASSUME OneGarment, TypeOK, TypeOK', RefundInv, BackgroundStep
    PROVE  RefundInv' /\ Grows
<1> USE DEF reviewFrame
<1>1. PICK t \in background : BackgroundRefund(t) \/ BackgroundRestore(t) BY DEF BackgroundStep
<1>2. TaskMarks(t) /\ t.shipment \in Shipment BY <1>1 DEF RefundInv, TypeOK
<1>3. /\ call' = call /\ background' = background \ {t}
      /\ order' \in {order, PartiallyRefunded(order)}
    BY <1>1 DEF BackgroundRefund, RefundParts, BackgroundRestore, refundVars
<1>4. /\ order'.version = order.version /\ order'.rejected = order.rejected
      /\ order'.claimed = order.claimed /\ order'.declined = order.declined
    BY <1>3, PartlyIs DEF TypeOK
<1>5. Grows BY <1>4 DEF Grows, TypeOK, OrderDoc
<1>6. ASSUME NEW i \in Item, Owner[i] = Business[t.shipment] PROVE Given(i)'
  <2>1. ShipmentsOf(Owner[i]) \ Fabric \subseteq {t.shipment}
      BY <1>2, <1>6 DEF ShipmentsOf, OneGarment, TaskMarks
  <2>2. Given(i) BY <1>2, <2>1 DEF Given, TaskMarks
  <2> QED BY <1>5, <2>2, GivenGrows
<1>7. ASSUME NEW i \in Item
      PROVE  \/ Given(i)'
             \/ /\ refund'[<<"goods", i>>] = refund[<<"goods", i>>]
                /\ restocked'[i] = restocked[i]
  <2>1. <<"goods", i>> \in Part BY DEF Part
  <2>2. CASE Owner[i] = Business[t.shipment] BY <1>6, <2>2
  <2>3. CASE Owner[i] # Business[t.shipment]
    <3>1. <<"goods", i>> \notin t.parts BY <1>2, <2>3 DEF TaskMarks
    <3>2. i \notin Undeclined(ItemsOf(Business[t.shipment]), order)
        BY <2>3 DEF Undeclined, ItemsOf
    <3>3. CASE BackgroundRefund(t)
        BY <2>1, <3>1, <3>3, PaidIs DEF BackgroundRefund, RefundParts, TypeOK
    <3>4. CASE BackgroundRestore(t) BY <3>2, <3>4, RestoreIs DEF BackgroundRestore, refundVars
    <3> QED BY <1>1, <3>3, <3>4
  <2> QED BY <2>2, <2>3
<1>8. \A p \in Part : refund[p] <= refund'[p]
  <2>1. CASE BackgroundRefund(t) BY <2>1, PaidIs DEF BackgroundRefund, RefundParts, TypeOK
  <2>2. CASE BackgroundRestore(t) BY <2>2 DEF BackgroundRestore, refundVars, TypeOK
  <2> QED BY <1>1, <2>1, <2>2
<1>9. {} \in SUBSET Call /\ (\A d \in Call \ {} : call'[d] = call[d]) BY <1>3
<1> QED BY <1>3, <1>4, <1>5, <1>7, <1>8, <1>9, RefundKept

LEMMA NextMarks ==
    OneGarment /\ TypeOK /\ TypeOK' /\ PlaceInv /\ DeliveryInv /\ RefundInv /\ [Next]_vars
      => RefundInv' /\ Grows
<1> SUFFICES ASSUME OneGarment, TypeOK, TypeOK', PlaceInv, DeliveryInv, RefundInv, [Next]_vars
             PROVE  RefundInv' /\ Grows
    OBVIOUS
<1>1. ASSUME NEW c \in Call,
             \/ ConfirmStep(c) \/ RejectStep(c) \/ CancelStep(c) \/ CronStep(c)
             \/ StageStep(c) \/ FulfilStep(c) \/ HookStep(c)
      PROVE  RefundInv' /\ Grows
    BY <1>1, ConfirmMarks, RejectMarks, CancelMarks, CronMarks, StageMarks, HookMarks
<1>2. ASSUME UNCHANGED <<order, call, refund, restocked>>, background' \subseteq background
      PROVE  RefundInv' /\ Grows
  <2>1. Grows BY <1>2 DEF Grows, TypeOK, OrderDoc
  <2>2. \A p \in Part : refund[p] <= refund'[p] BY <1>2 DEF TypeOK
  <2>3. {} \in SUBSET Call /\ (\A d \in Call \ {} : call'[d] = call[d]) BY <1>2
  <2> QED BY <1>2, <2>1, <2>2, <2>3, RefundKept
<1>3. CASE UNCHANGED vars BY <1>2, <1>3 DEF vars, refundVars
<1>4. CASE CarrierStep
    BY <1>2, <1>4 DEF CarrierStep, Pickup, Arrive, shippingFrame, customerVars, refundVars
<1>5. CASE Crash
  <2>1. UNCHANGED <<order, refund, refundErrors, restocked>> /\ background' \subseteq background
      BY <1>5 DEF Crash, refundVars
  <2>2. CASE \E c \in Call : call[c].pc \in Running /\ Over(c, "crashed") /\ UNCHANGED background
    <3>1. PICK c \in Call : call[c].pc \in Running /\ Over(c, "crashed") /\ UNCHANGED background
        BY <2>2
    <3> QED BY <2>1, <3>1, MoveMarks DEF Running, customerVars, refundVars
  <2>3. CASE UNCHANGED call BY <1>2, <2>1, <2>3
  <2> QED BY <1>5, <2>2, <2>3 DEF Crash, refundVars
<1> QED BY <1>1, <1>3, <1>4, <1>5, BackgroundMarks DEF Next

LEMMA InitMarks ==
    ASSUME \A made \in Mix : CronApart(made), Init
    PROVE  RefundInv
<1>1. PICK made \in Mix : call = [c \in Call |-> At(IF c \in made THEN "new" ELSE "unused")]
    BY DEF Init
<1>2. \A c \in Call : /\ call[c].pc = (IF c \in made THEN "new" ELSE "unused")
                      /\ call[c].doc = NewOrder
    BY <1>1 DEF At
<1>3. ApartInv BY <1>2 DEF ApartInv, CronApart
<1>4. \A c \in Call : CallMarks(c)
  <2>1. order.version = 0 /\ NewOrder.version = 0 BY DEF Init, NewOrder
  <2> QED BY <1>2, <2>1 DEF CallMarks, Saves
<1>5. RefundIsForRejected
  <2>1. \A i \in Item : <<"goods", i>> \in Part BY DEF Part
  <2> QED BY <2>1 DEF Init, RefundIsForRejected
<1> QED BY <1>3, <1>4, <1>5 DEF RefundInv, Init

\* What is refunded or restocked stays marked as such, or the whole payment is
\* returned, for orders with one garment shipment per vendor and where the
\* auto-reject runs apart from saves of whole arrays (rejectVendorShipment,
\* rejectOrderItem, autoRejectStaleShipments, updateProductionStep).
THEOREM RefundsAreForRejected ==
    ASSUME OneGarment, \A made \in Mix : CronApart(made)
    PROVE  Spec => []RefundIsForRejected
<1>1. Init => RefundInv BY InitMarks
<1>2. TypeOK /\ TypeOK' /\ PlaceInv /\ DeliveryInv /\ RefundInv /\ [Next]_vars => RefundInv'
    BY NextMarks
<1>3. RefundInv => RefundIsForRejected BY DEF RefundInv
<1>4. Spec => [](TypeOK /\ PlaceInv) BY OrderTypeCorrect
<1>5. Spec => []DeliveryInv BY DeliveryCorrect
<1> QED BY <1>1, <1>2, <1>3, <1>4, <1>5, PTL DEF Spec

-----------------------------------------------------------------------------
(* Nothing is given back twice.  The calls that may give something back are  *)
(* rejections of items and garments, or runs of the auto-reject of an order  *)
(* without fabric, or one cancellation; any other calls run beside them.     *)

LEMMA StepStill ==
    ASSUME TypeOK, PlaceInv, NEW c \in Call,
           \/ ConfirmStep(c) \/ RejectStep(c) \/ CancelStep(c) \/ CronStep(c)
           \/ StageStep(c) \/ FulfilStep(c) \/ HookStep(c)
    PROVE  Still(c) /\ call[c].pc # "unused"
<1>0. ASSUME NEW pc, End(c, pc) \/ Load(c, pc) \/ Goto(c, pc) PROVE Still(c)
    BY <1>0, Moves
<1>1. ASSUME NEW pc, Over(c, pc) PROVE Still(c) BY <1>1, Moves
<1>2. CASE ConfirmStep(c) BY <1>0, <1>2 DEF ConfirmStep, ConfirmLoad, ConfirmSave
<1>3. CASE RejectStep(c)
  <2>1. CASE RejectShipmentLoad(c) BY <2>1, RejectShipmentLoadIs DEF RejectShipmentLoad
  <2>2. CASE RejectItemLoad(c) BY <2>2, RejectItemLoadIs DEF RejectItemLoad
  <2>3. CASE RejectSave(c) BY <2>3, RejectSaveIs DEF RejectSave
  <2>4. CASE RejectRefund(c) BY <2>4, RejectRefundIs DEF RejectRefund, RefundParts
  <2>5. ASSUME NEW i \in Item, RejectRestoreItem(c, i) PROVE Still(c) /\ call[c].pc # "unused"
      BY <2>5, RestoreItemIs DEF RejectRestoreItem, refundVars
  <2>6. CASE RejectEnd(c) BY <1>1, <2>6 DEF RejectEnd, refundVars
  <2> QED BY <1>3, <2>1, <2>2, <2>3, <2>4, <2>5, <2>6 DEF RejectStep
<1>4. CASE CancelStep(c)
    BY <1>0, <1>4 DEF CancelStep, CancelLoad, CancelRefund, CancelSave, CancelRestore, refundVars
<1>5. CASE CronStep(c)
  <2>1. CASE CronLoad(c) BY <2>1, CronLoadIs DEF CronLoad
  <2>2. CASE CronClaimFabric(c) BY <2>2, ClaimFabricIs DEF CronClaimFabric
  <2>3. CASE CronClaimGarment(c) BY <2>3, ClaimGarmentIs DEF CronClaimGarment, refundVars
  <2>4. CASE CronSave(c) BY <2>4, CronSaveIs DEF CronSave
  <2> QED BY <1>5, <2>1, <2>2, <2>3, <2>4 DEF CronStep
<1>6. CASE StageStep(c)
  <2>1. CASE StageLoad(c) BY <1>0, <2>1 DEF StageLoad
  <2>2. ASSUME NEW ready \in BOOLEAN, StageSave(c, ready) PROVE Still(c) /\ call[c].pc # "unused"
      BY <2>2, StageSaveIs DEF StageSave
  <2> QED BY <1>6, <2>1, <2>2 DEF StageStep
<1>7. CASE FulfilStep(c)
  <2>1. CASE FulfilCheck(c) BY <1>0, <2>1 DEF FulfilCheck
  <2>2. CASE FulfilClaim(c) BY <2>2, FulfilClaimIs DEF FulfilClaim
  <2>3. CASE BuyLabel(c) BY <2>3, BuyLabelIs DEF BuyLabel
  <2>4. CASE LabelFails(c) BY <2>4, LabelFailsIs DEF LabelFails
  <2>5. CASE ShipSave(c)
    <3>1. End(c, "done") \/ End(c, "conflict") BY <2>5 DEF ShipSave
    <3> QED BY <1>0, <2>5, <3>1 DEF ShipSave
  <2> QED BY <1>7, <2>1, <2>2, <2>3, <2>4, <2>5 DEF FulfilStep
<1>8. CASE HookStep(c)
  <2>1. ASSUME NEW event, HookLoad(c, event) PROVE Still(c) /\ call[c].pc # "unused"
      BY <2>1, HookLoadIs DEF HookLoad
  <2>2. CASE HookSchedule(c) BY <1>0, <2>2 DEF HookSchedule
  <2>3. CASE HookSave(c)
    <3>1. End(c, "done") \/ End(c, "conflict") BY <2>3 DEF HookSave
    <3> QED BY <1>0, <2>3, <3>1 DEF HookSave
  <2> QED BY <1>8, <2>1, <2>2, <2>3 DEF HookStep
<1> QED BY <1>2, <1>3, <1>4, <1>5, <1>6, <1>7, <1>8

\* Confirmations, shipping and the carrier give nothing back.
LEMMA OthersGive ==
    ASSUME NEW c \in Call, ConfirmStep(c) \/ StageStep(c) \/ FulfilStep(c) \/ HookStep(c)
    PROVE  UNCHANGED customerVars
<1> USE DEF reviewFrame, shippingFrame
<1>1. CASE ConfirmStep(c) BY <1>1 DEF ConfirmStep, ConfirmLoad, ConfirmSave
<1>2. CASE StageStep(c) BY <1>2 DEF StageStep, StageLoad, StageSave
<1>3. CASE FulfilStep(c)
  <2>1. CASE FulfilCheck(c) BY <2>1 DEF FulfilCheck
  <2>2. CASE FulfilClaim(c) BY <2>2 DEF FulfilClaim
  <2>3. CASE BuyLabel(c) BY <2>3 DEF BuyLabel
  <2>4. CASE LabelFails(c) BY <2>4 DEF LabelFails
  <2>5. CASE ShipSave(c) BY <2>5 DEF ShipSave
  <2> QED BY <1>3, <2>1, <2>2, <2>3, <2>4, <2>5 DEF FulfilStep
<1>4. CASE HookStep(c)
  <2>1. ASSUME NEW event, HookLoad(c, event) PROVE UNCHANGED customerVars
      BY <2>1 DEF HookLoad
  <2>2. CASE HookSchedule(c) BY <2>2 DEF HookSchedule
  <2>3. CASE HookSave(c) BY <2>3 DEF HookSave
  <2> QED BY <1>4, <2>1, <2>2, <2>3 DEF HookStep
<1> QED BY <1>1, <1>2, <1>3, <1>4

\* Mode of a behaviour: no cancellation, no auto-reject, no fabric declined.
RejectsOnly ==
    \A c \in Call : call[c].pc # "unused" =>
      /\ Op[c] \notin {"cancel", "cron"}
      /\ Op[c] = "rejectShipment" => FirstOf(Arg[c]) \notin Fabric

\* What a rejection that is saved has yet to refund and to restore.
Owed(c) == IF call[c].pc = "rejectRefund" THEN RefundedParts(c) ELSE {}
OwedStock(c) ==
    IF call[c].pc = "rejectRefund" THEN RejectedItems(c)
    ELSE IF call[c].pc = "rejectRestore" THEN call[c].todo ELSE {}

MarkedPart(p) == IF p[1] = "fee" THEN p[2] \in order.rejected ELSE p[2] \in order.declined

\* What a rejection rejects was not rejected when it loaded the document.
Fresh(c) ==
    call[c].pc \in Rejecting =>
      ~Unwinds(c) /\ (Op[c] = "rejectItem" => Arg[c] \notin call[c].doc.declined)

\* Nothing unmarked was given back, and what is owed is marked, not given yet and
\* owed by one call.
RejectGive ==
    /\ RejectsOnly
    /\ background = {}
    /\ GivenBackOnce
    /\ \A p \in Part : refund[p] > 0 => MarkedPart(p)
    /\ \A i \in Item : restocked[i] > 0 => i \in order.declined
    /\ \A c \in Call :
         /\ Fresh(c)
         /\ \A p \in Owed(c) : MarkedPart(p) /\ refund[p] = 0
         /\ \A i \in OwedStock(c) : i \in order.declined /\ restocked[i] = 0
    /\ \A c, d \in Call : c # d =>
         Owed(c) \cap Owed(d) = {} /\ OwedStock(c) \cap OwedStock(d) = {}

LEMMA SameOwed ==
    ASSUME NEW c \in Call, call'[c] = call[c]
    PROVE  /\ Owed(c)' = Owed(c) /\ OwedStock(c)' = OwedStock(c) /\ Fresh(c)' = Fresh(c)
BY DEF Owed, OwedStock, Fresh, RefundedParts, AfterReject, RejectedItems, Unwinds, Unwound

\* A step that gives nothing back and owes nothing new.
LEMMA RejectGiveKept ==
    ASSUME TypeOK, TypeOK', RejectGive, Grows, NEW S \in SUBSET Call,
           \A d \in Call \ S : call'[d] = call[d],
           \A c \in S : /\ call[c].pc # "unused" /\ Fresh(c)'
                        /\ Owed(c)' \subseteq Owed(c) /\ OwedStock(c)' \subseteq OwedStock(c),
           UNCHANGED <<refund, restocked>>, background' = {}
    PROVE  RejectGive'
<1>1. RejectsOnly' BY DEF RejectGive, RejectsOnly
<1>2. \A p \in Part : MarkedPart(p) => MarkedPart(p)' BY DEF MarkedPart, Grows
<1>3. \A c \in Call : /\ Fresh(c)' /\ Owed(c)' \subseteq Owed(c)
                      /\ OwedStock(c)' \subseteq OwedStock(c)
    BY SameOwed DEF RejectGive
<1>4. \A c \in Call : Owed(c) \subseteq Part BY DEF Owed, RefundedParts
<1>5. \A c \in Call : /\ \A p \in Owed(c)' : MarkedPart(p)' /\ refund'[p] = 0
                      /\ \A i \in OwedStock(c)' : i \in order'.declined /\ restocked'[i] = 0
    BY <1>2, <1>3, <1>4 DEF RejectGive, Grows
<1>6. \A c, d \in Call : c # d =>
        Owed(c)' \cap Owed(d)' = {} /\ OwedStock(c)' \cap OwedStock(d)' = {}
    BY <1>3 DEF RejectGive
<1>7. GivenBackOnce' BY DEF RejectGive, GivenBackOnce
<1>8. /\ \A p \in Part : refund'[p] > 0 => MarkedPart(p)'
      /\ \A i \in Item : restocked'[i] > 0 => i \in order'.declined
    BY <1>2 DEF RejectGive, Grows
<1> QED BY <1>1, <1>3, <1>5, <1>6, <1>7, <1>8 DEF RejectGive

\* A call gives what it owed, and owes what it marks.
LEMMA RejectGiveMoves ==
    ASSUME TypeOK, TypeOK', RejectGive, Grows, NEW c \in Call, Still(c),
           call[c].pc # "unused", Fresh(c)', background' = {},
           \A p \in Part :
             \/ refund'[p] = refund[p]
             \/ p \in Owed(c) /\ p \notin Owed(c)' /\ refund'[p] = refund[p] + 1,
           \A i \in Item :
             \/ restocked'[i] = restocked[i]
             \/ i \in OwedStock(c) /\ i \notin OwedStock(c)' /\ restocked'[i] = restocked[i] + 1,
           \A p \in Owed(c)' : p \in Owed(c) \/ (~MarkedPart(p) /\ MarkedPart(p)'),
           \A i \in OwedStock(c)' :
             i \in Item /\ (i \in OwedStock(c) \/ (i \notin order.declined /\ i \in order'.declined))
    PROVE  RejectGive'
<1>1. RejectsOnly' BY DEF RejectGive, RejectsOnly, Still
<1>2. \A p \in Part : MarkedPart(p) => MarkedPart(p)' BY DEF MarkedPart, Grows
<1>3. \A d \in Call \ {c} :
        Owed(d)' = Owed(d) /\ OwedStock(d)' = OwedStock(d) /\ Fresh(d)' = Fresh(d)
    BY SameOwed DEF Still
<1>4. \A d \in Call : Owed(d) \subseteq Part BY DEF Owed, RefundedParts
<1>5. \A d \in Call : Owed(d)' \subseteq Part BY DEF Owed, RefundedParts, Part
<1>6. \A d \in Call : \A p \in Owed(d) : MarkedPart(p) /\ refund[p] = 0 BY DEF RejectGive
<1>7. \A d \in Call : \A i \in OwedStock(d) : i \in order.declined /\ restocked[i] = 0
    BY DEF RejectGive
<1>8. \A p \in Part : refund[p] \in Nat /\ (refund[p] > 0 => MarkedPart(p)) /\ refund[p] <= 1
    BY DEF RejectGive, GivenBackOnce, TypeOK
<1>9. \A i \in Item : /\ restocked[i] \in Nat /\ restocked[i] <= 1
                      /\ (restocked[i] > 0 => i \in order.declined)
    BY DEF RejectGive, GivenBackOnce, TypeOK
<1>10. \A p \in Part : refund'[p] <= 1 /\ (refund'[p] > 0 => MarkedPart(p)')
    BY <1>2, <1>6, <1>8
<1>11. \A i \in Item : restocked'[i] <= 1 /\ (restocked'[i] > 0 => i \in order'.declined)
    BY <1>7, <1>9 DEF Grows
<1>12. \A d \in Call : OwedStock(d) \subseteq Item
    BY <1>7 DEF TypeOK, OrderDoc
<1>13. \A d \in Call \ {c} : Owed(c) \cap Owed(d) = {} /\ OwedStock(c) \cap OwedStock(d) = {}
    BY DEF RejectGive
<1>14. \A d \in Call : \A p \in Owed(d)' : MarkedPart(p)' /\ refund'[p] = 0
  <2>1. \A p \in Owed(c)' : MarkedPart(p)' /\ refund'[p] = 0
    <3> SUFFICES ASSUME NEW p \in Owed(c)' PROVE MarkedPart(p)' /\ refund'[p] = 0 OBVIOUS
    <3>1. p \in Part /\ refund'[p] = refund[p] BY <1>5
    <3>2. CASE p \in Owed(c) BY <1>2, <1>6, <3>1, <3>2
    <3>3. CASE ~MarkedPart(p) /\ MarkedPart(p)' BY <1>8, <3>1, <3>3
    <3> QED BY <3>2, <3>3
  <2>2. ASSUME NEW d \in Call \ {c}, NEW p \in Owed(d)' PROVE MarkedPart(p)' /\ refund'[p] = 0
    <3>1. p \in Owed(d) /\ p \in Part /\ p \notin Owed(c) BY <1>3, <1>4, <1>13
    <3> QED BY <1>2, <1>6, <3>1
  <2> QED BY <2>1, <2>2
<1>15. \A d \in Call : \A i \in OwedStock(d)' : i \in order'.declined /\ restocked'[i] = 0
  <2>1. \A i \in OwedStock(c)' : i \in order'.declined /\ restocked'[i] = 0
    <3> SUFFICES ASSUME NEW i \in OwedStock(c)' PROVE i \in order'.declined /\ restocked'[i] = 0
        OBVIOUS
    <3>1. i \in Item /\ restocked'[i] = restocked[i] OBVIOUS
    <3>2. CASE i \in OwedStock(c) BY <1>7, <3>1, <3>2 DEF Grows
    <3>3. CASE i \notin order.declined /\ i \in order'.declined BY <1>9, <3>1, <3>3
    <3> QED BY <3>2, <3>3
  <2>2. ASSUME NEW d \in Call \ {c}, NEW i \in OwedStock(d)'
        PROVE  i \in order'.declined /\ restocked'[i] = 0
    <3>1. i \in OwedStock(d) /\ i \in Item /\ i \notin OwedStock(c) BY <1>3, <1>12, <1>13
    <3> QED BY <1>7, <3>1 DEF Grows
  <2> QED BY <2>1, <2>2
<1>16. \A d \in Call \ {c} :
         Owed(c)' \cap Owed(d)' = {} /\ OwedStock(c)' \cap OwedStock(d)' = {}
  <2> SUFFICES ASSUME NEW d \in Call \ {c}
               PROVE  Owed(c)' \cap Owed(d)' = {} /\ OwedStock(c)' \cap OwedStock(d)' = {}
      OBVIOUS
  <2>1. Owed(d)' = Owed(d) /\ OwedStock(d)' = OwedStock(d) BY <1>3
  <2>2. \A p \in Owed(d) : MarkedPart(p) /\ p \notin Owed(c) BY <1>6, <1>13
  <2>3. \A i \in OwedStock(d) : i \in order.declined /\ i \notin OwedStock(c) BY <1>7, <1>13
  <2> QED BY <2>1, <2>2, <2>3
<1>17. \A d, e \in Call : d # e =>
         Owed(d)' \cap Owed(e)' = {} /\ OwedStock(d)' \cap OwedStock(e)' = {}
  <2> SUFFICES ASSUME NEW d \in Call, NEW e \in Call, d # e
               PROVE  Owed(d)' \cap Owed(e)' = {} /\ OwedStock(d)' \cap OwedStock(e)' = {}
      OBVIOUS
  <2>1. CASE d = c BY <1>16, <2>1
  <2>2. CASE e = c BY <1>16, <2>2
  <2>3. CASE d # c /\ e # c
    <3>1. /\ Owed(d)' = Owed(d) /\ OwedStock(d)' = OwedStock(d)
          /\ Owed(e)' = Owed(e) /\ OwedStock(e)' = OwedStock(e)
        BY <1>3, <2>3
    <3> QED BY <3>1 DEF RejectGive
  <2> QED BY <2>1, <2>2, <2>3
<1>18. GivenBackOnce' BY <1>10, <1>11 DEF GivenBackOnce
<1>19. \A d \in Call : Fresh(d)' BY <1>3 DEF RejectGive
<1> QED BY <1>1, <1>10, <1>11, <1>14, <1>15, <1>17, <1>18, <1>19 DEF RejectGive

\* A rejection in this mode rejects items, not a fabric shipment.
LEMMA RejectionHolds ==
    ASSUME TypeOK, PlaceInv, RejectGive, NEW c \in Call, call[c].pc \in Rejecting
    PROVE  ~Unwinds(c) /\ RejectedItems(c) \subseteq Item
BY RejectionParts DEF RejectGive, Fresh

\* What a saved rejection refunds was not marked before, and is marked after.
LEMMA RejectSaveGives ==
    ASSUME TypeOK, TypeOK', PlaceInv, RefundInv, RejectGive, Grows, NEW c \in Call, RejectSave(c)
    PROVE  RejectGive'
<1> USE DEF reviewFrame
<1> DEFINE d == call[c].doc
<1>1. call[c].pc = "rejectSave" /\ UNCHANGED customerVars BY DEF RejectSave
<1>2. Still(c) BY RejectSaveIs
<1>3. CASE order' = order /\ call'[c].pc \notin Running
  <2>1. Fresh(c)' /\ Owed(c)' = {} /\ OwedStock(c)' = {}
      BY <1>3 DEF Fresh, Owed, OwedStock, Rejecting, Running
  <2> QED BY <1>1, <1>2, <2>1, RejectGiveMoves DEF customerVars, refundVars, RejectGive
<1>4. CASE /\ Current(c)
           /\ call'[c].pc = "rejectRefund" /\ call'[c].doc = d
           /\ call'[c].at = call[c].at
           /\ order'.rejected = d.rejected \cup Failing(c)
           /\ order'.declined = IF Unwinds(c) THEN order.declined
                                ELSE d.declined \cup RejectedItems(c)
  <2>1. ~Unwinds(c) /\ RejectedItems(c) \subseteq Item
      BY <1>1, RejectionHolds DEF Rejecting
  <2>2. order.declined \subseteq d.declined /\ order.rejected \subseteq d.rejected
      BY <1>1, <1>4 DEF RefundInv, CallMarks, Saves
  <2>3. \A i \in RejectedItems(c) : i \notin d.declined /\ i \in order'.declined
    <3>1. Fresh(c) BY DEF RejectGive
    <3>2. \A i \in RejectedItems(c) : i \notin d.declined
        BY <1>1, <3>1 DEF Fresh, RejectedItems, Undeclined, Rejecting
    <3> QED BY <1>4, <2>1, <3>2
  <2>4. Unwinds(c)' = Unwinds(c) /\ RejectedItems(c)' = RejectedItems(c)
      BY <1>4 DEF Unwinds, RejectedItems
  <2>5. Fresh(c)' BY <1>1, <1>4, <2>4 DEF RejectGive, Fresh, Rejecting
  <2>6. AfterReject(c)' = AfterReject(c)
      BY <1>4, <2>4 DEF AfterReject, Unwound
  <2>7. AfterReject(c).rejected = order'.rejected
      BY <1>1, <1>4, AfterRejectIs DEF Rejecting
  <2>8. \A p \in Owed(c)' : ~MarkedPart(p) /\ MarkedPart(p)'
    <3> SUFFICES ASSUME NEW p \in RefundedParts(c)' PROVE ~MarkedPart(p) /\ MarkedPart(p)'
        BY <1>4 DEF Owed
    <3>1. CASE p[1] \in {"goods", "fabric"} /\ p[2] \in RejectedItems(c)
        BY <2>2, <2>3, <3>1 DEF MarkedPart
    <3>2. CASE p[1] = "fee" /\ p[2] \in order'.rejected \ d.rejected
        BY <2>2, <3>2 DEF MarkedPart
    <3> QED BY <1>4, <2>1, <2>4, <2>6, <2>7, <3>1, <3>2 DEF RefundedParts
  <2>9. \A i \in OwedStock(c)' : i \in Item /\ i \notin order.declined /\ i \in order'.declined
      BY <1>4, <2>1, <2>2, <2>3, <2>4 DEF OwedStock
  <2> QED BY <1>1, <1>2, <2>5, <2>8, <2>9, RejectGiveMoves DEF customerVars, refundVars, RejectGive
<1> QED BY <1>3, <1>4, RejectSaveIs

LEMMA RejectionGives ==
    ASSUME TypeOK, TypeOK', PlaceInv, RefundInv, RejectGive, Grows, NEW c \in Call, RejectStep(c)
    PROVE  RejectGive'
<1> USE DEF reviewFrame
<1>0. background = {} BY DEF RejectGive
<1>1. CASE RejectShipmentLoad(c)
  <2>1. call[c].pc # "unused" /\ UNCHANGED customerVars /\ Op[c] = "rejectShipment"
      BY <1>1 DEF RejectShipmentLoad
  <2>2. Still(c) BY <1>1, RejectShipmentLoadIs
  <2>3. {FirstOf(Arg[c])} \cap Fabric = {} BY <2>1 DEF RejectGive, RejectsOnly
  <2>4. call'[c].pc \in Rejecting => call'[c].pc = "rejectSave" /\ call'[c].at = {}
      BY <1>1, <2>3, RejectShipmentLoadIs DEF Rejecting, Running
  <2>5. Fresh(c)' BY <2>1, <2>4 DEF Fresh, Unwinds
  <2>6. Owed(c)' = {} /\ OwedStock(c)' = {} BY <2>4 DEF Owed, OwedStock, Rejecting
  <2> QED BY <1>0, <2>1, <2>2, <2>5, <2>6, RejectGiveMoves DEF customerVars, refundVars
<1>2. CASE RejectItemLoad(c)
  <2>1. call[c].pc # "unused" /\ UNCHANGED customerVars BY <1>2 DEF RejectItemLoad
  <2>2. Still(c) BY <1>2, RejectItemLoadIs
  <2>4. call'[c].pc \in Rejecting =>
          call'[c].pc = "rejectSave" /\ call'[c].at = {} /\ Arg[c] \notin call'[c].doc.declined
      BY <1>2, RejectItemLoadIs DEF Rejecting, Running
  <2>5. Fresh(c)' BY <2>4 DEF Fresh, Unwinds
  <2>6. Owed(c)' = {} /\ OwedStock(c)' = {} BY <2>4 DEF Owed, OwedStock, Rejecting
  <2> QED BY <1>0, <2>1, <2>2, <2>5, <2>6, RejectGiveMoves DEF customerVars, refundVars
<1>3. CASE RejectSave(c) BY <1>3, RejectSaveGives
<1>4. CASE RejectRefund(c)
  <2>1. /\ call[c].pc = "rejectRefund" /\ refund' \in {refund, Paid(refund, RefundedParts(c))}
        /\ UNCHANGED <<restocked, background>>
      BY <1>4 DEF RejectRefund, RefundParts
  <2>2. ~Unwinds(c) /\ RejectedItems(c) \subseteq Item BY <2>1, RejectionHolds DEF Rejecting
  <2>3. /\ Still(c) /\ call'[c].pc = "rejectRestore" /\ call'[c].doc = call[c].doc
        /\ call'[c].at = call[c].at /\ call'[c].todo = RejectedItems(c)
      BY <1>4, <2>2, RejectRefundIs
  <2>4. Owed(c) = RefundedParts(c) /\ Owed(c)' = {} BY <2>1, <2>3 DEF Owed
  <2>5. OwedStock(c) = RejectedItems(c) /\ OwedStock(c)' = RejectedItems(c)
      BY <2>1, <2>3 DEF OwedStock
  <2>6. Fresh(c)' BY <2>1, <2>3 DEF RejectGive, Fresh, Rejecting, Unwinds
  <2>7. \A p \in Part : refund'[p] = refund[p]
                          \/ (p \in RefundedParts(c) /\ refund'[p] = refund[p] + 1)
      BY <2>1, PaidIs DEF TypeOK
  <2> QED BY <1>0, <2>1, <2>2, <2>3, <2>4, <2>5, <2>6, <2>7, RejectGiveMoves
<1>5. ASSUME NEW i \in Item, RejectRestoreItem(c, i) PROVE RejectGive'
  <2>1. /\ call[c].pc = "rejectRestore" /\ i \in call[c].todo
        /\ RestoreItems({i}) /\ UNCHANGED <<refund, background>>
      BY <1>5 DEF RejectRestoreItem, refundVars
  <2>2. /\ Still(c) /\ call'[c].pc = "rejectRestore" /\ call'[c].doc = call[c].doc
        /\ call'[c].at = call[c].at /\ call'[c].todo = call[c].todo \ {i}
      BY <1>5, RestoreItemIs
  <2>3. Owed(c)' = {} /\ OwedStock(c) = call[c].todo /\ OwedStock(c)' = call[c].todo \ {i}
      BY <2>1, <2>2 DEF Owed, OwedStock
  <2>4. Fresh(c)' BY <2>1, <2>2 DEF RejectGive, Fresh, Rejecting, Unwinds
  <2>5. \A j \in Item : restocked'[j] = restocked[j] \/ (j = i /\ restocked'[j] = restocked[j] + 1)
    <3>1. \A j \in Item : j # i => restocked'[j] = restocked[j] BY <2>1, RestoreIs
    <3>2. restocked'[i] = restocked[i] + (IF order.deducted THEN 1 ELSE 0) BY <2>1, RestoreIs
    <3>3. restocked[i] \in Nat BY DEF TypeOK
    <3> QED BY <3>1, <3>2, <3>3
  <2>6. call[c].todo \subseteq Item
    <3>1. OwedStock(c) \subseteq order.declined BY DEF RejectGive
    <3> QED BY <2>3, <3>1 DEF TypeOK, OrderDoc
  <2> QED BY <1>0, <2>1, <2>2, <2>3, <2>4, <2>5, <2>6, RejectGiveMoves
<1>6. CASE RejectEnd(c)
  <2>1. call[c].pc = "rejectRestore" /\ Over(c, "done") /\ UNCHANGED <<refund, background>>
      BY <1>6 DEF RejectEnd, refundVars
  <2>2. ~Unwinds(c) BY <2>1, RejectionHolds DEF Rejecting
  <2>3. restocked' = restocked BY <1>6, <2>2 DEF RejectEnd, refundVars
  <2>4. Still(c) /\ call'[c].pc \in {"done", "new"} BY <2>1, OverIs
  <2>5. Fresh(c)' /\ Owed(c)' = {} /\ OwedStock(c)' = {}
      BY <2>4 DEF Fresh, Owed, OwedStock, Rejecting
  <2> QED BY <1>0, <2>1, <2>3, <2>4, <2>5, RejectGiveMoves
<1> QED BY <1>1, <1>2, <1>3, <1>4, <1>5, <1>6 DEF RejectStep

\* Whose step it is.
LEMMA StepsOf ==
    ASSUME PlaceInv, NEW c \in Call
    PROVE  /\ ConfirmStep(c) \/ StageStep(c) \/ FulfilStep(c) \/ HookStep(c) =>
                Op[c] \in {"confirm", "stage", "fulfil", "webhook"}
           /\ CancelStep(c) => Op[c] = "cancel"
           /\ CronStep(c) => Op[c] = "cron"
           /\ RejectStep(c) => Op[c] \in {"rejectShipment", "rejectItem", "cron"}
<1>1. ConfirmStep(c) => Op[c] = "confirm"
    BY DEF ConfirmStep, ConfirmLoad, ConfirmSave, PlaceInv
<1>2. StageStep(c) => Op[c] = "stage" BY DEF StageStep, StageLoad, StageSave, PlaceInv
<1>3. FulfilStep(c) => Op[c] = "fulfil"
    BY DEF FulfilStep, FulfilCheck, FulfilClaim, BuyLabel, LabelFails, ShipSave, PlaceInv
<1>4. HookStep(c) => Op[c] = "webhook"
    BY DEF HookStep, HookLoad, HookSchedule, HookSave, PlaceInv
<1>5. CancelStep(c) => Op[c] = "cancel"
    BY DEF CancelStep, CancelLoad, CancelRefund, CancelSave, CancelRestore, refundVars, PlaceInv
<1>6. CronStep(c) => Op[c] = "cron"
    BY DEF CronStep, CronLoad, CronClaimFabric, CronClaimGarment, refundVars, CronSave, PlaceInv
<1>7. RejectStep(c) => Op[c] \in {"rejectShipment", "rejectItem", "cron"}
    BY DEF RejectStep, RejectShipmentLoad, RejectItemLoad, RejectSave, RejectRefund, RefundParts,
           RejectRestoreItem, refundVars, RejectEnd, PlaceInv, Rejecting
<1> QED BY <1>1, <1>2, <1>3, <1>4, <1>5, <1>6, <1>7

\* A call that is cut off waits again or is over.
LEMMA CrashIs ==
    ASSUME TypeOK, Crash
    PROVE  /\ UNCHANGED <<order, refund, restocked>> /\ background' \subseteq background
           /\ \/ UNCHANGED call
              \/ \E c \in Call : /\ Still(c) /\ call[c].pc # "unused"
                                 /\ call'[c].pc \in {"crashed", "new"}
                                 /\ call[c].pc \in Running /\ UNCHANGED background
                                 /\ (Op[c] # "cron" => call'[c].pc = "crashed")
<1>1. UNCHANGED <<order, refund, restocked>> /\ background' \subseteq background BY DEF Crash, refundVars
<1>2. ASSUME NEW c \in Call, call[c].pc \in Running, Over(c, "crashed"), UNCHANGED background
      PROVE  \E d \in Call : /\ Still(d) /\ call[d].pc # "unused"
                             /\ call'[d].pc \in {"crashed", "new"}
                             /\ call[d].pc \in Running /\ UNCHANGED background
                             /\ (Op[d] # "cron" => call'[d].pc = "crashed")
  <2>1. Still(c) /\ call'[c].pc \in {"crashed", "new"} BY <1>2, OverIs
  <2>2. Op[c] # "cron" => call'[c].pc = "crashed"
    <3>1. Op[c] # "cron" => End(c, "crashed") BY <1>2 DEF Over
    <3> QED BY <3>1, EndIs
  <2>3. call[c].pc # "unused" BY <1>2 DEF Running
  <2> QED BY <1>2, <2>1, <2>2, <2>3
<1> QED BY <1>1, <1>2 DEF Crash, refundVars

LEMMA NextRejectGive ==
    ASSUME TypeOK, TypeOK', PlaceInv, PlaceInv', RefundInv, Grows, RejectGive, [Next]_vars
    PROVE  RejectGive'
<1>0. background = {} BY DEF RejectGive
<1>1. ASSUME NEW c \in Call, ConfirmStep(c) \/ StageStep(c) \/ FulfilStep(c) \/ HookStep(c)
      PROVE  RejectGive'
  <2>1. Op[c] \notin {"rejectShipment", "rejectItem", "cron"} BY <1>1, StepsOf
  <2>2. call'[c].pc \notin Rejecting BY <2>1 DEF PlaceInv
  <2>3. Fresh(c)' /\ Owed(c)' = {} /\ OwedStock(c)' = {}
      BY <2>2 DEF Fresh, Owed, OwedStock, Rejecting
  <2>4. UNCHANGED customerVars BY <1>1, OthersGive
  <2>5. Still(c) /\ call[c].pc # "unused" BY <1>1, StepStill
  <2> QED BY <1>0, <2>3, <2>4, <2>5, RejectGiveMoves DEF customerVars, refundVars
<1>2. ASSUME NEW c \in Call, RejectStep(c) PROVE RejectGive' BY <1>2, RejectionGives
<1>3. ASSUME NEW c \in Call, CancelStep(c) \/ CronStep(c) PROVE FALSE
  <2>1. call[c].pc # "unused" BY <1>3, StepStill
  <2>2. Op[c] \in {"cancel", "cron"} BY <1>3, StepsOf
  <2> QED BY <2>1, <2>2 DEF RejectGive, RejectsOnly
<1>4. ~BackgroundStep BY <1>0 DEF BackgroundStep
<1>5. ASSUME UNCHANGED <<call, refund, restocked>>, background' \subseteq background
      PROVE  RejectGive'
  <2>1. {} \in SUBSET Call /\ (\A d \in Call \ {} : call'[d] = call[d]) BY <1>5
  <2>2. background' = {} BY <1>0, <1>5
  <2> QED BY <1>5, <2>1, <2>2, RejectGiveKept
<1>6. CASE Crash
  <2>1. CASE UNCHANGED call BY <1>5, <1>6, <2>1, CrashIs
  <2>2. ASSUME NEW c \in Call, Still(c), call[c].pc # "unused",
               call'[c].pc \in {"crashed", "new"}
        PROVE  RejectGive'
    <3>1. Fresh(c)' /\ Owed(c)' = {} /\ OwedStock(c)' = {}
        BY <2>2 DEF Fresh, Owed, OwedStock, Rejecting
    <3>2. UNCHANGED <<refund, restocked>> /\ background' = {} BY <1>0, <1>6, CrashIs
    <3> QED BY <2>2, <3>1, <3>2, RejectGiveMoves
  <2> QED BY <1>6, <2>1, <2>2, CrashIs
<1>7. CASE CarrierStep \/ UNCHANGED vars
  <2>1. UNCHANGED <<call, refund, restocked, background>>
      BY <1>7 DEF CarrierStep, Pickup, Arrive, shippingFrame, customerVars, refundVars, vars
  <2> QED BY <1>5, <2>1
<1> QED BY <1>1, <1>2, <1>3, <1>4, <1>6, <1>7 DEF Next

\* Mode of a behaviour: no call that gives something back but the auto-reject, of
\* an order without fabric.
CronOnly ==
    /\ Fabric = {}
    /\ \A c \in Call : call[c].pc # "unused" =>
         Op[c] \notin {"cancel", "rejectShipment", "rejectItem", "stage"}

\* The fee and the goods of a shipment, and whether a task of its kind is to come.
PartsOf(s) == {p \in Part : p = <<"fee", s>> \/ (p[1] = "goods" /\ Owner[p[2]] = Business[s])}
Untouched(s, kind) ==
    IF kind = "refund" THEN \A p \in PartsOf(s) : refund[p] = 0
    ELSE \A i \in ItemsOf(Business[s]) : restocked[i] = 0

\* A shipment is given back by the tasks of the run that claimed it, once each.
CronGive ==
    /\ CronOnly
    /\ GivenBackOnce
    /\ \A s \in Shipment \ order.claimed : Untouched(s, "refund") /\ Untouched(s, "restock")
    /\ \A t \in background : t.parts \subseteq PartsOf(t.shipment) /\ Untouched(t.shipment, t.task)
    /\ \A t, u \in background : t.task = u.task /\ t.shipment = u.shipment => t = u

\* No step makes a call that was not made.
MakesNone == \A c \in Call : call'[c].pc # "unused" => call[c].pc # "unused"

LEMMA StillMakes ==
    ASSUME NEW c \in Call, Still(c), call[c].pc # "unused"
    PROVE  MakesNone
BY DEF Still, MakesNone

\* A step that gives nothing back.
LEMMA CronGiveKept ==
    ASSUME TypeOK, CronGive, Grows, MakesNone, UNCHANGED <<refund, restocked>>,
           background' \subseteq background
    PROVE  CronGive'
<1>1. CronOnly' BY DEF CronGive, CronOnly, MakesNone
<1>2. GivenBackOnce' BY DEF CronGive, GivenBackOnce
<1>3. \A s, k : Untouched(s, k)' = Untouched(s, k) BY DEF Untouched
<1>4. \A s \in Shipment \ order'.claimed : s \in Shipment \ order.claimed BY DEF Grows
<1>5. \A s \in Shipment \ order'.claimed : Untouched(s, "refund")' /\ Untouched(s, "restock")'
    BY <1>3, <1>4 DEF CronGive
<1>6. \A t \in background' :
        t.parts \subseteq PartsOf(t.shipment) /\ Untouched(t.shipment, t.task)'
    BY <1>3 DEF CronGive
<1>7. \A t, u \in background' : t.task = u.task /\ t.shipment = u.shipment => t = u
    BY DEF CronGive
<1> QED BY <1>1, <1>2, <1>5, <1>6, <1>7 DEF CronGive

\* Two shipments share no part and no item.
LEMMA PartsApart ==
    ASSUME OneGarment, Fabric = {}, NEW s \in Shipment, NEW t \in Shipment, s # t
    PROVE  /\ PartsOf(s) \cap PartsOf(t) = {}
           /\ ItemsOf(Business[s]) \cap ItemsOf(Business[t]) = {}
<1>1. Business[s] # Business[t] BY DEF OneGarment
<1>2. ItemsOf(Business[s]) \cap ItemsOf(Business[t]) = {} BY <1>1 DEF ItemsOf
<1>3. ASSUME NEW p \in PartsOf(s), p \in PartsOf(t) PROVE FALSE
  <2>1. CASE p = <<"fee", s>>
    <3>1. p # <<"fee", t>> /\ p[1] = "fee" BY <2>1
    <3> QED BY <1>3, <3>1 DEF PartsOf
  <2>2. CASE p[1] = "goods" /\ Owner[p[2]] = Business[s]
    <3>1. p # <<"fee", t>> BY <2>2
    <3> QED BY <1>1, <1>3, <2>2, <3>1 DEF PartsOf
  <2> QED BY <2>1, <2>2 DEF PartsOf
<1> QED BY <1>2, <1>3

\* A run that wins a claim starts the two tasks of a shipment nobody touched.
LEMMA ClaimGives ==
    ASSUME OneGarment, TypeOK, TypeOK', PlaceInv, RefundInv, CronGive, Grows, NEW c \in Call,
           CronClaimGarment(c)
    PROVE  CronGive'
<1> USE DEF reviewFrame
<1> DEFINE s == Min(call[c].todo)
           parts == {p \in Part : \/ p = <<"fee", s>>
                                  \/ /\ p[1] = "goods"
                                     /\ p[2] \in Undeclined(ItemsOf(Business[s]), call[c].doc)}
           task(kind) == [task |-> kind, shipment |-> s, parts |-> parts]
<1>1. UNCHANGED <<refund, restocked>> /\ call[c].pc = "cronScan" BY DEF CronClaimGarment, refundVars
<1>2. Still(c) /\ s \in Shipment BY ClaimGarmentIs
<1>3. MakesNone BY <1>1, <1>2, StillMakes
<1>4. CASE background' = background BY <1>1, <1>3, <1>4, CronGiveKept
<1>5. CASE /\ s \notin order.claimed
           /\ background' = background \cup {task("refund"), task("restock")}
           /\ order' = [order EXCEPT !.claimed = @ \cup {s}]
  <2>1. parts \subseteq PartsOf(s) BY DEF PartsOf, Undeclined, ItemsOf
  <2>2. CronOnly' BY <1>3 DEF CronGive, CronOnly, MakesNone
  <2>3. GivenBackOnce' BY <1>1 DEF CronGive, GivenBackOnce
  <2>4. \A u, k : Untouched(u, k)' = Untouched(u, k) BY <1>1 DEF Untouched
  <2>5. \A u \in Shipment \ order'.claimed : Untouched(u, "refund")' /\ Untouched(u, "restock")'
    <3>1. \A u \in Shipment \ order'.claimed : u \in Shipment \ order.claimed BY DEF Grows
    <3> QED BY <2>4, <3>1 DEF CronGive
  <2>6. Untouched(s, "refund") /\ Untouched(s, "restock") BY <1>2, <1>5 DEF CronGive
  <2>7. \A k : task(k).task = k /\ task(k).shipment = s /\ task(k).parts = parts OBVIOUS
  <2>8. \A t \in background : t.shipment # s BY <1>5 DEF RefundInv, TaskMarks
  <2> HIDE DEF task, parts, s
  <2>9. \A t \in background' :
          t.parts \subseteq PartsOf(t.shipment) /\ Untouched(t.shipment, t.task)'
    <3> SUFFICES ASSUME NEW t \in background'
                 PROVE  t.parts \subseteq PartsOf(t.shipment) /\ Untouched(t.shipment, t.task)'
        OBVIOUS
    <3>1. CASE t \in background BY <2>4, <3>1 DEF CronGive
    <3>2. CASE t = task("refund") BY <2>1, <2>4, <2>6, <2>7, <3>2
    <3>3. CASE t = task("restock") BY <2>1, <2>4, <2>6, <2>7, <3>3
    <3> QED BY <1>5, <3>1, <3>2, <3>3
  <2>10. \A t, u \in background' : t.task = u.task /\ t.shipment = u.shipment => t = u
    <3> SUFFICES ASSUME NEW t \in background', NEW u \in background',
                        t.task = u.task, t.shipment = u.shipment
                 PROVE  t = u
        OBVIOUS
    <3>1. CASE t.shipment = s
      <4>1. t \in {task("refund"), task("restock")} /\ u \in {task("refund"), task("restock")}
          BY <1>5, <2>8, <3>1
      <4> QED BY <2>7, <4>1
    <3>2. CASE t.shipment # s
      <4>1. t \in background /\ u \in background BY <1>5, <2>7, <3>2
      <4> QED BY <4>1 DEF CronGive
    <3> QED BY <3>1, <3>2
  <2> QED BY <2>2, <2>3, <2>5, <2>9, <2>10 DEF CronGive
<1> QED BY <1>4, <1>5 DEF CronClaimGarment, refundVars, Claimable, Claim

\* A task gives back what nobody touched, and touches no other task's parts.
LEMMA TaskGives ==
    ASSUME OneGarment, TypeOK, TypeOK', RefundInv, CronGive, Grows, BackgroundStep
    PROVE  CronGive'
<1> USE DEF reviewFrame
<1>1. PICK t \in background : BackgroundRefund(t) \/ BackgroundRestore(t) BY DEF BackgroundStep
<1>2. /\ t.shipment \in Shipment /\ t.shipment \in order.claimed
      /\ t.parts \subseteq PartsOf(t.shipment) /\ Untouched(t.shipment, t.task)
    BY <1>1 DEF RefundInv, TaskMarks, TypeOK, CronGive
<1>3. background' = background \ {t} /\ call' = call
    BY <1>1 DEF BackgroundRefund, RefundParts, BackgroundRestore, refundVars
<1>4. CronOnly' /\ Fabric = {} BY <1>3 DEF CronGive, CronOnly
<1>5. \A u \in background' : u \in background /\ u.shipment \in Shipment
                            /\ (u.task = t.task => u.shipment # t.shipment)
    BY <1>1, <1>3 DEF CronGive, TypeOK
<1>6. \A s \in Shipment \ order'.claimed : s \in Shipment \ order.claimed /\ s # t.shipment
    BY <1>2 DEF Grows
<1>7. \A u, v \in background' : u.task = v.task /\ u.shipment = v.shipment => u = v
    BY <1>3 DEF CronGive
<1>8. \A u \in background' : u.parts \subseteq PartsOf(u.shipment) BY <1>5 DEF CronGive
<1>9. CASE BackgroundRefund(t)
  <2>1. /\ t.task = "refund" /\ refund' \in {refund, Paid(refund, t.parts)}
        /\ restocked' = restocked
      BY <1>9 DEF BackgroundRefund, RefundParts
  <2>2. \A p \in Part : p \in t.parts => refund[p] = 0 /\ refund'[p] \in {0, 1}
    <3>1. \A p \in t.parts : refund[p] = 0 BY <1>2, <2>1 DEF Untouched
    <3>2. \A p \in Part : p \in t.parts => refund'[p] \in {refund[p], refund[p] + 1}
        BY <2>1, PaidIs DEF TypeOK
    <3> QED BY <3>1, <3>2
  <2>3. \A p \in Part : p \notin t.parts => refund'[p] = refund[p]
      BY <2>1, PaidIs DEF TypeOK
  <2>4. GivenBackOnce' BY <2>1, <2>2, <2>3 DEF CronGive, GivenBackOnce
  <2>5. ASSUME NEW s \in Shipment, s # t.shipment, Untouched(s, "refund")
        PROVE  Untouched(s, "refund")'
    <3>1. \A p \in PartsOf(s) : p \in Part /\ p \notin t.parts
        BY <1>2, <1>4, <2>5, PartsApart DEF PartsOf
    <3> QED BY <2>3, <2>5, <3>1 DEF Untouched
  <2>6. \A s : Untouched(s, "restock")' = Untouched(s, "restock") BY <2>1 DEF Untouched
  <2>7. \A s \in Shipment \ order'.claimed : Untouched(s, "refund")' /\ Untouched(s, "restock")'
      BY <1>6, <2>5, <2>6 DEF CronGive
  <2>8. \A u \in background' : Untouched(u.shipment, u.task)'
    <3> SUFFICES ASSUME NEW u \in background' PROVE Untouched(u.shipment, u.task)' OBVIOUS
    <3>1. u \in background /\ Untouched(u.shipment, u.task) /\ u.task \in {"refund", "restock"}
        BY <1>5 DEF CronGive, TypeOK
    <3> QED BY <1>5, <2>1, <2>5, <2>6, <3>1
  <2> QED BY <1>4, <1>7, <1>8, <2>4, <2>7, <2>8 DEF CronGive
<1>10. CASE BackgroundRestore(t)
  <2> DEFINE items == Undeclined(ItemsOf(Business[t.shipment]), order)
  <2>1. t.task = "restock" /\ RestoreItems(items) /\ refund' = refund
      BY <1>10 DEF BackgroundRestore, refundVars
  <2>2. \A i \in Item : i \in items => restocked[i] = 0
      BY <1>2, <2>1 DEF Untouched, Undeclined
  <2>3. \A i \in Item : i \in items => restocked'[i] <= 1
    <3>1. \A i \in Item : i \in items =>
            restocked'[i] = restocked[i] + (IF order.deducted THEN 1 ELSE 0)
        BY <2>1, RestoreIs
    <3> HIDE DEF items
    <3> QED BY <2>2, <3>1
  <2>4. \A i \in Item : i \notin items => restocked'[i] = restocked[i] BY <2>1, RestoreIs
  <2>5. GivenBackOnce' BY <2>1, <2>3, <2>4 DEF CronGive, GivenBackOnce
  <2>6. ASSUME NEW s \in Shipment, s # t.shipment, Untouched(s, "restock")
        PROVE  Untouched(s, "restock")'
    <3>1. \A i \in ItemsOf(Business[s]) : i \in Item /\ i \notin items
        BY <1>2, <1>4, <2>6, PartsApart DEF ItemsOf, Undeclined
    <3> QED BY <2>4, <2>6, <3>1 DEF Untouched
  <2>7. \A s : Untouched(s, "refund")' = Untouched(s, "refund") BY <2>1 DEF Untouched
  <2>8. \A s \in Shipment \ order'.claimed : Untouched(s, "refund")' /\ Untouched(s, "restock")'
      BY <1>6, <2>6, <2>7 DEF CronGive
  <2>9. \A u \in background' : Untouched(u.shipment, u.task)'
    <3> SUFFICES ASSUME NEW u \in background' PROVE Untouched(u.shipment, u.task)' OBVIOUS
    <3>1. u \in background /\ Untouched(u.shipment, u.task) /\ u.task \in {"refund", "restock"}
        BY <1>5 DEF CronGive, TypeOK
    <3> QED BY <1>5, <2>1, <2>6, <2>7, <3>1
  <2> QED BY <1>4, <1>7, <1>8, <2>5, <2>8, <2>9 DEF CronGive
<1> QED BY <1>1, <1>9, <1>10

LEMMA NextCronGive ==
    ASSUME OneGarment, TypeOK, TypeOK', PlaceInv, RefundInv, Grows, CronGive, [Next]_vars
    PROVE  CronGive'
<1>0. Fabric = {} BY DEF CronGive, CronOnly
<1>1. ASSUME NEW c \in Call, ConfirmStep(c) \/ StageStep(c) \/ FulfilStep(c) \/ HookStep(c)
      PROVE  CronGive'
  <2>1. MakesNone BY <1>1, StepStill, StillMakes
  <2>2. UNCHANGED customerVars BY <1>1, OthersGive
  <2> QED BY <2>1, <2>2, CronGiveKept DEF customerVars, refundVars
<1>2. ASSUME NEW c \in Call, RejectStep(c) \/ CancelStep(c) PROVE FALSE
  <2>1. call[c].pc # "unused" BY <1>2, StepStill
  <2>2. Op[c] = "cron" BY <1>2, <2>1, StepsOf DEF CronGive, CronOnly
  <2>3. RejectStep(c) BY <1>2, <2>2, StepsOf
  <2>4. call[c].pc \in Rejecting
      BY <2>2, <2>3 DEF RejectStep, RejectShipmentLoad, RejectItemLoad, RejectSave, RejectRefund, RefundParts,
                        RejectRestoreItem, refundVars, RejectEnd, Rejecting
  <2> QED BY <1>0, <2>2, <2>4 DEF PlaceInv
<1>3. ASSUME NEW c \in Call, CronStep(c) PROVE CronGive'
  <2>1. MakesNone BY <1>3, StepStill, StillMakes
  <2>2. CASE CronLoad(c) \/ CronSave(c)
    <3>1. UNCHANGED customerVars BY <2>2 DEF CronLoad, CronSave
    <3> QED BY <2>1, <3>1, CronGiveKept DEF customerVars, refundVars
  <2>3. ~CronClaimFabric(c) BY <1>0 DEF CronClaimFabric
  <2> QED BY <1>3, <2>2, <2>3, ClaimGives DEF CronStep
<1>4. ASSUME UNCHANGED <<refund, restocked>>, background' \subseteq background, MakesNone
      PROVE  CronGive'
    BY <1>4, CronGiveKept
<1>5. CASE Crash
  <2>1. MakesNone
    <3>1. CASE UNCHANGED call BY <3>1 DEF MakesNone
    <3> QED BY <1>5, <3>1, CrashIs, StillMakes
  <2> QED BY <1>4, <1>5, <2>1, CrashIs
<1>6. CASE CarrierStep \/ UNCHANGED vars
  <2>1. UNCHANGED <<call, refund, restocked, background>>
      BY <1>6 DEF CarrierStep, Pickup, Arrive, shippingFrame, customerVars, refundVars, vars
  <2>2. MakesNone BY <2>1 DEF MakesNone
  <2> QED BY <1>4, <2>1, <2>2
<1> QED BY <1>1, <1>2, <1>3, <1>5, <1>6, TaskGives DEF Next

\* Mode of a behaviour: one cancellation, and no other call that gives back.
CancelOnly ==
    \A c, d \in Call : call[c].pc # "unused" /\ call[d].pc # "unused" =>
      /\ Op[c] \notin {"cron", "rejectShipment", "rejectItem"}
      /\ (Op[c] = "cancel" /\ Op[d] = "cancel" => c = d)

\* The cancellation finds nothing refunded and nothing restocked.
Cancels(c) ==
    /\ call[c].pc \in {"new", "cancelRefund"} => \A p \in Part : refund[p] = 0
    /\ call[c].pc \in {"new", "cancelRefund", "cancelSave", "cancelRestore"} =>
         \A i \in Item : restocked[i] = 0

CancelGive ==
    /\ CancelOnly
    /\ background = {}
    /\ GivenBackOnce
    /\ \A c \in Call : Op[c] = "cancel" => Cancels(c)

\* A step that gives nothing back, of any call but a cancellation that starts over.
LEMMA CancelGiveKept ==
    ASSUME CancelGive, MakesNone, UNCHANGED <<refund, restocked>>, background' = {},
           \A c \in Call : Op[c] = "cancel" => call'[c] = call[c] \/ Cancels(c)'
    PROVE  CancelGive'
<1>1. CancelOnly' BY DEF CancelGive, CancelOnly, MakesNone
<1>2. GivenBackOnce' BY DEF CancelGive, GivenBackOnce
<1>3. \A c \in Call : Op[c] = "cancel" => Cancels(c)' BY DEF CancelGive, Cancels
<1> QED BY <1>1, <1>2, <1>3 DEF CancelGive

LEMMA CancelGives ==
    ASSUME TypeOK, PlaceInv, CancelGive, NEW c \in Call, CancelStep(c)
    PROVE  CancelGive'
<1> USE DEF reviewFrame
<1>0. /\ Still(c) /\ MakesNone /\ background = {} /\ call[c].pc # "unused" /\ Op[c] = "cancel"
      /\ Cancels(c) /\ GivenBackOnce
    BY StepStill, StillMakes, StepsOf DEF CancelGive
<1>1. \A d \in Call \ {c} : Op[d] = "cancel" => call'[d] = call[d] /\ call[d].pc = "unused"
    BY <1>0 DEF Still, CancelGive, CancelOnly
<1>2. \A d \in Call \ {c} : Op[d] = "cancel" => Cancels(d)' BY <1>1 DEF Cancels
<1>3. CancelOnly' BY <1>0 DEF CancelGive, CancelOnly, MakesNone
<1>4. CASE CancelLoad(c)
  <2>1. UNCHANGED customerVars /\ call[c].pc = "new" BY <1>4 DEF CancelLoad
  <2>2. Cancels(c)' BY <1>0, <2>1 DEF Cancels, customerVars, refundVars
  <2> QED BY <1>0, <1>1, <2>1, <2>2, CancelGiveKept DEF customerVars, refundVars
<1>5. CASE CancelRefund(c)
  <2>1. /\ call[c].pc = "cancelRefund" /\ refund' \in {refund, Paid(refund, Part)}
        /\ Goto(c, "cancelSave") \/ End(c, "failed")
        /\ UNCHANGED <<restocked, background>>
      BY <1>5 DEF CancelRefund
  <2>2. call'[c].pc \in {"cancelSave", "failed"} BY <2>1, GotoIs, EndIs
  <2>3. \A p \in Part : refund[p] = 0 BY <1>0, <2>1 DEF Cancels
  <2>4. \A p \in Part : refund'[p] \in {refund[p], refund[p] + 1} BY <2>1, PaidIs DEF TypeOK
  <2>5. \A p \in Part : refund'[p] <= 1 BY <2>3, <2>4
  <2>6. GivenBackOnce' BY <1>0, <2>1, <2>5 DEF GivenBackOnce
  <2>7. Cancels(c)' BY <1>0, <2>1, <2>2 DEF Cancels
  <2> QED BY <1>0, <1>2, <1>3, <2>1, <2>6, <2>7 DEF CancelGive
<1>6. CASE CancelSave(c)
  <2>1. /\ call[c].pc = "cancelSave" /\ Goto(c, "cancelRestore") /\ UNCHANGED customerVars
      BY <1>6 DEF CancelSave
  <2>2. call'[c].pc = "cancelRestore" BY <2>1, GotoIs
  <2>3. Cancels(c)' BY <1>0, <2>1, <2>2 DEF Cancels, customerVars, refundVars
  <2> QED BY <1>0, <1>1, <2>1, <2>3, CancelGiveKept DEF customerVars, refundVars
<1>7. CASE CancelRestore(c)
  <2> DEFINE items == Undeclined(Item, order)
  <2>1. /\ call[c].pc = "cancelRestore" /\ RestoreItems(items) /\ End(c, "done")
        /\ UNCHANGED <<refund, background>>
      BY <1>7 DEF CancelRestore, refundVars
  <2>2. call'[c].pc = "done" BY <2>1, EndIs
  <2>3. \A i \in Item : restocked[i] = 0 BY <1>0, <2>1 DEF Cancels
  <2>4. /\ \A i \in Item : i \notin items => restocked'[i] = restocked[i]
        /\ \A i \in Item : i \in items =>
             restocked'[i] = restocked[i] + (IF order.deducted THEN 1 ELSE 0)
      BY <2>1, RestoreIs
  <2> HIDE DEF items
  <2>5. \A i \in Item : restocked'[i] <= 1 BY <2>3, <2>4
  <2>6. GivenBackOnce' BY <1>0, <2>1, <2>5 DEF GivenBackOnce
  <2>7. Cancels(c)' BY <2>2 DEF Cancels
  <2> QED BY <1>0, <1>2, <1>3, <2>1, <2>6, <2>7 DEF CancelGive
<1> QED BY <1>4, <1>5, <1>6, <1>7 DEF CancelStep

LEMMA NextCancelGive ==
    ASSUME TypeOK, PlaceInv, CancelGive, [Next]_vars
    PROVE  CancelGive'
<1>0. background = {} BY DEF CancelGive
<1>1. ASSUME NEW c \in Call, ConfirmStep(c) \/ StageStep(c) \/ FulfilStep(c) \/ HookStep(c)
      PROVE  CancelGive'
  <2>1. Still(c) /\ MakesNone BY <1>1, StepStill, StillMakes
  <2>2. UNCHANGED customerVars BY <1>1, OthersGive
  <2>3. \A d \in Call : Op[d] = "cancel" => call'[d] = call[d] BY <1>1, <2>1, StepsOf DEF Still
  <2> QED BY <1>0, <2>1, <2>2, <2>3, CancelGiveKept DEF customerVars, refundVars
<1>2. ASSUME NEW c \in Call, RejectStep(c) \/ CronStep(c) PROVE FALSE
  <2>1. call[c].pc # "unused" BY <1>2, StepStill
  <2>2. Op[c] \in {"cron", "rejectShipment", "rejectItem"} BY <1>2, StepsOf
  <2> QED BY <2>1, <2>2 DEF CancelGive, CancelOnly
<1>3. ~BackgroundStep BY <1>0 DEF BackgroundStep
<1>4. CASE Crash
  <2>1. UNCHANGED <<refund, restocked>> /\ background' = {} BY <1>0, <1>4, CrashIs
  <2>2. CASE UNCHANGED call
    <3>1. MakesNone BY <2>2 DEF MakesNone
    <3> QED BY <2>1, <2>2, <3>1, CancelGiveKept
  <2>3. ASSUME NEW c \in Call, Still(c), call[c].pc # "unused",
               Op[c] # "cron" => call'[c].pc = "crashed"
        PROVE  CancelGive'
    <3>1. MakesNone BY <2>3, StillMakes
    <3>2. Op[c] = "cancel" => Cancels(c)' BY <2>3 DEF Cancels
    <3> QED BY <2>1, <2>3, <3>1, <3>2, CancelGiveKept DEF Still
  <2> QED BY <1>4, <2>2, <2>3, CrashIs
<1>5. CASE CarrierStep \/ UNCHANGED vars
  <2>1. UNCHANGED <<call, refund, restocked, background>>
      BY <1>5 DEF CarrierStep, Pickup, Arrive, shippingFrame, customerVars, refundVars, vars
  <2>2. MakesNone BY <2>1 DEF MakesNone
  <2> QED BY <1>0, <2>1, <2>2, CancelGiveKept
<1> QED BY <1>1, <1>2, <1>3, <1>4, <1>5, CancelGives DEF Next

-----------------------------------------------------------------------------
(* Together.                                                                *)

\* Rejections of items and garments run apart from the auto-reject and from a
\* cancellation, and a cancellation from a second one: nothing in the code keeps
\* them from giving the same part back.
GivesApart(made) ==
    \/ \A c \in made : /\ Op[c] \notin {"cancel", "cron"}
                       /\ Op[c] = "rejectShipment" => FirstOf(Arg[c]) \notin Fabric
    \/ /\ Fabric = {}
       /\ \A c \in made : Op[c] \notin {"cancel", "rejectShipment", "rejectItem", "stage"}
    \/ \A c, d \in made : /\ Op[c] \notin {"cron", "rejectShipment", "rejectItem"}
                          /\ (Op[c] = "cancel" /\ Op[d] = "cancel" => c = d)

GiveInv == RejectGive \/ CronGive \/ CancelGive

LEMMA ApartIsCronApart == ASSUME NEW made, GivesApart(made) PROVE CronApart(made)
BY DEF GivesApart, CronApart

LEMMA InitGive ==
    ASSUME \A made \in Mix : GivesApart(made), Init
    PROVE  GiveInv
<1>1. PICK made \in Mix : call = [c \in Call |-> At(IF c \in made THEN "new" ELSE "unused")]
    BY DEF Init
<1>2. \A c \in Call : call[c].pc = (IF c \in made THEN "new" ELSE "unused")
    BY <1>1 DEF At
<1>3. \A c \in Call : call[c].pc # "unused" => c \in made BY <1>2
<1>4. /\ \A p \in Part : refund[p] = 0
      /\ \A i \in Item : restocked[i] = 0
      /\ background = {}
    BY DEF Init
<1>5. GivenBackOnce BY <1>4 DEF GivenBackOnce
<1>6. CASE \A c \in made : /\ Op[c] \notin {"cancel", "cron"}
                           /\ Op[c] = "rejectShipment" => FirstOf(Arg[c]) \notin Fabric
  <2>1. RejectsOnly BY <1>3, <1>6 DEF RejectsOnly
  <2>2. \A c \in Call : Fresh(c) /\ Owed(c) = {} /\ OwedStock(c) = {}
      BY <1>2 DEF Fresh, Owed, OwedStock, Rejecting
  <2>3. RejectGive BY <1>4, <1>5, <2>1, <2>2 DEF RejectGive
  <2> QED BY <2>3 DEF GiveInv
<1>7. CASE /\ Fabric = {}
           /\ \A c \in made : Op[c] \notin {"cancel", "rejectShipment", "rejectItem", "stage"}
  <2>1. CronOnly BY <1>3, <1>7 DEF CronOnly
  <2>2. \A s : Untouched(s, "refund") /\ Untouched(s, "restock")
      BY <1>4 DEF Untouched, PartsOf, ItemsOf
  <2>3. CronGive BY <1>4, <1>5, <2>1, <2>2 DEF CronGive
  <2> QED BY <2>3 DEF GiveInv
<1>8. CASE \A c, d \in made : /\ Op[c] \notin {"cron", "rejectShipment", "rejectItem"}
                              /\ (Op[c] = "cancel" /\ Op[d] = "cancel" => c = d)
  <2>1. CancelOnly BY <1>3, <1>8 DEF CancelOnly
  <2>2. CancelGive BY <1>4, <1>5, <2>1 DEF CancelGive, Cancels
  <2> QED BY <2>2 DEF GiveInv
<1> QED BY <1>1, <1>6, <1>7, <1>8 DEF GivesApart

LEMMA NextGive ==
    ASSUME OneGarment, TypeOK, TypeOK', PlaceInv, PlaceInv', DeliveryInv, RefundInv, GiveInv,
           [Next]_vars
    PROVE  RefundInv' /\ GiveInv'
<1>1. RefundInv' /\ Grows BY NextMarks
<1>2. RejectGive => RejectGive' BY <1>1, NextRejectGive
<1>3. CronGive => CronGive' BY <1>1, NextCronGive
<1>4. CancelGive => CancelGive' BY NextCancelGive
<1> QED BY <1>1, <1>2, <1>3, <1>4 DEF GiveInv

\* No part of the payment is refunded twice and no item is restocked twice, for
\* orders with one garment shipment per vendor and where the requests that give
\* back run apart (rejectVendorShipment, rejectOrderItem, cancelOrder,
\* autoRejectStaleShipments, restoreInventory).
THEOREM GivesBackOnce ==
    ASSUME OneGarment, \A made \in Mix : GivesApart(made)
    PROVE  Spec => []GivenBackOnce
<1>1. \A made \in Mix : CronApart(made) BY ApartIsCronApart
<1>2. Init => RefundInv /\ GiveInv BY <1>1, InitMarks, InitGive
<1>3. TypeOK /\ TypeOK' /\ PlaceInv /\ PlaceInv' /\ DeliveryInv /\ RefundInv /\ GiveInv
        /\ [Next]_vars => RefundInv' /\ GiveInv'
    BY NextGive
<1>4. GiveInv => GivenBackOnce BY DEF GiveInv, RejectGive, CronGive, CancelGive
<1>5. Spec => [](TypeOK /\ PlaceInv) BY OrderTypeCorrect
<1>6. Spec => []DeliveryInv BY DeliveryCorrect
<1> QED BY <1>2, <1>3, <1>4, <1>5, <1>6, PTL DEF Spec
=============================================================================
