--------------------------- MODULE OrderDocument ---------------------------
(***************************************************************************)
(* One paid order: its document, the requests that work on copies of it,   *)
(* and what they do to the customer's wallet and to the stock.             *)
(*                                                                         *)
(* A request loads the document, awaits, and saves.  Mongoose sends only   *)
(* the paths the request changed.  It guards a write that names an array   *)
(* position (shipments.1.status) by the loaded version, guards a write of  *)
(* a whole array the same way and increments the version, and does not     *)
(* guard a write of scalars.  updateOne and findOneAndUpdate neither       *)
(* check nor change the version.                                           *)
(***************************************************************************)
EXTENDS Integers, Sequences, FiniteSets, FiniteSetsExt, Functions

CONSTANTS
    Vendor,        \* the vendors with a shipment of the order
    Business,      \* Business[s]: the vendor of the order's s-th shipment
    Fabric,        \* the shipments that send fabric to another vendor
    Destination,   \* Destination[s]: the vendor a fabric shipment is sent to
    Item,
    Owner,         \* Owner[i]: the vendor of an item
    Leg,           \* Leg[i]: the fabric shipment that feeds an item, 0 for none
    Call,          \* the requests, cron runs and webhook deliveries
    Op,            \* Op[c]: the handler of a call
    Arg,           \* Arg[c]: its vendor, item or shipment
    Mix,           \* which sets of calls are made together
    Faults,        \* which failures of the carrier and of refunds there may be
    MaxCrashes     \* bound of the model: how often an instance stops

Shipment == DOMAIN Business
OpOn(args, op) == {c \in Call : Op[c] = op /\ Arg[c] \in args}

ASSUME OrderAssumption ==
    /\ Business \in Seq(Vendor)
    /\ \A v \in Vendor : \E s \in Shipment : Business[s] = v
    /\ Fabric \subseteq Shipment
    /\ Destination \in [Fabric -> Vendor]
    /\ Owner \in [Item -> Vendor]
    /\ Leg \in [Item -> Fabric \cup {0}]
    /\ Mix \subseteq SUBSET Call
    /\ Faults \subseteq {"carrierFails", "parcelFails", "reorder", "refundFails"}
    /\ MaxCrashes \in Nat
    /\ Call = UNION {OpOn(Vendor, "confirm"), OpOn(Vendor, "rejectShipment"),
                     OpOn(Item, "rejectItem"), OpOn({0}, "cancel"), OpOn({0}, "cron"),
                     OpOn(Vendor, "stage"), OpOn(Vendor, "fulfil"),
                     OpOn(Shipment, "webhook")}

VARIABLES
    order,         \* the document
    call,          \* local state of each call
    refund,        \* how often each part of the price was refunded
    refundErrors,  \* history: the parts a refund of which ended in an error
    restocked,     \* how often each item was put back into stock
    background,    \* what auto-reject runs started and do not await
    scheduled,     \* completion released the vendors' earnings for payout
    labels,        \* how many labels were bought for a shipment
    parcel,        \* the parcel of a shipment at the carrier
    crashes        \* history: how often an instance stopped

vars == <<order, call, refund, refundErrors, restocked, background, scheduled, labels, parcel, crashes>>
carrierVars == <<labels, parcel>>
refundVars == <<refund, refundErrors>>
customerVars == <<refundVars, restocked, background>>

OrderStatus == {"in_review", "processing", "in_transit", "completed", "cancelled"}
ShipmentStatus == {"pending", "ready", "shipped", "in_transit", "delivered", "failed"}
MaxLabel == Cardinality(Call)

OrderDoc ==
    [version: Nat, status: OrderStatus, refundStatus: {"none", "partial", "refunded"},
     confirmed: SUBSET Shipment, rejected: SUBSET Shipment,
     claimed: SUBSET Shipment, ship: [Shipment -> ShipmentStatus],
     label: [Shipment -> Nat], declined: SUBSET Item, deducted: BOOLEAN]

\* A paid order: in review, its stock deducted.
NewOrder ==
    [version |-> 0, status |-> "in_review", refundStatus |-> "none",
     confirmed |-> {}, rejected |-> {}, claimed |-> {},
     ship |-> [s \in Shipment |-> "pending"], label |-> [s \in Shipment |-> 0],
     declined |-> {}, deducted |-> TRUE]

Part == ({"goods"} \X Item) \cup ({"fee"} \X Shipment)
          \cup ({"fabric"} \X {i \in Item : Leg[i] # 0})

Running == {"confirmSave", "rejectSave", "rejectRefund", "rejectRestore",
            "cancelRefund", "cancelSave", "cancelRestore", "cronScan", "stageSave",
            "claim", "label", "shipSave", "schedule", "hookSave"}
Ended == {"unused", "done", "refused", "conflict", "gated", "failed", "crashed"}

\* doc is the call's copy, todo what it still has to visit, at the shipments
\* it fails itself, event the status a webhook reports.
CallState ==
    [pc: {"new"} \cup Running \cup Ended, doc: OrderDoc, todo: SUBSET (Item \cup Shipment),
     at: SUBSET Shipment, event: {"", "in_transit", "delivered", "failed"}]

At(pc) == [pc |-> pc, doc |-> NewOrder, todo |-> {}, at |-> {}, event |-> ""]

TypeOK ==
    /\ order \in OrderDoc
    /\ call \in [Call -> CallState]
    /\ refund \in [Part -> Nat]
    /\ refundErrors \subseteq Part
    /\ restocked \in [Item -> Nat]
    /\ background \subseteq [task: {"refund", "restock"}, shipment: Shipment, parts: SUBSET Part]
    /\ scheduled \in BOOLEAN
    /\ labels \in [Shipment -> Nat]
    /\ parcel \in [Shipment ->
          [label: Nat, at: {"none", "moving", "delivered", "failed"}]]
    /\ crashes \in Nat

Init ==
    /\ order = NewOrder
    /\ \E made \in Mix :
         call = [c \in Call |-> At(IF c \in made THEN "new" ELSE "unused")]
    /\ refund = [p \in Part |-> 0]
    /\ refundErrors = {}
    /\ restocked = [i \in Item |-> 0]
    /\ background = {}
    /\ scheduled = FALSE
    /\ labels = [s \in Shipment |-> 0]
    /\ parcel = [s \in Shipment |-> [label |-> 0, at |-> "none"]]
    /\ crashes = 0

-----------------------------------------------------------------------------
(* Reading and writing the document                                        *)

\* shipments.find(s => s.business === v).
ShipmentsOf(v) == {s \in Shipment : Business[s] = v}
FirstOf(v) == Min(ShipmentsOf(v))

Active(d) == Shipment \ d.rejected
AllConfirmed(d) == Active(d) # {} /\ Active(d) \subseteq d.confirmed

\* A path is sent when the copy's value differs from the one it was loaded with.
Written(new, loaded, stored) == IF new = loaded THEN stored ELSE new

\* The where clause __v = loaded.
Current(c) == order.version = call[c].doc.version

Load(c, pc) == call' = [call EXCEPT ![c] = [At(pc) EXCEPT !.doc = order]]
Goto(c, pc) == call' = [call EXCEPT ![c].pc = pc]
End(c, pc) == call' = [call EXCEPT ![c] = At(pc)]

-----------------------------------------------------------------------------
(* Refunds and stock                                                       *)

Paid(counts, S) == [x \in DOMAIN counts |-> counts[x] + (IF x \in S THEN 1 ELSE 0)]

\* processPartialRefund credits the customer and marks the order.
PartiallyRefunded(d) ==
    [d EXCEPT !.refundStatus = IF @ = "refunded" THEN @ ELSE "partial"]

\* The refund of a rejection.  An error of the credit, or of the mark after it,
\* is recorded and logged, and the refund is never tried again.
RefundParts(S) ==
    \/ /\ refund' = Paid(refund, S)
       /\ order' = PartiallyRefunded(order)
       /\ UNCHANGED refundErrors
    \/ /\ "refundFails" \in Faults
       /\ refund' \in {refund, Paid(refund, S)}
       /\ refundErrors' = refundErrors \cup S
       /\ UNCHANGED order

\* restoreInventory, one transaction, for items of a stock that was deducted.
RestoreItems(S) == restocked' = IF order.deducted THEN Paid(restocked, S) ELSE restocked

\* The items a vendor-scoped restore finds: all but those rejected one by one.
ItemsOf(v) == {i \in Item : Owner[i] = v}
Undeclined(S, d) == S \ d.declined
=============================================================================
