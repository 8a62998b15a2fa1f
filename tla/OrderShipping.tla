--------------------------- MODULE OrderShipping ---------------------------
(***************************************************************************)
(* The shipping of a paid order: vendors report on their production and    *)
(* buy a label, the carrier moves the parcel, and its webhook updates the  *)
(* shipment and the order.                                                 *)
(***************************************************************************)
EXTENDS OrderDocument

shippingFrame == <<customerVars, crashes>>

-----------------------------------------------------------------------------
(* updateProductionStep, markProductionReadyToShip                         *)

StageLoad(c) ==
    /\ Op[c] = "stage" /\ call[c].pc = "new"
    /\ IF ShipmentsOf(Arg[c]) \subseteq Fabric
       THEN End(c, "refused")
       ELSE Load(c, "stageSave")
    /\ UNCHANGED <<shippingFrame, carrierVars, scheduled, order>>

\* The shipments are sent whole, with a garment that is ready to ship or not.
StageSave(c, ready) ==
    LET s == Min(ShipmentsOf(Arg[c]) \ Fabric)
        loaded == call[c].doc
    IN
    /\ call[c].pc = "stageSave"
    /\ order' = IF Current(c)
                THEN [order EXCEPT
                        !.version = @ + 1,
                        !.confirmed = loaded.confirmed, !.rejected = loaded.rejected,
                        !.claimed = loaded.claimed, !.label = loaded.label,
                        !.ship = IF ready /\ loaded.ship[s] = "pending"
                                 THEN [loaded.ship EXCEPT ![s] = "ready"] ELSE loaded.ship]
                ELSE order
    /\ End(c, IF Current(c) THEN "done" ELSE "conflict")
    /\ UNCHANGED <<shippingFrame, carrierVars, scheduled>>

-----------------------------------------------------------------------------
(* fulfillVendorShipment                                                   *)

\* The early check, on a document that may change before the claim.
Fulfillable(s) == s \in order.confirmed /\ s \notin order.rejected

FulfilCheck(c) ==
    /\ Op[c] = "fulfil" /\ call[c].pc = "new"
    /\ IF Fulfillable(FirstOf(Arg[c])) THEN Goto(c, "claim") ELSE End(c, "refused")
    /\ UNCHANGED <<shippingFrame, carrierVars, scheduled, order>>

\* Mutation: fabric that is on its way is taken for delivered.
NotYetSent(d, s) ==
    {f \in Fabric : Destination[f] = Business[s] /\ d.ship[f] \in {"pending", "ready"}}

\* The fabric a garment waits for.
AwaitedFabric(d, s) ==
    {f \in Fabric : Destination[f] = Business[s] /\ d.ship[f] # "delivered"}

\* The filter asks for some shipment of the vendor and for some unshipped one,
\* not for one that is both, and the positional update changes the first match
\* of either condition.
FulfilClaim(c) ==
    LET s == FirstOf(Arg[c])
        unshipped == {t \in Shipment : order.ship[t] \in {"pending", "ready"}}
    IN
    /\ call[c].pc = "claim"
    /\ IF unshipped = {}
       THEN End(c, "refused") /\ UNCHANGED order
       ELSE \E t \in {s, Min(unshipped)} :
              /\ order' = [order EXCEPT !.ship[t] = "ready"]
              /\ IF s \notin Fabric /\ AwaitedFabric(order', s) # {}
                 THEN End(c, "gated")
                 ELSE call' = [call EXCEPT ![c] = [At("label") EXCEPT !.doc = order']]
    /\ UNCHANGED <<shippingFrame, carrierVars, scheduled>>

\* createShipmentFromToken: the carrier sells a label.
BuyLabel(c) ==
    LET s == FirstOf(Arg[c]) IN
    /\ call[c].pc = "label"
    /\ labels' = [labels EXCEPT ![s] = @ + 1]
    /\ call' = [call EXCEPT ![c].pc = "shipSave", ![c].doc.label[s] = labels[s] + 1]
    /\ UNCHANGED <<shippingFrame, order, parcel, scheduled>>

\* The carrier refuses: the claim is released.
LabelFails(c) ==
    LET ready == {s \in ShipmentsOf(Arg[c]) : order.ship[s] = "ready"} IN
    /\ "carrierFails" \in Faults
    /\ call[c].pc = "label"
    /\ order' = IF ready = {} THEN order
                ELSE [order EXCEPT !.ship[Min(ready)] = "pending"]
    /\ End(c, "failed")
    /\ UNCHANGED <<shippingFrame, carrierVars, scheduled>>

ShipSave(c) ==
    LET s == FirstOf(Arg[c])
        loaded == call[c].doc
        allShipped == \A t \in Shipment \ {s} :
                        loaded.ship[t] \in {"shipped", "in_transit", "delivered"}
    IN
    /\ call[c].pc = "shipSave"
    /\ order' = IF Current(c)
                THEN [order EXCEPT
                        !.label[s] = loaded.label[s],
                        !.ship[s] = Written("shipped", loaded.ship[s], @),
                        !.status = IF allShipped THEN Written("in_transit", loaded.status, @)
                                   ELSE @]
                ELSE order
    /\ End(c, IF Current(c) THEN "done" ELSE "conflict")
    /\ UNCHANGED <<shippingFrame, carrierVars, scheduled>>

-----------------------------------------------------------------------------
(* The carrier                                                             *)

\* The parcel leaves with one of the labels bought for it.
Pickup(s, n) ==
    /\ parcel[s].at = "none"
    /\ n \in 1..labels[s]
    /\ parcel' = [parcel EXCEPT ![s] = [label |-> n, at |-> "moving"]]
    /\ UNCHANGED <<shippingFrame, order, call, labels, scheduled>>

Arrive(s, at) ==
    /\ parcel[s].at = "moving"
    /\ at = "failed" => "parcelFails" \in Faults
    /\ parcel' = [parcel EXCEPT ![s].at = at]
    /\ UNCHANGED <<shippingFrame, order, call, labels, scheduled>>

\* What the carrier may report of a parcel: where it is, and where it was when
\* reports are delayed.
StatusMap == [moving |-> "in_transit", delivered |-> "delivered", failed |-> "failed"]

Reports(s) ==
    {StatusMap[parcel[s].at]} \cup (IF "reorder" \in Faults THEN {"in_transit"} ELSE {})

-----------------------------------------------------------------------------
(* handleShipbubbleWebhook                                                 *)

\* Mutation: the other shipments only have to be shipped.
OthersShipped(d, s) ==
    \A t \in Shipment \ {s} : d.ship[t] \in {"shipped", "in_transit", "delivered"}

OthersDelivered(d, s) == \A t \in Shipment \ {s} : d.ship[t] = "delivered"

Completes(d, s, event) == event = "delivered" /\ OthersDelivered(d, s)

\* A report is matched by the label that the shipment stores.
HookLoad(c, event) ==
    LET s == Arg[c] IN
    /\ Op[c] = "webhook" /\ call[c].pc = "new"
    /\ parcel[s].at # "none" /\ event \in Reports(s)
    /\ IF order.label[s] # parcel[s].label
       THEN End(c, "refused")
       ELSE call' = [call EXCEPT ![c] = [At(
              IF Completes(order, s, event) THEN "schedule" ELSE "hookSave") EXCEPT
                !.doc = order, !.event = event]]
    /\ UNCHANGED <<shippingFrame, carrierVars, scheduled, order>>

\* The earnings of a completed order get their release date first.
HookSchedule(c) ==
    /\ call[c].pc = "schedule"
    /\ scheduled' = TRUE
    /\ Goto(c, "hookSave")
    /\ UNCHANGED <<shippingFrame, carrierVars, order>>

HookSave(c) ==
    LET s == Arg[c]
        loaded == call[c].doc
        event == call[c].event
        ship == [loaded.ship EXCEPT ![s] = event]
        status == IF Completes(loaded, s, event) THEN "completed"
                  ELSE IF \E t \in Shipment : ship[t] \in {"shipped", "in_transit"}
                  THEN "in_transit" ELSE loaded.status
        \* delivered_at is a new value even for a repeated delivery
        positional == event # loaded.ship[s] \/ event = "delivered"
        saved == positional => Current(c)
    IN
    /\ call[c].pc = "hookSave"
    /\ order' = IF saved
                THEN [order EXCEPT
                        !.ship[s] = Written(event, loaded.ship[s], @),
                        !.status = Written(status, loaded.status, @)]
                ELSE order
    /\ End(c, IF saved THEN "done" ELSE "conflict")
    /\ UNCHANGED <<shippingFrame, carrierVars, scheduled>>

-----------------------------------------------------------------------------
StageStep(c) == StageLoad(c) \/ \E ready \in BOOLEAN : StageSave(c, ready)

FulfilStep(c) ==
    FulfilCheck(c) \/ FulfilClaim(c) \/ BuyLabel(c) \/ LabelFails(c) \/ ShipSave(c)

CarrierStep ==
    \E s \in Shipment :
      \/ \E n \in 1..MaxLabel : Pickup(s, n)
      \/ \E at \in {"delivered", "failed"} : Arrive(s, at)

HookStep(c) ==
    \/ \E event \in {"in_transit", "delivered", "failed"} : HookLoad(c, event)
    \/ HookSchedule(c) \/ HookSave(c)
=============================================================================
