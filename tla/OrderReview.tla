---------------------------- MODULE OrderReview ----------------------------
(***************************************************************************)
(* The review of a paid order: vendors confirm or reject their shipments   *)
(* and items, a customer or admin cancels, and an hourly cron rejects what *)
(* nobody confirmed.                                                       *)
(***************************************************************************)
EXTENDS OrderDocument

reviewFrame == <<carrierVars, scheduled, crashes>>

-----------------------------------------------------------------------------
(* confirmVendorShipment                                                   *)

ConfirmLoad(c) ==
    LET s == FirstOf(Arg[c]) IN
    /\ Op[c] = "confirm" /\ call[c].pc = "new"
    /\ IF s \in order.confirmed \cup order.rejected
       THEN End(c, "refused")
       ELSE Load(c, "confirmSave")
    /\ UNCHANGED <<reviewFrame, customerVars, order>>

\* The copy's view of the other shipments decides whether processing begins.
ConfirmSave(c) ==
    LET loaded == call[c].doc
        s == FirstOf(Arg[c])
        d == [loaded EXCEPT !.confirmed = @ \cup {s}]
        status == IF AllConfirmed(d) THEN "processing" ELSE loaded.status
    IN
    /\ call[c].pc = "confirmSave"
    /\ IF Current(c)
       THEN /\ order' = [order EXCEPT !.confirmed = @ \cup {s},
                                      !.status = Written(status, loaded.status, @)]
            /\ End(c, "done")
       ELSE /\ End(c, "conflict")
            /\ UNCHANGED order
    /\ UNCHANGED <<reviewFrame, customerVars>>

-----------------------------------------------------------------------------
(* rejectVendorShipment, rejectOrderItem                                   *)

Fail(d, S) ==
    [d EXCEPT !.rejected = @ \cup S,
              !.ship = [s \in Shipment |-> IF s \in S THEN "failed" ELSE @[s]]]

\* Mutation: only the last rejection changes the order.
KeepStatus(d) == d

\* An order without active shipments is cancelled; one whose other shipments
\* are confirmed moves on.
Settle(d) ==
    IF Active(d) = {} THEN [d EXCEPT !.status = "cancelled", !.refundStatus = "refunded"]
    ELSE IF AllConfirmed(d) THEN [d EXCEPT !.status = "processing"]
    ELSE d

\* Mutation: a declined fabric shipment fails alone.
NoGarment(d, v) == {}

\* The first garment shipment of v that is not rejected, if any.
ActiveGarment(d, v) ==
    LET open == (ShipmentsOf(v) \ Fabric) \ d.rejected IN
    IF open = {} THEN {} ELSE {Min(open)}

\* _rejectItems: the items, the fabric shipments that feed them, and the
\* vendor's own shipment when none of its items is left.
RejectItems(d, v, items) ==
    LET legs == {Leg[i] : i \in items} \ ({0} \cup d.rejected)
        declined == d.declined \cup items
        own == IF ItemsOf(v) \subseteq declined THEN ActiveGarment(d, v) ELSE {}
    IN Settle([Fail(d, legs \cup own) EXCEPT !.declined = declined])

\* unwindRejectedFabricTransfer: the fabric shipment and the garment it feeds.
UnwindFabric(d, s) == Settle(Fail(d, {s} \cup ActiveGarment(d, Destination[s])))

\* A call that unwinds a fabric shipment holds it in at.
Unwinds(c) == call[c].at # {}
Unwound(c) == CHOOSE s \in call[c].at : TRUE

RejectedItems(c) ==
    IF Op[c] = "rejectItem" THEN {Arg[c]} ELSE Undeclined(ItemsOf(Arg[c]), call[c].doc)

AfterReject(c) ==
    IF Unwinds(c) THEN UnwindFabric(call[c].doc, Unwound(c))
    ELSE RejectItems(call[c].doc,
                     IF Op[c] = "rejectItem" THEN Owner[Arg[c]] ELSE Arg[c],
                     RejectedItems(c))

\* Refunded: the items with their fabric, and the fees of the shipments that
\* failed; an unwound fabric shipment refunds every item of the garment's vendor.
RefundedParts(c) ==
    LET items == IF Unwinds(c) THEN ItemsOf(Destination[Unwound(c)]) ELSE RejectedItems(c)
    IN {p \in Part : \/ p[1] \in {"goods", "fabric"} /\ p[2] \in items
                     \/ p[1] = "fee" /\ p[2] \in AfterReject(c).rejected \ call[c].doc.rejected}

RejectShipmentLoad(c) ==
    LET s == FirstOf(Arg[c]) IN
    /\ Op[c] = "rejectShipment" /\ call[c].pc = "new"
    /\ IF s \in order.rejected \/ order.ship[s] \in {"shipped", "in_transit"}
       THEN End(c, "refused")
       ELSE call' = [call EXCEPT ![c] = [At("rejectSave") EXCEPT
                       !.doc = order, !.at = {s} \cap Fabric]]
    /\ UNCHANGED <<reviewFrame, customerVars, order>>

RejectItemLoad(c) ==
    LET garments == ShipmentsOf(Owner[Arg[c]]) \ Fabric
        dispatched == /\ garments # {}
                      /\ \/ Min(garments) \in order.rejected
                         \/ order.ship[Min(garments)] \in {"shipped", "in_transit", "delivered"}
    IN
    /\ Op[c] = "rejectItem" /\ call[c].pc = "new"
    /\ IF Arg[c] \in order.declined \/ dispatched
       THEN End(c, "refused")
       ELSE Load(c, "rejectSave")
    /\ UNCHANGED <<reviewFrame, customerVars, order>>

\* A cron run that is over, or stops with an error, runs again an hour later.
Over(c, pc) == End(c, IF Op[c] = "cron" THEN "new" ELSE pc)

\* Both arrays are sent whole: what others wrote into them since the load is
\* lost unless it changed the version.
RejectSave(c) ==
    LET loaded == call[c].doc
        d == AfterReject(c)
    IN
    /\ call[c].pc = "rejectSave"
    /\ IF Current(c)
       THEN /\ order' = [d EXCEPT
                  !.version = @ + 1,
                  !.status = Written(d.status, loaded.status, order.status),
                  !.refundStatus = Written(d.refundStatus, loaded.refundStatus, order.refundStatus),
                  !.declined = IF Unwinds(c) THEN order.declined ELSE d.declined,
                  !.deducted = order.deducted]
            /\ Goto(c, "rejectRefund")
       ELSE /\ Over(c, "conflict")
            /\ UNCHANGED order
    /\ UNCHANGED <<reviewFrame, customerVars>>

RejectRefund(c) ==
    /\ call[c].pc = "rejectRefund"
    /\ RefundParts(RefundedParts(c))
    /\ call' = [call EXCEPT ![c].pc = "rejectRestore",
                            ![c].todo = IF Unwinds(c) THEN {} ELSE RejectedItems(c)]
    /\ UNCHANGED <<reviewFrame, restocked, background>>

\* Restoring the items of a rejection: one transaction each.  A declined
\* fabric shipment restores what is left of the garment vendor's items at once.
RejectRestoreItem(c, i) ==
    /\ call[c].pc = "rejectRestore"
    /\ i \in call[c].todo
    /\ RestoreItems({i})
    /\ call' = [call EXCEPT ![c].todo = @ \ {i}]
    /\ UNCHANGED <<reviewFrame, order, refundVars, background>>

RejectEnd(c) ==
    /\ call[c].pc = "rejectRestore"
    /\ call[c].todo = {}
    /\ IF Unwinds(c)
       THEN RestoreItems(Undeclined(ItemsOf(Destination[Unwound(c)]), order))
       ELSE UNCHANGED restocked
    /\ Over(c, "done")
    /\ UNCHANGED <<reviewFrame, order, refundVars, background>>

-----------------------------------------------------------------------------
(* cancelOrder                                                             *)

\* Only a cancelled order is refused.
CancelLoad(c) ==
    /\ Op[c] = "cancel" /\ call[c].pc = "new"
    /\ IF order.status = "cancelled" THEN End(c, "refused") ELSE Load(c, "cancelRefund")
    /\ UNCHANGED <<reviewFrame, customerVars, order>>

\* The whole payment, whatever was refunded before.  An error of the credit, or
\* of the record written after it, ends the cancellation.
CancelRefund(c) ==
    /\ call[c].pc = "cancelRefund"
    /\ \/ refund' = Paid(refund, Part) /\ Goto(c, "cancelSave")
       \/ /\ "refundFails" \in Faults
          /\ refund' \in {refund, Paid(refund, Part)}
          /\ End(c, "failed")
    /\ UNCHANGED <<reviewFrame, order, refundErrors, restocked, background>>

\* Two scalars: no version is compared.
CancelSave(c) ==
    LET loaded == call[c].doc IN
    /\ call[c].pc = "cancelSave"
    /\ order' = [order EXCEPT
          !.status = "cancelled",
          !.refundStatus = Written("refunded", loaded.refundStatus, @)]
    /\ Goto(c, "cancelRestore")
    /\ UNCHANGED <<reviewFrame, customerVars>>

\* Only a full restore clears the order's mark.
CancelRestore(c) ==
    /\ call[c].pc = "cancelRestore"
    /\ RestoreItems(Undeclined(Item, order))
    /\ order' = [order EXCEPT !.deducted = FALSE]
    /\ End(c, "done")
    /\ UNCHANGED <<reviewFrame, refundVars, background>>

-----------------------------------------------------------------------------
(* autoRejectStaleShipments                                                *)

CronLoad(c) ==
    /\ Op[c] = "cron" /\ call[c].pc = "new"
    /\ order.status = "in_review"
    /\ call' = [call EXCEPT ![c] = [At("cronScan") EXCEPT
                  !.doc = order, !.todo = Shipment \ (order.confirmed \cup order.rejected)]]
    /\ UNCHANGED <<reviewFrame, customerVars, order>>

\* Mutation: the refund is not claimed.
NotYetRejected(s) == s \notin order.rejected

\* The filter refunded # true of the claiming update.
Claimable(s) == s \notin order.claimed

Claim(s) == order' = [order EXCEPT !.claimed = @ \cup {s}]

\* A fabric shipment: the winner unwinds it and is done with the order.
CronClaimFabric(c) ==
    LET s == Min(call[c].todo) IN
    /\ call[c].pc = "cronScan" /\ call[c].todo # {}
    /\ s \in Fabric
    /\ IF Claimable(s) /\ order.status # "cancelled"
       THEN /\ Claim(s)
            /\ call' = [call EXCEPT ![c].pc = "rejectSave", ![c].at = {s},
                                    ![c].doc.claimed = @ \cup {s}]
       ELSE /\ call' = [call EXCEPT ![c].todo = @ \ {s}]
            /\ UNCHANGED order
    /\ UNCHANGED <<reviewFrame, customerVars>>

\* Another shipment fails in the copy; the winner of the claim starts its
\* refund and its restore without awaiting them.
CronClaimGarment(c) ==
    LET s == Min(call[c].todo)
        parts == {p \in Part : \/ p = <<"fee", s>>
                               \/ /\ p[1] = "goods"
                                  /\ p[2] \in Undeclined(ItemsOf(Business[s]), call[c].doc)}
        task(kind) == [task |-> kind, shipment |-> s, parts |-> parts]
    IN
    /\ call[c].pc = "cronScan" /\ call[c].todo # {}
    /\ s \notin Fabric
    /\ IF Claimable(s)
       THEN /\ Claim(s)
            /\ background' = background \cup {task("refund"), task("restock")}
       ELSE UNCHANGED <<order, background>>
    /\ call' = [call EXCEPT ![c].todo = @ \ {s}, ![c].at = @ \cup {s},
                            ![c].doc = [Fail(call[c].doc, {s}) EXCEPT
                               !.claimed = @ \cup (IF Claimable(s) THEN {s} ELSE {})]]
    /\ UNCHANGED <<reviewFrame, refundVars, restocked>>

\* Mutation: the order is marked, the customer is not credited.
BackgroundMark(t) ==
    /\ t.task = "refund"
    /\ order' = PartiallyRefunded(order)
    /\ background' = background \ {t}
    /\ UNCHANGED <<reviewFrame, call, refundVars, restocked>>

BackgroundRefund(t) ==
    /\ t.task = "refund"
    /\ RefundParts(t.parts)
    /\ background' = background \ {t}
    /\ UNCHANGED <<reviewFrame, call, restocked>>

BackgroundRestore(t) ==
    /\ t.task = "restock"
    /\ RestoreItems(Undeclined(ItemsOf(Business[t.shipment]), order))
    /\ background' = background \ {t}
    /\ UNCHANGED <<reviewFrame, call, order, refundVars>>

\* The shipments it failed are saved by position, items are not touched.
CronSave(c) ==
    LET failed == call[c].at
        d == Settle(call[c].doc)
    IN
    /\ call[c].pc = "cronScan" /\ call[c].todo = {}
    /\ order' = IF failed # {} /\ Current(c)
                THEN [Fail(order, failed) EXCEPT
                        !.status = Written(d.status, call[c].doc.status, @)]
                ELSE order
    /\ Over(c, "done")
    /\ UNCHANGED <<reviewFrame, customerVars>>

-----------------------------------------------------------------------------
ConfirmStep(c) == ConfirmLoad(c) \/ ConfirmSave(c)

RejectStep(c) ==
    \/ RejectShipmentLoad(c) \/ RejectItemLoad(c) \/ RejectSave(c)
    \/ RejectRefund(c) \/ RejectEnd(c)
    \/ \E i \in Item : RejectRestoreItem(c, i)

CancelStep(c) == CancelLoad(c) \/ CancelRefund(c) \/ CancelSave(c) \/ CancelRestore(c)

CronStep(c) == CronLoad(c) \/ CronClaimFabric(c) \/ CronClaimGarment(c) \/ CronSave(c)

BackgroundStep == \E t \in background : BackgroundRefund(t) \/ BackgroundRestore(t)
=============================================================================
