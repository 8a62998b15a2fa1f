------------------------------- MODULE Orders -------------------------------
(***************************************************************************)
(* A paid order from its review to its delivery: the handlers of           *)
(* OrderReview and OrderShipping work on one document at the same time.    *)
(***************************************************************************)
EXTENDS OrderReview, OrderShipping

\* An instance stops: a call is cut off, and with it what runs in background.
Crash ==
    /\ crashes < MaxCrashes
    /\ crashes' = crashes + 1
    /\ \/ /\ \E c \in Call : call[c].pc \in Running /\ Over(c, "crashed")
          /\ UNCHANGED background
       \/ /\ background # {}
          /\ background' = {}
          /\ UNCHANGED call
    /\ UNCHANGED <<order, refundVars, restocked, scheduled, carrierVars>>

Next ==
    \/ \E c \in Call :
         \/ ConfirmStep(c) \/ RejectStep(c) \/ CancelStep(c) \/ CronStep(c)
         \/ StageStep(c) \/ FulfilStep(c) \/ HookStep(c)
    \/ BackgroundStep
    \/ CarrierStep
    \/ Crash

Spec == Init /\ [][Next]_vars

\* A call that was started is carried on, the cron starts every hour, and a
\* promise nobody awaits settles.  Requests may never be made.
Fairness ==
    /\ \A c \in Call :
         /\ WF_vars(\/ ConfirmSave(c) \/ RejectSave(c) \/ RejectRefund(c) \/ RejectEnd(c)
                    \/ CancelRefund(c) \/ CancelSave(c) \/ CancelRestore(c)
                    \/ \E i \in Item : RejectRestoreItem(c, i))
         /\ WF_vars(CronStep(c))
    /\ WF_vars(BackgroundStep)

FairSpec == Spec /\ Fairness

-----------------------------------------------------------------------------
(* Properties of the review                                                *)

\* No part of what the customer paid, an item or a shipping fee, is refunded
\* twice (rejectVendorShipment: "to avoid double refund/restock";
\* autoRejectStaleShipments: "so overlapping cron runs can't double-refund"), and
\* no item is put back into stock twice (restoreInventory: "only restore what was
\* actually deducted — and never restore twice").
GivenBackOnce ==
    /\ \A p \in Part : refund[p] <= 1
    /\ \A i \in Item : restocked[i] <= 1

\* The item's shipment, or the item itself, is marked as rejected or as refunded.
Given(i) ==
    i \in order.declined \/ ShipmentsOf(Owner[i]) \ Fabric \subseteq order.rejected \cup order.claimed

\* What was refunded or restocked stays so marked, unless the whole payment was
\* returned: no stale save of another request revives an item the customer has
\* the money back for.
RefundIsForRejected ==
    \A i \in Item :
      refund[<<"goods", i>>] > 0 \/ restocked[i] > 0 =>
        Given(i) \/ \A p \in Part : refund[p] > 0

\* A shipment that is rejected gets its fee refunded in the end, unless that very
\* refund ended in an error (processPartialRefund, which nobody tries again) or an
\* instance stopped.
RejectionIsRefunded ==
    \A s \in Shipment :
      LET fee == <<"fee", s>> IN
      (s \in order.rejected) ~> (refund[fee] > 0 \/ fee \in refundErrors \/ crashes > 0)

\* Where the auto-reject runs, an order whose vendors do not answer leaves
\* review, also when a run stops halfway (autoRejectStaleShipments).
ReviewEnds ==
    (order.status = "in_review" /\ \E c \in Call : Op[c] = "cron" /\ call[c].pc = "new")
      ~> (order.status # "in_review")

-----------------------------------------------------------------------------
(* Properties of the shipping                                              *)

Delivered(s) == parcel[s].at = "delivered"

\* Earnings are scheduled for payout, and the order is completed, only when the
\* carrier has delivered every parcel of the order, however late, repeated or
\* reordered its reports are (handleShipbubbleWebhook).
CompletedMeansDelivered ==
    scheduled \/ order.status = "completed" => \A s \in Shipment : Delivered(s)

\* A garment is shipped only after its fabric has reached its vendor
\* (fulfillVendorShipment: "block tailor until fabric arrives").
FabricBeforeGarment ==
    \A s \in Shipment \ Fabric :
      labels[s] > 0 => \A f \in Fabric : Destination[f] = Business[s] => Delivered(f)
=============================================================================
