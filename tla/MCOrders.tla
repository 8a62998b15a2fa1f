------------------------------ MODULE MCOrders ------------------------------
(* Orders of one or two garments, one of them sewn from another vendor's
   fabric, and the calls of each run. *)
EXTENDS Orders, TLC

CONSTANTS tailor, shop, mill, coat, bag

\* The fabric shipment comes last: createOrder appends it.
CoatBusiness == <<tailor, mill>>
PlainBusiness == <<tailor, shop>>
ToTailor == [s \in Fabric |-> tailor]
OwnerOf == (coat :> tailor) @@ (bag :> shop)
ItemOwner == [i \in Item |-> OwnerOf[i]]
CoatLeg == [i \in Item |-> IF i = coat /\ Fabric # {} THEN Max(Fabric) ELSE 0]

\* The calls of each run: their handlers, and their arguments.
\* A cancellation beside the vendor's work; two runs of the cron beside a
\* confirmation; two vendors' rejections, of items or of a shipment.
CronOp == <<"cancel", "confirm", "fulfil", "stage", "cron", "cron",
            "rejectItem", "rejectItem", "rejectShipment", "confirm">>
CronArg == <<0, tailor, tailor, tailor, 0, 0, coat, bag, shop, shop>>
CronMix == {1..4, {2, 5, 6}, {7, 8, 10}, {7, 9, 10}}

\* Everybody at work; the cron; rejections of the garment and of its fabric.
ShipOp == <<"confirm", "confirm", "fulfil", "fulfil", "stage", "webhook", "webhook", "webhook",
            "cron", "rejectItem", "rejectShipment", "rejectShipment">>
ShipArg == <<tailor, mill, tailor, mill, tailor, 1, 2, 2, 0, coat, tailor, mill>>
ShipMix == {1..8, {1, 2, 3, 4, 9}, {1, 2, 10, 11, 12}}

CronCall == DOMAIN CronOp
ShipCall == DOMAIN ShipOp
=============================================================================
