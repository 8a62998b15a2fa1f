\* Fabric and garment labelled and delivered, with late and repeated reports and rejections.
SPECIFICATION Spec
CONSTANTS
    tailor = tailor  shop = shop  mill = mill
    coat = coat  bag = bag
    Vendor = {tailor, mill}
    Business <- CoatBusiness
    Fabric = {2}
    Destination <- ToTailor
    Item = {coat}
    Owner <- ItemOwner
    Leg <- CoatLeg
    Call <- ShipCall
    Op <- ShipOp
    Arg <- ShipArg
    Mix <- ShipMix
    Faults = {"carrierFails", "parcelFails", "reorder"}
    MaxCrashes = 1
INVARIANTS RefundIsForRejected CompletedMeansDelivered FabricBeforeGarment
CHECK_DEADLOCK FALSE
