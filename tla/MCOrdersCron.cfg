\* The auto-reject, a cancellation or rejections, beside the vendors' work.
SPECIFICATION FairSpec
CONSTANTS
    tailor = tailor  shop = shop  mill = mill
    coat = coat  bag = bag
    Vendor = {tailor, shop}
    Business <- PlainBusiness
    Fabric = {}
    Destination <- ToTailor
    Item = {coat, bag}
    Owner <- ItemOwner
    Leg <- CoatLeg
    Call <- CronCall
    Op <- CronOp
    Arg <- CronArg
    Mix <- CronMix
    Faults = {"refundFails"}
    MaxCrashes = 1
INVARIANTS GivenBackOnce
PROPERTIES ReviewEnds RejectionIsRefunded
CHECK_DEADLOCK FALSE
