\* Disputes and returns of one delivered order beside the payout crons.
SPECIFICATION AfterFairSpec
CONSTANTS
    o1 = o1 i1 = i1 v1 = v1
    Order = {o1}
    Item = {i1}
    Vendor = {v1}
    OrderOf <- MCOrderOf
    VendorOf <- MCVendorOf
    Share <- MCShare
    Legacy = {}
    Recorder = {}
    Releaser = {w1}
    Reverser = {}
    Faults = {"creditError", "revertError"}
    Call <- MCCall
    Kind <- MCKind
    About <- MCAbout
    Part = 1
    Carried <- MCCarried
    Mix <- MCMix
INVARIANTS RefundedNeverPaid RefundedOnceUnlessRaced StockBackOnce
PROPERTIES EventuallyPaidOut
CHECK_DEADLOCK FALSE
