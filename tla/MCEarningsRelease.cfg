\* Two recording calls and two release runs; the database may fail a credit.
SPECIFICATION FairSpec
CONSTANTS
    o1 = o1 i1 = i1 i2 = i2 v1 = v1
    Order = {o1}
    Item = {i1, i2}
    Vendor = {v1}
    OrderOf <- MCOrderOf
    VendorOf <- MCVendorOf
    Share <- MCShare
    Legacy = {o1}
    Recorder = {p1, p2}
    Releaser = {w1, w2}
    Reverser = {}
    Faults = {"creditError"}
INVARIANTS RecordedOnce LedgerInSync
PROPERTIES EventuallyRecorded EventuallyReleased
CHECK_DEADLOCK FALSE
