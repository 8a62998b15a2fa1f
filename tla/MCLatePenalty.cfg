\* Two runs of the penalty cron beside releases, reversals, reports and crashes.
SPECIFICATION LateFairSpec
CONSTANTS
    o1 = o1 i1 = i1 i2 = i2 v1 = v1 v2 = v2
    Order = {o1}
    Item = {i1, i2}
    Vendor = {v1, v2}
    OrderOf <- MCOrderOf
    VendorOf <- MCVendorOf
    Share <- MCShare
    Price <- MCPrice
    Legacy = {o1}
    Recorder = {p1}
    Releaser = {w1, w2}
    Reverser = {r1}
    Faults = {"crash"}
    Run = {n1, n2}
    Reporter = {q1}
    Together = {{v1, n1, n2}, {v1, v2, "courier", n1}, {v1, n1, w1, "crash"}, {v1, "courier", n1, q1, "crash"}, {v1, n1, r1}, {v1, w1, w2, r1}, {v1, p1, w1, "crash"}, {v1, r1, "crash"}}
    Rate = 10
    Cap = 15
    MaxLate = 2
    MaxVersion = 1
INVARIANTS ReleasedOnce CompensatedOnce PenaltyIsBorne
PROPERTIES LatenessIsPenalised
CHECK_DEADLOCK FALSE
