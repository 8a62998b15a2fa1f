\* Two withdrawals and a reversal, refusals, lost answers, failed transfers, crashes.
SPECIFICATION FairSpec
CONSTANTS
    v1 = v1 w1 = w1 w2 = w2 r1 = r1
    Vendor = {v1}
    Withdrawal = {w1, w2}
    VendorOf <- MCVendorOf
    Amount <- MCAmount
    Minimum = 1
    Unlinked = {}
    Reversal = {r1}
    ReversalOf <- MCReversalOf
    Clawback <- MCClawback
    Webhook = {h1}
    MaxEarned = 2
    Faults = {"refused", "timeout", "transferFails", "crash"}
INVARIANTS PaidFromEarnings StatusTruthful
PROPERTIES PayoutSettles
CHECK_DEADLOCK FALSE
