SPECIFICATION Spec
CONSTANTS
    t1 = t1
    t2 = t2
    w1 = w1
    Tx <- MCOneTx
    Wallet <- MCWallet
    WalletOf <- MCWalletOf
    Amount <- MCAmount
    Webhook = {h1, h2}
    Verifier = {v1, v2}
    MaxCredits = 2
    Faults = {"declined", "creditError", "crash"}
INVARIANTS CreditedOnlyIfPaid
CHECK_DEADLOCK FALSE
