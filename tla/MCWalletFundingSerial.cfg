SPECIFICATION FairSpec
CONSTANTS
    t1 = t1
    t2 = t2
    w1 = w1
    Tx <- MCTx
    Wallet <- MCWallet
    WalletOf <- MCWalletOf
    Amount <- MCAmount
    Webhook = {h1}
    Verifier = {}
    MaxCredits = 2
    Faults = {"declined"}
PROPERTIES PostsOnce
CHECK_DEADLOCK FALSE
