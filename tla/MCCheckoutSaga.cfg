\* Two checkouts compete for stock and wallet; one is cancelled.
SPECIFICATION FairSpec
CONSTANTS
  coat = coat
  cloth = cloth
  ada = ada
  coatM = coatM
  yards = yards
  Order <- MCOrder
  Customer = {ada}
  CustomerOf <- MCCustomerOf
  Sku <- MCSku
  Items <- MCItems
  Total <- MCTotal
  Balance <- MCBalance
  Webhook = {h1}
  Starts <- WalletFirst
  Verifier = {v1}
  Canceller = {coat}
  Faults = {"createError", "declined", "finaliseError", "crash"}
  MaxFailures = 1
CHECK_DEADLOCK FALSE
INVARIANTS StockAccounted WalletSettled DeletedHoldsNothing PaidBeforeGoods
PROPERTIES ChargeIsServed
