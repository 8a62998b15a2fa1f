\* Features of every kind at once, with errors and an instance that stops.
SPECIFICATION TokenFairSpec
CONSTANTS
    ada = ada  shop = shop
    edit = edit  analyze = analyze  mask = mask  video = video
    predict = predict  ask = ask  chat = chat  chat2 = chat2  buy = buy
    Holder = {ada, shop}
    Call = {edit, analyze, mask, video, predict, ask, chat, chat2, buy}
    Kind <- MCKind
    Payer <- MCPayer
    Price <- MCPrice
    Grant <- MCGrant
    Funds = 3
    FreeDaily = 1
    Mix <- MCMix
    TokenFaults = {"queueDown", "dbError", "uploadFails"}
    MaxCrashes = 1
INVARIANTS NeverOverdrawn RefundOnlyCharged FailedIsFree
PROPERTIES EventuallySettled
CHECK_DEADLOCK FALSE
