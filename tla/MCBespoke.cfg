\* Requests, quotes, revisions and payments about one design.
SPECIFICATION FairSpec
CONSTANTS
    q1 = q1  q2 = q2  again = again
    Quote = {q1, q2, again}
    VendorOf <- MCVendorOf
    MaxVendors = 3
    Price = {1, 2}
    Call <- MCCall
    Kind <- Kinds
    Of <- MCOf
    Asked <- MCAsked
    Bid <- MCBid
    Offer <- MCOffer
    Funds = 2
    Start <- MCStart
    MaxFailures = 1
INVARIANTS AcceptedIsPaid DeclinedForReason PriceWasSubmitted
PROPERTIES UpfrontScheduled
CHECK_DEADLOCK FALSE
