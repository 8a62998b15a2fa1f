\* Discounts and fabric reservations, each with calls that overlap and stop.
SPECIFICATION FairSpec
CONSTANTS
    suit = suit  cap = cap  r1 = r1  r2 = r2
    NoDiscount = NoDiscount  d1 = d1  d2 = d2  p1 = p1
    Discount = {d1, d2}
    Product = {p1}
    Trait = {suit, cap}
    Goods <- MCGoods
    Value = {3, 50}
    Offer <- MCOffer
    Sale <- MCSale
    MaxStops = 1
    Reservation = {r1, r2}
    Total <- MCTotal
    ReserveCall <- MCReserveCall
    Endpoint <- MCEndpoints
    About <- MCAbout
    Yards <- MCYards
    MinCut = 1
    Supply = 5
    Event <- MCEvent
    MaxCuts = 1
INVARIANTS PriceFollowsDiscount YardsAccountedFor
PROPERTIES DatesAreFollowed OverdueIsClosed
CHECK_DEADLOCK FALSE
