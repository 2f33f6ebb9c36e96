\* A maker, a taker and two disturbances: what is reserved is sold or released.
SPECIFICATION FairSpec
CONSTANTS
    o1 = o1
    o2 = o2
    r1 = r1
    r2 = r2
    Orders = {o1}
    Requests = {r1}
    Offers <- MCOffers
    Wants <- MCWants
    Casts <- MCPair
    Balances = {0, 2}
    MinVolume = 2
    MaxDisturbances = 2
CHECK_DEADLOCK FALSE
PROPERTIES ReservedIsReleased TakerOrderEnds
