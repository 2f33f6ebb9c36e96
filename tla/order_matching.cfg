\* Two makers compete for one request, or two takers for one order.
SPECIFICATION Spec
CONSTANTS
    o1 = o1
    o2 = o2
    r1 = r1
    r2 = r2
    Orders = {o1, o2}
    Requests = {r1, r2}
    Offers <- MCOffers
    Wants <- MCWants
    Casts <- MCCasts
    Balances = {0, 2}
    MinVolume = 2
    MaxDisturbances = 1
SYMMETRY Symmetries
CHECK_DEADLOCK FALSE
INVARIANTS TypeOK NotOversold SidesAgree OneSwapPerRequest PendingIsProcessed CancelledForGood
