SPECIFICATION BooksSpec
CONSTANTS
    Bookings = {b1}
    Requests = {r1}
    StartOtps = {o1}
    EndOtps = {o1}
    NoOtp = NoOtp
    ownerOf <- OneOwner
    providerOf <- OneProvider
    MaxFaults = 0
    Calls = {c1}
    Orders = {x1,x2}
    ForeignOrder = foreign
    Payments = {p1,p2}
    None = None
    Keys = {k1,k2}
    EventTypes <- CapturedOnly
    EventsCarryId = TRUE
    OnePaymentPerOrder = TRUE
    MaxCallFaults = 0
    MayPause = FALSE
    priceOf <- OddPrice
    grain = 1
    rate = 175
    scale = 1000
    Operated = TRUE
SYMMETRY Interchangeable
INVARIANTS PayoutIsCollected FeesAddUp NoFalseAlarm
PROPERTY PaidOutStaysPaidOut
CHECK_DEADLOCK FALSE
