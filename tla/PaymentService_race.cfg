SPECIFICATION Spec
CONSTANTS
    Bookings = {b1}
    Requests = {r1}
    StartOtps = {o1}
    EndOtps = {o1}
    NoOtp = NoOtp
    ownerOf <- OneOwner
    providerOf <- OneProvider
    MaxFaults = 1
    Calls = {c1,c2}
    Orders = {x1,x2}
    ForeignOrder = foreign
    Payments = {p1,p2}
    None = None
    Keys = {k1,k2}
    EventTypes <- CapturedOnly
    EventsCarryId = TRUE
    OnePaymentPerOrder = FALSE
    MaxCallFaults = 1
    MayPause = FALSE
SYMMETRY Interchangeable
INVARIANTS PaymentTypeOK LedgerAgrees ProcessedMeansCaptured
PROPERTY ImplementsRoutes
CHECK_DEADLOCK FALSE
