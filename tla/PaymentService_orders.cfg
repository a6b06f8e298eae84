SPECIFICATION Spec
CONSTANTS
    Bookings = {b1}
    Requests = {r1}
    StartOtps = {o1}
    EndOtps = {o1}
    NoOtp = NoOtp
    ownerOf <- OneOwner
    providerOf <- OneProvider
    MaxFaults = 0
    Calls = {c1}
    Orders = {x1,x2,x3}
    ForeignOrder = foreign
    Payments = {p1,p2,p3}
    None = None
    Keys = {k1,k2,k3}
    EventTypes <- CapturedOnly
    EventsCarryId = TRUE
    OnePaymentPerOrder = TRUE
    MaxCallFaults = 0
    MayPause = TRUE
SYMMETRY Interchangeable
INVARIANTS ReconciliationClean OnePayoutPerBooking
CHECK_DEADLOCK FALSE
