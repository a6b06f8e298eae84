SPECIFICATION FairRoutesSpec
CONSTANTS
    Bookings = {b1, b2}
    Requests = {r1}
    StartOtps = {o1, o2}
    EndOtps = {o1, o2}
    NoOtp = NoOtp
    ownerOf <- OneOwner
    providerOf <- OneProvider
    MaxFaults = 0
PROPERTIES
    ImplementsLifecycle
    EndedSessionReachesPayment
CHECK_DEADLOCK FALSE
