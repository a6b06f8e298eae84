SPECIFICATION RoutesSpec
CONSTANTS
    Bookings = {b1}
    Requests = {r1, r2}
    StartOtps = {o1}
    EndOtps = {e1}
    NoOtp = NoOtp
    ownerOf <- OneOwner
    providerOf <- OneProvider
    MaxFaults = 0
PROPERTY
    FollowsTransitionMap
CHECK_DEADLOCK FALSE
