SPECIFICATION FairReplaySpec
CONSTANTS
    Bookings = {b1}
    Requests = {r1}
    StartOtps = {o1}
    EndOtps = {o1}
    NoOtp = NoOtp
    ownerOf <- OneOwner
    providerOf <- OneProvider
    MaxFaults = 0
    Calls = {c1,c2}
    Orders = {x1}
    ForeignOrder = foreign
    Payments = {p1}
    None = None
    Keys = {k1}
    EventTypes <- AllTypes
    EventsCarryId = FALSE
    OnePaymentPerOrder = TRUE
    MaxCallFaults = 2
    MayPause = FALSE
INVARIANTS ProcessedMeansCaptured CountedFailuresWereRecorded
PROPERTY ReplayRecordsMoney
CHECK_DEADLOCK FALSE
