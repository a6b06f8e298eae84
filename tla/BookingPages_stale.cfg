SPECIFICATION FairSpec
CONSTANTS
    TheBooking = b1
    Bookings <- OnlyBooking
    OrdersPerStage = 1
    None = None
    MaxLosses = 1
INVARIANTS ReadYourWrites OffersMatchApi
PROPERTY EndedSessionReachesPayment
CHECK_DEADLOCK FALSE
