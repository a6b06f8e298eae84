SPECIFICATION RoutesSpec
CONSTANTS
    Bookings = {b1}
    Requests = {r1, r2}
    StartOtps = {o1, o2}
    EndOtps = {e1}
    NoOtp = NoOtp
    ownerOf <- OneOwner
    providerOf <- OneProvider
    MaxFaults = 1
SYMMETRY Interchangeable
INVARIANTS
    TypeOK
    DepositBeforeService
    HandshakeEvidence
    PayoutAfterPayments
    AuditTrail
    PasswordLostByFaultOnly
CHECK_DEADLOCK FALSE
