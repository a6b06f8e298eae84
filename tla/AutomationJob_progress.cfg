SPECIFICATION FairJobSpec
CONSTANTS
    Payouts = {b1}
    Workers = {w1,w2}
    Conns = {d1,d2}
    Locks <- AllLocks
    None = None
    outcomes <- RouteOnly
    slotOf <- SomeSlots
    MaxIncidents = 1
    MaxMisses = 0
INVARIANTS OneChainPerJob RepeatsBounded
PROPERTY DuePayoutGoesOn
CHECK_DEADLOCK FALSE
