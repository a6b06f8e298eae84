SPECIFICATION Spec
CONSTANTS
    Payouts = {b1}
    Workers = {w1,w2}
    Conns = {d1,d2}
    Locks <- AllLocks
    None = None
    outcomes <- RouteOnly
    MaxIncidents = 0
    MaxMisses = 0
INVARIANT TransferredOnce
CHECK_DEADLOCK FALSE
