SPECIFICATION Spec
CONSTANTS
    Payouts = {b1}
    Workers = {w1,w2}
    Conns = {d1,d2}
    Locks <- AllLocks
    None = None
    outcomes <- AnyOutcome
    MaxIncidents = 2
    MaxMisses = 1
SYMMETRY Interchangeable
INVARIANTS PayoutTypeOK NoTransferInDisputeWindow PayoutRowsAgree TransfersBounded HoldersAreCovered
CHECK_DEADLOCK FALSE
