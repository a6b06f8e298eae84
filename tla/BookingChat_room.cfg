\* Loads and events overlap: two messages of one sender, and one incident: a crash,
\* a loss, or a change of the session, of the coordinates or of the page.
\* When everything is written and shown, nothing is left to do.
SPECIFICATION FairSpec
CONSTANTS
    NumMessages = 2
    author <- OwnerWrites
    Limit = 2
    None = None
    MaxIncidents = 1
INVARIANTS
    NothingShownTwice
    SenderOrderKept
PROPERTY
    MessageReachesRoom
CHECK_DEADLOCK FALSE
