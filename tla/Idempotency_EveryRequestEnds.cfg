\* One call that meets its own late attempts.
SPECIFICATION FairSpec
CONSTANTS
    Clients = {c1}
    Keys = {k1}
    Bodies = {b1}
    MaxEntries = 1
    MaxRetries = 2
    None = None
PROPERTY EveryRequestEnds
CHECK_DEADLOCK FALSE
