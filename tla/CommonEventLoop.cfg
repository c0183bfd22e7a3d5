SPECIFICATION FairSpec
CONSTANTS
    Watchers = {a, b, c}
    None = None
    MaxRuns = 6
INVARIANTS
    TypeOK
    AloneIsServed
PROPERTIES
    CallsReturn
CHECK_DEADLOCK FALSE
