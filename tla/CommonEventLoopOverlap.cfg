SPECIFICATION Spec
CONSTANTS
    Watchers = {a, b}
    None = None
    MaxRuns = 2
INVARIANTS
    AddedIsServed
CHECK_DEADLOCK FALSE
