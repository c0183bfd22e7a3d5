SPECIFICATION FairSpec
CONSTANTS
    NGates = 2
    IgnoreTicks = 1
    MaxChanges = 1
INVARIANTS
    TypeOK
    ExchangeExclusive
PROPERTIES
    Recovers
