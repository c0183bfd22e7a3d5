SPECIFICATION FairSpec
CONSTANTS
    NGates = 2
    IgnoreTicks = 1
    MaxChanges = 0
PROPERTIES
    PassiveGateReported
