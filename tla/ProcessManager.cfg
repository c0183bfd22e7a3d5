SPECIFICATION FairSpec
CHECK_DEADLOCK FALSE
CONSTANTS
    NProcesses = 3
    NGroups = 3
    Members <- MCMembers
    Setups <- MCSetups
    Crashes = 2
INVARIANTS
    TypeOK
    NoOrphans
    RestartBudget
    StartOrder
PROPERTIES
    StopOrder
    
    ComesBack
