SPECIFICATION FairSpec
CONSTANTS
  a = a
  None = None
  Values <- MCValue
  ignoreCRC = FALSE
  Configured <- MCConfigured
  MaxSwitch = 1
INVARIANTS TypeOK OneActive
PROPERTIES ActiveKeepsWorking ImplementsFailover PublishedChannelWorks FailsOver
