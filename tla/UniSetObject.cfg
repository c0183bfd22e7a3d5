SPECIFICATION FairSpec

CONSTANTS
  p1 = p1
  t1 = t1
  t2 = t2
  Producers <- OneProducer
  Used = {"Hi", "Medium", "Low"}
  MaxMessages = 2
  TimerIds <- TwoTimers
  InitTimers <- OneTimer
  MaxFired = 1
  MayDeactivate = TRUE
  SizeOfMessageQueue = 2
  lostStrategy = "lostOldData"

CHECK_DEADLOCK FALSE

INVARIANTS TypeOK Conservation OrderKept NoHandlerAfterDeactivate
PROPERTIES PriorityRespected ImplementsMailbox MessagesProcessed  DeactivateReturns
