SPECIFICATION FairSpec
CONSTANTS
  p1 = p1
  t1 = t1
  t2 = t2
  Producers <- OneProducer
  Used = {"Medium"}
  MaxMessages = 1
  TimerIds <- NoTimers
  InitTimers <- NoTimers
  MaxFired = 0
  MayDeactivate = FALSE
  SizeOfMessageQueue = 2
  lostStrategy = "lostOldData"
CHECK_DEADLOCK FALSE
PROPERTIES MessagesProcessed
