SPECIFICATION Spec
CONSTANTS
  t1 = t1
  t2 = t2
  c1 = c1
  NoValue = NoValue
  NotSpecified = NotSpecified
  Threads <- OneThread
  Operations = {"set", "freeze", "depend", "undefine"}
  Consumers <- OneConsumer
  Commands = {"UIONotify", "UIONotifyChange", "UIONotifyFirstNotNull", "UIODontNotify"}
  Values = {0, 1, 2}
  d_off_value = 0
  undef_value = NotSpecified
  maxAttempts = 3
  sendAttempts = 2
  lowLimit = 0
  hiLimit = 2
  invert = FALSE
  Configured = TRUE
INVARIANTS TypeOK SubscribersInformed ThresholdFollowsValue ValueFollowsFlags
