SPECIFICATION FairLinkSpec
CONSTANTS
  cbufSize = 7
  maxDifferens = 2
  MaxLost = 0
  v1 = v1
  v2 = v2
  NoData = NoData
  Values <- MCValues
  FirstValue = v1
  Data <- MCSentData
  Crc <- MCSentCrc
  Packets <- MCSentPackets
  Junk = {}
  Requests = {}
  Lives = 2
  Flight = 2
  MaxSent = 5
  Enough = 4
  UpdateTurns = 1
  LostTurns = 2
PROPERTIES ShownInOrder ValueArrives
CHECK_DEADLOCK FALSE
