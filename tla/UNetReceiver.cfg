SPECIFICATION Spec
CONSTANTS
  cbufSize = 4
  maxDifferens = 4
  MaxNum = 6
  MaxLost = 0
  d1 = d1
  d2 = d2
  junk = junk
  NoData = NoData
  Data <- MCData
  Crc <- MCCrc
  Packets <- MCPackets
  Junk <- MCJunk
  Requests = {"force", "mode", "lock"}
INVARIANTS TypeOK SlotsIndexed CacheTruthful WindowBounded
PROPERTIES NeverRegresses JunkNeverWritten
