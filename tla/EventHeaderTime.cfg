CONSTANTS
  Byte = 4
  LittleEndian = TRUE
  Channels = 4
  DigChannels = 3
  Boards = 4
  Lengths = 8
  BoardTrig = 3
  TrigDataSize = 10
  TrigPacketLength = 7
  Lens = {0, 2, 7}
  Spare = {0, 13}
  Payloads = {3}
SPECIFICATION Spec
INVARIANT GebTimeIsEventTime
CHECK_DEADLOCK FALSE
