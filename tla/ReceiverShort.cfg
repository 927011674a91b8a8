CONSTANTS
  FileID = {0, 1, 2, 9900}
  ZeroFile = 0
  TrigFile = 9900
  Streams <- RoughStreams
  DataSize = 2
  SkipWords = 4
  TrigDataSize = 2
  TrigPacketLength = 2
  GebWords = 2
  MaxFileSize = 3
  MaxStarts = 1
  FopenMayFail = FALSE
  FwriteMayFail = FALSE
  ChmodMayFail = FALSE
  MaxReply = 3
  Garbage = {0, 1}
  WholeReplies = TRUE
  ShortHeader = TRUE
  ServerMayClose = FALSE
  SetupMayFail = FALSE
  MayKill = FALSE
SPECIFICATION Spec
INVARIANT InStep
