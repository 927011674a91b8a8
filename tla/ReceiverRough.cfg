CONSTANTS
  FileID = {0, 1, 2, 9900}
  ZeroFile = 0
  TrigFile = 9900
  Streams <- RoughStreams
  DataSize = 2
  SkipWords = 4
  TrigDataSize = 2
  TrigPacketLength = 2
  GebWords = 2
  MaxFileSize = 3
  MaxStarts = 1
  FopenMayFail = TRUE
  FwriteMayFail = TRUE
  ChmodMayFail = TRUE
  MaxReply = 3
  Garbage = {0}
  WholeReplies = FALSE
  ShortHeader = FALSE
  ServerMayClose = TRUE
  SetupMayFail = TRUE
  MayKill = FALSE
SPECIFICATION Spec
INVARIANT TypeOK
INVARIANT BufferFits
INVARIANT OpenForWrite
INVARIANT OnceInOrder
INVARIANT InStep
