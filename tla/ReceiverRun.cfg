CONSTANTS
  FileID = {0, 1, 2, 9900}
  ZeroFile = 0
  TrigFile = 9900
  Streams <- RunStreams
  DataSize = 2
  SkipWords = 4
  TrigDataSize = 3
  TrigPacketLength = 2
  GebWords = 4
  MaxFileSize = 5
  MaxStarts = 2
  FopenMayFail = FALSE
  FwriteMayFail = FALSE
  ChmodMayFail = FALSE
  MaxReply = 8
  Garbage = {0}
  WholeReplies = TRUE
  ShortHeader = FALSE
  ServerMayClose = TRUE
  SetupMayFail = FALSE
  MayKill = TRUE
SPECIFICATION LiveSpec
INVARIANT Framed
INVARIANT NothingLost
INVARIANT EndsOnlyAtDone
INVARIANT EndsSealed
INVARIANT OverrunBound
PROPERTY ImplementsRecorder
PROPERTY RunEnds
PROPERTY ClosedEnds
