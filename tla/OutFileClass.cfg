CONSTANTS
  FileID = {1, 2}
  ZeroFile = 1
  TrigFile = 2
  MaxFileSize = 1
  MaxStarts = 2
  FopenMayFail = TRUE
  FwriteMayFail = TRUE
  ChmodMayFail = FALSE
  WriteSizes = {0, 2}
  MaxChunks = 2
  MaxFiles = 2
SPECIFICATION FilesSpec
INVARIANT FilesTypeOK
INVARIANT OpenIsWritable
INVARIANT SplitOnlyWhenFull
INVARIANT SizeIsKnown
PROPERTY DiskOnlyGrows
PROPERTY OnlyNewestChanges
CHECK_DEADLOCK FALSE
