CONSTANTS
  NumLinks = 2
  MaxPuts = 3
  MaxDrops = 1
SPECIFICATION LiveSpec
INVARIANT TypeOK
INVARIANT WorkListSound
INVARIANT NoLostWakeup
INVARIANT PutIsUnderway
INVARIANT InOrder
PROPERTY PutArrives
CHECK_DEADLOCK FALSE
