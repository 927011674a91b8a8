CONSTANTS
  NumSubs = 2
  NumQues = 2
  EVENTSPERQUE = 3
  EVENTENTRIES = 2
  Simple = {1}
  Start = 4
  MaxChanges = 2
  MaxAdds = 3
SPECIFICATION LiveSpec
INVARIANT TypeOK
INVARIANT RingSound
INVARIANT NoUseAfterFree
INVARIANT NewestIsDue
INVARIANT NoLostWakeup
INVARIANT UnsentIsDue
INVARIANT SeenInOrder
PROPERTY ImplementsMonitor
PROPERTY TeardownEnds
PROPERTY UpdatesSent
CHECK_DEADLOCK FALSE
