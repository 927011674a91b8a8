CONSTANTS
  NumSubs = 1
  NumQues = 1
  EVENTSPERQUE = 3
  EVENTENTRIES = 2
  Simple = {1}
  Start = 0
  MaxChanges = 1
  MaxAdds = 1
SPECIFICATION Spec
INVARIANT NeverStale
CHECK_DEADLOCK FALSE
