CONSTANTS
  NumSubs = 2
  NumQues = 1
  EVENTSPERQUE = 3
  EVENTENTRIES = 2
  Simple = {1, 2}
  Start = 0
  MaxChanges = 0
  MaxAdds = 2
SPECIFICATION LiveSpec
PROPERTY UpdatesArrive
CHECK_DEADLOCK FALSE
