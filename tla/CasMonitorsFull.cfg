CONSTANTS
  NumSubs = 2
  NumQues = 1
  EVENTSPERQUE = 3
  EVENTENTRIES = 4
  Simple = {1, 2}
  Start = 0
  MaxChanges = 8
  MaxAdds = 5
SPECIFICATION HeldUpSpec
INVARIANT RoomForEvent
CHECK_DEADLOCK FALSE
