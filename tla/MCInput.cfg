SPECIFICATION InputSpec
CONSTANTS
  Capacity = 4
  Events = {e1, e2, e3}
  NoEvent = NoEvent
  Busy = Busy
  Empty = Empty
  MaxDropped = 2
  MaxCommands = 3
  None = None
INVARIANTS
  InterruptsReachTheirHandler
  NoByteForgotten
PROPERTIES
  ImplementsFifo
  KeysAreHandled
  AnswerStaysVisible
  SleepEnds
CHECK_DEADLOCK FALSE
