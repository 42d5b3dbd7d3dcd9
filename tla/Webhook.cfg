SPECIFICATION FairSpec
INVARIANT StopFlushes
INVARIANT IInv
PROPERTY ImplementsSink
PROPERTY StopEnds
PROPERTY TakenIsPosted
CHECK_DEADLOCK FALSE
CONSTANTS
  e1 = e1
  e2 = e2
  e3 = e3
  e4 = e4
  w1 = w1
  w2 = w2
  Events = {e1, e2, e3, e4}
  Workers = {w1, w2}
  QueueCap = 2
  NoEvent = NoEvent
