\* Two overlapping ticks, and 252 expressions from every instant of two days.
SPECIFICATION MCSpec
CONSTANTS
  None = None
  New = New
  Gone = Gone
  Job = {j}
  Expression <- Times
  Tick = {t1, t2}
  MaxTime = 2
  BaseDelay = 1
  CapDelay = 2
  MaxJitter = 1
  MaxFailures = 1
  CanRestart = TRUE
  NoResult = NoResult
  Last = 40
  LastFrom = 12
  WallClock <- SetBack
  Calendar <- Months
  FIELD_BOUNDS <- Fields
  Tokens <- Written
  MAX_LOOKAHEAD_DAYS = 3
INVARIANTS NoOverlap SearchIsExact
PROPERTIES OncePerSlot NothingStalls
\* A search returns, and is over.
CHECK_DEADLOCK FALSE
