\* The limiter allows three attempts; the page submits a wrong PIN twice.
SPECIFICATION PageSpec
CONSTANTS
  Pin = {"p", "q"}
  NoPin = "none"
  Call = {"c"}
  STEP_UP_MAX_ATTEMPTS = 3
  STEP_UP_WINDOW_MS = 3
  STEP_UP_TOKEN_TTL_MS = 3
  SECOND = 2
  MaxTime = 2
  MaxTokens = 1
  MaxDaemonRestarts = 0
  Action = {"a"}
  NoAction = "no action"
  EXPIRY_BUFFER_MS = 1
  MaxEntries = 3
INVARIANTS LockoutAfterMax
CHECK_DEADLOCK FALSE
