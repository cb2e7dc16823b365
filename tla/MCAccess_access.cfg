SPECIFICATION MCSpec
CONSTANTS
  Pin = {"p", "q"}
  NoPin = "none"
  Call = {"c1", "c2"}
  STEP_UP_MAX_ATTEMPTS = 2
  STEP_UP_WINDOW_MS = 3
  STEP_UP_TOKEN_TTL_MS = 3
  SECOND = 2
  MaxTime = 4
  MaxTokens = 2
  MaxDaemonRestarts = 1
  Action = {"a", "b"}
  NoAction = "no action"
  EXPIRY_BUFFER_MS = 1
  MaxEntries = 2
  Channel = {"v", "w"}
  NoChannel = "no channel"
  First = "v"
  MaxNotes = 3
  MaxPicks = 2
  MaxBreaks = 1
  MaxStreams = 4
  DeepLink = {"no channel", "w"}
  HUB_WS_CAP_BYTES = 8
  MAX_QUEUE_BYTES = 6
  Sizes = {1, 3}
  MaxDim = 4
  Frames <- KeyFrames
  MaxChunks = 6
  MaxFrames = 1
  HubToken <- HubTokens
  HubOrigin = "unset"
  HubOrigins = {"other"}
  Exposed = {"hub", "loop"}
  Loopback = "loop"
  Unset = "unset"
  TICKET_TTL_MS = 2
  MaxTickets = 2
  MaxVisits = 3
INVARIANTS TerminalFlows LimiterKeepsItsWord CalmPromptsServe ChatTrue OpenedByRight
CHECK_DEADLOCK FALSE
