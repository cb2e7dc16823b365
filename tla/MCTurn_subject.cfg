SPECIFICATION OnlySpec
CONSTANTS
  None = None
  MaxTurns = 2
  TURN_MAX_ATTEMPTS = 3
  OUTBOUND_MAX_RETRIES = 2
  MAX_DELEGATION_DEPTH = 2
  SubjectThread = TRUE
  ReadFaults <- NoFaults
  NoteFaults <- NoFaults
  ReplyFaults <- NoFaults
  ResetMidTurn = FALSE
  CanRestart = FALSE
PROPERTY ResumesConversation
CHECK_DEADLOCK FALSE
