\* Two turns with every fault, or three against a steady vault.
SPECIFICATION MCSpec
CONSTANTS
  None = None
  MaxTurns = 3
  TURN_MAX_ATTEMPTS = 3
  OUTBOUND_MAX_RETRIES = 2
  MAX_DELEGATION_DEPTH = 2
  SubjectThread = FALSE
  ReadFaults <- AllFaults
  NoteFaults <- AllFaults
  ReplyFaults <- KnownOutcome
  ResetMidTurn = TRUE
  CanRestart = TRUE
INVARIANTS EstablishedOnly TurnsCountedOnce CallbackTellsOutcome TruthIsLeft
PROPERTIES TurnEnds SteadyResumes
CHECK_DEADLOCK FALSE
