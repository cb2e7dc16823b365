\* Three prompt sessions and two messages, or two faulty ones and one message.
SPECIFICATION MCSpec
CONSTANTS
  None = None
  s1 = s1
  s2 = s2
  s3 = s3
  MaxMsgs = 2
  Session <- Sessions
  TTL = 1
  MAX_CLAIM_ATTEMPTS = 2
  VaultFails = FALSE
  CanRestart = FALSE
  LateSessions = FALSE
  PromptCalls = TRUE
INVARIANT HandledHasReply
PROPERTIES PromptImplementsWorkQueue FaultyClaimsEnd
