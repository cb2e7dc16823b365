SPECIFICATION OnlySpec
CONSTANTS
  Id <- OneName
  Subject <- OneSubject
  Key <- OneNameKeys
  ThreadKey <- OneNameThreadKey
  Prefixed <- OneNamePrefixed
  AgentSpec <- MultiAgent
  None = None
  DrainId <- DrainIds
  MaxMsgs = 4
  PendingCap = 2
  ThreadsWired = FALSE
  SessionReadFails = FALSE
  MicrotaskRaces = FALSE
INVARIANT SerialPerKey
CHECK_DEADLOCK FALSE
