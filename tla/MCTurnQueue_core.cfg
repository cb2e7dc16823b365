\* One multi-threaded agent with two drain keys; MCTurnQueue overrides what the
\* environments of a moving name have otherwise.
SPECIFICATION MCSpec
CONSTANTS
  Id <- MovingNames
  Subject <- OneSubject
  Key <- AllKeys
  ThreadKey <- AllThreadKey
  Prefixed <- AllPrefixed
  AgentSpec <- MultiAgent
  None = None
  DrainId <- DrainIds
  MaxMsgs = 4
  PendingCap = 2
  ThreadsWired = FALSE
  SessionReadFails = FALSE
  MicrotaskRaces = FALSE
INVARIANTS LockHeld MessagesKept OwnKeptInOrder
PROPERTIES CoreMessagesEnd CalmImplementsMailboxes
CHECK_DEADLOCK FALSE
