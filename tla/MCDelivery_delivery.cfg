\* The vault's webhook with three notes, a Telegram bot with two updates, or two
\* agents that call each other.
SPECIFICATION MCSpec
CONSTANTS
  Channel = {"v", "tg"}
  Bridge = {"b1", "b2"}
  Session = {"s1"}
  Listens <- TwoListeners
  MaxFrames = 3
  MaxBreaks = 1
  MaxRestarts = 1
  Note = {1, 2, 3}
  NoteChannel <- AllOnOne
  WithFiles = {1}
  ByThread = {2}
  Request = {"r1", "r2"}
  SEEN_INBOUND_CAP = 1
  ThreadsResolvable = TRUE
  Backing <- Backings
  MaxPosts = 3
  Name = {"tg"}
  Call = {"p", "q"}
  Transports = 3
  Updates = 2
  MaxCalls = 2
  Partner = {a, b}
  Elsewhere = elsewhere
  Nowhere = nowhere
  Garbage = garbage
  MAX_DELEGATION_DEPTH = 1
  MaxSends = 1
  MaxRequests = 2
  MaxOutages = 0
  MaxLost = 0
INVARIANTS DelegationsAnswered ToldInOrder AckedMeansHandedOnce TelegramHandlesAll ConfigurationAgrees
CHECK_DEADLOCK FALSE
