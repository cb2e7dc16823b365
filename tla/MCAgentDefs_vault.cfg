\* AgentDefs: a definition and a thread of one name, one task at a time, grants;
\* the other environment of MCAgentDefs overrides what it has otherwise.
\* DefVaults: the default vault and another one, two calls at a time.
\* WebAgents: three names, one of them like a thread's, and two channels.
SPECIFICATION MCSpec
CONSTANTS
  Def = {"d1", "d2"}
  Thread = {"t1"}
  Name = {"a"}
  NoName = ""
  Conn = {"g"}
  Contents <- CalmContents
  Request = {"r1"}
  Poller = "poll"
  DEF_LIST_LIMIT = 3
  Discovery = "both"
  Hub = TRUE
  Overlap = FALSE
  MaxWrites = 2
  MaxFaults = 1
  MaxRestarts = 1
  None = None
  Unborn = Unborn
  Gone = Gone
  DefVault = {"default", "v"}
  DEFAULT = "default"
  Caller = {"p", "q"}
  NoVault = "none"
  Absent = Absent
  Alone = TRUE
  MaxDefCalls = 2
  MaxDefFaults = 1
  MaxDefRestarts = 1
  Agent = {"a", "b", "t--s"}
  Threadlike = {"t--s"}
  Line = {"c1", "c2"}
  Bodies <- MCBodies
  NoSpec = NoSpec
  NoField = "none"
  Rejected = Rejected
  MaxSpawns = 4
  MaxSpawnRestarts = 2
INVARIANTS VaultsAgree OwnersServe
PROPERTIES OnlyTheGone CalmGrantsStay CalmConverges
