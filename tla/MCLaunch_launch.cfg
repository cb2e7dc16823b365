\* Two turns beside two changes or faults; three turns at the engine's lock.
SPECIFICATION MCSpec
CONSTANTS
  Own = "a"
  Role = {"r1", "r2"}
  rolePathKey <- PathKeys
  idKey <- IdKeys
  Conn <- Connections
  Contents <- RoleContents
  Task = {"t1"}
  NoRole = "none"
  MaxChanges = 2
  Roles <- ThreadRoles
  serviceEnvVar <- EnvVar
  KnownMcp = {"github"}
  Var = {"GITHUB_TOKEN", "CLAUDE_CODE_OAUTH_TOKEN", "ANTHROPIC_API_KEY", "PATH"}
  DENYLISTED_ENV = {"CLAUDE_CODE_OAUTH_TOKEN", "ANTHROPIC_API_KEY"}
  PASSTHROUGH = {"PATH"}
  AUTH = "CLAUDE_CODE_OAUTH_TOKEN"
  Values = {stored}
  Unset = Unset
  Daemons = Daemons
  Hubs <- FirstHubs
  Within <- PathPrefixes
  BindsVault = TRUE
  MaxLaunches = 2
  Slugs <- SlugNames
  lower <- LowerCase
  Malformed = Malformed
  ModelNames = {"opus"}
  AbsolutePaths = {"/shared", "/out", "/in"}
  Inputs <- TurnInputs
  Word <- Words
  ParsedWants <- SomeWants
  noteBytes <- NoteBytes
  Separator = 1
  LOADOUT_BUDGET_BYTES = 6
  safeAttachmentBasename <- Basenames
  ATTACHMENT_MAX_COUNT = 3
  Spawner <- ThreeTurns
  specOf <- Specs
  privateOf <- Workspace
  runtimeReadOnly = {"runtime"}
  homeTreeDenyRoot = "home"
  baseEgress = {"anthropic", "hub"}
  MaxStarts = 2
  Nobody = Nobody
  Event <- Events
  Output <- Outputs
  NL = NL
  Absent = Absent
INVARIANTS NothingUngranted GrantedArrives SetUpExact SpawnedWithItsOwn StreamIsTheBlob
PROPERTIES RoleGrantsStay EngineIsFreed
CHECK_DEADLOCK FALSE
