------------------------------ MODULE DefVaults ------------------------------
(***************************************************************************)
(* The vaults that agents are defined in: agent-vaults.json               *)
(* (src/def-vaults.ts), the bindings of the live registry                  *)
(* (src/agent-defs.ts), the boot that resolves them and registers their    *)
(* triggers (main of src/daemon.ts, src/def-vault-triggers.ts), and the    *)
(* calls that add and remove one (/api/agent-vaults of src/daemon.ts).     *)
(*                                                                         *)
(* A call awaits the hub's mint, the answers of the vaults and, when it    *)
(* removes a vault, the teardown of its agents; other calls run meanwhile. *)
(* What is under way is a job: the boot, the poll, or a call.  The agents  *)
(* of a vault are one value here; AgentDefs has the notes one by one.      *)
(*                                                                         *)
(* ReadEarly is a faulty variant of the definition that follows it.        *)
(***************************************************************************)
EXTENDS Naturals, Sequences

CONSTANTS
  DefVault,        \* the vaults of this host
  DEFAULT,         \* the vault that every install has
  Caller,          \* the API calls that may be open at a time
  NoVault, Absent, \* a job without a vault; no agent-vaults.json
  Alone,           \* whether a boot and a removal run with nothing beside them
  MaxDefCalls, MaxDefFaults, MaxDefRestarts  \* bounds on calls, failures and restarts

ASSUME DefVaultsAssumption ==
  /\ DEFAULT \in DefVault /\ NoVault \notin DefVault
  /\ \A V \in SUBSET DefVault : V # Absent
  /\ {"boot", "sweep"} \cap Caller = {} /\ Alone \in BOOLEAN
  /\ {MaxDefCalls, MaxDefFaults, MaxDefRestarts} \subseteq Nat

VARIABLES
  listed,          \* the vaults in agent-vaults.json, or Absent
  bound,           \* the live bindings
  agentsUp,        \* the vaults whose agents run
  triggers,        \* the triggers that each vault has of this daemon
  bearer,          \* is there an operator token?
  polling,         \* is the poll of every minute set?
  cooling,         \* vaults whose listing failed and is not tried again yet
  job,             \* what is under way
  added,           \* vaults whose addition was answered with success and whose removal was not
  budget           \* calls, failures and restarts that are still allowed

defVaultsVars == <<listed, bound, agentsUp, triggers, bearer, polling, cooling, job, added, budget>>

Job == {"boot", "sweep"} \cup Caller

\* buildDefVaultTriggers, in the order in which they are posted.
buildDefVaultTriggers ==
  <<"conn_agentdefs-create", "conn_agentdefs-edit", "conn_agentinbound", "conn_roles-create",
    "conn_roles-edit", "conn_threads-create">>

NoJob == [at |-> "none", v |-> NoVault, saw |-> {}, past |-> {}, k |-> 0, admin |-> FALSE, ok |-> FALSE]
DefBoot == [NoJob EXCEPT !.at = "resolve"]

DefVaultsInit ==
  /\ listed \in {Absent} \cup {{v} : v \in DefVault}
  /\ bound = {} /\ agentsUp = {} /\ cooling = {}
  /\ triggers = [v \in DefVault |-> {}]
  /\ bearer \in BOOLEAN
  /\ polling = FALSE
  /\ job = [j \in Job |-> IF j = "boot" THEN DefBoot ELSE NoJob]
  /\ added = {}
  /\ budget = [calls |-> MaxDefCalls, faults |-> MaxDefFaults, restarts |-> MaxDefRestarts]

Free(j) == job[j].at = "none"
OthersFree(j) == \A i \in Job \ {j} : Free(i)
Removing == \E c \in Caller : job[c].at = "remove"
Pays(what) == budget[what] > 0 /\ budget' = [budget EXCEPT ![what] = @ - 1]
Sets(j, r) == job' = [job EXCEPT ![j] = r]
Enters(j, at) == Sets(j, [job[j] EXCEPT !.at = at])
\* mintScopedToken throws: the hub is out of reach, refuses, or sends no token.
MintRefused == Pays("faults")
MayCall(c) == Free(c) /\ Pays("calls") /\ (Alone => Free("boot") /\ ~Removing)

\* The operator token is set, after the boot perhaps.
Provision ==
  /\ ~bearer /\ bearer' = TRUE
  /\ UNCHANGED <<listed, bound, agentsUp, triggers, polling, cooling, job, added, budget>>

-----------------------------------------------------------------------------
(* The boot.                                                                *)

\* resolveDefVaults: the file wins; without one the default vault's token is
\* minted, if there is an operator token.
Resolve ==
  /\ job["boot"].at = "resolve"
  /\ IF listed # Absent
     THEN Sets("boot", [NoJob EXCEPT !.at = "bind", !.saw = listed, !.ok = bearer])
     ELSE Sets("boot", IF bearer THEN [NoJob EXCEPT !.at = "mintDefault", !.ok = TRUE] ELSE NoJob)
  /\ UNCHANGED <<listed, bound, agentsUp, triggers, bearer, polling, cooling, added, budget>>

\* The hub answers.  A refusal binds nothing; a file that cannot be written
\* leaves the binding in memory only.
MintDefault ==
  /\ job["boot"].at = "mintDefault"
  /\ \/ /\ listed' = {DEFAULT} /\ UNCHANGED budget
        /\ Sets("boot", [job["boot"] EXCEPT !.at = "bind", !.saw = {DEFAULT}])
     \/ /\ Pays("faults") /\ UNCHANGED listed
        /\ Sets("boot", [job["boot"] EXCEPT !.at = "bind", !.saw = {DEFAULT}])
     \/ MintRefused /\ Sets("boot", NoJob) /\ UNCHANGED listed
  /\ UNCHANGED <<bound, agentsUp, triggers, bearer, polling, cooling, added>>

\* A boot that binds nothing ends, and sets no poll.
Bind ==
  LET r == job["boot"] IN
  /\ r.at = "bind"
  /\ bound' = bound \cup r.saw
  /\ Sets("boot", IF r.saw = {} THEN NoJob ELSE [r EXCEPT !.at = IF r.ok THEN "register" ELSE "load"])
  /\ UNCHANGED <<listed, agentsUp, triggers, bearer, polling, cooling, added, budget>>

\* registerDefVaultTriggers for the next vault: the admin token first, then
\* the bearer of the webhooks; without either there is no trigger.
MintForTriggers ==
  LET r == job["boot"] IN
  /\ r.at = "register" /\ r.k = 0
  /\ \/ /\ r.v = NoVault /\ UNCHANGED budget
        /\ \E v \in r.saw \ r.past : Sets("boot", [r EXCEPT !.v = v])
     \/ /\ r.v # NoVault /\ UNCHANGED budget
        /\ Sets("boot", IF r.admin THEN [r EXCEPT !.k = 1] ELSE [r EXCEPT !.admin = TRUE])
     \/ /\ r.v # NoVault /\ MintRefused
        /\ Sets("boot", [r EXCEPT !.v = NoVault, !.admin = FALSE, !.past = @ \cup {r.v}])
  /\ UNCHANGED <<listed, bound, agentsUp, triggers, bearer, polling, cooling, added>>

\* Each trigger is posted on its own: a failed one is left out.
PostTrigger ==
  LET r == job["boot"]
      last == r.k = Len(buildDefVaultTriggers)
  IN
  /\ r.at = "register" /\ r.k > 0
  /\ \/ triggers' = [triggers EXCEPT ![r.v] = @ \cup {buildDefVaultTriggers[r.k]}] /\ UNCHANGED budget
     \/ Pays("faults") /\ UNCHANGED triggers
  /\ Sets("boot", IF last THEN [r EXCEPT !.v = NoVault, !.k = 0, !.admin = FALSE, !.past = @ \cup {r.v}]
                  ELSE [r EXCEPT !.k = @ + 1])
  /\ UNCHANGED <<listed, bound, agentsUp, bearer, polling, cooling, added>>

RegisteredAll ==
  /\ job["boot"].at = "register" /\ job["boot"].v = NoVault /\ job["boot"].saw = job["boot"].past
  /\ Sets("boot", [job["boot"] EXCEPT !.at = "load", !.past = {}])
  /\ UNCHANGED <<listed, bound, agentsUp, triggers, bearer, polling, cooling, added, budget>>

-----------------------------------------------------------------------------
(* loadAll: of the boot, of the poll and of a call that added a vault.      *)

Sweep ==
  /\ polling /\ Free("sweep") /\ (Alone => ~Removing)
  /\ Enters("sweep", "load")
  /\ UNCHANGED <<listed, bound, agentsUp, triggers, bearer, polling, cooling, added, budget>>

\* The next vault: the loop runs over the live map.  One whose listing failed
\* is passed over until its backoff is through.
LoadNext(j) ==
  LET r == job[j] IN
  /\ r.at = "load"
  /\ \E v \in bound \ r.past :
       Sets(j, IF v \in cooling THEN [r EXCEPT !.past = @ \cup {v}] ELSE [r EXCEPT !.at = "list", !.v = v])
  /\ UNCHANGED <<listed, bound, agentsUp, triggers, bearer, polling, cooling, added, budget>>

\* The vault answers, and its agents come up, or the listing fails.
Loaded(j) ==
  LET r == job[j] IN
  /\ r.at = "list"
  /\ \/ agentsUp' = agentsUp \cup {r.v} /\ cooling' = cooling \ {r.v} /\ UNCHANGED budget
     \/ Pays("faults") /\ cooling' = cooling \cup {r.v} /\ UNCHANGED agentsUp
  /\ Sets(j, [r EXCEPT !.at = "load", !.v = NoVault, !.past = @ \cup {r.v}])
  /\ UNCHANGED <<listed, bound, triggers, bearer, polling, added>>

\* The backoff of a vault is through.
Cooled(v) ==
  /\ v \in cooling /\ cooling' = cooling \ {v}
  /\ UNCHANGED <<listed, bound, agentsUp, triggers, bearer, polling, job, added, budget>>

\* The boot sets the poll; a call is answered with success.
LoadEnds(j) ==
  LET r == job[j] IN
  /\ r.at = "load" /\ bound \subseteq r.past
  /\ polling' = (polling \/ j = "boot")
  /\ added' = IF j \in Caller THEN added \cup r.saw ELSE added
  /\ Sets(j, NoJob)
  /\ UNCHANGED <<listed, bound, agentsUp, triggers, bearer, cooling, budget>>

-----------------------------------------------------------------------------
(* POST and DELETE of /api/agent-vaults.                                    *)

Known == IF listed = Absent THEN bound ELSE listed

\* defaultAddDefVault up to the mint; a vault that is known and a missing
\* operator token are errors.
AddDefVault(c, v) ==
  /\ v \notin bound /\ bearer
  /\ MayCall(c)
  /\ Sets(c, [NoJob EXCEPT !.at = "mint", !.v = v, !.past = Known])
  /\ UNCHANGED <<listed, bound, agentsUp, triggers, bearer, polling, cooling, added>>

\* The vaults that the new one is appended to.
ReadEarly(r) == r.past
Existing(r) == Known

\* The hub answers: the file is read and written and the vault is bound in
\* one step.  A refused mint or a failed write ends the call.
AddMinted(c) ==
  LET r == job[c] IN
  /\ r.at = "mint"
  /\ \/ /\ listed' = Existing(r) \cup {r.v}
        /\ bound' = bound \cup {r.v}
        /\ Sets(c, [NoJob EXCEPT !.at = "load", !.saw = {r.v}])
        /\ UNCHANGED budget
     \/ Pays("faults") /\ Sets(c, NoJob) /\ UNCHANGED <<listed, bound>>
  /\ UNCHANGED <<agentsUp, triggers, bearer, polling, cooling, added>>

\* DELETE: the last vault stays.  The file is written first; when that
\* fails all is as it was.  Then the agents go, which is awaited.
DeleteDefVault(c, v) ==
  /\ v \in bound /\ bound # {v}
  /\ MayCall(c)
  /\ Alone => OthersFree(c)
  /\ listed' = IF listed = Absent THEN Absent ELSE listed \ {v}
  /\ agentsUp' = agentsUp \ {v}
  /\ added' = added \ {v}
  /\ Sets(c, [NoJob EXCEPT !.at = "remove", !.v = v])
  /\ UNCHANGED <<bound, triggers, bearer, polling, cooling>>

DeleteDefVaultFails(c, v) ==
  /\ v \in bound /\ bound # {v} /\ listed # Absent
  /\ Free(c) /\ (Alone => OthersFree(c))
  /\ Pays("faults")
  /\ UNCHANGED <<listed, bound, agentsUp, triggers, bearer, polling, cooling, job, added>>

\* The name of no vault that is bound: success, and nothing changes.
DeleteUnknown(c) == Free(c) /\ UNCHANGED defVaultsVars

\* removeVault.
RemoveDefVault(c) ==
  /\ job[c].at = "remove"
  /\ bound' = bound \ {job[c].v}
  /\ cooling' = cooling \ {job[c].v}
  /\ Sets(c, NoJob)
  /\ UNCHANGED <<listed, agentsUp, triggers, bearer, polling, added, budget>>

\* The daemon restarts: the file and the vaults' triggers remain.
DefRestart ==
  /\ Pays("restarts")
  /\ bound' = {} /\ agentsUp' = {} /\ cooling' = {} /\ polling' = FALSE
  /\ job' = [j \in Job |-> IF j = "boot" THEN DefBoot ELSE NoJob]
  /\ UNCHANGED <<listed, triggers, bearer, added>>

BootStep == Resolve \/ MintDefault \/ Bind \/ MintForTriggers \/ PostTrigger \/ RegisteredAll
LoadStep(j) == LoadNext(j) \/ Loaded(j) \/ LoadEnds(j)
CallStep(c) == AddMinted(c) \/ RemoveDefVault(c)

DefVaultsNext ==
  \/ Provision \/ BootStep \/ Sweep \/ DefRestart
  \/ \E j \in Job : LoadStep(j)
  \/ \E v \in DefVault : Cooled(v)
  \/ \E c \in Caller : CallStep(c) \/ DeleteUnknown(c)
  \/ \E c \in Caller, v \in DefVault :
       AddDefVault(c, v) \/ DeleteDefVault(c, v) \/ DeleteDefVaultFails(c, v)

DefVaultsSpec == DefVaultsInit /\ [][DefVaultsNext]_defVaultsVars

-----------------------------------------------------------------------------
(* Properties, of boots and removals that run alone.  Additions overlap     *)
(* each other, the poll and failures of every call.                         *)

Booted == Free("boot")

\* The file names what is bound, so that a restart changes nothing; only the
\* default vault may be bound without a file.
FileAgrees == IF listed = Absent THEN bound \subseteq {DEFAULT} ELSE bound = listed

\* What a caller was told is there stays there, across restarts too, and the
\* last vault is never removed.
AddedStay == added # {} => listed # Absent /\ added \subseteq listed
NeverEmptied == listed # {}

VaultsAgree ==
  /\ Booted /\ ~Removing => FileAgrees /\ agentsUp \subseteq bound
  /\ AddedStay /\ NeverEmptied

\* A vault that stays bound while the poll is set has its agents up.
Served == polling => agentsUp = bound
=============================================================================
