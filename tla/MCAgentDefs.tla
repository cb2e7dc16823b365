---------------------------- MODULE MCAgentDefs ----------------------------
(***************************************************************************)
(* How agents come to be, in environments chosen in the initial state.     *)
(*                                                                         *)
(* Two are of AgentDefs.  In "rough" a poll and a webhook or a call of the *)
(* API overlap, two definitions and a thread carry one name, notes may be  *)
(* malformed, lists are cut at the cap and there is no hub.  In "calm" (the*)
(* constants of the configuration) tasks do not overlap, every definition  *)
(* keeps a name of its own, and a thread may carry it too; grants, failing *)
(* calls and restarts happen.                                              *)
(*                                                                         *)
(* "vaults" is DefVaults and "web" is WebAgents.                           *)
(***************************************************************************)
EXTENDS AgentDefs, DefVaults, WebAgents

VARIABLE env

Defines(a, W) == [name |-> a, backend |-> "programmatic", wants |-> W, sound |-> TRUE, on |-> TRUE]
Disabled(c) == [c EXCEPT !.on = FALSE]
Unparsable(c) == [c EXCEPT !.sound = FALSE]

Fill(D1, D2, T1) == [n \in Note |-> CASE n = "d1" -> D1 [] n = "d2" -> D2 [] n = "t1" -> T1]
RoughContents == Fill({Defines("a", {"g"}), Unparsable(Defines("a", {}))}, {Defines("a", {})}, {Defines("a", {})})
CalmContents ==
  Fill({Defines("a", {}), Defines("a", {"g"})}, {}, {Defines("a", {}), Disabled(Defines("a", {}))})

Rough == INSTANCE AgentDefs WITH
  Contents <- RoughContents, Overlap <- TRUE, DEF_LIST_LIMIT <- 1, Hub <- FALSE,
  MaxWrites <- 1, MaxFaults <- 1, MaxRestarts <- 0

\* Requests of the page: two names that fight for a channel, a full file
\* system, a name with "--", and bodies that are rejected.
On(ch) == <<[name |-> ch, access |-> NoField]>>
Body(n, ch) == [NoBody EXCEPT !.name = n, !.channels = On(ch)]
MCBodies ==
  {Body("a", "c1"), Body("b", "c1"), Body("t--s", "c2"),
   [Body("a", "c2") EXCEPT !.systemPrompt = "role", !.mode = "replace", !.filesystem = "full"],
   [Body("b", "c2") EXCEPT !.systemPrompt = "blank", !.mode = "replace", !.workspace = "dir"],
   [Body("b", "c1") EXCEPT !.backend = "attached"], [Body("b", "c1") EXCEPT !.mounts = "bad"]}

NoDefs == vault = [n \in Note |-> Unborn] /\ Init
NoVaults == listed = Absent /\ bearer = FALSE /\ DefVaultsInit
NoPage == lines = {} /\ WebAgentsInit

MCInit ==
  \/ env = "rough" /\ Rough!Init /\ NoVaults /\ NoPage
  \/ env = "calm" /\ Init /\ NoVaults /\ NoPage
  \/ env = "vaults" /\ NoDefs /\ DefVaultsInit /\ NoPage
  \/ env = "web" /\ NoDefs /\ NoVaults /\ WebAgentsInit

In(e) == env = e /\ UNCHANGED env
MCNext ==
  \/ In("rough") /\ Rough!Next /\ UNCHANGED <<defVaultsVars, webAgentsVars>>
  \/ In("calm") /\ Next /\ UNCHANGED <<defVaultsVars, webAgentsVars>>
  \/ In("vaults") /\ DefVaultsNext /\ UNCHANGED <<vars, webAgentsVars>>
  \/ In("web") /\ WebAgentsNext /\ UNCHANGED <<vars, defVaultsVars>>
MCFairness ==
  /\ WF_vars(env = "calm" /\ Tick)
  /\ WF_vars(env = "calm" /\ Poll)
  /\ \A t \in Task : WF_vars(env = "calm" /\ Step(t))
  /\ \A t \in Request : WF_vars(env = "calm" /\ Call(t))
  /\ WF_defVaultsVars(env = "vaults" /\ (BootStep \/ Sweep))
  /\ \A j \in Job : WF_defVaultsVars(env = "vaults" /\ LoadStep(j))
  /\ \A v \in DefVault : WF_defVaultsVars(env = "vaults" /\ Cooled(v))
  /\ \A c \in Caller : WF_defVaultsVars(env = "vaults" /\ CallStep(c))
MCVars == <<vars, defVaultsVars, webAgentsVars, env>>
MCSpec == MCInit /\ [][MCNext]_MCVars /\ MCFairness

(* Approved grants of a declared want stay.                                 *)
CalmGrantsStay ==
  [][env = "calm" => GrantsStay]_vars
(* In the end the registry is what the vault says and nothing is stamped:   *)
(* the module's own writes end.  While the poll is set, the agents of every *)
(* bound vault come up after failed listings and restarts.                  *)
CalmConverges == <>[]((env = "calm" => Converged /\ ~Stamping) /\ (env = "vaults" => Served))
=============================================================================
