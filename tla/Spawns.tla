------------------------------- MODULE Spawns -------------------------------
(***************************************************************************)
(* Turns of several agents and subjects on their way into the sandbox: the *)
(* files of a turn in its private workspace, the lock around the one       *)
(* sandbox engine of the process, and the processes that are started with  *)
(* what the engine returned (attemptTurn in src/src/backends/programmatic.ts,*)
(* src/src/spawn-agent.ts, src/src/sandbox).                               *)
(*                                                                         *)
(* The engine is a library: reset ends its proxies, initialize takes a     *)
(* configuration and starts proxies for a restricted one, and wrap returns *)
(* a command bound to what the engine has then.                            *)
(***************************************************************************)
EXTENDS Naturals, Sequences

CONSTANTS
  Spawner,     \* turns that are to be started
  specOf,      \* per turn: its spec [name, filesystem, network, egress, mounts, workspace]
  privateOf,   \* per turn: sessionWorkspace, by its agent's name and its subject
  runtimeReadOnly, \* paths every session may read
  homeTreeDenyRoot, \* the home tree of the platform
  baseEgress,  \* hosts every restricted session may reach
  MaxStarts,   \* TURN_MAX_ATTEMPTS
  Nobody

ASSUME SpawnsAssumption ==
  /\ DOMAIN specOf = Spawner /\ DOMAIN privateOf = Spawner
  /\ Nobody \notin Spawner /\ MaxStarts \in Nat \ {0}

VARIABLES
  files,   \* per workspace: the turns whose .mcp.json and prompt are in it
  trusted, \* per workspace: the project its seeded home trusts, or Nobody
  chain,   \* spawnLock: those that wait for it, behind the one that holds it
  engine,  \* [config, proxy], proxy the turn it was started for
  spawner, \* per turn: [at, argv, starts, fresh]
  claude   \* per turn: what its process runs with, or Nobody

spawnVars == <<files, trusted, chain, engine, spawner, claude>>
Workspaces == {privateOf[t] : t \in Spawner}
Private(t) == privateOf[t]

SpawnsInit ==
  /\ files = [w \in Workspaces |-> [mcp |-> Nobody, prompt |-> Nobody]]
  /\ trusted = [w \in Workspaces |-> Nobody]
  /\ chain = <<>>
  /\ engine = [config |-> Nobody, proxy |-> Nobody]
  /\ spawner = [t \in Spawner |-> [at |-> "queued", argv |-> Nobody, starts |-> 0, fresh |-> FALSE]]
  /\ claude = [t \in Spawner |-> Nobody]

-----------------------------------------------------------------------------
(* composeFilesystemView and composeEgressAllowlist.                       *)
WorkingRoot(s) == IF s.workspace = Nobody THEN {} ELSE {s.workspace}
composeFilesystemView(s, w) ==
  LET writes == {w} \cup WorkingRoot(s) \cup {m.hostPath : m \in {x \in s.mounts : x.mode = "rw"}}
      reads == {w} \cup runtimeReadOnly \cup WorkingRoot(s) \cup {m.hostPath : m \in s.mounts}
      scoped == s.filesystem # "full"
  IN  [denyRead |-> IF scoped THEN {homeTreeDenyRoot} ELSE {},
       allowRead |-> IF scoped THEN reads ELSE {}, allowWrite |-> writes]
composeEgressAllowlist(s) == baseEgress \cup s.egress
Restricted(t) == specOf[t].network = "restricted"
buildSandboxConfig(t) ==
  [filesystem |-> composeFilesystemView(specOf[t], Private(t)),
   hosts |-> IF Restricted(t) THEN composeEgressAllowlist(specOf[t]) ELSE Nobody]

-----------------------------------------------------------------------------
(* A turn.  Turns of one workspace do not overlap: it has one drain key.   *)
At(t, a) == spawner[t].at = a
Underway(t) == spawner[t].at \notin {"queued", "over"}
Goes(t, a) == spawner' = [spawner EXCEPT ![t].at = a]

WriteMcpConfig(t) ==
  /\ At(t, "queued") /\ \A u \in Spawner : Private(u) = Private(t) => ~Underway(u)
  /\ files' = [files EXCEPT ![Private(t)].mcp = t]
  /\ Goes(t, "staging")
  /\ UNCHANGED <<trusted, chain, engine, claude>>

resolveAgentCwd(t) == IF specOf[t].workspace = Nobody THEN Private(t) ELSE specOf[t].workspace

\* The home is seeded once, and then it is claude's.
seedAgentHome(t) ==
  trusted' = [trusted EXCEPT ![Private(t)] = IF @ = Nobody THEN resolveAgentCwd(t) ELSE @]

\* The attached files are there.
WritePrompt(t) ==
  /\ At(t, "staging")
  /\ files' = [files EXCEPT ![Private(t)].prompt = t]
  /\ seedAgentHome(t)
  /\ chain' = Append(chain, t)
  /\ Goes(t, "waiting")
  /\ UNCHANGED <<engine, claude>>

\* Without the lock.
AtOnce(t) == At(t, "waiting")
Locked(t) == At(t, "waiting") /\ Head(chain) = t

\* A failing call keeps the lock.
KeepsLock == UNCHANGED chain
Released == chain' = Tail(chain)
ReleasedOnFailure == Released

ResetEngine(t) ==
  /\ Locked(t)
  /\ engine' = [engine EXCEPT !.proxy = Nobody]
  /\ Goes(t, "initialize")
  /\ UNCHANGED <<files, trusted, chain, claude>>

Initialize(t) ==
  /\ At(t, "initialize")
  /\ engine' = [config |-> buildSandboxConfig(t), proxy |-> IF Restricted(t) THEN t ELSE engine.proxy]
  /\ Goes(t, "wrap")
  /\ UNCHANGED <<files, trusted, chain, claude>>

Wrap(t) ==
  /\ At(t, "wrap")
  /\ spawner' = [spawner EXCEPT ![t].at = "wrapped", ![t].argv = engine]
  /\ Released
  /\ UNCHANGED <<files, trusted, engine, claude>>

\* initialize or wrap throws: the lock is released and the turn has failed.
EngineFails(t) ==
  /\ At(t, "initialize") \/ At(t, "wrap")
  /\ ReleasedOnFailure /\ Goes(t, "over")
  /\ UNCHANGED <<files, trusted, engine, claude>>

Start(t) ==
  /\ At(t, "wrapped") \/ At(t, "backoff")
  /\ spawner' = [spawner EXCEPT ![t].at = "running", ![t].starts = @ + 1]
  /\ claude' = [claude EXCEPT ![t] =
       [config |-> spawner[t].argv.config, proxy |-> spawner[t].argv.proxy,
        mcp |-> files[Private(t)].mcp, prompt |-> files[Private(t)].prompt,
        project |-> trusted[Private(t)]]]
  /\ UNCHANGED <<files, trusted, chain, engine>>

Stops(t, a) ==
  /\ At(t, "running")
  /\ claude' = [claude EXCEPT ![t] = Nobody]
  /\ Goes(t, a)
  /\ UNCHANGED <<files, trusted, engine>>

Exit(t) == Stops(t, "over") /\ UNCHANGED chain
Transient(t) == spawner[t].starts < MaxStarts /\ Stops(t, "backoff") /\ UNCHANGED chain

\* The session to resume is gone: once, a fresh one is wrapped and started.
Fallback(t) ==
  /\ At(t, "running") /\ ~spawner[t].fresh
  /\ claude' = [claude EXCEPT ![t] = Nobody]
  /\ spawner' = [spawner EXCEPT ![t] = [at |-> "waiting", argv |-> Nobody, starts |-> 0, fresh |-> TRUE]]
  /\ chain' = Append(chain, t)
  /\ UNCHANGED <<files, trusted, engine>>

EngineStep(t) == ResetEngine(t) \/ Initialize(t) \/ Wrap(t) \/ EngineFails(t)
SpawnsNext ==
  \E t \in Spawner :
    \/ WriteMcpConfig(t) \/ WritePrompt(t) \/ EngineStep(t) \/ Start(t)
    \/ Exit(t) \/ Transient(t) \/ Fallback(t)
SpawnsSpec == SpawnsInit /\ [][SpawnsNext]_spawnVars /\ \A t \in Spawner : WF_spawnVars(EngineStep(t))

-----------------------------------------------------------------------------
(* Every process runs under the policy of its own spec, with a proxy only  *)
(* if that is restricted and then its own, and with the files of its own   *)
(* turn, however the set-ups, retries and fallbacks of the others lie.     *)
SpawnedWithItsOwn ==
  \A t \in Spawner : claude[t] # Nobody =>
    /\ claude[t].config = buildSandboxConfig(t)
    /\ claude[t].proxy = IF Restricted(t) THEN t ELSE Nobody
    /\ claude[t].mcp = t /\ claude[t].prompt = t

(* Who waits for the engine gets it, also behind one whose call failed.    *)
EngineIsFreed == \A t \in Spawner : At(t, "waiting") ~> ~At(t, "waiting")

(* Said in spawn-agent.ts of the lock: what is wrapped then runs           *)
(* independently.  Not so: the next reset ends the proxy of the process.   *)
RunsIndependently ==
  \A t \in Spawner : claude[t] # Nobody /\ Restricted(t) => engine.proxy = t

(* Said in seedAgentHome: the project that claude works in is trusted.  Not*)
(* so after the workspace of the spec was changed: the seed is kept.       *)
CwdIsTrusted == \A t \in Spawner : claude[t] # Nobody => claude[t].project = resolveAgentCwd(t)
=============================================================================
