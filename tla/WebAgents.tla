------------------------------ MODULE WebAgents ------------------------------
(***************************************************************************)
(* The agents that the web page starts (POST and DELETE of /api/agents in  *)
(* src/daemon.ts, src/agents.ts), whose specs lie in the sessions          *)
(* directory (src/spawn-agent.ts) and are registered again by a boot       *)
(* (reregisterProgrammaticAgents of src/daemon.ts).                        *)
(*                                                                         *)
(* Registering awaits nothing but what is ready, and a call is one step.   *)
(* A boot registers one spec after the other, in the order of a directory, *)
(* before it answers a request.                                            *)
(*                                                                         *)
(* KeptAsWas is a faulty variant of the definition that follows it.        *)
(***************************************************************************)
EXTENDS Naturals, Sequences

CONSTANTS
  Agent,           \* agent names that are slugs
  Threadlike,      \* those of them that contain "--"
  Line,            \* channels
  Bodies,          \* bodies of requests
  NoSpec, NoField, Rejected,
  MaxSpawns, MaxSpawnRestarts  \* bounds on calls and restarts

VARIABLES
  specs,           \* spec.json of each name
  byChannel,       \* what serves each channel: a spec
  nameToChannel,   \* the channel of each registered name
  lines,           \* the channels that are configured
  boot,            \* the directory entries that a boot has yet to read
  owed,            \* the agent each channel was last given, by a call that succeeded
  killed,          \* names that were deleted, displaced or passed over by a boot, and not started again
  contested,       \* channels for which a boot registered the spec that such a name left behind
  turns            \* calls and restarts that are still allowed

webAgentsVars == <<specs, byChannel, nameToChannel, lines, boot, owed, killed, turns,
                   contested>>

-----------------------------------------------------------------------------
(* A request's body.  A field is absent (NoField), well formed, blank or    *)
(* malformed; a list holds such values.                                     *)

Malformed(x) == x = "bad"
Unset(x) == x \in {NoField, "blank"}

\* parseChannelEntry: a plain name, which has no access, or a name with one;
\* normalizeChannel gives the default.
parseChannelEntry(raw) == [raw EXCEPT !.access = IF @ = NoField THEN "write" ELSE @]

\* buildSpecFromBody: the first error rejects the body, a blank text is as
\* none, and a mode without a prompt is dropped.
buildSpecFromBody(b) ==
  IF \/ Malformed(b.name) \/ b.channels = <<>>
     \/ \E i \in DOMAIN b.channels : Malformed(b.channels[i].name) \/ Malformed(b.channels[i].access)
     \/ \E f \in {"vault", "filesystem", "network", "egress", "mounts", "workspace", "backend",
                  "systemPrompt", "mode"} : Malformed(b[f])
     \/ b.backend \notin {NoField, "programmatic"}
  THEN Rejected
  ELSE [name |-> b.name, channels |-> [i \in DOMAIN b.channels |-> parseChannelEntry(b.channels[i])], backend |-> "programmatic",
        full |-> b.filesystem = "full",
        workspace |-> IF Unset(b.workspace) THEN NoField ELSE b.workspace,
        prompt |-> IF Unset(b.systemPrompt) THEN NoField ELSE b.systemPrompt,
        mode |-> IF Unset(b.systemPrompt) THEN NoField
                 ELSE IF b.mode = "replace" THEN "replace" ELSE "append"]

NoBody == [name |-> NoField, channels |-> <<>>, vault |-> NoField, filesystem |-> NoField,
          network |-> NoField, egress |-> NoField, mounts |-> NoField, workspace |-> NoField,
          backend |-> NoField, systemPrompt |-> NoField, mode |-> NoField]
WakeOf(s) == s.channels[1].name

\* The specs that a request can ask for.
Accepted == {buildSpecFromBody(b) : b \in Bodies} \ {Rejected}

ASSUME WebAgentsAssumption ==
  /\ \A s \in Accepted : s.name \in Agent /\ WakeOf(s) \in Line
  /\ NoSpec \notin Accepted /\ NoField \notin Line

-----------------------------------------------------------------------------
(* The registry's indexes and the sessions directory.                       *)

WebAgentsInit ==
  /\ specs = [n \in Agent |-> NoSpec]
  /\ byChannel = [ch \in Line |-> NoSpec]
  /\ nameToChannel = [n \in Agent |-> NoField]
  /\ lines \in SUBSET Line
  /\ boot = {}
  /\ owed = [ch \in Line |-> NoSpec]
  /\ killed = {}
  /\ turns = [spawns |-> MaxSpawns, restarts |-> MaxSpawnRestarts]
  /\ contested = {}

Without(ch) == IF ch = NoField THEN byChannel ELSE [byChannel EXCEPT ![ch] = NoSpec]

\* register: a name that moves takes its old channel's entry with it.
Register(s) ==
  /\ byChannel' = [Without(nameToChannel[s.name]) EXCEPT ![WakeOf(s)] = s]
  /\ nameToChannel' = [nameToChannel EXCEPT ![s.name] = WakeOf(s)]

\* persistSpec: what lies there is overwritten.
KeptAsWas(s) == IF specs[s.name] = NoSpec THEN [specs EXCEPT ![s.name] = s] ELSE specs
Persisted(s) == [specs EXCEPT ![s.name] = s]

\* What a name that leaves its channel no longer is owed.
Unowed(n) == [ch \in Line |-> IF owed[ch] # NoSpec /\ owed[ch].name = n THEN NoSpec ELSE owed[ch]]

\* Another agent serves the spec's channel.
Occupied(s) == byChannel[WakeOf(s)] # NoSpec /\ byChannel[WakeOf(s)].name # s.name

\* Who was owed the channel: a boot may have given it to s.name again.
Displaced(s) == IF owed[WakeOf(s)] = NoSpec THEN {} ELSE {owed[WakeOf(s)].name}

\* POST /api/agents.  A rejected body, a full file system without a step-up,
\* an occupied channel and a missing credential change nothing; otherwise
\* setupProgrammaticSpawn persists the spec and the registry takes it.
SpawnAgent(b, steppedUp) ==
  LET s == buildSpecFromBody(b) IN
  /\ boot = {} /\ turns.spawns > 0 /\ s # Rejected
  /\ s.full => steppedUp
  /\ ~Occupied(s)
  /\ specs' = Persisted(s)
  /\ Register(s)
  /\ owed' = [Unowed(s.name) EXCEPT ![WakeOf(s)] = s]
  /\ killed' = (killed \cup Displaced(s)) \ {s.name}
  /\ turns' = [turns EXCEPT !.spawns = @ - 1]
  /\ UNCHANGED <<lines, boot, contested>>

\* DELETE /api/agents/:name: the channel's entry goes, whoever holds it, and
\* the spec stays on disk.
DeleteAgent(n) ==
  /\ boot = {} /\ nameToChannel[n] # NoField
  /\ byChannel' = Without(nameToChannel[n])
  /\ nameToChannel' = [nameToChannel EXCEPT ![n] = NoField]
  /\ owed' = Unowed(n)
  /\ killed' = killed \cup {n}
  /\ UNCHANGED <<specs, lines, boot, turns, contested>>

\* The operator configures a channel, or takes one away.
Configure(ch) ==
  /\ lines' = IF ch \in lines THEN lines \ {ch} ELSE lines \cup {ch}
  /\ boot = {}
  /\ UNCHANGED <<specs, byChannel, nameToChannel, boot, owed, killed, turns, contested>>

-----------------------------------------------------------------------------
(* A restart, and reregisterProgrammaticAgents.                             *)

RestartDaemon ==
  /\ turns.restarts > 0 /\ boot = {}
  /\ turns' = [turns EXCEPT !.restarts = @ - 1]
  /\ byChannel' = [ch \in Line |-> NoSpec]
  /\ nameToChannel' = [n \in Agent |-> NoField]
  /\ boot' = {n \in Agent : specs[n] # NoSpec}
  /\ contested' = {}
  /\ UNCHANGED <<specs, lines, owed, killed>>

\* A directory with "--" in its name is a thread's workspace; a spec whose
\* channel is not configured is an orphan.
Skipped(n) == n \in Threadlike \/ WakeOf(specs[n]) \notin lines

Reregister(n) ==
  LET s == specs[n] IN
  /\ n \in boot /\ boot' = boot \ {n}
  /\ IF Skipped(n)
     THEN /\ owed' = Unowed(n) /\ killed' = killed \cup {n}
          /\ UNCHANGED <<byChannel, nameToChannel, contested>>
     ELSE /\ Register(s)
          /\ contested' = IF n \in killed THEN contested \cup {WakeOf(s)} ELSE contested
          /\ UNCHANGED <<owed, killed>>
  /\ UNCHANGED <<specs, lines, turns>>

WebAgentsNext ==
  \/ \E b \in Bodies, steppedUp \in BOOLEAN : SpawnAgent(b, steppedUp)
  \/ \E n \in Agent : DeleteAgent(n) \/ Reregister(n)
  \/ \E ch \in Line : Configure(ch)
  \/ RestartDaemon

WebAgentsSpec == WebAgentsInit /\ [][WebAgentsNext]_webAgentsVars

-----------------------------------------------------------------------------
(* Properties.                                                              *)

\* Once a boot is through, a channel is served by the agent that was last
\* started on it and not deleted, with the spec it was started with.  What a
\* deleted agent, or one that an earlier boot passed over, left on disk may
\* take the channel instead: such a channel is contested.
OwnersServe ==
  boot = {} => \A ch \in Line \ contested :
    /\ owed[ch] # NoSpec => byChannel[ch] = owed[ch]
    /\ byChannel[ch] # NoSpec => byChannel[ch] = owed[ch]
=============================================================================
