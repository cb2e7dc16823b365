------------------------------ MODULE MCLaunch ------------------------------
(***************************************************************************)
(* What leads to a turn's reply around claude, in environments chosen in   *)
(* the initial state: "launch" is the set-up of a turn beside the operator,*)
(* the hub and the roles (Launch); "setup" the pure parts of it, one input *)
(* in each initial state (SetUp); "spawns" the way of three turns into the  *)
(* sandbox (Spawns); "stream" the reading of claude's output (Stream).  The*)
(* other modules stay in an initial state.                                 *)
(***************************************************************************)
EXTENDS Launch, SetUp, Spawns, Stream
LOCAL INSTANCE SequencesExt

VARIABLE env

\* Two grants for one vault; two surfaces, the path of one beginning as the
\* other's; a service that comes as a variable and as an MCP server.
Vault(access) == [kind |-> "vault", target |-> "w", inject |-> {}, access |-> access]
Surface(s) == [kind |-> "surface", target |-> s, inject |-> {}]
GitHub == [kind |-> "service", target |-> "github", inject |-> {"env", "mcp"}]
Connections == {Vault("read"), Vault("write"), Surface("s"), Surface("s2"), GitHub}
PathPrefixes == [s \in {"s", "s2"} |-> IF s = "s" THEN {"s"} ELSE {"s", "s2"}]
EnvVar ==
  [s \in {"github", "other", "auth"} |->
     CASE s = "github" -> "GITHUB_TOKEN" [] s = "other" -> "OTHER_TOKEN" [] s = "auth" -> "CLAUDE_CODE_OAUTH_TOKEN"]

\* Two roles, which may be tagged or not, malformed or gone.
ThreadRoles == <<"r1", "r2">>
PathKeys == [r \in {"r1", "r2"} |-> IF r = "r1" THEN "role--r1" ELSE "role--r2"]
IdKeys == [r \in {"r1", "r2"} |-> "role--id"]
Hat ==
  [there |-> TRUE, tagged |-> TRUE, sound |-> TRUE, wants |-> {Surface("s2"), GitHub, Vault("write")}]
RoleContents == {Hat, [Hat EXCEPT !.tagged = FALSE], [Hat EXCEPT !.sound = FALSE], Nothing}
Granted(A, P) ==
  [c \in Connections |->
     [status |-> IF c \in A THEN "approved" ELSE IF c \in P THEN "pending" ELSE "none", n |-> 0]]
FirstHubs ==
  {[k \in {"a", "role--r1", "role--r2"} |->
      CASE k = "a" -> Granted({Vault("read"), Surface("s")}, {})
        [] k = "role--r1" -> Granted({Surface("s2"), Vault("write")}, {GitHub})
        [] k = "role--r2" -> Granted({GitHub}, {})]}

\* Entries of wants, among them a service of which nothing is granted, a name
\* in capitals and malformed ones.
WantOf(prefix, name, verb) == [prefix |-> prefix, name |-> name, verb |-> verb]
Entries ==
  {WantOf("vault", "w", "read"), WantOf("vault", "w", "write"), WantOf("vault", "w", "admin"),
   WantOf("surface", "S", "read"), WantOf("surface", "s", "read"), WantOf("env", "github", ""),
   WantOf("mcp", "github", ""), WantOf("mcp", "other", ""), WantOf("env", "auth", ""),
   WantOf("mcp", "https:", ""), WantOf("vault", "no slug", "read")}
SlugNames == {"w", "s", "S", "github", "other", "auth"}
LowerCase == [n \in {"s", "S"} |-> "s"]

\* Prompts whose roles, definition, thread and loadout may share paths.
NoteBytes == [p \in {"p", "l", "k", "m", "gone"} |->
  CASE p = "gone" -> Unset [] p = "k" -> 0 [] p = "m" -> 3 [] p \in {"p", "l"} -> 1]
NoteOf(path, bytes) == [path |-> path, bytes |-> bytes]
Prompts ==
  [roles : SeqOf({NoteOf("p", 2), NoteOf("q", 0), NoteOf("q", 1)}, 2),
   self : {<<>>, <<NoteOf("self", 2)>>, <<NoteOf("p", 1)>>, <<NoteOf("self", 0)>>},
   thread : {<<>>, <<NoteOf("thread", 1)>>},
   loadout : SeqOf(DOMAIN NoteBytes \cup {""}, 3)]

\* Files whose names collide, also with a numbered one.
Basenames == [n \in {"a/x", "b/x", "x-2"} |-> IF n = "x-2" THEN <<0, 2>> ELSE <<0>>]
Attachments ==
  {[i \in DOMAIN names |-> [name |-> names[i], content |-> i, fetched |-> i \notin lost]] :
     names \in SeqOf({"a/x", "b/x", "x-2", Unset}, 4), lost \in SUBSET {2}}

\* The two layers of variables, also as an edit by hand may leave them, and a
\* service that is granted as a variable, as a server, or as both.
Stores ==
  {[l \in Layer |-> [v \in Var |-> IF <<l, v>> \in X THEN l ELSE Unset]] : X \in SUBSET (Layer \X Var)}
Service(inject) == [GitHub EXCEPT !.inject = inject]
Environments ==
  [store : Stores,
   connections : UNION {[{Service(m), Vault("read")} -> {"approved", "pending"}] :
                          m \in {{"env"}, {"mcp"}, {"env", "mcp"}}}]

NoteMount(path, mode) == [hostPath |-> path, mountPath |-> "/in", mode |-> mode]

\* Notes of which at most two fields are written, well or not.
WrittenIn ==
  [f \in {"name", "agent", "backend", "mode", "model", "workspace", "filesystem", "network", "egress", "mounts",
          "wants", "systemPromptMode", "definition", "agent_status"} |->
     CASE f \in {"name", "agent"} -> {"s", "no slug"}
       [] f = "backend" -> {"programmatic", "attached", "channel", "interactive"}
       [] f = "mode" -> {"resident", "single-threaded", "per-thread", "thread"}
       [] f = "model" -> {"opus", "o p"}
       [] f = "workspace" -> {"/shared", "shared"}
       [] f = "filesystem" -> {"full", "workspace", "Full"}
       [] f = "network" -> {"open", "restricted", "closed"}
       [] f = "egress" -> {{"pypi"}}
       [] f = "mounts" -> {{NoteMount("/out", m)} : m \in {"ro", "rw", "w"}} \cup {{NoteMount("out", "rw"), NoteMount("/out", "ro")}}
       [] f = "wants" -> {Malformed, {"w"}}
       [] f = "systemPromptMode" -> {"append", "prepend"}
       [] f = "definition" -> {"d"}
       [] f = "agent_status" -> {"disabled", "off"}]
Blank ==
  [f \in DOMAIN WrittenIn |->
     CASE f \in {"name", "agent"} -> "s" [] f \in {"egress", "mounts", "wants"} -> {} [] OTHER -> Nobody]
Metadata ==
  UNION {{[Blank EXCEPT ![f] = x, ![g] = y] : x \in WrittenIn[f], y \in WrittenIn[g]} : f, g \in DOMAIN WrittenIn}
Notes == [id : {"n"}, path : {Nobody, "Agents/n"}, body : {Nobody, "role"}, meta : Metadata]

TurnInputs ==
  [kind : {"wants"}, of : SeqOf(Entries, 3)] \cup [kind : {"prompt"}, of : Prompts]
    \cup [kind : {"files"}, of : Attachments] \cup [kind : {"env"}, of : Environments]
    \cup [kind : {"note"}, of : Notes]
Words ==
  {"n", "Agents/n", "role", "s", "no slug", "programmatic", "attached", "channel", "interactive", "resident",
   "single-threaded", "per-thread", "thread", "opus", "o p", "/shared", "shared", "full", "workspace", "Full",
   "open", "restricted", "closed", "pypi", "/out", "out", "/in", "ro", "rw", "w", "append", "prepend", "d",
   "disabled", "off"}
SomeWants == {Malformed, {}, {"w"}}

\* An agent, the same again after its spec was opened and moved to a shared
\* directory, and an agent beside it.
Spec(network, workspace) ==
  [filesystem |-> "workspace", network |-> network, egress |-> {"pypi"}, workspace |-> workspace,
   mounts |-> {[hostPath |-> "data", mode |-> "ro"], [hostPath |-> "out", mode |-> "rw"]}]
ThreeTurns == {"a", "a again", "b"}
Specs ==
  [t \in ThreeTurns |->
     IF t = "a again" THEN Spec("open", "shared") ELSE Spec("restricted", Nobody)]
Workspace == [t \in ThreeTurns |-> IF t = "a again" THEN "a" ELSE t]

\* Outputs of three lines.
Says(type, sid, block, ok) ==
  [type |-> type, session |-> sid, block |-> block, ok |-> ok, text |-> type]
Tool(kind, id, name) == [kind |-> kind, id |-> id, name |-> name]
NoBlock == Tool("none", "", "")
Silence == Says("other", Absent, NoBlock, FALSE)
Sayings ==
  {Says("system", "s1", NoBlock, FALSE), Says("assistant", "s2", Tool("text", "", "hi"), FALSE),
   Says("assistant", Absent, Tool("tool_use", "1", "Read"), FALSE),
   Says("user", Absent, Tool("tool_result", "1", ""), FALSE),
   Says("result", "s1", NoBlock, TRUE), Says("result", Absent, NoBlock, FALSE)}
Events == Sayings \cup {Silence}
Halves(e) == <<[event |-> e, half |-> 1], [event |-> e, half |-> 2]>>
Noise == <<[event |-> Silence, half |-> 2]>>
Outputs ==
  {l \o <<NL>> \o m \o <<NL>> \o n \o <<NL>> :
     l, m, n \in {Halves(e) : e \in Sayings} \cup {Noise}}

\* The modules beside the one in question.
NoInput == input = [kind |-> "none", of |-> Unset]
NoLaunch ==
  /\ creds = [l \in Layer |-> Unset] /\ roleNote = [r \in Role |-> Hat]
  /\ LaunchInit
NoStream == output = <<NL>> /\ Unread

In(e) == env = e /\ UNCHANGED env
MCInit ==
  \/ env = "launch" /\ LaunchInit /\ roleNote["r2"] = Hat /\ NoInput /\ SpawnsInit /\ NoStream
  \/ env = "setup" /\ NoLaunch /\ SetUpInit /\ SpawnsInit /\ NoStream
  \/ env = "spawns" /\ NoLaunch /\ NoInput /\ SpawnsInit /\ NoStream
  \/ env = "stream" /\ NoLaunch /\ NoInput /\ SpawnsInit /\ StreamInit
MCNext ==
  \/ In("launch") /\ LaunchNext /\ UNCHANGED <<input, spawnVars, streamVars>>
  \/ In("spawns") /\ SpawnsNext /\ UNCHANGED <<launchVars, input, streamVars>>
  \/ In("stream") /\ StreamNext /\ UNCHANGED <<launchVars, input, spawnVars>>
MCSpec ==
  /\ MCInit
  /\ [][MCNext]_<<launchVars, input, spawnVars, streamVars, env>>
  /\ \A t \in Spawner : WF_spawnVars(env = "spawns" /\ EngineStep(t))
=============================================================================
