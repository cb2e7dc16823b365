-------------------------------- MODULE SetUp --------------------------------
(***************************************************************************)
(* The pure parts of a turn's set-up: what the wants of a note mean        *)
(* (grants.ts), what of the roles, the definition, the thread and its      *)
(* loadout is in the system prompt (backends/types.ts, programmatic.ts),   *)
(* where the attached files are staged (programmatic.ts), and what the     *)
(* operator is told of the environment (effective-env.ts), all under       *)
(* src/src.  The variable input is what one of them is given.              *)
(***************************************************************************)
EXTENDS Launch, NoteSpec

CONSTANTS
  Inputs,    \* what the parts are given
  lower,     \* the lower case of a surface's name
  noteBytes, \* path -> the bytes of its note, or Unset where none can be read
  Separator, \* bytes between two entries of a prompt
  LOADOUT_BUDGET_BYTES,
  safeAttachmentBasename, \* file name -> its safe basename, a sequence
  ATTACHMENT_MAX_COUNT

\* An input is [kind, of].
Want == [prefix : STRING, name : STRING, verb : STRING]
NoteEntry == [path : STRING, bytes : Nat]
PromptParts ==
  [roles : Seq(NoteEntry), self : Seq(NoteEntry), thread : Seq(NoteEntry),
   loadout : Seq(DOMAIN noteBytes \cup {""})]
File == [name : DOMAIN safeAttachmentBasename \cup {Unset}, content : Nat, fetched : BOOLEAN]

ASSUME SetUpAssumption ==
  /\ {LOADOUT_BUDGET_BYTES, Separator, ATTACHMENT_MAX_COUNT} \subseteq Nat
  /\ DOMAIN noteBytes \subseteq STRING /\ \A p \in DOMAIN noteBytes : noteBytes[p] \in Nat \cup {Unset}
  /\ safeAttachmentBasename \in [DOMAIN safeAttachmentBasename -> Seq(Nat)]
  /\ Unset # "grant"
ASSUME InputsAssumption ==
  \A i \in Inputs :
    \/ i.kind = "wants" /\ i.of \in Seq(Want)
    \/ i.kind = "prompt" /\ i.of \in PromptParts
    \/ i.kind = "files" /\ i.of \in Seq(File)
    \/ i.kind = "env" /\ \A c \in DOMAIN i.of.connections : c.kind \in {"vault", "service", "surface", "mcp"}
    \/ i.kind = "note" /\ i.of \in Note
    \/ i.kind = "none"

\* The parts are pure: what one is given does not change.
VARIABLE input
SetUpInit == input \in Inputs
SetUpSpec == SetUpInit /\ [][FALSE]_input

\* The elements of s at the places of I, in their order.
Only(s, I) ==
  LET f[i \in 0 .. Len(s)] == IF i = 0 THEN <<>> ELSE IF i \in I THEN Append(f[i - 1], s[i]) ELSE f[i - 1]
  IN  f[Len(s)]

-----------------------------------------------------------------------------
(* Wants.  An entry is its prefix, the name after it and the verb.         *)
Connection(kind, target, inject, access) ==
  [kind |-> kind, target |-> target, inject |-> inject, access |-> access]

parseOneWant(e) ==
  CASE e.prefix = "vault" /\ e.name \in Slugs /\ e.verb \in {"read", "write"} ->
         Connection("vault", e.name, {}, e.verb)
    [] e.prefix = "surface" /\ e.name \in Slugs /\ e.verb \in {"read", "write"} ->
         Connection("surface", lower[e.name], {}, e.verb)
    [] e.prefix \in {"env", "mcp"} /\ e.name \in Slugs /\ serviceEnvVar[e.name] \notin DENYLISTED_ENV ->
         Connection("service", e.name, {e.prefix}, "")
    [] e.prefix = "mcp" /\ e.name = "https:" -> Connection("mcp", e.name, {}, "")
    [] OTHER -> Malformed

SameService(c, d) == c.kind = "service" /\ d.kind = "service" /\ c.target = d.target
Merged(out, c) ==
  IF \E i \in DOMAIN out : SameService(out[i], c)
  THEN [i \in DOMAIN out |->
          IF SameService(out[i], c) THEN [out[i] EXCEPT !.inject = @ \cup c.inject] ELSE out[i]]
  ELSE Append(out, c)

AllMerged(E) ==
  LET out[i \in 0 .. Len(E)] == IF i = 0 THEN <<>> ELSE Merged(out[i - 1], parseOneWant(E[i])) IN out

parseWants(E) ==
  IF \E i \in DOMAIN E : parseOneWant(E[i]) = Malformed THEN Malformed ELSE AllMerged(E)[Len(E)]

\* Rejected as a whole, or: each entry is in one connection, of its kind and
\* target, which has the modes that were asked for and no other, in the order
\* of their mention.
WantsRead(E) ==
  LET W == parseWants(E)
      of(c) == {i \in DOMAIN E : parseOneWant(E[i]) = c \/ SameService(parseOneWant(E[i]), c)}
  IN  IF \E i \in DOMAIN E : parseOneWant(E[i]) = Malformed THEN W = Malformed
      ELSE /\ \A i \in DOMAIN E : \E c \in Range(W) : i \in of(c)
           /\ \A c \in Range(W) : c.inject = UNION {parseOneWant(E[i]).inject : i \in of(c)}
           /\ \A i, j \in DOMAIN W : i < j =>
                /\ ~SameService(W[i], W[j])
                /\ \E a \in of(W[i]), b \in of(W[j]) : a < b

-----------------------------------------------------------------------------
(* The system prompt.  An entry is a path and the bytes of its content, 0  *)
(* if it is blank; given is [roles, self, thread, loadout], where self and *)
(* thread have at most one entry and loadout is what the thread lists, some*)
(* of it blank or without a note.                                          *)
Entry(p) == [path |-> p, bytes |-> noteBytes[p]]
parseLoadoutPaths(v) == Only(v, {i \in DOMAIN v : v[i] # ""})
readThreadLoadout(v) ==
  LET paths == parseLoadoutPaths(v)
      found == Only(paths, {i \in DOMAIN paths : noteBytes[paths[i]] # Unset})
  IN  [i \in DOMAIN found |-> Entry(found[i])]

Written(es) == Only(es, {i \in DOMAIN es : es[i].bytes > 0})
Bytes(es) ==
  LET sum[i \in 0 .. Len(es)] == IF i = 0 THEN 0 ELSE sum[i - 1] + es[i].bytes
  IN  IF es = <<>> THEN 0 ELSE sum[Len(es)] + Separator * (Len(es) - 1)
FirstOfPath(es) == Only(es, {i \in DOMAIN es : \A j \in 1 .. i - 1 : es[j].path # es[i].path})

readThreadContent(g) == Written(g.thread)
roleEntries(g) == FirstOfPath(Written(g.roles))
ProtectedEntries(g) == roleEntries(g) \o Written(g.self) \o readThreadContent(g)

composeSystemPrompt(es, protectedCount) ==
  LET kept == Written(FirstOfPath(es))
      protect == IF protectedCount < Len(kept) THEN protectedCount ELSE Len(kept)
      fits == {n \in protect..Len(kept) : n = protect \/ Bytes(SubSeq(kept, 1, n)) <= LOADOUT_BUDGET_BYTES}
  IN  IF Bytes(kept) <= LOADOUT_BUDGET_BYTES THEN kept
      ELSE SubSeq(kept, 1, CHOOSE n \in fits : \A m \in fits : m <= n)

Prompt(g) ==
  composeSystemPrompt(ProtectedEntries(g) \o readThreadLoadout(g.loadout), Len(ProtectedEntries(g)))

Begins(p, s) == Len(p) <= Len(s) /\ p = SubSeq(s, 1, Len(p))

\* Each path once, and of the loadout only what has a note.  Nothing protected is left out; of the loadout an entry is
\* left out only for the budget, and then so is all that follows; the budget
\* is kept, unless what is protected breaks it.  That the paths of role,
\* definition and thread differ is needed: a duplicate among them counts as
\* protected, and protects an entry of the loadout in its place.
PromptKeeps(g) ==
  LET P == Prompt(g)
      protected == ProtectedEntries(g)
      extra == Written(FirstOfPath(protected \o readThreadLoadout(g.loadout)))
      distinct == FirstOfPath(protected) = protected
  IN  /\ \A e \in Range(P) \ Range(protected) : e = Entry(e.path)
      /\ Begins(P, extra) /\ Begins(FirstOfPath(protected), P)
      /\ P # extra => Bytes(SubSeq(extra, 1, Len(P) + 1)) > LOADOUT_BUDGET_BYTES
      /\ distinct => Bytes(P) <= LOADOUT_BUDGET_BYTES \/ P = protected

-----------------------------------------------------------------------------
(* Attached files.  One is its name (Unset if its path is empty), its      *)
(* content and whether its fetch succeeds within the limit of its size.  A *)
(* basename is a sequence, to which a number may be appended.              *)
\* A colliding name overwrites the file before it.
PlainName(base, used) == base

Numbered(base, used) ==
  IF base \notin used THEN base
  ELSE LET free == {n \in 2..Cardinality(used) + 2 : Append(base, n) \notin used}
       IN  Append(base, CHOOSE n \in free : \A m \in free : n <= m)

Stage(s, att) ==
  LET name == Numbered(safeAttachmentBasename[att.name], {f.name : f \in Range(s.staged)}) IN
  IF att.name = Unset \/ ~att.fetched THEN s
  ELSE [staged |-> Append(s.staged, [name |-> name, content |-> att.content]),
        disk |-> [n \in DOMAIN s.disk \cup {name} |-> IF n = name THEN att.content ELSE s.disk[n]]]

Capped(atts) == SubSeq(atts, 1, IF Len(atts) < ATTACHMENT_MAX_COUNT THEN Len(atts) ELSE ATTACHMENT_MAX_COUNT)
AllStaged(atts, earlier) ==
  LET s[i \in 0 .. Len(atts)] == IF i = 0 THEN [staged |-> <<>>, disk |-> earlier] ELSE Stage(s[i - 1], atts[i])
  IN  s
stageAttachments(atts, earlier) == AllStaged(Capped(atts), earlier)[Len(Capped(atts))]

\* The files the message names are those that came, in their order, and each
\* has its own content, whatever an earlier turn has left behind.
FilesAreTheirOwn(atts) ==
  LET left0 == [n \in Range(safeAttachmentBasename) |-> 0]
      s == stageAttachments(atts, left0)
      capped == Capped(atts)
      came == Only(capped, {i \in DOMAIN capped : capped[i].name # Unset /\ capped[i].fetched})
  IN  /\ Len(s.staged) = Len(came)
      /\ \A i \in DOMAIN came : s.staged[i].content = came[i].content
      /\ \A f \in Range(s.staged) : s.disk[f.name] = f.content

-----------------------------------------------------------------------------
(* The environment as the operator is told of it: names, and the layer that*)
(* each comes from.  Given is [store, connections], the variables of the   *)
(* two layers and the agent's connections with their status.               *)
rank(source) == CASE source = "channel" -> 3 [] source = "default" -> 2 [] source = "grant" -> 1

describeChannelEnv(s) ==
  UNION {{[name |-> v, source |-> l] : v \in {v \in Var : s[l][v] # Unset}} : l \in Layer}

ApprovedIn(connections) == {c \in DOMAIN connections : connections[c] = "approved"}
approvedGrantEnvNames(connections) ==
  {[name |-> serviceEnvVar[c.target], source |-> "grant"] :
     c \in {c \in ApprovedIn(connections) : c.kind = "service"}}

\* Those that are not overridden.
composeEffectiveEnv(g) ==
  LET entries == describeChannelEnv(g.store) \cup approvedGrantEnvNames(g.connections)
  IN  {e \in entries : \A f \in entries : f.name = e.name => rank(f.source) <= rank(e.source)}

\* A variable is told exactly if claude gets it, with the layer whose value it
\* gets.  The view knows neither what the daemon and the credential set nor
\* that a service may be granted as an MCP server alone.
AsServerOnly(connections) ==
  {serviceEnvVar[c.target] : c \in {c \in ApprovedIn(connections) : c.kind = "service" /\ "env" \notin c.inject}}
EnvShown(g) ==
  LET slots == UNION {Slots(Own, c) : c \in ApprovedIn(g.connections)}
      Gets(v) == ChildEnv("auth", ChannelOverDefault(g.store), [x \in slots |-> "grant"], v)
      Told(v) == {e.source : e \in {e \in composeEffectiveEnv(g) : e.name = v}}
      Given(l, v) == IF l = "grant" THEN "grant" ELSE g.store[l][v]
  IN  \A v \in Var \ (PASSTHROUGH \cup DENYLISTED_ENV \cup AsServerOnly(g.connections)) :
        IF Gets(v) = Unset THEN Told(v) = {} ELSE \E l \in Told(v) : Told(v) = {l} /\ Given(l, v) = Gets(v)

(* A turn is set up as its notes ask: a malformed want rejects all of them,*)
(* a service's modes are joined; the budget of the prompt sheds only the   *)
(* tail of the loadout; no attached file takes the place of another; the   *)
(* operator is told of the environment that claude gets.                   *)
SetUpExact ==
  CASE input.kind = "wants" -> WantsRead(input.of)
    [] input.kind = "prompt" -> PromptKeeps(input.of)
    [] input.kind = "files" -> FilesAreTheirOwn(input.of)
    [] input.kind = "env" -> EnvShown(input.of)
    [] input.kind = "note" -> NoteRead(input.of)
    [] input.kind = "none" -> TRUE
=============================================================================
