------------------------------- MODULE NoteSpec -------------------------------
(***************************************************************************)
(* What the note of a definition or of a thread says of its agent          *)
(* (parseAgentDef and parseThreadSpec in src/src/agent-defs.ts), and the   *)
(* sandbox that follows from it (module Spawns).  A note is [id, path,     *)
(* body, meta], where meta has what is written in each field, Nobody for a *)
(* field that is absent or blank.  Its wants are as parseWants reads them. *)
(***************************************************************************)
EXTENDS Spawns, Functions

CONSTANTS
  Slugs,         \* names that are slugs
  ModelNames,    \* well-formed names of models
  AbsolutePaths,
  Word,          \* what a field of text may say
  ParsedWants,   \* what its wants may mean
  Malformed

Mount == [hostPath : Word, mountPath : Word, mode : Word]
SpecField ==
  {"workspace", "filesystem", "network", "egress", "mounts", "name", "noteId", "definitionPath", "backend", "mode",
   "model", "wants", "definition", "systemPrompt", "systemPromptMode"}
Text == Word \cup {Nobody}
Note ==
  [id : Text, path : Text, body : Text,
   meta : [name : Text, agent : Text, backend : Text, mode : Text, model : Text, workspace : Text,
           filesystem : Text, network : Text, egress : SUBSET Word, mounts : SUBSET Mount, wants : ParsedWants,
           systemPromptMode : Text, definition : Text, agent_status : Text]]

\* What the code itself writes into a spec.
Literal ==
  {"programmatic", "attached", "single-threaded", "multi-threaded", "workspace", "full", "open", "restricted",
   "append", "replace", "disabled", "enabled"}

\* Nothing in a field, and what is malformed, is no text, and a spec is not malformed.
ASSUME NoteAssumption ==
  /\ {Nobody, Malformed} \cap (Literal \cup Word) = {} /\ Malformed # Nobody
  /\ \A F \in {SpecField \cup {"agentStatus"}, SpecField} :
       Malformed \notin [F -> Text \cup Literal \cup {Malformed} \cup (SUBSET Word) \cup (SUBSET Mount) \cup ParsedWants]

\* A choice has a default for the field that is absent, and no other.
Choice(raw, means, default) ==
  IF raw = Nobody THEN default ELSE IF raw \in DOMAIN means THEN means[raw] ELSE Malformed
Itself(S) == [x \in S |-> x]

parseBackendField(raw) ==
  Choice(raw, [x \in {"programmatic", "attached", "channel"} |-> IF x = "channel" THEN "attached" ELSE x],
         "programmatic")

parseModeField(raw) ==
  Choice(raw,
         [x \in {"single-threaded", "resident", "multi-threaded", "one-shot", "per-thread"} |->
            IF x \in {"single-threaded", "resident"} THEN "single-threaded" ELSE "multi-threaded"],
         "single-threaded")

parseModelField(raw) == Choice(raw, Itself(ModelNames), Nobody)

\* A mount that is not well-formed is left out.
parseMounts(v) ==
  {m \in v : {m.hostPath, m.mountPath} \subseteq AbsolutePaths /\ m.mode \in {"ro", "rw"}}

parseSandboxKnobs(meta) ==
  [workspace |-> Choice(meta.workspace, Itself(AbsolutePaths), Nobody),
   filesystem |-> Choice(meta.filesystem, Itself({"workspace", "full"}), Nobody),
   network |-> Choice(meta.network, Itself({"open", "restricted"}), Nobody),
   egress |-> meta.egress,
   mounts |-> parseMounts(meta.mounts)]

Joined(f, g) == [x \in DOMAIN f \cup DOMAIN g |-> IF x \in DOMAIN f THEN f[x] ELSE g[x]]

\* A note with a malformed field is no agent.
Whole(s) == IF Malformed \in Range(s) THEN Malformed ELSE s
OfEither(n, name) ==
  Joined(parseSandboxKnobs(n.meta),
         [name |-> IF name \in Slugs THEN name ELSE Malformed,
          noteId |-> IF n.id = Nobody THEN Malformed ELSE n.id,
          definitionPath |-> n.path,
          backend |-> parseBackendField(n.meta.backend), mode |-> parseModeField(n.meta.mode),
          model |-> parseModelField(n.meta.model), wants |-> n.meta.wants])

\* The body is the prompt, and only with one is its mode looked at.
parseAgentDef(n) ==
  Whole(Joined(OfEither(n, n.meta.name),
    [definition |-> n.id, systemPrompt |-> n.body,
     systemPromptMode |-> IF n.body = Nobody THEN Nobody
                          ELSE Choice(n.meta.systemPromptMode, Itself({"append", "replace"}), Nobody)]))

\* The body is the thread's summary.
parseThreadSpec(n) ==
  Whole(Joined(OfEither(n, n.meta.agent),
    [definition |-> IF n.meta.definition = Nobody THEN n.id ELSE n.meta.definition,
     systemPrompt |-> Nobody, systemPromptMode |-> Nobody,
     agentStatus |-> IF n.meta.agent_status = "disabled" THEN "disabled" ELSE "enabled"]))

-----------------------------------------------------------------------------
(* With the same fields both kinds of notes give the same agent, or none; a*)
(* definition may besides have a mode of its prompt that is not one.       *)
Settings(s) ==
  [f \in {"workspace", "filesystem", "network", "egress", "mounts", "backend", "mode", "model", "wants"} |-> s[f]]
BothAgree(n) ==
  LET d == parseAgentDef(n)
      t == parseThreadSpec([n EXCEPT !.meta.agent = n.meta.name])
  IN  IF d # Malformed THEN t # Malformed /\ Settings(d) = Settings(t)
      ELSE t = Malformed \/ (n.body # Nobody /\ n.meta.systemPromptMode \notin {Nobody, "append", "replace"})

(* The sandbox is as wide as the note says in so many words, and never     *)
(* because a field was not understood: the home is readable only for       *)
(* "full", hosts are bounded exactly for "restricted", and what is         *)
(* writable beside the private workspace the note gives as such.           *)
SandboxAsSaid(n) ==
  LET s == parseThreadSpec(n)
      view == composeFilesystemView(s, "private")
  IN  s # Malformed =>
        /\ view.denyRead = {} <=> n.meta.filesystem = "full"
        /\ s.network = "restricted" <=> n.meta.network = "restricted"
        /\ view.allowWrite \subseteq
             {"private", n.meta.workspace} \cup {m.hostPath : m \in {m \in n.meta.mounts : m.mode = "rw"}}
        /\ view.allowWrite \ {"private"} \subseteq AbsolutePaths

(* What was read may be written back: it reads the same.                   *)
WrittenBack(n, s) == [n EXCEPT !.meta = Joined([f \in DOMAIN n.meta \cap DOMAIN s |-> s[f]], n.meta)]
ReadsTheSame(n) ==
  LET t == parseThreadSpec(n) IN t # Malformed => parseThreadSpec(WrittenBack(n, t)) = t

NoteRead(n) == BothAgree(n) /\ SandboxAsSaid(n) /\ ReadsTheSame(n)
=============================================================================
