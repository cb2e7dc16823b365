------------------------------- MODULE Grants -------------------------------
(***************************************************************************)
(* The connections an agent may be granted: the hub's grant store, the role*)
(* notes that ask for grants, and the daemon's reconciliation of the two   *)
(* (src/src/grants.ts, AgentDefRegistry.reconcileRole in agent-defs.ts).   *)
(*                                                                         *)
(* A grant is held under a key: the name of an agent, or rolePathKey of a  *)
(* role note's path.  Saving a role note fires a webhook; its task reads   *)
(* the note, registers what the note wants and prunes what it does not.    *)
(* The operator approves and revokes in the hub.                           *)
(***************************************************************************)
EXTENDS Naturals, FiniteSets, TLC

CONSTANTS
  Own,          \* the key of the agent: its name
  Role,         \* notes that a thread may list as its roles
  rolePathKey,  \* the key of a role: a slug of its path
  idKey,        \* what rolePathKey makes of the note's id
  Conn,         \* connections: [kind, target, inject, ...]
  Contents,     \* what a note may contain
  Task,         \* tasks of the webhook that may overlap
  NoRole,
  MaxChanges    \* what the operator and the network may do

Grant == [status : {"none", "pending", "approved", "revoked"}, n : Nat]
Key == {Own} \cup {rolePathKey[r] : r \in Role}
Content == [there : BOOLEAN, tagged : BOOLEAN, sound : BOOLEAN, wants : SUBSET Conn]

ASSUME GrantsAssumption ==
  /\ rolePathKey \in [Role -> STRING] /\ idKey \in [Role -> STRING] /\ Own \in STRING
  /\ \A c \in Conn : c.kind \in {"vault", "service", "surface", "mcp"}
  /\ NoRole \notin Role
  /\ Contents \subseteq Content
  /\ MaxChanges \in Nat

VARIABLES
  hub,    \* per key and connection: [status, n], n the number of its last token
  roleNote,   \* per role: [there, tagged, sound, wants]
  hooks,  \* webhooks on their way, by their note
  task,   \* per task: [at, role, read, todo], read the note as it was read
  left    \* changes and faults still to come

Nothing == [there |-> FALSE, tagged |-> FALSE, sound |-> TRUE, wants |-> {}]
Idle == [at |-> "idle", role |-> NoRole, read |-> Nothing, todo |-> {}]
grantVars == <<hub, roleNote, hooks, task, left>>

\* A parsed and tagged note with wants: only such a note is a grant source.
WantsOf(note) == IF note.tagged /\ note.sound THEN note.wants ELSE {}
roleWants(r) == WantsOf(roleNote[r])
Wears(r) == roleNote[r].there /\ roleWants(r) # {}

Change == left > 0 /\ left' = left - 1

-----------------------------------------------------------------------------
(* The operator.                                                           *)
Token(k, c) == [key |-> k, conn |-> c, n |-> hub[k][c].n]
Approved(k, c) == hub[k][c].status = "approved"
LiveTokens == UNION {{Token(k, c) : c \in {d \in Conn : Approved(k, d)}} : k \in Key}

Approve(k, c) ==
  /\ hub[k][c].status \in {"pending", "revoked"} /\ Change
  /\ hub' = [hub EXCEPT ![k][c] = [status |-> "approved", n |-> @.n + 1]]
  /\ UNCHANGED <<roleNote, hooks, task>>

Revoke(k, c) ==
  /\ Approved(k, c) /\ Change
  /\ hub' = [hub EXCEPT ![k][c].status = "revoked"]
  /\ UNCHANGED <<roleNote, hooks, task>>

\* A save of a tagged note fires its trigger; taking the tag off or deleting
\* the note fires none: the vault has no event for it.
Save(r) ==
  /\ Change
  /\ \E C \in Contents \ {roleNote[r]} :
       /\ roleNote' = [roleNote EXCEPT ![r] = C]
       /\ hooks' = IF C.there /\ C.tagged THEN hooks \cup {r} ELSE hooks
  /\ UNCHANGED <<hub, task>>

-----------------------------------------------------------------------------
(* reconcileRole, one call of the vault or the hub at a step.              *)
Put(k, c) == IF hub[k][c].status = "none" THEN [hub EXCEPT ![k][c].status = "pending"] ELSE hub
Kept(k, W) ==
  IF k \in Key
  THEN [hub EXCEPT ![k] = [c \in Conn |-> IF c \in W THEN @[c] ELSE [@[c] EXCEPT !.status = "none"]]]
  ELSE hub

To(t, r) == task' = [task EXCEPT ![t] = r]

Hooked(t) ==
  /\ task[t].at = "idle"
  /\ \E r \in hooks : hooks' = hooks \ {r} /\ To(t, [Idle EXCEPT !.at = "fetch", !.role = r])
  /\ UNCHANGED <<hub, roleNote, left>>

\* A malformed note read as one that wants nothing.
FetchedAsEmpty(t) ==
  LET r == task[t].role IN
  /\ task[t].at = "fetch"
  /\ IF ~roleNote[r].there THEN To(t, [task[t] EXCEPT !.at = "gone"])
     ELSE To(t, [task[t] EXCEPT !.at = "register", !.read = roleNote[r], !.todo = roleWants(r)])
  /\ UNCHANGED <<hub, roleNote, hooks, left>>

\* Pruning everything, once the note was read, is a reconciliation with nothing.
Fetched(t) ==
  LET r == task[t].role IN
  /\ task[t].at = "fetch"
  /\ CASE ~roleNote[r].there -> To(t, [task[t] EXCEPT !.at = "gone"])
       [] roleNote[r].there /\ roleNote[r].tagged /\ ~roleNote[r].sound -> To(t, [task[t] EXCEPT !.at = "stamp"])
       [] OTHER -> To(t, [task[t] EXCEPT !.at = "register", !.read = roleNote[r], !.todo = roleWants(r)])
  /\ UNCHANGED <<hub, roleNote, hooks, left>>

FetchFails(t) ==
  /\ task[t].at = "fetch" /\ Change /\ To(t, Idle)
  /\ UNCHANGED <<hub, roleNote, hooks>>

\* The stamp is a write of the note, and fires its trigger again.
Stamped(t) ==
  /\ task[t].at = "stamp" /\ To(t, Idle)
  /\ hooks' = IF roleNote[task[t].role].tagged THEN hooks \cup {task[t].role} ELSE hooks
  /\ UNCHANGED <<hub, roleNote, left>>

Register(t) ==
  /\ task[t].at = "register"
  /\ \E c \in task[t].todo :
       /\ To(t, [task[t] EXCEPT !.todo = @ \ {c}])
       /\ \/ hub' = Put(rolePathKey[task[t].role], c) /\ UNCHANGED left
          \/ Change /\ UNCHANGED hub
  /\ UNCHANGED <<roleNote, hooks>>

\* Prunes by the note's path ...
ReconciledByRead(t) ==
  /\ task[t].at = "register" /\ task[t].todo = {}
  /\ To(t, Idle)
  /\ \/ hub' = Kept(rolePathKey[task[t].role], WantsOf(task[t].read)) /\ UNCHANGED left
     \/ Change /\ UNCHANGED hub
  /\ UNCHANGED <<roleNote, hooks>>

\* ... or, for a note that is gone, by its id.
PrunedById(t) ==
  /\ task[t].at = "gone"
  /\ To(t, Idle)
  /\ \/ hub' = Kept(idKey[task[t].role], {}) /\ UNCHANGED left
     \/ Change /\ UNCHANGED hub
  /\ UNCHANGED <<roleNote, hooks>>

Reconcile(t) == Hooked(t) \/ Fetched(t) \/ FetchFails(t) \/ Stamped(t) \/ Register(t)
                  \/ ReconciledByRead(t) \/ PrunedById(t)
Operate == (\E k \in Key, c \in Conn : Approve(k, c) \/ Revoke(k, c)) \/ \E r \in Role : Save(r)
GrantsNext == Operate \/ \E t \in Task : Reconcile(t)
=============================================================================
