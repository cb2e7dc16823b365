------------------------------ MODULE AgentDefs ------------------------------
(***************************************************************************)
(* The registry of agents that are defined by notes of one vault           *)
(* (AgentDefRegistry of src/agent-defs.ts, with the effects that           *)
(* buildInstantiateDeps of src/daemon.ts gives it): the poll that lists    *)
(* the definition and the thread notes, the webhook that reloads one note, *)
(* and the create, edit and delete calls of the API.                       *)
(*                                                                         *)
(* A task is one activation of such a function; every call to the vault or *)
(* to the hub is an await, and a step of its own.  What a call read may be *)
(* out of date when the task goes on.  Bringing a channel up, registering  *)
(* an agent and tearing it down await nothing but what is ready, and are   *)
(* part of the step that does them.                                        *)
(*                                                                         *)
(* Definitions that no other one uses stand before the definition that they*)
(* are a faulty variant of; the properties below tell the two apart.       *)
(***************************************************************************)
EXTENDS Naturals, FiniteSets

CONSTANTS
  Def, Thread,     \* ids of definition notes and of thread notes; the vault never reuses one
  Name, NoName,    \* agent names, which are their channels too; "" of the code
  Conn,            \* connections a note may want, each a grant at the hub
  Contents,        \* what each note may hold: its parsed fields, and so its fingerprint
  Request, Poller, \* the tasks: webhooks and API calls, and the poll
  DEF_LIST_LIMIT,  \* page cap of a list
  Discovery,       \* PARACHUTE_AGENT_DISCOVERY: "both", "def" or "thread"
  Hub,             \* is a grants client wired?
  Overlap,         \* may tasks overlap?
  MaxWrites, MaxFaults, MaxRestarts,  \* bounds on writes, failing calls and restarts
  None, Unborn, Gone

Note == Def \cup Thread
Task == Request \cup {Poller}
Backend == {"programmatic", "attached"}
Content == [name : Name, backend : Backend, wants : SUBSET Conn, sound : BOOLEAN, on : BOOLEAN]
LiveAgent == [name : Name, source : {"def", "thread"}, pending : SUBSET Conn]

ASSUME NoteAssumption == IsFiniteSet(Def) /\ Def \cap Thread = {} /\ Poller \notin Request
ASSUME ContentAssumption == Contents \in [Note -> SUBSET Content]
ASSUME ValueAssumption ==
  /\ NoName \notin Name
  /\ None \notin Content \cup LiveAgent \cup Note \cup Name \cup {NoName}
  /\ {Unborn, Gone} \cap Content = {} /\ Unborn # Gone
ASSUME SettingAssumption ==
  /\ Discovery \in {"both", "def", "thread"} /\ {Hub, Overlap} \subseteq BOOLEAN
  /\ {DEF_LIST_LIMIT, MaxWrites, MaxFaults, MaxRestarts} \subseteq Nat

VARIABLES
  vault,    \* the notes of the vault
  stamp,    \* the status and pending fields that are written to a note
  events,   \* notes for which a trigger has fired and its webhook has not been taken
  hub,      \* the grants of each name at the hub
  live,     \* live: the record of the agent that each note brought up
  memo,     \* instantiatedFingerprints
  seen,     \* seenDefs: the name by which each definition is known
  reg,      \* what each backend serves under each name: a note and its content
  chans,    \* channels with a live transport
  expected, \* channels marked as expecting an agent
  task,     \* what each task is doing
  left      \* writes, faults and restarts that are still allowed

memory == <<live, memo, seen>>
wiring == <<reg, chans, expected>>
world == <<vault, stamp, events, hub>>
vars == <<world, memory, wiring, task, left>>

\* A status is an error, or resolved with the connections still pending.
Blank == [is |-> "none", pending |-> {}]
Error == [is |-> "error", pending |-> {}]
Resolved(P) == [is |-> "resolved", pending |-> P]

NoSnap == [note |-> None, c |-> None, stamp |-> Blank]
Idle == [at |-> "idle", as |-> "def", fast |-> FALSE, s |-> NoSnap, todo |-> {},
         ask |-> {}, got |-> {}, name |-> NoName, past |-> {}, knew |-> {}]
Nothing == [n \in Note |-> None]

Init ==
  /\ vault \in {v \in [Note -> {Unborn} \cup UNION {Contents[n] : n \in Note}] :
                \A n \in Note : v[n] \in Contents[n] \cup {Unborn}}
  /\ stamp = [n \in Note |-> Blank]
  /\ events = {}
  /\ hub = [a \in Name |-> [g \in Conn |-> "none"]]
  /\ live = Nothing /\ memo = Nothing
  /\ seen = [d \in Def |-> None]
  /\ reg = [b \in Backend |-> [a \in Name |-> None]]
  /\ chans = {} /\ expected = {}
  /\ task = [t \in Task |-> Idle]
  /\ left = [writes |-> MaxWrites, faults |-> MaxFaults, restarts |-> MaxRestarts]

AllIdle == \A t \in Task : task[t].at = "idle"
MayStart(t) == task[t].at = "idle" /\ (Overlap \/ AllIdle)
Holds(n) == vault[n] \in Content
Live(n) == live[n] # None
Snap(n) == [note |-> n, c |-> vault[n], stamp |-> stamp[n]]
Spend(what) == left[what] > 0 /\ left' = [left EXCEPT ![what] = @ - 1]
To(t, r) == task' = [task EXCEPT ![t] = r]
Goes(t, at) == To(t, [task[t] EXCEPT !.at = at])

\* A task that is through with a note: the poll goes on with the next one.
Finish(t) == To(t, IF t = Poller THEN [task[t] EXCEPT !.at = "each"] ELSE Idle)

-----------------------------------------------------------------------------
(* The world: authors, the operator who approves grants, and the triggers.  *)

\* A trigger is bound to the creation and the update of a definition and to
\* the creation of a thread.
Fires(n) == IF n \in Def \/ vault[n] = Unborn THEN {n} ELSE {}

AuthorWrites(n, c) ==
  /\ vault[n] \notin {Gone, c}
  /\ Spend("writes")
  /\ vault' = [vault EXCEPT ![n] = c]
  /\ events' = events \cup Fires(n)
  /\ UNCHANGED <<stamp, hub, memory, wiring, task>>

AuthorDeletes(n) ==
  /\ Holds(n)
  /\ Spend("writes")
  /\ vault' = [vault EXCEPT ![n] = Gone]
  /\ UNCHANGED <<stamp, events, hub, memory, wiring, task>>

Approve(a, g) ==
  /\ hub[a][g] = "pending"
  /\ hub' = [hub EXCEPT ![a][g] = "approved"]
  /\ UNCHANGED <<vault, stamp, events, memory, wiring, task, left>>

LoseEvent(n) ==
  /\ n \in events
  /\ Spend("faults")
  /\ events' = events \ {n}
  /\ UNCHANGED <<vault, stamp, hub, memory, wiring, task>>

\* The daemon restarts: what it held in memory is gone.
Restart ==
  /\ Spend("restarts")
  /\ live' = Nothing /\ memo' = Nothing
  /\ seen' = [d \in Def |-> None]
  /\ reg' = [b \in Backend |-> [a \in Name |-> None]]
  /\ chans' = {} /\ expected' = {}
  /\ task' = [t \in Task |-> Idle]
  /\ UNCHANGED world

-----------------------------------------------------------------------------
(* What the hub and the vault do with a call.                               *)

registerGrant(a, g) == hub' = [hub EXCEPT ![a][g] = IF @ = "none" THEN "pending" ELSE @]

\* Reconciling by keys that the hub does not derive alike: all are dropped.
ReconciledByKey(a, W) == [hub EXCEPT ![a] = [g \in Conn |-> "none"]]
Reconciled(a, W) == [hub EXCEPT ![a] = [g \in Conn |-> IF g \in W THEN @[g] ELSE "none"]]

\* reconcileGrants is best-effort: a failure is logged and the task goes on.
ReconcileGrants(a, W) ==
  \/ hub' = Reconciled(a, W) /\ UNCHANGED left
  \/ Spend("faults") /\ UNCHANGED hub

\* patchStatus; the error of a failed one is caught by every caller.
PatchStatus(n, status) ==
  \/ /\ Holds(n)
     /\ stamp' = [stamp EXCEPT ![n] = status]
     /\ events' = events \cup Fires(n)
     /\ UNCHANGED left
  \/ ~Holds(n) /\ UNCHANGED <<stamp, events, left>>
  \/ Spend("faults") /\ UNCHANGED <<stamp, events>>

-----------------------------------------------------------------------------
(* Bringing an agent up and tearing it down.                                *)

\* ensureChannel marks the channel expected and makes it live; a registration
\* of a programmatic agent clears the mark.
EnsureChannel(a) == chans' = chans \cup {a}
BringUp(n, c) ==
  /\ EnsureChannel(c.name)
  /\ expected' = IF c.backend = "programmatic" THEN expected \ {c.name} ELSE expected \cup {c.name}
  /\ reg' = [reg EXCEPT ![c.backend][c.name] = [note |-> n, c |-> c]]

\* setupAndRegister throws, for want of a credential: the channel stays.
SetupFails(c) ==
  /\ Spend("faults")
  /\ EnsureChannel(c.name)
  /\ expected' = expected \cup {c.name}
  /\ UNCHANGED reg

\* deregisterByNote: both backends drop the name, and the channel goes.
deregisterByNote(n) ==
  IF ~Live(n) THEN UNCHANGED <<live, memo, wiring>>
  ELSE LET a == live[n].name IN
    /\ live' = [live EXCEPT ![n] = None]
    /\ memo' = [memo EXCEPT ![n] = None]
    /\ reg' = [b \in Backend |-> [reg[b] EXCEPT ![a] = None]]
    /\ chans' = chans \ {a}
    /\ expected' = IF reg["programmatic"][a] # None THEN expected \ {a} ELSE expected

isNameLiveElsewhere(a, n) == \E m \in Note \ {n} : Live(m) /\ live[m].name = a
\* evictOtherLiveByName: only threads lose their place.
Evicted(n, a) == {m \in Thread \ {n} : Live(m) /\ live[m].name = a /\ live[m].source = "thread"}

\* A live agent taken for one that is up to date.
UnchangedIfLive(r) == Live(r.s.note) /\ (r.as = "thread" => live[r.s.note].source = "thread")

\* The fingerprint of the snapshot is that of what is live.
Unchanged(r) ==
  /\ Live(r.s.note) /\ memo[r.s.note] = r.s.c
  /\ r.as = "thread" => live[r.s.note].source = "thread"

recordSeen(s) == seen' = [seen EXCEPT ![s.note] = s.c.name]

\* instantiate and instantiateThread up to the first answer they need: parse,
\* take the fast path of an unchanged note, or bring the agent up.
Asks(t, fast) ==
  To(t, [task[t] EXCEPT !.at = "ask", !.fast = fast, !.ask = IF Hub THEN task[t].s.c.wants ELSE {}, !.got = {}])

InstantiateDef(t) ==
  LET r == task[t] IN
  \/ /\ ~r.s.c.sound \/ r.s.note \in Thread    \* a thread note has no metadata.name
     /\ Goes(t, "error")
     /\ UNCHANGED <<memory, wiring, left>>
  \/ /\ r.s.c.sound /\ r.s.note \in Def
     /\ \/ Unchanged(r) /\ Asks(t, TRUE) /\ UNCHANGED <<memory, wiring, left>>
        \/ /\ ~Unchanged(r)
           /\ \/ BringUp(r.s.note, r.s.c) /\ Asks(t, FALSE) /\ UNCHANGED left
              \/ SetupFails(r.s.c) /\ Goes(t, "error")
           /\ UNCHANGED memory

instantiateThread(t) ==
  LET r == task[t]
      n == r.s.note
      mine == Live(n) /\ live[n].source = "thread"
  IN
  \/ /\ \/ ~r.s.c.sound
        \/ r.s.c.sound /\ ~Unchanged(r) /\ ~r.s.c.on /\ ~mine
        \/ r.s.c.sound /\ ~Unchanged(r) /\ r.s.c.on /\ isNameLiveElsewhere(r.s.c.name, n)
     /\ Finish(t)
     /\ UNCHANGED <<memory, wiring, left>>
  \/ /\ r.s.c.sound /\ Unchanged(r)
     /\ Asks(t, TRUE)
     /\ UNCHANGED <<memory, wiring, left>>
  \/ /\ r.s.c.sound /\ ~Unchanged(r) /\ ~r.s.c.on /\ mine
     /\ deregisterByNote(n)
     /\ Finish(t)
     /\ UNCHANGED <<seen, left>>
  \/ /\ r.s.c.sound /\ ~Unchanged(r) /\ r.s.c.on /\ ~isNameLiveElsewhere(r.s.c.name, n)
     /\ \/ BringUp(n, r.s.c) /\ Asks(t, FALSE) /\ UNCHANGED left
        \/ SetupFails(r.s.c) /\ Finish(t)
     /\ UNCHANGED memory

Instantiate(t) ==
  /\ task[t].at = "begin"
  /\ IF task[t].as = "def" THEN InstantiateDef(t) ELSE instantiateThread(t)
  /\ UNCHANGED world

\* A malformed definition, or one whose set-up fails, is stamped whatever its
\* note says already.
StampError(t) ==
  /\ task[t].at = "error"
  /\ PatchStatus(task[t].s.note, Error)
  /\ Finish(t)
  /\ UNCHANGED <<vault, hub, memory, wiring>>

\* resolveStatusWithGrants: register each wanted connection; one whose call
\* fails counts as pending.
Ask(t) ==
  /\ task[t].at = "ask"
  /\ \E g \in task[t].ask :
       \/ /\ registerGrant(task[t].s.c.name, g)
          /\ To(t, [task[t] EXCEPT !.ask = @ \ {g},
                    !.got = IF hub[task[t].s.c.name][g] = "approved" THEN @ \cup {g} ELSE @])
          /\ UNCHANGED left
       \/ Spend("faults") /\ UNCHANGED hub /\ To(t, [task[t] EXCEPT !.ask = @ \ {g}])
  /\ UNCHANGED <<vault, stamp, events, memory, wiring>>

Pending(r) == r.s.c.wants \ r.got

\* maybePatchStatus writes a status that differs from the one on the note, and
\* none to a thread.
Differs(r) == r.as = "def" /\ r.s.stamp # Resolved(Pending(r))

\* After the status: a full pass reconciles the grants, a refresh ends.
Onward(t) == IF Hub /\ ~task[t].fast THEN Goes(t, "gc") ELSE Finish(t)

\* Every answer is in: a full pass commits the record, the fingerprint and the
\* eviction of a thread of that name; a refresh updates the record.
Settle(t) ==
  LET r == task[t]
      n == r.s.note
      rec == [name |-> r.s.c.name, source |-> r.as, pending |-> Pending(r)]
      out == IF r.as = "def" THEN Evicted(n, r.s.c.name) ELSE {}
  IN
  /\ r.at = "ask" /\ r.ask = {}
  /\ IF r.fast
     THEN /\ live' = IF Live(n) THEN [live EXCEPT ![n].pending = Pending(r)] ELSE live
          /\ UNCHANGED memo
     ELSE /\ live' = [m \in Note |-> IF m = n THEN rec ELSE IF m \in out THEN None ELSE live[m]]
          /\ memo' = [m \in Note |-> IF m = n THEN r.s.c ELSE IF m \in out THEN None ELSE memo[m]]
  /\ IF r.as = "def" /\ ~(r.fast /\ Differs(r)) THEN recordSeen(r.s) ELSE UNCHANGED seen
  /\ IF Differs(r) THEN Goes(t, "stamp") ELSE Onward(t)
  /\ UNCHANGED <<world, wiring, left>>

Stamp(t) ==
  /\ task[t].at = "stamp"
  /\ PatchStatus(task[t].s.note, Resolved(Pending(task[t])))
  /\ IF task[t].fast THEN recordSeen(task[t].s) ELSE UNCHANGED seen
  /\ Onward(t)
  /\ UNCHANGED <<vault, hub, live, memo, wiring>>

\* reconcileLiveKeys: the hub drops what the snapshot does not declare.
PruneUnwanted(t) ==
  /\ task[t].at = "gc"
  /\ ReconcileGrants(task[t].s.c.name, task[t].s.c.wants)
  /\ Finish(t)
  /\ UNCHANGED <<vault, stamp, events, memory, wiring>>

-----------------------------------------------------------------------------
(* loadAll, at boot and every minute.                                       *)

Tick ==
  /\ MayStart(Poller)
  /\ Goes(Poller, IF Discovery = "thread" THEN "listThreads" ELSE "list")
  /\ UNCHANGED <<world, memory, wiring, left>>

\* The page of a list: all of it, or as many notes as the cap lets through.
Page(S) == {P \in SUBSET S : Cardinality(P) = IF Cardinality(S) < DEF_LIST_LIMIT THEN Cardinality(S) ELSE DEF_LIST_LIMIT}
Listed(S) == {n \in S : Holds(n)}

\* A list at the cap taken for a whole one.
AlwaysConfident(P) == TRUE
Confident(P) == Cardinality(P) < DEF_LIST_LIMIT
Threads == IF Discovery = "def" THEN "idle" ELSE "listThreads"
PollAt(at) == IF at = "idle" THEN Idle ELSE [Idle EXCEPT !.at = at]

ListDefs ==
  /\ task[Poller].at = "list"
  /\ \/ /\ \E P \in Page(Listed(Def)) :
             To(Poller, [Idle EXCEPT !.at = IF Confident(P) THEN "prune" ELSE "each",
                         !.todo = {Snap(n) : n \in P}, !.knew = {d \in Def : seen[d] # None}])
        /\ UNCHANGED left
     \/ Spend("faults") /\ To(Poller, PollAt(Threads))
  /\ UNCHANGED <<world, memory, wiring>>

Present == {s.note : s \in task[Poller].todo}
Removed == {d \in Def : seen[d] # None} \ (Present \cup task[Poller].past)

\* pruneRemovedDefs: the loop runs over the set of those seen as it is now.
PruneRemoved(d) ==
  /\ task[Poller].at = "prune"
  /\ d \in Removed
  /\ deregisterByNote(d)
  /\ To(Poller, [task[Poller] EXCEPT !.past = @ \cup {d}, !.name = seen[d],
                 !.at = IF Hub /\ seen[d] # NoName THEN "pruneHub" ELSE "prune"])
  /\ UNCHANGED <<world, seen, left>>

PruneRemovedGrants ==
  /\ task[Poller].at = "pruneHub"
  /\ ReconcileGrants(task[Poller].name, {})
  /\ Goes(Poller, "prune")
  /\ UNCHANGED <<vault, stamp, events, memory, wiring>>

\* rebuildSeenDefs: the notes of the list and no other, a malformed one under
\* the name it had (KnownById keeps the id of the note instead).
KnownById(s) == s.note
KnownAs(s) == IF s.c.sound THEN s.c.name ELSE IF seen[s.note] # None THEN seen[s.note] ELSE NoName
rebuildSeenDefs ==
  /\ task[Poller].at = "prune" /\ Removed = {}
  /\ seen' = [d \in Def |-> IF d \in Present
                THEN KnownAs(CHOOSE s \in task[Poller].todo : s.note = d) ELSE None]
  /\ Goes(Poller, "each")
  /\ UNCHANGED <<world, live, memo, wiring, left>>

\* The threads are listed after the definitions.
ListThreads ==
  /\ task[Poller].at = "listThreads"
  /\ \/ /\ \E P \in Page(Listed(Thread)) :
             To(Poller, [Idle EXCEPT !.at = "each", !.as = "thread", !.todo = {Snap(n) : n \in P}])
        /\ UNCHANGED left
     \/ Spend("faults") /\ To(Poller, Idle)
  /\ UNCHANGED <<world, memory, wiring>>

NextNote ==
  /\ task[Poller].at = "each"
  /\ \/ \E s \in task[Poller].todo :
          To(Poller, [task[Poller] EXCEPT !.at = "begin", !.s = s, !.todo = @ \ {s}])
     \/ /\ task[Poller].todo = {}
        /\ To(Poller, PollAt(IF task[Poller].as = "def" THEN Threads ELSE "idle"))
  /\ UNCHANGED <<world, memory, wiring, left>>

-----------------------------------------------------------------------------
(* reload and reloadThread by a webhook, and the calls of the API.          *)

Requested(at, as, n, c) == [Idle EXCEPT !.at = at, !.as = as, !.s = [NoSnap EXCEPT !.note = n, !.c = c]]
Enabled(as) == IF as = "def" THEN Discovery # "thread" ELSE Discovery # "def"
KindOf(n) == IF n \in Def THEN "def" ELSE "thread"

Webhook(t, n) ==
  /\ MayStart(t)
  /\ n \in events
  /\ events' = events \ {n}
  /\ To(t, IF Enabled(KindOf(n)) THEN Requested("fetch", KindOf(n), n, None) ELSE Idle)
  /\ UNCHANGED <<vault, stamp, hub, memory, wiring, left>>

\* getNote: a failed read is no removal, a missing note is one.
Fetch(t) ==
  /\ task[t].at = "fetch"
  /\ \/ /\ To(t, IF Holds(task[t].s.note)
                 THEN [task[t] EXCEPT !.at = "begin", !.s = Snap(task[t].s.note)]
                 ELSE [task[t] EXCEPT !.at = "removed"])
        /\ UNCHANGED left
     \/ Spend("faults") /\ To(t, Idle)
  /\ UNCHANGED <<world, memory, wiring>>

\* confirmedRemoval; a thread note only takes down an agent it brought up.
ConfirmRemoval(t) ==
  LET n == task[t].s.note
      a == IF Live(n) THEN live[n].name ELSE IF n \in Def THEN seen[n] ELSE None
  IN
  /\ task[t].at = "removed"
  /\ IF task[t].as = "thread"
     THEN /\ IF Live(n) /\ live[n].source = "thread" THEN deregisterByNote(n) ELSE UNCHANGED <<live, memo, wiring>>
          /\ UNCHANGED seen
          /\ To(t, Idle)
     ELSE /\ deregisterByNote(n)
          /\ seen' = [d \in Def |-> IF d = n THEN None ELSE seen[d]]
          /\ task' = [task EXCEPT
               ![t] = IF Hub /\ a \in Name THEN [@ EXCEPT !.at = "forget", !.name = a] ELSE Idle,
               ![Poller].past = @ \ {n}]
  /\ UNCHANGED <<world, left>>

ForgetGrants(t) ==
  /\ task[t].at = "forget"
  /\ ReconcileGrants(task[t].name, {})
  /\ To(t, Idle)
  /\ UNCHANGED <<vault, stamp, events, memory, wiring>>

\* What is written is reloaded as a definition, if definitions are a source.
ReloadDef(t, n) == To(t, IF Enabled("def") THEN Requested("fetch", "def", n, None) ELSE Idle)

\* createDef refuses a live name before it writes the note.
CreateDef(t, c) ==
  /\ MayStart(t)
  /\ ~\E m \in Note : Live(m) /\ live[m].name = c.name
  /\ Spend("writes")
  /\ To(t, Requested("create", "def", None, c))
  /\ UNCHANGED <<world, memory, wiring>>

CreateNote(t) ==
  /\ task[t].at = "create"
  /\ \/ \E d \in Def :
          /\ vault[d] = Unborn /\ task[t].s.c \in Contents[d]
          /\ vault' = [vault EXCEPT ![d] = task[t].s.c]
          /\ events' = events \cup {d}
          /\ ReloadDef(t, d)
          /\ UNCHANGED left
     \/ \* no id is left of the bounded set
        /\ \A d \in Def : vault[d] # Unborn \/ task[t].s.c \notin Contents[d]
        /\ To(t, Idle) /\ UNCHANGED <<vault, events, left>>
     \/ Spend("faults") /\ To(t, Idle) /\ UNCHANGED <<vault, events>>
  /\ UNCHANGED <<stamp, hub, memory, wiring>>

\* editDef patches the note of a live agent, of whatever source, and reloads it
\* as a definition.
EditDef(t, n, c) ==
  /\ MayStart(t)
  /\ Live(n)
  /\ Spend("writes")
  /\ To(t, Requested("edit", "def", n, c))
  /\ UNCHANGED <<world, memory, wiring>>

PatchNote(t) ==
  LET n == task[t].s.note IN
  /\ task[t].at = "edit"
  /\ \/ /\ Holds(n)
        /\ vault' = [vault EXCEPT ![n] = task[t].s.c]
        /\ events' = events \cup Fires(n)
        /\ ReloadDef(t, n)
        /\ UNCHANGED left
     \/ ~Holds(n) /\ To(t, Idle) /\ UNCHANGED <<vault, events, left>>
     \/ Spend("faults") /\ To(t, Idle) /\ UNCHANGED <<vault, events>>
  /\ UNCHANGED <<stamp, hub, memory, wiring>>

\* deleteDef deletes the note of a live agent first, and tears down only then.
DeleteDef(t, n) ==
  /\ MayStart(t)
  /\ Live(n)
  /\ Spend("writes")
  /\ To(t, Requested("delete", "def", n, None))
  /\ UNCHANGED <<world, memory, wiring>>

DeleteNote(t) ==
  LET n == task[t].s.note IN
  /\ task[t].at = "delete"
  /\ \/ vault' = [vault EXCEPT ![n] = Gone] /\ Goes(t, "removed") /\ UNCHANGED left
     \/ Spend("faults") /\ To(t, Idle) /\ UNCHANGED vault
  /\ UNCHANGED <<stamp, events, hub, memory, wiring>>

-----------------------------------------------------------------------------
World ==
  \/ \E n \in Note : (\E c \in Contents[n] : AuthorWrites(n, c)) \/ AuthorDeletes(n) \/ LoseEvent(n)
  \/ \E a \in Name, g \in Conn : Approve(a, g)

Poll ==
  \/ ListDefs \/ PruneRemovedGrants \/ rebuildSeenDefs \/ ListThreads \/ NextNote
  \/ \E d \in Def : PruneRemoved(d)

Step(t) == Instantiate(t) \/ StampError(t) \/ Ask(t) \/ Settle(t) \/ Stamp(t) \/ PruneUnwanted(t)

Call(t) ==
  Fetch(t) \/ ConfirmRemoval(t) \/ ForgetGrants(t) \/ CreateNote(t) \/ PatchNote(t) \/ DeleteNote(t)

Start(t) ==
  \/ \E n \in Note : Webhook(t, n) \/ DeleteDef(t, n)
  \/ \E n \in Note : \E c \in Contents[n] : EditDef(t, n, c)
  \/ \E d \in Def : \E c \in Contents[d] : CreateDef(t, c)

Next ==
  \/ World \/ Restart \/ Tick \/ Poll
  \/ \E t \in Task : Step(t)
  \/ \E t \in Request : Start(t) \/ Call(t)

Spec == Init /\ [][Next]_vars

\* The timer ticks for ever, and every call of the vault and the hub returns or
\* fails.
Fairness ==
  /\ WF_vars(Tick)
  /\ WF_vars(Poll)
  /\ \A t \in Task : WF_vars(Step(t))
  /\ \A t \in Request : WF_vars(Call(t))
FairSpec == Spec /\ Fairness

-----------------------------------------------------------------------------
Status == {Blank, Error} \cup {Resolved(P) : P \in SUBSET Conn}
Snaps == [note : Note, c : Content, stamp : Status]
Places == {"idle", "list", "prune", "pruneHub", "each", "listThreads", "begin", "error", "ask", "stamp",
           "gc", "fetch", "removed", "forget", "create", "edit", "delete"}
Tasks ==
  [at : Places, as : {"def", "thread"}, fast : BOOLEAN,
   s : [note : Note \cup {None}, c : Content \cup {None}, stamp : Status],
   todo : SUBSET Snaps, ask : SUBSET Conn, got : SUBSET Conn,
   name : Name \cup {NoName, None}, past : SUBSET Def, knew : SUBSET Def]

-----------------------------------------------------------------------------
(* A live agent is taken down only when its note is gone from the vault     *)
(* (whatever lists and reads failed, were cut at the cap or came late), when*)
(* the daemon restarts, when a definition of its name takes a thread's      *)
(* place, or when a thread was disabled.  One case more: a definition that  *)
(* came up while a poll, begun before the registry knew it, was pruning.    *)
Replaced(n) ==
  /\ n \in Thread
  /\ \/ \E d \in Note \ {n} : live'[d] # None /\ live'[d].name = live[n].name /\ live'[d].source = "def"
     \/ \E t \in Task : task[t].s.note = n /\ task[t].s.c # None /\ ~task[t].s.c.on
Newcomer(n) == task[Poller].at = "prune" /\ n \in Def \ task[Poller].knew
OnlyTheGone ==
  [][\A n \in Note : Live(n) /\ ~Live(n)' =>
       \/ vault[n] = Gone \/ Replaced(n) \/ Newcomer(n)
       \/ left'.restarts < left.restarts]_vars

(* An approved grant of a live agent that its definition still declares is  *)
(* not pruned, unless the note was written after the pruning pass had read  *)
(* it.  (A thread of that name which comes up before the definition does,   *)
(* say after a restart, does prune it.)  Checked where tasks do not overlap *)
(* and every definition has a name of its own.                              *)
Declared(a, g) ==
  \E d \in Def : Live(d) /\ Holds(d) /\ vault[d].sound /\ vault[d].name = a /\ g \in vault[d].wants
Outdated == \E t \in Task : task[t].at = "gc" /\ task[t].s.c # vault[task[t].s.note]
GrantsStay ==
  \A a \in Name, g \in Conn :
    hub[a][g] = "approved" /\ hub'[a][g] = "none" => ~Declared(a, g) \/ Outdated
DeclaredGrantsStay == [][GrantsStay]_vars

(* The registry converges to the vault: in the end every sound definition,  *)
(* and every enabled thread whose name no definition has, is what its       *)
(* backend serves in its latest version, with its channel live and with the *)
(* status of its grants both in the record and, for a definition, on the    *)
(* note; and nothing serves a definition that is gone.  Checked where tasks *)
(* do not overlap and no agent is renamed or changes its backend.           *)
Owner(n) ==
  /\ Holds(n) /\ vault[n].sound
  /\ n \in Thread => vault[n].on /\ ~\E d \in Def : Holds(d) /\ vault[d].name = vault[n].name
Unapproved(c) == {g \in c.wants : hub[c.name][g] # "approved"}
Serves(n) ==
  LET c == vault[n] IN
  /\ reg[c.backend][c.name] = [note |-> n, c |-> c]
  /\ c.name \in chans
  /\ Live(n) /\ live[n].name = c.name /\ live[n].pending = Unapproved(c)
  /\ n \in Def => stamp[n] = Resolved(Unapproved(c))
Dead(d) == ~Live(d) /\ \A b \in Backend, a \in Name : reg[b][a] # None => reg[b][a].note # d
Converged ==
  /\ \A n \in Note : Owner(n) => Serves(n)
  /\ \A d \in Def : vault[d] = Gone => Dead(d)
Converges == <>[]Converged

(* The writes of the registry to its own notes come to an end, although     *)
(* each of them fires the trigger that makes the registry read the note     *)
(* again.  Checked where no definition is malformed.                        *)
Stamping == \E t \in Task : task[t].at \in {"stamp", "error"}
StampingEnds == <>[]~Stamping
=============================================================================
