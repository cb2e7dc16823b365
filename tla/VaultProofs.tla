---------------------------- MODULE VaultProofs -----------------------------
(***************************************************************************)
(* Theorems about how agents come to be: AgentDefs (the notes of a vault), *)
(* DefVaults (the vaults that agents are defined in) and WebAgents (the    *)
(* agents that the page starts), for any notes, vaults, names, channels,   *)
(* requests, tasks, caps and bounds.                                       *)
(***************************************************************************)
EXTENDS MCAgentDefs, FiniteSetTheorems, TLAPS

-----------------------------------------------------------------------------
(* AgentDefs: who is taken down.                                            *)

Vaults == [Note -> Content \cup {Unborn, Gone}]
DefsTypeOK ==
  /\ vault \in Vaults /\ stamp \in [Note -> Status] /\ events \subseteq Note
  /\ live \in [Note -> LiveAgent \cup {None}] /\ seen \in [Def -> Name \cup {NoName, None}]
  /\ task \in [Task -> Tasks] /\ left \in [{"writes", "faults", "restarts"} -> Nat]

\* What is known of a note outside of the vault is known of one that was written.
BornOnly ==
  /\ \A n \in events : vault[n] # Unborn
  /\ \A n \in Note : live[n] # None => vault[n] # Unborn
  /\ \A d \in Def : seen[d] # None => vault[d] # Unborn

\* What a task remembers of the vault v: a note that it takes for removed is
\* gone, and a definition that the registry knew when the poll listed them is in
\* the list or gone.
TaskKnows(r, v) ==
  /\ r.at \in {"begin", "error", "ask", "stamp", "gc"} => r.s.note \in Note /\ r.s.c \in Content
  /\ r.at \in {"fetch", "removed", "edit", "delete"} => r.s.note \in Note
  /\ r.at \in {"create", "edit"} => r.s.c \in Content
  /\ r.at = "removed" => v[r.s.note] = Gone
  /\ r.s.note \in Note => v[r.s.note] # Unborn /\ (r.as = "thread" => r.s.note \in Thread)
  /\ \A s \in r.todo : v[s.note] # Unborn /\ (r.as = "thread" => s.note \in Thread)
  /\ r.at \in {"prune", "pruneHub"} =>
       \A d \in r.knew : v[d] = Gone \/ \E s \in r.todo : s.note = d

DefsInv == DefsTypeOK /\ BornOnly /\ \A t \in Task : TaskKnows(task[t], vault)

\* A written note stays written, and one that is gone stays gone.
Advances ==
  \A n \in Note : /\ vault[n] # Unborn => vault'[n] # Unborn
                  /\ vault[n] = Gone => vault'[n] = Gone

LEMMA Values ==
  /\ None \notin Content /\ None \notin LiveAgent /\ None \notin Note /\ None \notin Name /\ None # NoName
  /\ Unborn \notin Content /\ Gone \notin Content /\ Unborn # Gone /\ NoName \notin Name
  /\ Def \subseteq Note /\ Thread \subseteq Note /\ Def \cap Thread = {}
  /\ Poller \in Task /\ Request \subseteq Task /\ Poller \notin Request
<1> QED  BY ValueAssumption, NoteAssumption DEF Note, Task

LEMMA ContentsFit == ASSUME NEW n \in Note, NEW c \in Contents[n]  PROVE  c \in Content
<1> QED  BY ContentAssumption

LEMMA ContentFields == ASSUME NEW c \in Content  PROVE  c.name \in Name /\ c.wants \subseteq Conn
<1> QED  BY DEF Content

LEMMA Spent ==
  ASSUME DefsTypeOK, NEW what \in {"writes", "faults", "restarts"}, Spend(what)
  PROVE  left' \in [{"writes", "faults", "restarts"} -> Nat] /\ left'[what] < left[what]
<1> QED  BY DEF DefsTypeOK, Spend

LEMMA IdleTask == Idle \in Tasks /\ \A v : TaskKnows(Idle, v)
<1>1. Idle \in Tasks
  BY DEF Idle, NoSnap, Tasks, Places, Status, Blank
<1>2. Idle.at = "idle" /\ Idle.s.note = None /\ Idle.todo = {}
  BY DEF Idle, NoSnap
<1> QED  BY <1>1, <1>2, Values DEF TaskKnows

LEMMA TaskFields ==
  ASSUME NEW r \in Tasks
  PROVE  /\ r.at \in Places /\ r.as \in {"def", "thread"} /\ r.ask \subseteq Conn /\ r.got \subseteq Conn
         /\ r.s.note \in Note \cup {None} /\ r.s.c \in Content \cup {None}
         /\ r.todo \subseteq Snaps /\ r.knew \subseteq Def
<1> QED  BY DEF Tasks

LEMMA PlaceSet ==
  ASSUME NEW r \in Tasks, NEW p \in Places, NEW R, R = [r EXCEPT !.at = p]
  PROVE  R \in Tasks /\ R.at = p /\ R.as = r.as /\ R.s = r.s /\ R.todo = r.todo /\ R.knew = r.knew
<1> QED  BY DEF Tasks

LEMMA KnowsOn ==
  ASSUME NEW v \in Vaults, NEW w \in Vaults, NEW r \in Tasks, TaskKnows(r, v),
         \A n \in Note : (v[n] # Unborn => w[n] # Unborn) /\ (v[n] = Gone => w[n] = Gone)
  PROVE  TaskKnows(r, w)
<1>1. r.knew \subseteq Note /\ \A s \in r.todo : s.note \in Note
  BY Values DEF Tasks, Snaps
<1> QED  BY <1>1 DEF TaskKnows

\* One task moves, and the vault advances.
LEMMA TaskMoves ==
  ASSUME DefsInv, NEW t \in Task, NEW R \in Tasks, task' = [task EXCEPT ![t] = R],
         vault' \in Vaults, Advances, TaskKnows(R, vault')
  PROVE  task' \in [Task -> Tasks] /\ \A u \in Task : TaskKnows(task'[u], vault')
<1>1. task \in [Task -> Tasks] /\ vault \in Vaults
  BY DEF DefsInv, DefsTypeOK
<1>2. \A u \in Task : TaskKnows(task[u], vault')
  BY <1>1, KnowsOn DEF DefsInv, Advances
<1> QED  BY <1>1, <1>2

LEMMA TasksStay ==
  ASSUME DefsInv, task' = task, vault' \in Vaults, Advances
  PROVE  task' \in [Task -> Tasks] /\ \A u \in Task : TaskKnows(task'[u], vault')
<1>1. task \in [Task -> Tasks] /\ vault \in Vaults
  BY DEF DefsInv, DefsTypeOK
<1> QED  BY <1>1, KnowsOn DEF DefsInv, Advances

\* What is left of the invariant where no agent changes.
LEMMA SameAgents ==
  ASSUME DefsInv, live' = live, seen' = seen, vault' = vault, stamp' = stamp,
         events' \subseteq events, left' \in [{"writes", "faults", "restarts"} -> Nat],
         task' \in [Task -> Tasks], \A u \in Task : TaskKnows(task'[u], vault')
  PROVE  DefsInv'
<1> QED  BY DEF DefsInv, DefsTypeOK, BornOnly

TakenDownRightly ==
  \A n \in Note : Live(n) /\ ~Live(n)' =>
    \/ vault[n] = Gone \/ Replaced(n) \/ Newcomer(n)
    \/ left'.restarts < left.restarts

LEMMA NobodyFalls ==
  ASSUME \A n \in Note : live[n] # None => live'[n] # None  PROVE  TakenDownRightly
<1> QED  BY DEF TakenDownRightly, Live

LEMMA WorldKeeps ==
  ASSUME DefsInv, NEW n \in Note,
         (\E c \in Contents[n] : AuthorWrites(n, c)) \/ AuthorDeletes(n) \/ LoseEvent(n)
  PROVE  DefsInv' /\ live' = live
<1>0. DefsTypeOK /\ BornOnly
  BY DEF DefsInv
<1>1. /\ UNCHANGED <<stamp, live, seen, task>>
      /\ left' \in [{"writes", "faults", "restarts"} -> Nat]
      /\ events' \subseteq events \cup {n}
  BY <1>0, Spent DEF AuthorWrites, AuthorDeletes, LoseEvent, memory, Fires
<1>2. /\ vault' \in Vaults /\ Advances
      /\ n \in events' => vault'[n] # Unborn
  <2>1. CASE \E c \in Contents[n] : AuthorWrites(n, c)
    <3> PICK c \in Contents[n] : AuthorWrites(n, c)
      BY <2>1
    <3>1. c \in Content /\ vault[n] # Gone /\ vault' = [vault EXCEPT ![n] = c]
      BY ContentsFit DEF AuthorWrites
    <3> QED  BY <3>1, <1>0, Values DEF DefsTypeOK, Vaults, Advances
  <2>2. CASE AuthorDeletes(n)
    BY <2>2, <1>0, Values DEF AuthorDeletes, DefsTypeOK, Vaults, Advances
  <2>3. CASE LoseEvent(n)
    BY <2>3, <1>0 DEF LoseEvent, DefsTypeOK, Vaults, Advances, BornOnly
  <2> QED  BY <2>1, <2>2, <2>3
<1>3. task' \in [Task -> Tasks] /\ \A u \in Task : TaskKnows(task'[u], vault')
  BY <1>1, <1>2, TasksStay
<1>4. DefsTypeOK'
  BY <1>0, <1>1, <1>2, <1>3 DEF DefsTypeOK
<1>5. BornOnly'
  <2>1. \A m \in Note : vault[m] # Unborn => vault'[m] # Unborn
    BY <1>2 DEF Advances
  <2> QED  BY <1>0, <1>1, <1>2, <2>1, Values DEF BornOnly, DefsTypeOK
<1> QED  BY <1>1, <1>3, <1>4, <1>5 DEF DefsInv

LEMMA RestartKeeps ==
  ASSUME DefsInv, Restart  PROVE  DefsInv' /\ TakenDownRightly
<1>1. /\ UNCHANGED <<vault, stamp, events>>
      /\ live' = Nothing /\ seen' = [d \in Def |-> None] /\ task' = [t \in Task |-> Idle]
      /\ left' \in [{"writes", "faults", "restarts"} -> Nat] /\ left'["restarts"] < left["restarts"]
  BY Spent DEF DefsInv, Restart, world
<1>2. task' \in [Task -> Tasks] /\ \A u \in Task : TaskKnows(task'[u], vault')
  BY <1>1, IdleTask
<1>3. DefsTypeOK' /\ BornOnly'
  BY <1>1, <1>2 DEF DefsInv, DefsTypeOK, BornOnly, Nothing
<1>4. TakenDownRightly
  BY <1>1 DEF TakenDownRightly
<1> QED  BY <1>2, <1>3, <1>4 DEF DefsInv

-----------------------------------------------------------------------------
(* The list and the tasks' starts.                                          *)

LEMMA SnapFits ==
  ASSUME DefsTypeOK, NEW n \in Note, Holds(n)
  PROVE  Snap(n) \in Snaps /\ Snap(n).note = n /\ Snap(n).c = vault[n] /\ vault[n] # Unborn
<1> QED  BY Values DEF DefsTypeOK, Holds, Snap, Snaps

LEMMA PolledFits ==
  ASSUME NEW at \in {"idle", "each", "listThreads", "list"}
  PROVE  PollAt(at) \in Tasks /\ \A v : TaskKnows(PollAt(at), v)
<1> PICK R : R = [Idle EXCEPT !.at = at]
  OBVIOUS
<1>1. R \in Tasks /\ R.at = at /\ R.s = Idle.s /\ R.todo = Idle.todo
  BY IdleTask, PlaceSet DEF Places
<1>2. \A v : TaskKnows(R, v)
  BY <1>1, Values DEF TaskKnows, Idle, NoSnap
<1> QED  BY <1>2, <1>1, IdleTask DEF PollAt

LEMMA PageIsWhole ==
  ASSUME NEW S, IsFiniteSet(S), NEW P \in Page(S)
  PROVE  P \subseteq S /\ (Confident(P) => P = S)
<1>1. /\ P \subseteq S
      /\ Cardinality(P) = IF Cardinality(S) < DEF_LIST_LIMIT THEN Cardinality(S) ELSE DEF_LIST_LIMIT
  BY DEF Page
<1>2. Cardinality(P) = Cardinality(S) <=> P = S
  BY <1>1, FS_Subset
<1>3. Cardinality(P) \in Nat /\ Cardinality(S) \in Nat /\ DEF_LIST_LIMIT \in Nat
  BY <1>1, FS_Subset, FS_CardinalityType, SettingAssumption
<1> QED  BY <1>1, <1>2, <1>3 DEF Confident

\* A whole list has every definition that the registry knew and that is not gone.
LEMMA ListKeeps ==
  ASSUME DefsInv, ListDefs  PROVE  DefsInv' /\ live' = live
<1>0. DefsTypeOK /\ BornOnly
  BY DEF DefsInv
<1>1. UNCHANGED <<vault, stamp, events, live, seen>> /\ Advances
  BY DEF ListDefs, world, memory, Advances
<1>2. left' \in [{"writes", "faults", "restarts"} -> Nat]
  BY <1>0, Spent DEF ListDefs, DefsTypeOK
<1>3. task' \in [Task -> Tasks] /\ \A u \in Task : TaskKnows(task'[u], vault')
  <2>1. CASE To(Poller, PollAt(Threads))
    <3>1. PollAt(Threads) \in Tasks /\ TaskKnows(PollAt(Threads), vault)
      BY PolledFits DEF Threads
    <3>2. task' = [task EXCEPT ![Poller] = PollAt(Threads)]
      BY <2>1 DEF To
    <3> QED  BY <1>0, <1>1, <3>1, <3>2, TaskMoves, Values DEF DefsTypeOK
  <2>2. CASE \E P \in Page(Listed(Def)) :
               To(Poller, [Idle EXCEPT !.at = IF Confident(P) THEN "prune" ELSE "each",
                           !.todo = {Snap(n) : n \in P}, !.knew = {d \in Def : seen[d] # None}])
    <3> PICK P \in Page(Listed(Def)) :
               To(Poller, [Idle EXCEPT !.at = IF Confident(P) THEN "prune" ELSE "each",
                           !.todo = {Snap(n) : n \in P}, !.knew = {d \in Def : seen[d] # None}])
      BY <2>2
    <3> PICK K, T, p : /\ K = {d \in Def : seen[d] # None} /\ T = {Snap(n) : n \in P}
                       /\ p = IF Confident(P) THEN "prune" ELSE "each"
      OBVIOUS
    <3> PICK R : R = [Idle EXCEPT !.at = p, !.todo = T, !.knew = K]
      OBVIOUS
    <3>1. IsFiniteSet(Listed(Def))
      BY NoteAssumption, FS_Subset DEF Listed
    <3>2. P \subseteq Listed(Def) /\ (Confident(P) => P = Listed(Def))
      BY <3>1, PageIsWhole
    <3>3. \A n \in P : n \in Note /\ Snap(n) \in Snaps /\ Snap(n).note = n /\ vault[n] # Unborn
      BY <3>2, <1>0, SnapFits, Values DEF Listed
    <3>4. R \in Tasks /\ R.at = p /\ R.todo = T /\ R.knew = K /\ R.s = Idle.s /\ R.as = Idle.as
      <4>1. T \subseteq Snaps /\ K \subseteq Def
        BY <3>3
      <4>2. Idle \in Tasks
        BY IdleTask
      <4> QED  BY <4>1, <4>2 DEF Tasks, Places
    <3>5. \A d \in K : P = Listed(Def) => vault[d] = Gone \/ d \in P
      BY <1>0, Values DEF BornOnly, DefsTypeOK, Vaults, Listed, Holds
    <3>6. \A d \in P : \E s \in R.todo : s.note = d
      BY <3>3, <3>4
    <3>7. R.s.note = None /\ R.as = "def"
      BY <3>4 DEF Idle, NoSnap
    <3>8. TaskKnows(R, vault)
      BY <3>2, <3>3, <3>4, <3>5, <3>6, <3>7, Values DEF TaskKnows
    <3>9. task' = [task EXCEPT ![Poller] = R]
      BY DEF To
    <3> QED  BY <1>0, <1>1, <3>4, <3>8, <3>9, TaskMoves, Values DEF DefsTypeOK
  <2> QED  BY <2>1, <2>2 DEF ListDefs
<1> QED  BY <1>1, <1>2, <1>3, SameAgents

LEMMA PollKeeps ==
  ASSUME DefsInv, Tick \/ PruneRemovedGrants \/ ListThreads \/ NextNote  PROVE  DefsInv' /\ live' = live
<1> PICK r : r = task[Poller]
  OBVIOUS
<1>0. DefsTypeOK /\ BornOnly /\ r \in Tasks /\ TaskKnows(r, vault)
  BY Values DEF DefsInv, DefsTypeOK
<1>1. UNCHANGED <<vault, stamp, events, live, seen>> /\ Advances
  BY DEF Tick, PruneRemovedGrants, ListThreads, NextNote, world, memory, Advances
<1>2. left' \in [{"writes", "faults", "restarts"} -> Nat]
  BY <1>0, Spent DEF Tick, PruneRemovedGrants, ListThreads, NextNote, ReconcileGrants, DefsTypeOK
<1>3. \E R \in Tasks : task' = [task EXCEPT ![Poller] = R] /\ TaskKnows(R, vault)
  <2>1. CASE Tick
    <3> PICK p : p = IF Discovery = "thread" THEN "listThreads" ELSE "list"
      OBVIOUS
    <3> PICK R : R = [r EXCEPT !.at = p]
      OBVIOUS
    <3>1. R \in Tasks /\ R.at = p /\ R.as = r.as /\ R.s = r.s /\ R.todo = r.todo /\ R.knew = r.knew
      BY <1>0, PlaceSet DEF Places
    <3>2. TaskKnows(R, vault)
      BY <1>0, <3>1 DEF TaskKnows
    <3>3. task' = [task EXCEPT ![Poller] = R]
      BY <2>1 DEF Tick, Goes, To
    <3> QED  BY <3>1, <3>2, <3>3
  <2>2. CASE PruneRemovedGrants
    <3> PICK R : R = [r EXCEPT !.at = "prune"]
      OBVIOUS
    <3>1. R \in Tasks /\ R.at = "prune" /\ R.as = r.as /\ R.s = r.s /\ R.todo = r.todo /\ R.knew = r.knew
      BY <1>0, PlaceSet DEF Places
    <3>2. r.at = "pruneHub"
      BY <2>2 DEF PruneRemovedGrants
    <3>3. TaskKnows(R, vault)
      BY <1>0, <3>1, <3>2 DEF TaskKnows
    <3>4. task' = [task EXCEPT ![Poller] = R]
      BY <2>2 DEF PruneRemovedGrants, Goes, To
    <3> QED  BY <3>1, <3>3, <3>4
  <2>3. CASE ListThreads
    <3>1. CASE To(Poller, Idle)
      BY <3>1, IdleTask DEF To
    <3>2. CASE \E P \in Page(Listed(Thread)) :
             To(Poller, [Idle EXCEPT !.at = "each", !.as = "thread", !.todo = {Snap(n) : n \in P}])
      <4> PICK P \in Page(Listed(Thread)) :
             To(Poller, [Idle EXCEPT !.at = "each", !.as = "thread", !.todo = {Snap(n) : n \in P}])
        BY <3>2
      <4> PICK T : T = {Snap(n) : n \in P}
        OBVIOUS
      <4> PICK R : R = [Idle EXCEPT !.at = "each", !.as = "thread", !.todo = T]
        OBVIOUS
      <4>1. \A n \in P : n \in Thread /\ Snap(n) \in Snaps /\ Snap(n).note = n /\ vault[n] # Unborn
        BY <1>0, SnapFits, Values DEF Page, Listed
      <4>2. R \in Tasks /\ R.at = "each" /\ R.todo = T /\ R.s = Idle.s
        <5>1. T \subseteq Snaps
          BY <4>1
        <5>2. Idle \in Tasks
          BY IdleTask
        <5> QED  BY <5>1, <5>2 DEF Tasks, Places
      <4>3. R.s.note = None
        BY <4>2 DEF Idle, NoSnap
      <4>4. TaskKnows(R, vault)
        BY <4>1, <4>2, <4>3, Values DEF TaskKnows
      <4>5. task' = [task EXCEPT ![Poller] = R]
        BY DEF To
      <4> QED  BY <4>2, <4>4, <4>5
    <3> QED  BY <2>3, <3>1, <3>2 DEF ListThreads
  <2>4. CASE NextNote
    <3>1. CASE \E s \in r.todo : To(Poller, [r EXCEPT !.at = "begin", !.s = s, !.todo = @ \ {s}])
      <4> PICK s \in r.todo : To(Poller, [r EXCEPT !.at = "begin", !.s = s, !.todo = @ \ {s}])
        BY <3>1
      <4> PICK R : R = [r EXCEPT !.at = "begin", !.s = s, !.todo = @ \ {s}]
        OBVIOUS
      <4>1. s \in Snaps /\ s.note \in Note /\ s.c \in Content
        BY <1>0, TaskFields DEF Snaps
      <4>2. s \in [note : Note \cup {None}, c : Content \cup {None}, stamp : Status]
        BY <4>1 DEF Snaps
      <4>3. R \in Tasks /\ R.at = "begin" /\ R.s = s /\ R.todo \subseteq r.todo /\ R.as = r.as
        BY <1>0, <4>2 DEF Tasks, Places
      <4>4. TaskKnows(R, vault)
        BY <1>0, <4>1, <4>3 DEF TaskKnows
      <4>5. task' = [task EXCEPT ![Poller] = R]
        BY DEF To
      <4> QED  BY <4>3, <4>4, <4>5
    <3>2. CASE To(Poller, PollAt(IF r.as = "def" THEN Threads ELSE "idle"))
      <4> PICK p : p = IF r.as = "def" THEN Threads ELSE "idle"
        OBVIOUS
      <4>1. PollAt(p) \in Tasks /\ TaskKnows(PollAt(p), vault)
        BY PolledFits DEF Threads
      <4>2. task' = [task EXCEPT ![Poller] = PollAt(p)]
        BY <3>2 DEF To
      <4> QED  BY <4>1, <4>2
    <3> QED  BY <2>4, <3>1, <3>2 DEF NextNote
  <2> QED  BY <2>1, <2>2, <2>3, <2>4
<1>4. task' \in [Task -> Tasks] /\ \A u \in Task : TaskKnows(task'[u], vault')
  BY <1>0, <1>1, <1>3, TaskMoves, Values DEF DefsTypeOK
<1> QED  BY <1>1, <1>2, <1>4, SameAgents

LEMMA Deregistered ==
  ASSUME DefsTypeOK, NEW n \in Note, deregisterByNote(n)
  PROVE  /\ live' \in [Note -> LiveAgent \cup {None}]
         /\ \A m \in Note : live'[m] = IF m = n THEN None ELSE live[m]
<1> QED  BY DEF DefsTypeOK, deregisterByNote, Live

LEMMA PrunedFalls ==
  ASSUME DefsInv, NEW d \in Def, PruneRemoved(d)  PROVE  DefsInv' /\ TakenDownRightly
<1> PICK r : r = task[Poller]
  OBVIOUS
<1>0. /\ DefsTypeOK /\ BornOnly /\ r \in Tasks /\ TaskKnows(r, vault) /\ d \in Note
      /\ seen[d] \in Name \cup {NoName, None}
  BY Values DEF DefsInv, DefsTypeOK
<1>1. /\ UNCHANGED <<vault, stamp, events, seen, left>> /\ Advances
      /\ r.at = "prune" /\ d \in Removed
  BY DEF PruneRemoved, world, Advances
<1>2. live' \in [Note -> LiveAgent \cup {None}] /\ \A m \in Note : live'[m] = IF m = d THEN None ELSE live[m]
  BY <1>0, Deregistered DEF PruneRemoved
<1> PICK p : p = IF Hub /\ seen[d] # NoName THEN "pruneHub" ELSE "prune"
  OBVIOUS
<1> PICK R : R = [r EXCEPT !.past = @ \cup {d}, !.name = seen[d], !.at = p]
  OBVIOUS
<1>3. R \in Tasks /\ R.at \in {"prune", "pruneHub"} /\ R.as = r.as /\ R.s = r.s /\ R.todo = r.todo /\ R.knew = r.knew
  <2>1. p \in Places /\ p \in {"prune", "pruneHub"}
    BY DEF Places
  <2> QED  BY <1>0, <2>1 DEF Tasks
<1>4. TaskKnows(R, vault)
  BY <1>0, <1>1, <1>3 DEF TaskKnows
<1>5. task' = [task EXCEPT ![Poller] = R]
  BY DEF PruneRemoved, To
<1>6. task' \in [Task -> Tasks] /\ \A u \in Task : TaskKnows(task'[u], vault')
  BY <1>0, <1>1, <1>3, <1>4, <1>5, TaskMoves, Values DEF DefsTypeOK
<1>7. DefsTypeOK' /\ BornOnly'
  BY <1>0, <1>1, <1>2, <1>6 DEF DefsTypeOK, BornOnly
<1>8. vault[d] = Gone \/ Newcomer(d)
  BY <1>0, <1>1 DEF TaskKnows, Removed, Present, Newcomer
<1>9. TakenDownRightly
  BY <1>2, <1>8 DEF TakenDownRightly, Live
<1> QED  BY <1>6, <1>7, <1>9 DEF DefsInv

LEMMA RebuildKeeps ==
  ASSUME DefsInv, rebuildSeenDefs  PROVE  DefsInv' /\ live' = live
<1> PICK r : r = task[Poller]
  OBVIOUS
<1>0. DefsTypeOK /\ BornOnly /\ r \in Tasks /\ TaskKnows(r, vault)
  BY Values DEF DefsInv, DefsTypeOK
<1>1. /\ UNCHANGED <<vault, stamp, events, live, left>> /\ Advances
      /\ seen' = [d \in Def |-> IF d \in Present THEN KnownAs(CHOOSE s \in r.todo : s.note = d) ELSE None]
  BY DEF rebuildSeenDefs, world, Advances
<1>2. \A d \in Def : seen'[d] \in Name \cup {NoName, None} /\ (seen'[d] # None => vault[d] # Unborn)
  <2> SUFFICES ASSUME NEW d \in Def, d \in Present
               PROVE  KnownAs(CHOOSE s \in r.todo : s.note = d) \in Name \cup {NoName, None} /\ vault[d] # Unborn
    BY <1>1
  <2>1. \E s \in r.todo : s.note = d
    BY DEF Present
  <2> PICK s : s = CHOOSE x \in r.todo : x.note = d
    OBVIOUS
  <2>2. s \in r.todo /\ s.note = d
    BY <2>1
  <2>3. s.c.name \in Name
    BY <1>0, <2>2, TaskFields, ContentFields DEF Snaps
  <2>4. seen[d] \in Name \cup {NoName, None}
    BY <1>0 DEF DefsTypeOK
  <2>5. vault[d] # Unborn
    BY <1>0, <2>2 DEF TaskKnows
  <2> QED  BY <2>2, <2>3, <2>4, <2>5 DEF KnownAs
<1> PICK R : R = [r EXCEPT !.at = "each"]
  OBVIOUS
<1>3. R \in Tasks /\ R.at = "each" /\ R.as = r.as /\ R.s = r.s /\ R.todo = r.todo
  BY <1>0, PlaceSet DEF Places
<1>4. TaskKnows(R, vault)
  BY <1>0, <1>3 DEF TaskKnows
<1>5. task' = [task EXCEPT ![Poller] = R]
  BY DEF rebuildSeenDefs, Goes, To
<1>6. task' \in [Task -> Tasks] /\ \A u \in Task : TaskKnows(task'[u], vault')
  BY <1>0, <1>1, <1>3, <1>4, <1>5, TaskMoves, Values DEF DefsTypeOK
<1>7. DefsTypeOK' /\ BornOnly'
  BY <1>0, <1>1, <1>2, <1>6 DEF DefsTypeOK, BornOnly
<1> QED  BY <1>1, <1>6, <1>7 DEF DefsInv

-----------------------------------------------------------------------------
(* What a task does with a note.                                            *)

\* A task goes on to a place that asks for no more than it has.
LEMMA OnlyPlace ==
  ASSUME DefsInv, NEW t \in Task, NEW p \in Places, task' = [task EXCEPT ![t] = [task[t] EXCEPT !.at = p]],
         vault' = vault,
         \/ p \in {"idle", "each", "list", "listThreads"}
         \/ task[t].at \in {"begin", "error", "ask", "stamp", "gc"} /\ p \in {"error", "ask", "stamp", "gc"}
  PROVE  task' \in [Task -> Tasks] /\ \A u \in Task : TaskKnows(task'[u], vault')
<1> PICK r, R : r = task[t] /\ R = [r EXCEPT !.at = p]
  OBVIOUS
<1>0. r \in Tasks /\ TaskKnows(r, vault) /\ Advances /\ vault' \in Vaults
  BY DEF DefsInv, DefsTypeOK, Advances
<1>1. R \in Tasks /\ R.at = p /\ R.as = r.as /\ R.s = r.s /\ R.todo = r.todo /\ R.knew = r.knew
  BY <1>0, PlaceSet
<1>2. TaskKnows(R, vault)
  BY <1>0, <1>1 DEF TaskKnows
<1> QED  BY <1>0, <1>1, <1>2, TaskMoves

LEMMA Finished ==
  ASSUME DefsInv, NEW t \in Task, Finish(t), vault' = vault
  PROVE  task' \in [Task -> Tasks] /\ \A u \in Task : TaskKnows(task'[u], vault')
<1>1. CASE t = Poller
  <2>1. task' = [task EXCEPT ![t] = [task[t] EXCEPT !.at = "each"]] /\ "each" \in Places
    BY <1>1 DEF Finish, To, Places
  <2> QED  BY <2>1, OnlyPlace
<1>2. CASE t # Poller
  <2>1. task' = [task EXCEPT ![t] = Idle] /\ Advances /\ vault' \in Vaults
    BY <1>2 DEF Finish, To, Advances, DefsInv, DefsTypeOK
  <2> QED  BY <2>1, IdleTask, TaskMoves
<1> QED  BY <1>1, <1>2

LEMMA Asked ==
  ASSUME DefsInv, NEW t \in Task, NEW fast \in BOOLEAN, NEW W \in SUBSET Conn, task[t].at = "begin",
         task' = [task EXCEPT ![t] = [task[t] EXCEPT !.at = "ask", !.fast = fast, !.ask = W, !.got = {}]],
         vault' = vault
  PROVE  task' \in [Task -> Tasks] /\ \A u \in Task : TaskKnows(task'[u], vault')
<1> PICK r : r = task[t]
  OBVIOUS
<1> PICK R : R = [r EXCEPT !.at = "ask", !.fast = fast, !.ask = W, !.got = {}]
  OBVIOUS
<1>0. r \in Tasks /\ TaskKnows(r, vault) /\ Advances /\ vault' \in Vaults
  BY DEF DefsInv, DefsTypeOK, Advances
<1>1. R \in Tasks /\ R.at = "ask" /\ R.as = r.as /\ R.s = r.s /\ R.todo = r.todo
  BY <1>0 DEF Tasks, Places
<1>2. TaskKnows(R, vault)
  BY <1>0, <1>1 DEF TaskKnows
<1> QED  BY <1>0, <1>1, <1>2, TaskMoves

LEMMA InstantiateKeeps ==
  ASSUME DefsInv, NEW t \in Task, Instantiate(t)  PROVE  DefsInv' /\ TakenDownRightly
<1> PICK r, n : r = task[t] /\ n = r.s.note
  OBVIOUS
<1>0. /\ DefsTypeOK /\ BornOnly /\ r \in Tasks /\ TaskKnows(r, vault)
      /\ r.at = "begin" /\ n \in Note /\ r.s.c \in Content
  BY DEF DefsInv, DefsTypeOK, Instantiate, TaskKnows
<1> PICK W : W = IF Hub THEN r.s.c.wants ELSE {}
  OBVIOUS
<1>1. W \in SUBSET Conn
  BY <1>0, ContentFields
<1>2. UNCHANGED <<vault, stamp, events>>
  BY DEF Instantiate, world
<1>3. /\ seen' = seen
      /\ left' \in [{"writes", "faults", "restarts"} -> Nat]
  BY <1>0, Spent DEF Instantiate, InstantiateDef, instantiateThread, SetupFails, memory, DefsTypeOK
<1>4. task' \in [Task -> Tasks] /\ \A u \in Task : TaskKnows(task'[u], vault')
  <2>1. CASE Finish(t)
    BY <1>2, <2>1, Finished
  <2>2. CASE Goes(t, "error")
    <3>1. task' = [task EXCEPT ![t] = [task[t] EXCEPT !.at = "error"]] /\ "error" \in Places
      BY <2>2 DEF Goes, To, Places
    <3> QED  BY <1>0, <1>2, <3>1, OnlyPlace
  <2>3. CASE Asks(t, TRUE)
    <3>1. task' = [task EXCEPT ![t] = [task[t] EXCEPT !.at = "ask", !.fast = TRUE, !.ask = W, !.got = {}]]
      BY <2>3 DEF Asks, To
    <3> QED  BY <1>0, <1>1, <1>2, <3>1, Asked
  <2>4. CASE Asks(t, FALSE)
    <3>1. task' = [task EXCEPT ![t] = [task[t] EXCEPT !.at = "ask", !.fast = FALSE, !.ask = W, !.got = {}]]
      BY <2>4 DEF Asks, To
    <3> QED  BY <1>0, <1>1, <1>2, <3>1, Asked
  <2>5. Finish(t) \/ Goes(t, "error") \/ Asks(t, TRUE) \/ Asks(t, FALSE)
    BY DEF Instantiate, InstantiateDef, instantiateThread
  <2> QED  BY <2>1, <2>2, <2>3, <2>4, <2>5
<1>5. live' = live \/ (deregisterByNote(n) /\ r.as = "thread" /\ ~r.s.c.on)
  <2>1. CASE r.as = "def"
    BY <2>1 DEF Instantiate, InstantiateDef, memory
  <2>2. CASE r.as = "thread"
    BY <2>2 DEF Instantiate, instantiateThread, memory
  <2> QED  BY <2>1, <2>2, <1>0, TaskFields
<1>6. /\ live' \in [Note -> LiveAgent \cup {None}]
      /\ \A m \in Note : live'[m] = live[m] \/ (m = n /\ live'[m] = None /\ r.as = "thread" /\ ~r.s.c.on)
  BY <1>0, <1>5, Deregistered DEF DefsTypeOK
<1>7. DefsTypeOK' /\ BornOnly'
  BY <1>0, <1>2, <1>3, <1>4, <1>6 DEF DefsTypeOK, BornOnly
<1>8. ASSUME NEW m \in Note, live[m] # None, live'[m] = None  PROVE  Replaced(m)
  <2>1. m = n /\ r.as = "thread" /\ ~r.s.c.on
    BY <1>6, <1>8
  <2> QED  BY <2>1, <1>0, Values DEF Replaced, TaskKnows
<1> QED  BY <1>4, <1>7, <1>8 DEF DefsInv, TakenDownRightly, Live

LEMMA Patched ==
  ASSUME DefsInv, NEW n \in Note, NEW st \in Status, PatchStatus(n, st)
  PROVE  /\ stamp' \in [Note -> Status] /\ events' \subseteq Note
         /\ \A m \in events' : vault[m] # Unborn
         /\ left' \in [{"writes", "faults", "restarts"} -> Nat]
<1>0. DefsTypeOK /\ BornOnly
  BY DEF DefsInv
<1>1. Holds(n) => vault[n] # Unborn
  BY Values DEF Holds
<1>2. Fires(n) \subseteq {n}
  BY DEF Fires
<1> QED  BY <1>0, <1>1, <1>2, Spent DEF PatchStatus, DefsTypeOK, BornOnly

LEMMA StampErrorKeeps ==
  ASSUME DefsInv, NEW t \in Task, StampError(t)  PROVE  DefsInv' /\ live' = live
<1>1. /\ PatchStatus(task[t].s.note, Error) /\ Error \in Status
      /\ UNCHANGED <<vault, live, seen>> /\ Finish(t) /\ task[t].s.note \in Note
  BY DEF StampError, memory, Status, DefsInv, TaskKnows
<1>2. /\ stamp' \in [Note -> Status] /\ events' \subseteq Note
      /\ \A m \in events' : vault[m] # Unborn
      /\ left' \in [{"writes", "faults", "restarts"} -> Nat]
  BY <1>1, Patched
<1>3. task' \in [Task -> Tasks] /\ \A u \in Task : TaskKnows(task'[u], vault')
  BY <1>1, Finished
<1>4. DefsTypeOK' /\ BornOnly'
  BY <1>1, <1>2, <1>3 DEF DefsInv, DefsTypeOK, BornOnly
<1> QED  BY <1>1, <1>3, <1>4 DEF DefsInv

LEMMA AskKeeps ==
  ASSUME DefsInv, NEW t \in Task, Ask(t)  PROVE  DefsInv' /\ live' = live
<1> PICK r : r = task[t]
  OBVIOUS
<1>0. DefsTypeOK /\ BornOnly /\ r \in Tasks /\ TaskKnows(r, vault) /\ r.at = "ask"
  BY DEF DefsInv, DefsTypeOK, Ask
<1>1. /\ UNCHANGED <<vault, stamp, events, live, seen>> /\ Advances
      /\ left' \in [{"writes", "faults", "restarts"} -> Nat]
  BY <1>0, Spent DEF Ask, memory, Advances, DefsTypeOK
<1>2. \E g \in r.ask, G \in SUBSET Conn : task' = [task EXCEPT ![t] = [r EXCEPT !.ask = @ \ {g}, !.got = G]]
  <2>0. r.ask \subseteq Conn /\ r.got \subseteq Conn /\ r.got = r.got
    BY <1>0, TaskFields
  <2> PICK g \in r.ask :
       \/ To(t, [r EXCEPT !.ask = @ \ {g}, !.got = IF hub[r.s.c.name][g] = "approved" THEN @ \cup {g} ELSE @])
       \/ To(t, [r EXCEPT !.ask = @ \ {g}])
    BY DEF Ask
  <2>1. CASE To(t, [r EXCEPT !.ask = @ \ {g}])
    <3>1. [r EXCEPT !.ask = @ \ {g}] = [r EXCEPT !.ask = @ \ {g}, !.got = r.got]
      BY <1>0 DEF Tasks
    <3> QED  BY <2>0, <2>1, <3>1 DEF To
  <2>2. CASE To(t, [r EXCEPT !.ask = @ \ {g}, !.got = IF hub[r.s.c.name][g] = "approved" THEN @ \cup {g} ELSE @])
    <3> PICK G : G = IF hub[r.s.c.name][g] = "approved" THEN r.got \cup {g} ELSE r.got
      OBVIOUS
    <3>1. G \in SUBSET Conn
      BY <2>0
    <3>2. task' = [task EXCEPT ![t] = [r EXCEPT !.ask = @ \ {g}, !.got = G]]
      BY <2>2 DEF To
    <3> QED  BY <3>1, <3>2
  <2> QED  BY <2>1, <2>2
<1> PICK g \in r.ask, G \in SUBSET Conn : task' = [task EXCEPT ![t] = [r EXCEPT !.ask = @ \ {g}, !.got = G]]
  BY <1>2
<1> PICK R : R = [r EXCEPT !.ask = @ \ {g}, !.got = G]
  OBVIOUS
<1>3. R \in Tasks /\ R.at = "ask" /\ R.as = r.as /\ R.s = r.s /\ R.todo = r.todo
  BY <1>0 DEF Tasks
<1>4. TaskKnows(R, vault)
  BY <1>0, <1>3 DEF TaskKnows
<1>5. task' \in [Task -> Tasks] /\ \A u \in Task : TaskKnows(task'[u], vault')
  BY <1>0, <1>1, <1>3, <1>4, TaskMoves DEF DefsTypeOK
<1> QED  BY <1>1, <1>5, SameAgents

LEMMA StampKeeps ==
  ASSUME DefsInv, NEW t \in Task, Stamp(t)  PROVE  DefsInv' /\ live' = live
<1> PICK r, P : r = task[t] /\ P = Resolved(Pending(r))
  OBVIOUS
<1>0. /\ DefsTypeOK /\ BornOnly /\ r \in Tasks /\ TaskKnows(r, vault)
      /\ r.at = "stamp" /\ r.s.note \in Note /\ r.s.c \in Content /\ vault[r.s.note] # Unborn
  BY DEF DefsInv, DefsTypeOK, Stamp, TaskKnows
<1>1. P \in Status
  BY <1>0, ContentFields DEF Status, Pending
<1>2. PatchStatus(r.s.note, P) /\ UNCHANGED <<vault, live>> /\ Onward(t)
  BY DEF Stamp
<1>3. /\ stamp' \in [Note -> Status] /\ events' \subseteq Note
      /\ \A m \in events' : vault[m] # Unborn
      /\ left' \in [{"writes", "faults", "restarts"} -> Nat]
  BY <1>0, <1>1, <1>2, Patched
<1>4. task' \in [Task -> Tasks] /\ \A u \in Task : TaskKnows(task'[u], vault')
  <2>1. CASE Goes(t, "gc")
    <3>1. task' = [task EXCEPT ![t] = [task[t] EXCEPT !.at = "gc"]] /\ "gc" \in Places
      BY <2>1 DEF Goes, To, Places
    <3> QED  BY <1>0, <1>2, <3>1, OnlyPlace
  <2>2. CASE Finish(t)
    BY <1>2, <2>2, Finished
  <2> QED  BY <1>2, <2>1, <2>2 DEF Onward
<1>5. seen' = seen \/ seen' = [seen EXCEPT ![r.s.note] = r.s.c.name]
  BY DEF Stamp, recordSeen
<1>6. /\ seen' \in [Def -> Name \cup {NoName, None}]
      /\ \A d \in Def : seen'[d] # None => vault[d] # Unborn
  BY <1>0, <1>5, ContentFields DEF DefsTypeOK, BornOnly
<1>7. DefsTypeOK' /\ BornOnly'
  BY <1>0, <1>2, <1>3, <1>4, <1>6 DEF DefsTypeOK, BornOnly
<1> QED  BY <1>2, <1>4, <1>7 DEF DefsInv

LEMMA PruneKeeps ==
  ASSUME DefsInv, NEW t \in Task, PruneUnwanted(t)  PROVE  DefsInv' /\ live' = live
<1>1. /\ UNCHANGED <<vault, stamp, events, live, seen>> /\ Finish(t)
      /\ left' \in [{"writes", "faults", "restarts"} -> Nat]
  BY Spent DEF PruneUnwanted, memory, ReconcileGrants, DefsInv, DefsTypeOK
<1>2. task' \in [Task -> Tasks] /\ \A u \in Task : TaskKnows(task'[u], vault')
  BY <1>1, Finished
<1> QED  BY <1>1, <1>2, SameAgents

\* A definition that settles takes the places of the threads of its name.
LEMMA SettleKeeps ==
  ASSUME DefsInv, NEW t \in Task, Settle(t)  PROVE  DefsInv' /\ TakenDownRightly
<1> PICK r, n, out, rec :
      /\ r = task[t] /\ n = r.s.note
      /\ out = IF r.as = "def" THEN Evicted(n, r.s.c.name) ELSE {}
      /\ rec = [name |-> r.s.c.name, source |-> r.as, pending |-> Pending(r)]
  OBVIOUS
<1>0. /\ DefsTypeOK /\ BornOnly /\ r \in Tasks /\ TaskKnows(r, vault)
      /\ r.at = "ask" /\ n \in Note /\ r.s.c \in Content /\ vault[n] # Unborn
  BY DEF DefsInv, DefsTypeOK, Settle, TaskKnows
<1>1. UNCHANGED <<vault, stamp, events, left>>
  BY DEF Settle, world
<1>2. rec \in LiveAgent /\ Pending(r) \subseteq Conn
  BY <1>0, ContentFields, TaskFields DEF LiveAgent, Pending
<1>3. /\ live' \in [Note -> LiveAgent \cup {None}]
      /\ \A m \in Note : live'[m] # None => live[m] # None \/ m = n
      /\ \A m \in Note : live[m] # None /\ live'[m] = None => m \in out /\ live'[n] = rec
  <2>1. CASE r.fast
    <3>1. live' = IF Live(n) THEN [live EXCEPT ![n].pending = Pending(r)] ELSE live
      BY <2>1 DEF Settle
    <3>2. CASE Live(n)
      <4> PICK new : new = [live[n] EXCEPT !.pending = Pending(r)]
        OBVIOUS
      <4>1. new \in LiveAgent
        BY <1>0, <1>2, <3>2 DEF DefsTypeOK, Live, LiveAgent
      <4>2. live' = [live EXCEPT ![n] = new]
        BY <3>1, <3>2
      <4> QED  BY <1>0, <4>1, <4>2, Values DEF DefsTypeOK
    <3>3. CASE ~Live(n)
      BY <3>1, <3>3, <1>0 DEF DefsTypeOK
    <3> QED  BY <3>2, <3>3
  <2>2. CASE ~r.fast
    <3>1. live' = [m \in Note |-> IF m = n THEN rec ELSE IF m \in out THEN None ELSE live[m]]
      BY <2>2 DEF Settle
    <3> QED  BY <3>1, <1>0, <1>2, Values DEF DefsTypeOK
  <2> QED  BY <2>1, <2>2
<1>4. seen' = seen \/ seen' = [seen EXCEPT ![n] = r.s.c.name]
  BY DEF Settle, recordSeen
<1>5. /\ seen' \in [Def -> Name \cup {NoName, None}]
      /\ \A d \in Def : seen'[d] # None => vault[d] # Unborn
  BY <1>0, <1>4, ContentFields DEF DefsTypeOK, BornOnly
<1>6. task' \in [Task -> Tasks] /\ \A u \in Task : TaskKnows(task'[u], vault')
  <2>1. CASE Goes(t, "gc")
    <3>1. task' = [task EXCEPT ![t] = [task[t] EXCEPT !.at = "gc"]] /\ "gc" \in Places
      BY <2>1 DEF Goes, To, Places
    <3> QED  BY <1>0, <1>1, <3>1, OnlyPlace
  <2>2. CASE Goes(t, "stamp")
    <3>1. task' = [task EXCEPT ![t] = [task[t] EXCEPT !.at = "stamp"]] /\ "stamp" \in Places
      BY <2>2 DEF Goes, To, Places
    <3> QED  BY <1>0, <1>1, <3>1, OnlyPlace
  <2>3. CASE Finish(t)
    BY <1>1, <2>3, Finished
  <2> QED  BY <2>1, <2>2, <2>3 DEF Settle, Onward
<1>7. DefsTypeOK' /\ BornOnly'
  BY <1>0, <1>1, <1>3, <1>5, <1>6 DEF DefsTypeOK, BornOnly
<1>8. ASSUME NEW m \in Note, live[m] # None, live'[m] = None  PROVE  Replaced(m)
  <2>1. m \in out /\ live'[n] = rec
    BY <1>3, <1>8
  <2>2. r.as = "def" /\ m \in Thread \ {n} /\ live[m].name = r.s.c.name
    BY <2>1 DEF Evicted
  <2>3. rec # None /\ rec.name = r.s.c.name /\ rec.source = "def"
    BY <1>2, <2>2, Values
  <2>4. n \in Note \ {m} /\ live'[n] # None /\ live'[n].name = live[m].name /\ live'[n].source = "def"
    BY <2>1, <2>2, <2>3, <1>0
  <2> QED  BY <2>2, <2>4 DEF Replaced
<1> QED  BY <1>6, <1>7, <1>8 DEF DefsInv, TakenDownRightly, Live

-----------------------------------------------------------------------------
(* Webhooks and the calls of the API.                                       *)

LEMMA BeganKnows ==
  ASSUME NEW v, NEW at \in {"fetch", "create", "edit", "delete"}, NEW as \in {"def", "thread"},
         NEW n \in Note \cup {None}, NEW c \in Content \cup {None},
         n \in Note => v[n] # Unborn /\ (as = "thread" => n \in Thread),
         at # "create" => n \in Note, at \in {"create", "edit"} => c \in Content
  PROVE  Requested(at, as, n, c) \in Tasks /\ TaskKnows(Requested(at, as, n, c), v)
<1> PICK R : R = Requested(at, as, n, c)
  OBVIOUS
<1>1. R \in Tasks /\ R.at = at /\ R.as = as /\ R.s.note = n /\ R.s.c = c /\ R.todo = {}
  BY DEF Requested, Idle, NoSnap, Tasks, Places, Status, Blank
<1>2. TaskKnows(R, v)
  BY <1>1, Values DEF TaskKnows
<1> QED  BY <1>1, <1>2

LEMMA StartKeeps ==
  ASSUME DefsInv, NEW t \in Request, Start(t)  PROVE  DefsInv' /\ live' = live
<1>0. DefsTypeOK /\ BornOnly /\ t \in Task
  BY Values DEF DefsInv
<1>1. /\ UNCHANGED <<vault, stamp, live, seen>> /\ Advances /\ events' \subseteq events
      /\ left' \in [{"writes", "faults", "restarts"} -> Nat]
  BY <1>0, Spent DEF Start, Webhook, DeleteDef, EditDef, CreateDef, world, memory, Advances, DefsTypeOK
<1>2. \E R \in Tasks : task' = [task EXCEPT ![t] = R] /\ TaskKnows(R, vault)
  <2>1. ASSUME NEW n \in Note, Webhook(t, n)
        PROVE  \E R \in Tasks : task' = [task EXCEPT ![t] = R] /\ TaskKnows(R, vault)
    <3> PICK k : k = KindOf(n)
      OBVIOUS
    <3>1. k \in {"def", "thread"} /\ (k = "thread" => n \in Thread) /\ vault[n] # Unborn
      BY <1>0, <2>1 DEF KindOf, Note, Webhook, BornOnly
    <3> PICK Q : Q = Requested("fetch", k, n, None)
      OBVIOUS
    <3>2. Q \in Tasks /\ TaskKnows(Q, vault)
      BY <3>1, BeganKnows
    <3>3. task' = [task EXCEPT ![t] = Q] \/ task' = [task EXCEPT ![t] = Idle]
      BY <2>1 DEF Webhook, To
    <3> QED  BY <3>2, <3>3, IdleTask
  <2>2. ASSUME NEW n \in Note, DeleteDef(t, n)
        PROVE  \E R \in Tasks : task' = [task EXCEPT ![t] = R] /\ TaskKnows(R, vault)
    <3> PICK Q : Q = Requested("delete", "def", n, None)
      OBVIOUS
    <3>1. vault[n] # Unborn
      BY <1>0, <2>2 DEF DeleteDef, Live, BornOnly
    <3>2. Q \in Tasks /\ TaskKnows(Q, vault)
      BY <3>1, BeganKnows
    <3>3. task' = [task EXCEPT ![t] = Q]
      BY <2>2 DEF DeleteDef, To
    <3> QED  BY <3>2, <3>3
  <2>3. ASSUME NEW n \in Note, NEW c \in Contents[n], EditDef(t, n, c)
        PROVE  \E R \in Tasks : task' = [task EXCEPT ![t] = R] /\ TaskKnows(R, vault)
    <3> PICK Q : Q = Requested("edit", "def", n, c)
      OBVIOUS
    <3>1. vault[n] # Unborn /\ c \in Content
      BY <1>0, <2>3, ContentsFit DEF EditDef, Live, BornOnly
    <3>2. Q \in Tasks /\ TaskKnows(Q, vault)
      BY <3>1, BeganKnows
    <3>3. task' = [task EXCEPT ![t] = Q]
      BY <2>3 DEF EditDef, To
    <3> QED  BY <3>2, <3>3
  <2>4. ASSUME NEW d \in Def, NEW c \in Contents[d], CreateDef(t, c)
        PROVE  \E R \in Tasks : task' = [task EXCEPT ![t] = R] /\ TaskKnows(R, vault)
    <3> PICK Q : Q = Requested("create", "def", None, c)
      OBVIOUS
    <3>1. c \in Content
      BY ContentsFit, Values
    <3>2. Q \in Tasks /\ TaskKnows(Q, vault)
      BY <3>1, BeganKnows, Values
    <3>3. task' = [task EXCEPT ![t] = Q]
      BY <2>4 DEF CreateDef, To
    <3> QED  BY <3>2, <3>3
  <2> QED  BY <2>1, <2>2, <2>3, <2>4 DEF Start
<1>3. task' \in [Task -> Tasks] /\ \A u \in Task : TaskKnows(task'[u], vault')
  BY <1>0, <1>1, <1>2, TaskMoves DEF DefsTypeOK
<1> QED  BY <1>1, <1>3, SameAgents

LEMMA FetchKeeps ==
  ASSUME DefsInv, NEW t \in Request, Fetch(t) \/ ForgetGrants(t)  PROVE  DefsInv' /\ live' = live
<1> PICK r, n : r = task[t] /\ n = r.s.note
  OBVIOUS
<1>0. DefsTypeOK /\ BornOnly /\ t \in Task /\ r \in Tasks /\ TaskKnows(r, vault)
  BY Values DEF DefsInv, DefsTypeOK
<1>1. /\ UNCHANGED <<vault, stamp, events, live, seen>> /\ Advances
      /\ left' \in [{"writes", "faults", "restarts"} -> Nat]
  BY <1>0, Spent DEF Fetch, ForgetGrants, ReconcileGrants, world, memory, Advances, DefsTypeOK
<1>2. \E R \in Tasks : task' = [task EXCEPT ![t] = R] /\ TaskKnows(R, vault)
  <2>1. CASE To(t, Idle)
    BY <2>1, IdleTask DEF To
  <2>2. CASE Fetch(t) /\ Holds(n) /\ To(t, [r EXCEPT !.at = "begin", !.s = Snap(n)])
    <3> PICK s : s = Snap(n)
      OBVIOUS
    <3> PICK R : R = [r EXCEPT !.at = "begin", !.s = s]
      OBVIOUS
    <3>1. n \in Note /\ r.at = "fetch"
      BY <1>0, <2>2 DEF Fetch, TaskKnows
    <3>2. s \in Snaps /\ s.note = n /\ s.c \in Content
      BY <1>0, <2>2, <3>1, SnapFits DEF Holds
    <3>3. s \in [note : Note \cup {None}, c : Content \cup {None}, stamp : Status]
      BY <3>2 DEF Snaps
    <3>4. R \in Tasks /\ R.at = "begin" /\ R.s = s /\ R.as = r.as /\ R.todo = r.todo
      BY <1>0, <3>3 DEF Tasks, Places
    <3>5. TaskKnows(R, vault)
      BY <1>0, <3>1, <3>2, <3>4 DEF TaskKnows
    <3>6. task' = [task EXCEPT ![t] = R]
      BY <2>2 DEF To
    <3> QED  BY <3>4, <3>5, <3>6
  <2>3. CASE Fetch(t) /\ ~Holds(n) /\ To(t, [r EXCEPT !.at = "removed"])
    <3> PICK R : R = [r EXCEPT !.at = "removed"]
      OBVIOUS
    <3>1. n \in Note /\ r.at = "fetch" /\ vault[n] # Unborn
      BY <1>0, <2>3 DEF Fetch, TaskKnows
    <3>2. vault[n] = Gone
      BY <1>0, <2>3, <3>1 DEF Holds, DefsTypeOK, Vaults
    <3>3. R \in Tasks /\ R.at = "removed" /\ R.s = r.s /\ R.as = r.as /\ R.todo = r.todo
      BY <1>0, PlaceSet DEF Places
    <3>4. TaskKnows(R, vault)
      BY <1>0, <3>1, <3>2, <3>3 DEF TaskKnows
    <3>5. task' = [task EXCEPT ![t] = R]
      BY <2>3 DEF To
    <3> QED  BY <3>3, <3>4, <3>5
  <2> QED  BY <2>1, <2>2, <2>3 DEF Fetch, ForgetGrants
<1>3. task' \in [Task -> Tasks] /\ \A u \in Task : TaskKnows(task'[u], vault')
  BY <1>0, <1>1, <1>2, TaskMoves DEF DefsTypeOK
<1> QED  BY <1>1, <1>3, SameAgents

LEMMA ConfirmKeeps ==
  ASSUME DefsInv, NEW t \in Request, ConfirmRemoval(t)  PROVE  DefsInv' /\ TakenDownRightly
<1> PICK r, n : r = task[t] /\ n = r.s.note
  OBVIOUS
<1>0. /\ DefsTypeOK /\ BornOnly /\ t \in Task /\ t # Poller /\ r \in Tasks /\ TaskKnows(r, vault)
      /\ r.at = "removed" /\ n \in Note /\ vault[n] = Gone
  BY Values DEF DefsInv, DefsTypeOK, ConfirmRemoval, TaskKnows
<1>1. UNCHANGED <<vault, stamp, events, left>> /\ Advances
  BY DEF ConfirmRemoval, world, Advances
<1>2. live' = live \/ deregisterByNote(n)
  BY DEF ConfirmRemoval
<1>3. /\ live' \in [Note -> LiveAgent \cup {None}]
      /\ \A m \in Note : live'[m] = live[m] \/ (m = n /\ live'[m] = None)
  BY <1>0, <1>2, Deregistered DEF DefsTypeOK
<1>4. seen' = seen \/ seen' = [d \in Def |-> IF d = n THEN None ELSE seen[d]]
  BY DEF ConfirmRemoval
<1>5. task' \in [Task -> Tasks] /\ \A u \in Task : TaskKnows(task'[u], vault')
  <2>1. CASE To(t, Idle)
    BY <2>1, <1>0, <1>1, IdleTask, TaskMoves DEF To, DefsTypeOK
  <2>2. CASE r.as # "thread"
    <3> PICK a : a = IF Live(n) THEN live[n].name ELSE IF n \in Def THEN seen[n] ELSE None
      OBVIOUS
    <3> PICK X, q : /\ X = IF Hub /\ a \in Name THEN [r EXCEPT !.at = "forget", !.name = a] ELSE Idle
                    /\ q = task[Poller]
      OBVIOUS
    <3> PICK Q : Q = [q EXCEPT !.past = @ \ {n}]
      OBVIOUS
    <3>0. task \in [Task -> Tasks] /\ t # Poller /\ t \in Task /\ Poller \in Task
      BY <1>0, Values DEF DefsTypeOK
    <3>1. task' = [task EXCEPT ![t] = X, ![Poller] = Q]
      BY <2>2, <3>0 DEF ConfirmRemoval
    <3>2. X \in Tasks /\ TaskKnows(X, vault)
      <4> PICK Y : Y = [r EXCEPT !.at = "forget", !.name = a]
        OBVIOUS
      <4>1. ASSUME a \in Name
            PROVE  Y \in Tasks /\ Y.at = "forget" /\ Y.s = r.s /\ Y.as = r.as /\ Y.todo = r.todo
        BY <1>0, <4>1 DEF Tasks, Places
      <4>2. a \in Name => TaskKnows(Y, vault)
        BY <4>1, <1>0 DEF TaskKnows
      <4> QED  BY <4>1, <4>2, IdleTask
    <3>3. q \in Tasks /\ TaskKnows(q, vault) /\ task \in [Task -> Tasks]
      BY Values DEF DefsInv, DefsTypeOK
    <3>4. /\ Q \in Tasks /\ Q.at = q.at /\ Q.s = q.s /\ Q.as = q.as /\ Q.todo = q.todo /\ Q.knew = q.knew
      BY <3>3 DEF Tasks
    <3>5. TaskKnows(Q, vault)
      BY <3>3, <3>4 DEF TaskKnows
    <3> QED  BY <1>0, <1>1, <3>1, <3>2, <3>3, <3>4, <3>5, Values DEF DefsInv
  <2> QED  BY <2>1, <2>2 DEF ConfirmRemoval
<1>6. DefsTypeOK' /\ BornOnly'
  BY <1>0, <1>1, <1>3, <1>4, <1>5 DEF DefsTypeOK, BornOnly
<1>7. TakenDownRightly
  BY <1>0, <1>3 DEF TakenDownRightly, Live
<1> QED  BY <1>5, <1>6, <1>7 DEF DefsInv

\* A call writes a note, or deletes one, or fails.
LEMMA WriteKeeps ==
  ASSUME DefsInv, NEW t \in Request, CreateNote(t) \/ PatchNote(t) \/ DeleteNote(t)  PROVE  DefsInv' /\ live' = live
<1> PICK r : r = task[t]
  OBVIOUS
<1>0. DefsTypeOK /\ BornOnly /\ t \in Task /\ r \in Tasks /\ TaskKnows(r, vault)
  BY Values DEF DefsInv, DefsTypeOK
<1>1. /\ UNCHANGED <<stamp, live, seen>>
      /\ left' \in [{"writes", "faults", "restarts"} -> Nat]
  BY <1>0, Spent DEF CreateNote, PatchNote, DeleteNote, memory, DefsTypeOK
<1>2. ASSUME NEW n \in Note, NEW c \in Content, vault[n] # Gone, vault' = [vault EXCEPT ![n] = c],
             events' \subseteq events \cup {n}, ReloadDef(t, n)
      PROVE  /\ vault' \in Vaults /\ Advances /\ events' \subseteq Note
             /\ \A m \in events' : vault'[m] # Unborn
             /\ \E R \in Tasks : task' = [task EXCEPT ![t] = R] /\ TaskKnows(R, vault')
  <2>1. vault' \in Vaults /\ Advances /\ vault'[n] # Unborn
    BY <1>0, <1>2, Values DEF DefsTypeOK, Vaults, Advances
  <2>2. events' \subseteq Note /\ \A m \in events' : vault'[m] # Unborn
    BY <1>0, <1>2, <2>1 DEF DefsTypeOK, BornOnly, Advances
  <2> PICK Q : Q = Requested("fetch", "def", n, None)
    OBVIOUS
  <2> PICK w : w = vault'
    OBVIOUS
  <2>3. Q \in Tasks /\ TaskKnows(Q, w)
    BY <2>1, BeganKnows
  <2>4. task' = [task EXCEPT ![t] = Q] \/ task' = [task EXCEPT ![t] = Idle]
    BY <1>2 DEF ReloadDef, To
  <2> QED  BY <2>1, <2>2, <2>3, <2>4, IdleTask
<1>3. /\ vault' \in Vaults /\ Advances /\ events' \subseteq Note
      /\ \A m \in events' : vault'[m] # Unborn
      /\ \E R \in Tasks : task' = [task EXCEPT ![t] = R] /\ TaskKnows(R, vault')
  <2>1. CASE To(t, Idle) /\ vault' = vault /\ events' = events
    BY <2>1, <1>0, IdleTask DEF To, Advances, DefsTypeOK, BornOnly
  <2>2. CASE CreateNote(t) /\ ~(To(t, Idle) /\ vault' = vault /\ events' = events)
    <3> PICK d \in Def : /\ vault[d] = Unborn /\ r.s.c \in Contents[d]
                         /\ vault' = [vault EXCEPT ![d] = r.s.c]
                         /\ events' = events \cup {d}
                         /\ ReloadDef(t, d)
      BY <2>2 DEF CreateNote
    <3> QED  BY <1>2, ContentsFit, Values
  <2>3. CASE PatchNote(t) /\ ~(To(t, Idle) /\ vault' = vault /\ events' = events)
    <3>1. r.at = "edit" /\ r.s.note \in Note /\ r.s.c \in Content
      BY <1>0, <2>3 DEF PatchNote, TaskKnows
    <3>2. /\ Holds(r.s.note) /\ vault' = [vault EXCEPT ![r.s.note] = r.s.c]
          /\ events' = events \cup Fires(r.s.note) /\ ReloadDef(t, r.s.note)
      BY <2>3 DEF PatchNote
    <3>3. Fires(r.s.note) \subseteq {r.s.note} /\ vault[r.s.note] # Gone
      BY <3>2, Values DEF Fires, Holds
    <3> QED  BY <1>2, <3>1, <3>2, <3>3
  <2>4. CASE DeleteNote(t) /\ ~(To(t, Idle) /\ vault' = vault /\ events' = events)
    <3> PICK n : n = r.s.note
      OBVIOUS
    <3>1. r.at = "delete" /\ n \in Note /\ vault[n] # Unborn
      BY <1>0, <2>4 DEF DeleteNote, TaskKnows
    <3>2. vault' = [vault EXCEPT ![n] = Gone] /\ events' = events /\ task' = [task EXCEPT ![t] = [r EXCEPT !.at = "removed"]]
      BY <2>4 DEF DeleteNote, Goes, To
    <3>3. vault' \in Vaults /\ Advances /\ vault'[n] = Gone
      BY <1>0, <3>1, <3>2, Values DEF DefsTypeOK, Vaults, Advances
    <3>4. \A m \in events' : vault'[m] # Unborn
      BY <1>0, <3>2, <3>3 DEF DefsTypeOK, BornOnly, Advances
    <3> PICK R : R = [r EXCEPT !.at = "removed"]
      OBVIOUS
    <3>5. R \in Tasks /\ R.at = "removed" /\ R.s = r.s /\ R.as = r.as /\ R.todo = r.todo
      BY <1>0, PlaceSet DEF Places
    <3>6. TaskKnows(r, vault')
      BY <1>0, <3>3, KnowsOn DEF DefsTypeOK, Advances
    <3>7. TaskKnows(R, vault')
      BY <3>1, <3>3, <3>5, <3>6 DEF TaskKnows
    <3> QED  BY <1>0, <3>2, <3>3, <3>4, <3>5, <3>7 DEF DefsTypeOK
  <2> QED  BY <2>1, <2>2, <2>3, <2>4
<1>4. task' \in [Task -> Tasks] /\ \A u \in Task : TaskKnows(task'[u], vault')
  BY <1>0, <1>3, TaskMoves
<1>5. DefsTypeOK' /\ BornOnly'
  BY <1>0, <1>1, <1>3, <1>4, Values DEF DefsTypeOK, BornOnly, Advances
<1> QED  BY <1>1, <1>4, <1>5 DEF DefsInv

LEMMA DefsInitial == Init => DefsInv
<1> SUFFICES ASSUME Init  PROVE  DefsInv
  OBVIOUS
<1>1. /\ vault \in Vaults /\ stamp \in [Note -> Status] /\ events = {} /\ live = Nothing
      /\ seen = [d \in Def |-> None] /\ task = [t \in Task |-> Idle]
      /\ left = [writes |-> MaxWrites, faults |-> MaxFaults, restarts |-> MaxRestarts]
  <2>1. \A n \in Note : Contents[n] \subseteq Content
    BY ContentsFit
  <2>2. Blank \in Status
    BY DEF Status
  <2> QED  BY <2>1, <2>2 DEF Init, Vaults
<1>2. left \in [{"writes", "faults", "restarts"} -> Nat]
  BY <1>1, SettingAssumption
<1>3. task \in [Task -> Tasks] /\ \A t \in Task : TaskKnows(task[t], vault)
  BY <1>1, IdleTask
<1>4. DefsTypeOK /\ BornOnly
  BY <1>1, <1>2, <1>3 DEF DefsTypeOK, BornOnly, Nothing
<1> QED  BY <1>3, <1>4 DEF DefsInv

LEMMA DefsStep == DefsInv /\ [Next]_vars => DefsInv' /\ TakenDownRightly
<1> SUFFICES ASSUME DefsInv, [Next]_vars  PROVE  DefsInv' /\ TakenDownRightly
  OBVIOUS
<1>1. CASE DefsInv' /\ live' = live
  BY <1>1, NobodyFalls
<1>2. CASE World
  <2>1. CASE \E n \in Note : (\E c \in Contents[n] : AuthorWrites(n, c)) \/ AuthorDeletes(n) \/ LoseEvent(n)
    BY <1>1, <2>1, WorldKeeps
  <2>2. CASE \E a \in Name, g \in Conn : Approve(a, g)
    <3>1. UNCHANGED <<vault, stamp, events, live, seen, task, left>>
      BY <2>2 DEF Approve, memory
    <3>2. DefsInv'
      BY <3>1 DEF DefsInv, DefsTypeOK, BornOnly
    <3> QED  BY <1>1, <3>1, <3>2
  <2> QED  BY <1>2, <2>1, <2>2 DEF World
<1>3. CASE Restart
  BY <1>3, RestartKeeps
<1>4. CASE Tick
  BY <1>1, <1>4, PollKeeps
<1>5. CASE Poll
  <2>1. CASE ListDefs
    BY <1>1, <2>1, ListKeeps
  <2>2. CASE rebuildSeenDefs
    BY <1>1, <2>2, RebuildKeeps
  <2>3. CASE PruneRemovedGrants \/ ListThreads \/ NextNote
    BY <1>1, <2>3, PollKeeps
  <2> QED  BY <1>5, <2>1, <2>2, <2>3, PrunedFalls DEF Poll
<1>6. CASE \E t \in Task : Step(t)
  <2> PICK t \in Task : Step(t)
    BY <1>6
  <2>1. CASE StampError(t)
    BY <1>1, <2>1, StampErrorKeeps
  <2>2. CASE Ask(t)
    BY <1>1, <2>2, AskKeeps
  <2>3. CASE Stamp(t)
    BY <1>1, <2>3, StampKeeps
  <2>4. CASE PruneUnwanted(t)
    BY <1>1, <2>4, PruneKeeps
  <2> QED  BY <2>1, <2>2, <2>3, <2>4, InstantiateKeeps, SettleKeeps DEF Step
<1>7. CASE \E t \in Request : Start(t) \/ Call(t)
  <2> PICK t \in Request : Start(t) \/ Call(t)
    BY <1>7
  <2>1. CASE Start(t)
    BY <1>1, <2>1, StartKeeps
  <2>2. CASE Fetch(t) \/ ForgetGrants(t)
    BY <1>1, <2>2, FetchKeeps
  <2>3. CASE CreateNote(t) \/ PatchNote(t) \/ DeleteNote(t)
    BY <1>1, <2>3, WriteKeeps
  <2> QED  BY <2>1, <2>2, <2>3, ConfirmKeeps DEF Call
<1>8. CASE UNCHANGED vars
  <2>1. UNCHANGED <<vault, stamp, events, live, seen, task, left>>
    BY <1>8 DEF vars, world, memory
  <2>2. DefsInv'
    BY <2>1 DEF DefsInv, DefsTypeOK, BornOnly
  <2> QED  BY <1>1, <2>1, <2>2
<1> QED  BY <1>2, <1>3, <1>4, <1>5, <1>6, <1>7, <1>8 DEF Next

(* Whatever tasks overlap, whatever lists fail, are cut at the cap or come *)
(* late, whatever events are lost: a live agent is taken down only when    *)
(* its note is gone, by a restart, for a definition of its name, as a      *)
(* thread that was disabled, or as a newcomer to a poll under way.         *)
THEOREM OnlyTheGoneFall == Spec => OnlyTheGone
<1>1. DefsInv /\ [Next]_vars => [TakenDownRightly]_vars
  BY DefsStep
<1>2. DefsInv /\ [Next]_vars => DefsInv'
  BY DefsStep
<1>3. Spec => [][TakenDownRightly]_vars
  BY <1>1, <1>2, DefsInitial, PTL DEF Spec
<1>4. OnlyTheGone <=> [][TakenDownRightly]_vars
  BY DEF OnlyTheGone, TakenDownRightly
<1> QED  BY <1>3, <1>4

-----------------------------------------------------------------------------
(* AgentDefs: what is pruned at the hub, where tasks do not overlap.        *)

\* Every definition keeps a name of its own.
DefsHaveOwnNames ==
  \A d, e \in Def : \A b \in Contents[d], c \in Contents[e] : b.name = c.name <=> d = e

\* No definition is live under the name.
NoDefIs(L, a) == \A d \in Def : L[d] # None => L[d].name # a

\* What a task is about while L is live: a version of its note; a thread that
\* it brings up bears no definition's name; and what is wiped at the hub, even
\* so.
Minds(r, L) ==
  /\ r.at \in {"begin", "ask", "stamp", "gc", "edit"} => r.s.c \in Contents[r.s.note]
  /\ \A s \in r.todo : s.c \in Contents[s.note]
  /\ r.at \in {"ask", "stamp", "gc"} => (r.s.note \in Thread => r.as = "thread")
  /\ r.at = "gc" => ~r.fast
  /\ r.at \in {"ask", "stamp", "gc"} /\ r.as = "thread" /\ ~r.fast => NoDefIs(L, r.s.c.name)
  /\ r.at \in {"pruneHub", "forget"} => NoDefIs(L, r.name)

OneAtATime == \A t, u \in Task : task[t].at # "idle" /\ task[u].at # "idle" => t = u
VaultHolds == \A n \in Note : vault[n] \in Contents[n] \cup {Unborn, Gone}
KnownRightly == \A d \in Def : seen[d] \in {None, NoName} \/ \E c \in Contents[d] : seen[d] = c.name
RightlyLive(L) ==
  /\ \A d \in Def : L[d] # None => \E c \in Contents[d] : L[d].name = c.name
  /\ \A n \in Thread : L[n] # None => L[n].source = "thread"
  /\ \A d \in Def, n \in Thread : L[d] # None /\ L[n] # None => L[d].name # L[n].name
TasksMind == OneAtATime /\ \A t \in Task : Minds(task[t], live)
HubTyped == hub \in [Name -> [Conn -> {"none", "pending", "approved"}]]
CalmInv == HubTyped /\ DefsInv /\ TasksMind /\ VaultHolds /\ KnownRightly /\ RightlyLive(live)

\* A step of a task that is at work, or of one that starts while all are idle.
Acts(t) == task[t].at # "idle" \/ AllIdle

LEMMA IdleMinds == Idle.at = "idle" /\ \A L : Minds(Idle, L)
<1>1. Idle.at = "idle" /\ Idle.todo = {}
  BY DEF Idle
<1> QED  BY <1>1 DEF Minds

LEMMA OthersIdle ==
  ASSUME OneAtATime, NEW t \in Task, Acts(t), NEW u \in Task \ {t}  PROVE  task[u].at = "idle"
<1> QED  BY DEF OneAtATime, Acts, AllIdle

LEMMA IdleMindsAny ==
  ASSUME NEW r, NEW L, NEW M, r.at = "idle", Minds(r, L)  PROVE  Minds(r, M)
<1> QED  BY DEF Minds

\* The one task at work moves.
LEMMA MindMoves ==
  ASSUME CalmInv, NEW t \in Task, Acts(t), NEW R, task' = [task EXCEPT ![t] = R], Minds(R, live')
  PROVE  TasksMind'
<1>0. task \in [Task -> Tasks] /\ OneAtATime /\ \A u \in Task : Minds(task[u], live)
  BY DEF CalmInv, DefsInv, DefsTypeOK, TasksMind
<1>1. task'[t] = R /\ \A u \in Task \ {t} : task'[u] = task[u] /\ task[u].at = "idle"
  BY <1>0, OthersIdle
<1>2. OneAtATime'
  BY <1>1 DEF OneAtATime
<1>3. ASSUME NEW u \in Task  PROVE  Minds(task'[u], live')
  <2>1. CASE u = t
    BY <1>1, <2>1
  <2>2. CASE u # t
    BY <1>0, <1>1, <2>2, IdleMindsAny
  <2> QED  BY <2>1, <2>2
<1> QED  BY <1>2, <1>3 DEF TasksMind

\* A place that asks for nothing.
LEMMA PlaceMinds ==
  ASSUME NEW r \in Tasks, NEW L, NEW M, Minds(r, L), NEW p \in Places, NEW R, R = [r EXCEPT !.at = p],
         p \notin {"begin", "ask", "stamp", "gc", "edit", "pruneHub", "forget"}
  PROVE  Minds(R, M)
<1>1. R.at = p /\ R.todo = r.todo
  BY DEF Tasks
<1> QED  BY <1>1 DEF Minds

LEMMA FinishMinds ==
  ASSUME CalmInv, NEW t \in Task, Acts(t), Finish(t)  PROVE  TasksMind'
<1>0. task[t] \in Tasks /\ Minds(task[t], live)
  BY DEF CalmInv, DefsInv, DefsTypeOK, TasksMind
<1>1. CASE t = Poller
  <2> PICK R : R = [task[t] EXCEPT !.at = "each"]
    OBVIOUS
  <2>1. task' = [task EXCEPT ![t] = R]
    BY <1>1 DEF Finish, To
  <2>2. Minds(R, live')
    BY <1>0, PlaceMinds DEF Places
  <2> QED  BY <2>1, <2>2, MindMoves
<1>2. CASE t # Poller
  BY <1>2, IdleMinds, MindMoves DEF Finish, To
<1> QED  BY <1>1, <1>2

\* What is left where no agent, note or name changes.
LEMMA MindOnly ==
  ASSUME CalmInv, DefsInv', HubTyped', TasksMind', live' = live, seen' = seen, vault' = vault  PROVE  CalmInv'
<1> QED  BY DEF CalmInv, VaultHolds, KnownRightly, RightlyLive

LEMMA FewerLive ==
  ASSUME NEW L, NEW M, RightlyLive(L), \A n \in Note : M[n] = L[n] \/ M[n] = None
  PROVE  RightlyLive(M) /\ \A a : NoDefIs(L, a) => NoDefIs(M, a)
<1>1. Def \subseteq Note /\ Thread \subseteq Note
  BY Values
<1> QED  BY <1>1 DEF RightlyLive, NoDefIs

LEMMA HubKept == ASSUME CalmInv, hub' = hub  PROVE  HubTyped' /\ GrantsStay
<1> QED  BY DEF GrantsStay, CalmInv, HubTyped

LEMMA SnapMinds ==
  ASSUME CalmInv, NEW n \in Note, Holds(n)  PROVE  Snap(n).note = n /\ Snap(n).c \in Contents[n]
<1>1. vault[n] \in Contents[n] \cup {Unborn, Gone} /\ vault[n] \in Content
  BY DEF CalmInv, VaultHolds, Holds
<1> QED  BY <1>1, Values DEF Snap

LEMMA WorldMinds ==
  ASSUME CalmInv, DefsInv', World  PROVE  CalmInv' /\ GrantsStay
<1>1. UNCHANGED <<live, seen, task>>
  BY DEF World, AuthorWrites, AuthorDeletes, LoseEvent, Approve, memory
<1>2. VaultHolds'
  <2>1. ASSUME NEW n \in Note, NEW c \in Contents[n], AuthorWrites(n, c)  PROVE  VaultHolds'
    BY <2>1 DEF AuthorWrites, CalmInv, VaultHolds, DefsInv, DefsTypeOK, Vaults
  <2>2. ASSUME NEW n \in Note, AuthorDeletes(n)  PROVE  VaultHolds'
    BY <2>2 DEF AuthorDeletes, CalmInv, VaultHolds, DefsInv, DefsTypeOK, Vaults
  <2>3. CASE vault' = vault
    BY <2>3 DEF CalmInv, VaultHolds
  <2> QED  BY <2>1, <2>2, <2>3 DEF World, LoseEvent, Approve
<1>3. TasksMind'
  BY <1>1 DEF CalmInv, TasksMind, OneAtATime
<1>4. HubTyped' /\ GrantsStay
  <2>1. CASE hub' = hub
    BY <2>1, HubKept
  <2>2. ASSUME NEW a \in Name, NEW g \in Conn, Approve(a, g)  PROVE  HubTyped' /\ GrantsStay
    <3>1. hub[a][g] = "pending" /\ hub' = [hub EXCEPT ![a][g] = "approved"]
      BY <2>2 DEF Approve
    <3> QED  BY <3>1 DEF GrantsStay, CalmInv, HubTyped
  <2> QED  BY <2>1, <2>2 DEF World, AuthorWrites, AuthorDeletes, LoseEvent
<1> QED  BY <1>1, <1>2, <1>3, <1>4 DEF CalmInv, KnownRightly, RightlyLive

LEMMA RestartMinds ==
  ASSUME CalmInv, DefsInv', Restart  PROVE  CalmInv' /\ GrantsStay
<1>1. /\ UNCHANGED <<vault, hub>> /\ live' = Nothing /\ seen' = [d \in Def |-> None]
      /\ task' = [t \in Task |-> Idle]
  BY DEF Restart, world
<1>2. TasksMind'
  BY <1>1, IdleMinds DEF TasksMind, OneAtATime
<1>3. KnownRightly' /\ RightlyLive(live')
  BY <1>1, Values DEF KnownRightly, RightlyLive, Nothing
<1> QED  BY <1>1, <1>2, <1>3, HubKept DEF CalmInv, VaultHolds, RightlyLive

LEMMA PolledMinds ==
  ASSUME NEW at \in {"idle", "each", "listThreads", "list"}  PROVE  \A L : Minds(PollAt(at), L)
<1> PICK R : R = [Idle EXCEPT !.at = at]
  OBVIOUS
<1>1. R.at = at /\ R.todo = {}
  BY DEF Idle
<1>2. \A L : Minds(R, L)
  BY <1>1 DEF Minds
<1> QED  BY <1>2, IdleMinds DEF PollAt

LEMMA TickMinds ==
  ASSUME ~Overlap, CalmInv, DefsInv', Tick  PROVE  CalmInv' /\ GrantsStay
<1> PICK r, p : r = task[Poller] /\ p = IF Discovery = "thread" THEN "listThreads" ELSE "list"
  OBVIOUS
<1>0. r \in Tasks /\ Minds(r, live) /\ Acts(Poller) /\ Poller \in Task
  BY Values DEF CalmInv, DefsInv, DefsTypeOK, TasksMind, Tick, MayStart, Acts
<1> PICK R : R = [r EXCEPT !.at = p]
  OBVIOUS
<1>1. task' = [task EXCEPT ![Poller] = R] /\ UNCHANGED <<vault, hub, live, seen>>
  BY DEF Tick, Goes, To, world, memory
<1>2. Minds(R, live')
  BY <1>0, PlaceMinds DEF Places
<1>3. TasksMind'
  BY <1>0, <1>1, <1>2, MindMoves
<1> QED  BY <1>1, <1>3, MindOnly, HubKept

LEMMA ListMinds ==
  ASSUME CalmInv, DefsInv', ListDefs \/ ListThreads  PROVE  CalmInv' /\ GrantsStay
<1>0. Acts(Poller) /\ Poller \in Task
  BY Values DEF ListDefs, ListThreads, Acts
<1>1. UNCHANGED <<vault, hub, live, seen>>
  BY DEF ListDefs, ListThreads, world, memory
<1>2. ASSUME NEW P \in SUBSET Note, \A n \in P : Holds(n),
             NEW T, T = {Snap(n) : n \in P}, NEW R, R.todo = T, R.at \in {"prune", "each"},
             task' = [task EXCEPT ![Poller] = R]
      PROVE  TasksMind'
  <2>1. \A s \in T : s.c \in Contents[s.note]
    BY <1>2, SnapMinds
  <2>2. Minds(R, live')
    BY <1>2, <2>1 DEF Minds
  <2> QED  BY <1>0, <1>2, <2>2, MindMoves
<1>3. TasksMind'
  <2>1. CASE To(Poller, PollAt(Threads)) \/ To(Poller, Idle)
    BY <2>1, <1>0, IdleMinds, PolledMinds, MindMoves DEF To, Threads
  <2>2. CASE \E P \in Page(Listed(Def)) :
               To(Poller, [Idle EXCEPT !.at = IF Confident(P) THEN "prune" ELSE "each",
                           !.todo = {Snap(n) : n \in P}, !.knew = {d \in Def : seen[d] # None}])
    <3> PICK P \in Page(Listed(Def)) :
               To(Poller, [Idle EXCEPT !.at = IF Confident(P) THEN "prune" ELSE "each",
                           !.todo = {Snap(n) : n \in P}, !.knew = {d \in Def : seen[d] # None}])
      BY <2>2
    <3> PICK K, T, p : /\ K = {d \in Def : seen[d] # None} /\ T = {Snap(n) : n \in P}
                       /\ p = IF Confident(P) THEN "prune" ELSE "each"
      OBVIOUS
    <3> PICK R : R = [Idle EXCEPT !.at = p, !.todo = T, !.knew = K]
      OBVIOUS
    <3>1. R.at = p /\ R.todo = T
      BY DEF Idle
    <3>2. P \in SUBSET Note /\ \A n \in P : Holds(n)
      BY Values DEF Page, Listed
    <3>3. task' = [task EXCEPT ![Poller] = R]
      BY DEF To
    <3> QED  BY <1>2, <3>1, <3>2, <3>3
  <2>3. CASE \E P \in Page(Listed(Thread)) :
               To(Poller, [Idle EXCEPT !.at = "each", !.as = "thread", !.todo = {Snap(n) : n \in P}])
    <3> PICK P \in Page(Listed(Thread)) :
               To(Poller, [Idle EXCEPT !.at = "each", !.as = "thread", !.todo = {Snap(n) : n \in P}])
      BY <2>3
    <3> PICK T : T = {Snap(n) : n \in P}
      OBVIOUS
    <3> PICK R : R = [Idle EXCEPT !.at = "each", !.as = "thread", !.todo = T]
      OBVIOUS
    <3>1. R.at = "each" /\ R.todo = T
      BY DEF Idle
    <3>2. P \in SUBSET Note /\ \A n \in P : Holds(n)
      BY Values DEF Page, Listed
    <3>3. task' = [task EXCEPT ![Poller] = R]
      BY DEF To
    <3> QED  BY <1>2, <3>1, <3>2, <3>3
  <2> QED  BY <2>1, <2>2, <2>3 DEF ListDefs, ListThreads
<1> QED  BY <1>1, <1>3, MindOnly, HubKept

\* A definition that is pruned is not live, and no other one has its name.
LEMMA PruneMinds ==
  ASSUME DefsHaveOwnNames, CalmInv, DefsInv', NEW d \in Def, PruneRemoved(d)  PROVE  CalmInv' /\ GrantsStay
<1> PICK r, p : r = task[Poller] /\ p = IF Hub /\ seen[d] # NoName THEN "pruneHub" ELSE "prune"
  OBVIOUS
<1>0. r \in Tasks /\ Minds(r, live) /\ Acts(Poller) /\ Poller \in Task /\ d \in Note /\ DefsTypeOK
  BY Values DEF CalmInv, DefsInv, DefsTypeOK, TasksMind, PruneRemoved, Acts
<1> PICK R : R = [r EXCEPT !.past = @ \cup {d}, !.name = seen[d], !.at = p]
  OBVIOUS
<1>1. task' = [task EXCEPT ![Poller] = R] /\ UNCHANGED <<vault, hub, seen>> /\ d \in Removed
  BY DEF PruneRemoved, To, world
<1>2. \A m \in Note : live'[m] = IF m = d THEN None ELSE live[m]
  BY <1>0, Deregistered DEF PruneRemoved
<1>3. RightlyLive(live')
  BY <1>2, FewerLive DEF CalmInv
<1>4. p = "pruneHub" => NoDefIs(live', seen[d])
  <2> SUFFICES ASSUME p = "pruneHub", NEW e \in Def, live'[e] # None  PROVE  live'[e].name # seen[d]
    BY DEF NoDefIs
  <2>1. PICK c \in Contents[d] : seen[d] = c.name
    BY <1>1 DEF Removed, CalmInv, KnownRightly
  <2>2. e # d
    BY <1>0, <1>2
  <2>3. PICK b \in Contents[e] : live'[e].name = b.name
    BY <1>3 DEF RightlyLive
  <2> QED  BY <2>1, <2>2, <2>3 DEF DefsHaveOwnNames
<1>5. R.at = p /\ R.todo = r.todo /\ R.name = seen[d]
  BY <1>0 DEF Tasks
<1>6. Minds(R, live')
  BY <1>0, <1>4, <1>5 DEF Minds
<1>7. TasksMind'
  BY <1>0, <1>1, <1>6, MindMoves
<1> QED  BY <1>1, <1>3, <1>7, HubKept DEF CalmInv, VaultHolds, KnownRightly, RightlyLive

\* Nothing is kept of a name that no live definition bears.
LEMMA Wiped ==
  ASSUME CalmInv, DefsHaveOwnNames, NEW a, ReconcileGrants(a, {}), NoDefIs(live, a)  PROVE  HubTyped' /\ GrantsStay
<1>0. HubTyped /\ RightlyLive(live) /\ VaultHolds
  BY DEF CalmInv
<1>1. CASE hub' = hub
  BY <1>1, HubKept
<1>2. CASE hub' = Reconciled(a, {})
  <2>1. hub' = [hub EXCEPT ![a] = [g \in Conn |-> "none"]]
    BY <1>2 DEF Reconciled
  <2>2. HubTyped'
    BY <1>0, <2>1 DEF HubTyped
  <2>3. \A b \in Name : b # a => hub'[b] = hub[b]
    BY <1>0, <2>1 DEF HubTyped
  <2>4. ASSUME NEW g \in Conn  PROVE  ~Declared(a, g)
    <3> SUFFICES ASSUME NEW d \in Def, Live(d), Holds(d), vault[d].name = a  PROVE  FALSE
      BY DEF Declared
    <3>1. d \in Note /\ vault[d] \in Contents[d]
      BY <1>0, Values DEF VaultHolds, Holds
    <3>2. PICK c \in Contents[d] : live[d].name = c.name
      BY <1>0 DEF RightlyLive, Live
    <3>3. c.name = a
      BY <3>1, <3>2 DEF DefsHaveOwnNames
    <3> QED  BY <3>2, <3>3 DEF NoDefIs, Live
  <2> QED  BY <2>2, <2>3, <2>4 DEF GrantsStay
<1> QED  BY <1>1, <1>2 DEF ReconcileGrants

LEMMA PollMinds ==
  ASSUME DefsHaveOwnNames, CalmInv, DefsInv', PruneRemovedGrants \/ rebuildSeenDefs \/ NextNote  PROVE  CalmInv' /\ GrantsStay
<1> PICK r : r = task[Poller]
  OBVIOUS
<1>0. r \in Tasks /\ Minds(r, live) /\ Acts(Poller) /\ Poller \in Task
  BY Values DEF CalmInv, DefsInv, DefsTypeOK, TasksMind, PruneRemovedGrants, rebuildSeenDefs, NextNote, Acts
<1>1. UNCHANGED <<vault, live>>
  BY DEF PruneRemovedGrants, rebuildSeenDefs, NextNote, world, memory
<1>2. CASE PruneRemovedGrants
  <2> PICK R : R = [r EXCEPT !.at = "prune"]
    OBVIOUS
  <2>1. task' = [task EXCEPT ![Poller] = R] /\ seen' = seen /\ r.at = "pruneHub" /\ ReconcileGrants(r.name, {})
    BY <1>2 DEF PruneRemovedGrants, Goes, To, memory
  <2>2. Minds(R, live')
    BY <1>0, PlaceMinds DEF Places
  <2>3. HubTyped' /\ GrantsStay
    BY <1>0, <2>1, Wiped DEF Minds
  <2> QED  BY <1>0, <1>1, <2>1, <2>2, <2>3, MindMoves, MindOnly
<1>3. CASE rebuildSeenDefs
  <2> PICK R : R = [r EXCEPT !.at = "each"]
    OBVIOUS
  <2>1. task' = [task EXCEPT ![Poller] = R] /\ hub' = hub
    BY <1>3 DEF rebuildSeenDefs, Goes, To, world
  <2>2. Minds(R, live')
    BY <1>0, PlaceMinds DEF Places
  <2>3. ASSUME NEW d \in Def, seen'[d] \notin {None, NoName}  PROVE  \E c \in Contents[d] : seen'[d] = c.name
    <3>1. d \in Present /\ seen'[d] = KnownAs(CHOOSE s \in r.todo : s.note = d)
      BY <1>3, <2>3 DEF rebuildSeenDefs
    <3>2. \E s \in r.todo : s.note = d
      BY <3>1 DEF Present
    <3> PICK s : s = CHOOSE x \in r.todo : x.note = d
      OBVIOUS
    <3>3. s \in r.todo /\ s.note = d
      BY <3>2
    <3>4. s.c \in Contents[d]
      BY <1>0, <3>3 DEF Minds
    <3>5. seen[d] \in {None, NoName} \/ \E c \in Contents[d] : seen[d] = c.name
      BY DEF CalmInv, KnownRightly
    <3> QED  BY <2>3, <3>1, <3>3, <3>4, <3>5 DEF KnownAs
  <2>4. TasksMind'
    BY <1>0, <2>1, <2>2, MindMoves
  <2> QED  BY <1>1, <2>1, <2>3, <2>4, HubKept DEF CalmInv, VaultHolds, KnownRightly, RightlyLive
<1>4. CASE NextNote
  <2>1. UNCHANGED <<hub, seen>>
    BY <1>4 DEF NextNote, world, memory
  <2>2. TasksMind'
    <3>1. CASE To(Poller, PollAt(IF r.as = "def" THEN Threads ELSE "idle"))
      BY <3>1, <1>0, PolledMinds, MindMoves DEF To, Threads
    <3>2. CASE \E s \in r.todo : To(Poller, [r EXCEPT !.at = "begin", !.s = s, !.todo = @ \ {s}])
      <4> PICK s \in r.todo : To(Poller, [r EXCEPT !.at = "begin", !.s = s, !.todo = @ \ {s}])
        BY <3>2
      <4> PICK R : R = [r EXCEPT !.at = "begin", !.s = s, !.todo = @ \ {s}]
        OBVIOUS
      <4>1. R.at = "begin" /\ R.s = s /\ R.todo \subseteq r.todo
        BY <1>0 DEF Tasks
      <4>2. Minds(R, live')
        BY <1>0, <4>1 DEF Minds
      <4>3. task' = [task EXCEPT ![Poller] = R]
        BY DEF To
      <4> QED  BY <1>0, <4>2, <4>3, MindMoves
    <3> QED  BY <1>4, <3>1, <3>2 DEF NextNote
  <2> QED  BY <1>1, <2>1, <2>2, MindOnly, HubKept
<1> QED  BY <1>2, <1>3, <1>4

LEMMA AskMinds ==
  ASSUME CalmInv, NEW t \in Task, task[t].at = "begin", NEW fast \in BOOLEAN, Asks(t, fast),
         task[t].s.note \in Thread => task[t].as = "thread",
         task[t].as = "thread" /\ ~fast => NoDefIs(live', task[t].s.c.name)
  PROVE  TasksMind'
<1> PICK r, W : r = task[t] /\ W = IF Hub THEN r.s.c.wants ELSE {}
  OBVIOUS
<1>0. r \in Tasks /\ Minds(r, live) /\ Acts(t) /\ r.at = "begin"
  BY DEF CalmInv, DefsInv, DefsTypeOK, TasksMind, Acts
<1> PICK R : R = [r EXCEPT !.at = "ask", !.fast = fast, !.ask = W, !.got = {}]
  OBVIOUS
<1>1. R.at = "ask" /\ R.fast = fast /\ R.as = r.as /\ R.s = r.s /\ R.todo = r.todo
  BY <1>0 DEF Tasks
<1>2. Minds(R, live')
  BY <1>0, <1>1 DEF Minds
<1>3. task' = [task EXCEPT ![t] = R]
  BY DEF Asks, To
<1> QED  BY <1>0, <1>2, <1>3, MindMoves

\* A thread comes up only under a name that no definition bears.
LEMMA InstantiateMinds ==
  ASSUME CalmInv, DefsInv', NEW t \in Task, Instantiate(t)  PROVE  CalmInv' /\ GrantsStay
<1> PICK r, n : r = task[t] /\ n = r.s.note
  OBVIOUS
<1>0. /\ DefsTypeOK /\ r \in Tasks /\ Minds(r, live) /\ Acts(t) /\ r.at = "begin" /\ n \in Note
      /\ r.as = "thread" => n \in Thread
  BY DEF CalmInv, DefsInv, DefsTypeOK, TasksMind, Instantiate, TaskKnows, Acts
<1>1. UNCHANGED <<vault, hub, seen>>
  BY DEF Instantiate, InstantiateDef, instantiateThread, world, memory
<1>2. live' = live \/ deregisterByNote(n)
  BY DEF Instantiate, InstantiateDef, instantiateThread, memory
<1>3. RightlyLive(live')
  BY <1>0, <1>2, Deregistered, FewerLive DEF CalmInv
<1>4. TasksMind'
  <2>1. CASE Finish(t)
    BY <1>0, <2>1, FinishMinds
  <2>2. CASE Goes(t, "error")
    <3> PICK R : R = [r EXCEPT !.at = "error"]
      OBVIOUS
    <3>1. task' = [task EXCEPT ![t] = R]
      BY <2>2 DEF Goes, To
    <3>2. Minds(R, live')
      BY <1>0, PlaceMinds DEF Places
    <3> QED  BY <1>0, <3>1, <3>2, MindMoves
  <2>3. CASE r.as = "def" /\ ~Goes(t, "error")
    <3>1. n \in Def /\ (Asks(t, TRUE) \/ Asks(t, FALSE))
      BY <2>3 DEF Instantiate, InstantiateDef
    <3> QED  BY <1>0, <2>3, <3>1, AskMinds, Values
  <2>4. CASE r.as = "thread" /\ ~Finish(t)
    <3>1. Asks(t, TRUE) \/ (Asks(t, FALSE) /\ UNCHANGED memory /\ ~isNameLiveElsewhere(r.s.c.name, n))
      BY <2>4 DEF Instantiate, instantiateThread
    <3>2. CASE Asks(t, TRUE)
      BY <1>0, <2>4, <3>2, AskMinds
    <3>3. CASE Asks(t, FALSE) /\ UNCHANGED memory /\ ~isNameLiveElsewhere(r.s.c.name, n)
      <4>1. live' = live
        BY <3>3 DEF memory
      <4>2. NoDefIs(live, r.s.c.name)
        BY <1>0, <2>4, <3>3, Values DEF isNameLiveElsewhere, NoDefIs, Live
      <4>3. NoDefIs(live', r.s.c.name)
        BY <4>1, <4>2
      <4> QED  BY <1>0, <2>4, <3>3, <4>3, AskMinds
    <3> QED  BY <3>1, <3>2, <3>3
  <2>5. Finish(t) \/ Goes(t, "error") \/ r.as = "def" \/ r.as = "thread"
    BY <1>0, TaskFields
  <2> QED  BY <2>1, <2>2, <2>3, <2>4, <2>5
<1> QED  BY <1>1, <1>3, <1>4, HubKept DEF CalmInv, VaultHolds, KnownRightly, RightlyLive

LEMMA StampErrorMinds ==
  ASSUME CalmInv, DefsInv', NEW t \in Task, StampError(t)  PROVE  CalmInv' /\ GrantsStay
<1>1. UNCHANGED <<vault, hub, live, seen>> /\ Finish(t) /\ Acts(t)
  BY DEF StampError, memory, Acts
<1>2. TasksMind'
  BY <1>1, FinishMinds
<1> QED  BY <1>1, <1>2, MindOnly, HubKept

LEMMA RegisterMinds ==
  ASSUME CalmInv, DefsInv', NEW t \in Task, Ask(t)  PROVE  CalmInv' /\ GrantsStay
<1> PICK r, a : r = task[t] /\ a = r.s.c.name
  OBVIOUS
<1>0. r \in Tasks /\ Minds(r, live) /\ Acts(t) /\ HubTyped /\ r.at = "ask"
  BY DEF CalmInv, DefsInv, DefsTypeOK, TasksMind, Ask, Acts
<1>1. UNCHANGED <<vault, live, seen>>
  BY DEF Ask, memory
<1>2. HubTyped' /\ GrantsStay
  <2>1. CASE hub' = hub
    BY <2>1, HubKept
  <2>2. ASSUME NEW g \in r.ask, registerGrant(a, g)  PROVE  HubTyped' /\ GrantsStay
    <3>1. hub' = [hub EXCEPT ![a][g] = IF @ = "none" THEN "pending" ELSE @]
      BY <2>2 DEF registerGrant
    <3> QED  BY <1>0, <3>1 DEF HubTyped, GrantsStay
  <2> QED  BY <2>1, <2>2 DEF Ask
<1>3. \E A, G : task' = [task EXCEPT ![t] = [r EXCEPT !.ask = A, !.got = G]]
  <2> PICK g \in r.ask :
       \/ To(t, [r EXCEPT !.ask = @ \ {g}, !.got = IF hub[r.s.c.name][g] = "approved" THEN @ \cup {g} ELSE @])
       \/ To(t, [r EXCEPT !.ask = @ \ {g}])
    BY DEF Ask
  <2>1. CASE To(t, [r EXCEPT !.ask = @ \ {g}])
    <3>1. [r EXCEPT !.ask = @ \ {g}] = [r EXCEPT !.ask = r.ask \ {g}, !.got = r.got]
      BY <1>0 DEF Tasks
    <3>2. task' = [task EXCEPT ![t] = [r EXCEPT !.ask = r.ask \ {g}, !.got = r.got]]
      BY <2>1, <3>1 DEF To
    <3> QED  BY <3>2
  <2>2. CASE To(t, [r EXCEPT !.ask = @ \ {g}, !.got = IF hub[r.s.c.name][g] = "approved" THEN @ \cup {g} ELSE @])
    <3> PICK G : G = IF hub[r.s.c.name][g] = "approved" THEN r.got \cup {g} ELSE r.got
      OBVIOUS
    <3>1. task' = [task EXCEPT ![t] = [r EXCEPT !.ask = r.ask \ {g}, !.got = G]]
      BY <2>2 DEF To
    <3> QED  BY <3>1
  <2> QED  BY <2>1, <2>2
<1> PICK A, G : task' = [task EXCEPT ![t] = [r EXCEPT !.ask = A, !.got = G]]
  BY <1>3
<1> PICK R : R = [r EXCEPT !.ask = A, !.got = G]
  OBVIOUS
<1>4. R.at = r.at /\ R.fast = r.fast /\ R.as = r.as /\ R.s = r.s /\ R.todo = r.todo /\ R.name = r.name
  BY <1>0 DEF Tasks
<1>5. Minds(R, live')
  BY <1>0, <1>1, <1>4 DEF Minds
<1>6. TasksMind'
  BY <1>0, <1>5, MindMoves
<1> QED  BY <1>1, <1>2, <1>6, MindOnly

\* A definition that settles takes the places of the threads of its name.
LEMMA SettleMinds ==
  ASSUME DefsHaveOwnNames, CalmInv, DefsInv', NEW t \in Task, Settle(t)  PROVE  CalmInv' /\ GrantsStay
<1> PICK r, n, out, rec :
      /\ r = task[t] /\ n = r.s.note
      /\ out = IF r.as = "def" THEN Evicted(n, r.s.c.name) ELSE {}
      /\ rec = [name |-> r.s.c.name, source |-> r.as, pending |-> Pending(r)]
  OBVIOUS
<1>0. /\ DefsTypeOK /\ r \in Tasks /\ Minds(r, live) /\ Acts(t) /\ RightlyLive(live)
      /\ r.at = "ask" /\ n \in Note /\ r.s.c \in Contents[n] /\ (r.as = "thread" <=> n \in Thread)
  BY DEF CalmInv, DefsInv, DefsTypeOK, TasksMind, Settle, TaskKnows, Acts, Minds
<1>1. UNCHANGED <<vault, hub>>
  BY DEF Settle, world
<1>2. Pending(r) \subseteq Conn /\ rec \in LiveAgent /\ rec # None
  <2>1. r.s.c \in Content
    BY <1>0, ContentsFit
  <2> QED  BY <1>0, <2>1, ContentFields, TaskFields, Values DEF Pending, LiveAgent
<1>3. ASSUME r.fast PROVE RightlyLive(live') /\ Minds(r, live')
  <2>1. live' = IF Live(n) THEN [live EXCEPT ![n].pending = Pending(r)] ELSE live
    BY <1>3 DEF Settle
  <2>2. \A m \in Note : /\ live'[m] # None <=> live[m] # None
                        /\ live[m] # None => live'[m].name = live[m].name /\ live'[m].source = live[m].source
    <3>1. CASE Live(n)
      <4> PICK new : new = [live[n] EXCEPT !.pending = Pending(r)]
        OBVIOUS
      <4>1. live[n] \in LiveAgent
        BY <1>0, <3>1 DEF DefsTypeOK, Live
      <4>2. new \in LiveAgent /\ new.name = live[n].name /\ new.source = live[n].source
        BY <1>2, <4>1 DEF LiveAgent
      <4>3. live' = [live EXCEPT ![n] = new] /\ new # None
        BY <2>1, <3>1, <4>2, Values
      <4> QED  BY <1>0, <3>1, <4>2, <4>3 DEF DefsTypeOK, Live
    <3>2. CASE ~Live(n)
      BY <2>1, <3>2
    <3> QED  BY <3>1, <3>2
  <2>3. RightlyLive(live')
    <3>1. RightlyLive(live) /\ Def \subseteq Note /\ Thread \subseteq Note
      BY <1>0, Values
    <3> QED  BY <2>2, <3>1 DEF RightlyLive
  <2>4. \A a : NoDefIs(live, a) => NoDefIs(live', a)
    BY <2>2, Values DEF NoDefIs
  <2>5. Minds(r, live')
    BY <1>0, <2>4 DEF Minds
  <2> QED  BY <2>3, <2>5
<1>4. ASSUME ~r.fast  PROVE  RightlyLive(live') /\ Minds(r, live')
  <2>1. live' = [m \in Note |-> IF m = n THEN rec ELSE IF m \in out THEN None ELSE live[m]]
    BY <1>4 DEF Settle
  <2>2. rec.name = r.s.c.name /\ rec.source = r.as /\ (r.as = "thread" => out = {})
    BY <1>0
  <2>3. CASE n \in Def
    <3>1. r.as = "def" /\ n \notin Thread /\ out = Evicted(n, r.s.c.name)
      BY <1>0, <2>3, TaskFields, Values
    <3>2. \A m \in Thread : live'[m] # None => live'[m] = live[m] /\ live[m] # None /\ live[m].name # rec.name
      <4> SUFFICES ASSUME NEW m \in Thread, live'[m] # None
                   PROVE  live'[m] = live[m] /\ live[m] # None /\ live[m].name # rec.name
        OBVIOUS
      <4>1. m \in Note /\ m # n
        BY <3>1, Values
      <4>2. m \notin out /\ live'[m] = live[m]
        BY <2>1, <4>1
      <4>3. live[m].source = "thread"
        BY <1>0, <4>2 DEF RightlyLive
      <4> QED  BY <2>2, <3>1, <4>1, <4>2, <4>3 DEF Evicted, Live
    <3>3. \A d \in Def : live'[d] = IF d = n THEN rec ELSE live[d]
      BY <2>1, <3>1, Values DEF Evicted
    <3>4. RightlyLive(live')
      <4>1. \A d \in Def : live'[d] # None => \E c \in Contents[d] : live'[d].name = c.name
        BY <1>0, <2>2, <3>3 DEF RightlyLive
      <4>2. \A m \in Thread : live'[m] # None => live'[m].source = "thread"
        BY <1>0, <3>2 DEF RightlyLive
      <4>3. \A d \in Def, m \in Thread : live'[d] # None /\ live'[m] # None => live'[d].name # live'[m].name
        BY <1>0, <3>2, <3>3 DEF RightlyLive
      <4> QED  BY <4>1, <4>2, <4>3 DEF RightlyLive
    <3>5. Minds(r, live')
      BY <1>0, <3>1 DEF Minds
    <3> QED  BY <3>4, <3>5
  <2>4. CASE n \in Thread
    <3>1. r.as = "thread" /\ n \notin Def /\ NoDefIs(live, rec.name)
      BY <1>0, <1>4, <2>2, <2>4, Values DEF Minds
    <3>2. \A m \in Note : live'[m] = IF m = n THEN rec ELSE live[m]
      BY <2>1, <2>2, <3>1
    <3>3. \A d \in Def : live'[d] = live[d]
      BY <3>1, <3>2, Values
    <3>4. RightlyLive(live')
      <4>1. \A d \in Def : live'[d] # None => \E c \in Contents[d] : live'[d].name = c.name
        BY <1>0, <3>3 DEF RightlyLive
      <4>2. \A m \in Thread : live'[m] # None => live'[m].source = "thread"
        BY <1>0, <2>2, <3>1, <3>2, Values DEF RightlyLive
      <4>3. \A d \in Def, m \in Thread : live'[d] # None /\ live'[m] # None => live'[d].name # live'[m].name
        BY <1>0, <3>1, <3>2, <3>3, Values DEF RightlyLive, NoDefIs
      <4> QED  BY <4>1, <4>2, <4>3 DEF RightlyLive
    <3>5. Minds(r, live')
      BY <1>0, <2>2, <3>1, <3>3 DEF Minds, NoDefIs
    <3> QED  BY <3>4, <3>5
  <2> QED  BY <1>0, <2>3, <2>4 DEF Note
<1>5. KnownRightly'
  <2>1. seen' = seen \/ (r.as = "def" /\ seen' = [seen EXCEPT ![n] = r.s.c.name])
    BY DEF Settle, recordSeen
  <2> QED  BY <1>0, <2>1 DEF CalmInv, KnownRightly, DefsTypeOK
<1>6. TasksMind'
  <2>1. Minds(r, live')
    BY <1>3, <1>4
  <2>2. ASSUME NEW p \in {"stamp", "gc"}, Goes(t, p), p = "gc" => ~r.fast  PROVE  TasksMind'
    <3> PICK R : R = [r EXCEPT !.at = p]
      OBVIOUS
    <3>1. R.at = p /\ R.fast = r.fast /\ R.as = r.as /\ R.s = r.s /\ R.todo = r.todo
      BY <1>0 DEF Tasks
    <3>2. Minds(R, live')
      BY <1>0, <2>1, <2>2, <3>1 DEF Minds
    <3>3. task' = [task EXCEPT ![t] = R]
      BY <2>2 DEF Goes, To
    <3> QED  BY <1>0, <3>2, <3>3, MindMoves
  <2>3. CASE Finish(t)
    BY <1>0, <2>3, FinishMinds
  <2>4. Goes(t, "stamp") \/ Finish(t) \/ (Goes(t, "gc") /\ ~r.fast)
    BY DEF Settle, Onward
  <2> QED  BY <2>2, <2>3, <2>4
<1> QED  BY <1>1, <1>3, <1>4, <1>5, <1>6, HubKept DEF CalmInv, VaultHolds

LEMMA StampMinds ==
  ASSUME CalmInv, DefsInv', NEW t \in Task, Stamp(t)  PROVE  CalmInv' /\ GrantsStay
<1> PICK r, n : r = task[t] /\ n = r.s.note
  OBVIOUS
<1>0. /\ DefsTypeOK /\ r \in Tasks /\ Minds(r, live) /\ Acts(t)
      /\ r.at = "stamp" /\ r.s.c \in Contents[n]
  BY DEF CalmInv, DefsInv, DefsTypeOK, TasksMind, Stamp, Acts, Minds
<1>1. UNCHANGED <<vault, hub, live>>
  BY DEF Stamp
<1>2. KnownRightly'
  <2>1. seen' = seen \/ seen' = [seen EXCEPT ![n] = r.s.c.name]
    BY DEF Stamp, recordSeen
  <2> QED  BY <1>0, <2>1 DEF CalmInv, KnownRightly, DefsTypeOK
<1>3. TasksMind'
  <2>1. CASE Finish(t)
    BY <1>0, <2>1, FinishMinds
  <2>2. CASE Goes(t, "gc") /\ ~r.fast
    <3> PICK R : R = [r EXCEPT !.at = "gc"]
      OBVIOUS
    <3>1. R.at = "gc" /\ R.fast = r.fast /\ R.as = r.as /\ R.s = r.s /\ R.todo = r.todo
      BY <1>0 DEF Tasks
    <3>2. Minds(R, live')
      BY <1>0, <1>1, <2>2, <3>1 DEF Minds
    <3>3. task' = [task EXCEPT ![t] = R]
      BY <2>2 DEF Goes, To
    <3> QED  BY <1>0, <3>2, <3>3, MindMoves
  <2> QED  BY <2>1, <2>2 DEF Stamp, Onward
<1> QED  BY <1>1, <1>2, <1>3, HubKept DEF CalmInv, VaultHolds, RightlyLive

\* A pass prunes what its version of the note does not want: if that is what the
\* vault has, no definition of the name wants it; and a thread has a name that no
\* definition bears.
LEMMA PruneUnwantedMinds ==
  ASSUME DefsHaveOwnNames, CalmInv, DefsInv', NEW t \in Task, PruneUnwanted(t)  PROVE  CalmInv' /\ GrantsStay
<1> PICK r, n, a : r = task[t] /\ n = r.s.note /\ a = r.s.c.name
  OBVIOUS
<1>0. /\ DefsTypeOK /\ r \in Tasks /\ Minds(r, live) /\ Acts(t) /\ HubTyped /\ VaultHolds /\ RightlyLive(live)
      /\ r.at = "gc" /\ n \in Note /\ r.s.c \in Contents[n] /\ ~r.fast
  BY DEF CalmInv, DefsInv, DefsTypeOK, TasksMind, PruneUnwanted, TaskKnows, Acts, Minds
<1>1. UNCHANGED <<vault, live, seen>> /\ Finish(t) /\ ReconcileGrants(a, r.s.c.wants)
  BY DEF PruneUnwanted, memory
<1>2. HubTyped' /\ GrantsStay
  <2>1. CASE hub' = hub
    BY <2>1, HubKept
  <2>2. CASE hub' = Reconciled(a, r.s.c.wants)
    <3>1. hub' = [hub EXCEPT ![a] = [g \in Conn |-> IF g \in r.s.c.wants THEN @[g] ELSE "none"]]
      BY <2>2 DEF Reconciled
    <3>2. HubTyped'
      BY <1>0, <3>1 DEF HubTyped
    <3>3. \A b \in Name, g \in Conn : hub'[b][g] = hub[b][g] \/ (b = a /\ g \notin r.s.c.wants)
      BY <1>0, <3>1 DEF HubTyped
    <3>4. ASSUME NEW g \in Conn, g \notin r.s.c.wants, ~Outdated  PROVE  ~Declared(a, g)
      <4> SUFFICES ASSUME NEW d \in Def, Live(d), Holds(d), vault[d].name = a, g \in vault[d].wants  PROVE  FALSE
        BY DEF Declared
      <4>1. vault[d] \in Contents[d] /\ vault[n] = r.s.c /\ d \in Note
        BY <1>0, <3>4, Values DEF VaultHolds, Holds, Outdated
      <4>2. PICK c \in Contents[d] : live[d].name = c.name
        BY <1>0 DEF RightlyLive, Live
      <4>3. c.name = a
        BY <4>1, <4>2 DEF DefsHaveOwnNames
      <4>4. n \in Def
        <5>1. r.as # "thread"
          BY <1>0, <4>2, <4>3 DEF Minds, NoDefIs, Live
        <5> QED  BY <1>0, <5>1 DEF Minds, Note
      <4>5. n = d
        BY <1>0, <4>1, <4>4 DEF DefsHaveOwnNames
      <4> QED  BY <3>4, <4>1, <4>5
    <3> QED  BY <3>2, <3>3, <3>4 DEF GrantsStay
  <2> QED  BY <1>1, <2>1, <2>2 DEF ReconcileGrants
<1>3. TasksMind'
  BY <1>0, <1>1, FinishMinds
<1> QED  BY <1>1, <1>2, <1>3, MindOnly

LEMMA RequestMinds ==
  ASSUME NEW at \in {"fetch", "create", "edit", "delete"}, NEW as, NEW n, NEW c,
         at = "edit" => c \in Contents[n]
  PROVE  \A L : Minds(Requested(at, as, n, c), L)
<1> PICK R : R = Requested(at, as, n, c)
  OBVIOUS
<1>1. R.at = at /\ R.s.note = n /\ R.s.c = c /\ R.todo = {}
  BY DEF Requested, Idle, NoSnap
<1> QED  BY <1>1 DEF Minds

LEMMA StartMinds ==
  ASSUME ~Overlap, CalmInv, DefsInv', NEW t \in Request, Start(t)  PROVE  CalmInv' /\ GrantsStay
<1>0. t \in Task /\ Acts(t)
  BY Values DEF Start, Webhook, DeleteDef, EditDef, CreateDef, MayStart, Acts
<1>1. UNCHANGED <<vault, hub, live, seen>>
  BY DEF Start, Webhook, DeleteDef, EditDef, CreateDef, world, memory
<1>2. \E R : task' = [task EXCEPT ![t] = R] /\ \A L : Minds(R, L)
  <2>1. ASSUME NEW n \in Note, Webhook(t, n)
        PROVE  \E R : task' = [task EXCEPT ![t] = R] /\ \A L : Minds(R, L)
    BY <2>1, IdleMinds, RequestMinds DEF Webhook, To
  <2>2. ASSUME NEW n \in Note, DeleteDef(t, n)
        PROVE  \E R : task' = [task EXCEPT ![t] = R] /\ \A L : Minds(R, L)
    BY <2>2, RequestMinds DEF DeleteDef, To
  <2>3. ASSUME NEW n \in Note, NEW c \in Contents[n], EditDef(t, n, c)
        PROVE  \E R : task' = [task EXCEPT ![t] = R] /\ \A L : Minds(R, L)
    BY <2>3, RequestMinds DEF EditDef, To
  <2>4. ASSUME NEW d \in Def, NEW c \in Contents[d], CreateDef(t, c)
        PROVE  \E R : task' = [task EXCEPT ![t] = R] /\ \A L : Minds(R, L)
    BY <2>4, RequestMinds DEF CreateDef, To
  <2> QED  BY <2>1, <2>2, <2>3, <2>4 DEF Start
<1>3. TasksMind'
  BY <1>0, <1>2, MindMoves
<1> QED  BY <1>1, <1>3, MindOnly, HubKept

LEMMA FetchMinds ==
  ASSUME DefsHaveOwnNames, CalmInv, DefsInv', NEW t \in Request, Fetch(t) \/ ForgetGrants(t)  PROVE  CalmInv' /\ GrantsStay
<1> PICK r, n : r = task[t] /\ n = r.s.note
  OBVIOUS
<1>0. /\ DefsTypeOK /\ t \in Task /\ r \in Tasks /\ Minds(r, live) /\ Acts(t)
      /\ r.at = "fetch" => n \in Note
  BY Values DEF CalmInv, DefsInv, DefsTypeOK, TasksMind, TaskKnows, Fetch, ForgetGrants, Acts
<1>1. UNCHANGED <<vault, live, seen>>
  BY DEF Fetch, ForgetGrants, world, memory
<1>2. HubTyped' /\ GrantsStay
  <2>1. CASE Fetch(t)
    BY <2>1, HubKept DEF Fetch, world
  <2>2. CASE ForgetGrants(t)
    BY <1>0, <2>2, Wiped DEF ForgetGrants, Minds
  <2> QED  BY <2>1, <2>2
<1>3. TasksMind'
  <2>1. CASE To(t, Idle)
    BY <1>0, <2>1, IdleMinds, MindMoves DEF To
  <2>2. CASE Fetch(t) /\ Holds(n) /\ To(t, [r EXCEPT !.at = "begin", !.s = Snap(n)])
    <3> PICK R : R = [r EXCEPT !.at = "begin", !.s = Snap(n)]
      OBVIOUS
    <3>1. R.at = "begin" /\ R.s = Snap(n) /\ R.todo = r.todo
      BY <1>0 DEF Tasks
    <3>2. Minds(R, live')
      BY <1>0, <2>2, <3>1, SnapMinds DEF Minds, Fetch
    <3> QED  BY <1>0, <2>2, <3>2, MindMoves DEF To
  <2>3. CASE Fetch(t) /\ ~Holds(n) /\ To(t, [r EXCEPT !.at = "removed"])
    <3> PICK R : R = [r EXCEPT !.at = "removed"]
      OBVIOUS
    <3>1. Minds(R, live')
      BY <1>0, PlaceMinds DEF Places
    <3> QED  BY <1>0, <2>3, <3>1, MindMoves DEF To
  <2> QED  BY <2>1, <2>2, <2>3 DEF Fetch, ForgetGrants
<1> QED  BY <1>1, <1>2, <1>3, MindOnly

\* The name that a removed note has left is nobody's, or a thread's.
LEMMA ConfirmMinds ==
  ASSUME DefsHaveOwnNames, CalmInv, DefsInv', NEW t \in Request, ConfirmRemoval(t)  PROVE  CalmInv' /\ GrantsStay
<1> PICK r, n, a : /\ r = task[t] /\ n = r.s.note
                   /\ a = IF Live(n) THEN live[n].name ELSE IF n \in Def THEN seen[n] ELSE None
  OBVIOUS
<1>0. /\ DefsTypeOK /\ t \in Task /\ t # Poller /\ r \in Tasks /\ Minds(r, live) /\ Acts(t)
      /\ r.at = "removed" /\ n \in Note /\ RightlyLive(live) /\ KnownRightly
  BY Values DEF CalmInv, DefsInv, DefsTypeOK, TasksMind, TaskKnows, ConfirmRemoval, Acts
<1>1. UNCHANGED <<vault, hub>>
  BY DEF ConfirmRemoval, world
<1>2. live' = live \/ deregisterByNote(n)
  BY DEF ConfirmRemoval
<1>3. RightlyLive(live')
  BY <1>0, <1>2, Deregistered, FewerLive
<1>4. KnownRightly'
  <2>1. seen' = seen \/ seen' = [d \in Def |-> IF d = n THEN None ELSE seen[d]]
    BY DEF ConfirmRemoval
  <2> QED  BY <1>0, <2>1 DEF KnownRightly
<1>5. TasksMind'
  <2>1. CASE To(t, Idle)
    BY <1>0, <2>1, IdleMinds, MindMoves DEF To
  <2>2. CASE r.as # "thread"
    <3> PICK X, q : /\ X = IF Hub /\ a \in Name THEN [r EXCEPT !.at = "forget", !.name = a] ELSE Idle
                    /\ q = task[Poller]
      OBVIOUS
    <3> PICK Q : Q = [q EXCEPT !.past = @ \ {n}]
      OBVIOUS
    <3>0. task \in [Task -> Tasks] /\ Poller \in Task /\ q \in Tasks /\ Minds(q, live) /\ OneAtATime
      BY Values DEF CalmInv, DefsInv, DefsTypeOK, TasksMind
    <3>1. task' = [task EXCEPT ![t] = X, ![Poller] = Q] /\ deregisterByNote(n)
      BY <1>0, <2>2, <3>0 DEF ConfirmRemoval
    <3>2. \A m \in Note : live'[m] = IF m = n THEN None ELSE live[m]
      BY <1>0, <3>1, Deregistered
    <3>3. a \in Name => NoDefIs(live', a)
      <4> SUFFICES ASSUME a \in Name, NEW d \in Def, live'[d] # None  PROVE  live'[d].name # a
        BY DEF NoDefIs
      <4>1. d # n /\ live'[d] = live[d] /\ live[d] # None
        BY <3>2, Values
      <4>2. PICK c \in Contents[d] : live[d].name = c.name
        BY <1>0, <4>1 DEF RightlyLive
      <4>3. CASE n \in Def
        <5>1. \E b \in Contents[n] : a = b.name
          BY <1>0, <4>3, Values DEF RightlyLive, KnownRightly, Live
        <5> QED  BY <4>1, <4>2, <4>3, <5>1 DEF DefsHaveOwnNames
      <4>4. CASE n \in Thread
        <5>1. Live(n) /\ a = live[n].name
          BY <4>4, Values
        <5> QED  BY <1>0, <4>1, <4>4, <5>1 DEF RightlyLive, Live
      <4> QED  BY <1>0, <4>3, <4>4 DEF Note
    <3>4. Minds(X, live')
      <4> PICK Y : Y = [r EXCEPT !.at = "forget", !.name = a]
        OBVIOUS
      <4>1. Y.at = "forget" /\ Y.name = a /\ Y.todo = r.todo
        BY <1>0 DEF Tasks
      <4>2. a \in Name => Minds(Y, live')
        BY <1>0, <3>3, <4>1 DEF Minds
      <4> QED  BY <4>2, IdleMinds
    <3>5. q.at = "idle" /\ Q.at = "idle" /\ Q.todo = q.todo
      BY <1>0, <3>0, OthersIdle DEF Tasks
    <3>6. Minds(Q, live')
      BY <3>0, <3>5 DEF Minds
    <3>7. task'[t] = X /\ task'[Poller] = Q /\ \A u \in Task \ {t, Poller} : task'[u] = task[u] /\ task[u].at = "idle"
      BY <1>0, <3>0, <3>1, OthersIdle
    <3>8. OneAtATime'
      BY <3>5, <3>7 DEF OneAtATime
    <3>9. ASSUME NEW u \in Task  PROVE  Minds(task'[u], live')
      <4>1. CASE u \in {t, Poller}
        BY <3>4, <3>6, <3>7, <4>1
      <4>2. CASE u \notin {t, Poller}
        BY <3>7, <4>2, IdleMindsAny DEF CalmInv, TasksMind
      <4> QED  BY <4>1, <4>2
    <3> QED  BY <3>8, <3>9 DEF TasksMind
  <2> QED  BY <2>1, <2>2 DEF ConfirmRemoval
<1> QED  BY <1>1, <1>3, <1>4, <1>5, HubKept DEF CalmInv, VaultHolds

LEMMA WriteMinds ==
  ASSUME CalmInv, DefsInv', NEW t \in Request, CreateNote(t) \/ PatchNote(t) \/ DeleteNote(t)  PROVE  CalmInv' /\ GrantsStay
<1> PICK r, n : r = task[t] /\ n = r.s.note
  OBVIOUS
<1>0. /\ DefsTypeOK /\ t \in Task /\ r \in Tasks /\ Minds(r, live) /\ Acts(t) /\ VaultHolds
      /\ r.at \in {"edit", "delete"} => n \in Note
  BY Values DEF CalmInv, DefsInv, DefsTypeOK, TasksMind, TaskKnows, CreateNote, PatchNote, DeleteNote, Acts
<1>1. UNCHANGED <<hub, live, seen>>
  BY DEF CreateNote, PatchNote, DeleteNote, memory
<1>2. VaultHolds'
  <2>1. CASE vault' = vault
    BY <1>0, <2>1 DEF VaultHolds
  <2>2. ASSUME NEW d \in Def, r.s.c \in Contents[d], vault' = [vault EXCEPT ![d] = r.s.c]  PROVE  VaultHolds'
    BY <1>0, <2>2, Values DEF VaultHolds, DefsTypeOK, Vaults
  <2>3. CASE PatchNote(t) /\ vault' = [vault EXCEPT ![n] = r.s.c]
    <3>1. r.s.c \in Contents[n] /\ n \in Note
      BY <1>0, <2>3 DEF PatchNote, Minds
    <3> QED  BY <1>0, <2>3, <3>1 DEF VaultHolds, DefsTypeOK, Vaults
  <2>4. CASE DeleteNote(t) /\ vault' = [vault EXCEPT ![n] = Gone]
    BY <1>0, <2>4 DEF VaultHolds, DefsTypeOK, Vaults
  <2> QED  BY <2>1, <2>2, <2>3, <2>4 DEF CreateNote, PatchNote, DeleteNote
<1>3. TasksMind'
  <2>1. CASE To(t, Idle)
    BY <1>0, <2>1, IdleMinds, MindMoves DEF To
  <2>2. ASSUME NEW m, ReloadDef(t, m)  PROVE  TasksMind'
    <3>1. \E R : task' = [task EXCEPT ![t] = R] /\ \A L : Minds(R, L)
      BY <2>2, IdleMinds, RequestMinds DEF ReloadDef, To
    <3> QED  BY <1>0, <3>1, MindMoves
  <2>3. CASE Goes(t, "removed")
    <3> PICK R : R = [r EXCEPT !.at = "removed"]
      OBVIOUS
    <3>1. Minds(R, live')
      BY <1>0, PlaceMinds DEF Places
    <3> QED  BY <1>0, <2>3, <3>1, MindMoves DEF Goes, To
  <2> QED  BY <2>1, <2>2, <2>3 DEF CreateNote, PatchNote, DeleteNote
<1> QED  BY <1>1, <1>2, <1>3, HubKept DEF CalmInv, KnownRightly, RightlyLive

LEMMA CalmInitial == Init => CalmInv
<1> SUFFICES ASSUME Init  PROVE  CalmInv
  OBVIOUS
<1>1. /\ \A n \in Note : vault[n] \in Contents[n] \cup {Unborn}
      /\ hub = [a \in Name |-> [g \in Conn |-> "none"]] /\ live = Nothing
      /\ seen = [d \in Def |-> None] /\ task = [t \in Task |-> Idle]
  BY DEF Init
<1>2. TasksMind
  BY <1>1, IdleMinds DEF TasksMind, OneAtATime
<1>3. HubTyped /\ VaultHolds /\ KnownRightly /\ RightlyLive(live)
  BY <1>1, Values DEF HubTyped, VaultHolds, KnownRightly, RightlyLive, Nothing
<1> QED  BY <1>2, <1>3, DefsInitial DEF CalmInv

LEMMA CalmStep ==
  ASSUME ~Overlap, DefsHaveOwnNames, CalmInv, [Next]_vars  PROVE  CalmInv' /\ GrantsStay
<1>1. DefsInv'
  BY DefsStep DEF CalmInv
<1>2. CASE Poll
  BY <1>1, <1>2, ListMinds, PruneMinds, PollMinds DEF Poll
<1>3. CASE \E t \in Task : Step(t)
  BY <1>1, <1>3, InstantiateMinds, StampErrorMinds, RegisterMinds, SettleMinds, StampMinds, PruneUnwantedMinds DEF Step
<1>4. CASE \E t \in Request : Start(t) \/ Call(t)
  BY <1>1, <1>4, StartMinds, FetchMinds, ConfirmMinds, WriteMinds DEF Call
<1>5. CASE UNCHANGED vars
  <2>1. UNCHANGED <<vault, hub, live, seen, task>>
    BY <1>5 DEF vars, world, memory
  <2>2. TasksMind'
    BY <2>1 DEF CalmInv, TasksMind, OneAtATime
  <2> QED  BY <1>1, <2>1, <2>2, MindOnly, HubKept
<1> QED  BY <1>1, <1>2, <1>3, <1>4, <1>5, WorldMinds, RestartMinds, TickMinds DEF Next

\* Where tasks do not overlap and every definition keeps a name of its own: no
\* pass over the notes, no removal and no request takes away a grant that was
\* approved for a live definition which still declares it, whichever thread
\* carries the same name, unless the note was written after the pass had read it.
THEOREM DeclaredGrantsAreKept ==
  ASSUME ~Overlap, DefsHaveOwnNames PROVE MCSpec => CalmGrantsStay
<1> DEFINE I == env = "calm" => CalmInv
<1>1. MCInit => I
  BY CalmInitial DEF MCInit, NoDefs
<1>2. I /\ [MCNext]_MCVars => I' /\ [env = "calm" => GrantsStay]_vars
  <2>1. [MCNext]_MCVars => env' = env /\ (env = "calm" => [Next]_vars)
    BY DEF MCNext, MCVars, In
  <2>2. ASSUME CalmInv, [Next]_vars  PROVE  CalmInv' /\ GrantsStay
    BY <2>2, CalmStep
  <2>3. CASE env = "calm"
    BY <2>1, <2>2, <2>3
  <2>4. CASE env # "calm"
    BY <2>1, <2>4
  <2> QED  BY <2>3, <2>4
<1> QED  BY <1>1, <1>2, PTL DEF MCSpec, CalmGrantsStay

-----------------------------------------------------------------------------
(* DefVaults: the file and the bindings.                                    *)

Stages == {"none", "resolve", "mintDefault", "bind", "register", "load", "list", "mint", "remove"}
JobRecord ==
  [at : Stages, v : DefVault \cup {NoVault}, saw : SUBSET DefVault, past : SUBSET (DefVault \cup {NoVault}),
   k : Nat, admin : BOOLEAN, ok : BOOLEAN]

DefVaultsTypeOK ==
  /\ listed \in {Absent} \cup SUBSET DefVault
  /\ {bound, agentsUp, added} \subseteq SUBSET DefVault /\ bearer \in BOOLEAN
  /\ job \in [Job -> JobRecord]

\* A boot that has yet to bind is alone with the file.
BootStages ==
  LET b == job["boot"] IN
  /\ b.at \in {"resolve", "mintDefault", "bind"} => bound = {} /\ agentsUp = {}
  /\ b.at = "mintDefault" => listed = Absent
  /\ b.at = "bind" => b.saw = IF listed = Absent THEN {DEFAULT} ELSE listed
  /\ b.at \notin {"mint", "remove"}
BootIsAlone == ~Free("boot") => ~polling /\ OthersFree("boot")

\* A removal is alone, and the file is ahead of the bindings.
RemovalIsAlone ==
  \A c \in Caller : job[c].at = "remove" =>
    /\ OthersFree(c)
    /\ listed # Absent /\ listed = bound \ {job[c].v} /\ job[c].v \in bound /\ agentsUp \subseteq listed

Settled == job["boot"].at \notin {"resolve", "mintDefault", "bind"} /\ ~Removing
SettledAgrees == Settled => FileAgrees /\ agentsUp \subseteq bound

\* What a job lists or is about to answer for is bound and in the file.
JobsKnow ==
  \A j \in Job :
    /\ job[j].at = "list" => job[j].v \in bound
    /\ j \in Caller /\ job[j].at \in {"load", "list"} => listed # Absent /\ job[j].saw \subseteq listed
    /\ j \in Caller => job[j].at \in {"none", "mint", "load", "list", "remove"}
    /\ job["sweep"].at \in {"none", "load", "list"}
    /\ job[j].at = "mint" => job[j].v \in DefVault

VaultsInv ==
  /\ DefVaultsTypeOK /\ BootStages /\ BootIsAlone /\ RemovalIsAlone /\ SettledAgrees /\ JobsKnow
  /\ AddedStay /\ NeverEmptied

LEMMA JobNames == "boot" \in Job /\ "sweep" \in Job /\ Caller \subseteq Job /\ "boot" \notin Caller /\ "sweep" \notin Caller
<1> QED  BY DefVaultsAssumption DEF Job

LEMMA NoJobTyped == NoJob \in JobRecord /\ DefBoot \in JobRecord /\ NoJob.at = "none" /\ DefBoot.at = "resolve"
<1> QED  BY DEF NoJob, DefBoot, JobRecord, Stages

LEMMA JobSet ==
  ASSUME DefVaultsTypeOK, NEW j \in Job, NEW R \in JobRecord, job' = [job EXCEPT ![j] = R]
  PROVE  /\ job' \in [Job -> JobRecord]
         /\ \A i \in Job : job'[i] = IF i = j THEN R ELSE job[i]
<1> QED  BY DEF DefVaultsTypeOK

\* A job that registers or loads goes on to do so.
LEMMA GoesOn ==
  ASSUME VaultsInv, NEW j \in Job, NEW R \in JobRecord, job' = [job EXCEPT ![j] = R],
         job[j].at \in {"register", "load", "list"}, R.at \in {"register", "load", "list"},
         R.at = "register" => job[j].at = "register",
         R.saw = job[j].saw, R.at = "list" => R.v \in bound,
         agentsUp' = agentsUp \/ (job[j].at = "list" /\ agentsUp' = agentsUp \cup {job[j].v}),
         UNCHANGED <<listed, bound, bearer, polling, added>>
  PROVE  VaultsInv'
<1>1. /\ job' \in [Job -> JobRecord]
      /\ \A i \in Job : job'[i] = IF i = j THEN R ELSE job[i]
  BY JobSet DEF VaultsInv
<1>2. ~Free(j) /\ (j = "boot" \/ Free("boot")) /\ \A c \in Caller : job[c].at # "remove"
  BY JobNames DEF VaultsInv, BootIsAlone, RemovalIsAlone, OthersFree, Free
<1>3. agentsUp' \subseteq bound /\ FileAgrees
  BY <1>2, JobNames DEF VaultsInv, SettledAgrees, Settled, Removing, Free, JobsKnow
<1>4. DefVaultsTypeOK'
  BY <1>1, <1>3 DEF VaultsInv, DefVaultsTypeOK
<1>5. BootStages' /\ BootIsAlone'
  BY <1>1, <1>2, JobNames DEF VaultsInv, BootStages, BootIsAlone, Free, OthersFree
<1>6. RemovalIsAlone'
  BY <1>1, <1>2, JobNames DEF RemovalIsAlone
<1>7. SettledAgrees'
  BY <1>3 DEF SettledAgrees, FileAgrees
<1>8. JobsKnow'
  BY <1>1, <1>2, JobNames DEF VaultsInv, JobsKnow, BootIsAlone, Free
<1> QED  BY <1>4, <1>5, <1>6, <1>7, <1>8 DEF VaultsInv, AddedStay, NeverEmptied

LEMMA RegisteringGoesOn ==
  ASSUME VaultsInv, MintForTriggers \/ PostTrigger \/ RegisteredAll  PROVE  VaultsInv'
<1> PICK r : r = job["boot"]
  OBVIOUS
<1>1. r \in JobRecord /\ "boot" \in Job /\ r.at = "register"
  BY JobNames DEF VaultsInv, DefVaultsTypeOK, MintForTriggers, PostTrigger, RegisteredAll
<1>2. UNCHANGED <<listed, bound, agentsUp, bearer, polling, added>>
  BY DEF MintForTriggers, PostTrigger, RegisteredAll
<1>3. CASE MintForTriggers
  <2>1. CASE \E v \in r.saw \ r.past : Sets("boot", [r EXCEPT !.v = v])
    <3> PICK v \in r.saw \ r.past : Sets("boot", [r EXCEPT !.v = v])
      BY <2>1
    <3> PICK R : R = [r EXCEPT !.v = v]
      OBVIOUS
    <3>1. R \in JobRecord /\ R.at = "register" /\ R.saw = r.saw
      BY <1>1 DEF JobRecord
    <3>2. job' = [job EXCEPT !["boot"] = R]
      BY DEF Sets
    <3> QED  BY <1>1, <1>2, <3>1, <3>2, GoesOn
  <2>2. CASE Sets("boot", [r EXCEPT !.k = 1])
    <3> PICK R : R = [r EXCEPT !.k = 1]
      OBVIOUS
    <3>1. R \in JobRecord /\ R.at = "register" /\ R.saw = r.saw
      BY <1>1 DEF JobRecord
    <3>2. job' = [job EXCEPT !["boot"] = R]
      BY <2>2 DEF Sets
    <3> QED  BY <1>1, <1>2, <3>1, <3>2, GoesOn
  <2>3. CASE Sets("boot", [r EXCEPT !.admin = TRUE])
    <3> PICK R : R = [r EXCEPT !.admin = TRUE]
      OBVIOUS
    <3>1. R \in JobRecord /\ R.at = "register" /\ R.saw = r.saw
      BY <1>1 DEF JobRecord
    <3>2. job' = [job EXCEPT !["boot"] = R]
      BY <2>3 DEF Sets
    <3> QED  BY <1>1, <1>2, <3>1, <3>2, GoesOn
  <2>4. CASE r.v # NoVault /\ Sets("boot", [r EXCEPT !.v = NoVault, !.admin = FALSE, !.past = @ \cup {r.v}])
    <3> PICK R : R = [r EXCEPT !.v = NoVault, !.admin = FALSE, !.past = @ \cup {r.v}]
      OBVIOUS
    <3>1. R \in JobRecord /\ R.at = "register" /\ R.saw = r.saw
      BY <1>1, <2>4 DEF JobRecord
    <3>2. job' = [job EXCEPT !["boot"] = R]
      BY <2>4 DEF Sets
    <3> QED  BY <1>1, <1>2, <3>1, <3>2, GoesOn
  <2> QED  BY <1>3, <2>1, <2>2, <2>3, <2>4 DEF MintForTriggers
<1>4. CASE PostTrigger
  <2>1. CASE Sets("boot", [r EXCEPT !.v = NoVault, !.k = 0, !.admin = FALSE, !.past = @ \cup {r.v}])
    <3> PICK R : R = [r EXCEPT !.v = NoVault, !.k = 0, !.admin = FALSE, !.past = @ \cup {r.v}]
      OBVIOUS
    <3>1. R \in JobRecord /\ R.at = "register" /\ R.saw = r.saw
      BY <1>1 DEF JobRecord
    <3>2. job' = [job EXCEPT !["boot"] = R]
      BY <2>1 DEF Sets
    <3> QED  BY <1>1, <1>2, <3>1, <3>2, GoesOn
  <2>2. CASE Sets("boot", [r EXCEPT !.k = @ + 1])
    <3> PICK R : R = [r EXCEPT !.k = @ + 1]
      OBVIOUS
    <3>1. R \in JobRecord /\ R.at = "register" /\ R.saw = r.saw
      BY <1>1 DEF JobRecord
    <3>2. job' = [job EXCEPT !["boot"] = R]
      BY <2>2 DEF Sets
    <3> QED  BY <1>1, <1>2, <3>1, <3>2, GoesOn
  <2> QED  BY <1>4, <2>1, <2>2 DEF PostTrigger
<1>5. CASE RegisteredAll
  <2> PICK R : R = [r EXCEPT !.at = "load", !.past = {}]
    OBVIOUS
  <2>1. R \in JobRecord /\ R.at = "load" /\ R.saw = r.saw
    BY <1>1 DEF JobRecord, Stages
  <2>2. job' = [job EXCEPT !["boot"] = R]
    BY <1>5 DEF RegisteredAll, Sets
  <2> QED  BY <1>1, <1>2, <2>1, <2>2, GoesOn
<1> QED  BY <1>3, <1>4, <1>5

LEMMA LoadingGoesOn ==
  ASSUME VaultsInv, NEW j \in Job, LoadNext(j) \/ Loaded(j)  PROVE  VaultsInv'
<1> PICK r : r = job[j]
  OBVIOUS
<1>1. r \in JobRecord
  BY DEF VaultsInv, DefVaultsTypeOK
<1>2. UNCHANGED <<listed, bound, bearer, polling, added>>
  BY DEF LoadNext, Loaded
<1>3. CASE LoadNext(j)
  <2> PICK v \in bound \ r.past :
        Sets(j, IF v \in cooling THEN [r EXCEPT !.past = @ \cup {v}] ELSE [r EXCEPT !.at = "list", !.v = v])
    BY <1>3 DEF LoadNext
  <2> PICK R : R = IF v \in cooling THEN [r EXCEPT !.past = @ \cup {v}] ELSE [r EXCEPT !.at = "list", !.v = v]
    OBVIOUS
  <2>1. r.at = "load" /\ v \in DefVault /\ agentsUp' = agentsUp
    BY <1>3 DEF LoadNext, VaultsInv, DefVaultsTypeOK
  <2>2. R \in JobRecord /\ R.at \in {"load", "list"} /\ R.saw = r.saw /\ (R.at = "list" => R.v \in bound)
    BY <1>1, <2>1 DEF JobRecord, Stages
  <2>3. job' = [job EXCEPT ![j] = R]
    BY DEF Sets
  <2> QED  BY <1>1, <1>2, <2>1, <2>2, <2>3, GoesOn
<1>4. CASE Loaded(j)
  <2> PICK R : R = [r EXCEPT !.at = "load", !.v = NoVault, !.past = @ \cup {r.v}]
    OBVIOUS
  <2>1. r.at = "list" /\ (agentsUp' = agentsUp \/ agentsUp' = agentsUp \cup {r.v})
    BY <1>4 DEF Loaded
  <2>2. R \in JobRecord /\ R.at = "load" /\ R.saw = r.saw
    BY <1>1 DEF JobRecord, Stages
  <2>3. job' = [job EXCEPT ![j] = R]
    BY <1>4 DEF Loaded, Sets
  <2> QED  BY <1>1, <1>2, <2>1, <2>2, <2>3, GoesOn
<1> QED  BY <1>3, <1>4

LEMMA LoadEndsKeeps ==
  ASSUME VaultsInv, NEW j \in Job, LoadEnds(j)  PROVE  VaultsInv'
<1>1. /\ job' \in [Job -> JobRecord]
      /\ \A i \in Job : job'[i] = IF i = j THEN NoJob ELSE job[i]
  BY JobSet, NoJobTyped DEF VaultsInv, LoadEnds, Sets
<1>2. /\ job[j].at = "load" /\ NoJob.at = "none"
      /\ UNCHANGED <<listed, bound, agentsUp, bearer>>
      /\ polling' = (polling \/ j = "boot")
      /\ added' = IF j \in Caller THEN added \cup job[j].saw ELSE added
  BY NoJobTyped DEF LoadEnds
<1>3. (j = "boot" \/ Free("boot")) /\ ~Removing /\ (j = "boot" => OthersFree("boot"))
  BY <1>2, JobNames DEF VaultsInv, BootIsAlone, RemovalIsAlone, OthersFree, Free, Removing
<1>4. /\ job[j].saw \subseteq DefVault
      /\ j \in Caller => listed # Absent /\ job[j].saw \subseteq listed
  BY <1>2 DEF VaultsInv, DefVaultsTypeOK, JobRecord, JobsKnow
<1>5. DefVaultsTypeOK'
  BY <1>1, <1>2, <1>4 DEF VaultsInv, DefVaultsTypeOK
<1>6. BootStages' /\ BootIsAlone' /\ RemovalIsAlone'
  BY <1>1, <1>2, <1>3, JobNames
  DEF VaultsInv, BootStages, BootIsAlone, RemovalIsAlone, Free, OthersFree, Removing
<1>7. SettledAgrees'
  BY <1>1, <1>2, <1>3, JobNames DEF VaultsInv, SettledAgrees, Settled, Removing, FileAgrees, Free
<1>8. JobsKnow'
  BY <1>1, <1>2, JobNames DEF VaultsInv, JobsKnow
<1>9. AddedStay' /\ NeverEmptied'
  BY <1>2, <1>4 DEF VaultsInv, AddedStay, NeverEmptied
<1> QED  BY <1>5, <1>6, <1>7, <1>8, <1>9 DEF VaultsInv

LEMMA BootKeeps ==
  ASSUME VaultsInv, Resolve \/ MintDefault \/ Bind  PROVE  VaultsInv'
<1> PICK b : b = job["boot"]
  OBVIOUS
<1>1. b \in JobRecord /\ "boot" \in Job /\ NoJob \in JobRecord /\ NoJob.at = "none"
  BY JobNames, NoJobTyped DEF VaultsInv, DefVaultsTypeOK
<1>2. /\ b.at \in {"resolve", "mintDefault", "bind"} /\ ~polling /\ bound = {} /\ agentsUp = {}
      /\ \A i \in Job \ {"boot"} : job[i].at = "none"
  BY JobNames DEF VaultsInv, BootIsAlone, BootStages, Free, OthersFree, Resolve, MintDefault, Bind
<1>3. DEFAULT \in DefVault /\ Absent \notin SUBSET DefVault
  BY DefVaultsAssumption
<1>4. \E R \in JobRecord :
        /\ job' = [job EXCEPT !["boot"] = R]
        /\ R.at \in {"none", "mintDefault", "bind", "register", "load"}
        /\ R.at = "mintDefault" => listed' = Absent
        /\ R.at = "bind" => R.saw = IF listed' = Absent THEN {DEFAULT} ELSE listed'
        /\ R.at = "none" => listed' = Absent
        /\ R.at \in {"none", "mintDefault", "bind"} => bound' = {}
        /\ R.at \in {"register", "load"} => bound' = IF listed' = Absent THEN {DEFAULT} ELSE listed'
        /\ listed' = listed \/ (listed = Absent /\ listed' = {DEFAULT})
        /\ bound' \subseteq DefVault
  <2>1. CASE Resolve
    <3>1. CASE listed # Absent
      <4> PICK R : R = [NoJob EXCEPT !.at = "bind", !.saw = listed, !.ok = bearer]
        OBVIOUS
      <4>1. R \in JobRecord /\ R.at = "bind" /\ R.saw = listed
        BY <3>1 DEF NoJob, JobRecord, Stages, VaultsInv, DefVaultsTypeOK
      <4>2. job' = [job EXCEPT !["boot"] = R]
        BY <2>1, <3>1 DEF Resolve, Sets
      <4> QED  BY <2>1, <3>1, <4>1, <4>2, <1>2 DEF Resolve
    <3>2. CASE listed = Absent /\ bearer
      <4> PICK R : R = [NoJob EXCEPT !.at = "mintDefault", !.ok = TRUE]
        OBVIOUS
      <4>1. R \in JobRecord /\ R.at = "mintDefault"
        BY DEF NoJob, JobRecord, Stages
      <4>2. job' = [job EXCEPT !["boot"] = R]
        BY <2>1, <3>2 DEF Resolve, Sets
      <4> QED  BY <2>1, <3>2, <4>1, <4>2, <1>2 DEF Resolve
    <3>3. CASE listed = Absent /\ ~bearer
      <4>1. job' = [job EXCEPT !["boot"] = NoJob]
        BY <2>1, <3>3 DEF Resolve, Sets
      <4> QED  BY <2>1, <3>3, <4>1, <1>1, <1>2 DEF Resolve
    <3> QED  BY <3>1, <3>2, <3>3
  <2>2. CASE MintDefault
    <3>1. b.at = "mintDefault" /\ listed = Absent /\ bound' = bound
      BY <2>2 DEF MintDefault, VaultsInv, BootStages
    <3>2. CASE Sets("boot", [b EXCEPT !.at = "bind", !.saw = {DEFAULT}]) /\ (listed' = {DEFAULT} \/ listed' = listed)
      <4> PICK R : R = [b EXCEPT !.at = "bind", !.saw = {DEFAULT}]
        OBVIOUS
      <4>1. R \in JobRecord /\ R.at = "bind" /\ R.saw = {DEFAULT}
        BY <1>1, <1>3 DEF JobRecord, Stages
      <4>2. job' = [job EXCEPT !["boot"] = R]
        BY <3>2 DEF Sets
      <4> QED  BY <3>1, <3>2, <4>1, <4>2, <1>2
    <3>3. CASE Sets("boot", NoJob) /\ listed' = listed
      <4>1. job' = [job EXCEPT !["boot"] = NoJob]
        BY <3>3 DEF Sets
      <4> QED  BY <3>1, <3>3, <4>1, <1>1, <1>2
    <3> QED  BY <2>2, <3>2, <3>3 DEF MintDefault
  <2>3. CASE Bind
    <3>1. /\ b.at = "bind" /\ listed' = listed /\ bound' = b.saw
          /\ b.saw = IF listed = Absent THEN {DEFAULT} ELSE listed
      BY <2>3, <1>2 DEF Bind, VaultsInv, BootStages
    <3>2. b.saw # {} /\ b.saw \subseteq DefVault
      BY <3>1, <1>1 DEF JobRecord, VaultsInv, NeverEmptied
    <3> PICK R : R = [b EXCEPT !.at = IF b.ok THEN "register" ELSE "load"]
      OBVIOUS
    <3>3. R \in JobRecord /\ R.at \in {"register", "load"}
      BY <1>1 DEF JobRecord, Stages
    <3>4. job' = [job EXCEPT !["boot"] = R]
      BY <2>3, <3>2 DEF Bind, Sets
    <3> QED  BY <3>1, <3>2, <3>3, <3>4
  <2> QED  BY <2>1, <2>2, <2>3
<1> PICK R \in JobRecord :
        /\ job' = [job EXCEPT !["boot"] = R]
        /\ R.at \in {"none", "mintDefault", "bind", "register", "load"}
        /\ R.at = "mintDefault" => listed' = Absent
        /\ R.at = "bind" => R.saw = IF listed' = Absent THEN {DEFAULT} ELSE listed'
        /\ R.at = "none" => listed' = Absent
        /\ R.at \in {"none", "mintDefault", "bind"} => bound' = {}
        /\ R.at \in {"register", "load"} => bound' = IF listed' = Absent THEN {DEFAULT} ELSE listed'
        /\ listed' = listed \/ (listed = Absent /\ listed' = {DEFAULT})
        /\ bound' \subseteq DefVault
  BY <1>4
<1>5. /\ job' \in [Job -> JobRecord]
      /\ \A i \in Job : job'[i] = IF i = "boot" THEN R ELSE job[i]
  BY JobSet, <1>1 DEF VaultsInv
<1>6. UNCHANGED <<agentsUp, bearer, polling, added>>
  BY DEF Resolve, MintDefault, Bind
<1>7. DefVaultsTypeOK'
  BY <1>3, <1>5, <1>6 DEF VaultsInv, DefVaultsTypeOK
<1>8. BootStages' /\ BootIsAlone' /\ RemovalIsAlone' /\ JobsKnow'
  BY <1>1, <1>2, <1>5, <1>6, JobNames
  DEF VaultsInv, BootStages, BootIsAlone, RemovalIsAlone, JobsKnow, Free, OthersFree
<1>9. SettledAgrees'
  BY <1>1, <1>2, <1>5, <1>6, JobNames DEF SettledAgrees, Settled, FileAgrees
<1>10. AddedStay' /\ NeverEmptied'
  BY <1>3, <1>6 DEF VaultsInv, AddedStay, NeverEmptied
<1> QED  BY <1>7, <1>8, <1>9, <1>10 DEF VaultsInv

LEMMA SweepKeeps ==
  ASSUME VaultsInv, Alone, Sweep  PROVE  VaultsInv'
<1> PICK R : R = [job["sweep"] EXCEPT !.at = "load"]
  OBVIOUS
<1>1. R \in JobRecord /\ R.at = "load"
  BY JobNames DEF JobRecord, Stages, VaultsInv, DefVaultsTypeOK
<1>2. job' = [job EXCEPT !["sweep"] = R] /\ UNCHANGED <<listed, bound, agentsUp, bearer, polling, added>>
  BY DEF Sweep, Enters, Sets
<1>3. polling /\ ~Removing
  BY DEF Sweep
<1>4. job["boot"].at = "none"
  BY <1>3 DEF VaultsInv, BootIsAlone, Free
<1>5. /\ job' \in [Job -> JobRecord]
      /\ \A i \in Job : job'[i] = IF i = "sweep" THEN R ELSE job[i]
  BY <1>1, <1>2, JobSet, JobNames DEF VaultsInv
<1>6. DefVaultsTypeOK' /\ AddedStay' /\ NeverEmptied'
  BY <1>2, <1>5 DEF VaultsInv, DefVaultsTypeOK, AddedStay, NeverEmptied
<1>7. BootStages' /\ BootIsAlone' /\ RemovalIsAlone'
  BY <1>1, <1>2, <1>3, <1>4, <1>5, JobNames
  DEF VaultsInv, BootStages, BootIsAlone, RemovalIsAlone, Removing, Free, OthersFree
<1>8. SettledAgrees' /\ JobsKnow'
  BY <1>1, <1>2, <1>3, <1>4, <1>5, JobNames
  DEF VaultsInv, SettledAgrees, Settled, Removing, FileAgrees, JobsKnow
<1> QED  BY <1>6, <1>7, <1>8 DEF VaultsInv

LEMMA AddingKeeps ==
  ASSUME VaultsInv, Alone, NEW c \in Caller, NEW v \in DefVault, AddDefVault(c, v)  PROVE  VaultsInv'
<1> PICK R : R = [NoJob EXCEPT !.at = "mint", !.v = v, !.past = Known]
  OBVIOUS
<1>1. R \in JobRecord /\ R.at = "mint" /\ R.v = v
  BY DEF NoJob, JobRecord, Stages, Known, VaultsInv, DefVaultsTypeOK
<1>2. job' = [job EXCEPT ![c] = R] /\ UNCHANGED <<listed, bound, agentsUp, bearer, polling, added>>
  BY DEF AddDefVault, Sets
<1>3. job["boot"].at = "none" /\ job[c].at = "none" /\ ~Removing
  BY DEF AddDefVault, MayCall, Free
<1>4. /\ job' \in [Job -> JobRecord]
      /\ \A i \in Job : job'[i] = IF i = c THEN R ELSE job[i]
  BY <1>1, <1>2, JobSet, JobNames DEF VaultsInv
<1>5. DefVaultsTypeOK' /\ AddedStay' /\ NeverEmptied'
  BY <1>2, <1>4 DEF VaultsInv, DefVaultsTypeOK, AddedStay, NeverEmptied
<1>6. BootStages' /\ BootIsAlone' /\ RemovalIsAlone'
  BY <1>1, <1>2, <1>3, <1>4, JobNames
  DEF VaultsInv, BootStages, BootIsAlone, RemovalIsAlone, Removing, Free, OthersFree
<1>7. SettledAgrees' /\ JobsKnow'
  BY <1>1, <1>2, <1>3, <1>4, JobNames
  DEF VaultsInv, SettledAgrees, Settled, Removing, FileAgrees, JobsKnow
<1> QED  BY <1>5, <1>6, <1>7 DEF VaultsInv

\* The vault is appended to the file as it is after the mint.
LEMMA MintedKeeps ==
  ASSUME VaultsInv, NEW c \in Caller, AddMinted(c)  PROVE  VaultsInv'
<1> PICK v : v = job[c].v
  OBVIOUS
<1>1. job[c].at = "mint" /\ v \in DefVault /\ UNCHANGED <<agentsUp, bearer, polling, added>>
  BY JobNames DEF AddMinted, VaultsInv, JobsKnow
<1>2. job["boot"].at = "none" /\ \A i \in Caller : job[i].at # "remove"
  BY <1>1, JobNames DEF VaultsInv, BootIsAlone, RemovalIsAlone, OthersFree, Free
<1>3. FileAgrees /\ agentsUp \subseteq bound
  BY <1>2 DEF VaultsInv, SettledAgrees, Settled, Removing
<1>4. Absent \notin SUBSET DefVault
  BY DefVaultsAssumption
<1>5. \E R \in JobRecord :
        /\ job' = [job EXCEPT ![c] = R]
        /\ \/ R.at = "none" /\ listed' = listed /\ bound' = bound
           \/ R.at = "load" /\ R.saw = {v} /\ listed' = bound \cup {v} /\ bound' = bound \cup {v}
        /\ listed # Absent => listed' # Absent /\ listed \subseteq listed'
  <2>1. CASE Sets(c, NoJob) /\ listed' = listed /\ bound' = bound
    BY <2>1, NoJobTyped DEF Sets
  <2>2. CASE Sets(c, [NoJob EXCEPT !.at = "load", !.saw = {v}]) /\ listed' = Known \cup {v} /\ bound' = bound \cup {v}
    <3> PICK R : R = [NoJob EXCEPT !.at = "load", !.saw = {v}]
      OBVIOUS
    <3>1. R \in JobRecord /\ R.at = "load" /\ R.saw = {v}
      BY <1>1 DEF NoJob, JobRecord, Stages
    <3>2. job' = [job EXCEPT ![c] = R]
      BY <2>2 DEF Sets
    <3>3. Known = bound
      BY <1>3 DEF Known, FileAgrees
    <3>4. bound \cup {v} # Absent
      BY <1>1, <1>4 DEF VaultsInv, DefVaultsTypeOK
    <3> QED  BY <2>2, <3>1, <3>2, <3>3, <3>4, <1>3 DEF FileAgrees
  <2> QED  BY <2>1, <2>2 DEF AddMinted, Existing
<1> PICK R \in JobRecord :
        /\ job' = [job EXCEPT ![c] = R]
        /\ \/ R.at = "none" /\ listed' = listed /\ bound' = bound
           \/ R.at = "load" /\ R.saw = {v} /\ listed' = bound \cup {v} /\ bound' = bound \cup {v}
        /\ listed # Absent => listed' # Absent /\ listed \subseteq listed'
  BY <1>5
<1>6. /\ job' \in [Job -> JobRecord]
      /\ \A i \in Job : job'[i] = IF i = c THEN R ELSE job[i]
  BY JobSet, JobNames DEF VaultsInv
<1>7. bound \cup {v} # Absent /\ bound \cup {v} \subseteq DefVault
  BY <1>1, <1>4 DEF VaultsInv, DefVaultsTypeOK
<1>8. DefVaultsTypeOK' /\ AddedStay' /\ NeverEmptied'
  BY <1>1, <1>6, <1>7 DEF VaultsInv, DefVaultsTypeOK, AddedStay, NeverEmptied
<1>9. BootStages' /\ BootIsAlone' /\ RemovalIsAlone'
  BY <1>1, <1>2, <1>6, JobNames DEF VaultsInv, BootStages, BootIsAlone, RemovalIsAlone, Free, OthersFree
<1>10. SettledAgrees'
  BY <1>1, <1>3, <1>7 DEF SettledAgrees, FileAgrees
<1>11. JobsKnow'
  BY <1>1, <1>2, <1>6, <1>7, JobNames DEF VaultsInv, JobsKnow
<1> QED  BY <1>8, <1>9, <1>10, <1>11 DEF VaultsInv

LEMMA DeletingKeeps ==
  ASSUME VaultsInv, Alone, NEW c \in Caller, NEW v \in DefVault, DeleteDefVault(c, v)  PROVE  VaultsInv'
<1> PICK R : R = [NoJob EXCEPT !.at = "remove", !.v = v]
  OBVIOUS
<1>1. R \in JobRecord /\ R.at = "remove" /\ R.v = v
  BY DEF NoJob, JobRecord, Stages
<1>2. /\ job' = [job EXCEPT ![c] = R] /\ UNCHANGED <<bound, bearer, polling>>
      /\ listed' = IF listed = Absent THEN Absent ELSE listed \ {v}
      /\ agentsUp' = agentsUp \ {v} /\ added' = added \ {v}
      /\ v \in bound /\ bound # {v}
  BY DEF DeleteDefVault, Sets
<1>3. \A i \in Job : job[i].at = "none"
  BY DEF DeleteDefVault, MayCall, Free, OthersFree
<1>4. FileAgrees /\ agentsUp \subseteq bound
  BY <1>3, JobNames DEF VaultsInv, SettledAgrees, Settled, Removing
<1>5. listed # Absent /\ listed = bound /\ listed' = bound \ {v} /\ listed' # Absent /\ listed' # {}
  BY <1>2, <1>4, DefVaultsAssumption DEF FileAgrees, VaultsInv, DefVaultsTypeOK
<1>6. /\ job' \in [Job -> JobRecord]
      /\ \A i \in Job : job'[i] = IF i = c THEN R ELSE job[i]
  BY <1>1, <1>2, JobSet, JobNames DEF VaultsInv
<1>7. DefVaultsTypeOK' /\ AddedStay' /\ NeverEmptied'
  BY <1>2, <1>5, <1>6 DEF VaultsInv, DefVaultsTypeOK, AddedStay, NeverEmptied
<1>8. BootStages' /\ BootIsAlone'
  BY <1>1, <1>3, <1>6, JobNames DEF BootStages, BootIsAlone, Free
<1>9. RemovalIsAlone'
  BY <1>1, <1>2, <1>3, <1>4, <1>5, <1>6, JobNames DEF RemovalIsAlone, OthersFree, Free
<1>10. SettledAgrees'
  BY <1>1, <1>6, JobNames DEF SettledAgrees, Settled, Removing
<1>11. JobsKnow'
  BY <1>1, <1>3, <1>6, JobNames DEF JobsKnow
<1> QED  BY <1>7, <1>8, <1>9, <1>10, <1>11 DEF VaultsInv

LEMMA RemovedKeeps ==
  ASSUME VaultsInv, NEW c \in Caller, RemoveDefVault(c)  PROVE  VaultsInv'
<1>1. /\ job' = [job EXCEPT ![c] = NoJob] /\ bound' = bound \ {job[c].v}
      /\ job[c].at = "remove" /\ UNCHANGED <<listed, agentsUp, bearer, polling, added>>
  BY DEF RemoveDefVault, Sets
<1>2. \A i \in Job \ {c} : job[i].at = "none"
  BY <1>1 DEF VaultsInv, RemovalIsAlone, OthersFree, Free
<1>3. listed # Absent /\ listed = bound' /\ agentsUp \subseteq listed
  BY <1>1 DEF VaultsInv, RemovalIsAlone
<1>4. /\ job' \in [Job -> JobRecord]
      /\ \A i \in Job : job'[i].at = "none"
  BY <1>1, <1>2, JobSet, JobNames, NoJobTyped DEF VaultsInv
<1>5. DefVaultsTypeOK' /\ AddedStay' /\ NeverEmptied'
  BY <1>1, <1>4 DEF VaultsInv, DefVaultsTypeOK, AddedStay, NeverEmptied
<1>6. BootStages' /\ BootIsAlone' /\ RemovalIsAlone' /\ JobsKnow'
  BY <1>4, JobNames DEF BootStages, BootIsAlone, RemovalIsAlone, JobsKnow, Free
<1>7. SettledAgrees'
  BY <1>1, <1>3 DEF SettledAgrees, FileAgrees
<1> QED  BY <1>5, <1>6, <1>7 DEF VaultsInv

LEMMA BootedAnew ==
  ASSUME bound' = {}, agentsUp' = {}, polling' = FALSE,
         job' = [j \in Job |-> IF j = "boot" THEN DefBoot ELSE NoJob],
         listed' \in {Absent} \cup SUBSET DefVault, added' \subseteq DefVault, bearer' \in BOOLEAN,
         AddedStay', NeverEmptied'
  PROVE  VaultsInv'
<1>1. /\ job' \in [Job -> JobRecord] /\ job'["boot"].at = "resolve"
      /\ \A i \in Job \ {"boot"} : job'[i].at = "none"
  BY NoJobTyped, JobNames
<1>2. DefVaultsTypeOK'
  BY <1>1 DEF DefVaultsTypeOK
<1>3. BootStages' /\ BootIsAlone' /\ RemovalIsAlone' /\ JobsKnow' /\ SettledAgrees'
  BY <1>1, JobNames
  DEF BootStages, BootIsAlone, RemovalIsAlone, JobsKnow, SettledAgrees, Settled, Free, OthersFree
<1> QED  BY <1>2, <1>3 DEF VaultsInv

LEMMA VaultsRestart ==
  ASSUME VaultsInv, DefRestart  PROVE  VaultsInv'
<1>1. /\ bound' = {} /\ agentsUp' = {} /\ polling' = FALSE
      /\ job' = [j \in Job |-> IF j = "boot" THEN DefBoot ELSE NoJob]
      /\ UNCHANGED <<listed, bearer, added>>
  BY DEF DefRestart
<1>2. /\ listed' \in {Absent} \cup SUBSET DefVault /\ added' \subseteq DefVault /\ bearer' \in BOOLEAN
      /\ AddedStay' /\ NeverEmptied'
  BY <1>1 DEF VaultsInv, DefVaultsTypeOK, AddedStay, NeverEmptied
<1> QED  BY <1>1, <1>2, BootedAnew

LEMMA VaultsInitial == DefVaultsInit => VaultsInv
<1> SUFFICES ASSUME DefVaultsInit  PROVE  VaultsInv
  OBVIOUS
<1>1. /\ job \in [Job -> JobRecord] /\ job["boot"].at = "resolve"
      /\ \A i \in Job \ {"boot"} : job[i].at = "none"
  BY NoJobTyped, JobNames DEF DefVaultsInit
<1>2. /\ bound = {} /\ agentsUp = {} /\ added = {} /\ polling = FALSE /\ bearer \in BOOLEAN
      /\ listed \in {Absent} \cup {{v} : v \in DefVault}
  BY DEF DefVaultsInit
<1>3. DefVaultsTypeOK
  BY <1>1, <1>2 DEF DefVaultsTypeOK
<1>4. listed # {}
  BY <1>2, DefVaultsAssumption
<1>5. BootStages /\ BootIsAlone /\ RemovalIsAlone /\ JobsKnow /\ SettledAgrees
  BY <1>1, <1>2, JobNames
  DEF BootStages, BootIsAlone, RemovalIsAlone, JobsKnow, SettledAgrees, Settled, Free, OthersFree
<1> QED  BY <1>2, <1>3, <1>4, <1>5 DEF VaultsInv, AddedStay, NeverEmptied

LEMMA VaultsStep == ASSUME Alone, VaultsInv, [DefVaultsNext]_defVaultsVars  PROVE  VaultsInv'
<1>1. CASE UNCHANGED <<listed, bound, agentsUp, polling, job, added>> /\ bearer' \in BOOLEAN
  BY <1>1
  DEF VaultsInv, DefVaultsTypeOK, BootStages, BootIsAlone, RemovalIsAlone, SettledAgrees, Settled, Removing,
      FileAgrees, JobsKnow, AddedStay, NeverEmptied, Free, OthersFree
<1>2. bearer \in BOOLEAN
  BY DEF VaultsInv, DefVaultsTypeOK
<1>3. CASE Provision \/ UNCHANGED defVaultsVars
  BY <1>1, <1>2, <1>3 DEF Provision, defVaultsVars
<1>4. CASE BootStep
  BY <1>4, BootKeeps, RegisteringGoesOn DEF BootStep
<1>5. CASE Sweep
  BY <1>5, SweepKeeps
<1>6. CASE DefRestart
  BY <1>6, VaultsRestart
<1>7. CASE \E j \in Job : LoadStep(j)
  BY <1>7, LoadingGoesOn, LoadEndsKeeps DEF LoadStep
<1>8. CASE \E v \in DefVault : Cooled(v)
  BY <1>1, <1>2, <1>8 DEF Cooled
<1>9. CASE \E c \in Caller : CallStep(c) \/ DeleteUnknown(c)
  <2>1. CASE \E c \in Caller : DeleteUnknown(c)
    BY <1>3, <2>1 DEF DeleteUnknown
  <2>2. CASE \E c \in Caller : CallStep(c)
    BY <2>2, MintedKeeps, RemovedKeeps DEF CallStep
  <2> QED  BY <1>9, <2>1, <2>2
<1>10. CASE \E c \in Caller, v \in DefVault :
         AddDefVault(c, v) \/ DeleteDefVault(c, v) \/ DeleteDefVaultFails(c, v)
  <2> PICK c \in Caller, v \in DefVault :
        AddDefVault(c, v) \/ DeleteDefVault(c, v) \/ DeleteDefVaultFails(c, v)
    BY <1>10
  <2>1. CASE DeleteDefVaultFails(c, v)
    BY <1>1, <1>2, <2>1 DEF DeleteDefVaultFails
  <2> QED  BY <2>1, AddingKeeps, DeletingKeeps
<1> QED  BY <1>3, <1>4, <1>5, <1>6, <1>7, <1>8, <1>9, <1>10 DEF DefVaultsNext

(* As long as a boot and a removal have nothing beside them, and however   *)
(* additions, the poll, failing mints, listings and writes and restarts    *)
(* fall: the file names what is bound, what was added with success stays   *)
(* there, and the last vault is never removed.                             *)
THEOREM FileIsWhatIsBound == ASSUME Alone  PROVE  DefVaultsSpec => []VaultsAgree
<1>1. VaultsInv => VaultsAgree
  BY DEF VaultsInv, VaultsAgree, Booted, SettledAgrees, Settled, Free
<1>2. VaultsInv /\ [DefVaultsNext]_defVaultsVars => VaultsInv'
  BY VaultsStep
<1> QED  BY <1>1, <1>2, VaultsInitial, PTL DEF DefVaultsSpec

-----------------------------------------------------------------------------
(* WebAgents: who serves a channel.                                         *)

SpecOr == Accepted \cup {NoSpec}

WebAgentsTypeOK ==
  /\ specs \in [Agent -> SpecOr]
  /\ byChannel \in [Line -> SpecOr] /\ owed \in [Line -> SpecOr]
  /\ nameToChannel \in [Agent -> Line \cup {NoField}]
  /\ boot \subseteq {n \in Agent : specs[n] # NoSpec}

\* A spec lies on disk under its own name.
FiledByName == \A n \in Agent : specs[n] # NoSpec => specs[n].name = n

\* What a channel is owed lies on disk, and of what lies there a channel is
\* owed just what was not deleted, displaced or passed over.
OwedIsOnDisk ==
  \A ch \in Line : owed[ch] # NoSpec =>
    /\ specs[owed[ch].name] = owed[ch] /\ WakeOf(owed[ch]) = ch
    /\ owed[ch].name \notin killed
NotKilledIsOwed ==
  \A n \in Agent \ killed : specs[n] # NoSpec => owed[WakeOf(specs[n])] = specs[n]

\* The two indexes of the registry agree, but for contested channels.
IndexesAgree ==
  \A ch \in Line \ contested : \A n \in Agent :
    nameToChannel[n] = ch <=> byChannel[ch] # NoSpec /\ byChannel[ch].name = n

\* A boot has yet to bring up what a channel is owed.
ServesOrWill ==
  \A ch \in Line \ contested :
    /\ byChannel[ch] # NoSpec => byChannel[ch] = owed[ch]
    /\ owed[ch] # NoSpec => byChannel[ch] = owed[ch] \/ owed[ch].name \in boot
UnreadAreDown == \A n \in boot : nameToChannel[n] = NoField

WebAgentsInv ==
  /\ WebAgentsTypeOK /\ FiledByName /\ OwedIsOnDisk /\ NotKilledIsOwed
  /\ IndexesAgree /\ ServesOrWill /\ UnreadAreDown

LEMMA AcceptedFits ==
  ASSUME NEW s \in Accepted
  PROVE  s # NoSpec /\ s.name \in Agent /\ WakeOf(s) \in Line /\ WakeOf(s) # NoField
<1> QED  BY WebAgentsAssumption

\* What the registry holds once it has taken a spec.
LEMMA Registers ==
  ASSUME WebAgentsTypeOK, NEW s \in Accepted, Register(s)
  PROVE  /\ byChannel' \in [Line -> SpecOr]
         /\ nameToChannel' \in [Agent -> Line \cup {NoField}]
         /\ byChannel'[WakeOf(s)] = s
         /\ \A ch \in Line : ch # WakeOf(s) =>
              byChannel'[ch] = IF ch = nameToChannel[s.name] THEN NoSpec ELSE byChannel[ch]
         /\ \A n \in Agent : nameToChannel'[n] = IF n = s.name THEN WakeOf(s) ELSE nameToChannel[n]
<1>1. s.name \in Agent /\ WakeOf(s) \in Line /\ WakeOf(s) # NoField /\ s \in SpecOr /\ NoSpec \in SpecOr
  BY AcceptedFits DEF SpecOr
<1> PICK w, c : w = WakeOf(s) /\ c = nameToChannel[s.name]
  OBVIOUS
<1>2. /\ c \in Line \cup {NoField} /\ byChannel \in [Line -> SpecOr]
      /\ nameToChannel \in [Agent -> Line \cup {NoField}] /\ NoField \notin Line
  BY <1>1, WebAgentsAssumption DEF WebAgentsTypeOK
<1>3. /\ byChannel' = [Without(c) EXCEPT ![w] = s]
      /\ nameToChannel' = [nameToChannel EXCEPT ![s.name] = w]
  BY DEF Register
<1>4. /\ Without(c) \in [Line -> SpecOr]
      /\ \A ch \in Line : Without(c)[ch] = IF ch = c THEN NoSpec ELSE byChannel[ch]
  BY <1>1, <1>2 DEF Without
<1> QED  BY <1>1, <1>2, <1>3, <1>4

LEMMA Unowes ==
  ASSUME WebAgentsTypeOK, NEW n
  PROVE  /\ Unowed(n) \in [Line -> SpecOr]
         /\ \A ch \in Line :
              /\ Unowed(n)[ch] # NoSpec => owed[ch] # NoSpec /\ owed[ch].name # n /\ Unowed(n)[ch] = owed[ch]
              /\ owed[ch] # NoSpec /\ owed[ch].name # n => Unowed(n)[ch] = owed[ch]
              /\ owed[ch] = NoSpec \/ owed[ch].name = n => Unowed(n)[ch] = NoSpec
<1> QED  BY DEF WebAgentsTypeOK, SpecOr, Unowed

LEMMA WebAgentsInitial == WebAgentsInit => WebAgentsInv
<1> SUFFICES ASSUME WebAgentsInit  PROVE  WebAgentsInv
  OBVIOUS
<1>1. NoField \notin Line
  BY WebAgentsAssumption
<1> QED
  BY <1>1 DEF WebAgentsInit, WebAgentsInv, WebAgentsTypeOK, SpecOr, FiledByName, OwedIsOnDisk, NotKilledIsOwed,
     IndexesAgree, ServesOrWill, UnreadAreDown

LEMMA WebSpawnKeeps ==
  ASSUME WebAgentsInv, NEW b \in Bodies, NEW steppedUp, SpawnAgent(b, steppedUp)
  PROVE  WebAgentsInv'
<1> PICK s : s = buildSpecFromBody(b)
  OBVIOUS
<1> PICK a, w : a = s.name /\ w = WakeOf(s)
  OBVIOUS
<1>0. s \in Accepted
  BY DEF SpawnAgent, Accepted
<1>1. a \in Agent /\ w \in Line /\ s # NoSpec /\ s \in SpecOr /\ NoSpec \in SpecOr
  BY <1>0, AcceptedFits DEF SpecOr
<1>2. /\ boot = {} /\ ~Occupied(s) /\ specs' = Persisted(s) /\ Register(s)
      /\ owed' = [Unowed(a) EXCEPT ![w] = s]
      /\ killed' = (killed \cup Displaced(s)) \ {a}
      /\ boot' = boot /\ contested' = contested
  BY DEF SpawnAgent
<1>3. WebAgentsTypeOK
  BY DEF WebAgentsInv
<1>4. /\ specs' \in [Agent -> SpecOr]
      /\ \A n \in Agent : specs'[n] = IF n = a THEN s ELSE specs[n]
  BY <1>1, <1>2, <1>3 DEF Persisted, WebAgentsTypeOK
<1>5. /\ owed' \in [Line -> SpecOr] /\ owed'[w] = s
      /\ \A ch \in Line : ch # w =>
           /\ owed'[ch] # NoSpec => owed[ch] # NoSpec /\ owed[ch].name # a /\ owed'[ch] = owed[ch]
           /\ owed[ch] # NoSpec /\ owed[ch].name # a => owed'[ch] = owed[ch]
           /\ owed[ch] = NoSpec \/ owed[ch].name = a => owed'[ch] = NoSpec
  BY <1>1, <1>2, <1>3, Unowes
<1>6. /\ byChannel' \in [Line -> SpecOr] /\ nameToChannel' \in [Agent -> Line \cup {NoField}]
      /\ byChannel'[w] = s
      /\ \A ch \in Line : ch # w => byChannel'[ch] = IF ch = nameToChannel[a] THEN NoSpec ELSE byChannel[ch]
      /\ \A n \in Agent : nameToChannel'[n] = IF n = a THEN w ELSE nameToChannel[n]
  BY <1>0, <1>2, <1>3, Registers
<1>7. \A ch \in Line : owed[ch] # NoSpec => owed[ch].name \in Agent
  BY <1>3, AcceptedFits DEF WebAgentsTypeOK, SpecOr
<1>8. \A ch \in Line : byChannel[ch] # NoSpec => byChannel[ch].name \in Agent
  BY <1>3, AcceptedFits DEF WebAgentsTypeOK, SpecOr
<1>9. WebAgentsTypeOK' /\ UnreadAreDown'
  BY <1>2, <1>4, <1>5, <1>6 DEF WebAgentsTypeOK, UnreadAreDown
<1>10. FiledByName'
  BY <1>1, <1>4 DEF FiledByName, WebAgentsInv
<1>11. OwedIsOnDisk'
  <2> SUFFICES ASSUME NEW ch \in Line, owed'[ch] # NoSpec
               PROVE  specs'[owed'[ch].name] = owed'[ch] /\ WakeOf(owed'[ch]) = ch /\ owed'[ch].name \notin killed'
    BY DEF OwedIsOnDisk
  <2>1. CASE ch = w
    BY <2>1, <1>1, <1>2, <1>4, <1>5
  <2>2. CASE ch # w
    <3>1. owed[ch] # NoSpec /\ owed[ch].name # a /\ owed'[ch] = owed[ch] /\ owed[ch].name \in Agent
      BY <2>2, <1>5, <1>7
    <3>2. specs[owed[ch].name] = owed[ch] /\ WakeOf(owed[ch]) = ch /\ owed[ch].name \notin killed
      BY <3>1 DEF WebAgentsInv, OwedIsOnDisk
    <3>3. owed[ch].name \notin Displaced(s)
      BY <3>1, <3>2, <2>2, <1>1 DEF Displaced, WebAgentsInv, OwedIsOnDisk
    <3> QED  BY <3>1, <3>2, <3>3, <1>2, <1>4
  <2> QED  BY <2>1, <2>2
<1>12. NotKilledIsOwed'
  <2> SUFFICES ASSUME NEW n \in Agent, n \notin killed', specs'[n] # NoSpec
               PROVE  owed'[WakeOf(specs'[n])] = specs'[n]
    BY DEF NotKilledIsOwed
  <2>1. CASE n = a
    BY <2>1, <1>1, <1>4, <1>5
  <2>2. CASE n # a
    <3>1. specs'[n] = specs[n] /\ n \notin killed /\ n \notin Displaced(s)
      BY <2>2, <1>2, <1>4
    <3>2. owed[WakeOf(specs[n])] = specs[n] /\ specs[n].name = n /\ WakeOf(specs[n]) \in Line
      BY <3>1, <1>3, AcceptedFits DEF WebAgentsInv, NotKilledIsOwed, FiledByName, WebAgentsTypeOK, SpecOr
    <3>3. WakeOf(specs[n]) # w
      BY <3>1, <3>2 DEF Displaced
    <3> QED  BY <2>2, <3>1, <3>2, <3>3, <1>5
  <2> QED  BY <2>1, <2>2
<1>13. \A ch \in Line \ contested : \A n \in Agent :
         nameToChannel[n] = ch <=> byChannel[ch] # NoSpec /\ byChannel[ch].name = n
  BY DEF WebAgentsInv, IndexesAgree
<1>14. IndexesAgree'
  <2> SUFFICES ASSUME NEW ch \in Line \ contested, NEW n \in Agent
               PROVE  nameToChannel'[n] = ch <=> byChannel'[ch] # NoSpec /\ byChannel'[ch].name = n
    BY <1>2 DEF IndexesAgree
  <2>1. CASE ch = w
    <3>1. byChannel[w] # NoSpec => byChannel[w].name = a
      BY <1>2 DEF Occupied
    <3>2. n # a => nameToChannel[n] # w
      BY <2>1, <3>1, <1>13
    <3> QED  BY <2>1, <3>2, <1>1, <1>6
  <2>2. CASE ch # w
    <3>1. CASE n = a
      <4>1. nameToChannel'[n] # ch
        BY <2>2, <3>1, <1>6
      <4>2. ch # nameToChannel[a] => ~(byChannel[ch] # NoSpec /\ byChannel[ch].name = a)
        BY <1>1, <1>13
      <4> QED  BY <2>2, <3>1, <4>1, <4>2, <1>6
    <3>2. CASE n # a
      <4>1. ch = nameToChannel[a] => nameToChannel[n] # ch
        BY <3>2, <1>1, <1>13
      <4> QED  BY <2>2, <3>2, <4>1, <1>6, <1>13
    <3> QED  BY <3>1, <3>2
  <2> QED  BY <2>1, <2>2
<1>15. ServesOrWill'
  <2> SUFFICES ASSUME NEW ch \in Line \ contested
               PROVE  /\ byChannel'[ch] # NoSpec => byChannel'[ch] = owed'[ch]
                      /\ owed'[ch] # NoSpec => byChannel'[ch] = owed'[ch]
    BY <1>2 DEF ServesOrWill
  <2>1. CASE ch = w
    BY <2>1, <1>5, <1>6
  <2>2. CASE ch # w
    <3>1. /\ byChannel[ch] # NoSpec => byChannel[ch] = owed[ch]
          /\ owed[ch] # NoSpec => byChannel[ch] = owed[ch]
      BY <1>2 DEF WebAgentsInv, ServesOrWill
    <3>2. nameToChannel[a] = ch <=> byChannel[ch] # NoSpec /\ byChannel[ch].name = a
      BY <1>1, <1>13
    <3> QED  BY <2>2, <3>1, <3>2, <1>5, <1>6
  <2> QED  BY <2>1, <2>2
<1> QED  BY <1>9, <1>10, <1>11, <1>12, <1>14, <1>15 DEF WebAgentsInv

LEMMA WebDeleteKeeps ==
  ASSUME WebAgentsInv, NEW a \in Agent, DeleteAgent(a)  PROVE  WebAgentsInv'
<1> PICK w : w = nameToChannel[a]
  OBVIOUS
<1>1. WebAgentsTypeOK /\ NoSpec \in SpecOr /\ NoField \notin Line
  BY WebAgentsAssumption DEF WebAgentsInv, SpecOr
<1>2. w \in Line
  BY <1>1 DEF DeleteAgent, WebAgentsTypeOK
<1>3. /\ boot = {} /\ owed' = Unowed(a) /\ killed' = killed \cup {a}
      /\ specs' = specs /\ boot' = boot /\ contested' = contested
  BY DEF DeleteAgent
<1>4. /\ byChannel' \in [Line -> SpecOr]
      /\ \A ch \in Line : byChannel'[ch] = IF ch = w THEN NoSpec ELSE byChannel[ch]
      /\ nameToChannel' \in [Agent -> Line \cup {NoField}]
      /\ \A n \in Agent : nameToChannel'[n] = IF n = a THEN NoField ELSE nameToChannel[n]
  BY <1>1, <1>2 DEF DeleteAgent, Without, WebAgentsTypeOK
<1>5. /\ owed' \in [Line -> SpecOr]
      /\ \A ch \in Line :
           /\ owed'[ch] # NoSpec => owed[ch] # NoSpec /\ owed[ch].name # a /\ owed'[ch] = owed[ch]
           /\ owed[ch] # NoSpec /\ owed[ch].name # a => owed'[ch] = owed[ch]
           /\ owed[ch] = NoSpec \/ owed[ch].name = a => owed'[ch] = NoSpec
  BY <1>1, <1>3, Unowes
<1>6. WebAgentsTypeOK' /\ UnreadAreDown'
  BY <1>1, <1>3, <1>4, <1>5 DEF WebAgentsTypeOK, UnreadAreDown
<1>7. FiledByName' /\ OwedIsOnDisk'
  BY <1>3, <1>5 DEF WebAgentsInv, FiledByName, OwedIsOnDisk
<1>8. NotKilledIsOwed'
  <2> SUFFICES ASSUME NEW n \in Agent, n \notin killed, n # a, specs[n] # NoSpec
               PROVE  owed'[WakeOf(specs[n])] = specs[n]
    BY <1>3 DEF NotKilledIsOwed
  <2>1. owed[WakeOf(specs[n])] = specs[n] /\ specs[n].name = n /\ WakeOf(specs[n]) \in Line
    BY <1>1, AcceptedFits DEF WebAgentsInv, NotKilledIsOwed, FiledByName, WebAgentsTypeOK, SpecOr
  <2> QED  BY <2>1, <1>5
<1>9. \A ch \in Line \ contested : \A n \in Agent :
        nameToChannel[n] = ch <=> byChannel[ch] # NoSpec /\ byChannel[ch].name = n
  BY DEF WebAgentsInv, IndexesAgree
<1>10. IndexesAgree'
  <2> SUFFICES ASSUME NEW ch \in Line \ contested, NEW n \in Agent
               PROVE  nameToChannel'[n] = ch <=> byChannel'[ch] # NoSpec /\ byChannel'[ch].name = n
    BY <1>3 DEF IndexesAgree
  <2>1. ch # w => ~(byChannel[ch] # NoSpec /\ byChannel[ch].name = a)
    BY <1>9
  <2>2. ch = w /\ n # a => nameToChannel[n] # ch
    BY <1>9
  <2> QED  BY <2>1, <2>2, <1>1, <1>4, <1>9
<1>11. ServesOrWill'
  <2> SUFFICES ASSUME NEW ch \in Line \ contested
               PROVE  /\ byChannel'[ch] # NoSpec => byChannel'[ch] = owed'[ch]
                      /\ owed'[ch] # NoSpec => byChannel'[ch] = owed'[ch]
    BY <1>3 DEF ServesOrWill
  <2>1. /\ byChannel[ch] # NoSpec => byChannel[ch] = owed[ch]
        /\ owed[ch] # NoSpec => byChannel[ch] = owed[ch]
    BY <1>3 DEF WebAgentsInv, ServesOrWill
  <2>2. ch = w <=> byChannel[ch] # NoSpec /\ byChannel[ch].name = a
    BY <1>9
  <2> QED  BY <2>1, <2>2, <1>4, <1>5
<1> QED  BY <1>6, <1>7, <1>8, <1>10, <1>11 DEF WebAgentsInv

LEMMA WebRestartKeeps ==
  ASSUME WebAgentsInv, RestartDaemon  PROVE  WebAgentsInv'
<1>1. WebAgentsTypeOK /\ NoField \notin Line
  BY WebAgentsAssumption DEF WebAgentsInv
<1>2. /\ byChannel' = [ch \in Line |-> NoSpec] /\ nameToChannel' = [n \in Agent |-> NoField]
      /\ boot' = {n \in Agent : specs[n] # NoSpec}
      /\ specs' = specs /\ owed' = owed /\ killed' = killed
  BY DEF RestartDaemon
<1>3. WebAgentsTypeOK' /\ UnreadAreDown'
  BY <1>1, <1>2 DEF WebAgentsTypeOK, UnreadAreDown, SpecOr
<1>4. FiledByName' /\ OwedIsOnDisk' /\ NotKilledIsOwed'
  BY <1>2 DEF WebAgentsInv, FiledByName, OwedIsOnDisk, NotKilledIsOwed
<1>5. IndexesAgree'
  BY <1>1, <1>2 DEF IndexesAgree
<1>6. \A ch \in Line : owed[ch] # NoSpec => owed[ch].name \in boot'
  BY <1>1, <1>2, AcceptedFits DEF WebAgentsInv, OwedIsOnDisk, WebAgentsTypeOK, SpecOr
<1>7. ServesOrWill'
  BY <1>2, <1>6 DEF ServesOrWill
<1> QED  BY <1>3, <1>4, <1>5, <1>7 DEF WebAgentsInv

LEMMA SkippingKeeps ==
  ASSUME WebAgentsInv, NEW a \in boot, Reregister(a), Skipped(a)  PROVE  WebAgentsInv'
<1>1. WebAgentsTypeOK /\ a \in Agent /\ nameToChannel[a] = NoField /\ NoField \notin Line
  BY WebAgentsAssumption DEF WebAgentsInv, WebAgentsTypeOK, UnreadAreDown
<1>2. /\ boot' = boot \ {a} /\ owed' = Unowed(a) /\ killed' = killed \cup {a}
      /\ byChannel' = byChannel /\ nameToChannel' = nameToChannel /\ contested' = contested /\ specs' = specs
  BY DEF Reregister
<1>3. /\ owed' \in [Line -> SpecOr]
      /\ \A ch \in Line :
           /\ owed'[ch] # NoSpec => owed[ch] # NoSpec /\ owed[ch].name # a /\ owed'[ch] = owed[ch]
           /\ owed[ch] # NoSpec /\ owed[ch].name # a => owed'[ch] = owed[ch]
           /\ owed[ch] = NoSpec \/ owed[ch].name = a => owed'[ch] = NoSpec
  BY <1>1, <1>2, Unowes
<1>4. WebAgentsTypeOK' /\ UnreadAreDown' /\ IndexesAgree' /\ FiledByName'
  BY <1>1, <1>2, <1>3 DEF WebAgentsInv, WebAgentsTypeOK, UnreadAreDown, IndexesAgree, FiledByName
<1>5. OwedIsOnDisk'
  BY <1>2, <1>3 DEF WebAgentsInv, OwedIsOnDisk
<1>6. NotKilledIsOwed'
  <2> SUFFICES ASSUME NEW n \in Agent, n \notin killed, n # a, specs[n] # NoSpec
               PROVE  owed'[WakeOf(specs[n])] = specs[n]
    BY <1>2 DEF NotKilledIsOwed
  <2>1. owed[WakeOf(specs[n])] = specs[n] /\ specs[n].name = n /\ WakeOf(specs[n]) \in Line
    BY <1>1, AcceptedFits DEF WebAgentsInv, NotKilledIsOwed, FiledByName, WebAgentsTypeOK, SpecOr
  <2> QED  BY <2>1, <1>3
<1>7. ServesOrWill'
  <2> SUFFICES ASSUME NEW ch \in Line \ contested
               PROVE  /\ byChannel[ch] # NoSpec => byChannel[ch] = owed'[ch]
                      /\ owed'[ch] # NoSpec => byChannel[ch] = owed'[ch] \/ owed'[ch].name \in boot \ {a}
    BY <1>2 DEF ServesOrWill
  <2>1. ~(byChannel[ch] # NoSpec /\ byChannel[ch].name = a)
    BY <1>1 DEF WebAgentsInv, IndexesAgree
  <2>2. /\ byChannel[ch] # NoSpec => byChannel[ch] = owed[ch]
        /\ owed[ch] # NoSpec => byChannel[ch] = owed[ch] \/ owed[ch].name \in boot
    BY DEF WebAgentsInv, ServesOrWill
  <2> QED  BY <2>1, <2>2, <1>3
<1> QED  BY <1>4, <1>5, <1>6, <1>7 DEF WebAgentsInv

LEMMA RegisteringKeeps ==
  ASSUME WebAgentsInv, NEW a \in boot, Reregister(a), ~Skipped(a)  PROVE  WebAgentsInv'
<1> PICK s, w : s = specs[a] /\ w = WakeOf(s)
  OBVIOUS
<1>1. WebAgentsTypeOK /\ a \in Agent /\ nameToChannel[a] = NoField /\ NoField \notin Line
  BY WebAgentsAssumption DEF WebAgentsInv, WebAgentsTypeOK, UnreadAreDown
<1>2. s \in Accepted /\ s # NoSpec /\ s.name = a /\ w \in Line
  BY <1>1, AcceptedFits DEF WebAgentsInv, WebAgentsTypeOK, SpecOr, FiledByName
<1>3. /\ boot' = boot \ {a} /\ Register(s)
      /\ contested' = IF a \in killed THEN contested \cup {w} ELSE contested
      /\ owed' = owed /\ killed' = killed /\ specs' = specs
  BY DEF Reregister
<1>4. /\ byChannel' \in [Line -> SpecOr] /\ nameToChannel' \in [Agent -> Line \cup {NoField}]
      /\ byChannel'[w] = s
      /\ \A ch \in Line : ch # w => byChannel'[ch] = byChannel[ch]
      /\ \A n \in Agent : nameToChannel'[n] = IF n = a THEN w ELSE nameToChannel[n]
  BY <1>1, <1>2, <1>3, Registers
<1>5. WebAgentsTypeOK' /\ UnreadAreDown'
  BY <1>1, <1>3, <1>4 DEF WebAgentsInv, WebAgentsTypeOK, UnreadAreDown
<1>6. FiledByName' /\ OwedIsOnDisk' /\ NotKilledIsOwed'
  BY <1>3 DEF WebAgentsInv, FiledByName, OwedIsOnDisk, NotKilledIsOwed
<1>7. w \notin contested' => owed[w] = s
  BY <1>1, <1>2, <1>3 DEF WebAgentsInv, NotKilledIsOwed
<1>8. \A ch \in Line \ contested : \A n \in Agent :
        nameToChannel[n] = ch <=> byChannel[ch] # NoSpec /\ byChannel[ch].name = n
  BY DEF WebAgentsInv, IndexesAgree
<1>9. \A ch \in Line \ contested :
        /\ byChannel[ch] # NoSpec => byChannel[ch] = owed[ch]
        /\ owed[ch] # NoSpec => byChannel[ch] = owed[ch] \/ owed[ch].name \in boot
  BY DEF WebAgentsInv, ServesOrWill
<1>10. IndexesAgree'
  <2> SUFFICES ASSUME NEW ch \in Line \ contested', NEW n \in Agent
               PROVE  nameToChannel'[n] = ch <=> byChannel'[ch] # NoSpec /\ byChannel'[ch].name = n
    BY DEF IndexesAgree
  <2>0. ch \in Line \ contested
    BY <1>3
  <2>1. CASE ch = w
    <3>1. byChannel[w] # NoSpec => byChannel[w].name = a
      BY <2>0, <2>1, <1>2, <1>7, <1>9
    <3> QED  BY <2>0, <2>1, <3>1, <1>2, <1>4, <1>8
  <2>2. CASE ch # w
    <3>1. ~(byChannel[ch] # NoSpec /\ byChannel[ch].name = a)
      BY <2>0, <1>1, <1>8
    <3> QED  BY <2>0, <2>2, <3>1, <1>4, <1>8
  <2> QED  BY <2>1, <2>2
<1>11. ServesOrWill'
  <2> SUFFICES ASSUME NEW ch \in Line \ contested'
               PROVE  /\ byChannel'[ch] # NoSpec => byChannel'[ch] = owed[ch]
                      /\ owed[ch] # NoSpec => byChannel'[ch] = owed[ch] \/ owed[ch].name \in boot \ {a}
    BY <1>3 DEF ServesOrWill
  <2>0. ch \in Line \ contested
    BY <1>3
  <2>1. CASE ch = w
    BY <2>1, <1>2, <1>4, <1>7
  <2>2. CASE ch # w
    <3>1. owed[ch] # NoSpec => owed[ch].name # a
      BY <2>2 DEF WebAgentsInv, OwedIsOnDisk
    <3> QED  BY <2>0, <2>2, <3>1, <1>4, <1>9
  <2> QED  BY <2>1, <2>2
<1> QED  BY <1>5, <1>6, <1>10, <1>11 DEF WebAgentsInv

LEMMA WebAgentsStep == WebAgentsInv /\ [WebAgentsNext]_webAgentsVars => WebAgentsInv'
<1> SUFFICES ASSUME WebAgentsInv, [WebAgentsNext]_webAgentsVars  PROVE  WebAgentsInv'
  OBVIOUS
<1>1. CASE \E b \in Bodies, steppedUp \in BOOLEAN : SpawnAgent(b, steppedUp)
  BY <1>1, WebSpawnKeeps
<1>2. CASE \E n \in Agent : DeleteAgent(n)
  BY <1>2, WebDeleteKeeps
<1>3. CASE \E n \in Agent : Reregister(n)
  <2> PICK n \in Agent : Reregister(n)
    BY <1>3
  <2>1. n \in boot
    BY DEF Reregister
  <2> QED  BY <2>1, SkippingKeeps, RegisteringKeeps
<1>4. CASE UNCHANGED <<specs, byChannel, nameToChannel, boot, owed, killed, contested>>
  BY <1>4 DEF WebAgentsInv, WebAgentsTypeOK, FiledByName, OwedIsOnDisk, NotKilledIsOwed, IndexesAgree, ServesOrWill,
     UnreadAreDown
<1>5. CASE \E ch \in Line : Configure(ch)
  BY <1>4, <1>5 DEF Configure
<1>6. CASE RestartDaemon
  BY <1>6, WebRestartKeeps
<1>7. CASE UNCHANGED webAgentsVars
  BY <1>4, <1>7 DEF webAgentsVars
<1> QED  BY <1>1, <1>2, <1>3, <1>5, <1>6, <1>7 DEF WebAgentsNext

(* Through spawns, deletions, channels that come and go and restarts that  *)
(* read the specs in any order, an uncontested channel is served by the    *)
(* agent last started on it and not deleted, with the spec of that start.  *)
THEOREM OwnersAreServed == WebAgentsSpec => []OwnersServe
<1>1. WebAgentsInv => OwnersServe
  BY DEF WebAgentsInv, ServesOrWill, OwnersServe
<1> QED  BY <1>1, WebAgentsInitial, WebAgentsStep, PTL DEF WebAgentsSpec
=============================================================================
