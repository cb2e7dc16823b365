--------------------------- MODULE TurnQueueProofs ---------------------------
(***************************************************************************)
(* Proofs about TurnQueue, for every set of names, keys, specs and every   *)
(* bound: type correctness, that a key is never locked by a drain that is  *)
(* gone, that only expected channels have buffers, the serial contract in  *)
(* the calm environment, that no message is lost or duplicated, that       *)
(* messages take their turns in the order of arrival, and that the calm    *)
(* registry implements the serial mailboxes.                               *)
(***************************************************************************)
EXTENDS MCTurnQueue, SequenceTheorems, FiniteSetTheorems, TLAPS

(***************************************************************************)
(* Type correctness.                                                       *)
(***************************************************************************)

\* A message is queued under a drain key: drainKeyFor returns one.
LEMMA DrainKeyType ==
  ASSUME TypeOK, NEW c \in Id, Live(c), NEW m \in Msg
  PROVE  DrainKey(c, m) \in Key
<1>1. CASE m.thread # None
  BY <1>1 DEF DrainKey, Msg
<1>2. CASE m.thread = None /\ byChannel[c].multi /\ m.subject # None
  <2>1. byChannel[c] \in AgentSpec
    BY DEF TypeOK, Live
  <2>2. byChannel[c].name \in Id /\ m.subject \in Subject
    BY <1>2, <2>1, SpecAssumption DEF Msg
  <2>3. ThreadKey[byChannel[c].name, m.subject] \in Key
    BY <2>2, ThreadKeyAssumption
  <2> QED
    BY <1>2, <2>3 DEF DrainKey
<1>3. CASE m.thread = None /\ ~(byChannel[c].multi /\ m.subject # None)
  BY <1>3, IdAssumption DEF DrainKey
<1> QED
  BY <1>1, <1>2, <1>3

\* The turn that a drain on a live channel begins is well formed.
LEMMA TurnType ==
  ASSUME TypeOK, NEW c \in Id, Live(c), NEW m \in Msg, NEW k \in Key, NEW id \in DrainId
  PROVE  /\ Turn(id, k, c, m) \in Worker
         /\ Turn(id, k, c, m).id = id
         /\ Turn(id, k, c, m).key = k
         /\ Active(Turn(id, k, c, m))
<1>1. byChannel[c] \in AgentSpec
  BY DEF TypeOK, Live
<1> QED
  BY <1>1 DEF Turn, Worker, Active

\* The promise of a new drain is none of those of the unsettled ones.
LEMMA UnusedId ==
  ASSUME Unused # {}
  PROVE  LET id == CHOOSE d \in Unused : TRUE
         IN  id \in DrainId /\ \A w \in workers : w.id # id
BY DEF Unused

\* Enqueueing keeps the types of the queues, the locks and the workers.
LEMMA EnqueueType ==
  ASSUME TypeOK, NEW c \in Id, Live(c), NEW m \in Msg, Enqueue(c, m)
  PROVE  /\ queues' \in [Key -> Seq(Msg)]
         /\ draining' \in [Key -> DrainId \cup {None}]
         /\ workers' \subseteq Worker
<1> DEFINE k == DrainKey(c, m)
           q == Append(queues[k], m)
<1>1. k \in Key
  BY DrainKeyType
<1>2. q \in Seq(Msg) /\ q # <<>>
  <2>1. queues[k] \in Seq(Msg)
    BY <1>1 DEF TypeOK
  <2> QED
    BY <2>1, AppendProperties
<1>3. Head(q) \in Msg /\ Tail(q) \in Seq(Msg)
  BY <1>2, HeadTailProperties
<1> HIDE DEF k, q
<1>4. CASE StartDrain(k, c, q)
  <2> DEFINE id == CHOOSE d \in Unused : TRUE
  <2>1. id \in DrainId
    BY <1>4, UnusedId DEF StartDrain
  <2>2. Turn(id, k, c, Head(q)) \in Worker
    BY <1>1, <1>3, <2>1, TurnType
  <2> QED
    BY <1>1, <1>3, <1>4, <2>1, <2>2 DEF StartDrain, TypeOK
<1>5. CASE JoinDrain(k, q)
  BY <1>1, <1>2, <1>5 DEF JoinDrain, TypeOK
<1> QED
  BY <1>4, <1>5 DEF Enqueue, k, q

\* The message that arrives next is one.
LEMMA ArriveType ==
  ASSUME TypeOK, arrived < MaxMsgs,
         NEW t \in Key \cup {None}, NEW s \in Subject \cup {None}
  PROVE  /\ Arrive(t, s) \in Msg
         /\ Arrive(t, s).n \in MsgNo
         /\ arrived + 1 \in 0..MaxMsgs
BY BoundAssumption DEF TypeOK, Arrive, Msg, MsgNo

\* Buffering keeps the types of the buffers.
LEMMA BufferType ==
  ASSUME TypeOK, NEW c \in Id, NEW m \in Msg, BufferPending(c, m)
  PROVE  /\ pending' \in [Id -> Seq(Msg)]
         /\ owned' \subseteq MsgNo
<1> DEFINE q == Append(pending[c], m)
<1>1. q \in Seq(Msg) /\ q # <<>>
  <2>1. pending[c] \in Seq(Msg)
    BY DEF TypeOK
  <2> QED
    BY <2>1, AppendProperties
<1>2. Tail(q) \in Seq(Msg)
  BY <1>1, HeadTailProperties
<1>3. m.n \in MsgNo
  BY DEF Msg
<1> HIDE DEF q
<1>4. pending' = [pending EXCEPT ![c] = IF Len(q) > PendingCap THEN Tail(q) ELSE q]
  BY DEF BufferPending, q
<1>5. owned' \subseteq owned \cup {m.n}
  BY DEF BufferPending
<1> QED
  BY <1>1, <1>2, <1>3, <1>4, <1>5 DEF TypeOK

\* Clearing a channel keeps the types.
LEMMA ClearType ==
  ASSUME TypeOK, NEW c \in Id, ClearChannel(c)
  PROVE  /\ queues' \in [Key -> Seq(Msg)]
         /\ draining' \in [Key -> DrainId \cup {None}]
         /\ expected' \subseteq Id
         /\ pending' \in [Id -> Seq(Msg)]
         /\ owned' \subseteq MsgNo
<1>1. <<>> \in Seq(Msg)
  BY EmptySeq
<1> QED
  BY <1>1 DEF ClearChannel, TypeOK

\* A worker that steps stays a worker or goes.
LEMMA BecomeType ==
  ASSUME TypeOK, NEW w \in workers, NEW next \in Worker, Become(w, next)
  PROVE  workers' \subseteq Worker
BY DEF TypeOK, Become

LEMMA InitType == Init => TypeOK
<1>1. <<>> \in Seq(Msg)
  BY EmptySeq
<1> SUFFICES ASSUME Init PROVE TypeOK
  OBVIOUS
<1>2. ~Replaying
  BY DEF Init, Replaying
<1>3. arrived \in 0..MaxMsgs
  BY BoundAssumption DEF Init
<1> QED
  BY <1>1, <1>2, <1>3 DEF Init, TypeOK

\* Every step keeps the types.
LEMMA NextType == TypeOK /\ [Next]_vars => TypeOK'
<1> SUFFICES ASSUME TypeOK, [Next]_vars PROVE TypeOK'
  OBVIOUS
<1> USE DEF registry, calls
<1>1. ASSUME NEW c \in Id, NEW t \in Id \cup {None}, NEW s \in Subject \cup {None}, Emit(c, t, s)
      PROVE  TypeOK'
  <2> DEFINE m == Arrive(t, s)
  <2>1. m \in Msg /\ m.n \in MsgNo /\ arrived' \in 0..MaxMsgs
    BY <1>1, ArriveType, IdAssumption DEF Emit
  <2> HIDE DEF m
  <2>2. CASE Live(c) /\ Enqueue(c, m) /\ owned' = owned \cup {m.n} /\ UNCHANGED pending
    BY <1>1, <2>1, <2>2, EnqueueType DEF Emit, TypeOK, Quiet, Replaying
  <2>3. CASE BufferPending(c, m) /\ UNCHANGED <<queues, draining, workers>>
    BY <1>1, <2>1, <2>3, BufferType DEF Emit, TypeOK, Quiet, Replaying
  <2>4. CASE UNCHANGED <<pending, queues, draining, workers, owned>>
    BY <1>1, <2>1, <2>4 DEF Emit, TypeOK, Quiet, Replaying
  <2> QED
    BY <1>1, <2>2, <2>3, <2>4 DEF Emit, m
<1>2. ASSUME NEW t \in Id, NEW s \in Subject \cup {None}, ThreadInbound(t, s)
      PROVE  TypeOK'
  <2> DEFINE m == Arrive(t, s)
  <2>1. m \in Msg /\ m.n \in MsgNo /\ arrived' \in 0..MaxMsgs
    BY <1>2, ArriveType, IdAssumption DEF ThreadInbound
  <2> HIDE DEF m
  <2>2. ASSUME NEW c \in Id, Live(c), Enqueue(c, m), owned' = owned \cup {m.n},
               UNCHANGED <<expected, pending>>
        PROVE  TypeOK'
    BY <1>2, <2>1, <2>2, EnqueueType DEF ThreadInbound, TypeOK, Quiet, Replaying
  <2>3. CASE expected' = expected \cup {t} /\ BufferPending(t, m)
             /\ UNCHANGED <<queues, draining, workers>>
    BY <1>2, <2>1, <2>3, BufferType DEF ThreadInbound, TypeOK, Quiet, Replaying
  <2> QED
    BY <1>2, <2>2, <2>3 DEF ThreadInbound, m
<1>3. ASSUME NEW spec \in AgentSpec, Register(spec)
      PROVE  TypeOK'
  <2> DEFINE prior == nameToChannel[spec.name]
  <2>1. prior \in Id \cup {None}
    BY SpecAssumption DEF TypeOK
  <2> HIDE DEF prior
  <2>2. CASE UNCHANGED <<byChannel, expected, pending, queues, draining, owned>>
    BY <1>3, <2>2 DEF Register, TypeOK, Quiet, Replaying
  <2>3. CASE prior # None /\ ClearChannel(prior)
             /\ byChannel' = [byChannel EXCEPT ![prior] = None]
    BY <1>3, <2>1, <2>3, ClearType DEF Register, TypeOK, Quiet, Replaying
  <2> QED
    BY <1>3, <2>2, <2>3 DEF Register, prior
<1>4. ASSUME NEW spec \in AgentSpec, Registered(spec)
      PROVE  TypeOK'
  <2>1. spec.channel \in Id /\ spec.name \in Id /\ spec # None
    BY SpecAssumption
  <2>2. <<>> \in Seq(Msg) /\ pending[spec.channel] \in Seq(Msg)
    BY <2>1, EmptySeq DEF TypeOK
  <2>3. byChannel' \in [Id -> AgentSpec \cup {None}] /\ byChannel'[spec.channel] = spec
    BY <1>4, <2>1 DEF Registered, TypeOK
  <2>4. replay' \in [channel : Id \cup {None}, msgs : Seq(Msg)] /\ replay'.channel = spec.channel
    BY <1>4, <2>1, <2>2 DEF Registered
  <2> QED
    BY <1>4, <2>1, <2>2, <2>3, <2>4 DEF Registered, TypeOK, Live
<1>5. CASE Replay
  <2> DEFINE m == Head(replay.msgs)
  <2>1. replay.msgs \in Seq(Msg) /\ replay.msgs # <<>>
    BY <1>5 DEF Replay, Replaying, TypeOK
  <2>2. m \in Msg /\ Tail(replay.msgs) \in Seq(Msg)
    BY <2>1, HeadTailProperties
  <2>3. replay.channel \in Id /\ Live(replay.channel)
    BY <1>5 DEF Replay, TypeOK
  <2> HIDE DEF m
  <2>4. Enqueue(replay.channel, m)
    BY <1>5 DEF Replay, m
  <2>5. /\ queues' \in [Key -> Seq(Msg)]
        /\ draining' \in [Key -> DrainId \cup {None}]
        /\ workers' \subseteq Worker
    BY <2>2, <2>3, <2>4, EnqueueType
  <2>6. replay' = [channel |-> replay.channel, msgs |-> Tail(replay.msgs)]
    BY <1>5 DEF Replay, TypeOK
  <2> QED
    BY <1>5, <2>2, <2>3, <2>5, <2>6 DEF Replay, TypeOK, Live
<1>6. ASSUME NEW i \in Id, Deregister(i)
      PROVE  TypeOK'
  <2> DEFINE c == nameToChannel[i]
             thread == IF Live(c) THEN byChannel[c].name ELSE i
  <2>1. c \in Id
    BY <1>6 DEF Deregister, TypeOK
  <2>2. /\ ClearChannel(c)
        /\ byChannel' = [byChannel EXCEPT ![c] = None]
        /\ nameToChannel' = [nameToChannel EXCEPT ![i] = None]
        /\ byThread' = [byThread EXCEPT ![thread] = None]
        /\ stopping' \subseteq stopping \cup {c}
        /\ Quiet
        /\ UNCHANGED <<workers, replay, starting, arrived>>
    BY <1>6 DEF Deregister
  <2> HIDE DEF c, thread
  <2> QED
    BY <2>1, <2>2, ClearType DEF TypeOK, Quiet, Replaying
<1>7. ASSUME NEW c \in Id, Unexpect(c)
      PROVE  TypeOK'
  <2>1. <<>> \in Seq(Msg)
    BY EmptySeq
  <2> QED
    BY <1>7, <2>1 DEF Unexpect, TypeOK, Replaying
<1>8. ASSUME NEW c \in Id, ExpectChannel(c)
      PROVE  TypeOK'
  BY <1>8 DEF ExpectChannel, TypeOK, Quiet, Replaying
<1>9. ASSUME NEW t \in Id, ArchiveThread(t)
      PROVE  TypeOK'
  BY <1>9, ClearType DEF ArchiveThread, TypeOK, Quiet, Replaying
<1>10. ASSUME NEW w \in workers, WorkerStep(w)
       PROVE  TypeOK'
  <2>1. w \in Worker
    BY DEF TypeOK
  <2>2. [w EXCEPT !.at = "running"] \in Worker /\ [w EXCEPT !.at = "settling"] \in Worker
    BY <2>1 DEF Worker
  <2>3. CASE SessionRead(w)
    BY <2>2, <2>3, BecomeType DEF SessionRead, TypeOK, Quiet, Replaying
  <2>4. CASE SessionReadThrows(w)
    BY <2>2, <2>4, BecomeType DEF SessionReadThrows, TypeOK, Quiet, Replaying
  <2>5. CASE EndTurn(w)
    <3> DEFINE q == queues[w.key]
    <3>1. q \in Seq(Msg)
      BY <2>1 DEF TypeOK, Worker
    <3> HIDE DEF q
    <3>2. CASE q # <<>> /\ Live(w.channel)
               /\ Become(w, Turn(w.id, w.key, w.channel, Head(q)))
               /\ queues' = [queues EXCEPT ![w.key] = Tail(q)]
      <4>1. Head(q) \in Msg /\ Tail(q) \in Seq(Msg)
        BY <3>1, <3>2, HeadTailProperties
      <4>2. Turn(w.id, w.key, w.channel, Head(q)) \in Worker
        BY <2>1, <3>2, <4>1, TurnType DEF Worker
      <4>3. workers' \subseteq Worker
        BY <3>2, <4>2, BecomeType
      <4> QED
        BY <2>5, <3>2, <4>1, <4>3 DEF EndTurn, TypeOK, Quiet, Replaying
    <3>3. CASE Become(w, [w EXCEPT !.at = "settling"]) /\ UNCHANGED queues
      BY <2>2, <2>5, <3>3, BecomeType DEF EndTurn, TypeOK, Quiet, Replaying
    <3> QED
      BY <2>5, <3>2, <3>3 DEF EndTurn, q
  <2>6. CASE Settle(w)
    BY <2>6 DEF Settle, TypeOK, Replaying
  <2> QED
    BY <1>10, <2>3, <2>4, <2>5, <2>6 DEF WorkerStep
<1>11. CASE UNCHANGED vars
  BY <1>11 DEF vars, TypeOK, Replaying, Live
<1> QED
  BY <1>1, <1>2, <1>3, <1>4, <1>5, <1>6, <1>7, <1>8, <1>9, <1>10, <1>11 DEF Next

\* Type correctness, for every instance.
THEOREM Typing == Spec => []TypeOK
BY InitType, NextType, PTL DEF Spec

(***************************************************************************)
(* What a step does to the drains and their locks: it deletes locks, or it *)
(* starts, continues or settles one drain.                                 *)
(***************************************************************************)
OnlyUnlocks ==
  workers' = workers /\ \A k \in Key : draining'[k] \in {draining[k], None}

Starts(w) ==
  /\ draining[w.key] = None
  /\ \A v \in workers : v.id # w.id
  /\ workers' = workers \cup {w}
  /\ draining' = [draining EXCEPT ![w.key] = w.id]

Continues(w, next) ==
  /\ next.id = w.id /\ next.key = w.key
  /\ Become(w, next)
  /\ draining' = draining

Settles(w) ==
  /\ workers' = workers \ {w}
  /\ draining' = [draining EXCEPT ![w.key] = None]

DrainStep ==
  \/ OnlyUnlocks
  \/ \E w \in Worker : Starts(w)
  \/ \E w \in workers, next \in Worker : Continues(w, next)
  \/ \E w \in workers : Settles(w)

\* Enqueueing starts a drain or leaves the drains alone.
LEMMA EnqueueStep ==
  ASSUME TypeOK, NEW c \in Id, Live(c), NEW m \in Msg, Enqueue(c, m)
  PROVE  DrainStep
<1> DEFINE k == DrainKey(c, m)
           q == Append(queues[k], m)
<1>1. k \in Key
  BY DrainKeyType
<1>2. Head(q) \in Msg
  <2>1. queues[k] \in Seq(Msg)
    BY <1>1 DEF TypeOK
  <2> QED
    BY <2>1, AppendProperties, HeadTailProperties
<1> HIDE DEF k, q
<1>3. CASE StartDrain(k, c, q)
  <2> DEFINE id == CHOOSE d \in Unused : TRUE
             w == Turn(id, k, c, Head(q))
  <2>1. id \in DrainId /\ \A v \in workers : v.id # id
    BY <1>3, UnusedId DEF StartDrain
  <2>2. workers' = workers \cup {w} /\ draining[k] = None
        /\ draining' = [draining EXCEPT ![k] = id]
    BY <1>3 DEF StartDrain
  <2> HIDE DEF id
  <2>3. w \in Worker /\ w.id = id /\ w.key = k
    BY <1>1, <1>2, <2>1, TurnType
  <2> HIDE DEF w
  <2>4. Starts(w)
    BY <2>1, <2>2, <2>3 DEF Starts
  <2> QED
    BY <2>3, <2>4 DEF DrainStep
<1>4. CASE JoinDrain(k, q)
  BY <1>4 DEF JoinDrain, DrainStep, OnlyUnlocks
<1> QED
  BY <1>3, <1>4 DEF Enqueue, k, q

LEMMA NextDrainStep == TypeOK /\ [Next]_vars => DrainStep
<1> SUFFICES ASSUME TypeOK, [Next]_vars PROVE DrainStep
  OBVIOUS
<1>1. ASSUME NEW c \in Id, NEW t \in Id \cup {None}, NEW s \in Subject \cup {None}, Emit(c, t, s)
      PROVE  DrainStep
  <2> DEFINE m == Arrive(t, s)
  <2>1. m \in Msg
    BY <1>1, ArriveType, IdAssumption DEF Emit
  <2> HIDE DEF m
  <2>2. CASE Live(c) /\ Enqueue(c, m)
    BY <2>1, <2>2, EnqueueStep
  <2>3. CASE UNCHANGED <<draining, workers>>
    BY <2>3 DEF DrainStep, OnlyUnlocks
  <2> QED
    BY <1>1, <2>2, <2>3 DEF Emit, m
<1>2. ASSUME NEW t \in Id, NEW s \in Subject \cup {None}, ThreadInbound(t, s)
      PROVE  DrainStep
  <2> DEFINE m == Arrive(t, s)
  <2>1. m \in Msg
    BY <1>2, ArriveType, IdAssumption DEF ThreadInbound
  <2> HIDE DEF m
  <2>2. ASSUME NEW c \in Id, Live(c), Enqueue(c, m) PROVE DrainStep
    BY <2>1, <2>2, EnqueueStep
  <2>3. CASE UNCHANGED <<draining, workers>>
    BY <2>3 DEF DrainStep, OnlyUnlocks
  <2> QED
    BY <1>2, <2>2, <2>3 DEF ThreadInbound, m
<1>3. ASSUME NEW c, ClearChannel(c), workers' = workers PROVE DrainStep
  BY <1>3 DEF ClearChannel, DrainStep, OnlyUnlocks
<1>4. ASSUME NEW spec \in AgentSpec, Register(spec) \/ Registered(spec) PROVE DrainStep
  BY <1>3, <1>4 DEF Register, Registered, DrainStep, OnlyUnlocks
<1>5. CASE Replay
  <2> DEFINE m == Head(replay.msgs)
  <2>1. m \in Msg /\ replay.channel \in Id /\ Live(replay.channel)
    BY <1>5, HeadTailProperties DEF Replay, Replaying, TypeOK
  <2> HIDE DEF m
  <2>2. Enqueue(replay.channel, m)
    BY <1>5 DEF Replay, m
  <2> QED
    BY <2>1, <2>2, EnqueueStep
<1>6. ASSUME NEW i \in Id, Deregister(i) \/ Unexpect(i) \/ ExpectChannel(i) \/ ArchiveThread(i)
      PROVE  DrainStep
  BY <1>3, <1>6 DEF Deregister, Unexpect, ExpectChannel, ArchiveThread, DrainStep, OnlyUnlocks
<1>7. ASSUME NEW w \in workers, WorkerStep(w) PROVE DrainStep
  <2>1. w \in Worker
    BY DEF TypeOK
  <2>2. ASSUME NEW a \in {"running", "settling"}, Become(w, [w EXCEPT !.at = a]),
               draining' = draining
        PROVE  DrainStep
    <3>1. [w EXCEPT !.at = a] \in Worker /\ [w EXCEPT !.at = a].id = w.id
          /\ [w EXCEPT !.at = a].key = w.key
      BY <2>1 DEF Worker
    <3> QED
      BY <2>2, <3>1 DEF DrainStep, Continues
  <2>3. CASE SessionRead(w) \/ SessionReadThrows(w)
    BY <2>2, <2>3 DEF SessionRead, SessionReadThrows
  <2>4. CASE EndTurn(w)
    <3> DEFINE q == queues[w.key]
               next == Turn(w.id, w.key, w.channel, Head(q))
    <3>1. q \in Seq(Msg)
      BY <2>1 DEF TypeOK, Worker
    <3> HIDE DEF q
    <3>2. CASE q # <<>> /\ Live(w.channel) /\ Become(w, next)
      <4>1. Head(q) \in Msg
        BY <3>1, <3>2, HeadTailProperties
      <4>2. next \in Worker /\ next.id = w.id /\ next.key = w.key
        BY <2>1, <3>2, <4>1, TurnType DEF Worker
      <4> HIDE DEF next
      <4> QED
        BY <2>4, <3>2, <4>2 DEF EndTurn, DrainStep, Continues
    <3>3. CASE Become(w, [w EXCEPT !.at = "settling"])
      BY <2>2, <2>4, <3>3 DEF EndTurn
    <3> QED
      BY <2>4, <3>2, <3>3 DEF EndTurn, q
  <2>5. CASE Settle(w)
    BY <2>5 DEF Settle, DrainStep, Settles
  <2> QED
    BY <1>7, <2>3, <2>4, <2>5 DEF WorkerStep
<1>8. CASE UNCHANGED vars
  BY <1>8 DEF vars, DrainStep, OnlyUnlocks
<1> QED
  BY <1>1, <1>2, <1>4, <1>5, <1>6, <1>7, <1>8 DEF Next

(***************************************************************************)
(* Locks.  LockHeld is not inductive alone: settling one drain must not    *)
(* take another one's lock with it, which it does not when no two          *)
(* unsettled drains have one promise.                                      *)
(***************************************************************************)
UniqueIds == \A v, w \in workers : v.id = w.id => v = w

LockInv == TypeOK /\ UniqueIds /\ LockHeld

LEMMA NextLockInv == LockInv /\ [Next]_vars => LockInv'
<1> SUFFICES ASSUME LockInv, [Next]_vars PROVE UniqueIds' /\ LockHeld'
  BY NextType DEF LockInv
<1>1. TypeOK /\ UniqueIds /\ LockHeld /\ TypeOK'
  BY NextType DEF LockInv
<1>2. CASE OnlyUnlocks
  BY <1>1, <1>2 DEF OnlyUnlocks, UniqueIds, LockHeld
<1>3. ASSUME NEW w \in Worker, Starts(w) PROVE UniqueIds' /\ LockHeld'
  BY <1>1, <1>3 DEF Starts, UniqueIds, LockHeld, TypeOK
<1>4. ASSUME NEW w \in workers, NEW next \in Worker, Continues(w, next)
      PROVE  UniqueIds' /\ LockHeld'
  BY <1>1, <1>4 DEF Continues, Become, UniqueIds, LockHeld
<1>5. ASSUME NEW w \in workers, Settles(w) PROVE UniqueIds' /\ LockHeld'
  <2>1. UniqueIds'
    BY <1>1, <1>5 DEF Settles, UniqueIds
  <2>2. ASSUME NEW k \in Key, draining'[k] # None
        PROVE  \E v \in workers' : v.id = draining'[k] /\ v.key = k
    <3>1. k # w.key /\ draining'[k] = draining[k]
      BY <1>1, <1>5, <2>2 DEF Settles, TypeOK
    <3>2. PICK v \in workers : v.id = draining[k] /\ v.key = k
      BY <1>1, <2>2, <3>1 DEF LockHeld
    <3> QED
      BY <1>5, <3>1, <3>2 DEF Settles
  <2> QED
    BY <2>1, <2>2 DEF LockHeld
<1> QED
  BY <1>1, <1>2, <1>3, <1>4, <1>5, NextDrainStep DEF DrainStep

\* No key is ever locked by a drain that is gone.
THEOREM LocksAreHeld == Spec => []LockHeld
<1>1. Init => LockInv
  BY InitType DEF Init, LockInv, UniqueIds, LockHeld
<1>2. LockInv => LockHeld
  BY DEF LockInv
<1> QED
  BY <1>1, <1>2, NextLockInv, PTL DEF Spec

(***************************************************************************)
(* The serial contract.  As long as a lock is only deleted by the drain it *)
(* belongs to, every unsettled drain holds the lock of its key, so that    *)
(* enqueue never starts a second one.                                      *)
(***************************************************************************)
HoldsItsLock == \A w \in workers : draining[w.key] = w.id

CalmInv == LockInv /\ HoldsItsLock

LEMMA NextCalmInv == CalmInv /\ [Next /\ LockReleasedByHolder]_vars => CalmInv'
<1> SUFFICES ASSUME CalmInv, [Next /\ LockReleasedByHolder]_vars PROVE HoldsItsLock'
  BY NextLockInv DEF CalmInv
<1>1. TypeOK /\ UniqueIds /\ HoldsItsLock
  BY DEF CalmInv, LockInv
<1>2. \A w \in workers : w.key \in Key /\ w.id \in DrainId /\ w.id # None
  BY <1>1, DrainIdAssumption DEF TypeOK, Worker
<1>3. CASE OnlyUnlocks
  <2> SUFFICES ASSUME NEW w \in workers PROVE draining'[w.key] = w.id
    BY <1>3 DEF OnlyUnlocks, HoldsItsLock
  <2>1. draining[w.key] = w.id /\ w.key \in Key /\ w.id # None
    BY <1>1, <1>2 DEF HoldsItsLock
  <2>2. CASE LockReleasedByHolder
    \* A lock deleted here is deleted by a drain that settles in this step.
    BY <1>3, <2>1, <2>2 DEF LockReleasedByHolder, OnlyUnlocks
  <2>3. CASE UNCHANGED vars
    BY <2>1, <2>3 DEF vars
  <2> QED
    BY <2>2, <2>3
<1>4. ASSUME NEW w \in Worker, Starts(w) PROVE HoldsItsLock'
  BY <1>1, <1>2, <1>4 DEF Starts, HoldsItsLock, TypeOK, Worker
<1>5. ASSUME NEW w \in workers, NEW next \in Worker, Continues(w, next)
      PROVE  HoldsItsLock'
  BY <1>1, <1>5 DEF Continues, Become, HoldsItsLock
<1>6. ASSUME NEW w \in workers, Settles(w) PROVE HoldsItsLock'
  <2>1. \A v \in workers \ {w} : v.key # w.key
    BY <1>1 DEF HoldsItsLock, UniqueIds
  <2> QED
    BY <1>1, <1>2, <1>6, <2>1 DEF Settles, HoldsItsLock, TypeOK
<1> QED
  BY <1>1, <1>3, <1>4, <1>5, <1>6, NextDrainStep DEF DrainStep

\* Never two concurrent turns for one drain key, as long as no agent is torn
\* down, archived or moved under a running drain.
THEOREM SerialContract == CalmSpec => []SerialPerKey
<1>1. Init => CalmInv
  BY InitType DEF Init, CalmInv, LockInv, UniqueIds, LockHeld, HoldsItsLock
<1>2. CalmInv => SerialPerKey
  BY DEF CalmInv, LockInv, UniqueIds, HoldsItsLock, SerialPerKey
<1> QED
  BY <1>1, <1>2, NextCalmInv, PTL DEF CalmSpec

(***************************************************************************)
(* Buffers.                                                                *)
(***************************************************************************)

LEMMA NextBuffered ==
  TypeOK /\ BufferedOnlyWhenExpected /\ [Next]_vars => BufferedOnlyWhenExpected'
<1> SUFFICES ASSUME TypeOK, BufferedOnlyWhenExpected, [Next]_vars
             PROVE  BufferedOnlyWhenExpected'
  OBVIOUS
<1>1. ASSUME NEW c \in Id, NEW m, BufferPending(c, m), c \in expected', expected \subseteq expected'
      PROVE  BufferedOnlyWhenExpected'
  <2>1. \A d \in Id \ {c} : pending'[d] = pending[d]
    BY <1>1 DEF BufferPending, TypeOK
  <2> QED
    BY <1>1, <2>1 DEF BufferedOnlyWhenExpected
<1>2. ASSUME NEW c \in Id, expected' = expected \ {c}, pending' = [pending EXCEPT ![c] = <<>>]
      PROVE  BufferedOnlyWhenExpected'
  BY <1>2 DEF BufferedOnlyWhenExpected, TypeOK
<1>3. CASE expected \subseteq expected' /\ pending' = pending
  BY <1>3 DEF BufferedOnlyWhenExpected
<1>4. ASSUME NEW c \in Id, NEW t \in Id \cup {None}, NEW s \in Subject \cup {None}, Emit(c, t, s)
      PROVE  BufferedOnlyWhenExpected'
  BY <1>1, <1>3, <1>4 DEF Emit
<1>5. ASSUME NEW t \in Id, NEW s \in Subject \cup {None}, ThreadInbound(t, s)
      PROVE  BufferedOnlyWhenExpected'
  BY <1>1, <1>3, <1>5 DEF ThreadInbound
<1>6. ASSUME NEW spec \in AgentSpec, Register(spec) \/ Registered(spec)
      PROVE  BufferedOnlyWhenExpected'
  <2>1. nameToChannel[spec.name] \in Id \cup {None} /\ spec.channel \in Id
    BY SpecAssumption DEF TypeOK
  <2> QED
    BY <1>2, <1>3, <1>6, <2>1 DEF Register, Registered, ClearChannel
<1>7. CASE Replay
  BY <1>3, <1>7 DEF Replay
<1>8. ASSUME NEW i \in Id, Deregister(i) \/ Unexpect(i) \/ ExpectChannel(i) \/ ArchiveThread(i)
      PROVE  BufferedOnlyWhenExpected'
  <2>1. nameToChannel[i] \in Id \cup {None}
    BY DEF TypeOK
  <2> QED
    BY <1>2, <1>3, <1>8, <2>1
    DEF Deregister, Unexpect, ExpectChannel, ArchiveThread, ClearChannel
<1>9. ASSUME NEW w \in workers, WorkerStep(w) PROVE BufferedOnlyWhenExpected'
  BY <1>3, <1>9 DEF WorkerStep, SessionRead, SessionReadThrows, EndTurn, Settle
<1>10. CASE UNCHANGED vars
  BY <1>3, <1>10 DEF vars
<1> QED
  BY <1>4, <1>5, <1>6, <1>7, <1>8, <1>9, <1>10 DEF Next

\* A buffer is always one that the next registration or teardown finds.
THEOREM BuffersAreExpected == Spec => []BufferedOnlyWhenExpected
<1>1. Init => TypeOK /\ BufferedOnlyWhenExpected
  BY InitType DEF Init, BufferedOnlyWhenExpected
<1> QED
  BY <1>1, NextType, NextBuffered, PTL DEF Spec

(***************************************************************************)
(* Sequences of messages: which numbers they hold, each of them once, and  *)
(* in order.                                                               *)
(***************************************************************************)
Distinct(s) == \A i, j \in DOMAIN s : s[i].n = s[j].n => i = j
Below(s, n) == \A i \in Numbers(s) : i < n

LEMMA NumbersType ==
  ASSUME NEW s \in Seq(Msg)
  PROVE  /\ Numbers(s) \subseteq MsgNo
         /\ \A i \in DOMAIN s : s[i] \in Msg /\ s[i].n \in Numbers(s)
         /\ Numbers(s) = {} <=> s = <<>>
<1>1. \A i \in DOMAIN s : s[i] \in Msg
  BY ElementOfSeq, LenProperties
<1>2. s # <<>> => 1 \in DOMAIN s
  BY LenProperties, EmptySeq
<1>3. s = <<>> => DOMAIN s = {}
  BY EmptySeq, LenProperties
<1> QED
  BY <1>1, <1>2, <1>3 DEF Numbers, Msg

LEMMA AppendedNumbers ==
  ASSUME NEW s \in Seq(Msg), NEW m \in Msg
  PROVE  /\ Numbers(Append(s, m)) = Numbers(s) \cup {m.n}
         /\ Distinct(s) /\ m.n \notin Numbers(s) => Distinct(Append(s, m))
         /\ Ascending(s) /\ Below(s, m.n) => Ascending(Append(s, m))
<1> DEFINE t == Append(s, m)
<1>1. /\ t \in Seq(Msg) /\ Len(t) = Len(s) + 1
      /\ \A i \in 1..Len(s) : t[i] = s[i]
      /\ t[Len(s) + 1] = m
  BY AppendProperties
<1>2. DOMAIN s = 1..Len(s) /\ DOMAIN t = 1..(Len(s) + 1) /\ Len(s) \in Nat
  BY <1>1, LenProperties
<1> HIDE DEF t
<1>3. Numbers(t) = Numbers(s) \cup {m.n}
  <2>1. \A n \in Numbers(t) : n \in Numbers(s) \cup {m.n}
    BY <1>1, <1>2 DEF Numbers
  <2>2. \A n \in Numbers(s) : n \in Numbers(t)
    BY <1>1, <1>2 DEF Numbers
  <2>3. m.n \in Numbers(t)
    <3>1. Len(s) + 1 \in DOMAIN t
      BY <1>2
    <3> QED
      BY <1>1, <3>1 DEF Numbers
  <2> QED
    BY <2>1, <2>2, <2>3
<1>4. ASSUME Distinct(s), m.n \notin Numbers(s) PROVE Distinct(t)
  BY <1>1, <1>2, <1>4 DEF Distinct, Numbers
<1>5. ASSUME Ascending(s), Below(s, m.n) PROVE Ascending(t)
  <2> SUFFICES ASSUME NEW i \in DOMAIN t, NEW j \in DOMAIN t, i < j PROVE t[i].n < t[j].n
    BY DEF Ascending
  <2>1. i \in DOMAIN s /\ t[i] = s[i]
    BY <1>1, <1>2
  <2>2. s[i].n \in Numbers(s)
    BY <2>1 DEF Numbers
  <2>3. CASE j = Len(s) + 1
    BY <1>1, <1>5, <2>1, <2>2, <2>3 DEF Below
  <2>4. CASE j # Len(s) + 1
    BY <1>1, <1>2, <1>5, <2>1, <2>4 DEF Ascending
  <2> QED
    BY <2>3, <2>4
<1> QED
  BY <1>3, <1>4, <1>5 DEF t

LEMMA TailNumbers ==
  ASSUME NEW s \in Seq(Msg), s # <<>>
  PROVE  /\ Head(s) \in Msg /\ Tail(s) \in Seq(Msg) /\ Head(s).n \in Numbers(s)
         /\ Numbers(s) = Numbers(Tail(s)) \cup {Head(s).n}
         /\ Distinct(s) => Distinct(Tail(s)) /\ Head(s).n \notin Numbers(Tail(s))
         /\ Ascending(s) => /\ Ascending(Tail(s)) 
                            /\ \A n \in Numbers(Tail(s)) : Head(s).n < n
<1> DEFINE t == Tail(s)
<1>1. /\ t \in Seq(Msg) /\ Len(t) = Len(s) - 1
      /\ \A i \in 1..Len(t) : t[i] = s[i + 1]
      /\ Head(s) = s[1] /\ Head(s) \in Msg
  BY HeadTailProperties
<1>2. DOMAIN s = 1..Len(s) /\ DOMAIN t = 1..(Len(s) - 1) /\ Len(s) \in Nat \ {0}
  BY <1>1, LenProperties, EmptySeq
<1> HIDE DEF t
<1>3. Head(s).n \in Numbers(s)
  BY <1>1, <1>2 DEF Numbers
<1>4. Numbers(s) = Numbers(t) \cup {Head(s).n}
  <2>1. \A n \in Numbers(t) : n \in Numbers(s)
    <3> SUFFICES ASSUME NEW i \in DOMAIN t PROVE t[i].n \in Numbers(s)
      BY DEF Numbers
    <3>1. i + 1 \in DOMAIN s /\ t[i] = s[i + 1]
      BY <1>1, <1>2
    <3> QED
      BY <3>1 DEF Numbers
  <2>2. \A n \in Numbers(s) : n \in Numbers(t) \cup {Head(s).n}
    <3> SUFFICES ASSUME NEW i \in DOMAIN s, i # 1 PROVE s[i].n \in Numbers(t)
      BY <1>1 DEF Numbers
    <3>1. i - 1 \in DOMAIN t /\ t[i - 1] = s[i]
      BY <1>1, <1>2
    <3> QED
      BY <3>1 DEF Numbers
  <2> QED
    BY <1>3, <2>1, <2>2
<1>5. ASSUME Distinct(s) PROVE Distinct(t) /\ Head(s).n \notin Numbers(t)
  <2>1. \A i \in DOMAIN t : i + 1 \in DOMAIN s /\ 1 \in DOMAIN s /\ i + 1 # 1 /\ t[i] = s[i + 1]
    BY <1>1, <1>2
  <2>2. Head(s).n \notin Numbers(t)
    BY <1>1, <1>5, <2>1 DEF Distinct, Numbers
  <2>3. \A i, j \in DOMAIN t : i + 1 = j + 1 => i = j
    BY <1>2
  <2>4. Distinct(t)
    BY <1>5, <2>1, <2>3 DEF Distinct
  <2> QED
    BY <2>2, <2>4
<1>6. ASSUME Ascending(s) PROVE Ascending(t) /\ \A n \in Numbers(t) : Head(s).n < n
  <2>1. \A i \in DOMAIN t : i + 1 \in DOMAIN s /\ 1 \in DOMAIN s /\ 1 < i + 1 /\ t[i] = s[i + 1]
    BY <1>1, <1>2
  <2>2. \A n \in Numbers(t) : Head(s).n < n
    BY <1>1, <1>6, <2>1 DEF Ascending, Numbers
  <2>3. \A i, j \in DOMAIN t : i < j => i + 1 < j + 1
    BY <1>2
  <2>4. Ascending(t)
    BY <1>6, <2>1, <2>3 DEF Ascending
  <2> QED
    BY <2>2, <2>4
<1> QED
  BY <1>1, <1>3, <1>4, <1>5, <1>6 DEF t

\* An ascending sequence holds each number once.
LEMMA AscendingDistinct ==
  ASSUME NEW s \in Seq(Msg), Ascending(s) PROVE Distinct(s)
<1>1. \A i \in DOMAIN s : s[i].n \in MsgNo /\ i \in Nat
  <2>1. DOMAIN s = 1..Len(s) /\ Len(s) \in Nat
    BY LenProperties
  <2>2. \A i \in DOMAIN s : s[i] \in Msg
    BY NumbersType
  <2> QED
    BY <2>1, <2>2 DEF Msg
<1> QED
  BY <1>1, BoundAssumption DEF Ascending, Distinct, MsgNo

(***************************************************************************)
(* Where a message is.  It is buffered, in the replay loop, or served: in  *)
(* a queue or in a turn.                                                   *)
(***************************************************************************)
Buffered(n) == \E c \in Id : n \in Numbers(pending[c])
Replayed(n) == n \in Numbers(replay.msgs)
Waits(n) == \E k \in Key : n \in Numbers(queues[k])
Runs(n) == \E w \in workers : Active(w) /\ w.msg.n = n
Served(n) == Waits(n) \/ Runs(n)

\* A message is in one buffer at most, once.
BufferedOnce ==
  /\ \A c \in Id : Distinct(pending[c])
  /\ \A c, d \in Id : c # d => Numbers(pending[c]) \cap Numbers(pending[d]) = {}

\* A message is in one queue or turn at most, once.
ServedOnce ==
  /\ \A k \in Key : Distinct(queues[k])
  /\ \A k, l \in Key : k # l => Numbers(queues[k]) \cap Numbers(queues[l]) = {}
  /\ \A v, w \in workers : Active(v) /\ Active(w) /\ v.msg.n = w.msg.n => v = w
  /\ \A w \in workers, k \in Key : Active(w) => w.msg.n \notin Numbers(queues[k])

KeptInv ==
  /\ TypeOK /\ BufferedOnce /\ ServedOnce /\ Distinct(replay.msgs)
  /\ \A n \in MsgNo :
       /\ ~(Buffered(n) /\ Replayed(n))
       /\ ~(Buffered(n) /\ Served(n))
       /\ ~(Replayed(n) /\ Served(n))
       /\ n \in owned <=> Buffered(n) \/ Replayed(n) \/ Served(n)
       /\ n \in owned => n <= arrived

\* The turn that a drain begins is about the message it was given.
LEMMA TurnIsActive ==
  ASSUME NEW id, NEW k, NEW c, NEW m
  PROVE  /\ Turn(id, k, c, m).msg = m /\ Active(Turn(id, k, c, m))
         /\ Turn(id, k, c, m).id = id /\ Turn(id, k, c, m).key = k
         /\ Turn(id, k, c, m).channel = c
BY DEF Turn, Active

\* A message that is enqueued is served, once, and no other one is touched.
LEMMA EnqueueServes ==
  ASSUME TypeOK, ServedOnce, NEW c \in Id, Live(c), NEW m \in Msg, ~Served(m.n),
         Enqueue(c, m)
  PROVE  ServedOnce' /\ \A n : Served(n)' <=> Served(n) \/ n = m.n
<1> DEFINE k == DrainKey(c, m)
           q == Append(queues[k], m)
<1>1. k \in Key
  BY DrainKeyType
<1>2. queues[k] \in Seq(Msg)
  BY <1>1 DEF TypeOK
<1>3. q \in Seq(Msg) /\ q # <<>>
  BY <1>2, AppendProperties
<1>4. Numbers(q) = Numbers(queues[k]) \cup {m.n} /\ Distinct(q)
  BY <1>1, <1>2, AppendedNumbers DEF ServedOnce, Served, Waits
<1>5. /\ Numbers(q) = Numbers(Tail(q)) \cup {Head(q).n}
      /\ Distinct(Tail(q)) /\ Head(q).n \notin Numbers(Tail(q))
  BY <1>3, <1>4, TailNumbers
<1> HIDE DEF k, q
<1>6. CASE StartDrain(k, c, q)
  <2> DEFINE w == Turn(CHOOSE d \in Unused : TRUE, k, c, Head(q))
  <2>1. w.msg = Head(q) /\ Active(w)
    BY TurnIsActive
  <2>2. workers' = workers \cup {w} /\ queues' = [queues EXCEPT ![k] = Tail(q)]
    BY <1>6 DEF StartDrain
  <2> HIDE DEF w
  <2>3. queues'[k] = Tail(q) /\ \A l \in Key \ {k} : queues'[l] = queues[l]
    BY <1>1, <2>2 DEF TypeOK
  <2>4. Head(q).n = m.n \/ Head(q).n \in Numbers(queues[k])
    BY <1>4, <1>5
  <2>5. \A v \in workers : Active(v) => v.msg.n # Head(q).n
    BY <1>1, <2>4 DEF Served, Runs, ServedOnce
  <2>6. \A l \in Key \ {k} : Head(q).n \notin Numbers(queues[l]) /\ m.n \notin Numbers(queues[l])
    BY <1>1, <2>4 DEF Served, Waits, ServedOnce
  <2>7. \A n : Served(n)' <=> Served(n) \/ n = m.n
    <3>1. ASSUME NEW n PROVE Waits(n)' <=> (Waits(n) \/ n = m.n) /\ n # Head(q).n
      <4>1. n \in Numbers(queues'[k]) <=> (n \in Numbers(queues[k]) \/ n = m.n) /\ n # Head(q).n
        BY <1>4, <1>5, <2>3
      <4>2. \A l \in Key \ {k} : n \in Numbers(queues'[l]) <=> n \in Numbers(queues[l])
        BY <2>3
      <4> QED
        BY <1>1, <2>6, <4>1, <4>2 DEF Waits
    <3>2. ASSUME NEW n PROVE Runs(n)' <=> Runs(n) \/ n = Head(q).n
      BY <2>1, <2>2 DEF Runs
    <3> QED
      BY <1>1, <2>4, <3>1, <3>2 DEF Served, Waits
  <2>8. \A v \in workers : Active(v) => v.msg.n \notin Numbers(Tail(q))
    BY <1>1, <1>4, <1>5 DEF Served, Runs, ServedOnce
  <2>9. ServedOnce'
    <3>1. \A l \in Key : Distinct(queues'[l])
      BY <1>5, <2>3 DEF ServedOnce
    <3>2. \A l, j \in Key : l # j => Numbers(queues'[l]) \cap Numbers(queues'[j]) = {}
      <4>1. \A l, j \in Key \ {k} : l # j => Numbers(queues'[l]) \cap Numbers(queues'[j]) = {}
        BY <2>3 DEF ServedOnce
      <4>2. \A l \in Key \ {k} : Numbers(q) \cap Numbers(queues[l]) = {}
        BY <1>1, <1>4, <2>6 DEF ServedOnce
      <4>3. \A l \in Key \ {k} : Numbers(queues'[k]) \cap Numbers(queues'[l]) = {}
        BY <1>5, <2>3, <4>2
      <4> QED
        BY <4>1, <4>3
    <3>3. \A u, v \in workers' : Active(u) /\ Active(v) /\ u.msg.n = v.msg.n => u = v
      BY <2>1, <2>2, <2>5 DEF ServedOnce
    <3>4. \A v \in workers', l \in Key : Active(v) => v.msg.n \notin Numbers(queues'[l])
      BY <1>5, <2>1, <2>2, <2>3, <2>6, <2>8 DEF ServedOnce
    <3> QED
      BY <3>1, <3>2, <3>3, <3>4 DEF ServedOnce
  <2> QED
    BY <2>7, <2>9
<1>7. CASE JoinDrain(k, q)
  <2>1. /\ queues'[k] = q /\ \A l \in Key \ {k} : queues'[l] = queues[l]
        /\ workers' = workers
    BY <1>1, <1>7 DEF JoinDrain, TypeOK
  <2>2. \A n : Served(n)' <=> Served(n) \/ n = m.n
    BY <1>1, <1>4, <2>1 DEF Served, Waits, Runs
  <2>3. ServedOnce'
    BY <1>1, <1>4, <2>1 DEF ServedOnce, Served, Waits, Runs
  <2> QED
    BY <2>2, <2>3
<1> QED
  BY <1>6, <1>7 DEF Enqueue, k, q

\* A buffered message is in its buffer, once; past the cap the oldest is gone.
LEMMA BufferKeeps ==
  ASSUME TypeOK, BufferedOnce, NEW c \in Id, NEW m \in Msg, BufferPending(c, m),
         ~Buffered(m.n), m.n \notin owned
  PROVE  /\ BufferedOnce'
         /\ \E e \in MsgNo :
              LET gone == IF Len(pending[c]) + 1 > PendingCap THEN {e} ELSE {}
              IN  /\ owned' = (owned \cup {m.n}) \ gone
                  /\ gone \subseteq {n \in MsgNo : Buffered(n) \/ n = m.n}
                  /\ \A n : Buffered(n)' <=> (Buffered(n) \/ n = m.n) /\ n \notin gone
<1> DEFINE q == Append(pending[c], m)
           full == Len(q) > PendingCap
           gone == IF full THEN {Head(q).n} ELSE {}
<1>1. pending[c] \in Seq(Msg)
  BY DEF TypeOK
<1>2. q \in Seq(Msg) /\ q # <<>> /\ Len(q) = Len(pending[c]) + 1
  BY <1>1, AppendProperties
<1>3. Numbers(q) = Numbers(pending[c]) \cup {m.n} /\ Distinct(q)
  BY <1>1, AppendedNumbers DEF BufferedOnce, Buffered
<1>4. /\ Numbers(q) = Numbers(Tail(q)) \cup {Head(q).n} /\ Head(q) \in Msg
      /\ Distinct(Tail(q)) /\ Head(q).n \notin Numbers(Tail(q))
  BY <1>2, <1>3, TailNumbers
<1>5. /\ pending' = [pending EXCEPT ![c] = IF full THEN Tail(q) ELSE q]
      /\ owned' = (owned \cup {m.n}) \ gone
  BY DEF BufferPending
<1> HIDE DEF q
<1>6. pending'[c] = (IF full THEN Tail(q) ELSE q) /\ \A d \in Id \ {c} : pending'[d] = pending[d]
  BY <1>5 DEF TypeOK
<1>7. Numbers(pending'[c]) = Numbers(q) \ gone /\ Distinct(pending'[c])
  BY <1>3, <1>4, <1>6
<1>8. Head(q).n \in MsgNo /\ gone \subseteq Numbers(q)
  BY <1>4 DEF Msg
<1>9. \A d \in Id \ {c} : Numbers(q) \cap Numbers(pending[d]) = {}
  BY <1>3 DEF BufferedOnce, Buffered
<1>10. BufferedOnce'
  BY <1>6, <1>7, <1>9 DEF BufferedOnce
<1>11. \A n : Buffered(n)' <=> (Buffered(n) \/ n = m.n) /\ n \notin gone
  BY <1>3, <1>6, <1>7, <1>8, <1>9 DEF Buffered
<1>12. gone \subseteq {n \in MsgNo : Buffered(n) \/ n = m.n}
  BY <1>3, <1>8 DEF Buffered
<1>13. gone = IF Len(pending[c]) + 1 > PendingCap THEN {Head(q).n} ELSE {}
  BY <1>2
<1> QED
  BY <1>5, <1>8, <1>10, <1>11, <1>12, <1>13

\* The empty sequence.
LEMMA EmptyHolds == Numbers(<<>>) = {} /\ Distinct(<<>>) /\ Ascending(<<>>)
<1>1. DOMAIN <<>> = {}
  BY EmptySeq, LenProperties
<1> QED
  BY <1>1 DEF Numbers, Distinct, Ascending

\* A cleared channel loses its buffer and the queues of its keys; the running
\* turns go on.
LEMMA ClearKeeps ==
  ASSUME TypeOK, ServedOnce, BufferedOnce, NEW c \in Id, ClearChannel(c),
         workers' = workers
  PROVE  /\ ServedOnce' /\ BufferedOnce'
         /\ \A n : /\ Buffered(n)' => Buffered(n)
                   /\ Waits(n)' => Waits(n)
                   /\ Runs(n)' <=> Runs(n)
                   /\ n \in owned' <=> /\ n \in owned
                                       /\ Buffered(n) => Buffered(n)'
                                       /\ Waits(n) => Waits(n)'
<1>1. KeysOf(c) \subseteq Key
  BY IdAssumption DEF KeysOf
<1>2. \A k \in Key : queues'[k] = IF k \in KeysOf(c) THEN <<>> ELSE queues[k]
  BY DEF ClearChannel
<1>3. pending'[c] = <<>> /\ \A d \in Id \ {c} : pending'[d] = pending[d]
  BY DEF ClearChannel, TypeOK
<1>4. \A n : n \in owned' <=>
        n \in owned /\ n \notin Numbers(pending[c]) /\ \A k \in KeysOf(c) : n \notin Numbers(queues[k])
  BY DEF ClearChannel
<1>5. ServedOnce'
  <2>1. \A k \in Key : Numbers(queues'[k]) \subseteq Numbers(queues[k]) /\ Distinct(queues'[k])
    BY <1>2, EmptyHolds DEF ServedOnce
  <2> QED
    BY <2>1 DEF ServedOnce
<1>6. BufferedOnce'
  <2>1. \A d \in Id : Numbers(pending'[d]) \subseteq Numbers(pending[d]) /\ Distinct(pending'[d])
    BY <1>3, EmptyHolds DEF BufferedOnce
  <2> QED
    BY <2>1 DEF BufferedOnce
<1>7. ASSUME NEW n PROVE Buffered(n)' <=> Buffered(n) /\ n \notin Numbers(pending[c])
  BY <1>3, EmptyHolds DEF Buffered, BufferedOnce
<1>8. ASSUME NEW n
      PROVE  Waits(n)' <=> Waits(n) /\ \A k \in KeysOf(c) : n \notin Numbers(queues[k])
  BY <1>1, <1>2, EmptyHolds DEF Waits, ServedOnce
<1>9. \A n : n \in Numbers(pending[c]) => Buffered(n)
  BY DEF Buffered
<1>10. \A n : (\E k \in KeysOf(c) : n \in Numbers(queues[k])) => Waits(n)
  BY <1>1 DEF Waits
<1> QED
  BY <1>4, <1>5, <1>6, <1>7, <1>8, <1>9, <1>10 DEF Runs

\* A drain that moves on within its turn serves the same message; one that
\* settles serves it no more.
LEMMA TurnStageKeeps ==
  ASSUME TypeOK, ServedOnce, NEW w \in workers, Active(w), queues' = queues,
         NEW a \in {"running", "settling"}, Become(w, [w EXCEPT !.at = a])
  PROVE  /\ ServedOnce'
         /\ a = "running" => \A n : Served(n)' <=> Served(n)
         /\ a = "settling" => \A n : Served(n)' <=> Served(n) /\ n # w.msg.n
<1> DEFINE next == [w EXCEPT !.at = a]
<1>1. w \in Worker
  BY DEF TypeOK
<1>2. next.msg = w.msg /\ (Active(next) <=> a = "running")
  BY <1>1 DEF Worker, Active
<1>3. workers' = (workers \ {w}) \cup {next}
  BY DEF Become
<1> HIDE DEF next
<1>4. ServedOnce'
  BY <1>2, <1>3 DEF ServedOnce
<1>5. \A n : Waits(n)' <=> Waits(n)
  BY DEF Waits
<1>6. ~Waits(w.msg.n)
  BY DEF ServedOnce, Waits
<1>7. ASSUME a = "running", NEW n PROVE Runs(n)' <=> Runs(n)
  BY <1>2, <1>3, <1>7 DEF Runs
<1>8. ASSUME a = "settling", NEW n PROVE Runs(n)' <=> Runs(n) /\ n # w.msg.n
  BY <1>2, <1>3, <1>8 DEF Runs, ServedOnce
<1> QED
  BY <1>4, <1>5, <1>6, <1>7, <1>8 DEF Served

\* The end of a turn disposes of its message and of no other one.
LEMMA EndTurnServes ==
  ASSUME TypeOK, ServedOnce, NEW w \in workers, EndTurn(w)
  PROVE  ServedOnce' /\ \A n : Served(n)' <=> Served(n) /\ n # w.msg.n
<1> DEFINE k == w.key
           q == queues[k]
<1>1. w \in Worker /\ k \in Key /\ q \in Seq(Msg)
  BY DEF TypeOK, Worker
<1>2. Active(w)
  BY DEF EndTurn, Active
<1> HIDE DEF k, q
<1>3. ASSUME q # <<>>, Become(w, Turn(w.id, k, w.channel, Head(q))),
             queues' = [queues EXCEPT ![k] = Tail(q)]
      PROVE  ServedOnce' /\ \A n : Served(n)' <=> Served(n) /\ n # w.msg.n
  <2> DEFINE next == Turn(w.id, k, w.channel, Head(q))
  <2>1. next.msg = Head(q) /\ Active(next)
    BY TurnIsActive
  <2>2. workers' = (workers \ {w}) \cup {next}
    BY <1>3 DEF Become
  <2> HIDE DEF next
  <2>3. queues'[k] = Tail(q) /\ \A l \in Key \ {k} : queues'[l] = queues[l]
    BY <1>1, <1>3 DEF TypeOK
  <2>4. Distinct(q)
    BY <1>1 DEF ServedOnce, q
  <2>5. /\ Numbers(q) = Numbers(Tail(q)) \cup {Head(q).n}
        /\ Distinct(Tail(q)) /\ Head(q).n \notin Numbers(Tail(q))
    BY <1>1, <1>3, <2>4, TailNumbers
  <2>6. \A l \in Key \ {k} : Numbers(q) \cap Numbers(queues[l]) = {}
    BY <1>1 DEF ServedOnce, q
  <2>7. \A v \in workers : Active(v) => v.msg.n \notin Numbers(q)
    BY <1>1 DEF ServedOnce, q
  <2>8. ASSUME NEW n PROVE Waits(n)' <=> Waits(n) /\ n # Head(q).n
    <3>1. n \in Numbers(queues'[k]) <=> n \in Numbers(queues[k]) /\ n # Head(q).n
      BY <2>3, <2>5 DEF q
    <3>2. \A l \in Key \ {k} : n \in Numbers(queues'[l]) <=> n \in Numbers(queues[l])
      BY <2>3
    <3>3. \A l \in Key \ {k} : Head(q).n \notin Numbers(queues[l])
      BY <2>5, <2>6
    <3> QED
      BY <1>1, <3>1, <3>2, <3>3 DEF Waits
  <2>9. ASSUME NEW n PROVE Runs(n)' <=> (Runs(n) /\ n # w.msg.n) \/ n = Head(q).n
    BY <1>2, <2>1, <2>2 DEF Runs, ServedOnce
  <2>10. Waits(Head(q).n) /\ ~Waits(w.msg.n) /\ Head(q).n # w.msg.n
    BY <1>1, <1>2, <2>5, <2>7 DEF Waits, ServedOnce, q
  <2>11. ServedOnce'
    <3>1. \A l \in Key : Distinct(queues'[l])
      BY <2>3, <2>5 DEF ServedOnce
    <3>2. \A l \in Key : Numbers(queues'[l]) \subseteq Numbers(queues[l])
      BY <2>3, <2>5 DEF q
    <3>3. \A l, j \in Key : l # j => Numbers(queues'[l]) \cap Numbers(queues'[j]) = {}
      BY <3>2 DEF ServedOnce
    <3>4. \A u, v \in workers' : Active(u) /\ Active(v) /\ u.msg.n = v.msg.n => u = v
      BY <2>1, <2>2, <2>5, <2>7 DEF ServedOnce
    <3>5. \A l \in Key : Head(q).n \notin Numbers(queues'[l])
      BY <2>3, <2>5, <2>6
    <3>6. \A v \in workers', l \in Key : Active(v) => v.msg.n \notin Numbers(queues'[l])
      BY <2>1, <2>2, <3>2, <3>5 DEF ServedOnce
    <3> QED
      BY <3>1, <3>3, <3>4, <3>6 DEF ServedOnce
  <2> QED
    BY <2>8, <2>9, <2>10, <2>11 DEF Served
<1>4. ASSUME Become(w, [w EXCEPT !.at = "settling"]), queues' = queues
      PROVE  ServedOnce' /\ \A n : Served(n)' <=> Served(n) /\ n # w.msg.n
  BY <1>2, <1>4, TurnStageKeeps
<1> QED
  BY <1>3, <1>4 DEF EndTurn, k, q

\* A message that has just arrived is nowhere yet.
LEMMA ArrivesNew ==
  ASSUME KeptInv, arrived < MaxMsgs, NEW t \in Key \cup {None}, NEW s \in Subject \cup {None}
  PROVE  LET m == Arrive(t, s)
         IN  /\ m \in Msg /\ m.n \in MsgNo /\ m.n = arrived + 1
             /\ m.n \notin owned /\ ~Buffered(m.n) /\ ~Replayed(m.n) /\ ~Served(m.n)
             /\ \A n \in MsgNo : n \in owned => n < m.n
<1> DEFINE m == Arrive(t, s)
<1>1. m \in Msg /\ m.n \in MsgNo /\ m.n = arrived + 1
  BY ArriveType DEF KeptInv, Arrive
<1>2. arrived \in Nat
  BY DEF KeptInv, TypeOK
<1> HIDE DEF m
<1>3. \A n \in MsgNo : n \in owned => n < m.n
  BY <1>1, <1>2 DEF KeptInv, MsgNo
<1>4. m.n \notin owned
  BY <1>1, <1>2 DEF KeptInv
<1> QED
  BY <1>1, <1>3, <1>4 DEF KeptInv, m

\* The clause of the invariant about one message.
Apart(n) ==
  /\ ~(Buffered(n) /\ Replayed(n))
  /\ ~(Buffered(n) /\ Served(n))
  /\ ~(Replayed(n) /\ Served(n))
  /\ n \in owned <=> Buffered(n) \/ Replayed(n) \/ Served(n)
  /\ n \in owned => n <= arrived

\* A message arrives for a live agent.
LEMMA TakenByQueue ==
  ASSUME KeptInv, arrived < MaxMsgs, NEW t \in Key \cup {None}, NEW s \in Subject \cup {None},
         NEW c \in Id, Live(c), Enqueue(c, Arrive(t, s)),
         owned' = owned \cup {Arrive(t, s).n}, arrived' = arrived + 1,
         UNCHANGED <<pending, replay>>
  PROVE  BufferedOnce' /\ ServedOnce' /\ Distinct(replay'.msgs) /\ \A n \in MsgNo : Apart(n)'
<1> DEFINE m == Arrive(t, s)
<1>1. /\ m \in Msg /\ m.n \in MsgNo /\ m.n = arrived + 1
      /\ m.n \notin owned /\ ~Buffered(m.n) /\ ~Replayed(m.n) /\ ~Served(m.n)
  BY ArrivesNew
<1>2. Enqueue(c, m) /\ owned' = owned \cup {m.n}
  OBVIOUS
<1> HIDE DEF m
<1>3. ServedOnce' /\ \A n : Served(n)' <=> Served(n) \/ n = m.n
  BY <1>1, <1>2, EnqueueServes DEF KeptInv
<1>4. \A n : (Buffered(n)' <=> Buffered(n)) /\ (Replayed(n)' <=> Replayed(n))
  BY DEF Buffered, Replayed
<1>5. BufferedOnce' /\ Distinct(replay'.msgs)
  BY DEF KeptInv, BufferedOnce
<1>6. arrived \in Nat /\ arrived' = arrived + 1
  BY DEF KeptInv, TypeOK
<1>7. ASSUME NEW n \in MsgNo PROVE Apart(n)'
  <2>1. n \in Nat /\ (n \in owned => n <= arrived)
    BY BoundAssumption DEF KeptInv, MsgNo
  <2> QED
    BY <1>1, <1>2, <1>3, <1>4, <1>6, <2>1 DEF KeptInv, Apart
<1> QED
  BY <1>3, <1>5, <1>7

\* A message arrives for a channel that is expected.
LEMMA TakenByBuffer ==
  ASSUME KeptInv, arrived < MaxMsgs, NEW t \in Key \cup {None}, NEW s \in Subject \cup {None},
         NEW c \in Id, BufferPending(c, Arrive(t, s)), arrived' = arrived + 1,
         UNCHANGED <<queues, workers, replay>>
  PROVE  BufferedOnce' /\ ServedOnce' /\ Distinct(replay'.msgs) /\ \A n \in MsgNo : Apart(n)'
<1> DEFINE m == Arrive(t, s)
<1>1. /\ m \in Msg /\ m.n \in MsgNo /\ m.n = arrived + 1
      /\ m.n \notin owned /\ ~Buffered(m.n) /\ ~Replayed(m.n) /\ ~Served(m.n)
  BY ArrivesNew
<1>2. BufferPending(c, m)
  OBVIOUS
<1> HIDE DEF m
<1>3. TypeOK /\ BufferedOnce
  BY DEF KeptInv
<1>4. BufferedOnce'
  BY <1>1, <1>2, <1>3, BufferKeeps
<1>5. PICK e \in MsgNo :
        LET gone == IF Len(pending[c]) + 1 > PendingCap THEN {e} ELSE {}
        IN  /\ owned' = (owned \cup {m.n}) \ gone
            /\ gone \subseteq {n \in MsgNo : Buffered(n) \/ n = m.n}
            /\ \A n : Buffered(n)' <=> (Buffered(n) \/ n = m.n) /\ n \notin gone
  BY <1>1, <1>2, <1>3, BufferKeeps
<1>6. \A n : (Served(n)' <=> Served(n)) /\ (Replayed(n)' <=> Replayed(n))
  BY DEF Served, Waits, Runs, Replayed
<1>7. ServedOnce' /\ Distinct(replay'.msgs)
  BY DEF KeptInv, ServedOnce
<1>8. arrived \in Nat /\ arrived' = arrived + 1
  BY DEF KeptInv, TypeOK
<1>9. ASSUME NEW n \in MsgNo PROVE Apart(n)'
  <2> DEFINE gone == IF Len(pending[c]) + 1 > PendingCap THEN {e} ELSE {}
  <2>1. n \in Nat /\ (n \in owned => n <= arrived)
    BY BoundAssumption DEF KeptInv, MsgNo
  <2>2. /\ n \in owned' <=> (n \in owned \/ n = m.n) /\ n \notin gone
        /\ Buffered(n)' <=> (Buffered(n) \/ n = m.n) /\ n \notin gone
        /\ n \in gone => Buffered(n) \/ n = m.n
    BY <1>5
  <2> HIDE DEF gone
  <2> QED
    BY <1>1, <1>6, <1>8, <2>1, <2>2 DEF KeptInv, Apart
<1> QED
  BY <1>4, <1>7, <1>9

\* A channel is cleared.
LEMMA ClearedApart ==
  ASSUME KeptInv, NEW c \in Id, ClearChannel(c), UNCHANGED <<workers, replay, arrived>>
  PROVE  BufferedOnce' /\ ServedOnce' /\ Distinct(replay'.msgs) /\ \A n \in MsgNo : Apart(n)'
<1>1. /\ ServedOnce' /\ BufferedOnce'
      /\ \A n : /\ Buffered(n)' => Buffered(n)
                /\ Waits(n)' => Waits(n)
                /\ Runs(n)' <=> Runs(n)
                /\ n \in owned' <=> /\ n \in owned
                                    /\ Buffered(n) => Buffered(n)'
                                    /\ Waits(n) => Waits(n)'
  BY ClearKeeps DEF KeptInv
<1>2. \A n : Replayed(n)' <=> Replayed(n)
  BY DEF Replayed
<1>3. \A n : Runs(n) => ~Waits(n)
  BY DEF KeptInv, ServedOnce, Runs, Waits
<1>4. ASSUME NEW n \in MsgNo PROVE Apart(n)'
  BY <1>1, <1>2, <1>3 DEF KeptInv, Apart, Served
<1> QED
  BY <1>1, <1>4 DEF KeptInv

\* Every step keeps each message in one place.
LEMMA NextKeptInv == KeptInv /\ [Next]_vars => KeptInv'
<1> SUFFICES ASSUME KeptInv, [Next]_vars
             PROVE  BufferedOnce' /\ ServedOnce' /\ Distinct(replay'.msgs)
                    /\ \A n \in MsgNo : Apart(n)'
  BY NextType DEF KeptInv, Apart
<1> DEFINE Goal == BufferedOnce' /\ ServedOnce' /\ Distinct(replay'.msgs)
                   /\ \A n \in MsgNo : Apart(n)'
<1> USE DEF registry, calls
<1>0. /\ TypeOK /\ BufferedOnce /\ ServedOnce /\ Distinct(replay.msgs)
      /\ \A n \in MsgNo : Apart(n)
  BY DEF KeptInv, Apart
<1>1. ASSUME UNCHANGED <<pending, replay, queues, workers, owned, arrived>> PROVE Goal
  BY <1>0, <1>1 DEF BufferedOnce, ServedOnce, Apart, Buffered, Replayed, Served, Waits, Runs
<1>2. ASSUME NEW c \in Id, NEW t \in Id \cup {None}, NEW s \in Subject \cup {None}, Emit(c, t, s)
      PROVE  Goal
  <2>1. t \in Key \cup {None} /\ arrived < MaxMsgs /\ arrived' = arrived + 1 /\ replay' = replay
    BY <1>2, IdAssumption DEF Emit
  <2>2. CASE Live(c) /\ Enqueue(c, Arrive(t, s)) /\ owned' = owned \cup {Arrive(t, s).n}
             /\ UNCHANGED pending
    BY <2>1, <2>2, TakenByQueue
  <2>3. CASE BufferPending(c, Arrive(t, s)) /\ UNCHANGED <<queues, draining, workers>>
    BY <2>1, <2>3, TakenByBuffer
  <2>4. CASE UNCHANGED <<pending, queues, draining, workers, owned>>
    <3>1. \A n \in MsgNo : n \in owned => n <= arrived'
      BY <1>0, <2>1, BoundAssumption DEF Apart, TypeOK, MsgNo
    <3> QED
      BY <1>0, <2>1, <2>4, <3>1
      DEF BufferedOnce, ServedOnce, Apart, Buffered, Replayed, Served, Waits, Runs
  <2> QED
    BY <1>2, <2>2, <2>3, <2>4 DEF Emit
<1>3. ASSUME NEW t \in Id, NEW s \in Subject \cup {None}, ThreadInbound(t, s)
      PROVE  Goal
  <2>1. t \in Key \cup {None} /\ arrived < MaxMsgs /\ arrived' = arrived + 1 /\ replay' = replay
    BY <1>3, IdAssumption DEF ThreadInbound
  <2>2. ASSUME NEW c \in Id, Live(c), Enqueue(c, Arrive(t, s)),
               owned' = owned \cup {Arrive(t, s).n}, UNCHANGED <<expected, pending>>
        PROVE  Goal
    BY <2>1, <2>2, TakenByQueue
  <2>3. CASE BufferPending(t, Arrive(t, s)) /\ UNCHANGED <<queues, draining, workers>>
    BY <2>1, <2>3, TakenByBuffer
  <2> QED
    BY <1>3, <2>2, <2>3 DEF ThreadInbound
<1>4. ASSUME NEW spec \in AgentSpec, Register(spec) PROVE Goal
  <2>1. nameToChannel[spec.name] \in Id \cup {None}
    BY <1>0, SpecAssumption DEF TypeOK
  <2> QED
    BY <1>1, <1>4, <2>1, ClearedApart DEF Register
<1>5. ASSUME NEW spec \in AgentSpec, Registered(spec) PROVE Goal
  <2> DEFINE c == spec.channel
  <2>1. c \in Id /\ replay.msgs = <<>>
    BY <1>5, SpecAssumption DEF Registered, Replaying
  <2>2. /\ pending'[c] = <<>> /\ \A d \in Id \ {c} : pending'[d] = pending[d]
        /\ replay'.msgs = pending[c]
        /\ UNCHANGED <<queues, workers, arrived, owned>>
    BY <1>0, <1>5, <2>1 DEF Registered, TypeOK
  <2> HIDE DEF c
  <2>3. BufferedOnce' /\ Distinct(replay'.msgs)
    BY <1>0, <2>1, <2>2, EmptyHolds DEF BufferedOnce
  <2>4. ServedOnce' /\ \A n : Served(n)' <=> Served(n)
    BY <1>0, <2>2 DEF ServedOnce, Served, Waits, Runs
  <2>5. \A n : Buffered(n)' <=> Buffered(n) /\ n \notin Numbers(pending[c])
    BY <1>0, <2>1, <2>2, EmptyHolds DEF Buffered, BufferedOnce
  <2>6. \A n : /\ Replayed(n)' <=> n \in Numbers(pending[c])
               /\ Replayed(n)' => Buffered(n)
               /\ ~Replayed(n)
    BY <2>1, <2>2, EmptyHolds DEF Buffered, Replayed
  <2> QED
    BY <1>0, <2>2, <2>3, <2>4, <2>5, <2>6 DEF Apart
<1>6. CASE Replay
  <2> DEFINE m == Head(replay.msgs)
  <2>1. replay.msgs \in Seq(Msg) /\ replay.msgs # <<>> /\ replay.channel \in Id /\ Live(replay.channel)
    BY <1>0, <1>6 DEF Replay, Replaying, TypeOK
  <2>2. /\ m \in Msg /\ m.n \in Numbers(replay.msgs)
        /\ Numbers(replay.msgs) = Numbers(Tail(replay.msgs)) \cup {m.n}
        /\ Distinct(Tail(replay.msgs)) /\ m.n \notin Numbers(Tail(replay.msgs))
    BY <1>0, <2>1, TailNumbers
  <2>3. /\ Enqueue(replay.channel, m) /\ replay'.msgs = Tail(replay.msgs)
        /\ UNCHANGED <<pending, owned, arrived>>
    BY <1>0, <1>6 DEF Replay, TypeOK
  <2> HIDE DEF m
  <2>4. ~Served(m.n) /\ ~Buffered(m.n)
    BY <1>0, <2>2 DEF Apart, Replayed, Msg
  <2>5. ServedOnce' /\ \A n : Served(n)' <=> Served(n) \/ n = m.n
    BY <1>0, <2>1, <2>2, <2>3, <2>4, EnqueueServes
  <2>6. \A n : (Buffered(n)' <=> Buffered(n)) /\ (Replayed(n)' <=> Replayed(n) /\ n # m.n)
    BY <2>2, <2>3 DEF Buffered, Replayed
  <2>7. BufferedOnce' /\ Distinct(replay'.msgs)
    BY <1>0, <2>2, <2>3 DEF BufferedOnce
  <2>8. Replayed(m.n)
    BY <2>2 DEF Replayed
  <2> QED
    BY <1>0, <2>3, <2>4, <2>5, <2>6, <2>7, <2>8 DEF Apart
<1>7. ASSUME NEW i \in Id, Deregister(i) PROVE Goal
  <2>1. nameToChannel[i] \in Id
    BY <1>0, <1>7 DEF Deregister, TypeOK
  <2> QED
    BY <1>7, <2>1, ClearedApart DEF Deregister
<1>8. ASSUME NEW c \in Id, Unexpect(c) PROVE Goal
  <2>1. /\ pending'[c] = <<>> /\ \A d \in Id \ {c} : pending'[d] = pending[d]
        /\ owned' = owned \ Numbers(pending[c])
        /\ UNCHANGED <<queues, workers, arrived, replay>>
    BY <1>0, <1>8 DEF Unexpect, TypeOK
  <2>2. BufferedOnce'
    BY <1>0, <2>1, EmptyHolds DEF BufferedOnce
  <2>3. ServedOnce' /\ \A n : (Served(n)' <=> Served(n)) /\ (Replayed(n)' <=> Replayed(n))
    BY <1>0, <2>1 DEF ServedOnce, Served, Waits, Runs, Replayed
  <2>4. \A n : Buffered(n)' <=> Buffered(n) /\ n \notin Numbers(pending[c])
    BY <1>0, <2>1, EmptyHolds DEF Buffered, BufferedOnce
  <2>5. \A n \in Numbers(pending[c]) : Buffered(n)
    BY DEF Buffered
  <2> QED
    BY <1>0, <2>1, <2>2, <2>3, <2>4, <2>5 DEF Apart
<1>9. ASSUME NEW c \in Id, ExpectChannel(c) PROVE Goal
  BY <1>1, <1>9 DEF ExpectChannel
<1>10. ASSUME NEW t \in Id, ArchiveThread(t) PROVE Goal
  BY <1>10, ClearedApart DEF ArchiveThread
<1>11. ASSUME NEW w \in workers, WorkerStep(w) PROVE Goal
  <2>1. ASSUME UNCHANGED <<pending, replay, arrived>>
        PROVE  BufferedOnce' /\ Distinct(replay'.msgs)
               /\ \A n : (Buffered(n)' <=> Buffered(n)) /\ (Replayed(n)' <=> Replayed(n))
    BY <1>0, <2>1 DEF BufferedOnce, Buffered, Replayed
  <2>2. Active(w) => Served(w.msg.n)
    BY DEF Served, Runs
  <2>3. ASSUME ServedOnce', \A n : Served(n)' <=> Served(n),
               UNCHANGED <<pending, replay, arrived, owned>>
        PROVE  Goal
    BY <1>0, <2>1, <2>3 DEF Apart
  <2>4. ASSUME Active(w), ServedOnce', \A n : Served(n)' <=> Served(n) /\ n # w.msg.n,
               owned' = owned \ {w.msg.n}, UNCHANGED <<pending, replay, arrived>>
        PROVE  Goal
    BY <1>0, <2>1, <2>2, <2>4 DEF Apart
  <2>5. CASE SessionRead(w)
    BY <1>0, <2>3, <2>5, TurnStageKeeps DEF SessionRead, Active
  <2>6. CASE SessionReadThrows(w)
    BY <1>0, <2>4, <2>6, TurnStageKeeps DEF SessionReadThrows, Active
  <2>7. CASE EndTurn(w)
    BY <1>0, <2>4, <2>7, EndTurnServes DEF EndTurn, Active
  <2>8. CASE Settle(w)
    <3>1. ~Active(w) /\ workers' = workers \ {w} /\ UNCHANGED <<pending, replay, queues, owned, arrived>>
      BY <2>8 DEF Settle, Active
    <3>2. ServedOnce' /\ \A n : Served(n)' <=> Served(n)
      BY <1>0, <3>1 DEF ServedOnce, Served, Waits, Runs
    <3> QED
      BY <2>3, <3>1, <3>2
  <2> QED
    BY <1>11, <2>5, <2>6, <2>7, <2>8 DEF WorkerStep
<1>12. CASE UNCHANGED vars
  BY <1>1, <1>12 DEF vars
<1> QED
  BY <1>2, <1>3, <1>4, <1>5, <1>6, <1>7, <1>8, <1>9, <1>10, <1>11, <1>12 DEF Next

(***************************************************************************)
(* Conservation: the one place of a message, counted.                      *)
(***************************************************************************)
\* A sequence that holds each number once has one place for a number it holds.
LEMMA OnePosition ==
  ASSUME NEW s \in Seq(Msg), Distinct(s), NEW n
  PROVE  IF n \in Numbers(s) THEN \E i : Positions(s, n) = {i} ELSE Positions(s, n) = {}
BY DEF Numbers, Distinct, Positions

\* A message of the invariant is in one place, or in none.
LEMMA PlacesOfOne ==
  ASSUME KeptInv, NEW n \in MsgNo
  PROVE  IF n \in owned THEN \E p : Places(n) = {p} ELSE Places(n) = {}
<1>1. /\ \A c \in Id : pending[c] \in Seq(Msg) /\ Distinct(pending[c])
      /\ \A k \in Key : queues[k] \in Seq(Msg) /\ Distinct(queues[k])
      /\ replay.msgs \in Seq(Msg) /\ Distinct(replay.msgs)
  BY DEF KeptInv, TypeOK, BufferedOnce, ServedOnce
<1>2. IF Buffered(n) THEN \E p : InBuffers(n) = {p} ELSE InBuffers(n) = {}
  <2>1. \A c \in Id : n \notin Numbers(pending[c]) => Positions(pending[c], n) = {}
    BY <1>1, OnePosition
  <2>2. ASSUME NEW c \in Id, n \in Numbers(pending[c]) PROVE \E p : InBuffers(n) = {p}
    <3>1. PICK i : Positions(pending[c], n) = {i}
      BY <1>1, <2>2, OnePosition
    <3>2. \A d \in Id \ {c} : Positions(pending[d], n) = {}
      BY <2>1, <2>2 DEF KeptInv, BufferedOnce
    <3>3. InBuffers(n) = {<<"buffer", c, i>>}
      BY <3>1, <3>2 DEF InBuffers
    <3> QED
      BY <3>3
  <2>3. ~Buffered(n) => InBuffers(n) = {}
    BY <2>1 DEF Buffered, InBuffers
  <2> QED
    BY <2>2, <2>3 DEF Buffered
<1>3. IF Waits(n) THEN \E p : InQueues(n) = {p} ELSE InQueues(n) = {}
  <2>1. \A k \in Key : n \notin Numbers(queues[k]) => Positions(queues[k], n) = {}
    BY <1>1, OnePosition
  <2>2. ASSUME NEW k \in Key, n \in Numbers(queues[k]) PROVE \E p : InQueues(n) = {p}
    <3>1. PICK i : Positions(queues[k], n) = {i}
      BY <1>1, <2>2, OnePosition
    <3>2. \A l \in Key \ {k} : Positions(queues[l], n) = {}
      BY <2>1, <2>2 DEF KeptInv, ServedOnce
    <3>3. InQueues(n) = {<<"queue", k, i>>}
      BY <3>1, <3>2 DEF InQueues
    <3> QED
      BY <3>3
  <2>3. ~Waits(n) => InQueues(n) = {}
    BY <2>1 DEF Waits, InQueues
  <2> QED
    BY <2>2, <2>3 DEF Waits
<1>4. IF Replayed(n) THEN \E p : InReplay(n) = {p} ELSE InReplay(n) = {}
  <2>1. ASSUME Replayed(n) PROVE \E p : InReplay(n) = {p}
    <3>1. PICK i : Positions(replay.msgs, n) = {i}
      BY <1>1, <2>1, OnePosition DEF Replayed
    <3>2. InReplay(n) = {<<"replay", i>>}
      BY <3>1 DEF InReplay
    <3> QED
      BY <3>2
  <2>2. ASSUME ~Replayed(n) PROVE InReplay(n) = {}
    BY <1>1, <2>2, OnePosition DEF Replayed, InReplay
  <2> QED
    BY <2>1, <2>2
<1>5. IF Runs(n) THEN \E p : InTurns(n) = {p} ELSE InTurns(n) = {}
  <2>1. ASSUME NEW w \in workers, Active(w), w.msg.n = n PROVE InTurns(n) = {<<"turn", w.id>>}
    <3>1. {v \in workers : Active(v) /\ v.msg.n = n} = {w}
      BY <2>1 DEF KeptInv, ServedOnce
    <3> QED
      BY <3>1 DEF InTurns
  <2> QED
    BY <2>1 DEF Runs, InTurns
<1>6. Apart(n)
  BY DEF KeptInv, Apart
<1>7. ~(Waits(n) /\ Runs(n))
  BY DEF KeptInv, ServedOnce, Waits, Runs
<1> QED
  BY <1>2, <1>3, <1>4, <1>5, <1>6, <1>7 DEF Apart, Served, Places

\* Nothing is anywhere at first.
LEMMA InitKept == Init => KeptInv
<1> SUFFICES ASSUME Init PROVE KeptInv
  OBVIOUS
<1>1. TypeOK
  BY InitType
<1>2. /\ \A c \in Id : Numbers(pending[c]) = {} /\ Distinct(pending[c])
      /\ \A k \in Key : Numbers(queues[k]) = {} /\ Distinct(queues[k])
      /\ Numbers(replay.msgs) = {} /\ Distinct(replay.msgs)
      /\ workers = {} /\ owned = {}
  BY EmptyHolds DEF Init
<1> QED
  BY <1>1, <1>2
  DEF KeptInv, BufferedOnce, ServedOnce, Buffered, Replayed, Served, Waits, Runs

\* Every message the registry has taken is in exactly one place until it is
\* disposed of, whoever registers, moves or is torn down in between, and its
\* buffer is one that the next registration or teardown finds.
THEOREM NothingLost == Spec => []MessagesKept
<1>1. KeptInv => Conservation
  <2> SUFFICES ASSUME KeptInv, NEW n \in MsgNo
               PROVE  Cardinality(Places(n)) = IF n \in owned THEN 1 ELSE 0
    BY DEF Conservation
  <2> QED
    BY PlacesOfOne, FS_EmptySet, FS_Singleton
<1> QED
  BY <1>1, InitKept, NextKeptInv, BuffersAreExpected, PTL DEF Spec, MessagesKept

(***************************************************************************)
(* Order.  The queues are in order because a buffered message is younger   *)
(* than all that waits or runs under the keys of its channel: an agent that*)
(* comes up replays its buffer before anything else reaches its queues.    *)
(***************************************************************************)
\* The keys under which messages of channel c are queued.
KeysFor(c) == {c} \cup {ThreadKey[c, s] : s \in Subject}

\* n comes after what waits or runs under key k.
Younger(k, n) ==
  /\ Below(queues[k], n)
  /\ \A w \in workers : Active(w) /\ w.key = k => w.msg.n < n

\* What waits under a key is in order, and comes after what runs.
QueueOrder ==
  /\ \A k \in Key : Ascending(queues[k])
  /\ \A w \in workers : Active(w) => \A n \in Numbers(queues[w.key]) : w.msg.n < n

\* Enqueueing a message that comes after its queue keeps the order, and what
\* comes after the message comes after the queue still.
LEMMA EnqueueOrder ==
  ASSUME TypeOK, QueueOrder, NEW c \in Id, Live(c), NEW m \in Msg,
         Younger(DrainKey(c, m), m.n), Enqueue(c, m)
  PROVE  /\ QueueOrder'
         /\ \A l \in Key, n \in Nat :
              Younger(l, n) /\ (l = DrainKey(c, m) => m.n < n) => Younger(l, n)'
<1> DEFINE k == DrainKey(c, m)
           q == Append(queues[k], m)
<1>1. k \in Key
  BY DrainKeyType
<1>2. queues[k] \in Seq(Msg) /\ Ascending(queues[k]) /\ Younger(k, m.n)
  BY <1>1 DEF TypeOK, QueueOrder
<1>3. q \in Seq(Msg) /\ q # <<>>
  BY <1>2, AppendProperties
<1>4. Numbers(q) = Numbers(queues[k]) \cup {m.n} /\ Ascending(q)
  BY <1>2, AppendedNumbers DEF Younger
<1>5. /\ Numbers(q) = Numbers(Tail(q)) \cup {Head(q).n}
      /\ Ascending(Tail(q)) /\ \A n \in Numbers(Tail(q)) : Head(q).n < n
  BY <1>3, <1>4, TailNumbers
<1>6. \A w \in workers : Active(w) /\ w.key = k => \A n \in Numbers(q) : w.msg.n < n
  BY <1>2, <1>4 DEF QueueOrder, Younger
<1>7. \A n : Below(queues[k], n) /\ m.n < n => Below(q, n)
  BY <1>4 DEF Below
<1> HIDE DEF k, q
<1>8. CASE StartDrain(k, c, q)
  <2> DEFINE w == Turn(CHOOSE d \in Unused : TRUE, k, c, Head(q))
  <2>1. w.msg = Head(q) /\ Active(w) /\ w.key = k
    BY TurnIsActive
  <2>2. workers' = workers \cup {w} /\ queues' = [queues EXCEPT ![k] = Tail(q)]
    BY <1>8 DEF StartDrain
  <2> HIDE DEF w
  <2>3. queues'[k] = Tail(q) /\ \A l \in Key \ {k} : queues'[l] = queues[l]
    BY <1>1, <2>2 DEF TypeOK
  <2>4. \A v \in workers : v.key \in Key
    BY DEF TypeOK, Worker
  <2>5. QueueOrder'
    <3>1. \A l \in Key : Ascending(queues'[l])
      BY <1>5, <2>3 DEF QueueOrder
    <3>2. ASSUME NEW v \in workers', Active(v) PROVE \A n \in Numbers(queues'[v.key]) : v.msg.n < n
      <4>1. CASE v = w
        BY <1>5, <2>1, <2>3, <4>1
      <4>2. CASE v \in workers /\ v.key = k
        BY <1>5, <1>6, <2>3, <3>2, <4>2
      <4>3. CASE v \in workers /\ v.key # k
        BY <2>3, <2>4, <3>2, <4>3 DEF QueueOrder
      <4> QED
        BY <2>2, <4>1, <4>2, <4>3
    <3> QED
      BY <3>1, <3>2 DEF QueueOrder
  <2>6. ASSUME NEW l \in Key, NEW n \in Nat, Younger(l, n), l = k => m.n < n
        PROVE  Younger(l, n)'
    <3>1. CASE l = k
      <4>1. Below(q, n)
        BY <1>7, <2>6, <3>1 DEF Younger
      <4>2. Below(queues'[k], n) /\ w.msg.n < n
        BY <1>5, <2>1, <2>3, <4>1 DEF Below
      <4> QED
        BY <2>2, <2>6, <3>1, <4>2 DEF Younger
    <3>2. CASE l # k
      BY <2>1, <2>2, <2>3, <2>6, <3>2 DEF Younger
    <3> QED
      BY <3>1, <3>2
  <2> QED
    BY <2>5, <2>6 DEF k
<1>9. CASE JoinDrain(k, q)
  <2>1. /\ queues'[k] = q /\ \A l \in Key \ {k} : queues'[l] = queues[l]
        /\ workers' = workers
    BY <1>1, <1>9 DEF JoinDrain, TypeOK
  <2>2. \A v \in workers : v.key \in Key
    BY DEF TypeOK, Worker
  <2>3. QueueOrder'
    BY <1>4, <1>6, <2>1, <2>2 DEF QueueOrder
  <2>4. \A l \in Key, n \in Nat : Younger(l, n) /\ (l = k => m.n < n) => Younger(l, n)'
    BY <1>7, <2>1 DEF Younger
  <2> QED
    BY <2>3, <2>4 DEF k
<1> QED
  BY <1>8, <1>9 DEF Enqueue, k, q

\* What leaves a queue, from its head or with all of it, leaves the rest in order.
LEMMA ShrinkOrder ==
  ASSUME TypeOK, QueueOrder, \A k \in Key : queues'[k] \in {queues[k], <<>>},
         \A w \in workers' : Active(w) => \E v \in workers : Active(v) /\ v.msg = w.msg /\ v.key = w.key
  PROVE  QueueOrder' /\ \A l \in Key, n \in Nat : Younger(l, n) => Younger(l, n)'
<1>1. \A k \in Key : Ascending(queues'[k]) /\ Numbers(queues'[k]) \subseteq Numbers(queues[k])
  BY EmptyHolds DEF QueueOrder
<1>2. \A w \in workers : w.key \in Key
  BY DEF TypeOK, Worker
<1>3. QueueOrder'
  BY <1>1, <1>2 DEF QueueOrder
<1>4. \A l \in Key, n \in Nat : Younger(l, n) => Younger(l, n)'
  BY <1>1 DEF Younger, Below
<1> QED
  BY <1>3, <1>4

\* The next turn of a drain is about the oldest message that waits.
LEMMA EndTurnOrder ==
  ASSUME TypeOK, QueueOrder, NEW w \in workers, EndTurn(w)
  PROVE  QueueOrder' /\ \A l \in Key, n \in Nat : Younger(l, n) => Younger(l, n)'
<1> DEFINE k == w.key
           q == queues[k]
<1>1. w \in Worker /\ k \in Key /\ q \in Seq(Msg)
  BY DEF TypeOK, Worker
<1>2. Active(w)
  BY DEF EndTurn, Active
<1>3. Ascending(q) /\ \A v \in workers : Active(v) /\ v.key = k => \A n \in Numbers(q) : v.msg.n < n
  BY <1>1 DEF QueueOrder
<1> HIDE DEF k, q
<1>4. ASSUME q # <<>>, Become(w, Turn(w.id, k, w.channel, Head(q))),
             queues' = [queues EXCEPT ![k] = Tail(q)]
      PROVE  QueueOrder' /\ \A l \in Key, n \in Nat : Younger(l, n) => Younger(l, n)'
  <2> DEFINE next == Turn(w.id, k, w.channel, Head(q))
  <2>1. next.msg = Head(q) /\ Active(next) /\ next.key = k
    BY TurnIsActive
  <2>2. workers' = (workers \ {w}) \cup {next}
    BY <1>4 DEF Become
  <2> HIDE DEF next
  <2>3. queues'[k] = Tail(q) /\ \A l \in Key \ {k} : queues'[l] = queues[l]
    BY <1>1, <1>4 DEF TypeOK
  <2>4. /\ Numbers(q) = Numbers(Tail(q)) \cup {Head(q).n}
        /\ Ascending(Tail(q)) /\ \A n \in Numbers(Tail(q)) : Head(q).n < n
    BY <1>1, <1>3, <1>4, TailNumbers
  <2>5. \A v \in workers : v.key \in Key
    BY DEF TypeOK, Worker
  <2>6. QueueOrder'
    <3>1. \A l \in Key : Ascending(queues'[l])
      BY <2>3, <2>4 DEF QueueOrder
    <3>2. ASSUME NEW v \in workers', Active(v) PROVE \A n \in Numbers(queues'[v.key]) : v.msg.n < n
      <4>1. CASE v = next
        BY <2>1, <2>3, <2>4, <4>1
      <4>2. CASE v \in workers /\ v.key = k
        BY <1>3, <2>3, <2>4, <3>2, <4>2
      <4>3. CASE v \in workers /\ v.key # k
        BY <2>3, <2>5, <3>2, <4>3 DEF QueueOrder
      <4> QED
        BY <2>2, <4>1, <4>2, <4>3
    <3> QED
      BY <3>1, <3>2 DEF QueueOrder
  <2>7. ASSUME NEW l \in Key, NEW n \in Nat, Younger(l, n) PROVE Younger(l, n)'
    <3>1. CASE l = k
      <4>1. Below(queues'[k], n) /\ next.msg.n < n
        BY <2>1, <2>3, <2>4, <2>7, <3>1 DEF Younger, Below, q
      <4> QED
        BY <2>2, <2>7, <3>1, <4>1 DEF Younger
    <3>2. CASE l # k
      BY <2>1, <2>2, <2>3, <2>7, <3>2 DEF Younger
    <3> QED
      BY <3>1, <3>2
  <2> QED
    BY <2>6, <2>7
<1>5. ASSUME Become(w, [w EXCEPT !.at = "settling"]), queues' = queues
      PROVE  QueueOrder' /\ \A l \in Key, n \in Nat : Younger(l, n) => Younger(l, n)'
  <2>1. ~Active([w EXCEPT !.at = "settling"])
    BY <1>1 DEF Active, Worker
  <2> QED
    BY <1>5, <2>1, ShrinkOrder DEF Become
<1> QED
  BY <1>4, <1>5 DEF EndTurn, k, q

\* Messages of channel c, or of the thread with its name.
Routed(s, c) == \A i \in DOMAIN s : s[i].thread \in {None, c}

\* Agents keep the name of their channel.
NamesKept ==
  \A c \in Id : (Live(c) => byChannel[c].name = c) /\ nameToChannel[c] \in {None, c}

\* Buffers are in order, of channels without an agent, and come after all that
\* their keys hold.
BufferOrder ==
  \A c \in Id :
    /\ Ascending(pending[c]) /\ Routed(pending[c], c)
    /\ pending[c] # <<>> => ~Live(c)
    /\ \A k \in KeysFor(c), n \in Numbers(pending[c]) : Younger(k, n)

\* So is what the replay loop has left.
ReplayOrder ==
  /\ Ascending(replay.msgs) /\ Routed(replay.msgs, replay.channel)
  /\ \A k \in KeysFor(replay.channel), n \in Numbers(replay.msgs) : Younger(k, n)

OrderInv == KeptInv /\ NamesKept /\ QueueOrder /\ BufferOrder /\ ReplayOrder

\* Sequences of a channel's messages, shortened and lengthened.
LEMMA RoutedKept ==
  ASSUME NEW c, NEW s \in Seq(Msg), Routed(s, c)
  PROVE  /\ \A m \in Msg : m.thread \in {None, c} => Routed(Append(s, m), c)
         /\ s # <<>> => Routed(Tail(s), c) /\ Head(s).thread \in {None, c}
<1>1. ASSUME NEW m \in Msg, m.thread \in {None, c} PROVE Routed(Append(s, m), c)
  <2>1. /\ Append(s, m) \in Seq(Msg) /\ Len(Append(s, m)) = Len(s) + 1
        /\ \A i \in 1..Len(s) : Append(s, m)[i] = s[i]
        /\ Append(s, m)[Len(s) + 1] = m
    BY AppendProperties
  <2>2. DOMAIN s = 1..Len(s) /\ DOMAIN Append(s, m) = 1..(Len(s) + 1) /\ Len(s) \in Nat
    BY <2>1, LenProperties
  <2> QED
    BY <1>1, <2>1, <2>2 DEF Routed
<1>2. ASSUME s # <<>> PROVE Routed(Tail(s), c) /\ Head(s).thread \in {None, c}
  <2>1. /\ Tail(s) \in Seq(Msg) /\ Len(Tail(s)) = Len(s) - 1
        /\ \A i \in 1..Len(Tail(s)) : Tail(s)[i] = s[i + 1]
        /\ Head(s) = s[1]
    BY <1>2, HeadTailProperties
  <2>2. DOMAIN s = 1..Len(s) /\ DOMAIN Tail(s) = 1..(Len(s) - 1) /\ Len(s) \in Nat \ {0}
    BY <1>2, <2>1, LenProperties, EmptySeq
  <2> QED
    BY <2>1, <2>2 DEF Routed
<1> QED
  BY <1>1, <1>2

\* A channel's messages are queued under its own keys.
LEMMA QueuedUnderOwnKey ==
  ASSUME TypeOK, NamesKept, NEW c \in Id, Live(c), NEW m \in Msg, m.thread \in {None, c}
  PROVE  DrainKey(c, m) \in KeysFor(c)
<1>1. byChannel[c].name = c
  BY DEF NamesKept
<1> QED
  BY <1>1 DEF DrainKey, KeysFor, Msg

\* Channels with keys of their own share none.
LEMMA KeysAreKeys ==
  ASSUME NEW c \in Id
  PROVE  /\ KeysFor(c) \subseteq Key
         /\ OwnKeys => \A d \in Id \ {c} : KeysFor(c) \cap KeysFor(d) = {}
<1>1. KeysFor(c) \subseteq Key
  BY IdAssumption, ThreadKeyAssumption DEF KeysFor
<1>2. ASSUME OwnKeys, NEW d \in Id \ {c} PROVE KeysFor(c) \cap KeysFor(d) = {}
  <2> SUFFICES ASSUME NEW k \in KeysFor(c), k \in KeysFor(d) PROVE FALSE
    OBVIOUS
  <2>1. CASE k = c
    <3>1. PICK s \in Subject : k = ThreadKey[d, s]
      BY <1>2, <2>1 DEF KeysFor
    <3> QED
      BY <1>2, <2>1, <3>1 DEF OwnKeys
  <2>2. CASE k # c
    <3>1. PICK s \in Subject : k = ThreadKey[c, s]
      BY <2>2 DEF KeysFor
    <3>2. k # d
      BY <1>2, <3>1 DEF OwnKeys
    <3>3. PICK t \in Subject : k = ThreadKey[d, t]
      BY <3>2 DEF KeysFor
    <3> QED
      BY <1>2, <3>1, <3>3 DEF OwnKeys
  <2> QED
    BY <2>1, <2>2
<1> QED
  BY <1>1, <1>2

\* A message that has just arrived comes after all that waits or runs.
LEMMA ArrivesYoungest ==
  ASSUME KeptInv, NEW t \in Key \cup {None}, NEW s \in Subject \cup {None}, arrived < MaxMsgs
  PROVE  /\ \A k \in Key : Younger(k, Arrive(t, s).n)
         /\ \A c \in Id : Below(pending[c], Arrive(t, s).n)
<1> DEFINE m == Arrive(t, s)
<1>1. \A n \in MsgNo : n \in owned => n < m.n
  BY ArrivesNew
<1> HIDE DEF m
<1>2. \A n \in MsgNo : Served(n) \/ Buffered(n) => n < m.n
  BY <1>1 DEF KeptInv
<1>3. ASSUME NEW k \in Key PROVE Younger(k, m.n)
  <2>1. \A n \in Numbers(queues[k]) : n \in MsgNo /\ Waits(n)
    BY NumbersType DEF KeptInv, TypeOK, Waits
  <2>2. \A w \in workers : Active(w) => w.msg.n \in MsgNo /\ Runs(w.msg.n)
    BY DEF KeptInv, TypeOK, Worker, Msg, Runs
  <2> QED
    BY <1>2, <2>1, <2>2 DEF Younger, Below, Served
<1>4. ASSUME NEW c \in Id PROVE Below(pending[c], m.n)
  <2>1. \A n \in Numbers(pending[c]) : n \in MsgNo /\ Buffered(n)
    BY NumbersType DEF KeptInv, TypeOK, Buffered
  <2> QED
    BY <1>2, <2>1 DEF Below
<1> QED
  BY <1>3, <1>4 DEF m

\* Numbers of messages are natural numbers.
LEMMA NumbersNat == ASSUME NEW s \in Seq(Msg) PROVE Numbers(s) \subseteq Nat
BY NumbersType, BoundAssumption DEF MsgNo

\* A step that drops buffers or agents, and keeps the order of the queues.
LEMMA QuietOrder ==
  ASSUME OrderInv, QueueOrder', \A l \in Key, n \in Nat : Younger(l, n) => Younger(l, n)',
         \A c \in Id : /\ pending'[c] \in {pending[c], <<>>}
                       /\ byChannel'[c] \in {byChannel[c], None}
                       /\ nameToChannel'[c] \in {nameToChannel[c], None},
         replay' = replay
  PROVE  NamesKept' /\ BufferOrder' /\ ReplayOrder'
<1>1. TypeOK /\ NamesKept /\ BufferOrder /\ ReplayOrder
  BY DEF OrderInv, KeptInv
<1>2. NamesKept'
  BY <1>1 DEF NamesKept, Live
<1>3. ASSUME NEW c \in Id
      PROVE  /\ Ascending(pending'[c]) /\ Routed(pending'[c], c)
             /\ pending'[c] # <<>> => ~Live(c)'
             /\ \A k \in KeysFor(c), n \in Numbers(pending'[c]) : Younger(k, n)'
  <2>1. CASE pending'[c] = <<>>
    BY <2>1, EmptyHolds, EmptySeq, LenProperties DEF Routed
  <2>2. CASE pending'[c] = pending[c]
    <3>1. \A n \in Numbers(pending[c]) : n \in Nat
      BY <1>1, NumbersNat DEF TypeOK
    <3>2. \A k \in KeysFor(c), n \in Numbers(pending[c]) : Younger(k, n)'
      BY <1>1, <3>1, KeysAreKeys DEF BufferOrder
    <3> QED
      BY <1>1, <2>2, <3>2 DEF BufferOrder, Live
  <2> QED
    BY <2>1, <2>2
<1>4. ReplayOrder'
  <2>1. CASE replay.msgs = <<>>
    BY <1>1, <2>1, EmptyHolds DEF ReplayOrder
  <2>2. CASE replay.msgs # <<>>
    <3>1. replay.channel \in Id /\ replay.msgs \in Seq(Msg)
      BY <1>1, <2>2 DEF TypeOK, Replaying
    <3>2. \A n \in Numbers(replay.msgs) : n \in Nat
      BY <3>1, NumbersNat
    <3> QED
      BY <1>1, <3>1, <3>2, KeysAreKeys DEF ReplayOrder
  <2> QED
    BY <2>1, <2>2
<1>5. BufferOrder'
  BY <1>3 DEF BufferOrder
<1> QED
  BY <1>2, <1>4, <1>5

\* What a step has to keep.
OrderGoal == NamesKept' /\ QueueOrder' /\ BufferOrder' /\ ReplayOrder'

\* The messages of a channel go to its queues in the order of their numbers,
\* which leaves what is buffered for other channels where it is.
LEMMA EnqueuedInOrder ==
  ASSUME OrderInv, OwnKeys, NEW c \in Id, Live(c), NEW m \in Msg, m.thread \in {None, c},
         Younger(DrainKey(c, m), m.n), Enqueue(c, m),
         pending' = pending, byChannel' = byChannel, nameToChannel' = nameToChannel
  PROVE  /\ NamesKept' /\ QueueOrder' /\ BufferOrder'
         /\ \A k \in Key, n \in Nat : Younger(k, n) /\ m.n < n => Younger(k, n)'
<1>1. TypeOK /\ NamesKept /\ QueueOrder /\ BufferOrder
  BY DEF OrderInv, KeptInv
<1>2. DrainKey(c, m) \in KeysFor(c)
  BY <1>1, QueuedUnderOwnKey
<1>3. /\ QueueOrder'
      /\ \A l \in Key, n \in Nat :
           Younger(l, n) /\ (l = DrainKey(c, m) => m.n < n) => Younger(l, n)'
  BY <1>1, EnqueueOrder
<1>4. NamesKept'
  BY <1>1 DEF NamesKept, Live
<1>5. ASSUME NEW d \in Id
      PROVE  /\ Ascending(pending[d]) /\ Routed(pending[d], d)
             /\ pending[d] # <<>> => ~Live(d)
             /\ \A k \in KeysFor(d), n \in Numbers(pending[d]) : Younger(k, n)'
  <2>1. /\ Ascending(pending[d]) /\ Routed(pending[d], d)
        /\ pending[d] # <<>> => ~Live(d)
    BY <1>1 DEF BufferOrder
  <2>2. pending[d] \in Seq(Msg)
    BY <1>1 DEF TypeOK
  <2>3. ASSUME NEW k \in KeysFor(d), NEW n \in Numbers(pending[d]) PROVE Younger(k, n)'
    <3>1. d # c
      BY <2>1, <2>2, <2>3, NumbersType
    <3>2. k \in Key /\ k # DrainKey(c, m)
      BY <1>2, <2>3, <3>1, KeysAreKeys
    <3>3. n \in Nat
      BY <2>2, <2>3, NumbersNat
    <3>4. Younger(k, n)
      BY <1>1, <2>3 DEF BufferOrder
    <3> QED
      BY <1>3, <3>2, <3>3, <3>4
  <2> QED
    BY <2>1, <2>3
<1>6. BufferOrder'
  BY <1>5 DEF BufferOrder, Live
<1> QED
  BY <1>3, <1>4, <1>6

\* A message of the transport.
LEMMA EmitInOrder ==
  ASSUME OrderInv, OwnKeys, NEW c \in Id, NEW t \in Id \cup {None}, NEW s \in Subject \cup {None},
         Emit(c, t, s)
  PROVE  OrderGoal
<1> DEFINE m == Arrive(t, s)
<1> USE DEF registry, calls
<1>1. KeptInv /\ TypeOK /\ NamesKept /\ QueueOrder /\ BufferOrder /\ ReplayOrder
  BY DEF OrderInv, KeptInv
<1>2. t \in Key \cup {None} /\ arrived < MaxMsgs /\ t \in {None, c} /\ m.thread = t
  BY IdAssumption DEF Emit, Arrive
<1>3. m \in Msg /\ (\A k \in Key : Younger(k, m.n)) /\ \A d \in Id : Below(pending[d], m.n)
  BY <1>1, <1>2, ArrivesNew, ArrivesYoungest
<1>4. replay' = replay /\ replay.msgs = <<>> /\ byChannel' = byChannel /\ nameToChannel' = nameToChannel
  BY DEF Emit, Quiet, Replaying
<1>5. ReplayOrder'
  BY <1>4, EmptyHolds, EmptySeq, LenProperties DEF ReplayOrder, Routed
<1> HIDE DEF m
<1>6. CASE Live(c) /\ Enqueue(c, m) /\ UNCHANGED pending
  <2>1. DrainKey(c, m) \in Key
    BY <1>1, <1>3, <1>6, DrainKeyType
  <2> QED
    BY <1>2, <1>3, <1>4, <1>5, <1>6, <2>1, EnqueuedInOrder DEF OrderGoal
<1>7. CASE ~Live(c) /\ BufferPending(c, m) /\ UNCHANGED <<queues, draining, workers>>
  <2> DEFINE q == Append(pending[c], m)
  <2>1. pending[c] \in Seq(Msg) /\ Ascending(pending[c]) /\ Routed(pending[c], c)
        /\ \A k \in KeysFor(c), n \in Numbers(pending[c]) : Younger(k, n)
    BY <1>1 DEF TypeOK, BufferOrder
  <2>2. q \in Seq(Msg) /\ q # <<>> /\ Ascending(q) /\ Routed(q, c)
        /\ Numbers(q) = Numbers(pending[c]) \cup {m.n}
    <3>1. q \in Seq(Msg) /\ q # <<>>
      BY <1>3, <2>1, AppendProperties
    <3>2. Ascending(q) /\ Numbers(q) = Numbers(pending[c]) \cup {m.n}
      BY <1>3, <2>1, AppendedNumbers
    <3>3. Routed(q, c)
      BY <1>2, <1>3, <2>1, RoutedKept DEF m
    <3> QED
      BY <3>1, <3>2, <3>3
  <2>3. \A k \in KeysFor(c), n \in Numbers(q) : Younger(k, n)
    BY <1>3, <2>1, <2>2, KeysAreKeys
  <2> HIDE DEF q
  <2>4. Ascending(Tail(q)) /\ Routed(Tail(q), c) /\ Numbers(Tail(q)) \subseteq Numbers(q)
    BY <2>2, TailNumbers, RoutedKept
  <2>5. pending'[c] \in {q, Tail(q)} /\ \A d \in Id \ {c} : pending'[d] = pending[d]
    BY <1>1, <1>7 DEF BufferPending, TypeOK, q
  <2>6. QueueOrder' /\ \A k, n : Younger(k, n)' <=> Younger(k, n)
    BY <1>1, <1>7 DEF QueueOrder, Younger
  <2>7. ASSUME NEW d \in Id
        PROVE  /\ Ascending(pending'[d]) /\ Routed(pending'[d], d)
               /\ pending'[d] # <<>> => ~Live(d)
               /\ \A k \in KeysFor(d), n \in Numbers(pending'[d]) : Younger(k, n)
    <3>1. CASE d = c
      BY <1>7, <2>2, <2>3, <2>4, <2>5, <3>1
    <3>2. CASE d # c
      BY <1>1, <2>5, <3>2 DEF BufferOrder
    <3> QED
      BY <3>1, <3>2
  <2>8. BufferOrder'
    BY <1>4, <2>6, <2>7 DEF BufferOrder, Live
  <2>9. NamesKept'
    BY <1>1, <1>4 DEF NamesKept, Live
  <2> QED
    BY <1>5, <2>6, <2>8, <2>9 DEF OrderGoal
<1>8. CASE UNCHANGED <<pending, queues, draining, workers, owned>>
  BY <1>1, <1>4, <1>5, <1>8
  DEF OrderGoal, NamesKept, BufferOrder, QueueOrder, Younger, Live
<1> QED
  BY <1>6, <1>7, <1>8 DEF Emit, m

\* A channel is cleared.
LEMMA ClearInOrder ==
  ASSUME OrderInv, NEW c \in Id, ClearChannel(c), workers' = workers, replay' = replay,
         \A d \in Id : byChannel'[d] \in {byChannel[d], None}
                       /\ nameToChannel'[d] \in {nameToChannel[d], None}
  PROVE  OrderGoal
<1>1. TypeOK /\ QueueOrder
  BY DEF OrderInv, KeptInv
<1>2. \A k \in Key : queues'[k] \in {queues[k], <<>>}
  BY DEF ClearChannel
<1>3. \A d \in Id : pending'[d] \in {pending[d], <<>>}
  BY <1>1 DEF ClearChannel, TypeOK
<1>4. QueueOrder' /\ \A l \in Key, n \in Nat : Younger(l, n) => Younger(l, n)'
  BY <1>1, <1>2, ShrinkOrder
<1> QED
  BY <1>3, <1>4, QuietOrder DEF OrderGoal

\* Every step keeps the order.
LEMMA NextOrder ==
  ASSUME OwnNames, OwnKeys, ~ThreadsWired
  PROVE  OrderInv /\ [Next]_vars => OrderInv'
<1> SUFFICES ASSUME OrderInv, [Next]_vars PROVE OrderGoal
  BY NextKeptInv DEF OrderInv, OrderGoal
<1> USE DEF registry, calls
<1>0. KeptInv /\ TypeOK /\ NamesKept /\ QueueOrder /\ BufferOrder /\ ReplayOrder
  BY DEF OrderInv, KeptInv
<1>1. ASSUME QueueOrder', \A l \in Key, n \in Nat : Younger(l, n) => Younger(l, n)',
             UNCHANGED <<pending, byChannel, nameToChannel, replay>>
      PROVE  OrderGoal
  BY <1>1, QuietOrder DEF OrderGoal
<1>2. ASSUME UNCHANGED <<queues, workers, pending, byChannel, nameToChannel, replay>>
      PROVE  OrderGoal
  <2>1. QueueOrder' /\ \A l \in Key, n \in Nat : Younger(l, n) => Younger(l, n)'
    BY <1>0, <1>2 DEF QueueOrder, Younger
  <2> QED
    BY <1>1, <1>2, <2>1
<1>3. ASSUME NEW c \in Id, NEW t \in Id \cup {None}, NEW s \in Subject \cup {None}, Emit(c, t, s)
      PROVE  OrderGoal
  BY <1>3, EmitInOrder
<1>4. ASSUME NEW t \in Id, NEW s \in Subject \cup {None}, ThreadInbound(t, s) PROVE OrderGoal
  BY <1>4 DEF ThreadInbound
<1>5. ASSUME NEW spec \in AgentSpec, Register(spec) PROVE OrderGoal
  <2>1. nameToChannel[spec.name] \in {None, spec.channel}
    BY <1>0, SpecAssumption DEF NamesKept, OwnNames
  <2> QED
    BY <1>2, <1>5, <2>1 DEF Register
<1>6. ASSUME NEW spec \in AgentSpec, Registered(spec) PROVE OrderGoal
  <2> DEFINE c == spec.channel
  <2>1. c \in Id /\ spec.name = c /\ spec # None
    BY SpecAssumption DEF OwnNames
  <2>2. /\ pending'[c] = <<>> /\ \A d \in Id \ {c} : pending'[d] = pending[d]
        /\ byChannel'[c] = spec /\ \A d \in Id \ {c} : byChannel'[d] = byChannel[d]
        /\ nameToChannel'[c] = c /\ \A d \in Id \ {c} : nameToChannel'[d] = nameToChannel[d]
        /\ replay' = [channel |-> c, msgs |-> pending[c]]
        /\ UNCHANGED <<queues, workers>>
    BY <1>0, <1>6, <2>1 DEF Registered, TypeOK
  <2> HIDE DEF c
  <2>3. QueueOrder' /\ \A k, n : Younger(k, n)' <=> Younger(k, n)
    BY <1>0, <2>2 DEF QueueOrder, Younger
  <2>4. NamesKept'
    BY <1>0, <2>1, <2>2 DEF NamesKept, Live
  <2>5. ReplayOrder'
    BY <1>0, <2>1, <2>2, <2>3 DEF ReplayOrder, BufferOrder
  <2>6. ASSUME NEW d \in Id
        PROVE  /\ Ascending(pending'[d]) /\ Routed(pending'[d], d)
               /\ pending'[d] # <<>> => ~Live(d)'
               /\ \A k \in KeysFor(d), n \in Numbers(pending'[d]) : Younger(k, n)
    <3>1. CASE d = c
      BY <2>2, <3>1, EmptyHolds, EmptySeq, LenProperties DEF Routed
    <3>2. CASE d # c
      BY <1>0, <2>2, <3>2 DEF BufferOrder, Live
    <3> QED
      BY <3>1, <3>2
  <2>7. BufferOrder'
    BY <2>3, <2>6 DEF BufferOrder
  <2> QED
    BY <2>3, <2>4, <2>5, <2>7 DEF OrderGoal
<1>7. CASE Replay
  <2> DEFINE c == replay.channel
             m == Head(replay.msgs)
  <2>1. replay.msgs \in Seq(Msg) /\ replay.msgs # <<>> /\ c \in Id /\ Live(c)
    BY <1>0, <1>7 DEF Replay, Replaying, TypeOK
  <2>2. /\ m \in Msg /\ m.n \in Numbers(replay.msgs) /\ m.thread \in {None, c}
        /\ Numbers(Tail(replay.msgs)) \subseteq Numbers(replay.msgs)
        /\ Ascending(Tail(replay.msgs)) /\ Routed(Tail(replay.msgs), c)
        /\ \A n \in Numbers(Tail(replay.msgs)) : m.n < n
    BY <1>0, <2>1, TailNumbers, RoutedKept DEF ReplayOrder
  <2>3. /\ Enqueue(c, m) /\ replay'.msgs = Tail(replay.msgs) /\ replay'.channel = c
        /\ UNCHANGED <<pending, byChannel, nameToChannel>>
    BY <1>0, <1>7 DEF Replay, TypeOK
  <2> HIDE DEF c, m
  <2>4. Younger(DrainKey(c, m), m.n)
    BY <1>0, <2>1, <2>2, QueuedUnderOwnKey DEF ReplayOrder, c
  <2>5. /\ NamesKept' /\ QueueOrder' /\ BufferOrder'
        /\ \A k \in Key, n \in Nat : Younger(k, n) /\ m.n < n => Younger(k, n)'
    BY <2>1, <2>2, <2>3, <2>4, EnqueuedInOrder
  <2>6. ASSUME NEW k \in KeysFor(c), NEW n \in Numbers(Tail(replay.msgs)) PROVE Younger(k, n)'
    <3>1. k \in Key /\ n \in Nat /\ m.n < n /\ n \in Numbers(replay.msgs)
      BY <2>1, <2>2, <2>6, KeysAreKeys, NumbersNat
    <3>2. Younger(k, n)
      BY <1>0, <2>6, <3>1 DEF ReplayOrder, c
    <3> QED
      BY <2>5, <3>1, <3>2
  <2>7. ReplayOrder'
    BY <2>2, <2>3, <2>6 DEF ReplayOrder
  <2> QED
    BY <2>5, <2>7 DEF OrderGoal
<1>8. ASSUME NEW i \in Id, Deregister(i) PROVE OrderGoal
  <2>1. nameToChannel[i] \in Id
    BY <1>0, <1>8 DEF Deregister, TypeOK
  <2>2. \A d \in Id : byChannel'[d] \in {byChannel[d], None} /\ nameToChannel'[d] \in {nameToChannel[d], None}
    BY <1>0, <1>8, <2>1 DEF Deregister, TypeOK
  <2> QED
    BY <1>8, <2>1, <2>2, ClearInOrder DEF Deregister
<1>9. ASSUME NEW c \in Id, Unexpect(c) PROVE OrderGoal
  <2>1. \A d \in Id : pending'[d] \in {pending[d], <<>>}
    BY <1>0, <1>9 DEF Unexpect, TypeOK
  <2>2. UNCHANGED <<queues, workers, byChannel, nameToChannel, replay>>
    BY <1>9 DEF Unexpect
  <2>3. QueueOrder' /\ \A l \in Key, n \in Nat : Younger(l, n) => Younger(l, n)'
    BY <1>0, <2>2 DEF QueueOrder, Younger
  <2> QED
    BY <2>1, <2>2, <2>3, QuietOrder DEF OrderGoal
<1>10. ASSUME NEW c \in Id, ExpectChannel(c) PROVE OrderGoal
  BY <1>2, <1>10 DEF ExpectChannel
<1>11. ASSUME NEW t \in Id, ArchiveThread(t) PROVE OrderGoal
  BY <1>11, ClearInOrder DEF ArchiveThread
<1>12. ASSUME NEW w \in workers, WorkerStep(w) PROVE OrderGoal
  <2>1. w \in Worker
    BY <1>0 DEF TypeOK
  <2>2. ASSUME NEW a \in {"running", "settling"}, Active(w), Become(w, [w EXCEPT !.at = a]),
               UNCHANGED <<queues, pending, byChannel, nameToChannel, replay>>
        PROVE  OrderGoal
    <3>1. [w EXCEPT !.at = a].msg = w.msg /\ [w EXCEPT !.at = a].key = w.key
      BY <2>1 DEF Worker
    <3>2. QueueOrder' /\ \A l \in Key, n \in Nat : Younger(l, n) => Younger(l, n)'
      BY <1>0, <2>2, <3>1, ShrinkOrder DEF Become
    <3> QED
      BY <1>1, <2>2, <3>2
  <2>3. CASE SessionRead(w) \/ SessionReadThrows(w)
    BY <2>2, <2>3 DEF SessionRead, SessionReadThrows, Active
  <2>4. CASE EndTurn(w)
    BY <1>0, <1>1, <2>4, EndTurnOrder DEF EndTurn
  <2>5. CASE Settle(w)
    <3>1. QueueOrder' /\ \A l \in Key, n \in Nat : Younger(l, n) => Younger(l, n)'
      BY <1>0, <2>5, ShrinkOrder DEF Settle
    <3> QED
      BY <1>1, <2>5, <3>1 DEF Settle
  <2> QED
    BY <1>12, <2>3, <2>4, <2>5 DEF WorkerStep
<1>13. CASE UNCHANGED vars
  BY <1>2, <1>13 DEF vars
<1> QED
  BY <1>3, <1>4, <1>5, <1>6, <1>7, <1>8, <1>9, <1>10, <1>11, <1>12, <1>13 DEF Next

\* Nothing is out of order at first.
LEMMA InitOrder == Init => OrderInv
<1> SUFFICES ASSUME Init PROVE OrderInv
  OBVIOUS
<1>1. KeptInv
  BY InitKept
<1>2. /\ \A c \in Id : pending[c] = <<>> /\ ~Live(c) /\ nameToChannel[c] = None
      /\ \A k \in Key : queues[k] = <<>>
      /\ replay.msgs = <<>> /\ workers = {}
  BY DEF Init, Live
<1>3. \A c : Routed(<<>>, c)
  BY EmptySeq, LenProperties DEF Routed
<1> QED
  BY <1>1, <1>2, <1>3, EmptyHolds
  DEF OrderInv, NamesKept, QueueOrder, BufferOrder, ReplayOrder

\* What the invariant says of the order.
LEMMA OrderKeeps == OrderInv => KeptInOrder
<1>1. OrderInv => InOrder
  <2> SUFFICES ASSUME OrderInv PROVE InOrder
    OBVIOUS
  <2>1. TypeOK /\ NamesKept /\ QueueOrder /\ BufferOrder /\ ReplayOrder
    BY DEF OrderInv, KeptInv
  <2>2. ASSUME NEW i \in DOMAIN replay.msgs
        PROVE  LET m == replay.msgs[i]
                   k == DrainKey(replay.channel, m)
               IN  /\ \A j \in DOMAIN queues[k] : queues[k][j].n < m.n
                   /\ \A w \in workers : Active(w) /\ w.key = k => w.msg.n < m.n
    <3> DEFINE m == replay.msgs[i]
               k == DrainKey(replay.channel, m)
    <3>1. replay.msgs # <<>> /\ replay.msgs \in Seq(Msg)
      BY <2>1, <2>2, EmptySeq, LenProperties DEF TypeOK
    <3>2. replay.channel \in Id /\ Live(replay.channel)
      BY <2>1, <3>1 DEF TypeOK, Replaying
    <3>3. m \in Msg /\ m.n \in Numbers(replay.msgs) /\ m.thread \in {None, replay.channel}
      BY <2>1, <2>2, <3>1, NumbersType DEF ReplayOrder, Routed
    <3>4. k \in KeysFor(replay.channel)
      BY <2>1, <3>2, <3>3, QueuedUnderOwnKey
    <3>5. Younger(k, m.n)
      BY <2>1, <3>3, <3>4 DEF ReplayOrder
    <3> QED
      BY <3>5 DEF Younger, Below, Numbers
  <2> QED
    BY <2>1, <2>2 DEF InOrder, QueueOrder, BufferOrder, Numbers
<1>2. OrderInv => BufferedOnlyWhenDown
  BY DEF OrderInv, BufferOrder, BufferedOnlyWhenDown
<1> QED
  BY <1>1, <1>2 DEF KeptInOrder

\* Messages take their turns in the order of arrival, and wait in a buffer only
\* while their channel has no agent.
THEOREM InArrivalOrder ==
  ASSUME OwnNames, OwnKeys, ~ThreadsWired
  PROVE  Spec => []KeptInOrder
BY OrderKeeps, InitOrder, NextOrder, PTL DEF Spec

(***************************************************************************)
(* The registry implements the serial mailboxes.  In the calm environment  *)
(* a key without a drain has nothing waiting, a teardown meets idle keys   *)
(* only, and while a drain settles nothing else moves.                     *)
(***************************************************************************)
\* The keys that a teardown of channel c clears, when its agent has its name.
KeysUnder(c) == {c} \cup {k \in Key : <<c, k>> \in Prefixed}

\* The agent of a running turn's channel is live, and its teardown would clear
\* the turn's key.
ServesLive ==
  \A w \in workers : Active(w) => Live(w.channel) /\ w.key \in KeysUnder(w.channel)

\* Nothing waits under a key without a drain.
IdleIsEmpty == \A k \in Key : draining[k] = None => queues[k] = <<>>

\* While a drain settles no registration, teardown or replay is under way, and
\* nothing waits under its key.
SettlesAlone ==
  \A w \in workers : ~Active(w) =>
    starting = {} /\ stopping = {} /\ ~Replaying /\ queues[w.key] = <<>>

\* Agents, threads, buffers and the replay loop keep to one name each.
RoutesOwn ==
  /\ \A c \in Id : (Live(c) => byChannel[c].name = c) /\ byThread[c] \in {None, c}
  /\ \A c \in Id : Routed(pending[c], c)
  /\ Routed(replay.msgs, replay.channel)

MailInv == CalmInv /\ ServesLive /\ IdleIsEmpty /\ SettlesAlone /\ RoutesOwn

\* The keys that a teardown clears are those of the channel's name.
LEMMA KeysUnderOf ==
  ASSUME RoutesOwn, NEW c \in Id
  PROVE  KeysOf(c) = KeysUnder(c) /\ KeysUnder(c) \subseteq Key
BY IdAssumption DEF KeysOf, KeysUnder, RoutesOwn

\* A message of a channel, or of the thread of its name, has a key of its agent.
LEMMA QueuedUnderKeyOf ==
  ASSUME RoutesOwn, NEW c \in Id, Live(c), NEW m \in Msg, m.thread \in {None, c}
  PROVE  DrainKey(c, m) \in KeysUnder(c)
<1>1. byChannel[c].name = c
  BY DEF RoutesOwn
<1>2. CASE m.thread = c \/ ~(byChannel[c].multi /\ m.subject # None)
  BY <1>2, IdAssumption DEF DrainKey, KeysUnder
<1>3. CASE m.thread = None /\ byChannel[c].multi /\ m.subject # None
  <2>1. m.subject \in Subject
    BY <1>3 DEF Msg
  <2>2. <<c, ThreadKey[c, m.subject]>> \in Prefixed /\ ThreadKey[c, m.subject] \in Key
    BY <2>1, PrefixedAssumption, ThreadKeyAssumption
  <2>3. DrainKey(c, m) = ThreadKey[c, m.subject]
    BY <1>1, <1>3 DEF DrainKey
  <2> QED
    BY <1>1, <2>2, <2>3 DEF KeysUnder
<1> QED
  BY <1>2, <1>3

\* The running message of a key is that of its one active drain.
RunsAt(k) == \E w \in workers : Active(w) /\ w.key = k

RunningOfDrain ==
  /\ \A w \in workers : Active(w) => RunningMsg[w.key] = w.msg /\ w.key \in Key /\ w.msg # None
  /\ \A k \in Key : ~RunsAt(k) => RunningMsg[k] = None
  /\ DOMAIN RunningMsg = Key /\ RunningMsg = [k \in Key |-> RunningMsg[k]]

\* In the calm environment a key has one drain at most.
LEMMA RunningIs == CalmInv => RunningOfDrain
<1> SUFFICES ASSUME CalmInv PROVE RunningOfDrain
  OBVIOUS
<1>1. ASSUME NEW w \in workers, Active(w)
      PROVE  RunningMsg[w.key] = w.msg /\ w.key \in Key /\ w.msg # None
  <2>1. w.key \in Key /\ w.msg # None
    BY NoneAssumption DEF CalmInv, LockInv, TypeOK, Worker
  <2>2. \A v \in workers : v.key = w.key => v = w
    BY DEF CalmInv, LockInv, UniqueIds, HoldsItsLock
  <2>3. (CHOOSE v \in workers : Active(v) /\ v.key = w.key) = w
    BY <1>1, <2>2
  <2> QED
    BY <1>1, <2>1, <2>3 DEF RunningMsg
<1>2. ASSUME NEW k \in Key, ~RunsAt(k) PROVE RunningMsg[k] = None
  BY <1>2 DEF RunningMsg, RunsAt
<1>3. DOMAIN RunningMsg = Key /\ RunningMsg = [k \in Key |-> RunningMsg[k]]
  BY DEF RunningMsg
<1> QED
  BY <1>1, <1>2, <1>3 DEF RunningOfDrain

\* Two states in which the same messages run, but for one key.
LEMMA RunningChanges ==
  ASSUME CalmInv, CalmInv', NEW k \in Key,
         \A w \in workers : Active(w) /\ w.key # k =>
            \E v \in workers' : Active(v) /\ v.key = w.key /\ v.msg = w.msg,
         \A w \in workers' : Active(w) /\ w.key # k =>
            \E v \in workers : Active(v) /\ v.key = w.key /\ v.msg = w.msg
  PROVE  /\ RunningMsg' = [RunningMsg EXCEPT ![k] = RunningMsg'[k]]
         /\ \A w \in workers' : Active(w) /\ w.key = k => RunningMsg'[k] = w.msg
         /\ (\A w \in workers' : Active(w) => w.key # k) => RunningMsg'[k] = None
         /\ \A w \in workers : Active(w) /\ w.key = k => RunningMsg[k] = w.msg /\ RunningMsg[k] # None
         /\ ~RunsAt(k) => RunningMsg[k] = None
<1>1. RunningOfDrain
  BY RunningIs
<1>2. RunningOfDrain'
  BY RunningIs, PTL
<1>3. ASSUME NEW l \in Key, l # k PROVE RunningMsg'[l] = RunningMsg[l]
  <2>1. CASE RunsAt(l)
    <3>1. PICK w \in workers : Active(w) /\ w.key = l
      BY <2>1 DEF RunsAt
    <3>2. PICK v \in workers' : Active(v) /\ v.key = l /\ v.msg = w.msg
      BY <1>3, <3>1
    <3> QED
      BY <1>1, <1>2, <3>1, <3>2 DEF RunningOfDrain
  <2>2. CASE ~RunsAt(l)
    <3>1. ~RunsAt(l)'
      BY <1>3, <2>2 DEF RunsAt
    <3> QED
      BY <1>1, <1>2, <2>2, <3>1 DEF RunningOfDrain
  <2> QED
    BY <2>1, <2>2
<1>4. RunningMsg' = [RunningMsg EXCEPT ![k] = RunningMsg'[k]]
  <2>1. RunningMsg' = [l \in Key |-> RunningMsg'[l]] /\ RunningMsg = [l \in Key |-> RunningMsg[l]]
    BY <1>1, <1>2 DEF RunningOfDrain
  <2> QED
    BY <1>3, <2>1
<1>5. (\A w \in workers' : Active(w) => w.key # k) => RunningMsg'[k] = None
  BY <1>2 DEF RunningOfDrain, RunsAt
<1> QED
  BY <1>1, <1>2, <1>4, <1>5 DEF RunningOfDrain

\* Every drain is in a turn.
AllActive == \A w \in workers : Active(w)

\* What enqueueing does when no key is idle with messages waiting: the message
\* runs at once under an idle key, or waits.
LEMMA EnqueueMail ==
  ASSUME MailInv, AllActive, NEW c \in Id, Live(c), NEW m \in Msg, m.thread \in {None, c},
         Enqueue(c, m), byChannel' = byChannel
  PROVE  /\ ServesLive' /\ IdleIsEmpty' /\ AllActive'
         /\ \E k \in Key :
              \/ /\ draining[k] = None /\ queues' = queues
                 /\ \E w \in Worker : Active(w) /\ w.key = k /\ w.msg = m
                                      /\ workers' = workers \cup {w}
              \/ /\ draining[k] # None /\ workers' = workers
                 /\ queues' = [queues EXCEPT ![k] = Append(@, m)]
<1> DEFINE k == DrainKey(c, m)
           q == Append(queues[k], m)
<1>1. TypeOK /\ ServesLive /\ IdleIsEmpty /\ RoutesOwn
  BY DEF MailInv, CalmInv, LockInv
<1>2. k \in KeysUnder(c) /\ k \in Key
  BY <1>1, QueuedUnderKeyOf, KeysUnderOf
<1>3. queues[k] \in Seq(Msg) /\ queues = [l \in Key |-> queues[l]]
  BY <1>1, <1>2 DEF TypeOK
<1> HIDE DEF k, q
<1>4. CASE StartDrain(k, c, q)
  <2> DEFINE id == CHOOSE d \in Unused : TRUE
             w == Turn(id, k, c, Head(q))
  <2>1. queues[k] = <<>> /\ draining[k] = None
    BY <1>1, <1>2, <1>4 DEF StartDrain, IdleIsEmpty
  <2>2. Head(q) = m /\ Tail(q) = <<>>
    BY <1>3, <2>1, HeadTailAppend DEF q
  <2>3. id \in DrainId
    BY <1>4, UnusedId DEF StartDrain
  <2>4. /\ workers' = workers \cup {w} /\ draining' = [draining EXCEPT ![k] = id]
        /\ queues' = [queues EXCEPT ![k] = Tail(q)]
    BY <1>4 DEF StartDrain
  <2> HIDE DEF id
  <2>5. w \in Worker /\ w.msg = m /\ Active(w) /\ w.key = k /\ w.channel = c
    BY <1>1, <1>2, <2>2, <2>3, TurnType, TurnIsActive
  <2> HIDE DEF w
  <2>6. queues' = queues
    BY <1>2, <1>3, <2>1, <2>2, <2>4
  <2>7. ServesLive' /\ AllActive'
    BY <1>1, <1>2, <2>4, <2>5 DEF ServesLive, AllActive, Live
  <2>8. IdleIsEmpty'
    BY <1>1, <1>2, <2>1, <2>4, <2>6 DEF IdleIsEmpty, TypeOK
  <2> QED
    BY <1>2, <2>1, <2>4, <2>5, <2>6, <2>7, <2>8
<1>5. CASE JoinDrain(k, q)
  <2>1. /\ draining[k] # None /\ workers' = workers /\ draining' = draining
        /\ queues' = [queues EXCEPT ![k] = Append(@, m)]
    BY <1>5 DEF JoinDrain, q
  <2>2. ServesLive' /\ AllActive'
    BY <1>1, <2>1 DEF ServesLive, AllActive, Live
  <2>3. \A l \in Key \ {k} : queues'[l] = queues[l]
    BY <1>3, <2>1
  <2>4. IdleIsEmpty'
    BY <1>1, <2>1, <2>3 DEF IdleIsEmpty
  <2> QED
    BY <1>2, <2>1, <2>2, <2>4
<1> QED
  BY <1>4, <1>5 DEF Enqueue, k, q

\* A channel is cleared only when none of its keys has a drain, and then
\* nothing waits under them.
LEMMA ClearMail ==
  ASSUME MailInv, NEW c \in Id, ClearChannel(c), workers' = workers, LockReleasedByHolder
  PROVE  /\ queues' = queues /\ draining' = draining
         /\ \A w \in workers : w.key \notin KeysUnder(c)
<1>1. TypeOK /\ HoldsItsLock /\ IdleIsEmpty /\ RoutesOwn
  BY DEF MailInv, CalmInv, LockInv
<1>2. /\ queues' = [k \in Key |-> IF k \in KeysUnder(c) THEN <<>> ELSE queues[k]]
      /\ draining' = [k \in Key |-> IF k \in KeysUnder(c) THEN None ELSE draining[k]]
      /\ KeysUnder(c) \subseteq Key
  BY <1>1, KeysUnderOf DEF ClearChannel
<1>3. \A k \in KeysUnder(c) : draining[k] = None
  BY <1>2 DEF LockReleasedByHolder
<1>4. \A k \in KeysUnder(c) : queues[k] = <<>>
  BY <1>1, <1>2, <1>3 DEF IdleIsEmpty
<1>5. queues' = queues /\ draining' = draining
  BY <1>1, <1>2, <1>3, <1>4 DEF TypeOK
<1>6. \A w \in workers : w.key \notin KeysUnder(c)
  BY <1>1, <1>3, DrainIdAssumption DEF HoldsItsLock, TypeOK, Worker
<1> QED
  BY <1>5, <1>6

\* The message of a turn is replaced by the head of the queue of its key, or the
\* queue is empty and the drain settles.
LEMMA EndTurnMail ==
  ASSUME MailInv, AllActive, NEW w \in workers, EndTurn(w)
  PROVE  /\ ServesLive' /\ IdleIsEmpty'
         /\ \/ \E v \in Worker :
                 /\ Active(v) /\ v.key = w.key /\ v.msg = Head(queues[w.key])
                 /\ queues[w.key] # <<>> /\ workers' = (workers \ {w}) \cup {v}
                 /\ queues' = [queues EXCEPT ![w.key] = Tail(@)]
            \/ /\ queues[w.key] = <<>> /\ queues' = queues
               /\ \E v \in Worker : ~Active(v) /\ v.key = w.key /\ workers' = (workers \ {w}) \cup {v}
<1> DEFINE k == w.key
           q == queues[k]
<1>1. TypeOK /\ ServesLive /\ IdleIsEmpty /\ HoldsItsLock
  BY DEF MailInv, CalmInv, LockInv
<1>2. w \in Worker /\ k \in Key /\ w.channel \in Id /\ w.id \in DrainId
  BY <1>1 DEF TypeOK, Worker
<1>3. /\ q \in Seq(Msg) /\ draining[k] # None /\ Live(w.channel) /\ k \in KeysUnder(w.channel)
      /\ draining' = draining /\ byChannel' = byChannel
  BY <1>1, <1>2, DrainIdAssumption DEF TypeOK, HoldsItsLock, ServesLive, AllActive, EndTurn, registry
<1> HIDE DEF k, q
<1>4. ASSUME q # <<>>, Become(w, Turn(w.id, k, w.channel, Head(q))),
             queues' = [queues EXCEPT ![k] = Tail(q)]
      PROVE  /\ ServesLive' /\ IdleIsEmpty'
             /\ \E v \in Worker :
                 /\ Active(v) /\ v.key = k /\ v.msg = Head(q)
                 /\ workers' = (workers \ {w}) \cup {v}
  <2> DEFINE v == Turn(w.id, k, w.channel, Head(q))
  <2>1. Head(q) \in Msg
    BY <1>3, <1>4, HeadTailProperties
  <2>2. v \in Worker /\ v.msg = Head(q) /\ Active(v) /\ v.key = k /\ v.channel = w.channel
    BY <1>1, <1>2, <1>3, <2>1, TurnType, TurnIsActive
  <2>3. workers' = (workers \ {w}) \cup {v}
    BY <1>4 DEF Become
  <2> HIDE DEF v
  <2>4. ServesLive'
    BY <1>1, <1>3, <2>2, <2>3 DEF ServesLive, Live
  <2>5. \A l \in Key \ {k} : queues'[l] = queues[l]
    BY <1>1, <1>4 DEF TypeOK
  <2>6. IdleIsEmpty'
    BY <1>1, <1>3, <2>5 DEF IdleIsEmpty
  <2> QED
    BY <2>2, <2>3, <2>4, <2>6
<1>5. ASSUME q = <<>>, Become(w, [w EXCEPT !.at = "settling"]), queues' = queues
      PROVE  /\ ServesLive' /\ IdleIsEmpty'
             /\ \E v \in Worker : ~Active(v) /\ v.key = k /\ workers' = (workers \ {w}) \cup {v}
  <2> DEFINE v == [w EXCEPT !.at = "settling"]
  <2>1. v \in Worker /\ ~Active(v) /\ v.key = k
    BY <1>2 DEF Worker, Active, k
  <2>2. workers' = (workers \ {w}) \cup {v}
    BY <1>5 DEF Become
  <2> HIDE DEF v
  <2>3. ServesLive' /\ IdleIsEmpty'
    BY <1>1, <1>3, <1>5, <2>1, <2>2 DEF ServesLive, IdleIsEmpty, Live
  <2> QED
    BY <2>1, <2>2, <2>3
<1>6. \/ q # <<>> /\ Become(w, Turn(w.id, k, w.channel, Head(q))) /\ queues' = [queues EXCEPT ![k] = Tail(q)]
      \/ q = <<>> /\ Become(w, [w EXCEPT !.at = "settling"]) /\ queues' = queues
  BY <1>3 DEF EndTurn, k, q
<1> QED
  BY <1>4, <1>5, <1>6 DEF k, q

\* Without microtask races an event finds every drain in a turn.
LEMMA QuietMeans ==
  ASSUME ~MicrotaskRaces, Quiet
  PROVE  AllActive /\ starting = {} /\ stopping = {} /\ replay.msgs = <<>>
BY DEF Quiet, NoContinuation, Replaying, AllActive

\* Nothing is routed anywhere.
LEMMA EmptyRouted == \A c : Routed(<<>>, c)
BY EmptySeq, LenProperties DEF Routed

\* Buffers, threads and the replay loop stay with their channel.
LEMMA NextRoutesOwn ==
  ASSUME OwnNames
  PROVE  TypeOK /\ RoutesOwn /\ [Next]_vars => RoutesOwn'
<1> SUFFICES ASSUME TypeOK, RoutesOwn, [Next]_vars PROVE RoutesOwn'
  OBVIOUS
<1> USE DEF registry, calls
<1>1. ASSUME \A c \in Id : /\ byChannel'[c] \in {byChannel[c], None}
                           /\ byThread'[c] \in {byThread[c], None}
                           /\ pending'[c] \in {pending[c], <<>>},
             replay' = replay
      PROVE  RoutesOwn'
  BY <1>1, EmptyRouted DEF RoutesOwn, Live
<1>2. ASSUME NEW c \in Id, NEW m \in Msg, BufferPending(c, m), m.thread \in {None, c},
             UNCHANGED <<byChannel, byThread, replay>>
      PROVE  RoutesOwn'
  <2>1. pending[c] \in Seq(Msg) /\ Routed(pending[c], c)
    BY DEF TypeOK, RoutesOwn
  <2>2. Append(pending[c], m) \in Seq(Msg) /\ Append(pending[c], m) # <<>>
        /\ Routed(Append(pending[c], m), c)
    <3>1. Append(pending[c], m) \in Seq(Msg) /\ Append(pending[c], m) # <<>>
      BY <2>1, AppendProperties
    <3>2. Routed(Append(pending[c], m), c)
      BY <1>2, <2>1, RoutedKept
    <3> QED
      BY <3>1, <3>2
  <2>3. Routed(Tail(Append(pending[c], m)), c)
    BY <2>2, RoutedKept
  <2>4. pending'[c] \in {Append(pending[c], m), Tail(Append(pending[c], m))}
        /\ \A d \in Id \ {c} : pending'[d] = pending[d]
    BY <1>2 DEF BufferPending, TypeOK
  <2>5. \A d \in Id : Routed(pending'[d], d)
    BY <2>2, <2>3, <2>4 DEF RoutesOwn
  <2> QED
    BY <1>2, <2>5 DEF RoutesOwn, Live
<1>3. ASSUME NEW c \in Id, NEW t \in Id \cup {None}, NEW s \in Subject \cup {None}, Emit(c, t, s)
      PROVE  RoutesOwn'
  <2> DEFINE m == Arrive(t, s)
  <2>1. m \in Msg /\ m.thread \in {None, c}
    BY <1>3, ArriveType, IdAssumption DEF Emit, Arrive
  <2>2. UNCHANGED <<byChannel, byThread, replay>>
    BY <1>3 DEF Emit
  <2> HIDE DEF m
  <2> QED
    BY <1>1, <1>2, <1>3, <2>1, <2>2 DEF Emit, m
<1>4. ASSUME NEW t \in Id, NEW s \in Subject \cup {None}, ThreadInbound(t, s) PROVE RoutesOwn'
  <2> DEFINE m == Arrive(t, s)
  <2>1. m \in Msg /\ m.thread = t
    BY <1>4, ArriveType, IdAssumption DEF ThreadInbound, Arrive
  <2>2. UNCHANGED <<byChannel, byThread, replay>>
    BY <1>4 DEF ThreadInbound
  <2> HIDE DEF m
  <2> QED
    BY <1>1, <1>2, <1>4, <2>1, <2>2 DEF ThreadInbound, m
<1>5. ASSUME NEW spec \in AgentSpec, Register(spec) PROVE RoutesOwn'
  <2>1. \A c \in Id : pending'[c] \in {pending[c], <<>>} /\ byChannel'[c] \in {byChannel[c], None}
    BY <1>5 DEF Register, ClearChannel, TypeOK
  <2> QED
    BY <1>1, <1>5, <2>1 DEF Register
<1>6. ASSUME NEW spec \in AgentSpec, Registered(spec) PROVE RoutesOwn'
  <2> DEFINE c == spec.channel
  <2>1. c \in Id /\ spec.name = c
    BY SpecAssumption DEF OwnNames
  <2>2. /\ pending'[c] = <<>> /\ \A d \in Id \ {c} : pending'[d] = pending[d]
        /\ byChannel'[c] = spec /\ \A d \in Id \ {c} : byChannel'[d] = byChannel[d]
        /\ byThread'[c] = c /\ \A d \in Id \ {c} : byThread'[d] = byThread[d]
        /\ replay' = [channel |-> c, msgs |-> pending[c]]
    BY <1>6, <2>1 DEF Registered, TypeOK
  <2> HIDE DEF c
  <2> QED
    BY <2>1, <2>2, EmptyRouted DEF RoutesOwn, Live
<1>7. CASE Replay
  <2>1. replay.msgs # <<>> /\ replay.msgs \in Seq(Msg) /\ replay'.channel = replay.channel
        /\ replay'.msgs = Tail(replay.msgs) /\ UNCHANGED <<byChannel, byThread, pending>>
    BY <1>7 DEF Replay, Replaying, TypeOK
  <2> QED
    BY <2>1, RoutedKept DEF RoutesOwn, Live
<1>8. ASSUME NEW i \in Id, Deregister(i) PROVE RoutesOwn'
  <2>1. \A c \in Id : /\ pending'[c] \in {pending[c], <<>>} /\ byChannel'[c] \in {byChannel[c], None}
                      /\ byThread'[c] \in {byThread[c], None}
    BY <1>8 DEF Deregister, ClearChannel, TypeOK
  <2> QED
    BY <1>1, <1>8, <2>1 DEF Deregister
<1>9. ASSUME NEW c \in Id, Unexpect(c) \/ ExpectChannel(c) \/ ArchiveThread(c) PROVE RoutesOwn'
  <2>1. \A d \in Id : pending'[d] \in {pending[d], <<>>} /\ byThread'[d] \in {byThread[d], None}
    BY <1>9 DEF Unexpect, ExpectChannel, ArchiveThread, ClearChannel, TypeOK
  <2> QED
    BY <1>1, <1>9, <2>1 DEF Unexpect, ExpectChannel, ArchiveThread
<1>10. ASSUME NEW w \in workers, WorkerStep(w) PROVE RoutesOwn'
  BY <1>1, <1>10 DEF WorkerStep, SessionRead, SessionReadThrows, EndTurn, Settle
<1>11. CASE UNCHANGED vars
  BY <1>1, <1>11 DEF vars
<1> QED
  BY <1>3, <1>4, <1>5, <1>6, <1>7, <1>8, <1>9, <1>10, <1>11 DEF Next

\* A mailbox step, or one that leaves the mailboxes as they are.
MailStep == Mailboxes!Next \/ UNCHANGED <<queues, RunningMsg>>

\* The same messages wait and run.
LEMMA SameTurns ==
  ASSUME CalmInv, CalmInv', queues' = queues,
         \A w \in workers : Active(w) => \E v \in workers' : Active(v) /\ v.key = w.key /\ v.msg = w.msg,
         \A w \in workers' : Active(w) => \E v \in workers : Active(v) /\ v.key = w.key /\ v.msg = w.msg
  PROVE  MailStep
<1>1. RunningOfDrain
  BY RunningIs
<1>2. RunningOfDrain'
  BY RunningIs, PTL
<1>3. ASSUME NEW k \in Key PROVE RunningMsg'[k] = RunningMsg[k]
  BY <1>1, <1>2 DEF RunningOfDrain, RunsAt
<1>4. RunningMsg' = RunningMsg
  BY <1>1, <1>2, <1>3 DEF RunningOfDrain
<1> QED
  BY <1>4 DEF MailStep

\* Enqueueing puts a message into a mailbox.
LEMMA EnqueuePuts ==
  ASSUME MailInv, CalmInv', AllActive, NEW c \in Id, Live(c), NEW m \in Msg,
         m.thread \in {None, c}, Enqueue(c, m), byChannel' = byChannel
  PROVE  MailStep
<1>1. CalmInv /\ LockHeld /\ HoldsItsLock /\ TypeOK
  BY DEF MailInv, CalmInv, LockInv
<1>2. PICK k \in Key :
        \/ /\ draining[k] = None /\ queues' = queues
           /\ \E w \in Worker : Active(w) /\ w.key = k /\ w.msg = m
                                /\ workers' = workers \cup {w}
        \/ /\ draining[k] # None /\ workers' = workers
           /\ queues' = [queues EXCEPT ![k] = Append(@, m)]
  BY EnqueueMail
<1>3. ASSUME draining[k] = None, queues' = queues, NEW w \in Worker, Active(w), w.key = k,
             w.msg = m, workers' = workers \cup {w}
      PROVE  Mailboxes!Put(k, m)
  <2>1. \A v \in workers : v.key # k
    BY <1>1, <1>3, DrainIdAssumption DEF HoldsItsLock, TypeOK, Worker
  <2>2. RunningMsg' = [RunningMsg EXCEPT ![k] = m] /\ RunningMsg[k] = None
    BY <1>1, <1>3, <2>1, RunningChanges DEF RunsAt
  <2> QED
    BY <1>3, <2>2 DEF Mailboxes!Put
<1>4. ASSUME draining[k] # None, workers' = workers, queues' = [queues EXCEPT ![k] = Append(@, m)]
      PROVE  Mailboxes!Put(k, m)
  <2>1. PICK w \in workers : w.key = k
    BY <1>1, <1>4 DEF LockHeld
  <2>2. RunningMsg[k] # None /\ RunningMsg' = [RunningMsg EXCEPT ![k] = RunningMsg'[k]]
        /\ RunningMsg'[k] = RunningMsg[k]
    BY <1>1, <1>4, <2>1, RunningChanges DEF AllActive
  <2>3. RunningMsg' = RunningMsg
    BY <1>1, <2>2, RunningIs DEF RunningOfDrain
  <2> QED
    BY <1>4, <2>2, <2>3 DEF Mailboxes!Put
<1>5. Mailboxes!Put(k, m)
  BY <1>2, <1>3, <1>4
<1> QED
  BY <1>5 DEF MailStep, Mailboxes!Next

\* The end of a turn advances its mailbox.
LEMMA EndTurnAdvances ==
  ASSUME MailInv, CalmInv', AllActive, NEW w \in workers, EndTurn(w)
  PROVE  MailStep
<1> DEFINE k == w.key
<1>1. CalmInv /\ HoldsItsLock /\ UniqueIds /\ TypeOK
  BY DEF MailInv, CalmInv, LockInv
<1>2. k \in Key /\ Active(w)
  BY <1>1 DEF TypeOK, Worker, AllActive
<1>3. \A v \in workers : v.key = k => v = w
  BY <1>1 DEF HoldsItsLock, UniqueIds
<1>4. ASSUME NEW v \in Worker, v.key = k, workers' = (workers \ {w}) \cup {v}
      PROVE  /\ RunningMsg' = [RunningMsg EXCEPT ![k] = RunningMsg'[k]] /\ RunningMsg[k] # None
             /\ RunningMsg'[k] = IF Active(v) THEN v.msg ELSE None
  <2>1. /\ \A u \in workers : Active(u) /\ u.key # k => u \in workers'
        /\ \A u \in workers' : Active(u) /\ u.key # k => u \in workers
        /\ \A u \in workers' : u.key = k => u = v
    BY <1>3, <1>4
  <2> HIDE DEF k
  <2>2. /\ RunningMsg' = [RunningMsg EXCEPT ![k] = RunningMsg'[k]]
        /\ \A u \in workers' : Active(u) /\ u.key = k => RunningMsg'[k] = u.msg
        /\ (\A u \in workers' : Active(u) => u.key # k) => RunningMsg'[k] = None
        /\ \A u \in workers : Active(u) /\ u.key = k => RunningMsg[k] # None
    BY <1>1, <1>2, <2>1, RunningChanges
  <2> QED
    BY <1>2, <1>4, <2>1, <2>2 DEF k
<1>5. \/ \E v \in Worker :
           /\ Active(v) /\ v.key = k /\ v.msg = Head(queues[k])
           /\ queues[k] # <<>> /\ workers' = (workers \ {w}) \cup {v}
           /\ queues' = [queues EXCEPT ![k] = Tail(@)]
      \/ /\ queues[k] = <<>> /\ queues' = queues
         /\ \E v \in Worker : ~Active(v) /\ v.key = k /\ workers' = (workers \ {w}) \cup {v}
  BY EndTurnMail
<1> HIDE DEF k
<1>6. Mailboxes!Advance(k)
  <2>1. ASSUME NEW v \in Worker, Active(v), v.key = k, v.msg = Head(queues[k]),
               queues[k] # <<>>, workers' = (workers \ {w}) \cup {v},
               queues' = [queues EXCEPT ![k] = Tail(@)]
        PROVE  Mailboxes!Advance(k)
    <3>1. RunningMsg' = [RunningMsg EXCEPT ![k] = Head(queues[k])] /\ RunningMsg[k] # None
      BY <1>4, <2>1
    <3> QED
      BY <2>1, <3>1 DEF Mailboxes!Advance
  <2>2. ASSUME NEW v \in Worker, ~Active(v), v.key = k, queues[k] = <<>>,
               workers' = (workers \ {w}) \cup {v}, queues' = queues
        PROVE  Mailboxes!Advance(k)
    <3>1. RunningMsg' = [RunningMsg EXCEPT ![k] = None] /\ RunningMsg[k] # None
      BY <1>4, <2>2
    <3> QED
      BY <2>2, <3>1 DEF Mailboxes!Advance
  <2> QED
    BY <1>5, <2>1, <2>2
<1> QED
  BY <1>2, <1>6 DEF MailStep, Mailboxes!Next

\* The drains and the queues stay as they are.
LEMMA CalmMail ==
  ASSUME MailInv, CalmInv', AllActive, workers' = workers, queues' = queues, draining' = draining,
         \A w \in workers : Live(w.channel)'
  PROVE  ServesLive' /\ IdleIsEmpty' /\ SettlesAlone' /\ MailStep
<1>1. ServesLive /\ IdleIsEmpty
  BY DEF MailInv
<1>2. MailStep
  <2>1. \A w \in workers : Active(w) => \E v \in workers' : Active(v) /\ v.key = w.key /\ v.msg = w.msg
    OBVIOUS
  <2>2. \A w \in workers' : Active(w) => \E v \in workers : Active(v) /\ v.key = w.key /\ v.msg = w.msg
    OBVIOUS
  <2> QED
    BY <2>1, <2>2, SameTurns DEF MailInv
<1>3. ServesLive' /\ IdleIsEmpty' /\ SettlesAlone'
  BY <1>1 DEF ServesLive, IdleIsEmpty, SettlesAlone, AllActive
<1> QED
  BY <1>2, <1>3

\* Every step of the registry is a step of the mailboxes, or none of theirs.
LEMMA NextMail ==
  ASSUME OwnNames, ~SessionReadFails, ~MicrotaskRaces,
         MailInv, [Next /\ LockReleasedByHolder]_vars
  PROVE  MailInv' /\ MailStep
<1>1. CalmInv' /\ RoutesOwn'
  BY NextCalmInv, NextRoutesOwn DEF MailInv, CalmInv, LockInv
<1>2. /\ CalmInv /\ TypeOK /\ ServesLive /\ IdleIsEmpty /\ SettlesAlone /\ RoutesOwn
      /\ \A w \in workers : w.key \in Key
  BY DEF MailInv, CalmInv, LockInv, TypeOK, Worker
<1> DEFINE Kept == ServesLive' /\ IdleIsEmpty' /\ SettlesAlone' /\ MailStep
<1> SUFFICES Kept
  BY <1>1 DEF MailInv
<1>3. ASSUME AllActive, workers' = workers, queues' = queues, draining' = draining,
             \A w \in workers : Live(w.channel)'
      PROVE  Kept
  BY <1>1, <1>3, CalmMail
<1>4. ASSUME Quiet PROVE AllActive /\ starting = {} /\ stopping = {} /\ ~Replaying
  BY <1>4, QuietMeans DEF Replaying
<1>5. ASSUME starting # {} \/ stopping # {} \/ Replaying PROVE AllActive
  BY <1>2, <1>5 DEF SettlesAlone, AllActive
<1>6. ASSUME AllActive, byChannel' = byChannel PROVE \A w \in workers : Live(w.channel)'
  BY <1>2, <1>6 DEF ServesLive, AllActive, Live
<1>7. ASSUME AllActive, NEW c \in Id, Live(c), NEW m \in Msg, m.thread \in {None, c},
             Enqueue(c, m), byChannel' = byChannel
      PROVE  Kept
  <2>1. ServesLive' /\ IdleIsEmpty' /\ AllActive'
    BY <1>7, EnqueueMail
  <2>2. MailStep
    BY <1>1, <1>7, EnqueuePuts
  <2> QED
    BY <2>1, <2>2 DEF SettlesAlone, AllActive
<1>8. ASSUME AllActive, NEW c \in Id, ClearChannel(c), workers' = workers, LockReleasedByHolder,
             \A d \in Id \ {c} : byChannel'[d] = byChannel[d]
      PROVE  Kept
  <2>1. queues' = queues /\ draining' = draining /\ \A w \in workers : w.key \notin KeysUnder(c)
    BY <1>8, ClearMail
  <2>2. \A w \in workers : w.channel \in Id \ {c} /\ Live(w.channel)
    BY <1>2, <1>8, <2>1 DEF ServesLive, AllActive, TypeOK, Worker
  <2>3. \A w \in workers : Live(w.channel)'
    BY <1>8, <2>2 DEF Live
  <2> QED
    BY <1>3, <1>8, <2>1, <2>3
<1>9. ASSUME NEW c \in Id, NEW t \in Id \cup {None}, NEW s \in Subject \cup {None}, Emit(c, t, s)
      PROVE  Kept
  <2> DEFINE m == Arrive(t, s)
  <2>1. AllActive /\ m \in Msg /\ m.thread \in {None, c} /\ byChannel' = byChannel
    BY <1>4, <1>9, ArriveType, <1>2, IdAssumption DEF Emit, Arrive, registry
  <2> HIDE DEF m
  <2>2. CASE Live(c) /\ Enqueue(c, m)
    BY <1>7, <2>1, <2>2
  <2>3. CASE UNCHANGED <<queues, draining, workers>>
    BY <1>3, <1>6, <2>1, <2>3
  <2> QED
    BY <1>9, <2>2, <2>3 DEF Emit, m
<1>10. ASSUME NEW t \in Id, NEW s \in Subject \cup {None}, ThreadInbound(t, s) PROVE Kept
  <2> DEFINE m == Arrive(t, s)
  <2>1. AllActive /\ m \in Msg /\ m.thread = t /\ byChannel' = byChannel
    BY <1>4, <1>10, ArriveType, <1>2, IdAssumption DEF ThreadInbound, Arrive, registry
  <2> HIDE DEF m
  <2>2. ASSUME NEW c \in Id, byThread[t] = c, Live(c), Enqueue(c, m) PROVE Kept
    <3>1. c = t
      BY <1>2, <2>2, IdAssumption DEF RoutesOwn
    <3> QED
      BY <1>7, <2>1, <2>2, <3>1
  <2>3. CASE UNCHANGED <<queues, draining, workers>>
    BY <1>3, <1>6, <2>1, <2>3
  <2> QED
    BY <1>10, <2>2, <2>3 DEF ThreadInbound, m
<1>11. ASSUME NEW spec \in AgentSpec, Register(spec), LockReleasedByHolder PROVE Kept
  <2> DEFINE prior == nameToChannel[spec.name]
  <2>1. AllActive /\ workers' = workers
    BY <1>4, <1>11 DEF Register
  <2>2. CASE UNCHANGED <<byChannel, queues, draining>>
    BY <1>3, <1>6, <2>1, <2>2
  <2>3. CASE prior # None /\ ClearChannel(prior) /\ byChannel' = [byChannel EXCEPT ![prior] = None]
    <3>1. prior \in Id
      BY <1>2, <2>3, SpecAssumption DEF TypeOK
    <3>2. \A d \in Id \ {prior} : byChannel'[d] = byChannel[d]
      BY <1>2, <2>3 DEF TypeOK
    <3> HIDE DEF prior
    <3> QED
      BY <1>8, <1>11, <2>1, <2>3, <3>1, <3>2
  <2> QED
    BY <1>11, <2>2, <2>3 DEF Register
<1>12. ASSUME NEW spec \in AgentSpec, Registered(spec) PROVE Kept
  <2>1. AllActive /\ workers' = workers /\ queues' = queues /\ draining' = draining
    BY <1>5, <1>12 DEF Registered
  <2>2. \A d \in Id : Live(d) => Live(d)'
    BY <1>2, <1>12, SpecAssumption DEF Registered, Live, TypeOK
  <2>3. \A w \in workers : Live(w.channel)'
    BY <1>2, <2>1, <2>2 DEF ServesLive, AllActive, TypeOK, Worker
  <2> QED
    BY <1>3, <2>1, <2>3
<1>13. CASE Replay
  <2>1. /\ AllActive /\ Enqueue(replay.channel, Head(replay.msgs)) /\ byChannel' = byChannel
        /\ replay.channel \in Id /\ Live(replay.channel)
    BY <1>2, <1>5, <1>13 DEF Replay, registry, TypeOK
  <2>2. Head(replay.msgs) \in Msg /\ Head(replay.msgs).thread \in {None, replay.channel}
    <3>1. replay.msgs \in Seq(Msg) /\ replay.msgs # <<>>
      BY <1>2, <1>13 DEF Replay, Replaying, TypeOK
    <3> QED
      BY <1>2, <2>1, <3>1, RoutedKept, HeadTailProperties DEF RoutesOwn
  <2> QED
    BY <1>7, <2>1, <2>2
<1>14. ASSUME NEW i \in Id, Deregister(i), LockReleasedByHolder PROVE Kept
  <2> DEFINE c == nameToChannel[i]
  <2>1. AllActive /\ workers' = workers /\ c \in Id /\ ClearChannel(c)
        /\ \A d \in Id \ {c} : byChannel'[d] = byChannel[d]
    BY <1>2, <1>4, <1>14 DEF Deregister, TypeOK
  <2> HIDE DEF c
  <2> QED
    BY <1>8, <1>14, <2>1
<1>15. ASSUME NEW c \in Id, Unexpect(c) \/ ExpectChannel(c) PROVE Kept
  <2>1. AllActive
    BY <1>4, <1>5, <1>15 DEF Unexpect, ExpectChannel
  <2> QED
    BY <1>3, <1>6, <1>15, <2>1 DEF Unexpect, ExpectChannel, registry
<1>16. ASSUME NEW t \in Id, ArchiveThread(t), LockReleasedByHolder PROVE Kept
  BY <1>4, <1>8, <1>16 DEF ArchiveThread
<1>17. ASSUME NEW w \in workers, SessionRead(w) PROVE Kept
  <2> DEFINE v == [w EXCEPT !.at = "running"]
  <2>1. /\ AllActive /\ workers' = (workers \ {w}) \cup {v}
        /\ UNCHANGED <<byChannel, queues, draining>>
    BY <1>4, <1>17 DEF SessionRead, Become, registry
  <2>2. Active(w) /\ Active(v) /\ v.key = w.key /\ v.msg = w.msg /\ v.channel = w.channel
    BY <1>2, <2>1 DEF Active, TypeOK, Worker, AllActive
  <2> HIDE DEF v
  <2>3. MailStep
    BY <1>1, <1>2, <2>1, <2>2, SameTurns
  <2>4. ServesLive' /\ IdleIsEmpty' /\ SettlesAlone'
    BY <1>2, <2>1, <2>2 DEF ServesLive, IdleIsEmpty, SettlesAlone, AllActive, Live
  <2> QED
    BY <2>3, <2>4
<1>18. ASSUME NEW w \in workers, EndTurn(w) PROVE Kept
  <2>1. AllActive /\ starting' = {} /\ stopping' = {} /\ ~Replaying'
    BY <1>4, <1>18 DEF EndTurn, calls, Replaying
  <2>2. MailStep
    BY <1>1, <1>18, <2>1, EndTurnAdvances
  <2>3. ServesLive' /\ IdleIsEmpty'
    BY <1>18, <2>1, EndTurnMail
  <2>4. SettlesAlone'
    <3>1. \A v \in workers' : ~Active(v) => queues'[v.key] = <<>>
      BY <1>18, <2>1, EndTurnMail DEF AllActive
    <3> QED
      BY <2>1, <3>1 DEF SettlesAlone
  <2> QED
    BY <2>2, <2>3, <2>4
<1>19. ASSUME NEW w \in workers, Settle(w) PROVE Kept
  <2>1. /\ ~Active(w) /\ workers' = workers \ {w} /\ w.key \in Key
        /\ draining' = [draining EXCEPT ![w.key] = None]
        /\ UNCHANGED <<byChannel, queues, starting, stopping, replay>>
    BY <1>2, <1>19 DEF Settle, Active, registry, calls
  <2>2. queues[w.key] = <<>>
    BY <1>2, <2>1 DEF SettlesAlone
  <2>3. MailStep
    BY <1>1, <1>2, <2>1, SameTurns
  <2>4. \A k \in Key \ {w.key} : draining'[k] = draining[k]
    BY <1>2, <2>1 DEF TypeOK
  <2>5. IdleIsEmpty'
    BY <1>2, <2>1, <2>2, <2>4 DEF IdleIsEmpty
  <2>6. ServesLive' /\ SettlesAlone'
    BY <1>2, <2>1 DEF ServesLive, SettlesAlone, Live, Replaying
  <2> QED
    BY <2>3, <2>5, <2>6
<1>20. CASE UNCHANGED vars
  <2>1. UNCHANGED <<byChannel, queues, draining, workers, starting, stopping, replay>>
    BY <1>20 DEF vars
  <2>2. MailStep
    BY <1>1, <1>2, <2>1, SameTurns
  <2>3. ServesLive' /\ IdleIsEmpty' /\ SettlesAlone'
    BY <1>2, <2>1 DEF ServesLive, IdleIsEmpty, SettlesAlone, Live, Replaying
  <2> QED
    BY <2>2, <2>3
<1>21. ASSUME NEW w \in workers, WorkerStep(w) PROVE Kept
  BY <1>17, <1>18, <1>19, <1>21 DEF WorkerStep, SessionReadThrows
<1> HIDE DEF Kept
<1> QED
  BY <1>9, <1>10, <1>11, <1>12, <1>13, <1>14, <1>15, <1>16, <1>20, <1>21 DEF Next

\* Initially the mailboxes are empty and idle.
LEMMA InitMail == Init => MailInv /\ Mailboxes!Init
<1> SUFFICES ASSUME Init PROVE MailInv /\ Mailboxes!Init
  OBVIOUS
<1>1. CalmInv
  BY InitType DEF Init, CalmInv, LockInv, UniqueIds, LockHeld, HoldsItsLock
<1>2. ServesLive /\ IdleIsEmpty /\ SettlesAlone
  BY DEF Init, ServesLive, IdleIsEmpty, SettlesAlone
<1>3. RoutesOwn
  BY EmptyRouted DEF Init, RoutesOwn, Live
<1>4. RunningMsg = [k \in Key |-> None]
  BY DEF Init, RunningMsg
<1> QED
  BY <1>1, <1>2, <1>3, <1>4 DEF MailInv, Mailboxes!Init, Init

\* In the calm environment, with agents whose name is their channel, session
\* reads that succeed and continuations that run first, the registry is one
\* serial mailbox per drain key.
THEOREM RefinesMailboxes ==
  ASSUME OwnNames, ~SessionReadFails, ~MicrotaskRaces
  PROVE  CalmSpec => ImplementsMailboxes
<1>1. MailInv /\ [Next /\ LockReleasedByHolder]_vars => MailInv' /\ MailStep
  BY NextMail
<1>2. MailStep => [Mailboxes!Next]_(Mailboxes!mailboxes)
  BY DEF MailStep, Mailboxes!mailboxes
<1> QED
  BY <1>1, <1>2, InitMail, PTL DEF CalmSpec, ImplementsMailboxes, Mailboxes!Spec

(***************************************************************************)
(* The environments of MCTurnQueue, for any constants.                      *)
(***************************************************************************)
\* An environment stays what it is, and "core" and "calm" step as TurnQueue does.
LEMMA EnvironmentsStep ==
  ASSUME [MCNext]_<<vars, env>>
  PROVE  /\ env' = env
         /\ env \in {"core", "calm"} => [Next]_vars
         /\ env = "calm" => [Next /\ LockReleasedByHolder]_vars
BY DEF MCNext, In

\* In "core" and "calm" messages take their turns in the order of arrival, and
\* wait in a buffer only while their channel has no agent.
THEOREM OwnMessagesInOrder ==
  ASSUME OwnNames, OwnKeys, ~ThreadsWired
  PROVE  MCSpec => []OwnKeptInOrder
<1> DEFINE I == env \in {"core", "calm"} => OrderInv
<1>1. MCInit => I
  BY InitOrder DEF MCInit
<1>2. I /\ [MCNext]_<<vars, env>> => I'
  BY EnvironmentsStep, NextOrder
<1>3. I => OwnKeptInOrder
  BY OrderKeeps DEF OwnKeptInOrder
<1> QED
  BY <1>1, <1>2, <1>3, PTL DEF MCSpec

\* In "calm" every step of the registry is a step of one serial mailbox per key,
\* or of none.
THEOREM CalmIsMailboxes ==
  ASSUME OwnNames, ~SessionReadFails, ~MicrotaskRaces
  PROVE  MCSpec => CalmImplementsMailboxes
<1> DEFINE I == env = "calm" => MailInv
           Step == [env = "calm" => Mailboxes!Next]_<<queues, RunningMsg, env>>
<1>1. MCInit => I /\ (env = "calm" => Mailboxes!Init)
  BY InitMail DEF MCInit
<1>2. I /\ [MCNext]_<<vars, env>> => I' /\ Step
  <2>1. ASSUME MailInv, [Next /\ LockReleasedByHolder]_vars  PROVE  MailInv' /\ MailStep
    BY <2>1, NextMail
  <2>2. MailStep => Mailboxes!Next \/ UNCHANGED <<queues, RunningMsg>>
    BY DEF MailStep
  <2> QED
    BY <2>1, <2>2, EnvironmentsStep
<1> QED
  BY <1>1, <1>2, PTL DEF MCSpec, CalmImplementsMailboxes
=============================================================================
