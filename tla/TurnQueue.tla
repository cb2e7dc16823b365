------------------------------ MODULE TurnQueue ------------------------------
(***************************************************************************)
(* The programmatic agent registry (src/backends/registry.ts): which agent *)
(* serves which channel, the buffer for messages that arrive before their  *)
(* agent is live, one FIFO queue per drain key, and the drain workers that *)
(* run the queued messages one turn at a time.                             *)
(*                                                                         *)
(* The daemon is one JavaScript thread, so each action is the code between *)
(* two awaits.  A drain worker is one call of drain(); its awaits inside a *)
(* turn are two: the session read, and everything from the start record to *)
(* the callback ("running"), which module Turn opens up.  Promise          *)
(* continuations that wait for no I/O (the end of register and deregister, *)
(* the .finally that unlocks a key) run before any other event unless      *)
(* MicrotaskRaces says that the runtime may put another call in between.   *)
(*                                                                         *)
(* Definitions that no other one uses stand before the definition that they*)
(* are a faulty variant of; the properties below tell the two apart.       *)
(***************************************************************************)
EXTENDS Naturals, Sequences, FiniteSets

CONSTANTS
  Id,               \* channel names, agent names and thread ids: one namespace
  Subject,          \* subjects a message can carry
  Key,              \* drain keys: every Id and every <name>--<subject>
  ThreadKey,        \* threadKey(name, subject), as a function
  Prefixed,         \* <<i, k>> when the string k starts with i followed by --
  AgentSpec,        \* the specs that may be registered
  None,
  DrainId,          \* identities of drain promises: at least MaxMsgs of them
  MaxMsgs,          \* bound on the messages sent
  PendingCap,       \* PENDING_INBOUND_CAP
  ThreadsWired,     \* is opts.threadResolvable given to the daemon?
  SessionReadFails, \* can readSession throw (an HTTP error other than 404)?
  MicrotaskRaces    \* may an event run between a settled await and its continuation?

ASSUME IdAssumption == Id \subseteq Key /\ None \notin Key
ASSUME SubjectAssumption == None \notin Subject
ASSUME ThreadKeyAssumption == ThreadKey \in [Id \X Subject -> Key]
ASSUME PrefixedAssumption ==
  /\ Prefixed \subseteq Id \X Key
  /\ \A i \in Id, s \in Subject : <<i, ThreadKey[i, s]>> \in Prefixed
ASSUME SpecAssumption ==
  /\ AgentSpec \subseteq [name : Id, channel : Id, multi : BOOLEAN]
  /\ None \notin AgentSpec
ASSUME DrainIdAssumption == None \notin DrainId
ASSUME BoundAssumption == MaxMsgs \in Nat /\ PendingCap \in Nat \ {0}
ASSUME SwitchAssumption ==
  {ThreadsWired, SessionReadFails, MicrotaskRaces} \subseteq BOOLEAN

VARIABLES
  byChannel,      \* channel -> spec of the live agent, or None
  nameToChannel,  \* name -> channel, or None
  byThread,       \* thread id -> channel, or None
  expected,       \* channels expected to gain an agent
  pending,        \* channel -> messages buffered until an agent registers
  queues,         \* drain key -> messages waiting for a turn
  draining,       \* drain key -> the drain whose promise is stored, or None
  workers,        \* the drain() calls that have not settled
  replay,         \* what the loop of drainPending has still to enqueue
  starting,       \* register() calls waiting for backend.start
  stopping,       \* channels whose deregister wrapper has still to unexpect them
  arrived,        \* messages sent so far; names and orders the messages
  owned           \* history: messages taken and not yet finished, dropped or lost

registry == <<byChannel, nameToChannel, byThread>>
calls == <<starting, stopping>>
vars == <<byChannel, nameToChannel, byThread, expected, pending, queues,
          draining, workers, replay, starting, stopping, arrived, owned>>

MsgNo == 1..MaxMsgs
Msg == [n : MsgNo, thread : Key \cup {None}, subject : Subject \cup {None}]
Worker == [id : DrainId, key : Key, channel : Id, agent : AgentSpec,
           msg : Msg, at : {"reading", "running", "settling"}]

ASSUME NoneAssumption == None \notin Msg

Live(c) == byChannel[c] # None
Active(w) == w.at # "settling"
Numbers(s) == {s[i].n : i \in DOMAIN s}

Init ==
  /\ byChannel = [c \in Id |-> None]
  /\ nameToChannel = [i \in Id |-> None]
  /\ byThread = [t \in Id |-> None]
  /\ expected = {}
  /\ pending = [c \in Id |-> <<>>]
  /\ queues = [k \in Key |-> <<>>]
  /\ draining = [k \in Key |-> None]
  /\ workers = {}
  /\ replay = [channel |-> None, msgs |-> <<>>]
  /\ starting = {}
  /\ stopping = {}
  /\ arrived = 0
  /\ owned = {}

(***************************************************************************)
(* Scheduling.  The loop of drainPending is synchronous, so nothing runs   *)
(* while it has messages left.  Settled continuations come next.           *)
(***************************************************************************)
Replaying == replay.msgs # <<>>

NoContinuation ==
  \/ MicrotaskRaces
  \/ starting = {} /\ stopping = {} /\ \A w \in workers : Active(w)

Quiet == ~Replaying /\ NoContinuation

(***************************************************************************)
(* Enqueueing.  The first synchronous part of drain() runs inside enqueue: *)
(* a worker that is started takes the head of its queue at once.           *)
(***************************************************************************)
DrainKey(c, m) ==
  CASE m.thread # None -> m.thread
    [] m.thread = None /\ byChannel[c].multi /\ m.subject # None ->
         ThreadKey[byChannel[c].name, m.subject]
    [] OTHER -> c

ReadsSession(spec, m) == ~spec.multi \/ m.subject # None

Turn(id, k, c, m) ==
  [id |-> id, key |-> k, channel |-> c, agent |-> byChannel[c], msg |-> m,
   at |-> IF ReadsSession(byChannel[c], m) THEN "reading" ELSE "running"]

Unused == DrainId \ {w.id : w \in workers}

StartUnmarked(k, c, q) ==
  /\ draining[k] = None
  /\ Unused # {}
  /\ workers' = workers \cup {Turn(CHOOSE d \in Unused : TRUE, k, c, Head(q))}
  /\ queues' = [queues EXCEPT ![k] = Tail(q)]
  /\ UNCHANGED draining

StartDrain(k, c, q) ==
  LET id == CHOOSE d \in Unused : TRUE IN
  /\ draining[k] = None
  /\ Unused # {}
  /\ draining' = [draining EXCEPT ![k] = id]
  /\ workers' = workers \cup {Turn(id, k, c, Head(q))}
  /\ queues' = [queues EXCEPT ![k] = Tail(q)]

JoinDrain(k, q) ==
  /\ draining[k] # None
  /\ queues' = [queues EXCEPT ![k] = q]
  /\ UNCHANGED <<draining, workers>>

Enqueue(c, m) ==
  LET k == DrainKey(c, m)
      q == Append(queues[k], m)
  IN  StartDrain(k, c, q) \/ JoinDrain(k, q)

\* queuePending on an expected channel: past the cap the oldest is evicted.
BufferPending(c, m) ==
  LET q == Append(pending[c], m)
      full == Len(q) > PendingCap
  IN  /\ pending' = [pending EXCEPT ![c] = IF full THEN Tail(q) ELSE q]
      /\ owned' = (owned \cup {m.n}) \ (IF full THEN {Head(q).n} ELSE {})

(***************************************************************************)
(* Inbound messages.                                                       *)
(***************************************************************************)
Arrive(t, s) == [n |-> arrived + 1, thread |-> t, subject |-> s]

\* emit() of the channel's transport context.  A note that carries
\* metadata.thread was routed by it, so its thread is the channel itself.
Emit(c, t, s) ==
  LET m == Arrive(t, s) IN
  /\ Quiet
  /\ arrived < MaxMsgs
  /\ t \in {None, c}
  /\ arrived' = arrived + 1
  /\ \/ /\ Live(c)
        /\ Enqueue(c, m)
        /\ owned' = owned \cup {m.n}
        /\ UNCHANGED <<pending>>
     \/ /\ ~Live(c)
        /\ c \in expected
        /\ BufferPending(c, m)
        /\ UNCHANGED <<queues, draining, workers>>
     \/ /\ ~Live(c)
        /\ c \notin expected
        /\ UNCHANGED <<pending, queues, draining, workers, owned>>
  /\ UNCHANGED <<registry, expected, replay, calls>>

\* The webhook's resolve-or-create path for a thread without a live channel
\* of its own: resolveOrCreateThread, then enqueue or queuePending.
ThreadInbound(t, s) ==
  LET m == Arrive(t, s) IN
  /\ ThreadsWired
  /\ Quiet
  /\ arrived < MaxMsgs
  /\ arrived' = arrived + 1
  /\ \/ \E c \in Id :
          /\ byThread[t] = c
          /\ Live(c)
          /\ Enqueue(c, m)
          /\ owned' = owned \cup {m.n}
          /\ UNCHANGED <<expected, pending>>
     \/ /\ \A c \in Id : byThread[t] = c => ~Live(c)
        /\ expected' = expected \cup {t}
        /\ BufferPending(t, m)
        /\ UNCHANGED <<queues, draining, workers>>
  /\ UNCHANGED <<registry, replay, calls>>

(***************************************************************************)
(* Registration and teardown.                                              *)
(***************************************************************************)
KeysOf(c) ==
  LET prefix == IF Live(c) THEN byChannel[c].name ELSE c
  IN  {c} \cup {k \in Key : <<prefix, k>> \in Prefixed}

\* clearChannelQueues, and the channel's expected mark and buffer with it.
ClearChannel(c) ==
  /\ queues' = [k \in Key |-> IF k \in KeysOf(c) THEN <<>> ELSE queues[k]]
  /\ draining' = [k \in Key |-> IF k \in KeysOf(c) THEN None ELSE draining[k]]
  /\ expected' = expected \ {c}
  /\ pending' = [pending EXCEPT ![c] = <<>>]
  /\ owned' = owned \ (Numbers(pending[c]) \cup UNION {Numbers(queues[k]) : k \in KeysOf(c)})

\* register() up to its await: a name that moves leaves its old channel.
Register(spec) ==
  LET prior == nameToChannel[spec.name] IN
  /\ Quiet
  /\ spec \notin starting
  /\ starting' = starting \cup {spec}
  /\ \/ /\ prior \in {None, spec.channel}
        /\ UNCHANGED <<byChannel, expected, pending, queues, draining, owned>>
     \/ /\ prior \notin {None, spec.channel}
        /\ ClearChannel(prior)
        /\ byChannel' = [byChannel EXCEPT ![prior] = None]
  /\ UNCHANGED <<nameToChannel, byThread, workers, replay, stopping, arrived>>

\* register() after backend.start: index the agent, begin the replay.
Registered(spec) ==
  LET c == spec.channel IN
  /\ ~Replaying
  /\ spec \in starting
  /\ starting' = starting \ {spec}
  /\ byChannel' = [byChannel EXCEPT ![c] = spec]
  /\ nameToChannel' = [nameToChannel EXCEPT ![spec.name] = c]
  /\ byThread' = [byThread EXCEPT ![spec.name] = c]
  /\ expected' = expected \ {c}
  /\ pending' = [pending EXCEPT ![c] = <<>>]
  /\ replay' = [channel |-> c, msgs |-> pending[c]]
  /\ UNCHANGED <<queues, draining, workers, stopping, arrived, owned>>

ReplayNewestFirst ==
  LET last == Len(replay.msgs) IN
  /\ Replaying
  /\ Enqueue(replay.channel, replay.msgs[last])
  /\ replay' = [replay EXCEPT !.msgs = SubSeq(@, 1, last - 1)]
  /\ UNCHANGED <<registry, expected, pending, calls, arrived, owned>>

\* One iteration of the loop of drainPending.
Replay ==
  /\ Replaying
  /\ Enqueue(replay.channel, Head(replay.msgs))
  /\ replay' = [replay EXCEPT !.msgs = Tail(@)]
  /\ UNCHANGED <<registry, expected, pending, calls, arrived, owned>>

\* deregister() up to its await.  The daemon's wrapper, unlike the DELETE
\* endpoint, unexpects the channel when deregister returns.
Deregister(name) ==
  LET c == nameToChannel[name]
      thread == IF Live(c) THEN byChannel[c].name ELSE name
  IN
  /\ Quiet
  /\ c # None
  /\ ClearChannel(c)
  /\ byChannel' = [byChannel EXCEPT ![c] = None]
  /\ nameToChannel' = [nameToChannel EXCEPT ![name] = None]
  /\ byThread' = [byThread EXCEPT ![thread] = None]
  /\ stopping' \in {stopping, IF Live(c) THEN stopping \cup {c} ELSE stopping}
  /\ UNCHANGED <<workers, replay, starting, arrived>>

\* The wrapper's unexpectChannel after the await.
Unexpect(c) ==
  /\ ~Replaying
  /\ c \in stopping
  /\ stopping' = stopping \ {c}
  /\ expected' = expected \ {c}
  /\ pending' = [pending EXCEPT ![c] = <<>>]
  /\ owned' = owned \ Numbers(pending[c])
  /\ UNCHANGED <<registry, queues, draining, workers, replay, starting, arrived>>

\* expectChannel, from the instantiation path before it brings an agent up.
ExpectChannel(c) ==
  /\ Quiet
  /\ c \notin expected
  /\ expected' = expected \cup {c}
  /\ UNCHANGED <<registry, pending, queues, draining, workers, replay, calls,
                 arrived, owned>>

\* archiveThread, from the thread-status webhook.
ArchiveThread(t) ==
  /\ Quiet
  /\ ClearChannel(t)
  /\ byThread' = [byThread EXCEPT ![t] = None]
  /\ UNCHANGED <<byChannel, nameToChannel, workers, replay, calls, arrived>>

(***************************************************************************)
(* Drain workers.                                                          *)
(***************************************************************************)
Become(w, next) == workers' = (workers \ {w}) \cup {next}

SessionRead(w) ==
  /\ Quiet
  /\ w.at = "reading"
  /\ Become(w, [w EXCEPT !.at = "running"])
  /\ UNCHANGED <<registry, expected, pending, queues, draining, replay, calls,
                 arrived, owned>>

\* readSession is awaited outside any try block: a throw rejects the drain.
SessionReadThrows(w) ==
  /\ SessionReadFails
  /\ Quiet
  /\ w.at = "reading"
  /\ Become(w, [w EXCEPT !.at = "settling"])
  /\ owned' = owned \ {w.msg.n}
  /\ UNCHANGED <<registry, expected, pending, queues, draining, replay, calls,
                 arrived>>

EndTurnSettles(w) ==
  /\ Quiet
  /\ w.at = "running"
  /\ owned' = owned \ {w.msg.n}
  /\ Become(w, [w EXCEPT !.at = "settling"])
  /\ UNCHANGED <<registry, expected, pending, queues, draining, replay, calls, arrived>>

EndTurnPeeks(w) ==
  /\ Quiet
  /\ w.at = "running"
  /\ owned' = owned \ {w.msg.n}
  /\ queues[w.key] # <<>> /\ Live(w.channel)
  /\ Become(w, Turn(w.id, w.key, w.channel, Head(queues[w.key])))
  /\ UNCHANGED <<registry, expected, pending, queues, draining, replay, calls, arrived>>

\* The last await of a turn returns and the loop head runs: the next message
\* of the key, for the agent that now serves the drain's channel.
EndTurn(w) ==
  LET q == queues[w.key] IN
  /\ Quiet
  /\ w.at = "running"
  /\ owned' = owned \ {w.msg.n}
  /\ \/ /\ q # <<>>
        /\ Live(w.channel)
        /\ Become(w, Turn(w.id, w.key, w.channel, Head(q)))
        /\ queues' = [queues EXCEPT ![w.key] = Tail(q)]
     \/ /\ q = <<>> \/ ~Live(w.channel)
        /\ Become(w, [w EXCEPT !.at = "settling"])
        /\ UNCHANGED queues
  /\ UNCHANGED <<registry, expected, pending, draining, replay, calls, arrived>>

SettleKeepsEntry(w) ==
  /\ ~Replaying
  /\ w.at = "settling"
  /\ workers' = workers \ {w}
  /\ UNCHANGED <<registry, expected, pending, queues, draining, replay, calls, arrived, owned>>

\* The .finally of a settled drain: it deletes the entry of its key, whichever
\* drain the entry belongs to by now.
Settle(w) ==
  /\ ~Replaying
  /\ w.at = "settling"
  /\ workers' = workers \ {w}
  /\ draining' = [draining EXCEPT ![w.key] = None]
  /\ UNCHANGED <<registry, expected, pending, queues, replay, calls, arrived, owned>>

WorkerStep(w) == SessionRead(w) \/ SessionReadThrows(w) \/ EndTurn(w) \/ Settle(w)

Next ==
  \/ \E c \in Id, t \in Id \cup {None}, s \in Subject \cup {None} : Emit(c, t, s)
  \/ \E t \in Id, s \in Subject \cup {None} : ThreadInbound(t, s)
  \/ \E spec \in AgentSpec : Register(spec) \/ Registered(spec)
  \/ Replay
  \/ \E i \in Id : Deregister(i) \/ Unexpect(i) \/ ExpectChannel(i) \/ ArchiveThread(i)
  \/ \E w \in workers : WorkerStep(w)

Spec == Init /\ [][Next]_vars

(***************************************************************************)
(* The environment under which the serial contract holds: a drain's entry  *)
(* is only ever deleted by that drain, i.e. nobody tears an agent down,    *)
(* archives its thread or moves its name while one of its drains runs.     *)
(***************************************************************************)
LockReleasedByHolder ==
  \A k \in Key : draining[k] # None /\ draining'[k] # draining[k] =>
     \E w \in workers \ workers' : w.id = draining[k] /\ w.key = k

CalmSpec == Init /\ [][Next /\ LockReleasedByHolder]_vars

(***************************************************************************)
(* Fairness.  The event loop runs every continuation and reaches every I/O *)
(* completion, also when continuations keep arriving in between (SF).  A   *)
(* turn has no timeout of its own, so that the child process of a turn     *)
(* exits is an assumption about it.                                        *)
(***************************************************************************)
Fairness ==
  /\ \A k \in Key : SF_vars(\E w \in workers : w.key = k /\ WorkerStep(w))
  /\ WF_vars(Replay)
  /\ \A spec \in AgentSpec : WF_vars(Registered(spec))
  /\ \A c \in Id : WF_vars(Unexpect(c))

FairSpec == Spec /\ Fairness
(***************************************************************************)
(* Properties.                                                             *)
(***************************************************************************)

\* Every variable keeps its type.
TypeOK ==
  /\ byChannel \in [Id -> AgentSpec \cup {None}]
  /\ nameToChannel \in [Id -> Id \cup {None}]
  /\ byThread \in [Id -> Id \cup {None}]
  /\ expected \subseteq Id
  /\ pending \in [Id -> Seq(Msg)]
  /\ queues \in [Key -> Seq(Msg)]
  /\ draining \in [Key -> DrainId \cup {None}]
  /\ workers \subseteq Worker
  /\ replay \in [channel : Id \cup {None}, msgs : Seq(Msg)]
  /\ Replaying => replay.channel \in Id /\ Live(replay.channel)
  /\ starting \subseteq AgentSpec
  /\ stopping \subseteq Id
  /\ arrived \in 0..MaxMsgs
  /\ owned \subseteq MsgNo

\* The entry of a key in `draining` always belongs to a drain that has not
\* settled: a key is never locked by a promise that is gone, which would leave
\* its queue without a worker for ever.
LockHeld ==
  \A k \in Key : draining[k] # None =>
     \E w \in workers : w.id = draining[k] /\ w.key = k

\* The serial contract of the class comment: never two concurrent turns for
\* one drain key.
SerialPerKey ==
  \A v, w \in workers : Active(v) /\ Active(w) /\ v.key = w.key => v = w

\* Where message n is: in a buffer, in the replay loop, in a queue or in a turn.
Positions(s, n) == {i \in DOMAIN s : s[i].n = n}
InBuffers(n) == UNION {{<<"buffer", c, i>> : i \in Positions(pending[c], n)} : c \in Id}
InReplay(n) == {<<"replay", i>> : i \in Positions(replay.msgs, n)}
InQueues(n) == UNION {{<<"queue", k, i>> : i \in Positions(queues[k], n)} : k \in Key}
InTurns(n) == {<<"turn", w.id>> : w \in {v \in workers : Active(v) /\ v.msg.n = n}}
Places(n) == InBuffers(n) \cup InReplay(n) \cup InQueues(n) \cup InTurns(n)

\* A message the registry has taken is in exactly one place until its turn is
\* over or it is dropped by a teardown, an eviction or a failed session read:
\* no message is lost on the way from buffer to replay to queue to turn, and
\* none gets two turns.
Conservation ==
  \A n \in MsgNo : Cardinality(Places(n)) = IF n \in owned THEN 1 ELSE 0

Ascending(s) == \A i, j \in DOMAIN s : i < j => s[i].n < s[j].n

\* Messages take their turns in arrival order: buffers and queues hold them in
\* that order, a message waiting behind a turn is younger than the turn's
\* message, and a replayed one is younger than whatever it is queued behind.
InOrder ==
  /\ \A c \in Id : Ascending(pending[c])
  /\ \A k \in Key : Ascending(queues[k])
  /\ \A w \in workers : \A i \in DOMAIN queues[w.key] :
        Active(w) => w.msg.n < queues[w.key][i].n
  /\ \A i \in DOMAIN replay.msgs :
        LET m == replay.msgs[i]
            k == DrainKey(replay.channel, m)
        IN  /\ \A j \in DOMAIN queues[k] : queues[k][j].n < m.n
            /\ \A w \in workers : Active(w) /\ w.key = k => w.msg.n < m.n

\* No missed wake: a message never waits in a queue without a drain that will
\* come back to the queue.
NoStranding ==
  \A k \in Key : queues[k] # <<>> => \E w \in workers : Active(w) /\ w.key = k

\* Only an expected channel has a buffer, so the next registration or teardown
\* of the channel finds it.
BufferedOnlyWhenExpected == \A c \in Id : pending[c] # <<>> => c \in expected

\* No message the registry has taken is lost, doubled or stranded: it is in one
\* place, and no buffer is left behind by what would empty it.
MessagesKept == Conservation /\ BufferedOnlyWhenExpected

\* A channel with a live agent has no buffered messages: they would wait for a
\* registration that has already happened.
BufferedOnlyWhenDown == \A c \in Id : pending[c] # <<>> => ~Live(c)

\* The agent of every channel has the channel's name, as the definition path
\* makes them; no key of an agent is a name or a key of another one.
OwnNames == \A a \in AgentSpec : a.name = a.channel

OwnKeys ==
  \A c, d \in Id, s \in Subject :
    /\ ThreadKey[c, s] # d
    /\ \A t \in Subject : ThreadKey[c, s] = ThreadKey[d, t] => c = d

\* From the transport to its turn, a message never overtakes an older one of
\* its key, and waits in a buffer only while its channel has no agent.
KeptInOrder == InOrder /\ BufferedOnlyWhenDown

\* Every message that reaches a drain queue leaves it: it gets its turn, or a
\* teardown or a failed session read disposes of it.
QueuedMessagesEnd ==
  \A n \in MsgNo :
    (\E k \in Key : n \in Numbers(queues[k])) ~> n \notin owned

(***************************************************************************)
(* The registry implements one serial mailbox per drain key.  A drain that *)
(* has not settled is its key's running turn.                              *)
(***************************************************************************)
RunningMsg ==
  [k \in Key |->
     IF \E w \in workers : Active(w) /\ w.key = k
       THEN (CHOOSE w \in workers : Active(w) /\ w.key = k).msg
       ELSE None]

Mailboxes ==
  INSTANCE SerialMailboxes WITH Nobody <- None, waiting <- queues, running <- RunningMsg

\* Turns are serial, in order, none is skipped, and a key is idle only when
\* nothing waits for it.
ImplementsMailboxes == Mailboxes!Spec
=============================================================================
