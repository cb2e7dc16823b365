# Verification of parachute-agent

TLA+ models of the daemon in `src/src` and of the parts of its web page in
`src/web/ui` that share a protocol with it, the TLC configurations that check
them on small instances, and theorems about them that TLAPS checks. Every
definition that stands for code is listed, with its lines, under `map` in
`PROJECT.json`; what is hard to test is listed there under `hazards`, at its
line, with the properties that would catch it.

## The system

The repository is one daemon (Bun, TypeScript, one JavaScript thread) that
connects messages of a vault (a note store reached over HTTP) with agents.
A message arrives as a webhook of the vault, is routed to the channel of an
agent, waits in a queue, and becomes one run of `claude -p` in a sandbox (a
*programmatic* agent), is claimed over MCP by a session that somebody else runs
(an *attached* agent), or is pushed to whoever listens on the channel. The reply
is a note in the vault again. Agents are declared by notes of the vault; what
they may use is granted by the operator at the hub.

| Component | State it keeps | Operations | Module |
| --- | --- | --- | --- |
| Programmatic registry, `backends/registry.ts` | three indexes, expected channels, pending buffers, a queue and a drain promise per drain key; all in memory | register, deregister, expectChannel, queuePending, drainPending, enqueue, drain, archiveThread | TurnQueue, SerialMailboxes |
| A turn: `drain()`, `deliver()`, `writeThread` | the thread note (status, turn count, session), the reply note | session read, two or three records, retries, reply, failure note, callback | Turn |
| Delegation: `maybeDeliverCallback`, `writeCallback` | depth and reply address in the notes | request, webhook, turn, callback | Delegation |
| Attached queue, `backends/attached-queue.ts` | the claim status of inbound notes, in the vault | claimNext, reply, release, sweepExpired | AttachedQueue, WorkQueue |
| Inbound webhook, `daemon.ts`, `transports/vault.ts` | the duplicate filter | authenticate, resolve, filter, ingest, emit | Inbound, InboundFilter |
| Streams and marks, `routing.ts`, `mcp-http.ts`, `delivery-state.ts`, `bridge.ts` | subscribers, MCP sessions, delivery marks | route, connect, read, break, mark | Push |
| Live channels and Telegram, `daemon.ts`, `registry.ts`, `transports/telegram.ts` | `channels.json`, live transports, poll offset | add, replace, remove, boot, poll | Channels |
| Scheduled jobs, `runner.ts`, `cron.ts`, `jobs.ts`, `backoff.ts` | next-fire horizons, in-flight set, load breaker | tick, fireOne, runNow, nextRunAfter | Runner, Cron |
| Agent definitions, `agent-defs.ts` | live agents by note, fingerprints, definitions seen | loadAll, reload, create, edit, delete, instantiate, prune | AgentDefs, NoteSpec |
| Definition vaults, `def-vaults.ts`, `def-vault-triggers.ts` | `agent-vaults.json`, bindings, triggers, backoff | boot, add, remove, poll | DefVaults |
| Web-started agents, `agents.ts`, `spawn-agent.ts` | `spec.json` files | POST, DELETE, boot | WebAgents |
| Grants, `grants.ts`, `credentials.ts` | grants at the hub, `credentials.json` | register, prune, approve, revoke, read material | Grants, Launch |
| Set-up of a turn, `backends/programmatic.ts`, `backends/types.ts`, `effective-env.ts` | none | wants, prompt, attachments, environment | Launch, SetUp |
| Sandbox, `spawn-agent.ts`, `sandbox/` | the lock, the one engine, private workspaces | stage, lock, initialize, wrap, reset | Spawns |
| claude's output, `backends/stream-json.ts` | the unfinished line | read, fold | Stream |
| Step-up, `step-up.ts` | PIN hash, attempts, tokens | verify, set, mint | StepUp |
| Tokens and tickets, `auth.ts`, `hub-jwt.ts`, `ui-ticket.ts` | tickets | validate, trade, consume | Gate |
| Terminal, `terminal.ts` | paused output | relay, drain, resize, close | Terminal |
| Page: `StepUpModal.tsx`, `lib/`, `routes/Chat.tsx` | held token, dialog, transcript, event source | gated fetch, prompt; pick, load, send, stream | Page, Chat |

What makes the code hard to test is what its `await`s allow. Two handlers never
run at the same instant, but any handler may run at an `await` of another, so
the questions are: what may have changed when an `await` returns; what a
failure in the middle leaves behind; what a retry repeats; and what a restart
forgets. In every module an action is the code between two awaits, with the
failure of the awaited call as an alternative of its own.

What makes each component correct, in short:

* registry: a message that was taken is in exactly one place until its turn is
  over, turns of a key are serial and in order, nothing waits without a worker;
* turn: a session id reaches the thread note only if claude has opened it, a
  turn is counted once, the reply is written once, the note and the callback
  tell what happened, and a reset means a fresh conversation;
* delegation: a callback answers a turn about a request, once, and goes to who asked;
  a request is run again only if the filter has forgotten it; and a chain that passes
  its depth on ends;
* attached queue: one session at a time works on a message, a handled message
  has its reply and stays handled, and a lost claim is given back;
* delivery: what is acknowledged was handed on, once; a listener is told its
  own channel's messages, in order, each once;
* runner: a job is never fired twice at a time, a slot fires once, an enabled
  job never falls silent, and the next run is the earliest one;
* definitions and vaults: only what is gone is taken down, what is live converges
  to what the notes say, approved grants stay, file and bindings agree;
* a turn's set-up: claude holds what was granted and nothing else, under its
  own spec's policy, and its output is read as it was written;
* access: the limiter cannot be outrun, a ticket opens one stream, a terminal
  needs both factors, and the page shows the channel that is selected.

## Modules

Some definitions stand unused before the definition they are a faulty variant
of. They document that the properties notice the difference; `mutants` in
`PROJECT.json` pairs them.

### TurnQueue: who serves a channel, queues and drains

| State | Code |
| --- | --- |
| `byChannel`, `nameToChannel`, `byThread` | the indexes of `ProgrammaticAgentRegistry` |
| `expected`, `pending` | `expectedChannels`, `pendingInbound` |
| `queues`, `draining` | the maps of the same name, by drain key |
| `workers` | the calls of `drain()` that have not settled, each with its agent, message and place |
| `replay` | the synchronous loop of `drainPending`, one iteration a step |
| `starting`, `stopping` | calls of `register` and of the daemon's teardown wrapper that wait at their `await` |
| `arrived`, `owned` | bound on the messages; history of the messages taken |

`Emit` is the three-way fork of the transport context's `emit()` (live agent,
expected channel, nobody); `ThreadInbound` is the webhook's resolve-or-create
path; `Register` and `Registered` are the two halves of `register()`;
`Deregister` and `Unexpect` are the registry's `deregister()` and the line the
daemon's wrapper runs after it; `EndTurn` is the return of a turn's last await
together with the loop head that picks the next message; `Settle` is the
`.finally` that removes the lock.

Continuations that wait for no I/O (`Registered`, `Unexpect`, `Settle`) precede
every other event, unless `MicrotaskRaces` is set: then any event may come
first, which covers a `backend.start` that really waits. The namespace of keys
is explicit: `Key` contains channel names and `<name>--<subject>`, and `Prefixed`
says which key begins with which name.

*SerialMailboxes* is the abstract promise: each key is a mailbox that runs one
message at a time in order and is idle only when nothing waits. TurnQueue
implements it (`ImplementsMailboxes`) with `waiting <- queues` and
`running <- RunningMsg`.

### Turn: one thread's turns, step by step

Opens what TurnQueue calls "running", for a thread whose note has a
deterministic path. The actions follow `drain()`: `ReadSession`; a record
(`ReadNote`, `WriteNote`) with status working; `deliver` with its retries
(`ClaudeRetries`) and its fallback to a new session (`SessionGone`); the end
record; the reply (`ReplyRetried`, `ReplyWritten`, `ReplyFailed`, the last of
which records the turn a second time) or the failure note; the callback.
`Reset` and `Restart` run beside it. A vault call may fail with a 4xx or a 5xx
answer, or lose its connection before or after the vault has acted; which of
these may happen where is a constant of the instance. Turns are serial here;
TurnQueue says when that is so.

### Delegation: agents that call each other back

`inbound` is the vault's notes in the order of writing, `untold` those for which the
vault has no 200 yet, `inbox` and `working` the queue and turn of each agent. `Arrive`
is the webhook: the answer may be lost (`Acknowledged`), so the vault posts the same note
again, and only the duplicate filter, which *InboundFilter* has for this module and
Inbound, keeps it from a second turn. The filter is in memory and short, so after a
restart (`Outage`) or past its cap a note may have another turn and, if it is a request,
another callback. Turns are therefore numbered by `arrivals`, the history of what the
filter has let pass, each with the note and the life of the daemon it arrived in.

claude may write requests in its turn (`Delegate`) with a depth that is passed on, left
out or garbage; a turn ends well or badly, its thread note is written or not, and
`writeCallback` writes the answer unless the message was itself a callback, names nobody,
or is at `MAX_DELEGATION_DEPTH`. `loyal` and `callbacks` are history of a note's chain.
The daemon tries the write of a callback once, so one that took effect and whose answer
was lost is a written one; notes have no files here, so marking and handing on are one
step (Inbound has both apart).

### AttachedQueue: claims in the vault

Sessions call `next-message`, `reply` and `release`; each is a chain of vault
calls with an action per call. The compare-and-swap of `claimNext` is
`unchanged[s]`: every write of a note clears it for all who have listed the
note. Time is the age of a claim in ticks up to the TTL. `Sweep` lists the
expired claims into the set `sweeping`, `Swept(m)` releases one of them with an
unconditional write, as the code does; their order is the vault's and left open.
Sessions may leave, may be late, and the daemon may restart.

*WorkQueue* is the abstract promise: a message is open, worked on by one
session, or done for good. AttachedQueue implements it among prompt sessions
and calls (`ImplementsWorkQueue`).

### Push, Inbound and Channels: delivery

*Push* is the live side of a channel. `client` and `leftover` are the streams
the daemon holds, with and without a reader; a bridge reads its `pipe` line by
line, in chunks that end anywhere (`lines`), and forwards whole frames (`told`);
MCP sessions have streams of their own (`session`, `heard`). `mark` and `saved`
are the delivery mark in memory and on disk.

*Inbound* extends Push with the webhook: a `handler` per open request, which
waits for the check of the token and, if the note has files, for their list,
while channels, backends (`backing`) and the daemon change; `seen` is the
filter with its cap. The vault posts a note until it is answered 200, and its
answers may be lost.

*Channels* extends Push with the live map, `channels.json` (`file`), the calls
that add, replace and remove a channel, and the Telegram poller of each
transport, with its offset, its batch and the loop that outlives a stop.

### Runner and Cron: scheduled jobs

*Runner* is `runner.ts` with the breaker of `backoff.ts` and the job notes of
`jobs.ts`. The interval does not wait for the last tick, so `ticks` holds
several, each with the time it began at and the list it has read:
`TickBegins` is `tick()` up to its await of the list, `Listed` the vault's read
of the notes, `Considered` the rest of the tick in one step (prune, seed, and
begin every due fire), `Fired` the `finally` of `fireOne`. `RunNow` and
`RunNowListed` are the two halves of a manual run, `ChangeNote` is anybody who
creates, edits, disables or deletes a job note, `Restart` forgets what is in
memory. Time is in minutes and a cron expression is the set of minutes at which
it matches. `last` and `forgotten` are history.

*Cron* is the search that Runner takes for granted: `Parse` turns the tokens of
an expression into sets and flags, and one iteration of the loop of
`nextRunAfter` is `Found`, `Crawl`, `SkipDay` or `GiveUp`. What the wall clock
of the zone shows at each instant is a constant, so a change of the clock is
part of the instance. The ceiling on the number of iterations is left out: the
bound on dead days is reached long before. An unknown zone throws before the
search and leaves no state behind.

### AgentDefs, NoteSpec, DefVaults, WebAgents: how agents come to be

*AgentDefs* is `AgentDefRegistry` against the notes of one vault. A *task* is an
activation: the poll (`loadAll` for definitions, then threads), a webhook's
reload, or a create, edit or delete of the API; every call of the vault or hub
is a step of its own, and what it read is kept in the task. `vault`, `stamp` and
`events` are the notes, the status written back to them and the webhooks on
their way (also those of the module's own writes); `live`, `memo` and `seen` are
the maps of the registry; `reg`, `chans` and `expected` are what
`buildInstantiateDeps` of the daemon changes; `hub` is the grants by name.

*NoteSpec* is what a note says: `parseAgentDef` and `parseThreadSpec`, with the
policy that follows from it. *DefVaults* is the vaults that definitions are read
from: `listed` (the file), `bound`, `agentsUp`, `triggers`, the boot, the poll
with its backoff, and overlapping additions. *WebAgents* is the agents started
from the page, whose `specs` on disk a boot registers again.

### Grants, Launch, SetUp, Spawns, Stream: around claude

*Grants* is the hub's store and `reconcileRole`: the save of a role note, its
webhook, the registration of wants and the prune. *Launch* extends it with one
turn's `deliver` up to the process: the reads of the role notes, the list of
grants, the material of each and where it goes (`slots`: entries of the MCP
configuration, variables, git remotes), credentials and the environment. *SetUp*
has the pure parts: wants, the prompt under its budget, the staging of attached
files, the environment shown to the operator. *Spawns* is several turns on
their way into the sandbox: files of a turn in its private workspace, the FIFO
lock (`chain`), the one `engine` with its proxy, retries and the fallback; turns
of one workspace do not overlap here, which is what `SerialContract` gives and
`serial` says when it fails.
*Stream* is `parseStreamJsonStream`: chunks that end anywhere, lines that are no
event, an output that breaks off.

### StepUp, Gate, Page, Chat, Terminal: the operator

*StepUp* is the daemon's PIN: the limiter counts an attempt before the awaited
hash, a success clears it, and both routes share the bucket. *Gate* extends it
with the hub's tokens (a token is its claims), the tickets they are traded for,
and what is opened with them; a `visit` is a request whose token is being
validated. *Page* extends it with `authedFetch`, `adminFetch` and the one
dialog. *Chat* is the chat page against its daemon: loads, sends and tickets
that are awaited, the one event source. *Terminal* is the relay of a pty's
output to a socket with the hub's cap, the two thresholds and the queue.

## Runs

A run composes the modules that one `MC` module extends. Its variable `env`,
chosen in the initial state and never changed, tells the environments of the run
apart: in each of them the actions of one module are taken, with bounds of its
own, and the other modules stay in their initial state. A property that holds
only in some environments says so in its definition in the `MC` module.

| Run | Environments | What it shows |
| --- | --- | --- |
| `core` | *core*: one multi-threaded agent, keys `a` and `a--x`, 3 messages, buffer cap 2, fair; *calm*: 4 messages, no teardown under a running drain; *moving*: a name that moves between two channels, thread-addressed messages, session reads that throw, 2 messages, cap 1; *racing*: one message, events before continuations | a lock always belongs to a drain that exists (`LockHeld`); each message is in one place until disposed of, in a buffer only of an expected channel (`MessagesKept`); in *core* and *calm* also in order and buffered only while no agent is live (`OwnKeptInOrder`); in *core* every queued message ends (`CoreMessagesEnd`); in *calm* the registry implements SerialMailboxes (`CalmImplementsMailboxes`) |
| `turn` | *faulty*: two turns, all faults of reads and records, replies with known outcome, reset and restart at any point; *steady*: three turns, a vault that keeps the note, failing claude and failing replies | no unopened session on the note, no turn counted twice, at most one reply, an honest callback, every turn ends; in *steady* counts, status, answers, resets and continuity are exact (`TruthIsLeft`, `SteadyResumes`) |
| `attached` | *prompt*: three sessions, two messages; *faulty*: two sessions that may be late, one message, failing calls with lost answers, restarts | a handled message has its reply, always; single claims, single replies and the refinement of WorkQueue in *prompt*; no message in flight for ever in *faulty* |
| `schedule` | *ticks*: one job that changes, two overlapping ticks, times 0 to 2, failing loads, restarts; *search*: 252 expressions, every start in two days, a clock that is set back once | no double fire; a slot fires once; no enabled job falls silent and every search ends (`NothingStalls`); the result of the search is the earliest match, and it gives up late enough (`SearchIsExact`) |
| `vault` | *rough*: two definitions and a thread of one name, a poll and a webhook or API call that overlap, malformed notes, lists cut at one note, no hub; *calm*: names of their own, tasks one at a time, grants, faults, a restart; *vaults*: DefVaults; *web*: WebAgents, three names, two channels | a live agent is taken down only when it is gone, replaced, or newer than the poll that prunes (`OnlyTheGone`); in *calm* approved grants of a declared want stay and the registry converges to the notes and stops stamping; file, bindings and running agents agree (`VaultsAgree`); a bound vault comes to be served; a channel is served by the agent it was last given, with its spec, across boots (`OwnersServe`) |
| `delivery` | *notes*: three notes, one with files, overlapping and repeated requests, a filter of one; *streams*: two bridges, an MCP session, broken streams, a restart; *bots*: two updates, overlapping calls and failing writes at a Telegram channel; *calm* and *boots*: the same with a restart, for one update and two calls, and for two updates and one call; *agents*: two agents that delegate, two requests, ceiling 1; *deep*: one request, ceiling 2, a restart, and an answer to the vault that is lost | what is acknowledged was handed on, and within the filter's memory once; what is told is of the right channel, rising; no update is skipped; file, live channels and pollers agree as long as no calls have overlapped and no removal has failed to be written since the boot (`ConfigurationAgrees`); each turn about a request has one callback, which is true; a note has a second turn only after a restart or past the filter; loyal chains end at the ceiling (`DelegationsAnswered`) |
| `access` | *clients*: two requests that overlap at the limiter; *page*: one page, two gated requests one at a time; *gate*: tokens, tickets, terminals; *chat*: picks, sends and breaks at any time; *calm*: an operator who waits; *terminal*: six chunks | `LimiterKeepsItsWord`, `CalmPromptsServe`, `OpenedByRight`, `ChatTrue`, `TerminalFlows` |
| `launch` | *launch*: two set-ups beside two changes or faults of roles, hub and operator; *setup*: one input a state: lists of three wants, prompts, attachments, environments, notes with two fields written; *spawns*: three turns at the lock; *stream*: outputs of three lines | nothing ungranted is held and what is granted arrives; no save or failing call takes a role's grants; set-up as the notes ask; each claude under its own policy with its own files; who waits gets the engine; live events and result are those of the whole |
| `serial` | as *core* with 4 messages | violated: a key has two concurrent turns after a teardown or archive under a running turn |
| `subject` | the thread of a subject, two turns, no faults | violated: its second turn does not resume the conversation |
| `lockout` | a page, a limiter of three attempts | violated: the operator is locked out after fewer entries than the limit |
| `deeplink` | the chat page opened on a channel | violated: it says live without a stream |

**Bounds.** The interesting cases of TurnQueue need one message in its turn and
two behind it (order in the queue, an eviction from a full buffer and a replay
of two), so three messages; the locks need two drains of a key, so two
registrations, which are not bounded. `DrainId` has as many identities as there
are messages, so a free one always exists. In Turn two turns suffice to see a
resume and a second one's records over the first's note; *steady* has three so
that a reset can lie between the first and the third. The retry bounds are the
code's. In AttachedQueue two sessions can race for a claim and a third can
take what one of them abandoned; `TTL` is one tick because only "before" and
"at or after" matter; two claim attempts show both outcomes of the backstop.
In Cron a day needs an hour to be repeated and hours around it, a month and a
week of different lengths, and more days than the bound on dead days; the
length of hours and days matters to nothing else. In Runner the jobs meet only
in the breaker, so one suffices; two ticks are one old and one new, and three
times let one slot pass while a fire for an earlier one is in progress. In
AgentDefs two definitions and a thread of one name are the fewest that can take
each other's place in each way the code knows, and a list of one note is cut
whenever two are there. In Inbound three notes push one out of a filter of one.
In Channels one update may be skipped for another and one call may overlap another; a
restart is combined with two of either, not of both, for size alone. In Delegation two requests make a chain with a callback on the way, and two
ceilings show an end at the ceiling and before it; one lost answer makes the vault repeat
one note, and a restart or the one other note that a filter of one forgets it for decide
whether it has a second turn. In Gate one request is
validated while the rest of the world moves; two tickets tell a second use from
another ticket. In Spawns the third turn queues behind a retry, and two of the
three share a workspace. In Stream every cut and every early end of three
lines are taken, so any event may be the one that is cut.

**Deadlock.** Sessions and the clock of AttachedQueue and the environments of
`vault`, in which the poll goes on, a removal of what is not there is answered and
channels can always be configured, do not stop, so their runs check for it. The other runs contain an environment
that ends when its bound is used up: messages, frames, updates, chunks, PIN
entries, or the one result of a search.

**Fairness.** The event loop runs every continuation and comes back to every
completed I/O (weak fairness of `Replay`, `Registered`, `Unexpect`). The steps
of a drain are strongly fair because other continuations may keep coming in
between. That a turn's child process exits is an assumption: the code has no
timeout for it, and the hazard list says so. In Turn, vault calls return and
timers fire. In AttachedQueue only the interval timer, the clock and the
sweep's writes are fair; nothing is asked of sessions. Cron's search is a plain
loop. In Runner the clock and the interval go on, the vault answers a load
every now and then (strong fairness), and a fire settles: an assumption about
the vault, since no call of it has a timeout. In AgentDefs and DefVaults the
interval polls, the backoff passes, calls return and the vault delivers its
webhooks. In Spawns only the turn at the engine is fair: its calls return or
throw. No liveness is stated of the page, the hub or the operator.

## Theorems

For any values of the constants that satisfy the modules' assumptions: any
number of agents, keys, messages, turns, retries, sessions, tickets.

*TurnQueueProofs*
* `Typing` - `TypeOK`, strengthened by: a replay in progress has a live agent
  (drainPending relies on it when it asks for the drain key).
* `LocksAreHeld` - `LockHeld`. Not inductive alone: the `.finally` of an old
  drain could delete its identity under a lock of the same key. The invariant
  needed is that drain identities are unique among unsettled drains.
* `SerialContract` - under `CalmSpec`, `SerialPerKey`. The invariant says that
  every unsettled drain holds the lock of its key; a second drain can then not
  start. The condition of `CalmSpec`, that a lock is only released by its
  holder, is exactly what `serial` shows to be violated by a teardown.
* `BuffersAreExpected` - `BufferedOnlyWhenExpected`, a conjunct of `MessagesKept`.
* `NothingLost` - `MessagesKept`: with any registrations, moves of names, teardowns,
  archived threads and session reads that throw, a message that the registry has
  taken is in exactly one buffer, replay, queue or turn until it is disposed of.
  The invariant `KeptInv` says that no message is twice in a buffer or twice under
  keys (`BufferedOnce`, `ServedOnce`), that the three kinds of place exclude each
  other, and that the messages owned are those in some place.
* `InArrivalOrder` - `KeptInOrder`, assuming that an agent's name is its channel
  (`OwnNames`), that drain keys of different agents differ (`OwnKeys`) and that
  messages to a thread are not owned before its agent exists (`~ThreadsWired`, as in the
  daemon's main). Without them the order does fail: a name that moves replays
  a buffer of one channel behind the messages of another. `OrderInv` adds to
  `KeptInv` that queues, buffers and the replay rise and that each comes after
  whatever the same keys already hold.
* `RefinesMailboxes` - `CalmSpec => ImplementsMailboxes`, assuming `OwnNames`, session
  reads that succeed and continuations that run before other events: every step of the
  registry is a step of SerialMailboxes or leaves the mailboxes as they are.
  `MailInv` has what the simulation needs: a running turn has a live agent, whose
  teardown clears the turn's key (`ServesLive`); nothing waits under a key without a
  drain (`IdleIsEmpty`); and a drain that settles is alone (`SettlesAlone`).
* `OwnMessagesInOrder` - `OwnKeptInOrder`, and `CalmIsMailboxes` -
  `CalmImplementsMailboxes`: the same two of the specification that `core` checks.

*TurnProofs*
* `Typing` - `TypeOK`, with: a turn that has passed its session read has an id.
* `NeverBricked` - `EstablishedOnly`. The invariant follows a session id from
  the note to what a turn has read, sends and records.
* `CountedOnce` - `TurnsCountedOnce`, from an invariant that relates the note's
  count, what has been read of it and the number of turns ended at each await
  of the turn.
* `HonestCallback` - `CallbackTellsOutcome` and `ReplyAtMostOnce`, when the
  outcome of a failed write of the reply is known (no `"lost"`).
* `TruthIsKept` - `TruthIsLeft`, under the same assumption. The steps of *steady* are
  first shown to be steps of Turn that read the note as it is and write it
  (`SteadyStep`). For them `TruthInv` says that the note is one step behind
  the record in progress and never two (`NoteFollows`), that whatever session is on the note, in
  a turn's hands or on its way back was drawn after the last reset (`Fresh`), and
  that a turn that is over has answered; `SteadyCount` that the note's count and
  the record in progress make the number of turns ended.
* `ConversationGoesOn` - `SteadyResumes`, assuming `~SubjectThread`. It is
  `NoteFollows` at the session read; for the thread of a subject the claim is false, which
  `subject` shows.

*AttachedQueueProofs*
* `RepliesPrecedeMarks` - `HandledHasReply`, under every fault, lateness and
  restart. The invariant: a session that is about to mark a message has its
  reply in the transcript, and replies stay.
* `ClaimsAreSingle` - `SingleClaim`, assuming `Prompt`: sessions act before their
  claims expire, calls take less than a tick and the vault carries each out
  once. The invariant `PromptInv` has five parts: a list that nobody has
  written over still shows a pending note; a call is younger than a tick; who
  works on a message has a claim of its own age on a note in flight; the sweep
  holds expired claims only; and no two sessions work on one message. Each is
  needed for the next.
* `RepliesAreSingle` - `AnsweredOnce`, assuming also that no restart comes
  between a reply and its mark.
* `QueueRefinesWorkQueue` - assuming `Prompt`, `Spec => ImplementsWorkQueue`:
  every step of the detailed queue is a step of WorkQueue or leaves its state
  as it is. The simulation cites `PromptInv` for the steps that write a status.
* `PromptQueueIsAQueue` - `PromptImplementsWorkQueue`, the property of the run, for
  any sessions and messages, assuming `Prompt` and no restart: the invariants of
  the three theorems above while the environment is "prompt", and a simulation
  that steps of the other environment leave alone.

*DeliveryProofs*
* `StreamsFit`, and from it `TellsInOrder` - `ToldInOrder`. The invariant is
  about what a bridge has told followed by what its pipe still holds: one rising
  sequence of its channel, not beyond the frames routed. A broken stream drops
  the second part, a reconnect begins it anew.
* `AcknowledgedIsHandedOn` - `AckedMeansHandedOnce`, for any cap of the filter, any
  number of requests in progress, and restarts. `InboundInv` says that the filter
  holds the newest of the notes it has let pass, each once (`Remembers`), that a note passes
  again only when at least the cap of others came between (`OnceWithinTheCap`),
  and that a note in the filter, which a repetition would be acknowledged for, keeps the
  promise of an acknowledged one: it is handed on, in the hands of a
  request, or was cut off by a restart (`Promised`).
* `TelegramIsHandled` - `TelegramHandlesAll`. Per poll loop the invariant says how
  its offset and the rest of its batch relate to what it has handled; what the
  bot has confirmed is dealt with, whichever loops of one name are still running.
* `ConfigurationIsKept` - `ConfigurationAgrees`. A call is one step or a chain with
  an await inside; between them the file, the live map and the running loops are
  compared with the call in progress (`Agreeing`) until a call finds another one in
  progress or cannot write (`upset`), after which the code promises nothing.
* `EveryRequestIsAnswered` - `DelegationsAnswered`, for any number of agents, notes,
  restarts and lost answers, and any cap of the filter. `InOnePlace`: a turn waits in one
  inbox, is under way or is over, once; `WellWritten`: what a note says of its cause, its
  reply address and its depth fits the turn that caused it; `Filtered`: the marks of the
  filter are the last of the arrivals and all before them are of an earlier life
  (`MarksOfThisLife`), and the filter keeps its word as in Inbound (`Remembers`,
  `OnceWithinTheCap`), so that what passes twice in one life was forgotten in between
  (`MarksForget`).

*AccessProofs*
* `GateIsKept`, and from it `OpenedRight` - `OpenedByRight`. The invariant says
  what each ticket and each step-up token in a store inherits from the exchange
  it came from (scopes, expiry, the life of the daemon), and of each ticket that
  is no longer in the store that it has expired, was forgotten by a restart, or
  has opened its stream.
* `LimiterIsKept` - `LimiterKeepsItsWord`, for any limit and window. `LimiterInv`:
  the attempts ascend in time (`Ascends`); the bucket is the end of the list of all
  attempts and what it has dropped is older than the window (`BucketIsTheEnd`); the
  time that a refused caller was told to come back at covers the oldest attempt
  (`PromiseCovers`); and any window holds no more attempts than the limit
  (`GuessesBounded`). `Recent` is the code's filter over an ascending list, written as
  the end of the list that is as long as the number of young entries.
* `OutputReachesThePage` - `TerminalFlows`, assuming that a chunk fits between the upper
  threshold and the cap. `FlowInv`: what is shown, what is in the socket and what is
  queued are numbered through without a gap (`Numbered`); only a paused terminal
  queues, and one that is not paused is below the threshold (`Paced`). That the
  amount of a list is the sum of its parts, however it is cut, comes from
  `AllNumbers`, as for the remotes in LaunchProofs.
* `RequestsAreServed` - `CalmPromptsServe`, for any number of requests, PINs, tokens
  and restarts, and an operator as in `Patient`. `PageInv`: a store that has
  forgotten a token never has it again with another date (`Ages`, `StoreKept`); of
  the submissions of the dialog one at most is under way, and one that exchanges a
  PIN has a request that waits for it (`JobsKept`); of the requests one at most
  is active, it prompts exactly while the dialog is its own, and what
  it was granted is what it sends as long as the page may use it (`RequestsKept`).
* `ChatShowsWhatIsThere` - `ChatTrue`. The streams follow the selection in both
  environments of the chat, because of `OneCycle`: what an earlier pick has left under way carries
  an older generation, and the newest pick loads, then awaits its ticket, then has its
  stream, one at a time. For an operator who waits (`Waits`), `CalmChat` says where
  a line of the page may come from: a note that was read, the echo of the one send under way, or a
  note that is on no transcript yet.

*LaunchProofs*
* `ClaudeHoldsOnlyGrants` - `NothingUngranted`. A credential passes through three
  hands before claude has it: the list of keys to ask, the collection of the source
  being asked, and the union. `GrantedInv` says of each that it holds only keys and
  tokens granted at some moment of the turn (`Grantee`, `Granted`), which later
  revocations leave true.
* `OnlyTheUnwantedIsPruned` - `RoleGrantsStay`, assuming `KeysDistinct`: `rolePathKey`
  and the key of an id do not collide. A task prunes by the note as it was read, so
  the step either agrees with the note as it is or the task was overtaken.
* `WhatIsGrantedArrives` - `GrantedArrives`, assuming `RolesDistinct` (as above, for the
  roles of the thread). `ArrivalInv` follows the order of the sources: the roles read
  so far have given their keys in the order of the thread (`Reading`, `InOrder`); of the
  sources gone by, each wanted token's slots are in the union, from this source
  or an earlier one (`Collecting`); of the source being asked, the slots are in its
  collection or its connection is still to be asked (`Asking`).
* `AllNumbers`, on which the last rests - a set of numbers with 0 and each successor is all
  of them. It is derived from the finiteness of intervals, because an induction rule
  takes an operator; with it, what a recursive function computes (`MergedRemotes`)
  is proved for every input.
* `LockIsExact` - the chain of the lock holds each waiting turn once, and only
  its head is at the engine.
* `OwnSandbox` - `SpawnedWithItsOwn`, from: the engine at a turn's `wrap` has that
  turn's configuration and proxy, and a turn's files stay its own from staging to
  the spawn, which is where the serialisation of a workspace is used.
* `PiecesAreTheWhole` - `StreamIsTheBlob`, for any output over the halves of any
  events. `StreamInv`: while the stream is open, what is parsed and what is
  buffered are the fold and the last line of all that was read. The step is
  `ReadInTwo`: to fold a text, and then a second one behind what was left of the
  first, is to fold both at once. That the recursive fold is defined on every
  text comes from `AllNumbers` (`StepByStep`).
* `SetUpIsExact` - `SetUpExact`, for wants, prompts and files of any number, any
  bytes, names and variables, and any note. No state changes here; the work is
  in the folds and in what they keep from element to element: of the wants
  `MergedTo` (which entries a connection stands for, and their order), of the
  files `OnDisk` (what is staged is on the disk under a name of its own;
  `NumberedIsNew`: one of k + 1 numbers is free among k names), of the prompt
  `Begins` (the entries kept are a beginning of the list, `ShedIsTheTail`). A
  note is compared field by field (`DefinedIs`, `ThreadedIs`).

*ScheduleProofs*
* `Typing` - an accepted expression allows some value in each field, none out of
  bounds.
* `Earliest` - `NextIsEarliest` and `GivesUpLate` (`SearchIsExact`), assuming
  `NeverSetForward`: the wall clock never gains on the instants and never goes
  back to an earlier day. The invariant says that nothing matches between the
  start and the cursor; a jump keeps it because such a clock still shows the
  dead day at every instant it skips.
* `FiredOnceAtATime` - `NoOverlap`. The marked jobs are exactly those of the
  fires in progress, so an unmarked job has none.
* `FiredOncePerSlot` - `OncePerSlot`. A horizon lies after its job's last
  scheduled fire; only a missing horizon can be set by an old tick, and it is
  missing only if it has been dropped (`forgotten`), or if every tick in progress
  began after the last fire.

*VaultProofs*
* `OnlyTheGoneFall` - `OnlyTheGone`. What a task has read and not yet acted on is part of
  the invariant (`TaskKnows`): the note it prunes is gone, or was not on its
  list, or has been taken over. An id of a note is never reused (`BornOnly`).
* `DeclaredGrantsAreKept` - `CalmGrantsStay`, assuming that tasks do not overlap and
  that every definition keeps a name of its own (`DefsHaveOwnNames`). Both are
  needed: with an overlap, or with two definitions of one name, TLC finds a pass
  that wipes a declared grant. The invariant (`CalmInv`) says what a
  task may still do at the hub: its content is a version of its note, and a thread
  that is being brought up with a hub pass, or a name that is being wiped there, is
  no live definition's (`Minds`); live definitions and threads share no name
  (`RightlyLive`), and a name that is remembered as seen is the definition's own
  (`KnownRightly`).
* `FileIsWhatIsBound` - `VaultsAgree`, assuming `Alone`: a boot has no call beside it,
  and neither has a removal. Without it the code does diverge (see below).
  The invariant relates each stage of a job to the file and the bindings it has
  still to change (`BootStages`, `JobsKnow`), and says that they are the same when
  no job is between its two writes (`SettledAgrees`).
* `OwnersAreServed` - `OwnersServe`. The invariant: a channel that is owed an agent
  is served by it or its spec is still to be read by the boot (`ServesOrWill`), the
  spec that a channel is owed is the one on disk (`OwedIsOnDisk`), and the two
  indexes are each other's inverse (`IndexesAgree`).

Assumptions on constants are the named `ASSUME`s of the modules; TLC evaluates
them in every run that extends the module. Those that are more than types: a note's
id is a definition's or a thread's, and there are finitely many definitions; no
marker (`None`, `Gone`, `NoSpec`, `Absent`) is a value it could be mistaken for; what
`buildSpecFromBody` accepts has a name and a channel of the instance; nothing that is
malformed or absent is a text or one of the code's own words (`NoteAssumption`).

**Only model-checked.** Liveness, in every module: `CoreMessagesEnd`, `TurnEnds`,
`FaultyClaimsEnd`, `NothingStalls`, `CalmConverges`, `EngineIsFreed`.

## Disagreements between the code and its documentation

With a run (quoted under `findings` in `PROJECT.json`): `serial`, `subject`,
`lockout`, `deeplink`.

Met while modelling, without a run of their own; properties except these cases
by name, in a comment or by a condition of the environment. Where that leaves a hazard
half covered, its `note` in `PROJECT.json` says which half.

Registry and turn:
* A drain that has seen its queue empty releases its lock in a later `.finally`
  (`registry.ts:1172`). A continuation that is already queued between the two enqueues a
  message that has no worker until the next one comes, against `registry.ts:1185` ("no
  missed wake"): with `MicrotaskRaces` TLC finds `CoreMessagesEnd` violated; *core* has
  continuations of the registry first.
* A session read that throws (`backends/registry.ts:1241`, outside any try)
  rejects the whole drain: messages queued behind the turn wait until another
  one comes, against `registry.ts:1185` ("no missed wake"). The turn itself ends
  without a callback, against `registry.ts:1464` ("an orchestrator MUST learn
  its sub-task failed").
* The second record of a turn whose reply failed adds its usage a second time
  (`registry.ts:1576`, `transports/vault.ts:1046`).
* The end record of a running turn writes back a session that a reset has
  cleared (`vault.ts:1072`).
* A reply whose write took effect but whose answer was lost is written again
  under a new uuid (`vault.ts:818`).
* `clearChannelQueues` drops every key that begins with `<name>--`
  (`registry.ts:779`), and so the queue of an agent called `a--b` when `a` is
  torn down, against `registry.ts:760` ("belonging to a channel"). Likewise
  `threadKey` (`registry.ts:756`) may make the key of another agent.
* When the vault is down, the record that corrects an undelivered reply fails
  with it and the note stays ok (`registry.ts:1571`).
* A chain of delegations in which claude leaves the depth out is not bounded
  (`daemon.ts:297`), against `registry.ts:276` ("BOUNDS any chain"); requests
  themselves are not counted. `AnyChainIsBounded` states the claim. A restart in
  the middle of a turn leaves the one who asked without an answer.

Attached queue:
* The sweep decides on a list it has read and writes `pending` with force
  (`attached-queue.ts:344`): a reply in between is overwritten and the handled
  message is open again, against `attached-queue.ts:12` ("a handled message is
  never re-presented"). The theorems assume prompt calls.
* The list of the queue is cut at the newest notes of all channels
  (`vault.ts:1731`): an old pending message may never be claimed.

Jobs:
* Horizons are not persisted and are seeded from now after a restart
  (`runner.ts:213`), so a job whose slot passed while the daemon was down does
  not fire, against `runner.ts:30` ("the daemon was down across one or more
  slots ... the job fires ONCE").
* A job that is edited or disabled keeps its horizon (`runner.ts:212`): it
  fires once more at the old time, or at once when enabled again.
* When the clock is set forward on a day that does not match, the jump over it
  (`cron.ts:376`) lands in the first hour of the next day and misses a match
  there; `Earliest` assumes `NeverSetForward`.

Definitions, vaults and web-started agents:
* Two definitions of one name, or one deleted and written anew: the unchanged one
  takes the fast path and its agent stays down (`agent-defs.ts:2125`).
* A malformed definition is stamped `error` on every reload, which fires its own
  trigger (`agent-defs.ts:2112`, `2138`, against `2185`); the same for a role
  (`1852`).
* A definition that is deleted while its instantiation awaits the hub comes up after
  its removal (`agent-defs.ts:2098`) and stays until a complete list lacks its note;
  `OnlyTheGone` is about what is taken down.
* A rename leaves the old agent running; a change of the backend leaves the agent
  in both registries, and its messages go to the wrong one (`daemon.ts:327`
  against `587`).
* After a restart a thread of the same name, reconciled first, prunes the
  definition's approved grants (`agent-defs.ts:2379`); so does a poll that has
  read an older note.
* A live thread's note edited through the definitions' API is reloaded as a
  definition and stamped `error` (against `agent-defs.ts:2259`).
* The webhook of a deleted role prunes the key of its id, while its grants are
  registered under its path (`agent-defs.ts:1833`, `1820`); untagging a role
  fires no trigger (`def-vault-triggers.ts:233`).
* Two removals that overlap both pass the check for the last vault
  (`daemon.ts:2824`); a load in flight brings up agents of a vault that has been
  removed (`agent-defs.ts:1504`); a boot without a binding sets no poll
  (`daemon.ts:4022`); adding a vault registers no triggers until a boot.
* Deleting a web-started agent leaves its `spec.json` (`daemon.ts:2502`), which a
  boot registers again; a name with `--` is accepted and skipped by the boot
  (`daemon.ts:1206`).

Delivery:
* The filter is in memory and forgets the oldest note at its cap (`daemon.ts:1618`), so a
  repetition after a restart, or a late one, is handed on again, against `daemon.ts:3185`
  ("a duplicate trigger delivery for the same note must not double-wake"): a request is
  run a second time, and the one who asked gets a second callback. `AnsweredAtMostOnce`
  states the claim, and TLC finds both ways to break it; a webhook for a channel that is not live yet is
  refused with 401 (`daemon.ts:3164`).
* The daemon's main never passes `threadResolvable` (`daemon.ts:3870`), so a
  thread that no channel serves is not resolved.
* An MCP session keeps the transport it connected with
  (`mcp-http.ts:553`), also after the channel was replaced.
* The mark of a channel passes over earlier messages that nobody took
  (`daemon.ts:427`).

Around claude:
* The pattern of the git helper for one surface also matches a surface whose path
  begins with its own (`grants.ts:892`); `GrantedArrives` excepts it. Two grants
  for one vault share an entry of the MCP configuration.
* `rolePathKey` ignores the vault and collapses characters (`grants.ts:950`), so
  two roles may share a key; RoleGrantsStay has distinct keys.
* The view of the environment tells `GITHUB_TOKEN` for a service that is granted
  as a server alone (`effective-env.ts:99`); `SetUpExact` excepts it.
* When a role, the definition and the thread share a path, `protectedCount` counts
  the duplicate too and protects an entry of the loadout in its place
  (`programmatic.ts:729` against `689`); `PromptKeeps` excepts it.
* The next spawn's reset ends the proxy of a restricted session that still runs
  (`sandbox/index.ts:141`), against `spawn-agent.ts:51` ("the spawned process runs
  independently"): `RunsIndependently`. The seeded home trusts only the first
  project of an agent (`spawn-agent.ts:511`): `CwdIsTrusted`.
* The directory of staged attachments is never emptied (`programmatic.ts:975`).

Access and the page:
* A ticket is spent by a request that is then refused for its scope
  (`ui-ticket.ts:96`); step-up tokens outlive a change of the PIN
  (`step-up.ts:198`); the daemon's own hub origin may be older than
  `expose-state.json`, and tokens of the other are refused (`hub-jwt.ts:138`).
* A late 403 clears a token that was just obtained (`api.ts:90`); a submission of
  a dialog that was dismissed closes the next one (`StepUpModal.tsx:186`). *page*
  has one request at a time.
* A message is shown twice when the reload precedes the answer of its send
  (`Chat.tsx:410`); a stream that breaks again after its ticket was spent is not
  reopened (`Chat.tsx:187`). *calm* has an operator who waits.
* Output that is queued when the pty exits is lost (`terminal.ts:372`).

## Not modelled, and why

* The edit of job notes over the API (`jobs.ts`, `daemon.ts`) and the bookkeeping
  of a job's last run: each call writes one note and keeps nothing. A slug that
  two channels share makes delete and run-now act on the first one found
  (`daemon.ts:2050`).
* The forms of the page (`Agents.tsx`, `CreateAgent.tsx`), static files, the
  service manifest, the preflight, CORS and the format of `credentials.json`:
  they load, show and save one thing and have no protocol with anything else.
* JWT verification, the sandbox engine, the vault, the hub, Telegram, tmux and
  claude are external; they appear through the answers they may give.
* Discovery of an OAuth server and the hub's own pages: a chain of requests
  whose result is shown and not kept.
* Wording, logging, token usage and time stamps of notes; the argument vector of
  claude; the payload of triggers.
* A multi-threaded agent's turn without a subject has a note of its own, so
  nothing is shared between turns.
* `_parked/`: code the daemon no longer calls.
* Restart and the queues: messages that wait in memory are lost by a documented
  choice (`registry.ts:502`); Delegation and Turn have the restart, TurnQueue does
  not, because nothing of its state survives one.

## Where the plan stands

All modules of the plan are written, and the safety properties of the registry, the
turn, the queue, delivery, the jobs, the definitions, the grants, the set-up, the sandbox, and of the
operator's side (limiter, gate, page, chat, terminal) are proved. Worth doing
next: a module for the job notes of several channels beside Runner.
