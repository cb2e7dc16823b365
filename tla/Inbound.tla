------------------------------- MODULE Inbound -------------------------------
(***************************************************************************)
(* The vault's inbound webhook, POST /api/vault/inbound (src/daemon.ts):   *)
(* authenticate, resolve the channel, drop what was seen, hand the note to *)
(* the channel's transport, which emits it (ingestInbound in               *)
(* src/transports/vault.ts) to an agent's queue or to the live streams of  *)
(* module Push.                                                            *)
(*                                                                         *)
(* The vault posts a note until it is answered 200; an answer may be lost, *)
(* and the same note may be posted twice at a time.  Between the look-up   *)
(* of the channel and the emission a handler waits for the check of the    *)
(* token and, when the note has files, for the list of them; meanwhile     *)
(* channels come and go, agents change their backend, other handlers run   *)
(* and the daemon restarts.                                                *)
(*                                                                         *)
(* SeenFirst is a faulty variant of Post.                                  *)
(***************************************************************************)
EXTENDS Push, InboundFilter

CONSTANTS
  Note,                \* the notes of the vault, numbered in the order of their time
  NoteChannel,         \* [Note -> Channel]: metadata.thread, agent or channel
  WithFiles,           \* the notes with attachments in the trigger's payload
  ByThread,            \* the notes addressed by metadata.thread
  Request,             \* the requests of the vault that may be open at a time
  ThreadsResolvable,   \* whether the daemon was given threadResolvable
  Backing,             \* the sets of registries that may know a channel's agent
  MaxPosts             \* bound: requests of the vault

ASSUME InboundAssumption ==
  /\ Note \subseteq Nat \ {0} /\ NoteChannel \in [Note -> Channel]
  /\ WithFiles \subseteq Note /\ ByThread \subseteq Note
  /\ MaxPosts \in Nat
  /\ ThreadsResolvable \in BOOLEAN
  /\ Backing \subseteq SUBSET {"attached", "live", "expected"}

VARIABLES
  open,           \* the channels with a live vault transport
  backing,        \* which registries know an agent of the channel
  handler,        \* the requests that are being handled
  acked,          \* the notes whose request was answered 200
  handed,         \* how often a note was handed on
  cut,            \* history: notes a restart took out of a handler after marking
  posts           \* the requests so far

inboundVars == <<open, backing, handler, acked, handed, cut, posts>>

Idle == [pc |-> "idle"]
Handler == {Idle} \cup [pc : {"auth", "files", "thread"}, note : Note, live : BOOLEAN]

InboundInit ==
  /\ open \in SUBSET Channel
  /\ backing \in [Channel -> Backing]
  /\ handler = [r \in Request |-> Idle]
  /\ FilterInit
  /\ acked = {}
  /\ handed = [n \in Note |-> 0]
  /\ cut = {}
  /\ posts = 0

-----------------------------------------------------------------------------
(* emit: the fork on the backend of the channel's agent                    *)

\* attached: the note is the queue item; live: a turn is queued; expected:
\* buffered until the agent is there; otherwise pushed to whoever listens.
Emit(n) ==
  LET c == NoteChannel[n] IN
  /\ handed' = [handed EXCEPT ![n] = @ + 1]
  /\ IF backing[c] # {} THEN UNCHANGED pushVars ELSE PushMessage(c, n)

\* The answer reaches the vault or is lost.
Answer200(r, n) ==
  /\ handler' = [handler EXCEPT ![r] = Idle]
  /\ acked' \in {acked, acked \cup {n}}

-----------------------------------------------------------------------------
(* The handler                                                             *)

\* The faulty variant: the note is marked before the token is checked.
SeenFirst(r, n) ==
  /\ handler[r] = Idle
  /\ posts < MaxPosts
  /\ posts' = posts + 1
  /\ handler' = [handler EXCEPT ![r] = [pc |-> "auth", note |-> n,
                                        live |-> NoteChannel[n] \in open]]
  /\ IF Seen(n) THEN UNCHANGED filterVars ELSE MarkSeen(n)
  /\ UNCHANGED <<open, backing, acked, handed, cut>>
  /\ UNCHANGED pushVars

\* The body is parsed and the channel looked up; the token is being checked.
Post(r, n) ==
  /\ handler[r] = Idle
  /\ posts < MaxPosts
  /\ posts' = posts + 1
  /\ handler' = [handler EXCEPT ![r] = [pc |-> "auth", note |-> n,
                                        live |-> NoteChannel[n] \in open]]
  /\ UNCHANGED <<open, backing, acked, handed, cut>> /\ UNCHANGED filterVars
  /\ UNCHANGED pushVars

\* 401: the token or the secret is refused, or nothing maps to the channel.
Refuse(r) ==
  /\ handler[r].pc = "auth"
  /\ handler' = [handler EXCEPT ![r] = Idle]
  /\ UNCHANGED <<open, backing, acked, handed, cut, posts>> /\ UNCHANGED filterVars
  /\ UNCHANGED pushVars

\* The request is authorized and the channel was live when it was looked up.
Ingest(r) ==
  LET n == handler[r].note IN
  /\ handler[r].pc = "auth" /\ handler[r].live
  /\ CASE Seen(n) ->
            /\ Answer200(r, n)
            /\ UNCHANGED filterVars /\ UNCHANGED handed /\ UNCHANGED pushVars
       [] ~Seen(n) /\ n \in WithFiles ->
            /\ MarkSeen(n)
            /\ handler' = [handler EXCEPT ![r].pc = "files"]
            /\ UNCHANGED <<acked, handed>> /\ UNCHANGED pushVars
       [] ~Seen(n) /\ n \notin WithFiles ->
            /\ MarkSeen(n)
            /\ Emit(n)
            /\ Answer200(r, n)
  /\ UNCHANGED <<open, backing, cut, posts>>

\* The list of files came or failed: the note is emitted either way.
FilesFetched(r) ==
  LET n == handler[r].note IN
  /\ handler[r].pc = "files"
  /\ Emit(n)
  /\ Answer200(r, n)
  /\ UNCHANGED <<open, backing, cut, posts>> /\ UNCHANGED filterVars

\* No live channel, but the note names a thread that may come.
AskThread(r) ==
  /\ handler[r].pc = "auth" /\ ~handler[r].live
  /\ handler[r].note \in ByThread /\ ThreadsResolvable
  /\ handler' = [handler EXCEPT ![r].pc = "thread"]
  /\ UNCHANGED <<open, backing, acked, handed, cut, posts>> /\ UNCHANGED filterVars
  /\ UNCHANGED pushVars

\* The thread is live, or it is resolvable and the daemon owns the message
\* until its agent is there; a note that was seen is acknowledged only.
OwnForThread(r) ==
  LET n == handler[r].note
      c == NoteChannel[n] IN
  /\ handler[r].pc = "thread"
  /\ backing' = IF "live" \in backing[c] THEN backing
                ELSE [backing EXCEPT ![c] = @ \cup {"expected"}]
  /\ IF Seen(n) THEN UNCHANGED filterVars /\ UNCHANGED handed
     ELSE MarkSeen(n) /\ handed' = [handed EXCEPT ![n] = @ + 1]
  /\ Answer200(r, n)
  /\ UNCHANGED <<open, cut, posts>>
  /\ UNCHANGED pushVars

UnknownThread(r) ==
  /\ handler[r].pc = "thread"
  /\ "live" \notin backing[NoteChannel[handler[r].note]]
  /\ handler' = [handler EXCEPT ![r] = Idle]
  /\ UNCHANGED <<open, backing, acked, handed, cut, posts>> /\ UNCHANGED filterVars
  /\ UNCHANGED pushVars

-----------------------------------------------------------------------------
(* The surroundings                                                        *)

\* A channel with its agent comes or goes, or the agent's backend changes
\* (module AgentDefs); a waiting handler keeps the transport it looked up.
ChannelChanges(c) ==
  /\ open' \in {open \cup {c}, open \ {c}}
  /\ \E b \in Backing : backing' = [backing EXCEPT ![c] = b]
  /\ UNCHANGED <<handler, acked, handed, cut, posts>> /\ UNCHANGED filterVars
  /\ UNCHANGED pushVars

InboundRestart ==
  /\ \E now \in Note \cup {boot} : now >= boot /\ PushRestart(now)
  /\ handler' = [r \in Request |-> Idle]
  /\ FilterEmptied
  /\ cut' = cut \cup {n \in Note : \E r \in Request : handler[r].pc = "files"
                                                    /\ handler[r].note = n}
  /\ UNCHANGED <<open, backing, acked, handed, posts>>

HandlerNext ==
  \E r \in Request :
    \/ Refuse(r) \/ Ingest(r) \/ FilesFetched(r)
    \/ AskThread(r) \/ OwnForThread(r) \/ UnknownThread(r)
    \/ \E n \in Note : Post(r, n)

InboundNext ==
  \/ HandlerNext
  \/ \E n \in Note : ChannelChanges(NoteChannel[n])
  \/ InboundRestart

InboundSpec == PushInit /\ InboundInit /\ [][InboundNext]_<<pushVars, filterVars, inboundVars>>

-----------------------------------------------------------------------------
(* Properties                                                              *)

BeingHandled(n) == \E r \in Request : handler[r].pc = "files" /\ handler[r].note = n

\* A 200 is a promise, for the vault does not post the note again
\* (daemon.ts:358, 3132): what was acknowledged was handed on, or is about to
\* be, or was lost in the one way the code leaves open: a second request for
\* it was acknowledged while the first still fetched its files, and the daemon
\* restarted.
NoSilentLoss ==
  \A n \in acked : handed[n] > 0 \/ BeingHandled(n) \/ n \in cut

\* Both halves of the webhook's promise: once acknowledged a note is handed
\* on, and within the filter's memory only once.
AckedMeansHandedOnce == NoSilentLoss /\ OnceWithinTheCap
=============================================================================
