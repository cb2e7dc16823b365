-------------------------------- MODULE Push --------------------------------
(***************************************************************************)
(* The live side of a channel (src/routing.ts, src/mcp-http.ts,            *)
(* src/delivery-state.ts, src/bridge.ts and the emit function of           *)
(* contextFor in src/daemon.ts).                                           *)
(*                                                                         *)
(* A stdio bridge holds one SSE stream on /events and forwards each frame  *)
(* to its Claude session; an MCP session holds a push stream of its own.   *)
(* A message that no agent's queue takes is routed to every stream of its  *)
(* channel, and the delivery mark of the channel moves to the time of the  *)
(* newest message that some stream took.  Streams break before the daemon  *)
(* notices, chunks of a stream end anywhere, and the daemon restarts.      *)
(*                                                                         *)
(* A frame has three lines (event, data, blank): bridges read whole lines, *)
(* in chunks of any number of them.  FannedEverywhere is a faulty variant  *)
(* of the definition that follows it.                                      *)
(***************************************************************************)
EXTENDS Integers, Sequences, FiniteSets

CONSTANTS
  Channel,         \* the names of the channels
  Bridge,          \* the stdio bridges, one per local Claude session
  Session,         \* the sessions over HTTP MCP
  Listens,         \* [Bridge \cup Session -> Channel]: what each subscribes to
  MaxFrames,       \* bound: frames ever routed
  MaxBreaks,       \* bound: streams ever broken
  MaxRestarts      \* bound: restarts of the daemon

ASSUME PushAssumption ==
  /\ Listens \in [Bridge \cup Session -> Channel]
  /\ MaxFrames \in Nat /\ MaxBreaks \in Nat /\ MaxRestarts \in Nat

VARIABLES
  routed,          \* the number of frames routed so far
  client,          \* the bridges whose stream the daemon holds and the bridge reads
  leftover,        \* the bridges of which the daemon still holds a stream nobody reads
  pipe,            \* what a bridge's stream holds and the bridge has not read
  lines,           \* the lines of the first frame in the pipe that were read already
  told,            \* the frames a bridge forwarded to its Claude session
  session,         \* the state of an MCP session
  heard,           \* the frames an MCP session received
  mark, saved,     \* the delivery marks in memory and in delivery-state.json
  boot,            \* the boot time of the daemon
  breaks, restarts \* how often a stream broke, the daemon restarted

pushVars == <<routed, client, leftover, pipe, lines, told, session, heard,
              mark, saved, boot, breaks, restarts>>

Time == 0 .. MaxFrames
Frame == [kind : {"message", "permission_verdict"}, channel : Channel, at : Nat]

PushInit ==
  /\ routed = 0
  /\ client = {}
  /\ leftover = {}
  /\ pipe = [b \in Bridge |-> <<>>]
  /\ lines = [b \in Bridge |-> 0]
  /\ told = [b \in Bridge |-> <<>>]
  /\ session = [s \in Session |-> "none"]
  /\ heard = [s \in Session |-> <<>>]
  /\ mark = [c \in Channel |-> 0]
  /\ saved = [c \in Channel |-> 0]
  /\ boot = 0
  /\ breaks = 0
  /\ restarts = 0

-----------------------------------------------------------------------------
(* Fan-out                                                                 *)

\* The members of S, bridges or sessions, that listen to c.
On(S, c) == {x \in S : Listens[x] = c}

\* The faulty variant: the filter on the channel is lost.
FannedEverywhere(c, kind) ==
  LET frame == [kind |-> kind, channel |-> c, at |-> routed + 1] IN
  /\ pipe' = [b \in Bridge |-> IF b \in client THEN Append(pipe[b], frame) ELSE pipe[b]]
  /\ heard' = [s \in Session |->
                 IF session[s] = "live" THEN Append(heard[s], frame) ELSE heard[s]]

\* A frame reaches every stream of its channel and no other.
Fanned(c, kind) ==
  LET frame == [kind |-> kind, channel |-> c, at |-> routed + 1] IN
  /\ pipe' = [b \in Bridge |->
                IF b \in On(client, c) THEN Append(pipe[b], frame) ELSE pipe[b]]
  /\ heard' = [s \in Session |->
                 IF s \in On(Session, c) /\ session[s] = "live"
                 THEN Append(heard[s], frame) ELSE heard[s]]

\* The streams that took the frame, though nobody may read it: a stream left
\* over from a broken connection, and a session whose stream broke unnoticed,
\* may still accept it.  A left-over client that throws is dropped.
Route(c, kind, taken) ==
  /\ routed < MaxFrames
  /\ routed' = routed + 1
  /\ Fanned(c, kind)
  /\ taken \in SUBSET (On(leftover, c) \cup {s \in On(Session, c) : session[s] = "broken"})
  /\ leftover' = leftover \ (On(leftover, c) \ taken)
  /\ UNCHANGED <<client, lines, told, session, boot, breaks, restarts>>

Delivered(c, taken) ==
  On(client, c) \cup {s \in On(Session, c) : session[s] = "live"} \cup taken # {}

LastDelivered(c) == IF mark[c] = 0 THEN boot ELSE mark[c]

\* DeliveryState.advance: the mark moves forward only; a failed write leaves
\* the file as it was, and a write that works leaves all marks in it.
Advance(c, ts) ==
  IF ts > LastDelivered(c)
  THEN /\ mark' = [mark EXCEPT ![c] = ts]
       /\ saved' \in {mark', saved}
  ELSE UNCHANGED <<mark, saved>>

\* The push half of emit: SSE bridges, then MCP sessions, then the mark.  A
\* message without a time (0) leaves the mark alone.
PushMessage(c, ts) ==
  \E taken \in SUBSET (leftover \cup Session) :
    /\ Route(c, "message", taken)
    /\ IF Delivered(c, taken) THEN Advance(c, ts) ELSE UNCHANGED <<mark, saved>>

\* emitPermissionVerdict: whoever listens gets it, and nobody keeps it.
PushVerdict(c) ==
  \E taken \in SUBSET (leftover \cup Session) :
    /\ Route(c, "permission_verdict", taken)
    /\ UNCHANGED <<mark, saved>>

-----------------------------------------------------------------------------
(* Bridges                                                                 *)

\* GET /events, at once or three seconds after an error.
Connect(b) ==
  /\ b \notin client
  /\ client' = client \cup {b}
  /\ UNCHANGED <<routed, leftover, pipe, lines, told, session, heard, mark, saved, boot,
                 breaks, restarts>>

\* The connection breaks: what it held is lost, and the daemon may keep the
\* client until it notices.
Break(b) ==
  /\ b \in client
  /\ breaks < MaxBreaks
  /\ breaks' = breaks + 1
  /\ client' = client \ {b}
  /\ leftover' = leftover \cup {b}
  /\ pipe' = [pipe EXCEPT ![b] = <<>>]
  /\ lines' = [lines EXCEPT ![b] = 0]
  /\ UNCHANGED <<routed, told, session, heard, mark, saved, boot, restarts>>

\* The stream's cancel callback.
Cancel(b) ==
  /\ b \in leftover
  /\ leftover' = leftover \ {b}
  /\ UNCHANGED <<routed, client, pipe, lines, told, session, heard, mark, saved, boot,
                 breaks, restarts>>

\* One chunk of n lines arrives.  The fields of a frame are kept only within a
\* chunk: a frame whose first lines came with an earlier chunk is dropped.
Read(b, n) ==
  /\ b \in client
  /\ n \in 1 .. 3 * Len(pipe[b]) - lines[b]
  /\ LET whole == (lines[b] + n) \div 3
         first == IF lines[b] = 0 THEN 1 ELSE 2 IN
       /\ told' = [told EXCEPT ![b] = @ \o SubSeq(pipe[b], first, whole)]
       /\ pipe' = [pipe EXCEPT ![b] = SubSeq(@, whole + 1, Len(@))]
       /\ lines' = [lines EXCEPT ![b] = (@ + n) % 3]
  /\ UNCHANGED <<routed, client, leftover, session, heard, mark, saved, boot, breaks, restarts>>

-----------------------------------------------------------------------------
(* Sessions over HTTP MCP                                                  *)

\* none -> mute: POST initialize; mute -> live: GET opens the push stream;
\* live -> broken: the stream breaks unnoticed; broken -> mute: noticed;
\* any -> none: DELETE, or the transport closes.
SessionStep(s, from, to) ==
  /\ session[s] = from
  /\ <<from, to>> \in {<<"none", "mute">>, <<"mute", "live">>, <<"live", "broken">>,
                       <<"broken", "mute">>, <<"mute", "none">>, <<"live", "none">>}
  /\ IF to = "broken" THEN breaks < MaxBreaks /\ breaks' = breaks + 1 ELSE UNCHANGED breaks
  /\ session' = [session EXCEPT ![s] = to]
  /\ UNCHANGED <<routed, client, leftover, pipe, lines, told, heard, mark, saved, boot, restarts>>

SessionMoves(s) ==
  \E from \in {"none", "mute", "live", "broken"} :
    \E to \in {"none", "mute", "live", "broken"} : SessionStep(s, from, to)

-----------------------------------------------------------------------------
(* The daemon restarts: streams, sessions and unsaved marks are gone, and   *)
(* a channel without a mark starts from the boot time.                     *)

PushRestart(now) ==
  /\ restarts < MaxRestarts
  /\ restarts' = restarts + 1
  /\ client' = {}
  /\ leftover' = {}
  /\ pipe' = [b \in Bridge |-> <<>>]
  /\ lines' = [b \in Bridge |-> 0]
  /\ session' = [s \in Session |-> "none"]
  /\ mark' = saved
  /\ boot' = now
  /\ UNCHANGED <<routed, told, heard, saved, breaks>>

\* A transport emits messages and verdicts, messages in any order of their
\* times, and streams come and go.
PushNext ==
  \/ \E c \in Channel : PushVerdict(c) \/ \E ts \in Time : PushMessage(c, ts)
  \/ \E b \in Bridge : Connect(b) \/ Break(b) \/ Cancel(b)
  \/ \E b \in Bridge : \E n \in 1 .. 3 * MaxFrames : Read(b, n)
  \/ \E s \in Session : SessionMoves(s)
  \/ \E now \in Time : now >= boot /\ PushRestart(now)

PushSpec == PushInit /\ [][PushNext]_pushVars

-----------------------------------------------------------------------------
(* Properties                                                              *)

Rising(frames) == \A i, j \in DOMAIN frames : i < j => frames[i].at < frames[j].at

\* What a Claude session is told (bridge.ts:295, mcp-http.ts:265), over all of
\* its connections, is of its own channel and in the order of routing, with no
\* frame twice: a stream may lose frames, at a break or at the seam of two
\* chunks, and never repeats or reorders them.
ToldInOrder ==
  /\ \A b \in Bridge :
       /\ Rising(told[b] \o pipe[b])
       /\ \A i \in DOMAIN told[b] : told[b][i].channel = Listens[b]
  /\ \A s \in Session :
       /\ Rising(heard[s])
       /\ \A i \in DOMAIN heard[s] : heard[s][i].channel = Listens[s]
=============================================================================
