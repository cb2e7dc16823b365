------------------------------- MODULE Terminal -------------------------------
(***************************************************************************)
(* The relay between a terminal's pty and the page's socket                *)
(* (createTerminalWsHandlers of src/terminal.ts).  The hub closes a socket *)
(* that buffers too much, so output beyond a mark waits in a queue of the  *)
(* daemon, and a queue that grows too long closes the socket.              *)
(*                                                                         *)
(* The pty, the page, the network that empties the socket's buffer and the *)
(* call back of a drained buffer take steps in any order.  A chunk is its  *)
(* number and its size; the socket sends whole frames.                     *)
(*                                                                         *)
(* FlushesAll is a faulty variant of the definition that follows it.       *)
(***************************************************************************)
EXTENDS Naturals, Sequences

CONSTANTS
  HUB_WS_CAP_BYTES, \* what the hub lets a socket buffer
  MAX_QUEUE_BYTES,  \* what the daemon lets wait
  Sizes,            \* sizes of the chunks that the pty gives
  MaxDim,           \* the largest dimension of a pty
  Frames,           \* frames of the page: a resize, or keys
  MaxChunks, MaxFrames  \* bounds on chunks and frames

pauseAt == HUB_WS_CAP_BYTES \div 2
resumeAt == HUB_WS_CAP_BYTES \div 4

\* No chunk is as large as what lies between the mark and the cap.
ASSUME TerminalAssumption ==
  /\ {HUB_WS_CAP_BYTES, MAX_QUEUE_BYTES, MaxDim, MaxChunks, MaxFrames} \subseteq Nat /\ MaxDim > 0
  /\ Sizes \subseteq Nat \ {0} /\ \A n \in Sizes : n <= HUB_WS_CAP_BYTES - pauseAt
  /\ 0 < resumeAt /\ resumeAt < pauseAt

VARIABLES
  socket,    \* "open", "closing" (the server closed it, frames may still leave) or "shut"
  viewer,    \* the process that is attached to tmux: "none", "attached" or "gone"
  buffer,    \* the socket's own: frames that it has yet to send
  due,       \* has the buffer shrunk since drain was called last?
  queue,     \* chunks that wait while paused
  paused, torn, \* paused and closed of the code
  given,     \* chunks that the pty has given
  shown,     \* chunks that have left for the page
  geometry,  \* of the pty
  typed      \* frames of the page so far

terminalVars == <<socket, viewer, buffer, due, queue, paused, torn, given, shown, geometry, typed>>

TerminalInit ==
  /\ socket = "open" /\ viewer = "none"
  /\ buffer = <<>> /\ due = FALSE
  /\ queue = <<>> /\ paused = FALSE /\ torn = FALSE
  /\ given = 0 /\ shown = <<>>
  /\ geometry = [cols |-> 1, rows |-> 1]
  /\ typed = 0

\* getBufferedAmount, or queuedBytes.
Amount(s) ==
  LET sum[i \in 0 .. Len(s)] == IF i = 0 THEN 0 ELSE sum[i - 1] + s[i].n
  IN  sum[Len(s)]
Live == viewer = "attached" /\ ~torn

\* open: the viewer is spawned, or the socket is closed for want of one.
Attach ==
  /\ socket = "open" /\ viewer = "none"
  /\ \/ viewer' = "attached" /\ UNCHANGED socket
     \/ socket' = "closing" /\ UNCHANGED viewer
  /\ UNCHANGED <<buffer, due, queue, paused, torn, given, shown, geometry, typed>>

\* The pty, the viewer and the socket end, once.
Teardown == torn' = TRUE /\ viewer' = "gone" /\ socket' = "closing"

\* send: a socket with nothing buffered may pass the chunk on at once.
Forwarded(c) ==
  \/ buffer' = Append(buffer, c) /\ UNCHANGED shown
  \/ buffer = <<>> /\ shown' = Append(shown, c.id) /\ UNCHANGED buffer

\* forwardOrQueue, and enqueue.
Output(n) ==
  LET c == [id |-> given + 1, n |-> n] IN
  /\ Live /\ given < MaxChunks
  /\ given' = given + 1
  /\ IF paused
     THEN /\ queue' = Append(queue, c)
          /\ IF Amount(queue') > MAX_QUEUE_BYTES THEN Teardown ELSE UNCHANGED <<torn, viewer, socket>>
          /\ UNCHANGED <<buffer, shown, paused>>
     ELSE /\ Forwarded(c)
          /\ paused' = (Amount(buffer') >= pauseAt)
          /\ UNCHANGED <<queue, torn, viewer, socket>>
  /\ UNCHANGED <<due, geometry, typed>>

\* The network takes a frame.
Leaves ==
  /\ socket # "shut" /\ buffer # <<>>
  /\ shown' = Append(shown, Head(buffer).id)
  /\ buffer' = Tail(buffer)
  /\ due' = TRUE
  /\ UNCHANGED <<socket, viewer, queue, paused, torn, given, geometry, typed>>

\* The whole queue is sent at once.
FlushesAll(b, q) == Len(q)

\* flushQueue: chunks are sent as long as the buffer is below the mark.
Flushed(b, q) ==
  CHOOSE k \in 0 .. Len(q) :
    /\ k < Len(q) => Amount(b \o SubSeq(q, 1, k)) >= pauseAt
    /\ \A i \in 0 .. k - 1 : Amount(b \o SubSeq(q, 1, i)) < pauseAt

\* Forwarding goes on once the buffer is low.
Resumes(b, q) == Amount(b) <= resumeAt /\ q = <<>>

\* drain; the socket may pass the first j chunks on at once.
Drain ==
  /\ due /\ due' = FALSE
  /\ IF ~Live THEN UNCHANGED <<buffer, queue, shown, paused>>
     ELSE \E j \in 0 .. Len(queue) :
       LET rest == SubSeq(queue, j + 1, Len(queue))
           k == Flushed(buffer, rest)
       IN
       /\ j > 0 => buffer = <<>>
       /\ shown' = shown \o [i \in 1 .. j |-> queue[i].id]
       /\ buffer' = buffer \o SubSeq(rest, 1, k)
       /\ queue' = SubSeq(rest, k + 1, Len(rest))
       /\ paused' = (paused /\ ~Resumes(buffer', queue'))
  /\ UNCHANGED <<socket, viewer, torn, given, geometry, typed>>

clampDim(n) == IF n < 1 THEN 1 ELSE IF n > MaxDim THEN MaxDim ELSE n

\* parseControlFrame: what is no resize is input.
Control(f) == f.type = "resize"

\* message: a frame that comes when the pty is not there is dropped.
Message(f) ==
  /\ socket = "open" /\ typed < MaxFrames
  /\ typed' = typed + 1
  /\ geometry' = IF Live /\ Control(f) THEN [cols |-> clampDim(f.cols), rows |-> clampDim(f.rows)]
                 ELSE geometry
  /\ UNCHANGED <<socket, viewer, buffer, due, queue, paused, torn, given, shown>>

\* tmux detaches or the session ends: what waits in the queue is not sent.
PtyExits ==
  /\ Live /\ Teardown
  /\ UNCHANGED <<buffer, due, queue, paused, given, shown, geometry, typed>>

\* close: the page left, or the server's closing is through.
SocketCloses ==
  /\ socket # "shut" /\ socket' = "shut"
  /\ torn' = TRUE
  /\ viewer' = IF viewer = "none" THEN "none" ELSE "gone"
  /\ due' = FALSE
  /\ UNCHANGED <<buffer, queue, paused, given, shown, geometry, typed>>

TerminalNext ==
  \/ Attach \/ Leaves \/ Drain \/ PtyExits \/ SocketCloses
  \/ \E n \in Sizes : Output(n)
  \/ \E f \in Frames : Message(f)

-----------------------------------------------------------------------------
(* Properties.                                                              *)

Ids(s) == [i \in DOMAIN s |-> s[i].id]

\* The page is shown what the pty gave, in order; while the terminal is live
\* nothing of it is lost.
OutputInOrder ==
  /\ \A i \in DOMAIN shown : shown[i] = i
  /\ Live => shown \o Ids(buffer) \o Ids(queue) = [i \in 1 .. given |-> i]

\* A flood stays below the hub's cap and within the queue.
BelowTheCap == Amount(buffer) < HUB_WS_CAP_BYTES /\ (Live => Amount(queue) <= MAX_QUEUE_BYTES)

\* What waits is woken: a drain is due, or follows the frames in the buffer.
NeverStalls == Live /\ (paused \/ queue # <<>>) => buffer # <<>> \/ due

\* The viewer goes with its socket.
ViewerReleased == socket = "shut" => viewer # "attached"

TerminalFlows == OutputInOrder /\ BelowTheCap /\ NeverStalls /\ ViewerReleased
=============================================================================
