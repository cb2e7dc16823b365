-------------------------------- MODULE Turn --------------------------------
(***************************************************************************)
(* The turns of one thread with a deterministic identity (a single-threaded*)
(* agent, or a named subject of a multi-threaded one): the body of the loop*)
(* of drain() in src/backends/registry.ts, the thread note that            *)
(* src/transports/vault.ts rolls up with a plain read and a write, the     *)
(* retries of src/backends/programmatic.ts, and the session reset that may *)
(* run beside them.  The turns are serial here; TurnQueue says when that   *)
(* is so.                                                                  *)
(*                                                                         *)
(* Every call to the vault or to claude is an await, and a step of its own.*)
(* A vault call fails as its fault says: "rejected" (a 4xx answer) and     *)
(* "server" (a 5xx answer) leave the vault as it was; "cut" is a network   *)
(* error before the vault has acted and "lost" one after it has.           *)
(*                                                                         *)
(* Definitions that no other one uses stand before the definition that they*)
(* are a faulty variant of; the properties below tell the two apart.       *)
(***************************************************************************)
EXTENDS Naturals, FiniteSets

CONSTANTS
  MaxTurns,              \* bound on the turns
  TURN_MAX_ATTEMPTS,     \* runs of claude for one session
  OUTBOUND_MAX_RETRIES,
  MAX_DELEGATION_DEPTH,
  SubjectThread,         \* is this the thread of a subject?
  ReadFaults,            \* faults of the session read before the turn
  NoteFaults,            \* faults of the reads and writes of the thread note
  ReplyFaults,           \* faults of the write of the reply
  ResetMidTurn,          \* may the session be reset while a turn runs?
  CanRestart,            \* may the daemon restart?
  None

Faults == {"rejected", "server", "cut", "lost"}
ASSUME BoundAssumption ==
  /\ {MaxTurns, TURN_MAX_ATTEMPTS} \subseteq Nat \ {0}
  /\ {OUTBOUND_MAX_RETRIES, MAX_DELEGATION_DEPTH} \subseteq Nat
ASSUME NoneAssumption == None \notin Nat \cup {"working", "ok", "error"}
ASSUME FaultAssumption ==
  /\ ReadFaults \subseteq Faults /\ NoteFaults \subseteq Faults
  /\ ReplyFaults \subseteq Faults
  /\ {SubjectThread, ResetMidTurn, CanRestart} \subseteq BOOLEAN

VARIABLES
  note,        \* the thread note at the deterministic path in the vault
  pc,          \* the await the turn is at, or "idle"
  turn,        \* turns begun
  request,     \* the delegation depth of a message with a reply_to, or None
  session,     \* turnSession: the session id given to claude, and if to resume it
  rec,         \* the record being written to the note
  prior,       \* what writeThread has read of the note
  tries,       \* failed attempts of claude or of the write of the reply
  result,      \* the DeliverResult
  replies,     \* notes in the vault that carry this turn's reply
  called,      \* status of the callback attempted for this turn, or None
  established, \* history: the sessions claude has opened
  drawn,       \* history: session ids drawn; they are 1, 2, ...
  ended,       \* history: turns that reached their end record
  kept,        \* history: session of the last such turn to have one, None when reset
  wiped,       \* history: value of drawn at the last reset
  stale        \* history: value of wiped when the turn began

atTurn == <<turn, request, stale>>
delivery == <<session, result, established, drawn>>
answers == <<replies, called>>
counted == <<ended, kept>>
vars == <<note, pc, atTurn, rec, prior, tries, delivery, answers, counted, wiped>>

\* A thread without a note reads like this.
NoNote == [turns |-> 0, session |-> None, status |-> None]
NoSession == [id |-> None, resume |-> FALSE]
NoResult == [ok |-> FALSE, session |-> None, reply |-> FALSE]

Init ==
  /\ note = NoNote
  /\ pc = "idle"
  /\ turn = 0
  /\ request = None
  /\ session = NoSession
  /\ rec = [status |-> "working", same |-> FALSE]
  /\ prior = NoNote
  /\ tries = 0
  /\ result = NoResult
  /\ replies = 0
  /\ called = None
  /\ established = {}
  /\ drawn = 0
  /\ ended = 0
  /\ kept = None
  /\ wiped = 0
  /\ stale = 0

(***************************************************************************)
(* Before claude runs.                                                     *)
(***************************************************************************)

\* A message is shifted off the queue.
Begin(depth) ==
  /\ pc = "idle"
  /\ turn < MaxTurns
  /\ turn' = turn + 1
  /\ request' = depth
  /\ stale' = wiped
  /\ session' = NoSession
  /\ result' = NoResult
  /\ replies' = 0
  /\ called' = None
  /\ pc' = "session"
  /\ UNCHANGED <<note, rec, prior, tries, established, drawn, counted, wiped>>

NoNewSession == session' = NoSession /\ UNCHANGED drawn
NewSession ==
  /\ drawn' = drawn + 1
  /\ session' = [id |-> drawn + 1, resume |-> FALSE]

BeginRecord(status, same) ==
  /\ rec' = [status |-> status, same |-> same]
  /\ pc' = "readNote"

\* readThreadNote: a network error reads as no note.
Readable(faults) ==
  {note} \cup (IF faults \cap {"cut", "lost"} # {} THEN {NoNote} ELSE {})

\* ... and an HTTP error throws.
Throws(faults) == faults \cap {"rejected", "server"} # {}

\* readSession: resume the session of the note, or draw a new id.
ReadSession ==
  /\ pc = "session"
  /\ \E seen \in Readable(ReadFaults) :
       \/ /\ seen.session # None
          /\ session' = [id |-> seen.session, resume |-> TRUE]
          /\ UNCHANGED drawn
       \/ seen.session = None /\ NewSession
  /\ BeginRecord("working", FALSE)
  /\ UNCHANGED <<note, atTurn, prior, tries, result, established, answers, counted, wiped>>

\* readSession is awaited outside any try block, so its throw rejects the
\* drain: the turn is over.
ReadSessionThrows ==
  /\ pc = "session"
  /\ Throws(ReadFaults)
  /\ pc' = "idle"
  /\ UNCHANGED <<note, atTurn, rec, prior, tries, delivery, answers, counted, wiped>>

(***************************************************************************)
(* recordThread and writeThread: read the note, write the roll-up.  Their  *)
(* failure is logged and the turn goes on.                                 *)
(***************************************************************************)
AfterRecord ==
  CASE rec.status = "working" -> "deliver"
    [] rec.status = "ok" -> IF result.reply THEN "reply" ELSE "callback"
    [] rec.status = "error" -> IF rec.same THEN "callback" ELSE "failureNote"

Recorded ==
  /\ pc' = AfterRecord
  /\ tries' = 0
  /\ UNCHANGED <<atTurn, rec, delivery, answers, counted, wiped>>

ReadNote ==
  /\ pc = "readNote"
  /\ prior' \in Readable(NoteFaults)
  /\ pc' = "writeNote"
  /\ UNCHANGED <<note, atTurn, rec, tries, delivery, answers, counted, wiped>>

ReadNoteThrows ==
  /\ pc = "readNote"
  /\ Throws(NoteFaults)
  /\ Recorded
  /\ UNCHANGED <<note, prior>>

CountsEveryRecord == rec.status # "working"
CountsSuccesses == rec.status = "ok"

\* turn_count: only an end record that is not a second one counts the turn.
Counts == rec.status # "working" /\ ~rec.same

SentTurnSession == IF rec.status = "working" THEN prior.session ELSE session.id

\* The session sent: the one claude echoed, else the one on the note.
SentSession ==
  IF rec.status # "working" /\ result.session # None THEN result.session ELSE prior.session

\* The metadata that writeThread sends, merged into the stored note by the
\* vault: a session it does not send stays as it was.
RolledUp ==
  [turns |-> IF Counts THEN prior.turns + 1 ELSE prior.turns,
   session |-> IF SentSession = None THEN note.session ELSE SentSession,
   status |-> rec.status]

\* The daemon's writer passes no subject on, so the record of a subject's turn
\* goes to a note of its own and not to the thread's.
WriteNote ==
  /\ pc = "writeNote"
  /\ \/ note' = IF SubjectThread THEN note ELSE RolledUp
     \/ NoteFaults # {} /\ UNCHANGED note
  /\ Recorded
  /\ UNCHANGED prior

(***************************************************************************)
(* deliver: claude -p, run again on a transient error, and once more with  *)
(* a new session when the one to resume is gone.                           *)
(***************************************************************************)
EndTurn(r) ==
  /\ result' = r
  /\ established' = established \cup ({r.session} \ {None})
  /\ ended' = ended + 1
  /\ kept' = IF r.session = None THEN kept ELSE r.session
  /\ BeginRecord(IF r.ok THEN "ok" ELSE "error", FALSE)
  /\ UNCHANGED <<note, atTurn, session, drawn, prior, tries, answers, wiped>>

ClaudeSucceeds ==
  /\ pc = "deliver"
  /\ \E reply \in BOOLEAN :
       EndTurn([ok |-> TRUE, session |-> session.id, reply |-> reply])

\* A failed run echoes its session if it got so far as to open it.
ClaudeFails ==
  /\ pc = "deliver"
  /\ \E echoed \in {None, session.id} :
       EndTurn([ok |-> FALSE, session |-> echoed, reply |-> FALSE])

RetriesForever ==
  /\ pc = "deliver"
  /\ tries' = IF tries + 1 < TURN_MAX_ATTEMPTS THEN tries + 1 ELSE 0
  /\ UNCHANGED <<note, pc, atTurn, rec, prior, delivery, answers, counted, wiped>>

\* A transient error of an attempt that is not the last.
ClaudeRetries ==
  /\ pc = "deliver"
  /\ tries + 1 < TURN_MAX_ATTEMPTS
  /\ tries' = tries + 1
  /\ established' \in {established, established \cup {session.id}}
  /\ UNCHANGED <<note, pc, atTurn, rec, prior, session, result, drawn, answers, counted, wiped>>

\* "No conversation found": the attempts begin again with a new session.
SessionGone ==
  /\ pc = "deliver"
  /\ session.resume
  /\ NewSession
  /\ tries' = 0
  /\ UNCHANGED <<note, pc, atTurn, rec, prior, result, established, answers, counted, wiped>>

(***************************************************************************)
(* The reply with its bounded retry, the failure note and the callback.    *)
(***************************************************************************)

\* A write of the reply that fails may have reached the vault all the same.
Attempted(fault) == replies' = IF fault = "lost" THEN replies + 1 ELSE replies

RecordAfterReply ==
  /\ pc = "reply"
  /\ replies' = replies + 1
  /\ BeginRecord("ok", TRUE)
  /\ UNCHANGED <<note, atTurn, prior, tries, delivery, called, counted, wiped>>

ReplyWritten ==
  /\ pc = "reply"
  /\ replies' = replies + 1
  /\ pc' = "callback"
  /\ UNCHANGED <<note, atTurn, rec, prior, tries, delivery, called, counted, wiped>>

\* A transient failure with retries left.
ReplyRetried ==
  /\ pc = "reply"
  /\ tries < OUTBOUND_MAX_RETRIES
  /\ \E f \in ReplyFaults \ {"rejected"} : Attempted(f)
  /\ tries' = tries + 1
  /\ UNCHANGED <<note, pc, atTurn, rec, prior, delivery, called, counted, wiped>>

ReplyFailedStaysOk ==
  /\ pc = "reply"
  /\ "rejected" \in ReplyFaults
  /\ pc' = "callback"
  /\ UNCHANGED <<note, atTurn, rec, prior, tries, delivery, answers, counted, wiped>>

\* A permanent failure, or that of the last retry: the same turn is recorded
\* again, as an error.
ReplyFailed ==
  /\ pc = "reply"
  /\ \E f \in ReplyFaults : (f = "rejected" \/ tries = OUTBOUND_MAX_RETRIES) /\ Attempted(f)
  /\ BeginRecord("error", TRUE)
  /\ UNCHANGED <<note, atTurn, prior, tries, delivery, called, counted, wiped>>

FailureNoteEnds ==
  /\ pc = "failureNote"
  /\ pc' = "idle"
  /\ UNCHANGED <<note, atTurn, rec, prior, tries, delivery, answers, counted, wiped>>

\* postFailureNote: best effort, and not the reply.
FailureNote ==
  /\ pc = "failureNote"
  /\ pc' = "callback"
  /\ UNCHANGED <<note, atTurn, rec, prior, tries, delivery, answers, counted, wiped>>

\* maybeDeliverCallback answers a request below the depth limit.
Answerable == request # None /\ request < MAX_DELEGATION_DEPTH

Callback ==
  /\ pc = "callback"
  /\ called' = IF Answerable THEN rec.status ELSE None
  /\ pc' = "idle"
  /\ UNCHANGED <<note, atTurn, rec, prior, tries, delivery, replies, counted, wiped>>

(***************************************************************************)
(* Beside the turn.                                                        *)
(***************************************************************************)

ResetOfAnotherNote ==
  /\ pc = "idle" \/ ResetMidTurn
  /\ note # NoNote
  /\ wiped' = drawn
  /\ kept' = None
  /\ UNCHANGED <<note, pc, atTurn, rec, prior, tries, delivery, answers, ended>>

\* resetSession, at the moment the vault clears the session of the note.
Reset ==
  /\ pc = "idle" \/ ResetMidTurn
  /\ note # NoNote
  /\ note' = [note EXCEPT !.session = None]
  /\ wiped' = drawn
  /\ kept' = None
  /\ UNCHANGED <<pc, atTurn, rec, prior, tries, delivery, answers, ended>>

\* The daemon restarts: the turn is gone, the vault's notes are not.
Restart ==
  /\ CanRestart
  /\ pc # "idle"
  /\ pc' = "idle"
  /\ UNCHANGED <<note, atTurn, rec, prior, tries, delivery, answers, counted, wiped>>

TurnStep ==
  \/ ReadSession \/ ReadSessionThrows
  \/ ReadNote \/ ReadNoteThrows \/ WriteNote
  \/ ClaudeSucceeds \/ ClaudeFails \/ ClaudeRetries \/ SessionGone
  \/ ReplyWritten \/ ReplyRetried \/ ReplyFailed \/ FailureNote \/ Callback

Next ==
  \/ \E depth \in 0..MAX_DELEGATION_DEPTH \cup {None} : Begin(depth)
  \/ TurnStep
  \/ Reset
  \/ Restart

Spec == Init /\ [][Next]_vars

\* Vault calls return, the retries' timers fire and claude exits.
FairSpec == Spec /\ WF_vars(TurnStep)

(***************************************************************************)
(* Properties.                                                             *)
(***************************************************************************)
Note == [turns : Nat, session : Nat \cup {None},
         status : {"working", "ok", "error", None}]

\* Every variable keeps its type.
TypeOK ==
  /\ note \in Note /\ prior \in Note
  /\ pc \in {"idle", "session", "readNote", "writeNote", "deliver", "reply",
             "failureNote", "callback"}
  /\ turn \in 0..MaxTurns
  /\ request \in Nat \cup {None}
  /\ session \in [id : Nat \cup {None}, resume : BOOLEAN]
  /\ pc \notin {"idle", "session"} => session.id \in Nat
  /\ rec \in [status : {"working", "ok", "error"}, same : BOOLEAN]
  /\ tries \in Nat
  /\ result \in [ok : BOOLEAN, session : Nat \cup {None}, reply : BOOLEAN]
  /\ replies \in Nat
  /\ called \in {"working", "ok", "error", None}
  /\ established \subseteq Nat
  /\ drawn \in Nat /\ ended \in Nat /\ wiped \in Nat /\ stale \in Nat
  /\ kept \in Nat \cup {None}

\* No thread is bricked: a session id on the thread note, and so every id that
\* a turn resumes, is one that claude has opened.  A run that failed before it
\* opened its session leaves no trace of the id.
EstablishedOnly ==
  /\ {note.session, prior.session, result.session} \subseteq established \cup {None}
  /\ session.resume => session.id \in established

\* A turn is counted exactly once over its start, end and second end records;
\* failed writes, unreadable notes and restarts can only lose counts.
Recording == pc \in {"readNote", "writeNote"}
CountsReliably == NoteFaults = {} /\ ~CanRestart /\ ~SubjectThread

TurnsCountedOnce ==
  /\ note.turns <= ended
  /\ CountsReliably /\ ~Recording => note.turns = ended

\* The retries put at most one note with the reply into the transcript.
ReplyAtMostOnce == replies <= 1

\* The requester learns "ok" exactly when the turn succeeded and its reply, if
\* it had one, is in the transcript.
CallbackTellsOutcome ==
  called # None =>
    (called = "ok" <=> result.ok /\ (result.reply => replies > 0))

\* The requester of a turn that is over has been answered.
AnsweredWhenOver == pc = "idle" /\ Answerable => called # None

\* A turn that is over and whose thread note says "ok" has its reply in the
\* transcript.
StatusTruthful ==
  pc = "idle" /\ note.status = "ok" => result.ok /\ (result.reply => replies > 0)

\* A turn that begins after a reset does not resume a session from before it.
FreshAfterReset == session.resume => session.id > stale

\* A turn continues the conversation of the last turn that had one, unless
\* that has been reset.
ResumesConversation ==
  [][pc = "session" /\ pc' = "readNote" /\ kept # None
       => session' = [id |-> kept, resume |-> TRUE]]_vars

\* Every turn ends, however its calls fail.
TurnEnds == pc # "idle" ~> pc = "idle"
=============================================================================
