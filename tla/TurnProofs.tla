----------------------------- MODULE TurnProofs -----------------------------
(***************************************************************************)
(* Theorems about Turn, for every number of turns, attempts and retries    *)
(* and every choice of faults.                                             *)
(***************************************************************************)
EXTENDS MCTurn, TLAPS

(***************************************************************************)
(* Type correctness.                                                       *)
(***************************************************************************)
LEMMA NoNoteType == NoNote \in Note
BY DEF NoNote, Note

LEMMA RolledUpType ==
  ASSUME TypeOK
  PROVE  RolledUp \in Note
<1>1. note \in Note /\ prior \in Note /\ result.session \in Nat \cup {None}
  BY DEF TypeOK
<1>2. rec.status \in {"working", "ok", "error"}
  BY DEF TypeOK
<1>3. QED
  BY <1>1, <1>2 DEF RolledUp, Counts, SentSession, Note

LEMMA InitType == Init => TypeOK
BY BoundAssumption, NoNoteType DEF Init, TypeOK, NoSession, NoResult

LEMMA EndTurnType ==
  ASSUME TypeOK, pc = "deliver",
         NEW r \in [ok : BOOLEAN, session : Nat \cup {None}, reply : BOOLEAN],
         EndTurn(r)
  PROVE  TypeOK'
<1>1. r.session \in Nat \cup {None} /\ r.ok \in BOOLEAN
  OBVIOUS
<1>2. established' \subseteq Nat /\ kept' \in Nat \cup {None} /\ ended' \in Nat
  <2>1. established' = established \cup ({r.session} \ {None}) /\ established \subseteq Nat
    BY DEF EndTurn, TypeOK
  <2>2. established' \subseteq Nat
    BY <1>1, <2>1
  <2>3. kept' \in Nat \cup {None}
    BY <1>1 DEF EndTurn, TypeOK
  <2>4. ended' \in Nat
    BY DEF EndTurn, TypeOK
  <2>5. QED
    BY <2>2, <2>3, <2>4
<1>3. rec' \in [status : {"working", "ok", "error"}, same : BOOLEAN]
  BY DEF EndTurn, BeginRecord
<1>4. pc' = "readNote" /\ result' = r /\ session' = session /\ session.id \in Nat
  BY DEF EndTurn, BeginRecord, TypeOK
<1>5. UNCHANGED <<note, prior, turn, request, stale, drawn, tries, replies, called, wiped>>
  BY DEF EndTurn, atTurn, answers
<1>6. QED
  BY <1>2, <1>3, <1>4, <1>5 DEF TypeOK

LEMMA NextType == TypeOK /\ [Next]_vars => TypeOK'
<1> SUFFICES ASSUME TypeOK, [Next]_vars PROVE TypeOK'
  OBVIOUS
<1> USE BoundAssumption DEF TypeOK, atTurn, delivery, answers, counted
<1>1. ASSUME NEW depth \in 0..MAX_DELEGATION_DEPTH \cup {None}, Begin(depth)
      PROVE  TypeOK'
  BY <1>1 DEF Begin, NoSession, NoResult
<1>2. CASE ReadSession
  <2>1. PICK seen \in Readable(ReadFaults) :
          \/ /\ seen.session # None
             /\ session' = [id |-> seen.session, resume |-> TRUE]
             /\ UNCHANGED drawn
          \/ seen.session = None /\ NewSession
    BY <1>2 DEF ReadSession
  <2>2. seen.session \in Nat \cup {None}
    BY NoNoteType DEF Readable, Note
  <2>3. \E i \in Nat, b \in BOOLEAN : session' = [id |-> i, resume |-> b]
    <3>1. CASE seen.session # None
      BY <2>1, <2>2, <3>1
    <3>2. CASE seen.session = None
      <4>1. session' = [id |-> drawn + 1, resume |-> FALSE]
        BY <2>1, <3>2 DEF NewSession
      <4>2. drawn + 1 \in Nat
        OBVIOUS
      <4>3. QED
        BY <4>1, <4>2
    <3>3. QED
      BY <3>1, <3>2
  <2>4. drawn' \in Nat
    BY <2>1 DEF NewSession
  <2>5. UNCHANGED <<note, turn, request, stale, prior, tries, result, established,
                    replies, called, ended, kept, wiped>>
    BY <1>2 DEF ReadSession
  <2>6. rec' = [status |-> "working", same |-> FALSE] /\ pc' = "readNote"
    BY <1>2 DEF ReadSession, BeginRecord
  <2>7. QED
    BY <2>3, <2>4, <2>5, <2>6
<1>3. CASE ReadSessionThrows
  BY <1>3 DEF ReadSessionThrows
<1>4. CASE ReadNote
  <2>1. prior' \in Note
    BY <1>4, NoNoteType DEF ReadNote, Readable
  <2>2. QED
    BY <1>4, <2>1 DEF ReadNote
<1>5. CASE ReadNoteThrows
  BY <1>5 DEF ReadNoteThrows, Recorded, AfterRecord
<1>6. CASE WriteNote
  <2>1. note' \in Note
    BY <1>6, RolledUpType DEF WriteNote
  <2>2. QED
    BY <1>6, <2>1 DEF WriteNote, Recorded, AfterRecord
<1>7. CASE ClaudeSucceeds
  BY <1>7, EndTurnType DEF ClaudeSucceeds
<1>8. CASE ClaudeFails
  BY <1>8, EndTurnType DEF ClaudeFails
<1>9. CASE ClaudeRetries
  BY <1>9 DEF ClaudeRetries
<1>10. CASE SessionGone
  BY <1>10 DEF SessionGone, NewSession
<1>11. CASE ReplyWritten
  BY <1>11 DEF ReplyWritten
<1>12. CASE ReplyRetried
  BY <1>12 DEF ReplyRetried, Attempted
<1>13. CASE ReplyFailed
  BY <1>13 DEF ReplyFailed, Attempted, BeginRecord
<1>14. CASE FailureNote
  BY <1>14 DEF FailureNote
<1>15. CASE Callback
  BY <1>15 DEF Callback
<1>16. CASE Reset
  BY <1>16 DEF Reset, Note
<1>17. CASE Restart
  BY <1>17 DEF Restart
<1>18. CASE UNCHANGED vars
  BY <1>18 DEF vars
<1>19. QED
  BY <1>1, <1>2, <1>3, <1>4, <1>5, <1>6, <1>7, <1>8, <1>9, <1>10, <1>11, <1>12,
     <1>13, <1>14, <1>15, <1>16, <1>17, <1>18 DEF Next, TurnStep

\* Every variable of a thread's turns keeps its type.
THEOREM Typing == Spec => []TypeOK
BY InitType, NextType, PTL DEF Spec

(***************************************************************************)
(* The sessions on the note are established ones.                          *)
(***************************************************************************)
LEMMA InitEstablished == Init => EstablishedOnly
BY DEF Init, EstablishedOnly, NoNote, NoSession, NoResult

LEMMA EndTurnEstablished ==
  ASSUME TypeOK, EstablishedOnly, NEW r, EndTurn(r)
  PROVE  EstablishedOnly'
<1>1. established \subseteq established' /\ r.session \in established' \cup {None}
  BY DEF EndTurn
<1>2. result' = r /\ UNCHANGED <<note, prior, session>>
  BY DEF EndTurn
<1>3. QED
  BY <1>1, <1>2 DEF EstablishedOnly

LEMMA NextEstablished == TypeOK /\ EstablishedOnly /\ [Next]_vars => EstablishedOnly'
<1> SUFFICES ASSUME TypeOK, EstablishedOnly, [Next]_vars PROVE EstablishedOnly'
  OBVIOUS
<1> USE DEF atTurn, delivery, answers, counted
<1>1. ASSUME NEW depth, Begin(depth) PROVE EstablishedOnly'
  BY <1>1 DEF Begin, NoSession, NoResult, EstablishedOnly
<1>2. CASE ReadSession
  <2>1. PICK seen \in Readable(ReadFaults) :
          \/ seen.session # None /\ session' = [id |-> seen.session, resume |-> TRUE]
          \/ seen.session = None /\ NewSession
    BY <1>2 DEF ReadSession
  <2>2. seen.session \in established \cup {None}
    BY DEF Readable, NoNote, EstablishedOnly
  <2>3. session'.resume => session'.id \in established
    BY <2>1, <2>2 DEF NewSession
  <2>4. UNCHANGED <<note, prior, result, established>>
    BY <1>2 DEF ReadSession
  <2>5. QED
    BY <2>3, <2>4 DEF EstablishedOnly
<1>3. CASE ReadSessionThrows
  BY <1>3 DEF ReadSessionThrows, EstablishedOnly
<1>4. CASE ReadNote
  <2>1. prior'.session \in established \cup {None}
    BY <1>4 DEF ReadNote, Readable, NoNote, EstablishedOnly
  <2>2. QED
    BY <1>4, <2>1 DEF ReadNote, EstablishedOnly
<1>5. CASE ReadNoteThrows
  BY <1>5 DEF ReadNoteThrows, Recorded, EstablishedOnly
<1>6. CASE WriteNote
  <2>1. RolledUp.session \in {note.session, prior.session, result.session}
    BY DEF RolledUp, SentSession
  <2>2. note'.session \in {note.session, prior.session, result.session}
    BY <1>6, <2>1 DEF WriteNote
  <2>3. UNCHANGED <<prior, result, session, established>>
    BY <1>6 DEF WriteNote, Recorded
  <2>4. QED
    BY <2>2, <2>3 DEF EstablishedOnly
<1>7. CASE ClaudeSucceeds
  BY <1>7, EndTurnEstablished DEF ClaudeSucceeds
<1>8. CASE ClaudeFails
  BY <1>8, EndTurnEstablished DEF ClaudeFails
<1>9. CASE ClaudeRetries
  BY <1>9 DEF ClaudeRetries, EstablishedOnly
<1>10. CASE SessionGone
  BY <1>10 DEF SessionGone, NewSession, EstablishedOnly
<1>11. CASE ReplyWritten
  BY <1>11 DEF ReplyWritten, EstablishedOnly
<1>12. CASE ReplyRetried
  BY <1>12 DEF ReplyRetried, EstablishedOnly
<1>13. CASE ReplyFailed
  BY <1>13 DEF ReplyFailed, EstablishedOnly
<1>14. CASE FailureNote
  BY <1>14 DEF FailureNote, EstablishedOnly
<1>15. CASE Callback
  BY <1>15 DEF Callback, EstablishedOnly
<1>16. CASE Reset
  BY <1>16 DEF Reset, EstablishedOnly, TypeOK, Note
<1>17. CASE Restart
  BY <1>17 DEF Restart, EstablishedOnly
<1>18. CASE UNCHANGED vars
  BY <1>18 DEF vars, EstablishedOnly
<1>19. QED
  BY <1>1, <1>2, <1>3, <1>4, <1>5, <1>6, <1>7, <1>8, <1>9, <1>10, <1>11, <1>12,
     <1>13, <1>14, <1>15, <1>16, <1>17, <1>18 DEF Next, TurnStep

\* Whatever fails, the note names only sessions that claude has opened, so no
\* failed turn leaves an id behind that later turns cannot resume.
THEOREM NeverBricked == Spec => []EstablishedOnly
BY InitType, NextType, InitEstablished, NextEstablished, PTL DEF Spec

(***************************************************************************)
(* Turns are counted once.                                                 *)
(***************************************************************************)

\* The end record in progress that is to count its turn.
Uncounted ==
  IF Recording /\ rec.status # "working" /\ ~rec.same THEN 1 ELSE 0

CountInv ==
  /\ note.turns + Uncounted <= ended
  /\ pc = "writeNote" => prior.turns + Uncounted <= ended
  /\ CountsReliably => /\ note.turns + Uncounted = ended
                       /\ pc = "writeNote" => prior.turns = note.turns

LEMMA InitCount == Init => CountInv
BY DEF Init, CountInv, Uncounted, Recording, NoNote

LEMMA CountImplies == TypeOK /\ CountInv => TurnsCountedOnce
BY DEF TypeOK, Note, CountInv, Uncounted, TurnsCountedOnce

LEMMA EndTurnCount ==
  ASSUME TypeOK, CountInv, pc = "deliver", NEW r, EndTurn(r)
  PROVE  CountInv'
<1>1. Uncounted = 0 /\ Uncounted' = 1 /\ pc' = "readNote"
  BY DEF Uncounted, Recording, EndTurn, BeginRecord
<1>2. ended' = ended + 1 /\ note' = note /\ ended \in Nat /\ note.turns \in Nat
  BY DEF EndTurn, TypeOK, Note
<1>3. QED
  BY <1>1, <1>2 DEF CountInv, CountsReliably

\* A step that leaves the note and the count alone and no record in progress.
LEMMA OtherCount ==
  ASSUME TypeOK, CountInv, UNCHANGED <<note, ended>>, Uncounted' = 0,
         pc' # "writeNote", CountsReliably => Uncounted = 0
  PROVE  CountInv'
<1>1. ended \in Nat /\ note.turns \in Nat /\ Uncounted \in {0, 1}
  BY DEF TypeOK, Note, Uncounted
<1>2. QED
  BY <1>1 DEF CountInv, CountsReliably

LEMMA NextCount == TypeOK /\ CountInv /\ [Next]_vars => CountInv'
<1> SUFFICES ASSUME TypeOK, CountInv, [Next]_vars PROVE CountInv'
  OBVIOUS
<1> USE DEF atTurn, delivery, answers, counted, Recording
<1>1. ASSUME NEW depth, Begin(depth) PROVE CountInv'
  BY <1>1, OtherCount DEF Begin, Uncounted
<1>2. CASE ReadSession
  BY <1>2, OtherCount DEF ReadSession, BeginRecord, Uncounted
<1>3. CASE ReadSessionThrows
  BY <1>3, OtherCount DEF ReadSessionThrows, Uncounted
<1>4. CASE ReadNote
  <2>1. UNCHANGED <<note, ended, rec>> /\ pc = "readNote" /\ pc' = "writeNote"
    BY <1>4 DEF ReadNote
  <2>2. Uncounted' = Uncounted
    BY <2>1 DEF Uncounted
  <2>3. prior'.turns \in {note.turns, 0} /\ (NoteFaults = {} => prior' = note)
    BY <1>4 DEF ReadNote, Readable, NoNote
  <2>4. note.turns \in Nat /\ ended \in Nat /\ Uncounted \in {0, 1}
    BY DEF TypeOK, Note, Uncounted
  <2>5. QED
    BY <2>1, <2>2, <2>3, <2>4 DEF CountInv, CountsReliably
<1>5. CASE ReadNoteThrows
  <2>1. ~CountsReliably
    BY <1>5 DEF ReadNoteThrows, Throws, CountsReliably
  <2>2. pc' \notin {"readNote", "writeNote"}
    BY <1>5 DEF ReadNoteThrows, Recorded, AfterRecord, TypeOK
  <2>3. QED
    BY <1>5, <2>1, <2>2, OtherCount DEF ReadNoteThrows, Recorded, Uncounted
<1>6. CASE WriteNote
  <2>1. pc' \notin {"readNote", "writeNote"} /\ UNCHANGED <<ended, rec>>
    BY <1>6 DEF WriteNote, Recorded, AfterRecord, TypeOK
  <2>2. Uncounted' = 0 /\ Uncounted \in {0, 1} /\ pc = "writeNote"
    BY <1>6, <2>1 DEF Uncounted, WriteNote
  <2>3. RolledUp.turns = prior.turns + Uncounted
    BY <2>2 DEF RolledUp, Counts, Uncounted, TypeOK, Note
  <2>4. note'.turns \in {note.turns, RolledUp.turns}
        /\ (CountsReliably => note'.turns = RolledUp.turns)
    BY <1>6 DEF WriteNote, CountsReliably
  <2>5. note.turns \in Nat /\ prior.turns \in Nat /\ ended \in Nat
    BY DEF TypeOK, Note
  <2>6. QED
    BY <2>1, <2>2, <2>3, <2>4, <2>5 DEF CountInv, CountsReliably
<1>7. CASE ClaudeSucceeds
  BY <1>7, EndTurnCount DEF ClaudeSucceeds
<1>8. CASE ClaudeFails
  BY <1>8, EndTurnCount DEF ClaudeFails
<1>9. CASE ClaudeRetries
  BY <1>9, OtherCount DEF ClaudeRetries, Uncounted
<1>10. CASE SessionGone
  BY <1>10, OtherCount DEF SessionGone, Uncounted
<1>11. CASE ReplyWritten
  BY <1>11, OtherCount DEF ReplyWritten, Uncounted
<1>12. CASE ReplyRetried
  BY <1>12, OtherCount DEF ReplyRetried, Uncounted
<1>13. CASE ReplyFailed
  BY <1>13, OtherCount DEF ReplyFailed, BeginRecord, Uncounted
<1>14. CASE FailureNote
  BY <1>14, OtherCount DEF FailureNote, Uncounted
<1>15. CASE Callback
  BY <1>15, OtherCount DEF Callback, Uncounted
<1>16. CASE Reset
  <2>1. note'.turns = note.turns /\ UNCHANGED <<pc, rec, prior, ended>>
    BY <1>16 DEF Reset, TypeOK, Note
  <2>2. QED
    BY <2>1 DEF CountInv, Uncounted, CountsReliably
<1>17. CASE Restart
  BY <1>17, OtherCount DEF Restart, Uncounted, CountsReliably
<1>18. CASE UNCHANGED vars
  BY <1>18 DEF vars, CountInv, Uncounted, CountsReliably
<1>19. QED
  BY <1>1, <1>2, <1>3, <1>4, <1>5, <1>6, <1>7, <1>8, <1>9, <1>10, <1>11, <1>12,
     <1>13, <1>14, <1>15, <1>16, <1>17, <1>18 DEF Next, TurnStep

\* The note never counts more turns than have ended, and counts each of them
\* when its own reads and writes do not fail.
THEOREM CountedOnce == Spec => []TurnsCountedOnce
BY InitType, NextType, InitCount, NextCount, CountImplies, PTL DEF Spec

(***************************************************************************)
(* The callback tells the outcome, when a failed write has not reached the *)
(* vault.                                                                  *)
(***************************************************************************)
OutcomeInv ==
  /\ replies <= 1
  /\ pc # "idle" => called = None
  /\ pc \in {"session", "deliver"} => replies = 0
  /\ Recording /\ rec.status = "working" => replies = 0
  /\ Recording /\ rec.status = "ok" => result.ok /\ replies = 0
  /\ Recording /\ rec.status = "error" =>
       IF rec.same THEN result.ok /\ result.reply /\ replies = 0 ELSE ~result.ok
  /\ pc = "reply" => rec.status = "ok" /\ result.ok /\ result.reply /\ replies = 0
  /\ pc = "failureNote" => rec.status = "error" /\ ~result.ok
  /\ pc = "callback" => (rec.status = "ok" <=> result.ok /\ (result.reply => replies > 0))
  /\ CallbackTellsOutcome

LEMMA InitOutcome == Init => OutcomeInv
BY DEF Init, OutcomeInv, Recording, CallbackTellsOutcome

LEMMA EndTurnOutcome ==
  ASSUME TypeOK, OutcomeInv, pc = "deliver", NEW r, EndTurn(r), r.ok \in BOOLEAN
  PROVE  OutcomeInv'
<1>1. pc' = "readNote" /\ result' = r /\ called' = None /\ replies' = 0
  BY DEF EndTurn, BeginRecord, OutcomeInv, answers
<1>2. rec' = [status |-> IF r.ok THEN "ok" ELSE "error", same |-> FALSE]
  BY DEF EndTurn, BeginRecord
<1>3. QED
  BY <1>1, <1>2 DEF OutcomeInv, Recording, CallbackTellsOutcome

LEMMA RecordedOutcome ==
  ASSUME TypeOK, OutcomeInv, Recording, Recorded
  PROVE  OutcomeInv'
<1>1. pc' = AfterRecord /\ UNCHANGED <<rec, result, replies, called>>
  BY DEF Recorded, delivery, answers
<1>2. called = None /\ replies \in Nat /\ result.reply \in BOOLEAN
  BY DEF OutcomeInv, Recording, TypeOK
<1>3. CASE rec.status = "working"
  BY <1>1, <1>2, <1>3 DEF AfterRecord, OutcomeInv, Recording, CallbackTellsOutcome
<1>4. CASE rec.status = "ok"
  BY <1>1, <1>2, <1>4 DEF AfterRecord, OutcomeInv, Recording, CallbackTellsOutcome
<1>5. CASE rec.status = "error"
  BY <1>1, <1>2, <1>5 DEF AfterRecord, OutcomeInv, Recording, CallbackTellsOutcome
<1>6. QED
  BY <1>3, <1>4, <1>5 DEF TypeOK

LEMMA NextOutcome ==
  ASSUME "lost" \notin ReplyFaults
  PROVE  TypeOK /\ OutcomeInv /\ [Next]_vars => OutcomeInv'
<1> SUFFICES ASSUME TypeOK, OutcomeInv, [Next]_vars PROVE OutcomeInv'
  OBVIOUS
<1> USE DEF atTurn, delivery, answers, counted
<1>1. ASSUME NEW depth, Begin(depth) PROVE OutcomeInv'
  BY <1>1 DEF Begin, OutcomeInv, Recording, CallbackTellsOutcome
<1>2. CASE ReadSession
  BY <1>2 DEF ReadSession, BeginRecord, OutcomeInv, Recording, CallbackTellsOutcome
<1>3. CASE ReadSessionThrows
  BY <1>3 DEF ReadSessionThrows, OutcomeInv, Recording, CallbackTellsOutcome
<1>4. CASE ReadNote
  BY <1>4 DEF ReadNote, OutcomeInv, Recording, CallbackTellsOutcome
<1>5. CASE ReadNoteThrows
  BY <1>5, RecordedOutcome DEF ReadNoteThrows, Recording
<1>6. CASE WriteNote
  BY <1>6, RecordedOutcome DEF WriteNote, Recording
<1>7. CASE ClaudeSucceeds
  BY <1>7, EndTurnOutcome DEF ClaudeSucceeds
<1>8. CASE ClaudeFails
  BY <1>8, EndTurnOutcome DEF ClaudeFails
<1>9. CASE ClaudeRetries
  BY <1>9 DEF ClaudeRetries, OutcomeInv, Recording, CallbackTellsOutcome
<1>10. CASE SessionGone
  BY <1>10 DEF SessionGone, OutcomeInv, Recording, CallbackTellsOutcome
<1>11. CASE ReplyWritten
  BY <1>11 DEF ReplyWritten, OutcomeInv, Recording, CallbackTellsOutcome
<1>12. CASE ReplyRetried
  BY <1>12 DEF ReplyRetried, Attempted, OutcomeInv, Recording, CallbackTellsOutcome
<1>13. CASE ReplyFailed
  BY <1>13 DEF ReplyFailed, Attempted, BeginRecord, OutcomeInv, Recording, CallbackTellsOutcome
<1>14. CASE FailureNote
  BY <1>14 DEF FailureNote, OutcomeInv, Recording, CallbackTellsOutcome
<1>15. CASE Callback
  BY <1>15 DEF Callback, OutcomeInv, Recording, CallbackTellsOutcome
<1>16. CASE Reset
  BY <1>16 DEF Reset, OutcomeInv, Recording, CallbackTellsOutcome
<1>17. CASE Restart
  BY <1>17 DEF Restart, OutcomeInv, Recording, CallbackTellsOutcome
<1>18. CASE UNCHANGED vars
  BY <1>18 DEF vars, OutcomeInv, Recording, CallbackTellsOutcome
<1>19. QED
  BY <1>1, <1>2, <1>3, <1>4, <1>5, <1>6, <1>7, <1>8, <1>9, <1>10, <1>11, <1>12,
     <1>13, <1>14, <1>15, <1>16, <1>17, <1>18 DEF Next, TurnStep

\* An orchestrator is told "ok" exactly when its request succeeded and the
\* reply is in the transcript, and the retries never leave two replies there,
\* as long as a write that fails has not been carried out.
THEOREM HonestCallback ==
  ASSUME "lost" \notin ReplyFaults
  PROVE  Spec => [](CallbackTellsOutcome /\ ReplyAtMostOnce)
<1>1. OutcomeInv => CallbackTellsOutcome /\ ReplyAtMostOnce
  BY DEF OutcomeInv, ReplyAtMostOnce
<1>2. TypeOK /\ OutcomeInv /\ [Next]_vars => OutcomeInv'
  BY NextOutcome
<1>3. QED
  BY <1>1, <1>2, InitType, NextType, InitOutcome, PTL DEF Spec

(***************************************************************************)
(* A steady vault: what a turn leaves behind is true of it.                *)
(***************************************************************************)

\* The steps against a steady vault: what is read of the note is the note, a
\* write of it takes place, and only the callback ends a turn.
SteadyReadSession ==
  /\ ReadSession
  /\ IF note.session # None THEN session' = [id |-> note.session, resume |-> TRUE] ELSE NewSession

SteadyStep ==
  \/ \E depth \in 0..MAX_DELEGATION_DEPTH \cup {None} : Begin(depth)
  \/ SteadyReadSession
  \/ ReadNote /\ prior' = note
  \/ WriteNote /\ note' = IF SubjectThread THEN note ELSE RolledUp
  \/ ClaudeSucceeds \/ ClaudeFails \/ ClaudeRetries \/ SessionGone
  \/ ReplyWritten \/ ReplyRetried \/ ReplyFailed \/ FailureNote \/ Callback
  \/ pc = "idle" /\ Reset

\* The note follows the record, an end record is a step ahead of it.
NoteFollows ==
  /\ pc = "writeNote" => prior = note
  /\ SubjectThread => note = NoNote
  /\ ~SubjectThread /\ pc \in {"reply", "failureNote", "callback"} => note.status = rec.status
  /\ ~SubjectThread /\ pc = "deliver" => note.status = "working"
  /\ ~SubjectThread /\ note.session # kept
       => Recording /\ rec.status # "working" /\ result.session # None
  /\ pc # "idle" /\ result.session # None => kept = result.session
  /\ Recording /\ rec.status = "working" => result.session = None
  /\ pc \in {"session", "deliver"} => result.session = None

\* Whatever session is on the note, or on its way there, is from after the reset.
Fresh ==
  /\ wiped <= drawn
  /\ pc # "idle" => stale = wiped
  /\ note.session # None => note.session > wiped
  /\ pc # "idle" /\ result.session # None => result.session > wiped
  /\ pc \notin {"idle", "session"} => session.id > wiped
  /\ FreshAfterReset

TruthInv == NoteFollows /\ Fresh /\ AnsweredWhenOver

LEMMA SteadySteps == Steady!Next => SteadyStep
<1> SUFFICES ASSUME Steady!Next PROVE SteadyStep
  OBVIOUS
<1> USE DEF Steady!atTurn, atTurn, Steady!delivery, delivery, Steady!answers, answers, Steady!counted, counted,
            Steady!BeginRecord, BeginRecord, Steady!NoNote, NoNote, Steady!NoSession, NoSession, Steady!NoResult, NoResult,
            Steady!NewSession, NewSession, Steady!Readable, Readable, Steady!Throws
<1>1. ASSUME NEW depth, Steady!Begin(depth) PROVE Begin(depth)
  BY <1>1 DEF Steady!Begin, Begin
<1>2. Steady!ReadSession => SteadyReadSession
  BY DEF Steady!ReadSession, ReadSession, SteadyReadSession
<1>3. ~Steady!ReadSessionThrows /\ ~Steady!ReadNoteThrows /\ ~Steady!Restart
  BY DEF Steady!ReadSessionThrows, Steady!ReadNoteThrows, Steady!Restart
<1>4. Steady!ReadNote => ReadNote /\ prior' = note
  BY DEF Steady!ReadNote, ReadNote
<1>r. Steady!Recorded => Recorded
  BY DEF Steady!Recorded, Recorded, Steady!AfterRecord, AfterRecord
<1>5. Steady!WriteNote => WriteNote /\ note' = IF SubjectThread THEN note ELSE RolledUp
  BY <1>r DEF Steady!WriteNote, WriteNote, Steady!RolledUp, RolledUp, Steady!Counts, Counts, Steady!SentSession, SentSession
<1>6. Steady!ClaudeSucceeds => ClaudeSucceeds
  BY DEF Steady!ClaudeSucceeds, ClaudeSucceeds, Steady!EndTurn, EndTurn
<1>7. Steady!ClaudeFails => ClaudeFails
  BY DEF Steady!ClaudeFails, ClaudeFails, Steady!EndTurn, EndTurn
<1>8. Steady!ClaudeRetries => ClaudeRetries
  BY DEF Steady!ClaudeRetries, ClaudeRetries
<1>9. Steady!SessionGone => SessionGone
  BY DEF Steady!SessionGone, SessionGone
<1>10. Steady!ReplyWritten => ReplyWritten
  BY DEF Steady!ReplyWritten, ReplyWritten
<1>11. Steady!ReplyRetried => ReplyRetried
  BY DEF Steady!ReplyRetried, ReplyRetried, Steady!Attempted, Attempted
<1>12. Steady!ReplyFailed => ReplyFailed
  BY DEF Steady!ReplyFailed, ReplyFailed, Steady!Attempted, Attempted
<1>13. Steady!FailureNote => FailureNote
  BY DEF Steady!FailureNote, FailureNote
<1>14. Steady!Callback => Callback
  BY DEF Steady!Callback, Callback, Steady!Answerable, Answerable
<1>15. Steady!Reset => pc = "idle" /\ Reset
  BY DEF Steady!Reset, Reset
<1> QED
  BY <1>1, <1>2, <1>3, <1>4, <1>5, <1>6, <1>7, <1>8, <1>9, <1>10, <1>11, <1>12, <1>13, <1>14, <1>15
     DEF Steady!Next, Steady!TurnStep, SteadyStep

LEMMA SteadyIsNext == SteadyStep => Next
BY DEF SteadyStep, SteadyReadSession, Next, TurnStep

LEMMA InitTruth == Init => TruthInv
BY BoundAssumption, NoneAssumption
   DEF Init, TruthInv, NoteFollows, Fresh, AnsweredWhenOver, FreshAfterReset, Answerable, Recording, NoNote,
       NoSession, NoResult

LEMMA EndTurnTruth ==
  ASSUME TypeOK, TruthInv, pc = "deliver", NEW r \in [ok : BOOLEAN, session : {None, session.id}, reply : BOOLEAN],
         EndTurn(r)
  PROVE  TruthInv'
<1>1. /\ pc' = "readNote" /\ rec'.status \in {"ok", "error"} /\ rec'.status # "working" /\ result' = r
      /\ kept' = IF r.session = None THEN kept ELSE r.session
      /\ UNCHANGED <<note, turn, request, stale, session, drawn, prior, wiped, called>>
  BY DEF EndTurn, BeginRecord, atTurn, answers
<1>2. NoteFollows'
  BY <1>1 DEF TruthInv, NoteFollows, Recording
<1>3. Fresh'
  BY <1>1 DEF TruthInv, Fresh, FreshAfterReset
<1> QED
  BY <1>1, <1>2, <1>3 DEF TruthInv, AnsweredWhenOver

LEMMA NextTruth == TypeOK /\ TruthInv /\ (SteadyStep \/ UNCHANGED vars) => TruthInv'
<1> SUFFICES ASSUME TypeOK, TruthInv, SteadyStep \/ UNCHANGED vars PROVE TruthInv'
  OBVIOUS
<1> USE NoneAssumption DEF atTurn, delivery, answers, counted, BeginRecord
<1>t. /\ note \in Note /\ prior \in Note /\ drawn \in Nat /\ wiped \in Nat /\ stale \in Nat
      /\ rec.status \in {"working", "ok", "error"}
  BY DEF TypeOK
<1>i. NoteFollows /\ Fresh /\ AnsweredWhenOver
  BY DEF TruthInv
<1>1. ASSUME NEW depth, Begin(depth) PROVE TruthInv'
  BY <1>1, <1>i DEF Begin, TruthInv, NoteFollows, Fresh, FreshAfterReset, AnsweredWhenOver, Recording,
                    NoSession, NoResult
<1>2. CASE SteadyReadSession
  <2>1. /\ pc = "session" /\ pc' = "readNote" /\ rec' = [status |-> "working", same |-> FALSE]
        /\ UNCHANGED <<note, turn, request, stale, prior, tries, result, established, replies, called, ended, kept, wiped>>
    BY <1>2 DEF SteadyReadSession, ReadSession
  <2>2. /\ session'.id > wiped /\ wiped <= drawn' /\ (session'.resume => session'.id > wiped)
    <3>1. CASE note.session # None
      <4>1. session' = [id |-> note.session, resume |-> TRUE] /\ drawn' = drawn
        BY <1>2, <3>1, <1>t DEF SteadyReadSession, ReadSession, NewSession
      <4> QED  BY <3>1, <4>1, <1>i DEF Fresh
    <3>2. CASE note.session = None
      <4>1. session' = [id |-> drawn + 1, resume |-> FALSE] /\ drawn' = drawn + 1
        BY <1>2, <3>2 DEF SteadyReadSession, NewSession
      <4> QED  BY <4>1, <1>i, <1>t DEF Fresh
    <3> QED  BY <3>1, <3>2
  <2>3. NoteFollows'
    BY <2>1, <1>i DEF NoteFollows, Recording
  <2>4. Fresh'
    BY <2>1, <2>2, <1>i DEF Fresh, FreshAfterReset
  <2> QED  BY <2>1, <2>3, <2>4 DEF TruthInv, AnsweredWhenOver
<1>3. CASE ReadNote /\ prior' = note
  BY <1>3, <1>i DEF ReadNote, TruthInv, NoteFollows, Fresh, FreshAfterReset, AnsweredWhenOver, Recording
<1>4. CASE WriteNote /\ note' = IF SubjectThread THEN note ELSE RolledUp
  <2>1. /\ pc = "writeNote" /\ prior = note /\ pc' \in {"deliver", "reply", "callback", "failureNote"}
        /\ pc' = "deliver" <=> rec.status = "working"
        /\ UNCHANGED <<turn, request, stale, rec, session, result, drawn, kept, wiped, replies, called>>
    BY <1>4, <1>i, <1>t DEF WriteNote, Recorded, AfterRecord, NoteFollows
  <2>2. ~SubjectThread => /\ note'.status = rec.status
                          /\ note'.session = IF rec.status # "working" /\ result.session # None THEN result.session
                                             ELSE note.session
    BY <1>4, <2>1 DEF RolledUp, SentSession
  <2>3. NoteFollows'
    BY <1>4, <2>1, <2>2, <1>i DEF NoteFollows, Recording
  <2>4. Fresh'
    BY <1>4, <2>1, <2>2, <1>i DEF Fresh, FreshAfterReset
  <2> QED  BY <2>1, <2>3, <2>4 DEF TruthInv, AnsweredWhenOver
<1>5. CASE ClaudeSucceeds
  BY <1>5, EndTurnTruth DEF ClaudeSucceeds
<1>6. CASE ClaudeFails
  BY <1>6, EndTurnTruth DEF ClaudeFails
<1>7. CASE ClaudeRetries
  BY <1>7, <1>i DEF ClaudeRetries, TruthInv, NoteFollows, Fresh, FreshAfterReset, AnsweredWhenOver, Recording
<1>8. CASE SessionGone
  <2>1. /\ pc = "deliver" /\ session' = [id |-> drawn + 1, resume |-> FALSE] /\ drawn' = drawn + 1
        /\ UNCHANGED <<note, pc, turn, request, stale, rec, prior, result, replies, called, kept, wiped>>
    BY <1>8 DEF SessionGone, NewSession
  <2> QED
    BY <2>1, <1>i, <1>t DEF TruthInv, NoteFollows, Fresh, FreshAfterReset, AnsweredWhenOver, Recording
<1>9. CASE ReplyWritten
  BY <1>9, <1>i DEF ReplyWritten, TruthInv, NoteFollows, Fresh, FreshAfterReset, AnsweredWhenOver, Recording
<1>10. CASE ReplyRetried
  BY <1>10, <1>i DEF ReplyRetried, TruthInv, NoteFollows, Fresh, FreshAfterReset, AnsweredWhenOver, Recording
<1>11. CASE ReplyFailed
  BY <1>11, <1>i DEF ReplyFailed, TruthInv, NoteFollows, Fresh, FreshAfterReset, AnsweredWhenOver, Recording
<1>12. CASE FailureNote
  BY <1>12, <1>i DEF FailureNote, TruthInv, NoteFollows, Fresh, FreshAfterReset, AnsweredWhenOver, Recording
<1>13. CASE Callback
  <2>1. /\ pc = "callback" /\ pc' = "idle" /\ called' = IF Answerable THEN rec.status ELSE None
        /\ UNCHANGED <<note, turn, request, stale, rec, prior, session, result, drawn, kept, wiped, replies>>
    BY <1>13 DEF Callback
  <2>2. AnsweredWhenOver'
    BY <2>1, <1>t DEF AnsweredWhenOver, Answerable
  <2> QED  BY <2>1, <2>2, <1>i DEF TruthInv, NoteFollows, Fresh, FreshAfterReset, Recording
<1>14. CASE pc = "idle" /\ Reset
  <2>1. /\ pc = "idle" /\ note # NoNote /\ note'.session = None /\ note'.status = note.status /\ wiped' = drawn
        /\ kept' = None
        /\ UNCHANGED <<pc, turn, request, stale, rec, prior, session, result, drawn, replies, called>>
    BY <1>14, <1>t DEF Reset, Note
  <2> QED
    BY <2>1, <1>i, <1>t
       DEF TruthInv, NoteFollows, Fresh, FreshAfterReset, AnsweredWhenOver, Answerable, Recording
<1>15. CASE UNCHANGED vars
  BY <1>15, <1>i DEF vars, TruthInv, NoteFollows, Fresh, FreshAfterReset, AnsweredWhenOver, Answerable, Recording
<1> QED
  BY <1>1, <1>2, <1>3, <1>4, <1>5, <1>6, <1>7, <1>8, <1>9, <1>10, <1>11, <1>12, <1>13, <1>14, <1>15 DEF SteadyStep

\* A turn that is over ended with its callback, which found the note as recorded.
LEMMA NextStatus ==
  ASSUME TypeOK, OutcomeInv, NoteFollows, StatusTruthful, SteadyStep \/ UNCHANGED vars
  PROVE  StatusTruthful'
<1> SUFFICES ASSUME pc' = "idle" PROVE StatusTruthful'
  BY DEF StatusTruthful
<1> USE NoneAssumption DEF atTurn, delivery, answers, counted, BeginRecord
<1>1. Callback \/ (pc = "idle" /\ Reset) \/ UNCHANGED vars
  BY DEF SteadyStep, SteadyReadSession, Begin, ReadSession, ReadNote, WriteNote, Recorded, AfterRecord, ClaudeSucceeds,
         ClaudeFails, EndTurn, ClaudeRetries, SessionGone, ReplyWritten, ReplyRetried, ReplyFailed, FailureNote, TypeOK
<1>2. CASE Callback
  BY <1>2 DEF Callback, StatusTruthful, NoteFollows, OutcomeInv, NoNote
<1>3. CASE pc = "idle" /\ Reset
  BY <1>3 DEF Reset, StatusTruthful, TypeOK, Note
<1>4. CASE UNCHANGED vars
  BY <1>4 DEF vars, StatusTruthful
<1> QED  BY <1>1, <1>2, <1>3, <1>4

SteadyCount == ~SubjectThread => note.turns + Uncounted = ended

LEMMA NextSteadyCount ==
  ASSUME TypeOK, NoteFollows, SteadyCount, SteadyStep \/ UNCHANGED vars
  PROVE  SteadyCount'
<1> SUFFICES ASSUME ~SubjectThread PROVE note'.turns + Uncounted' = ended'
  BY DEF SteadyCount
<1> USE DEF atTurn, delivery, answers, counted, BeginRecord, Recording, Uncounted
<1>i. note.turns + Uncounted = ended /\ note.turns \in Nat /\ ended \in Nat
  BY DEF SteadyCount, TypeOK, Note
<1>1. CASE WriteNote /\ note' = IF SubjectThread THEN note ELSE RolledUp
  <2>1. pc = "writeNote" /\ prior = note /\ pc' \notin {"readNote", "writeNote"} /\ ended' = ended
    BY <1>1 DEF WriteNote, Recorded, AfterRecord, NoteFollows, TypeOK
  <2>2. note'.turns = note.turns + Uncounted
    BY <1>1, <1>i, <2>1 DEF RolledUp, Counts
  <2> QED  BY <1>i, <2>1, <2>2
<1>2. CASE ClaudeSucceeds \/ ClaudeFails
  <2>1. pc = "deliver" /\ pc' = "readNote" /\ note' = note /\ ended' = ended + 1
    BY <1>2 DEF ClaudeSucceeds, ClaudeFails, EndTurn
  <2>2. rec'.status # "working" /\ ~rec'.same
    BY <1>2 DEF ClaudeSucceeds, ClaudeFails, EndTurn
  <2> QED  BY <1>i, <2>1, <2>2
<1>3. CASE ReadNote \/ UNCHANGED vars
  BY <1>3, <1>i DEF ReadNote, vars
<1>4. CASE pc = "idle" /\ Reset
  BY <1>4, <1>i DEF Reset, TypeOK, Note
<1>5. ASSUME NEW depth, Begin(depth) PROVE note'.turns + Uncounted' = ended'
  BY <1>5, <1>i DEF Begin
<1>6. CASE SteadyReadSession
  BY <1>6, <1>i DEF SteadyReadSession, ReadSession
<1>7. CASE ClaudeRetries \/ SessionGone
  BY <1>7, <1>i DEF ClaudeRetries, SessionGone
<1>8. CASE ReplyWritten \/ ReplyRetried \/ ReplyFailed
  BY <1>8, <1>i DEF ReplyWritten, ReplyRetried, ReplyFailed
<1>9. CASE FailureNote \/ Callback
  BY <1>9, <1>i DEF FailureNote, Callback
<1> QED  BY <1>1, <1>2, <1>3, <1>4, <1>5, <1>6, <1>7, <1>8, <1>9 DEF SteadyStep

\* The steps of both environments.
SteadyInv == TypeOK /\ (env = "steady" => TruthInv)

LEMMA MCSteps ==
  ASSUME [MCNext]_<<vars, env>>
  PROVE  /\ [Next]_vars
         /\ env' = env
         /\ env = "steady" => SteadyStep \/ UNCHANGED vars
<1>1. CASE In("faulty") /\ Next
  BY <1>1 DEF In
<1>2. CASE In("steady") /\ Steady!Next
  BY <1>2, SteadySteps, SteadyIsNext DEF In
<1>3. CASE UNCHANGED <<vars, env>>
  BY <1>3
<1> QED  BY <1>1, <1>2, <1>3 DEF MCNext

LEMMA InitSteady == MCInit => SteadyInv
BY InitType, InitTruth DEF MCInit, SteadyInv

LEMMA NextSteady == SteadyInv /\ [MCNext]_<<vars, env>> => SteadyInv'
<1> SUFFICES ASSUME SteadyInv, [MCNext]_<<vars, env>> PROVE SteadyInv'
  OBVIOUS
<1>1. TypeOK'
  BY MCSteps, NextType DEF SteadyInv
<1>2. env = "steady" => TruthInv'
  BY MCSteps, NextTruth DEF SteadyInv
<1> QED  BY <1>1, <1>2, MCSteps DEF SteadyInv

\* A turn leaves at most one reply; against a steady vault turns are counted
\* once, the note says "ok" only of a turn with its reply in the transcript,
\* the requester is answered, and after a reset no old session is resumed.
THEOREM TruthIsKept ==
  ASSUME "lost" \notin ReplyFaults
  PROVE  MCSpec => []TruthIsLeft
<1> DEFINE Kept == /\ SteadyInv /\ OutcomeInv /\ CountInv
                   /\ env = "steady" => StatusTruthful /\ SteadyCount
<1>1. MCInit => Kept
  <2> SUFFICES ASSUME MCInit PROVE Kept
    OBVIOUS
  <2>1. StatusTruthful /\ SteadyCount
    BY NoneAssumption DEF MCInit, Init, StatusTruthful, SteadyCount, Uncounted, Recording, NoNote
  <2> QED  BY <2>1, InitSteady, InitOutcome, InitCount DEF MCInit
<1>2. Kept /\ [MCNext]_<<vars, env>> => Kept'
  <2> SUFFICES ASSUME Kept, [MCNext]_<<vars, env>> PROVE Kept'
    OBVIOUS
  <2>1. TypeOK
    BY DEF SteadyInv
  <2>2. SteadyInv' /\ OutcomeInv' /\ CountInv'
    BY <2>1, MCSteps, NextSteady, NextOutcome, NextCount
  <2>3. env = "steady" => StatusTruthful' /\ SteadyCount'
    <3> SUFFICES ASSUME env = "steady" PROVE StatusTruthful' /\ SteadyCount'
      OBVIOUS
    <3>1. NoteFollows /\ (SteadyStep \/ UNCHANGED vars)
      BY MCSteps DEF SteadyInv, TruthInv
    <3> QED  BY <2>1, <3>1, NextStatus, NextSteadyCount
  <2> QED  BY <2>2, <2>3, MCSteps
<1>3. Kept => TruthIsLeft
  <2> SUFFICES ASSUME Kept PROVE TruthIsLeft
    OBVIOUS
  <2>1. ReplyAtMostOnce
    BY DEF OutcomeInv, ReplyAtMostOnce
  <2>2. env = "steady" => Steady!TurnsCountedOnce
    BY CountImplies DEF SteadyInv, SteadyCount, Uncounted, Recording, TypeOK, Note, TurnsCountedOnce, Steady!TurnsCountedOnce,
       Steady!CountsReliably, Steady!Recording
  <2>3. env = "steady" => AnsweredWhenOver /\ FreshAfterReset
    BY DEF SteadyInv, TruthInv, Fresh
  <2> QED  BY <2>1, <2>2, <2>3 DEF TruthIsLeft
<1> QED  BY <1>1, <1>2, <1>3, PTL DEF MCSpec

\* Against a steady vault the thread's conversation goes on from turn to turn
\* until it is reset.
THEOREM ConversationGoesOn ==
  ASSUME ~SubjectThread
  PROVE  MCSpec => SteadyResumes
<1>1. SteadyInv /\ [MCNext]_<<vars, env>> =>
        [env = "steady" /\ pc = "session" /\ pc' = "readNote" /\ kept # None
           => session' = [id |-> kept, resume |-> TRUE]]_vars
  <2> SUFFICES ASSUME SteadyInv, [MCNext]_<<vars, env>>, env = "steady", pc = "session", pc' = "readNote", kept # None
               PROVE  session' = [id |-> kept, resume |-> TRUE]
    BY DEF vars
  <2>1. SteadyReadSession
    BY MCSteps DEF SteadyStep, Begin, ReadNote, WriteNote, ClaudeSucceeds, ClaudeFails, ClaudeRetries, SessionGone,
       ReplyWritten, ReplyRetried, ReplyFailed, FailureNote, Callback, vars
  <2>2. note.session = kept
    BY DEF SteadyInv, TruthInv, NoteFollows, Recording
  <2> QED  BY <2>1, <2>2 DEF SteadyReadSession
<1> QED  BY <1>1, InitSteady, NextSteady, PTL DEF MCSpec, SteadyResumes
=============================================================================
