------------------------------- MODULE Stream -------------------------------
(***************************************************************************)
(* Reading the output of a claude process while it runs: parseStreamJson-  *)
(* Stream and foldLine in src/src/backends/stream-json.ts.  The output is  *)
(* lines of one event each, among lines that are none; a chunk may end     *)
(* anywhere, and so may the output.                                        *)
(*                                                                         *)
(* A line is cut in two halves, and ends with NL: what is between two NL is*)
(* an event if it is both halves of one.                                   *)
(***************************************************************************)
EXTENDS Naturals, Sequences

CONSTANTS
  Event,    \* what a line may say
  Output,   \* outputs of a process
  NL,
  Absent

Half == [event : Event, half : {1, 2}]

ASSUME EventAssumption ==
  \A e \in Event :
    /\ e.type \in {"system", "assistant", "user", "result", "other"}
    /\ e.type \in {"assistant", "user"} => e.block.kind \in {"text", "tool_use", "tool_result"}
ASSUME AbsentAssumption == Absent # TRUE
ASSUME OutputAssumption == Output \subseteq Seq(Half \cup {NL})

VARIABLES
  output,   \* what the process writes
  read,     \* how much of it was read
  buf,      \* the read but unfinished line
  parsed,   \* [turn, interim, toolNames]
  closed

streamVars == <<output, read, buf, parsed, closed>>

NoTurn == [sessionId |-> Absent, success |-> Absent, reply |-> Absent]
Unparsed == [turn |-> NoTurn, interim |-> <<>>, toolNames |-> <<>>]

Unread == read = 0 /\ buf = <<>> /\ parsed = Unparsed /\ closed = FALSE
StreamInit ==
  /\ output \in Output
  /\ Unread

-----------------------------------------------------------------------------
(* foldLine.  An event is [type, session, block, ok, text], with a block of*)
(* [kind, id, name] in a message of the assistant or the user.             *)
IsEvent(line) == Len(line) = 2 /\ line[1].event = line[2].event /\ line[1].half = 1 /\ line[2].half = 2

Interim(p, i) == [p EXCEPT !.interim = Append(@, i)]

\* The first event with a session names it.
Sessioned(p, e) ==
  IF p.turn.sessionId # Absent \/ e.session = Absent THEN p
  ELSE Interim([p EXCEPT !.turn.sessionId = e.session], [kind |-> "init", of |-> e.session, tool |-> Absent])

NamedTool(p, id) ==
  LET named == {i \in DOMAIN p.toolNames : p.toolNames[i].id = id} IN
  IF named = {} THEN Absent ELSE p.toolNames[CHOOSE i \in named : \A j \in named : j <= i].name

Block(p, b) ==
  CASE b.kind = "text" -> Interim(p, [kind |-> "text", of |-> b.name, tool |-> Absent])
    [] b.kind = "tool_use" ->
         Interim([p EXCEPT !.toolNames = Append(@, [id |-> b.id, name |-> b.name])],
                 [kind |-> "tool", of |-> b.id, tool |-> b.name])
    [] b.kind = "tool_result" -> Interim(p, [kind |-> "tool_result", of |-> b.id, tool |-> NamedTool(p, b.id)])

Result(p, e) == [p EXCEPT !.turn.success = e.ok, !.turn.reply = e.text]

foldLine(p, line) ==
  IF ~IsEvent(line) THEN p
  ELSE LET e == line[1].event
           s == Sessioned(p, e)
       IN  CASE e.type \in {"assistant", "user"} -> Block(s, e.block)
             [] e.type = "result" -> Result(s, e)
             [] e.type \in {"system", "other"} -> s

-----------------------------------------------------------------------------
(* A line ends where it is folded; what follows the last one is left.      *)
LineStart(text, i) ==
  LET J == {j \in 1 .. i - 1 : text[j] = NL} IN IF J = {} THEN 0 ELSE CHOOSE j \in J : \A k \in J : k <= j
Line(text, i) == SubSeq(text, LineStart(text, i) + 1, i - 1)
Rest(text) == Line(text, Len(text) + 1)

Folded(p, text) ==
  LET f[i \in 0 .. Len(text)] ==
        IF i = 0 THEN p ELSE IF text[i] = NL THEN foldLine(f[i - 1], Line(text, i)) ELSE f[i - 1]
  IN  f
Drained(p, text) == Folded(p, text)[Len(text)]

\* Every chunk is taken for whole lines.
ChunksAreLines(chunk) ==
  parsed' = foldLine(Drained(parsed, buf \o chunk), Rest(buf \o chunk)) /\ buf' = <<>>

Buffered(chunk) == parsed' = Drained(parsed, buf \o chunk) /\ buf' = Rest(buf \o chunk)

Chunk ==
  /\ ~closed
  /\ \E n \in read + 1 .. Len(output) :
       /\ Buffered(SubSeq(output, read + 1, n))
       /\ read' = n
  /\ UNCHANGED <<output, closed>>

\* The pipe closes: what is left is a last line, if it is one.
Close ==
  /\ ~closed /\ closed' = TRUE
  /\ parsed' = foldLine(parsed, buf) /\ buf' = <<>>
  /\ UNCHANGED <<output, read>>

StreamNext == Chunk \/ Close
StreamSpec == StreamInit /\ [][StreamNext]_streamVars

-----------------------------------------------------------------------------
(* parseStreamJson, on all that was read.                                  *)
parseStreamJson(text) == foldLine(Drained(Unparsed, text), Rest(text))

(* However the output comes in pieces, and wherever it ends, the turn and  *)
(* the live events are those of the whole text, and a turn is a success    *)
(* only by a whole result.                                                 *)
StreamIsTheBlob ==
  LET text == SubSeq(output, 1, read)
      whole == parseStreamJson(text)
  IN
  /\ \E n \in 0 .. Len(whole.interim) : parsed.interim = SubSeq(whole.interim, 1, n)
  /\ closed => parsed = whole
  /\ parsed.turn.success = TRUE =>
       \E i \in 1..Len(text) - 1 :
         /\ NL \notin {text[i], text[i + 1]} /\ IsEvent(SubSeq(text, i, i + 1))
         /\ text[i].event.type = "result" /\ text[i].event.ok
=============================================================================
