-------------------------------- MODULE Chat --------------------------------
(***************************************************************************)
(* The chat page over a daemon: the transcript, the stream of turn events  *)
(* and the one-time tickets it is opened with (routes/Chat.tsx, getSseTicket *)
(* of lib/auth.ts, ui-ticket.ts, the sse-ticket, turn-events, messages and *)
(* send routes of daemon.ts, requireSseTicket of auth.ts).  Every channel  *)
(* here is of a vault.                                                     *)
(*                                                                         *)
(* Listing, loading, sending and minting are awaited and overlap; a turn's *)
(* events have no backlog; a ticket is spent by its first use.             *)
(***************************************************************************)
EXTENDS Integers, Sequences, SequencesExt, FiniteSets

CONSTANTS
  Channel, NoChannel,
  First,          \* the first channel of the list
  MaxNotes, MaxPicks, MaxBreaks, MaxStreams,
  DeepLink        \* channels the page may be opened on, or NoChannel

ASSUME ChatAssumption ==
  /\ First \in Channel /\ NoChannel \notin Channel /\ DeepLink \subseteq Channel \cup {NoChannel}
  /\ {MaxNotes, MaxPicks, MaxBreaks, MaxStreams} \subseteq Nat

VARIABLES
  (* the daemon *)
  transcript,   \* per channel: the notes of its transcript
  notes,        \* notes written so far
  working,      \* channels with a running turn
  waiting,      \* per channel: messages whose turn has not started
  tickets,      \* live tickets
  (* the page *)
  channels,     \* the list has been loaded
  selected, connectGen,
  seenIds, lines, liveTurn, status,
  loads,        \* transcript reads under way
  sends,        \* messages under way: the note once it is written
  opening,      \* openStreams awaiting its ticket
  streams,      \* event sources that are connecting or open
  turnEs,       \* the number of the event source the page knows of
  issued,       \* tickets and event sources so far
  sseRetried,
  picks, breaks

chatVars == <<transcript, notes, working, waiting, tickets, channels, selected, connectGen, seenIds,
              lines, liveTurn, status, loads, sends, opening, streams, turnEs, issued, sseRetried,
              picks, breaks>>
daemonVars == <<transcript, notes, working, waiting>>
viewVars == <<seenIds, lines, liveTurn, status>>
streamVars == <<tickets, opening, streams, turnEs, issued, sseRetried>>

Note == 1 .. MaxNotes

ChatInit ==
  /\ transcript = [c \in Channel |-> {}] /\ notes = 0 /\ working = {}
  /\ waiting = [c \in Channel |-> 0] /\ tickets = {}
  /\ channels = FALSE /\ selected \in DeepLink
  /\ seenIds = {} /\ lines = <<>> /\ liveTurn = "none"
  /\ sends = {} /\ opening = {} /\ streams = {} /\ turnEs = 0 /\ issued = 0
  /\ sseRetried = FALSE /\ picks = 0 /\ breaks = 0
  /\ IF selected = NoChannel
     THEN connectGen = 0 /\ status = "" /\ loads = {}
     ELSE /\ connectGen = 1 /\ status = "loading"
          /\ loads = {[ch |-> selected, gen |-> 1, kind |-> "history", answered |-> FALSE,
                       answer |-> {}, failed |-> FALSE, sees |-> FALSE]}

-----------------------------------------------------------------------------
(* Tickets: issued for a Bearer, spent by the first look-up, even when     *)
(* they have expired meanwhile.                                            *)
consumeTicket(t) == tickets' = tickets \ {t}

(* A reload that trusts the daemon to send each note once.                 *)
AddsAll(ns) == seenIds' = seenIds \cup ns /\ lines' = lines \o SetToSeq(ns)
(* The transcript after new messages: each note once.                      *)
New(ns) == ns \ seenIds
addMessages(ns) ==
  /\ seenIds' = seenIds \cup ns
  /\ lines' = lines \o SetToSeq(New(ns))
Load(ch, gen, kind) ==
  [ch |-> ch, gen |-> gen, kind |-> kind, answered |-> FALSE, answer |-> {}, failed |-> FALSE,
   sees |-> channels]

(* The known event source is closed; another that escaped stays.           *)
Others == {e \in streams : e.n # turnEs}

(* The selection effect: what the previous cycle has running is cancelled  *)
(* by the generation, its event source is closed, and all is reset.        *)
Select(ch, known) ==
  LET gen == IF selected = NoChannel THEN connectGen + 1 ELSE connectGen + 2 IN
  /\ selected' = ch /\ connectGen' = gen
  /\ streams' = Others /\ turnEs' = 0
  /\ seenIds' = {} /\ lines' = <<>> /\ liveTurn' = "none" /\ status' = "loading"
  /\ sseRetried' = FALSE
  /\ loads' = loads \cup {[Load(ch, gen, "history") EXCEPT !.sees = known]}

Quiet == loads = {} /\ sends = {} /\ opening = {}

-----------------------------------------------------------------------------
(* The list arrives; a selection that is in it stays, else the first       *)
(* channel is selected.                                                    *)
ListLoaded ==
  /\ ~channels /\ channels' = TRUE
  /\ IF selected # NoChannel
     THEN UNCHANGED <<selected, connectGen, viewVars, streamVars, loads>>
     ELSE Select(First, TRUE) /\ UNCHANGED <<tickets, opening, issued>>
  /\ UNCHANGED <<daemonVars, sends, picks, breaks>>

onPick(ch) ==
  /\ channels /\ ch # selected /\ picks < MaxPicks /\ picks' = picks + 1
  /\ Select(ch, TRUE)
  /\ UNCHANGED <<daemonVars, channels, sends, tickets, opening, issued, breaks>>

(* The daemon reads the transcript, or the vault does not answer it.       *)
ReadTranscript(l) ==
  /\ l \in loads /\ ~l.answered
  /\ \/ loads' = (loads \ {l}) \cup {[l EXCEPT !.answered = TRUE, !.answer = transcript[l.ch]]}
     \/ loads' = (loads \ {l}) \cup {[l EXCEPT !.answered = TRUE, !.failed = TRUE]}
  /\ UNCHANGED <<daemonVars, channels, selected, connectGen, viewVars, sends, streamVars, picks, breaks>>

(* openStreams up to its ticket: the known event source is closed; the     *)
(* list the closure has seen tells whether the channel is of a vault.      *)
openStreams(ch, gen, sees) ==
  /\ streams' = Others /\ turnEs' = 0
  /\ opening' = IF sees THEN opening \cup {[ch |-> ch, gen |-> gen]} ELSE opening

HistoryLoaded(l) ==
  /\ l \in loads /\ l.answered /\ l.kind = "history" /\ loads' = loads \ {l}
  /\ IF l.gen # connectGen
     THEN UNCHANGED <<viewVars, streamVars>>
     ELSE /\ IF l.failed THEN status' = "error" /\ UNCHANGED <<seenIds, lines>>
             ELSE status' = "live" /\ addMessages(l.answer)
          /\ openStreams(l.ch, l.gen, l.sees)
          /\ UNCHANGED <<liveTurn, tickets, issued, sseRetried>>
  /\ UNCHANGED <<daemonVars, channels, selected, connectGen, sends, picks, breaks>>

(* A reload after a turn adds what it read to the transcript, whichever    *)
(* channel that shows by now.                                              *)
ReloadLoaded(l) ==
  /\ l \in loads /\ l.answered /\ l.kind = "reload" /\ loads' = loads \ {l}
  /\ IF l.failed THEN UNCHANGED <<seenIds, lines>> ELSE addMessages(l.answer)
  /\ UNCHANGED <<daemonVars, channels, selected, connectGen, liveTurn, status, sends, streamVars,
                 picks, breaks>>

(* The ticket has come, or null: a superseded cycle stops here, the other  *)
(* connects.                                                               *)
NeverStale(o) == FALSE
Stale(o) == o.gen # connectGen
Minted(o) ==
  /\ o \in opening /\ opening' = opening \ {o}
  /\ issued < MaxStreams /\ issued' = issued + 1
  /\ \/ tickets' = tickets \cup {issued + 1}
     \/ tickets' = tickets
  /\ IF Stale(o) THEN UNCHANGED <<streams, turnEs>>
     ELSE /\ streams' = streams \cup {[n |-> issued + 1, ch |-> o.ch, gen |-> o.gen, at |-> "connecting"]}
          /\ turnEs' = issued + 1
  /\ UNCHANGED <<daemonVars, channels, selected, connectGen, viewVars, loads, sends, sseRetried,
                 picks, breaks>>

(* The daemon answers the connect: a live ticket opens the stream.         *)
Connect(e) ==
  /\ e \in streams /\ e.at = "connecting"
  /\ consumeTicket(e.n)
  /\ IF e.n \in tickets
     THEN /\ streams' = (streams \ {e}) \cup {[e EXCEPT !.at = "open"]}
          /\ sseRetried' = FALSE /\ status' = "live"
     ELSE /\ streams' = (streams \ {e}) \cup {[e EXCEPT !.at = "broken"]}
          /\ UNCHANGED <<sseRetried, status>>
  /\ UNCHANGED <<daemonVars, channels, selected, connectGen, seenIds, lines, liveTurn, loads, sends,
                 opening, turnEs, issued, picks, breaks>>

(* A ticket expires; the daemon restarts or the network breaks streams.    *)
Break ==
  /\ breaks < MaxBreaks /\ breaks' = breaks + 1
  /\ tickets' = {} /\ working' = {} /\ waiting' = [c \in Channel |-> 0]
  /\ streams' = {[e EXCEPT !.at = "broken"] : e \in streams}
  /\ UNCHANGED <<transcript, notes, channels, selected, connectGen, viewVars, loads, sends, opening,
                 turnEs, issued, sseRetried, picks>>

(* onStreamError: once per connect, a new ticket and a new event source;   *)
(* after that the browser is left to reconnect, with a spent ticket.       *)
onStreamError(e) ==
  /\ e \in streams /\ e.at = "broken"
  /\ IF ~sseRetried
     THEN /\ sseRetried' = TRUE /\ status' = "re-authenticating"
          /\ streams' = {o \in Others : o # e} /\ turnEs' = 0
          /\ opening' = opening \cup {[ch |-> e.ch, gen |-> connectGen]}
     ELSE /\ status' = "reconnecting" /\ streams' = streams \ {e}
          /\ UNCHANGED <<sseRetried, turnEs, opening>>
  /\ UNCHANGED <<daemonVars, channels, selected, connectGen, seenIds, lines, liveTurn, loads, sends,
                 tickets, issued, picks, breaks>>

-----------------------------------------------------------------------------
(* onSend echoes the message at once; the note it becomes is known when    *)
(* the daemon has written it, to the page when the answer arrives.         *)
onSend ==
  /\ selected # NoChannel /\ sends = {} /\ notes < MaxNotes
  /\ notes' = notes + 1 /\ lines' = Append(lines, notes + 1)
  /\ sends' = {[ch |-> selected, note |-> notes + 1, written |-> FALSE]}
  /\ UNCHANGED <<transcript, working, waiting, channels, selected, connectGen, seenIds, liveTurn,
                 status, loads, streamVars, picks, breaks>>

writeInbound(s) ==
  /\ s \in sends /\ ~s.written
  /\ sends' = {[s EXCEPT !.written = TRUE]}
  /\ transcript' = [transcript EXCEPT ![s.ch] = @ \cup {s.note}]
  /\ waiting' = [waiting EXCEPT ![s.ch] = @ + 1]
  /\ UNCHANGED <<notes, working, channels, selected, connectGen, viewVars, loads, streamVars, picks, breaks>>

(* The answer of a send; a failed one leaves the echo.                     *)
Sent(s) ==
  /\ s \in sends /\ sends' = {}
  /\ seenIds' = IF s.written THEN seenIds \cup {s.note} ELSE seenIds
  /\ UNCHANGED <<daemonVars, channels, selected, connectGen, lines, liveTurn, status, loads, streamVars,
                 picks, breaks>>

-----------------------------------------------------------------------------
Listening(ch) == \E e \in streams : e.ch = ch /\ e.at = "open"
EventVars == <<channels, selected, connectGen, sends, streamVars, picks, breaks>>

(* A turn starts: init, or an interim event to a page that missed it.      *)
TurnWorks(ch) ==
  /\ \/ /\ waiting[ch] > 0 /\ ch \notin working
        /\ waiting' = [waiting EXCEPT ![ch] = @ - 1] /\ working' = working \cup {ch}
     \/ ch \in working /\ UNCHANGED <<waiting, working>>
  /\ liveTurn' = IF Listening(ch) THEN "working" ELSE liveTurn
  /\ UNCHANGED <<transcript, notes, seenIds, lines, status, loads, EventVars>>

(* A turn ends: its reply is in the transcript before its event, which     *)
(* drops the live bubble and reloads; or it fails.                         *)
TurnDone(ch) ==
  /\ ch \in working /\ working' = working \ {ch} /\ UNCHANGED waiting
  /\ notes < MaxNotes /\ notes' = notes + 1
  /\ transcript' = [transcript EXCEPT ![ch] = @ \cup {notes + 1}]
  /\ IF Listening(ch)
     THEN liveTurn' = "none" /\ loads' = loads \cup {Load(ch, connectGen, "reload")}
     ELSE UNCHANGED <<liveTurn, loads>>
  /\ UNCHANGED <<seenIds, lines, status, EventVars>>

TurnFails(ch) ==
  /\ ch \in working /\ working' = working \ {ch}
  /\ liveTurn' = IF Listening(ch) THEN "failed" ELSE liveTurn
  /\ UNCHANGED <<transcript, notes, waiting, seenIds, lines, status, loads, EventVars>>

ChatNext ==
  \/ ListLoaded \/ Break \/ onSend
  \/ \E ch \in Channel : onPick(ch) \/ TurnWorks(ch) \/ TurnDone(ch) \/ TurnFails(ch)
  \/ \E l \in loads : ReadTranscript(l) \/ HistoryLoaded(l) \/ ReloadLoaded(l)
  \/ \E o \in opening : Minted(o)
  \/ \E e \in streams : Connect(e) \/ onStreamError(e)
  \/ \E s \in sends : writeInbound(s) \/ Sent(s)

(* The operator waits for the page before the next thing, and the answer   *)
(* of a send is faster than the turn it wakes.                             *)
Waits ==
  /\ picks' # picks => Quiet
  /\ notes' # notes => sends = {}
  /\ sends = {} /\ sends' # {} => Quiet /\ working = {} /\ \A c \in Channel : waiting[c] = 0

ChatSpec == ChatInit /\ [][ChatNext /\ Waits]_chatVars

-----------------------------------------------------------------------------
(* However picks, breaks and awaited tickets interleave, the page has at   *)
(* most one event source, of the selected channel and known to the page,   *)
(* so the next pick closes it: no event of another channel is shown as the *)
(* selected one's.                                                         *)
StreamsFollowSelection ==
  \A e \in streams : e.ch = selected /\ e.n = turnEs

(* For an operator who waits for the page: the transcript shows notes of   *)
(* the selected channel only, each once, optimistic echoes included.       *)
TranscriptTrue ==
  /\ IsInjective(lines)
  /\ \A i \in DOMAIN lines, c \in Channel \ {selected} : lines[i] \notin transcript[c]

(* When the page says live and awaits nothing, the selected channel's      *)
(* stream is there, so the next reply will show.                           *)
LiveIsStreaming == status = "live" /\ Quiet => \E e \in streams : e.ch = selected
=============================================================================
