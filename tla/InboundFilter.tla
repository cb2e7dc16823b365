---------------------------- MODULE InboundFilter ----------------------------
(***************************************************************************)
(* The duplicate filter of the vault's inbound webhook: the ids of the     *)
(* notes that were seen last (seenInboundNoteIds and markSeen of           *)
(* src/daemon.ts).  One filter serves every channel, in memory: a restart  *)
(* empties it, and past its cap the oldest note is forgotten.  Inbound and *)
(* Delegation mark their notes in it.                                      *)
(*                                                                         *)
(* EvictedAtCap is a faulty variant of the definition that follows it.     *)
(***************************************************************************)
EXTENDS Naturals, Sequences, FiniteSets

CONSTANT SEEN_INBOUND_CAP    \* how many seen notes are remembered

ASSUME FilterAssumption == SEEN_INBOUND_CAP \in Nat \ {0}

VARIABLES
  seen,     \* seenInboundNoteIds, oldest first
  marked    \* history: the notes marked as seen since the last restart

filterVars == <<seen, marked>>

\* Nothing is remembered, at first and after a restart.
FilterInit == seen = <<>> /\ marked = <<>>
FilterEmptied == seen' = <<>> /\ marked' = <<>>

Seen(n) == \E i \in DOMAIN seen : seen[i] = n

\* The faulty variant evicts one note early.
EvictedAtCap(s) == IF Len(s) >= SEEN_INBOUND_CAP THEN Tail(s) ELSE s

\* Past the cap the oldest goes.
Evicted(s) == IF Len(s) > SEEN_INBOUND_CAP THEN Tail(s) ELSE s

MarkSeen(n) ==
  /\ seen' = Evicted(Append(seen, n))
  /\ marked' = Append(marked, n)

\* Within one life of the daemon a note is marked, and so handed on, twice only
\* when as many newer notes came between as the filter remembers (daemon.ts:1608).
OnceWithinTheCap ==
  \A i, j \in DOMAIN marked :
    i < j /\ marked[i] = marked[j] =>
      Cardinality({marked[k] : k \in i + 1 .. j - 1}) >= SEEN_INBOUND_CAP
=============================================================================
