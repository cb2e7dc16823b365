------------------------------- MODULE MCTurn -------------------------------
(***************************************************************************)
(* Two environments of Turn, chosen in the initial state.  In "faulty" (the*)
(* constants of the configuration, with one turn less) every call fails in *)
(* every way, sessions are reset beside a turn and the daemon restarts; in *)
(* "steady" the vault keeps the thread note and only claude and the write  *)
(* of the reply fail.                                                      *)
(***************************************************************************)
EXTENDS Turn

VARIABLE env

NoFaults == {}
KnownOutcome == {"rejected", "server", "cut"}
AllFaults == {"rejected", "server", "cut", "lost"}

Steady == INSTANCE Turn WITH
  ReadFaults <- {}, NoteFaults <- {}, ResetMidTurn <- FALSE, CanRestart <- FALSE

In(e) == env = e /\ UNCHANGED env
MCInit == env \in {"faulty", "steady"} /\ Init
MCNext ==
  \/ In("faulty") /\ Next /\ turn' < MaxTurns
  \/ In("steady") /\ Steady!Next
MCSpec ==
  /\ MCInit
  /\ [][MCNext]_<<vars, env>>
  /\ WF_vars(env = "faulty" /\ TurnStep)
  /\ WF_vars(env = "steady" /\ Steady!TurnStep)

\* One environment only, for the runs that have no other.
OnlySpec == (env = "only" /\ Init) /\ [][In("only") /\ Next]_<<vars, env>>

(* A turn leaves one reply behind, however the write is retried; against a *)
(* steady vault every turn is counted, an "ok" thread note has its reply,  *)
(* the requester is answered and a reset forgets the conversation.         *)
TruthIsLeft ==
  /\ ReplyAtMostOnce
  /\ env = "steady" =>
       /\ Steady!TurnsCountedOnce
       /\ StatusTruthful /\ AnsweredWhenOver /\ FreshAfterReset

(* Against a steady vault the conversation goes on.                         *)
SteadyResumes ==
  [][env = "steady" /\ pc = "session" /\ pc' = "readNote" /\ kept # None
       => session' = [id |-> kept, resume |-> TRUE]]_vars
=============================================================================
