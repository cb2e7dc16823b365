----------------------------- MODULE MCTurnQueue -----------------------------
(***************************************************************************)
(* Instances of TurnQueue for TLC.  Strings stand for the strings of the   *)
(* code, so that a name and a drain key may coincide as they may there.    *)
(*                                                                         *)
(* The variable env, chosen in the initial state, tells the environments   *)
(* of one run apart: "core" has one multi-threaded agent, three messages   *)
(* and every teardown, with the fairness of the event loop; "calm" has one *)
(* message more, and no teardown deletes the lock of a running drain;      *)
(* "moving" has a name that moves between two channels, with two messages, *)
(* also for threads, and failing reads; "racing" has one of them, and calls*)
(* that slip in before a continuation.  The constants of the run are those *)
(* of "calm", with the names and keys of all four.                         *)
(***************************************************************************)
EXTENDS TurnQueue, TLC

VARIABLE env

DrainIds == 1..4
CoreMsgs == 3

\* An agent whose name, channel and thread id are one string, as the
\* definition path makes them.
Agent(i, m) == [name |-> i, channel |-> i, multi |-> m]

\* One agent with a subject x, and so with two drain keys.
OneName == {"a"}
OneSubject == {"x"}
OneNameKeys == {"a", "a--x"}
OneNameThreadKey == <<"a", "x">> :> "a--x"
OneNamePrefixed == {<<"a", "a--x">>}
MultiAgent == {Agent("a", TRUE)}

\* The names of all, of whom only "a" has an agent in "core" and "calm".
AllKeys == {"a", "c", "a--x", "c--x"}
AllThreadKey == <<"a", "x">> :> "a--x" @@ <<"c", "x">> :> "c--x"
AllPrefixed == {<<"a", "a--x">>, <<"c", "c--x">>}
MovingNames == {"a", "c"}

\* An agent whose name may move between a channel of the same name and another.
MovingAgent == {Agent("a", FALSE), [name |-> "a", channel |-> "c", multi |-> FALSE]}

Moving ==
  INSTANCE TurnQueue WITH
    Subject <- {}, ThreadKey <- [p \in {} |-> "a"], Prefixed <- {},
    AgentSpec <- MovingAgent, MaxMsgs <- 2, PendingCap <- 1,
    ThreadsWired <- TRUE, SessionReadFails <- TRUE
Racing ==
  INSTANCE TurnQueue WITH
    Subject <- {}, ThreadKey <- [p \in {} |-> "a"], Prefixed <- {},
    AgentSpec <- MovingAgent, MaxMsgs <- 1, PendingCap <- 1,
    ThreadsWired <- TRUE, SessionReadFails <- TRUE, MicrotaskRaces <- TRUE

\* Nobody expects an agent of another name.
Alone == expected' \subseteq OneName

In(e) == env = e /\ UNCHANGED env
MCInit == env \in {"core", "calm", "moving", "racing"} /\ Init
MCNext ==
  \/ In("core") /\ Next /\ Alone /\ arrived' <= CoreMsgs
  \/ In("calm") /\ Next /\ Alone /\ LockReleasedByHolder
  \/ In("moving") /\ Moving!Next
  \/ In("racing") /\ Racing!Next
MCFairness ==
  /\ \A k \in Key : SF_vars(env = "core" /\ \E w \in workers : w.key = k /\ WorkerStep(w))
  /\ WF_vars(env = "core" /\ Replay)
  /\ \A spec \in AgentSpec : WF_vars(env = "core" /\ Registered(spec))
  /\ \A c \in OneName : WF_vars(env = "core" /\ Unexpect(c))
MCSpec == MCInit /\ [][MCNext]_<<vars, env>> /\ MCFairness

\* One environment only, for the runs that have no other.
OnlySpec == (env = "only" /\ Init) /\ [][In("only") /\ Next]_<<vars, env>>

(* Where agents keep the names of their channels, messages keep the order  *)
(* of arrival.                                                             *)
OwnKeptInOrder == env \in {"core", "calm"} => KeptInOrder

(* In the core environment every queued message ends.                       *)
CoreMessagesEnd ==
  \A n \in MsgNo :
    (env = "core" /\ \E k \in Key : n \in Numbers(queues[k])) ~> n \notin owned

(* In the calm environment the registry implements the serial mailboxes.    *)
CalmImplementsMailboxes ==
  /\ env = "calm" => Mailboxes!Init
  /\ [][env = "calm" => Mailboxes!Next]_<<queues, RunningMsg, env>>
=============================================================================
