----------------------------- MODULE MCSchedule -----------------------------
(***************************************************************************)
(* An instance of the scheduler and of the search for the next run of a    *)
(* cron expression, for TLC.  The variable env, chosen in the initial      *)
(* state, tells which of the two runs: "ticks" is the Runner over a few    *)
(* times of a job, "search" is one call of Cron over a calendar.  The other*)
(* module stays in an initial state, in which no job is created.           *)
(*                                                                         *)
(* The calendar has days of three hours of two minutes, months of three    *)
(* days and weeks of four, in a zone that is two minutes ahead.            *)
(***************************************************************************)
EXTENDS Runner, Cron

VARIABLE env

Times == {{1, 2}}

Days == 0..9
Months ==
  [d \in Days |-> [month |-> 1 + ((d \div 3) % 3), dom |-> 1 + (d % 3), dow |-> d % 4]]

Fields ==
  [f \in {"minute", "hour", "dom", "month", "dow"} |->
     CASE f = "minute" -> [min |-> 0, max |-> 1]
       [] f = "hour" -> [min |-> 0, max |-> 2]
       [] f \in {"dom", "month"} -> [min |-> 1, max |-> 3]
       [] f = "dow" -> [min |-> 0, max |-> 3]]

\* What the wall clock shows, from the minutes since its midnight of day 0.
Shows(m) == [day |-> m \div 6, hour |-> (m % 6) \div 2, minute |-> m % 2]

\* On day 2 the clock shows hour 1 twice.
SetBack == [i \in 0..40 |-> Shows(IF i < 14 THEN i + 2 ELSE i)]

Part(kind, lo, hi, step) == [kind |-> kind, lo |-> lo, hi |-> hi, step |-> step]
Any == <<Part("star", 0, 0, 0)>>
Every(n) == <<Part("star", 0, 0, n)>>
One(n) == <<Part("number", n, n, 0)>>
From(n, step) == <<Part("number", n, n, step)>>
Between(a, b) == <<Part("range", a, b, 0)>>

Written ==
  [minute : {Any, One(0)}, hour : {Any, One(0), Between(1, 2)},
   dom : {Any, Every(2), One(2), One(1) \o One(3), From(2, 1), One(4), Between(3, 2)},
   month : {Any, One(2)}, dow : {Any, One(1), Between(2, 3)}]

-----------------------------------------------------------------------------
allVars == <<vars, cronVars, env>>

MCInit ==
  /\ Init /\ CronInit
  /\ \/ env = "ticks" /\ from = 0 /\ expr = [f \in Field |-> Any]
     \/ env = "search" /\ note = [j \in Job |-> New]

In(e) == env = e /\ UNCHANGED env

MCNext ==
  \/ In("ticks") /\ Next /\ UNCHANGED cronVars
  \/ In("search") /\ CronNext /\ UNCHANGED vars

\* The fairness of the two modules, each in its environment.
MCFairness ==
  /\ WF_vars(env = "ticks" /\ Advance)
  /\ \A t \in Tick : /\ SF_vars(env = "ticks" /\ TickBegins(t))
                     /\ SF_vars(env = "ticks" /\ Listed(t))
                     /\ WF_vars(env = "ticks" /\ Considered(t))
  /\ \A j \in Job : WF_vars(env = "ticks" /\ \E f \in fires : f.job = j /\ Fired(f))
  /\ WF_cronVars(env = "search" /\ CronNext)

MCSpec == MCInit /\ [][MCNext]_allVars /\ MCFairness

\* Nothing stalls: every enabled job keeps up with the clock, and every search
\* ends, for nextRunAfter runs in the daemon's only thread.
SearchesEnd == (env = "search") ~> (pc \in {"done", "error"})
NothingStalls == KeepsUp /\ SearchesEnd
=============================================================================
