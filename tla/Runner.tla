------------------------------- MODULE Runner -------------------------------
(***************************************************************************)
(* The scheduler of jobs (src/runner.ts): every interval a tick loads the  *)
(* jobs from the vault and fires those whose next run is due.  The interval*)
(* does not wait for the previous tick, so ticks overlap whenever the vault*)
(* is slow, and each works with the time it began at and with the list it  *)
(* has read.  Operators create, edit and delete job notes beside it, and   *)
(* run jobs by hand.                                                       *)
(*                                                                         *)
(* Time is counted in minutes, the resolution of cron.  A cron expression  *)
(* is the set of the minutes at which it matches; Cron is about how the    *)
(* next one is found.                                                      *)
(*                                                                         *)
(* Definitions that no other one uses stand before the definition that they*)
(* are a faulty variant of; the properties below tell the two apart.       *)
(***************************************************************************)
EXTENDS Integers, FiniteSets

CONSTANTS
  Job,          \* ids of job notes: never used twice
  Expression,   \* cron expressions, as sets of times; {} is unschedulable
  Tick,         \* ticks that may be in progress at the same time
  MaxTime,      \* bound on the time
  BaseDelay,    \* backoff after the first failure,
  CapDelay,     \* the longest backoff,
  MaxJitter,    \* and what chance may add to it
  MaxFailures,  \* bound on the failures in a row
  CanRestart,   \* may the daemon restart?
  New, Gone,    \* in place of a note: not created yet, deleted
  None

Time == 0..MaxTime
ASSUME BoundAssumption ==
  {MaxTime, BaseDelay, CapDelay, MaxJitter, MaxFailures} \subseteq Nat
ASSUME ExpressionAssumption == \A c \in Expression : c \subseteq Time
ASSUME SwitchAssumption == CanRestart \in BOOLEAN
ASSUME NoneAssumption == None \notin Tick /\ None \notin Int

\* A job note, as loadJobs returns it.
JobNote == [enabled : BOOLEAN, cron : Expression]
ASSUME JobNoteAssumption ==
  /\ \A n \in JobNote : n # None /\ n # New /\ n # Gone
  /\ \A r \in [job : Job, cron : Expression] : r # None

VARIABLES
  now,       \* the clock
  note,      \* job -> its note in the vault, New before and Gone after it
  horizon,   \* job -> when it is due next, or None
  inFlight,  \* jobs marked as being fired
  ticks,     \* tick -> where it is, the time it began at, the list it has read
  manual,    \* the runNow call that waits for the list: its job, or None
  fires,     \* the fireOne calls that wait for fire()
  breaker,   \* failures in a row, and the time before which no tick loads
  last,      \* history: job -> time of its last scheduled fire, or -1
  forgotten  \* history: the jobs whose horizon has been dropped

history == <<last, forgotten>>
vars == <<now, note, horizon, inFlight, ticks, manual, fires, breaker, history>>

\* The note of a job exists in the vault.
There(j) == note[j] # New /\ note[j] # Gone

NoList == [j \in Job |-> None]
Idle == [at |-> "idle", time |-> 0, list |-> NoList]
Closed == [failures |-> 0, openUntil |-> 0]

Init ==
  /\ now = 0
  /\ note \in [Job -> {New} \cup JobNote]
  /\ horizon = [j \in Job |-> None]
  /\ inFlight = {}
  /\ ticks = [t \in Tick |-> Idle]
  /\ manual = None
  /\ fires = {}
  /\ breaker = Closed
  /\ last = [j \in Job |-> -1]
  /\ forgotten = {}

NextRunFrom(c, t) ==
  LET later == {s \in c : t <= s} \cup {MaxTime + 1}
  IN  IF c = {} THEN None ELSE CHOOSE s \in later : \A r \in later : s <= r

\* nextRunAfter, strictly; MaxTime + 1 stands for all times out of bounds.
NextRun(c, t) ==
  LET later == {s \in c : t < s} \cup {MaxTime + 1}
  IN  IF c = {} THEN None ELSE CHOOSE s \in later : \A r \in later : s <= r

(***************************************************************************)
(* The vault and the clock.                                                *)
(***************************************************************************)
Advance ==
  /\ now < MaxTime
  /\ now' = now + 1
  /\ UNCHANGED <<note, horizon, inFlight, ticks, manual, fires, breaker, history>>

\* The note of a job is created, edited or deleted.
ChangeNote(j, n) ==
  /\ note[j] # Gone
  /\ note[j] # n
  /\ n = Gone => There(j)
  /\ note' = [note EXCEPT ![j] = n]
  /\ UNCHANGED <<now, horizon, inFlight, ticks, manual, fires, breaker, history>>

(***************************************************************************)
(* tick                                                                    *)
(***************************************************************************)
ReadyOnlyWhenClosed == breaker.failures = 0

Ready == now >= breaker.openUntil

\* A tick ends when its fires have settled.
Free(t) == ticks[t].at = "idle" /\ \A f \in fires : f.by # t

TickBegins(t) ==
  /\ Free(t)
  /\ Ready
  /\ ticks' = [ticks EXCEPT ![t] = [at |-> "loading", time |-> now, list |-> NoList]]
  /\ UNCHANGED <<now, note, horizon, inFlight, manual, fires, breaker, history>>

\* The vault reads the job notes.
JobList == [j \in Job |-> IF There(j) THEN note[j] ELSE None]

Listed(t) ==
  /\ ticks[t].at = "loading"
  /\ ticks' = [ticks EXCEPT ![t].at = "listed", ![t].list = JobList]
  /\ UNCHANGED <<now, note, horizon, inFlight, manual, fires, breaker, history>>

\* fail(): the delay doubles up to the cap.
Delay(failures) ==
  LET exp == BaseDelay * 2 ^ (failures - 1)
  IN  IF exp < CapDelay THEN exp ELSE CapDelay

LoadFails(t) ==
  /\ breaker.failures < MaxFailures
  /\ ticks[t].at = "loading"
  /\ ticks' = [ticks EXCEPT ![t] = Idle]
  /\ \E jitter \in 0..MaxJitter :
       LET until == now + Delay(breaker.failures + 1) + jitter
       IN  breaker' = [failures |-> breaker.failures + 1,
                       openUntil |-> IF until < MaxTime THEN until ELSE MaxTime]
  /\ UNCHANGED <<now, note, horizon, inFlight, manual, fires, history>>

SucceedKeepsGate == breaker' = [breaker EXCEPT !.failures = 0]

\* succeed()
Succeed == breaker' = Closed

(***************************************************************************)
(* The rest of a tick, once it has its list: forget the jobs that are not  *)
(* in it, then for each enabled job that is not being fired set its        *)
(* horizon if it has none, or fire it if it is due.                        *)
(***************************************************************************)
Kept(t) == [j \in Job |-> IF ticks[t].list[j] = None THEN None ELSE horizon[j]]

CandidatesInFlightToo(t) ==
  {j \in Job : ticks[t].list[j] # None /\ ticks[t].list[j].enabled}

Candidates(t) ==
  {j \in Job \ inFlight : ticks[t].list[j] # None /\ ticks[t].list[j].enabled}

Unseen(t) == {j \in Candidates(t) : Kept(t)[j] = None}
Due(t) == {j \in Candidates(t) : Kept(t)[j] # None /\ Kept(t)[j] <= ticks[t].time}

FireOne(j, c, at, by) == [job |-> j, cron |-> c, at |-> at, by |-> by]

Considered(t) ==
  LET at == ticks[t].time
      list == ticks[t].list
  IN
  /\ ticks[t].at = "listed"
  /\ ticks' = [ticks EXCEPT ![t] = Idle]
  /\ Succeed
  /\ horizon' = [j \in Job |-> IF j \in Unseen(t) THEN NextRun(list[j].cron, at)
                               ELSE Kept(t)[j]]
  /\ fires' = fires \cup {FireOne(j, list[j].cron, at, t) : j \in Due(t)}
  /\ inFlight' = inFlight \cup Due(t)
  /\ last' = [j \in Job |-> IF j \in Due(t) THEN at ELSE last[j]]
  /\ forgotten' = forgotten \cup {j \in Job : horizon[j] # None /\ Kept(t)[j] = None}
  /\ UNCHANGED <<now, note, manual>>

FiredKeepsMark(f) ==
  /\ f \in fires
  /\ fires' = fires \ {f}
  /\ horizon' = [horizon EXCEPT ![f.job] = NextRun(f.cron, f.at)]
  /\ UNCHANGED <<now, note, inFlight, ticks, manual, breaker, history>>

\* fire() has settled, well or not: the finally of fireOne.
Fired(f) ==
  LET next == NextRun(f.cron, f.at)
  IN
  /\ f \in fires
  /\ fires' = fires \ {f}
  /\ inFlight' = inFlight \ {f.job}
  /\ horizon' = [horizon EXCEPT ![f.job] = next]
  /\ forgotten' = IF next = None THEN forgotten \cup {f.job} ELSE forgotten
  /\ UNCHANGED <<now, note, ticks, manual, breaker, last>>

(***************************************************************************)
(* runNow                                                                  *)
(***************************************************************************)
RunNow(j) ==
  /\ manual = None
  /\ There(j)
  /\ manual' = [job |-> j, cron |-> note[j].cron]
  /\ UNCHANGED <<now, note, horizon, inFlight, ticks, fires, breaker, history>>

\* The list is back: the schedule is ignored, the guard is not.
RunNowListed ==
  /\ manual # None
  /\ manual' = None
  /\ \/ /\ manual.job \in inFlight
        /\ UNCHANGED <<inFlight, fires>>
     \/ /\ manual.job \notin inFlight
        /\ inFlight' = inFlight \cup {manual.job}
        /\ fires' = fires \cup {FireOne(manual.job, manual.cron, now, None)}
  /\ UNCHANGED <<now, note, horizon, ticks, breaker, history>>

\* Horizons, marks and the breaker live in memory.
Restart ==
  /\ CanRestart
  /\ now < MaxTime
  /\ horizon' = [j \in Job |-> None]
  /\ inFlight' = {}
  /\ ticks' = [t \in Tick |-> Idle]
  /\ manual' = None
  /\ fires' = {}
  /\ breaker' = Closed
  /\ UNCHANGED <<now, note, history>>

TickStep(t) == TickBegins(t) \/ Listed(t) \/ LoadFails(t) \/ Considered(t)

Next ==
  \/ Advance
  \/ \E j \in Job : RunNow(j) \/ \E n \in JobNote \cup {Gone} : ChangeNote(j, n)
  \/ \E t \in Tick : TickStep(t)
  \/ \E f \in fires : Fired(f)
  \/ RunNowListed
  \/ Restart

Spec == Init /\ [][Next]_vars

\* The interval fires and the vault answers a load every now and then.  That a
\* fire settles is an assumption about the vault: the code sets no timeout.
FairSpec ==
  /\ Spec
  /\ WF_vars(Advance)
  /\ \A t \in Tick : /\ SF_vars(TickBegins(t))
                     /\ SF_vars(Listed(t))
                     /\ WF_vars(Considered(t))
  /\ \A j \in Job : WF_vars(\E f \in fires : f.job = j /\ Fired(f))

(***************************************************************************)
(* Properties.                                                             *)
(***************************************************************************)
Fire == [job : Job, cron : Expression, at : Time, by : Tick \cup {None}]

\* Every variable keeps its type; the breaker is closed exactly when the last
\* load has succeeded.
TypeOK ==
  /\ now \in Time
  /\ note \in [Job -> {New, Gone} \cup JobNote]
  /\ horizon \in [Job -> 0..(MaxTime + 1) \cup {None}]
  /\ inFlight \subseteq Job
  /\ ticks \in [Tick -> [at : {"idle", "loading", "listed"}, time : Time,
                         list : [Job -> JobNote \cup {None}]]]
  /\ manual \in [job : Job, cron : Expression] \cup {None}
  /\ fires \subseteq Fire
  /\ breaker \in [failures : Nat, openUntil : Time]
  /\ breaker.failures = 0 => breaker.openUntil = 0
  /\ last \in [Job -> Time \cup {-1}]
  /\ forgotten \subseteq Job

\* A job that is being fired is not fired a second time, by overlapping ticks
\* or by hand.
NoOverlap == \A f, g \in fires : f.job = g.job => f = g

\* A run that was due fires once, whatever ticks overlap, as long as the
\* horizon of its job has not been dropped: the run that a scheduled fire is for
\* lies after the time of the job's previous scheduled fire.
OncePerSlot ==
  [][\A f \in fires' \ fires :
       f.by # None /\ f.job \notin forgotten
         => last[f.job] < horizon[f.job] /\ horizon[f.job] <= f.at]_vars

\* The scheduler never gets stuck: again and again, every enabled job is
\* waiting for a time that has not come yet.
Waits(j) == horizon[j] # None /\ now < horizon[j] /\ j \notin inFlight
KeepsUp ==
  \A j \in Job :
    []<>(There(j) /\ note[j].enabled /\ note[j].cron # {} => Waits(j))
=============================================================================
