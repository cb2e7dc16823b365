--------------------------- MODULE ScheduleProofs ---------------------------
(***************************************************************************)
(* Theorems about scheduled jobs: what the search of Cron computes, for    *)
(* every calendar, zone, expression and instant to begin with, and what    *)
(* Runner guarantees for any number of jobs, of overlapping ticks and of   *)
(* restarts.                                                               *)
(***************************************************************************)
EXTENDS Cron, Runner, WellFoundedInduction, NaturalsInduction, TLAPS

-----------------------------------------------------------------------------
(* Cron: the search for the next instant.                                  *)

(***************************************************************************)
(* Facts about the constants.                                              *)
(***************************************************************************)

\* The wall clock shows a day of the calendar, an hour and a minute.
LEMMA ClockFacts ==
  /\ LastHour \in Nat /\ HourLength \in Nat \ {0} /\ DayLength \in Nat
  /\ \A i \in Instant : /\ WallClock[i].day \in Nat
                        /\ WallClock[i].day \in DOMAIN Calendar
                        /\ WallClock[i].hour \in 0..LastHour
                        /\ WallClock[i].minute \in 0..(HourLength - 1)
<1>1. LastHour \in Nat /\ HourLength \in Nat \ {0}
  BY FieldAssumption DEF LastHour, HourLength, Field
<1>2. DayLength \in Nat
  BY <1>1 DEF DayLength
<1>3. \A i \in Instant : /\ WallClock[i].day \in Nat
                         /\ WallClock[i].day \in DOMAIN Calendar
                         /\ WallClock[i].hour \in 0..LastHour
                         /\ WallClock[i].minute \in 0..(HourLength - 1)
  BY WallClockAssumption, DayAssumption
<1> QED
  BY <1>1, <1>2, <1>3

\* Multiplication keeps an order.
LEMMA TimesMonotone ==
  ASSUME NEW a \in Nat, NEW b \in Nat, NEW n \in Nat, a <= b
  PROVE  a * n <= b * n
<1> DEFINE d == b - a
<1>1. d \in Nat /\ b = a + d
  OBVIOUS
<1>2. b * n = a * n + d * n
  BY <1>1
<1>3. d * n \in Nat /\ a * n \in Nat
  BY <1>1
<1> QED
  BY <1>2, <1>3

\* A field of a well-formed expression allows a value, and none out of bounds.
LEMMA FieldsAllowSome ==
  ASSUME NEW x \in Tokens, WellFormed(x), NEW f \in Field
  PROVE  /\ ParseField(x[f], FIELD_BOUNDS[f]) # {}
         /\ ParseField(x[f], FIELD_BOUNDS[f])
              \subseteq FIELD_BOUNDS[f].min..FIELD_BOUNDS[f].max
<1> DEFINE b == FIELD_BOUNDS[f]
<1>1. x[f] \in Seq(Element) /\ x[f] # <<>>
  BY TokensAssumption
<1>2. b.min \in Nat /\ b.max \in Nat
  BY FieldAssumption
<1>3. ASSUME NEW i \in DOMAIN x[f]
      PROVE  /\ Values(x[f][i], b) \subseteq b.min..b.max
             /\ Values(x[f][i], b) # {}
  <2> DEFINE e == x[f][i]
             step == IF e.step = 0 THEN 1 ELSE e.step
  <2>1. e \in Element
    BY <1>1
  <2>2. InBounds(e, b)
    BY <1>3 DEF WellFormed
  <2>3. Low(e, b) \in Nat /\ High(e, b) \in Nat
    BY <2>1, <1>2 DEF Low, High, Element
  <2>4. step \in Nat \ {0}
    BY <2>1 DEF Element
  <2>5. Values(e, b) = {v \in Low(e, b)..High(e, b) : (v - Low(e, b)) % step = 0}
    BY DEF Values
  <2> HIDE DEF step, e
  <2>6. Values(e, b) \subseteq b.min..b.max
    BY <2>2, <2>3, <2>5, <1>2 DEF InBounds
  <2>7. (Low(e, b) - Low(e, b)) % step = 0
    BY <2>3, <2>4
  <2>8. Low(e, b) \in Low(e, b)..High(e, b)
    BY <2>2, <2>3, <1>2 DEF InBounds
  <2>9. Low(e, b) \in Values(e, b)
    BY <2>5, <2>7, <2>8
  <2> QED
    BY <2>6, <2>9 DEF e
<1>4. 1 \in DOMAIN x[f]
  BY <1>1
<1> QED
  BY <1>3, <1>4 DEF ParseField

(***************************************************************************)
(* Type correctness.                                                       *)
(***************************************************************************)

\* Every variable keeps its type, and the parsed fields are never empty: the
\* search never runs on an expression that parseCron should have rejected.
THEOREM Typing == CronSpec => []CronTypeOK
<1>1. CronInit => CronTypeOK
  BY CronBoundAssumption DEF CronInit, CronTypeOK, Nothing
<1>2. CronTypeOK /\ [CronNext]_cronVars => CronTypeOK'
  <2> SUFFICES ASSUME CronTypeOK, [CronNext]_cronVars PROVE CronTypeOK'
    OBVIOUS
  <2> USE DEF CronTypeOK
  <2>1. CASE Parse
    <3>1. \A f \in Field : /\ parsed'.sets[f] = ParseField(expr[f], FIELD_BOUNDS[f])
                           /\ parsed'.domStar \in BOOLEAN /\ parsed'.dowStar \in BOOLEAN
      BY <2>1 DEF Parse, Star
    <3>2. \A f \in Field :
            /\ parsed'.sets[f] \subseteq FIELD_BOUNDS[f].min..FIELD_BOUNDS[f].max
            /\ parsed'.sets[f] # {}
      BY <2>1, <3>1, FieldsAllowSome DEF Parse
    <3>3. parsed'.domStar \in BOOLEAN /\ parsed'.dowStar \in BOOLEAN
      BY <3>1 DEF Field
    <3> QED
      BY <2>1, <3>2, <3>3 DEF Parse, search
  <2>2. CASE ParseFails
    BY <2>2 DEF ParseFails, search
  <2>3. CASE Found
    BY <2>3 DEF Found, Searching, search
  <2>4. CASE Crawl
    BY <2>4 DEF Crawl, Searching
  <2>5. CASE SkipDay
    <3>1. cursor \in Instant
      BY <2>5 DEF SkipDay, Searching
    <3>2. UntilMidnight \in Nat
      <4>1. (LastHour - WallClock[cursor].hour) \in Nat
        BY <3>1, ClockFacts
      <4>2. (LastHour - WallClock[cursor].hour) * HourLength \in Nat
        BY <4>1, ClockFacts
      <4>3. HourLength - WallClock[cursor].minute \in Nat
        BY <3>1, ClockFacts
      <4> QED
        BY <4>2, <4>3 DEF UntilMidnight
    <3>3. cursor' \in Nat
      BY <2>5, <3>2 DEF SkipDay
    <3>4. SkipKey \in Nat \X Nat
      BY <3>1, ClockFacts, CalendarAssumption DEF SkipKey, Date
    <3>5. Touched \in 0..MAX_LOOKAHEAD_DAYS
      BY <2>5, CronBoundAssumption DEF SkipDay, Touched
    <3> QED
      BY <2>5, <3>3, <3>4, <3>5 DEF SkipDay
  <2>6. CASE GiveUp
    BY <2>6 DEF GiveUp, Searching, search
  <2>7. CASE UNCHANGED cronVars
    BY <2>7 DEF cronVars, search
  <2> QED
    BY <2>1, <2>2, <2>3, <2>4, <2>5, <2>6, <2>7 DEF CronNext
<1> QED
  BY <1>1, <1>2, PTL DEF CronSpec

(***************************************************************************)
(* Correctness of the search.                                              *)
(***************************************************************************)

\* Until the clock shows midnight it shows the same day.
LEMMA DayStays ==
  ASSUME NeverSetForward, NEW c \in Instant, NEW i \in Instant, c <= i,
         i - c < (LastHour - WallClock[c].hour) * HourLength
                   + (HourLength - WallClock[c].minute)
  PROVE  WallClock[i].day = WallClock[c].day
<1> DEFINE d == WallClock[c].day
           e == WallClock[i].day
<1>1. d \in Nat /\ e \in Nat
  BY ClockFacts
<1>2. d <= e /\ Shown(i) - Shown(c) <= i - c
  BY DEF NeverSetForward
<1>3. SUFFICES ASSUME d + 1 <= e PROVE FALSE
  BY <1>1, <1>2
<1> DEFINE start == d * DayLength
           h == WallClock[c].hour * HourLength
           rest == (LastHour - WallClock[c].hour) * HourLength
<1>4. h + rest = LastHour * HourLength
  BY ClockFacts
<1>5. DayLength = LastHour * HourLength + HourLength
  BY ClockFacts DEF DayLength
<1>6. (d + 1) * DayLength = start + DayLength
  BY <1>1, ClockFacts
<1>7. (d + 1) * DayLength <= e * DayLength
  BY <1>1, <1>3, ClockFacts, TimesMonotone
<1>8. Shown(c) = start + h + WallClock[c].minute
  BY DEF Shown
<1>9. e * DayLength <= Shown(i)
  <2>1. WallClock[i].hour * HourLength \in Nat /\ e * DayLength \in Nat
    BY ClockFacts, <1>1
  <2> QED
    BY <2>1, ClockFacts DEF Shown
<1>10. /\ start \in Nat /\ h \in Nat /\ rest \in Int /\ e * DayLength \in Nat
       /\ LastHour * HourLength \in Nat /\ Shown(i) \in Int
  <2>1. Shown(i) \in Int
    BY ClockFacts DEF Shown
  <2> QED
    BY <2>1, <1>1, ClockFacts
<1>11. i - c < rest + HourLength - WallClock[c].minute
  BY ClockFacts, <1>10
<1> HIDE DEF start, h, rest, d, e
<1> QED
  BY <1>2, <1>4, <1>5, <1>6, <1>7, <1>8, <1>9, <1>10, <1>11, ClockFacts DEF Instant

\* The last dead day that was counted, and how far the count has come.
Counted ==
  \/ touched = 0 /\ lastSkip = NoResult
  \/ \E d \in Instant :
       /\ from < d /\ d < cursor
       /\ lastSkip = <<Date(d).month, Date(d).dom>>
       /\ touched <= WallClock[d].day - WallClock[from].day + 1

\* No match before the cursor; the result is the cursor; and where the search
\* has given up, it was at a dead day that is late enough.
Progress ==
  /\ from < cursor
  /\ pc = "parse" => cursor = from + 1 /\ touched = 0 /\ lastSkip = NoResult
  /\ pc \in {"search", "done"} =>
       \A i \in Instant : from < i /\ i < cursor => ~Matches(i)
  /\ Counted
  /\ next # NoResult => next = cursor /\ next \in Instant /\ Matches(next) /\ pc = "done"
  /\ pc = "done" /\ next = NoResult =>
       /\ cursor \in Instant
       /\ ~DateMatches(cursor)
       /\ WallClock[cursor].day >= WallClock[from].day + MAX_LOOKAHEAD_DAYS

\* Of Matches, only the date depends on the day.
LEMMA DeadDay ==
  ASSUME NEW i \in Instant, NEW j \in Instant,
         WallClock[i].day = WallClock[j].day, ~DateMatches(i)
  PROVE  ~Matches(j)
BY DEF Matches, DateMatches, Date

\* Every step keeps Progress.
LEMMA ProgressStep ==
  ASSUME NeverSetForward, CronTypeOK, CronTypeOK', Progress, CronNext
  PROVE  Progress'
<1>1. from \in Instant /\ from \in Nat /\ cursor \in Nat
  BY CronBoundAssumption DEF CronTypeOK, Instant
<1>2. CASE Parse
  <2>1. /\ cursor' = cursor /\ from' = from /\ touched' = touched
        /\ lastSkip' = lastSkip /\ next' = next /\ pc' = "search" /\ pc = "parse"
    BY <1>2 DEF Parse, search
  <2>2. cursor = from + 1 /\ touched = 0 /\ lastSkip = NoResult /\ next = NoResult
    BY <2>1 DEF Progress
  <2>3. \A i \in Instant : ~(from < i /\ i < cursor)
    BY <2>2, <1>1 DEF Instant
  <2> QED
    BY <2>1, <2>2, <2>3, <1>1 DEF Progress, Counted
<1>3. CASE ParseFails
  <2>1. /\ cursor' = cursor /\ from' = from /\ touched' = touched
        /\ lastSkip' = lastSkip /\ next' = next /\ pc' = "error" /\ pc = "parse"
    BY <1>3 DEF ParseFails, search
  <2>2. cursor = from + 1 /\ touched = 0 /\ lastSkip = NoResult /\ next = NoResult
    BY <2>1 DEF Progress
  <2> QED
    BY <2>1, <2>2, <1>1 DEF Progress, Counted
<1>4. CASE Found
  <2>1. /\ cursor' = cursor /\ from' = from /\ touched' = touched /\ pc = "search"
        /\ lastSkip' = lastSkip /\ next' = cursor /\ pc' = "done" /\ parsed' = parsed
        /\ cursor \in Instant /\ Matches(cursor)
    BY <1>4 DEF Found, Searching, search
  <2>2. \A i : Matches(i)' <=> Matches(i)
    BY <2>1 DEF Matches, DateMatches, Date
  <2>3. Counted'
    BY <2>1 DEF Progress, Counted, Date
  <2>4. next' # NoResult
    BY <2>1, NoResultAssumption DEF Instant
  <2> QED
    BY <2>1, <2>2, <2>3, <2>4 DEF Progress
<1>5. CASE Crawl
  <2>1. /\ cursor' = cursor + 1 /\ from' = from /\ touched' = touched /\ pc = "search"
        /\ lastSkip' = lastSkip /\ next' = next /\ pc' = pc /\ parsed' = parsed
        /\ cursor \in Instant /\ ~Matches(cursor)
    BY <1>5 DEF Crawl, Searching
  <2>2. \A i : Matches(i)' <=> Matches(i)
    BY <2>1 DEF Matches, DateMatches, Date
  <2>3. \A i \in Instant : i < cursor + 1 => i < cursor \/ i = cursor
    BY <1>1 DEF Instant
  <2>4. Counted'
    BY <2>1, <1>1 DEF Progress, Counted, Date, Instant
  <2>5. next = NoResult
    BY <2>1 DEF Progress
  <2> QED
    BY <2>1, <2>2, <2>3, <2>4, <2>5, <1>1 DEF Progress
<1>6. CASE SkipDay
  <2>1. /\ cursor' = cursor + UntilMidnight /\ from' = from /\ touched' = Touched
        /\ pc = "search" /\ lastSkip' = SkipKey /\ next' = next /\ pc' = pc
        /\ parsed' = parsed /\ cursor \in Instant /\ ~DateMatches(cursor)
    BY <1>6 DEF SkipDay, Searching
  <2>2. \A i : Matches(i)' <=> Matches(i)
    BY <2>1 DEF Matches, DateMatches, Date
  <2>3. next = NoResult
    BY <2>1 DEF Progress
  <2>4. UntilMidnight \in Nat \ {0}
    <3>1. (LastHour - WallClock[cursor].hour) \in Nat
      BY <2>1, ClockFacts
    <3>2. (LastHour - WallClock[cursor].hour) * HourLength \in Nat
      BY <3>1, ClockFacts
    <3>3. HourLength - WallClock[cursor].minute \in Nat \ {0}
      BY <2>1, ClockFacts
    <3> QED
      BY <3>2, <3>3 DEF UntilMidnight
  <2>5. ASSUME NEW i \in Instant, from < i, i < cursor + UntilMidnight
        PROVE  ~Matches(i)
    <3>1. CASE i < cursor
      BY <2>1, <2>5, <3>1 DEF Progress
    <3>2. CASE cursor <= i
      <4>1. i - cursor < UntilMidnight
        BY <2>5, <2>4, <1>1 DEF Instant
      <4>2. WallClock[i].day = WallClock[cursor].day
        BY <4>1, <3>2, <2>1, DayStays DEF UntilMidnight
      <4> QED
        BY <4>2, <2>1, DeadDay
    <3> QED
      BY <3>1, <3>2, <1>1 DEF Instant
  <2>6. Counted'
    <3>1. from < cursor /\ cursor < cursor'
      BY <2>1, <2>4, <1>1 DEF Progress
    <3>2. Touched <= WallClock[cursor].day - WallClock[from].day + 1
      <4>1. /\ WallClock[cursor].day \in Nat /\ WallClock[from].day \in Nat
            /\ WallClock[from].day <= WallClock[cursor].day
        BY <2>1, <1>1, <3>1, ClockFacts DEF NeverSetForward
      <4>2. CASE touched = 0 /\ lastSkip = NoResult
        BY <4>1, <4>2 DEF Touched
      <4>3. CASE \E d \in Instant :
                   /\ from < d /\ d < cursor
                   /\ lastSkip = <<Date(d).month, Date(d).dom>>
                   /\ touched <= WallClock[d].day - WallClock[from].day + 1
        <5>1. PICK d \in Instant :
                     /\ from < d /\ d < cursor
                     /\ lastSkip = <<Date(d).month, Date(d).dom>>
                     /\ touched <= WallClock[d].day - WallClock[from].day + 1
          BY <4>3
        <5>2. WallClock[d].day \in Nat /\ WallClock[d].day <= WallClock[cursor].day
          BY <5>1, <2>1, <1>1, ClockFacts DEF NeverSetForward, Instant
        <5>3. touched \in Nat
          BY DEF CronTypeOK
        <5>4. CASE SkipKey = lastSkip
          BY <5>1, <5>2, <5>3, <5>4, <4>1 DEF Touched
        <5>5. CASE SkipKey # lastSkip
          <6>1. WallClock[d].day # WallClock[cursor].day
            BY <5>1, <5>5 DEF SkipKey, Date
          <6> QED
            BY <6>1, <5>1, <5>2, <5>3, <5>5, <4>1 DEF Touched
        <5> QED
          BY <5>4, <5>5
      <4> QED
        BY <4>2, <4>3 DEF Progress, Counted
    <3> QED
      BY <2>1, <3>1, <3>2 DEF Counted, SkipKey, Date
  <2> QED
    BY <2>1, <2>2, <2>3, <2>4, <2>5, <2>6, <1>1 DEF Progress
<1>7. CASE GiveUp
  <2>1. /\ cursor' = cursor /\ from' = from /\ touched' = touched /\ pc = "search"
        /\ lastSkip' = lastSkip /\ next' = next /\ pc' = "done" /\ parsed' = parsed
        /\ cursor \in Instant /\ ~DateMatches(cursor) /\ Touched > MAX_LOOKAHEAD_DAYS
    BY <1>7 DEF GiveUp, Searching, search
  <2>2. \A i : (Matches(i)' <=> Matches(i)) /\ (DateMatches(i)' <=> DateMatches(i))
    BY <2>1 DEF Matches, DateMatches, Date
  <2>3. Counted'
    BY <2>1 DEF Progress, Counted, Date
  <2>4. next = NoResult /\ from < cursor
    BY <2>1 DEF Progress
  <2>5. /\ WallClock[cursor].day \in Nat /\ WallClock[from].day \in Nat
        /\ WallClock[from].day <= WallClock[cursor].day
    BY <2>1, <1>1, <2>4, ClockFacts DEF NeverSetForward
  <2>6. WallClock[cursor].day >= WallClock[from].day + MAX_LOOKAHEAD_DAYS
    <3>1. touched \in 0..MAX_LOOKAHEAD_DAYS /\ MAX_LOOKAHEAD_DAYS \in Nat
      BY CronBoundAssumption DEF CronTypeOK
    <3>2. touched = MAX_LOOKAHEAD_DAYS /\ SkipKey # lastSkip
      BY <2>1, <3>1 DEF Touched
    <3>3. CASE touched = 0 /\ lastSkip = NoResult
      BY <3>2, <3>3, <2>5
    <3>4. CASE \E d \in Instant :
                 /\ from < d /\ d < cursor
                 /\ lastSkip = <<Date(d).month, Date(d).dom>>
                 /\ touched <= WallClock[d].day - WallClock[from].day + 1
      <4>1. PICK d \in Instant :
                   /\ from < d /\ d < cursor
                   /\ lastSkip = <<Date(d).month, Date(d).dom>>
                   /\ touched <= WallClock[d].day - WallClock[from].day + 1
        BY <3>4
      <4>2. WallClock[d].day \in Nat /\ WallClock[d].day <= WallClock[cursor].day
        BY <4>1, <2>1, <1>1, ClockFacts DEF NeverSetForward, Instant
      <4>3. WallClock[d].day # WallClock[cursor].day
        BY <4>1, <3>2 DEF SkipKey, Date
      <4> QED
        BY <4>1, <4>2, <4>3, <3>1, <3>2, <2>5
    <3> QED
      BY <3>3, <3>4 DEF Progress, Counted
  <2> QED
    BY <2>1, <2>2, <2>3, <2>4, <2>6 DEF Progress
<1> QED
  BY <1>2, <1>3, <1>4, <1>5, <1>6, <1>7 DEF CronNext

\* In a zone whose clock is never set forward, the search finds the earliest
\* instant that matches, and gives up only after as many days as it promises.
THEOREM Earliest ==
  ASSUME NeverSetForward
  PROVE  CronSpec => []SearchIsExact
<1>1. CronInit => Progress
  BY NoResultAssumption DEF CronInit, Progress, Counted
<1>2. CronTypeOK /\ CronTypeOK' /\ Progress /\ [CronNext]_cronVars => Progress'
  <2> SUFFICES ASSUME CronTypeOK, CronTypeOK', Progress, [CronNext]_cronVars PROVE Progress'
    OBVIOUS
  <2>1. CASE CronNext
    BY <2>1, ProgressStep
  <2>2. CASE UNCHANGED cronVars
    BY <2>2 DEF cronVars, search, Progress, Counted, Matches, DateMatches, Date
  <2> QED
    BY <2>1, <2>2
<1>3. CronTypeOK /\ Progress => SearchIsExact
  <2> SUFFICES ASSUME CronTypeOK, Progress PROVE NextIsEarliest /\ GivesUpLate
    BY DEF SearchIsExact
  <2>1. NextIsEarliest
    BY DEF Progress, NextIsEarliest
  <2>2. ASSUME pc = "done", next = NoResult, NEW i \in Instant, from < i,
               WallClock[i].day <= WallClock[from].day + MAX_LOOKAHEAD_DAYS
        PROVE  ~Matches(i)
    <3>1. /\ cursor \in Instant /\ ~DateMatches(cursor) /\ from \in Instant
          /\ WallClock[cursor].day >= WallClock[from].day + MAX_LOOKAHEAD_DAYS
      BY <2>2, CronBoundAssumption DEF Progress, CronTypeOK, Instant
    <3>2. CASE i < cursor
      BY <2>2, <3>2 DEF Progress
    <3>3. CASE cursor <= i
      <4>1. WallClock[cursor].day <= WallClock[i].day
        BY <3>1, <3>3 DEF NeverSetForward
      <4>2. WallClock[cursor].day = WallClock[i].day
        BY <4>1, <3>1, <2>2, ClockFacts, CronBoundAssumption
      <4> QED
        BY <4>2, <3>1, DeadDay
    <3> QED
      BY <3>1, <3>2, <3>3 DEF Instant
  <2> QED
    BY <2>1, <2>2 DEF GivesUpLate
<1> QED
  BY <1>1, <1>2, <1>3, Typing, PTL DEF CronSpec

-----------------------------------------------------------------------------
(* Runner: no job runs beside itself, and none twice for a slot.           *)

TickState == [at : {"idle", "loading", "listed"}, time : Time,
              list : [Job -> JobNote \cup {None}]]
Manual == [job : Job, cron : Expression]

\* The types that the arguments below use: TypeOK without the breaker.
Types ==
  /\ now \in Time
  /\ note \in [Job -> {New, Gone} \cup JobNote]
  /\ horizon \in [Job -> 0..(MaxTime + 1) \cup {None}]
  /\ inFlight \subseteq Job
  /\ ticks \in [Tick -> TickState]
  /\ manual \in Manual \cup {None}
  /\ fires \subseteq Fire
  /\ last \in [Job -> Time \cup {-1}]
  /\ forgotten \subseteq Job

\* The next run is strictly later.
LEMMA NextRunIsLater ==
  ASSUME NEW c \in Expression, NEW t \in Time
  PROVE  /\ NextRun(c, t) \in 0..(MaxTime + 1) \cup {None}
         /\ NextRun(c, t) # None => t < NextRun(c, t)
<1> DEFINE later == {s \in c : t < s} \cup {MaxTime + 1}
<1>1. MaxTime \in Nat /\ c \subseteq Time
  BY BoundAssumption, ExpressionAssumption
<1>2. later \subseteq Nat /\ later \subseteq 0..(MaxTime + 1) /\ MaxTime + 1 \in later
  <2>1. \A s \in {s \in c : t < s} : s \in Nat /\ s \in 0..(MaxTime + 1)
    BY <1>1 DEF Time
  <2>2. MaxTime + 1 \in Nat /\ MaxTime + 1 \in 0..(MaxTime + 1)
    BY <1>1
  <2> QED
    BY <2>1, <2>2
<1>3. \A s \in later : t < s
  BY <1>1 DEF Time
<1> HIDE DEF later
<1>4. PICK s \in later : \A r \in later : ~(<<r, s>> \in OpToRel(<, Nat))
  BY <1>2, WFMin, NatLessThanWellFounded, Zenon
<1>5. \A r \in later : s <= r
  <2>1. \A r \in later : ~(r < s)
    BY <1>2, <1>4, Zenon DEF OpToRel
  <2> QED
    BY <1>2, <2>1
<1>6. (CHOOSE x \in later : \A r \in later : x <= r) \in later
  BY <1>5
<1>7. NextRun(c, t) = IF c = {} THEN None
                      ELSE CHOOSE x \in later : \A r \in later : x <= r
  BY DEF NextRun, later
<1> QED
  BY <1>2, <1>3, <1>6, <1>7

(***************************************************************************)
(* Types.                                                                  *)
(***************************************************************************)

\* What a tick that has its list makes of the horizons and the fires is typed.
LEMMA ConsideredTypes ==
  ASSUME Types, NEW t \in Tick, Considered(t)
  PROVE  Types'
<1> DEFINE at == ticks[t].time
           list == ticks[t].list
<1>1. at \in Time /\ list \in [Job -> JobNote \cup {None}]
  BY DEF Types, TickState
<1>2. Candidates(t) \subseteq Job /\ \A j \in Candidates(t) : list[j] \in JobNote
  BY <1>1 DEF Candidates
<1>3. \A j \in Candidates(t) : list[j].cron \in Expression
  BY <1>2 DEF JobNote
<1>4. Unseen(t) \subseteq Candidates(t) /\ Due(t) \subseteq Candidates(t)
  BY DEF Unseen, Due
<1>5. horizon' \in [Job -> 0..(MaxTime + 1) \cup {None}]
  <2>1. \A j \in Unseen(t) : NextRun(list[j].cron, at) \in 0..(MaxTime + 1) \cup {None}
    BY <1>1, <1>3, <1>4, NextRunIsLater
  <2>2. \A j \in Job : Kept(t)[j] \in 0..(MaxTime + 1) \cup {None}
    BY DEF Kept, Types
  <2> QED
    BY <2>1, <2>2 DEF Considered
<1>6. fires' \subseteq Fire
  <2>1. \A j \in Due(t) : FireOne(j, list[j].cron, at, t) \in Fire
    BY <1>1, <1>2, <1>3, <1>4 DEF FireOne, Fire
  <2> QED
    BY <2>1 DEF Considered, Types
<1>7. inFlight' \subseteq Job /\ forgotten' \subseteq Job
  BY <1>2, <1>4 DEF Considered, Types
<1>8. last' \in [Job -> Time \cup {-1}]
  BY <1>1 DEF Considered, Types
<1>9. Idle \in TickState
  BY <1>1, BoundAssumption DEF Idle, NoList, TickState, Time
<1>10. ticks' \in [Tick -> TickState]
  BY <1>9 DEF Considered, Types
<1> QED
  BY <1>5, <1>6, <1>7, <1>8, <1>10 DEF Considered, Types

\* The types are an invariant.
LEMMA TypesInvariant == Spec => []Types
<1>0. Idle \in TickState /\ NoList \in [Job -> JobNote \cup {None}] /\ 0 \in Time
  BY BoundAssumption DEF Idle, NoList, TickState, Time
<1>1. Init => Types
  BY <1>0, BoundAssumption DEF Init, Types
<1>2. Types /\ [Next]_vars => Types'
  <2> SUFFICES ASSUME Types, [Next]_vars PROVE Types'
    OBVIOUS
  <2>1. CASE Advance
    BY <2>1, BoundAssumption DEF Advance, Types, history, Time
  <2>2. CASE \E j \in Job : RunNow(j)
    <3> PICK j \in Job : RunNow(j)
      BY <2>2
    <3>1. note[j] \in JobNote
      BY DEF RunNow, There, Types
    <3>2. manual' \in Manual
      BY <3>1 DEF RunNow, Manual, JobNote
    <3> QED
      BY <3>2 DEF RunNow, Types, history
  <2>3. CASE \E j \in Job, n \in JobNote \cup {Gone} : ChangeNote(j, n)
    BY <2>3 DEF ChangeNote, Types, history
  <2>4. ASSUME NEW t \in Tick, TickBegins(t) PROVE Types'
    <3>1. [at |-> "loading", time |-> now, list |-> NoList] \in TickState
      BY <1>0 DEF Types, TickState
    <3>2. ticks' \in [Tick -> TickState]
      BY <3>1, <2>4 DEF TickBegins, Types
    <3> QED
      BY <3>2, <2>4 DEF TickBegins, Types, history
  <2>5. ASSUME NEW t \in Tick, Listed(t) PROVE Types'
    <3>1. JobList \in [Job -> JobNote \cup {None}]
      BY DEF JobList, There, Types
    <3>2. ticks' \in [Tick -> TickState]
      BY <3>1, <2>5 DEF Listed, Types, TickState
    <3> QED
      BY <3>2, <2>5 DEF Listed, Types, history
  <2>6. ASSUME NEW t \in Tick, LoadFails(t) PROVE Types'
    BY <2>6, <1>0 DEF LoadFails, Types, history
  <2>7. ASSUME NEW t \in Tick, Considered(t) PROVE Types'
    BY <2>7, ConsideredTypes
  <2>8. ASSUME NEW f \in fires, Fired(f) PROVE Types'
    <3>1. f.job \in Job /\ f.cron \in Expression /\ f.at \in Time
      BY DEF Types, Fire
    <3>2. NextRun(f.cron, f.at) \in 0..(MaxTime + 1) \cup {None}
      BY <3>1, NextRunIsLater
    <3> QED
      BY <3>1, <3>2, <2>8 DEF Fired, Types
  <2>9. CASE RunNowListed
    <3>1. manual.job \in Job /\ manual.cron \in Expression
      BY <2>9 DEF RunNowListed, Types, Manual
    <3>2. FireOne(manual.job, manual.cron, now, None) \in Fire
      BY <3>1 DEF FireOne, Fire, Types
    <3> QED
      BY <3>1, <3>2, <2>9 DEF RunNowListed, Types, history
  <2>10. CASE Restart
    BY <2>10, <1>0 DEF Restart, Types, history
  <2>11. CASE UNCHANGED vars
    BY <2>11 DEF vars, history, Types
  <2> QED
    BY <2>1, <2>2, <2>3, <2>4, <2>5, <2>6, <2>7, <2>8, <2>9, <2>10, <2>11
    DEF Next, TickStep
<1> QED
  BY <1>1, <1>2, PTL DEF Spec

(***************************************************************************)
(* No overlap: the marked jobs are those of the fires in progress.         *)
(***************************************************************************)
Marked ==
  /\ NoOverlap
  /\ inFlight = {f.job : f \in fires}

LEMMA MarkedInit == Init => Marked
BY DEF Init, Marked, NoOverlap

\* A fire of a job that is not marked keeps the marks right.
LEMMA NewFiresMarked ==
  ASSUME Marked, NEW new, \A f, g \in new : f.job = g.job => f = g,
         \A f \in new : f.job \notin inFlight,
         fires' = fires \cup new, inFlight' = inFlight \cup {f.job : f \in new}
  PROVE  Marked'
<1>1. \A f \in fires : f.job \in inFlight
  BY DEF Marked
<1>2. NoOverlap'
  BY <1>1 DEF Marked, NoOverlap
<1>3. inFlight' = {f.job : f \in fires'}
  BY DEF Marked
<1> QED
  BY <1>2, <1>3 DEF Marked

LEMMA MarkedNext == Types /\ Marked /\ [Next]_vars => Marked'
<1> SUFFICES ASSUME Types, Marked, [Next]_vars PROVE Marked'
  OBVIOUS
<1>1. ASSUME UNCHANGED <<inFlight, fires>> PROVE Marked'
  BY <1>1 DEF Marked, NoOverlap
<1>2. ASSUME NEW t \in Tick, Considered(t) PROVE Marked'
  <2> DEFINE Fires(j) == FireOne(j, ticks[t].list[j].cron, ticks[t].time, t)
             new == {Fires(j) : j \in Due(t)}
  <2>1. \A j \in Due(t) : Fires(j).job = j
    BY DEF FireOne
  <2>2. \A f \in new : f.job \in Due(t) /\ f = Fires(f.job)
    BY <2>1
  <2>3. Due(t) \cap inFlight = {}
    BY DEF Due, Candidates
  <2>4. fires' = fires \cup new /\ inFlight' = inFlight \cup Due(t)
    BY <1>2 DEF Considered
  <2>5. Due(t) = {f.job : f \in new}
    BY <2>1
  <2>6. \A f, g \in new : f.job = g.job => f = g
    BY <2>2
  <2>7. \A f \in new : f.job \notin inFlight
    BY <2>2, <2>3
  <2> HIDE DEF new, Fires
  <2> QED
    BY <2>4, <2>5, <2>6, <2>7, NewFiresMarked
<1>3. ASSUME NEW f \in fires, Fired(f) PROVE Marked'
  <2>1. fires' = fires \ {f} /\ inFlight' = inFlight \ {f.job}
    BY <1>3 DEF Fired
  <2>2. inFlight' = {g.job : g \in fires'}
    BY <2>1 DEF Marked, NoOverlap
  <2> QED
    BY <2>1, <2>2 DEF Marked, NoOverlap
<1>4. CASE RunNowListed
  <2>1. CASE manual.job \in inFlight
    BY <1>1, <1>4, <2>1 DEF RunNowListed
  <2>2. CASE manual.job \notin inFlight
    <3> DEFINE new == {FireOne(manual.job, manual.cron, now, None)}
    <3>1. \A f \in new : f.job = manual.job
      BY DEF FireOne
    <3>2. fires' = fires \cup new /\ inFlight' = inFlight \cup {manual.job}
      BY <1>4, <2>2 DEF RunNowListed
    <3>3. {manual.job} = {f.job : f \in new} /\ \A f, g \in new : f = g
      BY <3>1
    <3> HIDE DEF new
    <3> QED
      BY <2>2, <3>1, <3>2, <3>3, NewFiresMarked
  <2> QED
    BY <2>1, <2>2
<1>5. CASE Restart
  BY <1>5 DEF Restart, Marked, NoOverlap
<1>6. CASE Advance
  BY <1>1, <1>6 DEF Advance
<1>7. CASE \E j \in Job : RunNow(j) \/ \E n \in JobNote \cup {Gone} : ChangeNote(j, n)
  BY <1>1, <1>7 DEF RunNow, ChangeNote
<1>8. ASSUME NEW t \in Tick, TickBegins(t) \/ Listed(t) \/ LoadFails(t) PROVE Marked'
  BY <1>1, <1>8 DEF TickBegins, Listed, LoadFails
<1>9. CASE UNCHANGED vars
  BY <1>1, <1>9 DEF vars
<1> QED
  BY <1>2, <1>3, <1>4, <1>5, <1>6, <1>7, <1>8, <1>9 DEF Next, TickStep

\* No job is fired twice at the same time, however many ticks overlap and
\* whoever runs it by hand.
THEOREM FiredOnceAtATime == Spec => []NoOverlap
<1>1. Spec => []Marked
  BY MarkedInit, MarkedNext, TypesInvariant, PTL DEF Spec
<1>2. Marked => NoOverlap
  BY DEF Marked
<1> QED
  BY <1>1, <1>2, PTL

(***************************************************************************)
(* Once per slot.  A horizon lies after the job's last scheduled fire.  It *)
(* may be set again by a tick that began long ago only if it is missing,   *)
(* and then the job is forgotten or all ticks in progress are newer than   *)
(* its last fire.                                                          *)
(***************************************************************************)
InProgress(t) == ticks[t].at # "idle"

Past ==
  /\ \A j \in Job : last[j] <= now
  /\ \A t \in Tick : ticks[t].time <= now

\* The horizon of a job that is not being fired.
HorizonAhead(j) ==
  IF horizon[j] = None
  THEN \A t \in Tick : InProgress(t) => last[j] <= ticks[t].time
  ELSE last[j] < horizon[j]

Ahead ==
  \A j \in Job \ forgotten :
    /\ \A f \in fires : f.job = j => last[j] <= f.at
    /\ j \notin inFlight => HorizonAhead(j)

\* The inductive invariant.
Slots == Types /\ Marked /\ Past /\ Ahead

LEMMA SlotsInit == Init => Past /\ Ahead
BY BoundAssumption DEF Init, Past, Ahead, HorizonAhead, InProgress, Idle, Time

LEMMA PastNext == Types /\ Past /\ [Next]_vars => Past'
<1> SUFFICES ASSUME Types, Past, [Next]_vars PROVE Past'
  OBVIOUS
<1> USE DEF Types, Past, TickState, Time
<1>1. CASE Advance
  BY <1>1 DEF Advance, history
<1>2. CASE \E j \in Job : RunNow(j) \/ \E n \in JobNote \cup {Gone} : ChangeNote(j, n)
  BY <1>2 DEF RunNow, ChangeNote, history
<1>3. ASSUME NEW t \in Tick, TickBegins(t) \/ Listed(t) \/ LoadFails(t) \/ Considered(t)
      PROVE  Past'
  <2>1. now' = now
    BY <1>3 DEF TickBegins, Listed, LoadFails, Considered
  <2>2. \A u \in Tick : ticks'[u].time <= now
    <3>1. CASE TickBegins(t)
      BY <3>1 DEF TickBegins
    <3>2. CASE Listed(t)
      BY <3>2 DEF Listed
    <3>3. CASE LoadFails(t) \/ Considered(t)
      <4>1. ticks' = [ticks EXCEPT ![t] = Idle]
        BY <3>3 DEF LoadFails, Considered
      <4> QED
        BY <4>1 DEF Idle
    <3> QED
      BY <1>3, <3>1, <3>2, <3>3
  <2>3. \A j \in Job : last'[j] <= now
    BY <1>3 DEF TickBegins, Listed, LoadFails, Considered, history
  <2> QED
    BY <2>1, <2>2, <2>3
<1>4. CASE RunNowListed \/ \E f \in fires : Fired(f)
  BY <1>4 DEF RunNowListed, Fired, history
<1>5. CASE Restart
  BY <1>5, BoundAssumption DEF Restart, Idle, history
<1>6. CASE UNCHANGED vars
  BY <1>6 DEF vars, history
<1> QED
  BY <1>1, <1>2, <1>3, <1>4, <1>5, <1>6 DEF Next, TickStep

\* A tick moves the horizons it sets, and the fires it begins, past the last
\* fire of the job.
LEMMA ConsideredAhead ==
  ASSUME Slots, NEW t \in Tick, Considered(t)
  PROVE  /\ Ahead'
         /\ \A f \in fires' \ fires :
              f.job \notin forgotten
                => last[f.job] < horizon[f.job] /\ horizon[f.job] <= f.at
<1> DEFINE at == ticks[t].time
           list == ticks[t].list
           Fires(j) == FireOne(j, list[j].cron, at, t)
<1>1. at \in Time /\ list \in [Job -> JobNote \cup {None}] /\ InProgress(t)
  BY DEF Slots, Types, TickState, Considered, InProgress
<1>2. Candidates(t) \subseteq Job \ inFlight
  BY DEF Candidates
<1>3. \A j \in Candidates(t) : list[j].cron \in Expression
  BY <1>1 DEF Candidates, JobNote
<1>4. Unseen(t) \subseteq Candidates(t) /\ Due(t) \subseteq Candidates(t)
  BY DEF Unseen, Due
<1>5. fires' = fires \cup {Fires(j) : j \in Due(t)} /\ inFlight' = inFlight \cup Due(t)
  BY DEF Considered
<1>6. \A j \in Job \ forgotten' : j \notin forgotten /\ Kept(t)[j] = horizon[j]
  BY DEF Considered, Kept
<1>7. \A j \in Job \ Due(t) : last'[j] = last[j]
  BY DEF Considered
<1>8. \A j \in Due(t) : last'[j] = at
  BY <1>2, <1>4 DEF Considered
<1>9. \A f \in fires : f.job \in inFlight
  BY DEF Slots, Marked
<1>10. \A u \in Tick : InProgress(u)' => InProgress(u) /\ ticks'[u] = ticks[u]
  BY DEF Considered, InProgress, Idle, Slots, Types
<1>11. ASSUME NEW j \in Job \ forgotten', NEW f \in fires', f.job = j
       PROVE  last'[j] <= f.at
  <2>1. CASE f \in fires
    <3>1. j \notin Due(t)
      BY <1>2, <1>4, <1>9, <1>11, <2>1
    <3> QED
      BY <1>6, <1>7, <1>11, <2>1, <3>1 DEF Slots, Ahead
  <2>2. CASE f \notin fires
    <3>1. PICK i \in Due(t) : f = Fires(i)
      BY <1>5, <2>2
    <3>2. i = j /\ f.at = at
      BY <3>1, <1>11 DEF FireOne
    <3> QED
      BY <1>1, <1>8, <3>2 DEF Time
  <2> QED
    BY <2>1, <2>2
<1>12. ASSUME NEW j \in Job \ forgotten', j \notin inFlight'
       PROVE  HorizonAhead(j)'
  <2>1. j \notin inFlight /\ j \notin Due(t) /\ last'[j] = last[j]
    BY <1>5, <1>7, <1>12
  <2>2. HorizonAhead(j)
    BY <1>6, <2>1 DEF Slots, Ahead
  <2>3. CASE j \in Unseen(t)
    <3>1. horizon[j] = None
      BY <1>6, <2>3 DEF Unseen
    <3>2. last[j] <= at
      BY <1>1, <2>2, <3>1 DEF HorizonAhead
    <3>3. horizon'[j] = NextRun(list[j].cron, at)
      BY <2>3 DEF Considered
    <3>4. horizon'[j] # None => at < horizon'[j] /\ horizon'[j] \in 0..(MaxTime + 1)
      BY <1>1, <1>3, <1>4, <2>3, <3>3, NextRunIsLater
    <3>5. CASE horizon'[j] = None
      BY <1>10, <2>1, <2>2, <3>1, <3>5 DEF HorizonAhead
    <3>6. CASE horizon'[j] # None
      <4>1. last[j] < horizon'[j]
        BY <1>1, <3>2, <3>4, <3>6, BoundAssumption DEF Slots, Types, Time
      <4> QED
        BY <2>1, <3>6, <4>1 DEF HorizonAhead
    <3> QED
      BY <3>5, <3>6
  <2>4. CASE j \notin Unseen(t)
    <3>1. horizon'[j] = horizon[j]
      BY <1>6, <2>4 DEF Considered
    <3> QED
      BY <1>10, <2>1, <2>2, <3>1 DEF HorizonAhead
  <2> QED
    BY <2>3, <2>4
<1>13. ASSUME NEW f \in fires' \ fires, f.job \notin forgotten
       PROVE  last[f.job] < horizon[f.job] /\ horizon[f.job] <= f.at
  <2>1. PICK j \in Due(t) : f = Fires(j)
    BY <1>5, <1>13
  <2>2. f.job = j /\ f.at = at /\ j \in Job \ inFlight
    BY <1>2, <1>4, <2>1 DEF FireOne
  <2>3. horizon[j] # None /\ horizon[j] <= at
    BY <2>2 DEF Due, Kept
  <2>4. HorizonAhead(j)
    BY <1>13, <2>2 DEF Slots, Ahead
  <2> QED
    BY <2>2, <2>3, <2>4 DEF HorizonAhead
<1> QED
  BY <1>11, <1>12, <1>13 DEF Ahead

LEMMA AheadNext == Slots /\ [Next]_vars => Ahead'
<1> SUFFICES ASSUME Slots, [Next]_vars PROVE Ahead'
  OBVIOUS
<1>1. ASSUME UNCHANGED <<fires, inFlight, horizon, ticks, last, forgotten>> PROVE Ahead'
  BY <1>1 DEF Slots, Ahead, HorizonAhead, InProgress
<1>2. CASE Advance
  BY <1>1, <1>2 DEF Advance, history
<1>3. CASE \E j \in Job : RunNow(j) \/ \E n \in JobNote \cup {Gone} : ChangeNote(j, n)
  BY <1>1, <1>3 DEF RunNow, ChangeNote, history
<1>4. ASSUME NEW t \in Tick, TickBegins(t) PROVE Ahead'
  <2>1. ticks'[t].time = now /\ \A u \in Tick \ {t} : ticks'[u] = ticks[u]
    BY <1>4 DEF TickBegins, Slots, Types
  <2>2. UNCHANGED <<fires, inFlight, horizon, last, forgotten>>
    BY <1>4 DEF TickBegins, history
  <2>3. \A j \in Job : last[j] <= now
    BY DEF Slots, Past
  <2> QED
    BY <2>1, <2>2, <2>3 DEF Slots, Ahead, HorizonAhead, InProgress
<1>5. ASSUME NEW t \in Tick, Listed(t) \/ LoadFails(t) PROVE Ahead'
  <2>1. \A u \in Tick : InProgress(u)' => InProgress(u) /\ ticks'[u].time = ticks[u].time
    BY <1>5 DEF Listed, LoadFails, InProgress, Idle, Slots, Types, TickState
  <2>2. UNCHANGED <<fires, inFlight, horizon, last, forgotten>>
    BY <1>5 DEF Listed, LoadFails, history
  <2> QED
    BY <2>1, <2>2 DEF Slots, Ahead, HorizonAhead
<1>6. ASSUME NEW t \in Tick, Considered(t) PROVE Ahead'
  BY <1>6, ConsideredAhead
<1>7. ASSUME NEW f \in fires, Fired(f) PROVE Ahead'
  <2> DEFINE coming == NextRun(f.cron, f.at)
  <2>1. f.job \in Job /\ f.cron \in Expression /\ f.at \in Time
    BY DEF Slots, Types, Fire
  <2>2. coming # None => f.at < coming /\ coming \in 0..(MaxTime + 1)
    BY <2>1, NextRunIsLater
  <2>3. fires' \subseteq fires /\ last' = last /\ ticks' = ticks
    BY <1>7 DEF Fired
  <2>4. horizon' = [horizon EXCEPT ![f.job] = coming] /\ inFlight' = inFlight \ {f.job}
    BY <1>7 DEF Fired
  <2>5. forgotten \subseteq forgotten' /\ (coming = None => f.job \in forgotten')
    BY <1>7 DEF Fired
  <2> HIDE DEF coming
  <2>6. ASSUME NEW j \in Job \ forgotten', j \notin inFlight' PROVE HorizonAhead(j)'
    <3>1. CASE j = f.job
      <4>1. horizon'[j] = coming /\ coming # None
        BY <2>4, <2>5, <2>6, <3>1 DEF Slots, Types
      <4>2. last[j] <= f.at
        BY <2>5, <2>6, <3>1 DEF Slots, Ahead
      <4>3. last[j] < coming
        BY <2>1, <2>2, <4>1, <4>2, BoundAssumption DEF Slots, Types, Time
      <4> QED
        BY <2>3, <4>1, <4>3 DEF HorizonAhead
    <3>2. CASE j # f.job
      BY <2>3, <2>4, <2>5, <2>6, <3>2 DEF Slots, Ahead, Types, HorizonAhead, InProgress
    <3> QED
      BY <3>1, <3>2
  <2> QED
    BY <2>3, <2>5, <2>6 DEF Slots, Ahead
<1>8. CASE RunNowListed
  <2>1. \A f \in fires' \ fires : f.at = now
    BY <1>8 DEF RunNowListed, FireOne
  <2>2. inFlight \subseteq inFlight' /\ UNCHANGED <<horizon, ticks, last, forgotten>>
    BY <1>8 DEF RunNowListed, history
  <2>3. \A j \in Job : last[j] <= now
    BY DEF Slots, Past
  <2> QED
    BY <2>1, <2>2, <2>3 DEF Slots, Ahead, HorizonAhead, InProgress
<1>9. CASE Restart
  <2>1. fires' = {} /\ \A t \in Tick : ~ InProgress(t)'
    BY <1>9 DEF Restart, InProgress, Idle
  <2>2. \A j \in Job : horizon'[j] = None
    BY <1>9 DEF Restart
  <2> QED
    BY <2>1, <2>2 DEF Ahead, HorizonAhead
<1>10. CASE UNCHANGED vars
  BY <1>1, <1>10 DEF vars, history
<1> QED
  BY <1>2, <1>3, <1>4, <1>5, <1>6, <1>7, <1>8, <1>9, <1>10 DEF Next, TickStep

\* A run that was due fires once, however many ticks overlap, as long as the
\* runner has not dropped the horizon of its job.
THEOREM FiredOncePerSlot == Spec => OncePerSlot
<1> DEFINE Once == \A f \in fires' \ fires :
                     f.by # None /\ f.job \notin forgotten
                       => last[f.job] < horizon[f.job] /\ horizon[f.job] <= f.at
<1>1. Spec => []Slots
  BY TypesInvariant, MarkedInit, MarkedNext, SlotsInit, PastNext, AheadNext,
     PTL DEF Spec, Slots
<1>2. Slots /\ [Next]_vars => [Once]_vars
  <2> SUFFICES ASSUME Slots, Next PROVE Once
    OBVIOUS
  <2>1. ASSUME NEW t \in Tick, Considered(t) PROVE Once
    BY <2>1, ConsideredAhead
  <2>2. CASE RunNowListed
    BY <2>2 DEF RunNowListed, FireOne
  <2>3. ASSUME fires' \subseteq fires PROVE Once
    BY <2>3
  <2> HIDE DEF Once
  <2>4. CASE Advance \/ Restart
    BY <2>3, <2>4 DEF Advance, Restart
  <2>5. CASE \E j \in Job : RunNow(j) \/ \E n \in JobNote \cup {Gone} : ChangeNote(j, n)
    BY <2>3, <2>5 DEF RunNow, ChangeNote
  <2>6. ASSUME NEW t \in Tick, TickBegins(t) \/ Listed(t) \/ LoadFails(t) PROVE Once
    BY <2>3, <2>6 DEF TickBegins, Listed, LoadFails
  <2>7. ASSUME NEW f \in fires, Fired(f) PROVE Once
    BY <2>3, <2>7 DEF Fired
  <2> QED
    BY <2>1, <2>2, <2>4, <2>5, <2>6, <2>7 DEF Next, TickStep
<1> QED
  BY <1>1, <1>2, PTL DEF Spec, OncePerSlot

=============================================================================
