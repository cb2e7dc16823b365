-------------------------------- MODULE Cron --------------------------------
(***************************************************************************)
(* The next run of a cron expression (src/cron.ts): parseCron turns each   *)
(* field into a set, and nextRunAfter moves a cursor forward from a given  *)
(* instant until the wall clock of the time zone matches.  The cursor goes *)
(* minute by minute through days whose date matches and jumps over other   *)
(* days, to what it takes for the next midnight of the wall clock.         *)
(*                                                                         *)
(* Instants are minutes.  What the wall clock shows at each of them is a   *)
(* constant, so that a zone's offset and its changes are part of the       *)
(* instance.  An action is one iteration of the search.                    *)
(*                                                                         *)
(* Definitions that no other one uses stand before the definition that they*)
(* are a faulty variant of; the properties below tell the two apart.       *)
(***************************************************************************)
EXTENDS Integers, Sequences, FiniteSets

CONSTANTS
  Last,                \* bound on the instants
  LastFrom,            \* bound on the instants a search starts from
  WallClock,           \* instant -> [day, hour, minute]
  Calendar,            \* day -> [month, dom, dow]
  FIELD_BOUNDS,        \* field -> [min, max]
  Tokens,          \* the expressions: field -> token
  MAX_LOOKAHEAD_DAYS,
  NoResult

Instant == 0..Last
Field == {"minute", "hour", "dom", "month", "dow"}

ASSUME CronBoundAssumption ==
  /\ {Last, LastFrom, MAX_LOOKAHEAD_DAYS} \subseteq Nat
  /\ LastFrom < Last
ASSUME NoResultAssumption == NoResult \notin Int
ASSUME FieldAssumption ==
  /\ FIELD_BOUNDS \in [Field -> [min : Nat, max : Nat]]
  /\ FIELD_BOUNDS["minute"].min = 0 /\ FIELD_BOUNDS["hour"].min = 0
ASSUME CalendarAssumption ==
  \A d \in DOMAIN Calendar : Calendar[d] \in [month : Nat, dom : Nat, dow : Nat]

\* A token of an expression is a list of elements: * (kind "star"), a-b
\* ("range") or a ("number"), each with an optional step; step 0 is none.
Element ==
  [kind : {"star", "range", "number"}, lo : Nat, hi : Nat, step : Nat]

\* Hours of a day and minutes of an hour are counted from 0.
LastHour == FIELD_BOUNDS["hour"].max
HourLength == FIELD_BOUNDS["minute"].max + 1
ASSUME WallClockAssumption ==
  WallClock \in [Instant -> [day : DOMAIN Calendar, hour : 0..LastHour,
                             minute : 0..(HourLength - 1)]]
ASSUME TokensAssumption ==
  \A x \in Tokens : x \in [Field -> Seq(Element)] /\ \A f \in Field : x[f] # <<>>
ASSUME DayAssumption == DOMAIN Calendar \subseteq Nat

VARIABLES
  expr,     \* the expression
  from,     \* the instant to search from
  pc,       \* "parse", "search", "done", or "error"
  parsed,   \* field -> allowed values, and the two restriction flags
  cursor,   \* the instant to be tried next
  touched,  \* dead days seen: daysTouched
  lastSkip, \* the month and day of the last one: lastSkipKey
  next      \* the result

search == <<cursor, touched, lastSkip>>
cronVars == <<expr, from, pc, parsed, search, next>>

(***************************************************************************)
(* parseCron                                                               *)
(***************************************************************************)
Low(e, b) == IF e.kind = "star" THEN b.min ELSE e.lo

High(e, b) ==
  CASE e.kind = "star" -> b.max
    [] e.kind = "range" -> e.hi
    [] e.kind = "number" -> IF e.step # 0 THEN b.max ELSE e.lo

InBoundsInAnyOrder(e, b) == b.min <= Low(e, b) /\ High(e, b) <= b.max

InBounds(e, b) ==
  /\ b.min <= Low(e, b)
  /\ Low(e, b) <= High(e, b)
  /\ High(e, b) <= b.max

Values(e, b) ==
  LET step == IF e.step = 0 THEN 1 ELSE e.step
  IN  {v \in Low(e, b)..High(e, b) : (v - Low(e, b)) % step = 0}

ParseField(token, b) == UNION {Values(token[i], b) : i \in DOMAIN token}

\* Only a bare * leaves a field unrestricted.
Star(token) == Len(token) = 1 /\ token[1].kind = "star" /\ token[1].step = 0

WellFormed(x) ==
  \A f \in Field : \A i \in DOMAIN x[f] : InBounds(x[f][i], FIELD_BOUNDS[f])

Nothing ==
  [sets |-> [f \in Field |-> {}], domStar |-> FALSE, dowStar |-> FALSE]

CronInit ==
  /\ expr \in Tokens
  /\ from \in 0..LastFrom
  /\ pc = "parse"
  /\ parsed = Nothing
  /\ cursor = from + 1
  /\ touched = 0
  /\ lastSkip = NoResult
  /\ next = NoResult

Parse ==
  /\ pc = "parse"
  /\ WellFormed(expr)
  /\ parsed' = [sets |-> [f \in Field |-> ParseField(expr[f], FIELD_BOUNDS[f])],
                domStar |-> Star(expr["dom"]), dowStar |-> Star(expr["dow"])]
  /\ pc' = "search"
  /\ UNCHANGED <<expr, from, search, next>>

\* CronParseError
ParseFails ==
  /\ pc = "parse"
  /\ ~WellFormed(expr)
  /\ pc' = "error"
  /\ UNCHANGED <<expr, from, parsed, search, next>>

(***************************************************************************)
(* nextRunAfter                                                            *)
(***************************************************************************)
Date(i) == Calendar[WallClock[i].day]

\* If both days are restricted, one of them suffices.
DateMatches(i) ==
  LET domOk == Date(i).dom \in parsed.sets["dom"]
      dowOk == Date(i).dow \in parsed.sets["dow"]
  IN  /\ Date(i).month \in parsed.sets["month"]
      /\ \/ ~parsed.domStar /\ ~parsed.dowStar /\ (domOk \/ dowOk)
         \/ ~parsed.domStar /\ parsed.dowStar /\ domOk
         \/ parsed.domStar /\ ~parsed.dowStar /\ dowOk
         \/ parsed.domStar /\ parsed.dowStar

Matches(i) ==
  /\ WallClock[i].minute \in parsed.sets["minute"]
  /\ WallClock[i].hour \in parsed.sets["hour"]
  /\ DateMatches(i)

\* The search is at an instant of the calendar.
Searching == pc = "search" /\ cursor \in Instant

Found ==
  /\ Searching
  /\ Matches(cursor)
  /\ next' = cursor
  /\ pc' = "done"
  /\ UNCHANGED <<expr, from, parsed, search>>

Crawl ==
  /\ Searching
  /\ DateMatches(cursor)
  /\ ~Matches(cursor)
  /\ cursor' = cursor + 1
  /\ UNCHANGED <<expr, from, pc, parsed, touched, lastSkip, next>>

SkipKey == <<Date(cursor).month, Date(cursor).dom>>

Touched == IF SkipKey # lastSkip THEN touched + 1 ELSE touched

UntilLastMinute ==
  (LastHour - WallClock[cursor].hour) * HourLength
    + (HourLength - 1 - WallClock[cursor].minute)

UntilFirstMinute ==
  (LastHour - WallClock[cursor].hour) * HourLength
    + (HourLength + 1 - WallClock[cursor].minute)

\* What is left of the day if its clock is not changed.
UntilMidnight ==
  (LastHour - WallClock[cursor].hour) * HourLength
    + (HourLength - WallClock[cursor].minute)

SkipDay ==
  /\ Searching
  /\ ~DateMatches(cursor)
  /\ Touched <= MAX_LOOKAHEAD_DAYS
  /\ touched' = Touched
  /\ lastSkip' = SkipKey
  /\ cursor' = cursor + UntilMidnight
  /\ UNCHANGED <<expr, from, pc, parsed, next>>

GiveUp ==
  /\ Searching
  /\ ~DateMatches(cursor)
  /\ Touched > MAX_LOOKAHEAD_DAYS
  /\ pc' = "done"
  /\ UNCHANGED <<expr, from, parsed, search, next>>

CronNext == Parse \/ ParseFails \/ Found \/ Crawl \/ SkipDay \/ GiveUp

CronSpec == CronInit /\ [][CronNext]_cronVars

\* The search is a loop: it goes on until it returns.
FairCronSpec == CronSpec /\ WF_cronVars(CronNext)

(***************************************************************************)
(* Properties.                                                             *)
(***************************************************************************)

\* Every variable keeps its type; each field of a parsed expression allows
\* some value, and only values in its bounds.
CronTypeOK ==
  /\ expr \in Tokens
  /\ from \in 0..LastFrom
  /\ pc \in {"parse", "search", "done", "error"}
  /\ parsed.domStar \in BOOLEAN /\ parsed.dowStar \in BOOLEAN
  /\ \A f \in Field :
       /\ parsed.sets[f] \subseteq FIELD_BOUNDS[f].min..FIELD_BOUNDS[f].max
       /\ pc \in {"search", "done"} => parsed.sets[f] # {}
  /\ cursor \in Nat
  /\ touched \in 0..MAX_LOOKAHEAD_DAYS
  /\ lastSkip \in (Nat \X Nat) \cup {NoResult}
  /\ next \in Instant \cup {NoResult}

\* Strictly after, and the earliest: the result is an instant later than the
\* one given at which the expression matches, and it matches at none between.
NextIsEarliest ==
  next # NoResult =>
    /\ from < next /\ Matches(next)
    /\ \A i \in Instant : from < i /\ i < next => ~Matches(i)

\* The search gives up only on an expression that does not match for as many
\* days as it promises to look ahead.
GivesUpLate ==
  pc = "done" /\ next = NoResult =>
    \A i \in Instant :
      from < i /\ WallClock[i].day <= WallClock[from].day + MAX_LOOKAHEAD_DAYS
        => ~Matches(i)

\* What a search answers is right.
SearchIsExact == NextIsEarliest /\ GivesUpLate

(***************************************************************************)
(* When it is right: the wall clock is never set forward, and never set    *)
(* back across midnight.                                                   *)
(***************************************************************************)
DayLength == (LastHour + 1) * HourLength
Shown(i) ==
  WallClock[i].day * DayLength + WallClock[i].hour * HourLength + WallClock[i].minute

NeverSetForward ==
  \A i, j \in Instant : i <= j =>
    /\ Shown(j) - Shown(i) <= j - i
    /\ WallClock[i].day <= WallClock[j].day
=============================================================================
