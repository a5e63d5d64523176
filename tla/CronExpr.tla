--------------------------------- MODULE CronExpr ---------------------------------
(***************************************************************************)
(* ParseCron, Matches and Next of pkg/backup/scheduler.go, over a calendar *)
(* whose hours, days, months, weeks and years are short: what the search   *)
(* skips at each level, and how the two day fields combine, does not       *)
(* depend on the lengths.  A time is a number of minutes.  A field is a    *)
(* set of items [from, to, step], or the bare "*"; splitting the text is   *)
(* left out.                                                               *)
(***************************************************************************)
EXTENDS Integers, FiniteSets, Sequences

CONSTANTS MinutesPerHour, HoursPerDay, DaysPerWeek,
          MonthLengths,   \* <<days of the first month, ...>>
          YearsAhead,     \* how far Next searches (5 years in the code)
          CronUntil,      \* bound: the times at which Next is asked for are below
          DayFields, WeekdayFields  \* the fields that are tried

ASSUME CronExprAssumption ==
    /\ {MinutesPerHour, HoursPerDay, DaysPerWeek} \subseteq Nat \ {0}
    /\ MonthLengths \in Seq(Nat \ {0}) /\ MonthLengths # <<>>
    /\ YearsAhead \in Nat /\ CronUntil \in Nat

VARIABLES cron,     \* a parsed expression
          cronTime  \* the last due time

cronVars == <<cron, cronTime>>
--------------------------------------------------------------------------------
(* parseCronField. *)
Star == {}   \* the bare "*"; a field without items does not parse

\* The values of one item; in the weekday field maxVal (7) is another name of 0.
ItemValues(item, min, max, alias) ==
    {IF alias /\ v = max THEN 0 ELSE v :
        v \in {w \in item.from..item.to : (w - item.from) % item.step = 0}}

ItemOK(item, min, max) ==
    item.from <= item.to /\ item.step > 0 /\ item.from >= min /\ item.to <= max

FieldOK(field, min, max) == field = Star \/ \A item \in field : ItemOK(item, min, max)

FieldValues(field, min, max, alias) ==
    IF field = Star THEN (min..max) \ (IF alias THEN {max} ELSE {})
    ELSE UNION {ItemValues(item, min, max, alias) : item \in field}

Months == Len(MonthLengths)
MaxDay == CHOOSE d \in {MonthLengths[m] : m \in 1..Months} :
              \A m \in 1..Months : MonthLengths[m] <= d

\* ParseCron of the two day fields and one minute; hours and months are listed.
ParseCron(minute, hours, days, months, weekdays) ==
    [minutes |-> {minute}, hours |-> hours, months |-> months,
     days |-> FieldValues(days, 1, MaxDay, FALSE),
     weekdays |-> FieldValues(weekdays, 0, DaysPerWeek, TRUE),
     domRestricted |-> days # Star, dowRestricted |-> weekdays # Star]
--------------------------------------------------------------------------------
(* The calendar of package time. *)
MinutesPerDay == MinutesPerHour * HoursPerDay
DaysBefore[m \in 1..(Months + 1)] == IF m = 1 THEN 0 ELSE DaysBefore[m - 1] + MonthLengths[m - 1]
DaysPerYear == DaysBefore[Months + 1]

DayOf(t)     == t \div MinutesPerDay
Minute(t)    == t % MinutesPerHour
Hour(t)      == (t \div MinutesPerHour) % HoursPerDay
Weekday(t)   == DayOf(t) % DaysPerWeek
YearDay(t)   == DayOf(t) % DaysPerYear
Month(t)     == CHOOSE m \in 1..Months : DaysBefore[m] <= YearDay(t) /\ YearDay(t) < DaysBefore[m + 1]
Day(t)       == YearDay(t) - DaysBefore[Month(t)] + 1

NextMonth(t) == (DayOf(t) - Day(t) + 1 + MonthLengths[Month(t)]) * MinutesPerDay
NextDay(t)   == (DayOf(t) + 1) * MinutesPerDay
NextHour(t)  == (t \div MinutesPerHour + 1) * MinutesPerHour
--------------------------------------------------------------------------------
\* A day matches either field when both are restricted.
DayMatches(c, t) ==
    CASE c.domRestricted /\ c.dowRestricted  -> Day(t) \in c.days \/ Weekday(t) \in c.weekdays
      [] c.domRestricted /\ ~c.dowRestricted -> Day(t) \in c.days
      [] ~c.domRestricted /\ c.dowRestricted -> Weekday(t) \in c.weekdays
      [] OTHER                               -> TRUE

Matches(c, t) ==
    /\ Minute(t) \in c.minutes /\ Hour(t) \in c.hours /\ Month(t) \in c.months
    /\ DayMatches(c, t)

Limit(from) == from + 1 + YearsAhead * DaysPerYear * MinutesPerDay
Never == -1   \* the zero time

\* Mutant of CronNext: the search goes on a month at a time from the day it is at.
CronNextSameDay(c, from) ==
    LET search[t \in Nat] ==
          IF t >= Limit(from) THEN Never
          ELSE IF Month(t) \notin c.months
               THEN search[t + MonthLengths[Month(t)] * MinutesPerDay]
          ELSE IF ~DayMatches(c, t) THEN search[NextDay(t)]
          ELSE IF Hour(t) \notin c.hours THEN search[NextHour(t)]
          ELSE IF Minute(t) \notin c.minutes THEN search[t + 1]
          ELSE t
    IN search[from + 1]

\* Next: a month, a day or an hour that does not match is skipped as a whole.
CronNext(c, from) ==
    LET search[t \in Nat] ==
          IF t >= Limit(from) THEN Never
          ELSE IF Month(t) \notin c.months THEN search[NextMonth(t)]
          ELSE IF ~DayMatches(c, t) THEN search[NextDay(t)]
          ELSE IF Hour(t) \notin c.hours THEN search[NextHour(t)]
          ELSE IF Minute(t) \notin c.minutes THEN search[t + 1]
          ELSE t
    IN search[from + 1]
--------------------------------------------------------------------------------
CronInit ==
    /\ \E minute \in 0..(MinutesPerHour - 1), hours \in SUBSET (0..(HoursPerDay - 1)) \ {{}},
          months \in SUBSET (1..Months) \ {{}}, days \in DayFields, weekdays \in WeekdayFields :
          /\ FieldOK(days, 1, MaxDay) /\ FieldOK(weekdays, 0, DaysPerWeek)
          /\ cron = ParseCron(minute, hours, days, months, weekdays)
    /\ cronTime = 0

\* The schedule comes due at the time Next gave; calls in between ask from other minutes.
ComesDue ==
    /\ cronTime < CronUntil
    /\ LET due == CronNext(cron, cronTime) IN
       /\ due # Never
       /\ cronTime' \in {due, cronTime + 1}
    /\ UNCHANGED cron

CronSpec == CronInit /\ [][ComesDue]_cronVars
--------------------------------------------------------------------------------
(* Next is the first matching minute after the one it is asked from: no due time is skipped with *)
(* the months, days and hours the search jumps over, and none is invented.                       *)
NextIsFirstMatch ==
    LET due == CronNext(cron, cronTime)
        later == {t \in (cronTime + 1)..(Limit(cronTime) - 1) : Matches(cron, t)}
    IN IF due = Never THEN later = {}
       ELSE due \in later /\ \A t \in (cronTime + 1)..(due - 1) : ~Matches(cron, t)
================================================================================
