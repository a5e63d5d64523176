-------------------------------- MODULE Retention --------------------------------
(***************************************************************************)
(* Which backups a service keeps: EvaluateRetention of                     *)
(* pkg/backup/s3/retention.go, run by PruneRetention after every good      *)
(* backup (once by ExecuteMultiDBBackup, once more by the scheduler) on    *)
(* the objects under the service's prefix.                                 *)
(*                                                                         *)
(* Time is a number of ticks.  An hour, a day and a week are that many     *)
(* ticks; months have different lengths, and AddDate carries a day that an *)
(* earlier month does not have over into the one after it.  Two backups    *)
(* that start in one second are left out.  A backup is the time in its     *)
(* key, that of its start.                                                 *)
(***************************************************************************)
EXTENDS Integers, Sequences, FiniteSets

CONSTANTS Policies,   \* [hourly, daily, weekly, monthly, max]
          UnitLength, \* [hourly, daily, weekly -> ticks]
          MonthStart, \* the ticks at which months begin, some of them before tick 0
          LastTick    \* bound on the clock

FixedUnits == {"hourly", "daily", "weekly"}
Units == FixedUnits \cup {"monthly"}

ASSUME RetentionAssumption ==
    /\ Policies \subseteq [Units \cup {"max"} -> Nat]
    /\ UnitLength \in [FixedUnits -> Nat \ {0}]
    /\ MonthStart \in Seq(Int)
    /\ \A m, n \in DOMAIN MonthStart : m < n => MonthStart[m] < MonthStart[n]
    /\ \A p \in Policies : p.monthly + 1 \in DOMAIN MonthStart /\ MonthStart[p.monthly + 1] <= 0
    /\ LastTick \in Nat

VARIABLES clock, policy,
          started,    \* start of the backup in progress, or NoBackup
          prunes,     \* calls of PruneRetention left after the last backup
          taken,      \* every backup that was ever completed
          kept        \* those in S3

retentionVars == <<clock, policy, started, prunes, taken, kept>>

NoBackup == -1

RetentionInit ==
    /\ clock = 0 /\ policy \in Policies
    /\ started = NoBackup /\ prunes = 0 /\ taken = {} /\ kept = {}
--------------------------------------------------------------------------------
NewestFirst(items) ==
    [i \in 1..Cardinality(items) |->
        CHOOSE b \in items : Cardinality({c \in items : c > b}) = i - 1]

\* The month of a time: the last one that has begun.
MonthOf(t) == CHOOSE m \in DOMAIN MonthStart :
                 MonthStart[m] <= t /\ \A n \in DOMAIN MonthStart : MonthStart[n] <= t => n <= m
\* AddDate(0, -n, 0): as far into the month n months ago as now is into its own, and so perhaps
\* past its end.  When a longer month than that one ends, the cutoff goes back.
Cutoff(rule, unit, now) ==
    IF unit = "monthly" THEN MonthStart[MonthOf(now) - rule.monthly] + (now - MonthStart[MonthOf(now)])
    ELSE now - rule[unit] * UnitLength[unit]
Bucket(item, unit) == IF unit = "monthly" THEN MonthOf(item) ELSE item \div UnitLength[unit]

\* Mutant of KeepByUnit: the items come oldest first, so a bucket keeps its oldest one.
KeepByUnitOldest(rule, unit, items, now) ==
    LET pass[i \in 0..Len(items)] ==
          IF i = 0 THEN [buckets |-> {}, retained |-> {}]
          ELSE LET before == pass[i - 1]
                   item   == items[Len(items) + 1 - i]
               IN  IF item >= Cutoff(rule, unit, now) /\ Bucket(item, unit) \notin before.buckets
                   THEN [buckets |-> before.buckets \cup {Bucket(item, unit)},
                         retained |-> before.retained \cup {item}]
                   ELSE before
    IN  pass[Len(items)].retained

\* One of the four loops: the first item of every bucket that is not before the cutoff.
KeepByUnit(rule, unit, items, now) ==
    LET pass[i \in 0..Len(items)] ==
          IF i = 0 THEN [buckets |-> {}, retained |-> {}]
          ELSE LET before == pass[i - 1]
                   item   == items[i]
               IN  IF item >= Cutoff(rule, unit, now) /\ Bucket(item, unit) \notin before.buckets
                   THEN [buckets |-> before.buckets \cup {Bucket(item, unit)},
                         retained |-> before.retained \cup {item}]
                   ELSE before
    IN  pass[Len(items)].retained

\* The first n of a list that is sorted newest first.
NewestOf(items, n) == {b \in items : Cardinality({c \in items : c > b}) < n}

\* What EvaluateRetention retains.
EvaluateRetention(objects, rule, now) ==
    LET items == NewestFirst(objects)
        ruled == IF \A u \in Units : rule[u] = 0 THEN objects
                 ELSE UNION {KeepByUnit(rule, u, items, now) : u \in {v \in Units : rule[v] > 0}}
    IN  IF rule.max > 0 THEN NewestOf(ruled, rule.max) ELSE ruled
--------------------------------------------------------------------------------
Tick == clock < LastTick /\ clock' = clock + 1 /\ UNCHANGED <<policy, started, prunes, taken, kept>>

BackupStarts ==
    /\ started = NoBackup /\ prunes = 0 /\ clock \notin taken
    /\ started' = clock
    /\ UNCHANGED <<clock, policy, prunes, taken, kept>>

\* A failed backup leaves no object and prunes nothing.
BackupEnds ==
    /\ started # NoBackup /\ started' = NoBackup
    /\ \E ok \in BOOLEAN :
          /\ taken' = IF ok THEN taken \cup {started} ELSE taken
          /\ kept'  = IF ok THEN kept \cup {started} ELSE kept
          /\ prunes' = IF ok /\ \E r \in DOMAIN policy : policy[r] > 0 THEN 2 ELSE 0
    /\ UNCHANGED <<clock, policy>>

\* The listing or the deletion may fail, and S3 may refuse single keys of a batch.
PruneRetention ==
    /\ prunes > 0 /\ prunes' = prunes - 1
    /\ \E gone \in SUBSET (kept \ EvaluateRetention(kept, policy, clock)) : kept' = kept \ gone
    /\ UNCHANGED <<clock, policy, started, taken>>

RetentionNext == Tick \/ BackupStarts \/ BackupEnds \/ PruneRetention

RetentionSpec == RetentionInit /\ [][RetentionNext]_retentionVars
--------------------------------------------------------------------------------
(* Types of the retention's variables. *)
RetentionTypeOK ==
    /\ clock \in 0..LastTick /\ policy \in Policies /\ started \in 0..clock \cup {NoBackup}
    /\ prunes \in 0..2 /\ kept \subseteq taken /\ taken \subseteq 0..clock

\* What the rules promise of some backups: of each hour, day, week or month the newest one, until
\* it is too old.  What EvaluateRetention judges is the age it has now.
Fresh(b, rule, unit, now) == b >= Cutoff(rule, unit, now)
NewestOfUnit(b, objects, unit) == \A c \in objects : Bucket(c, unit) = Bucket(b, unit) => c <= b
Promised(objects, rule, now) ==
    IF \A u \in Units : rule[u] = 0 THEN objects
    ELSE {b \in objects : \E u \in Units :
            rule[u] > 0 /\ Fresh(b, rule, u, now) /\ NewestOfUnit(b, objects, u)}

\* And what they have promised ever since it was made: the monthly cutoff goes back, so that a
\* backup which was too old on the last day of a month may be young enough on the day after.
FreshSince(b, rule, unit, now) ==
    IF unit = "monthly" THEN \A t \in b..now : Fresh(b, rule, unit, t) ELSE Fresh(b, rule, unit, now)
PromisedSince(objects, rule, now) ==
    IF \A u \in Units : rule[u] = 0 THEN objects
    ELSE {b \in objects : \E u \in Units :
            rule[u] > 0 /\ FreshSince(b, rule, u, now) /\ NewestOfUnit(b, objects, u)}

(* Whatever pruning there was in the past, a service still has every backup its rules promise    *)
(* now, judged by all the backups ever taken and not by those that are left: pruning with the    *)
(* clock of an earlier hour, day or week never takes a backup that a later one would keep.  Of a *)
(* month that holds for the backups that were never too old before; the others may be gone,      *)
(* since AddDate's cutoff goes back at a month's end.  Under MaxBackups the newest backup stays  *)
(* as long as some rule promises it, a pruning leaves no more than MaxBackups to be kept, and    *)
(* doing it again, as the scheduler does, deletes nothing more.                                  *)
PromisedBackupsStay ==
    LET retained == EvaluateRetention(kept, policy, clock)
        promised == PromisedSince(taken, policy, clock)
    IN  /\ RetentionTypeOK
        /\ policy.max = 0 => promised \subseteq kept
        /\ \A b \in promised : (\A c \in taken : c <= b) => b \in kept
        /\ policy.max > 0 => Cardinality(retained) <= policy.max
        /\ EvaluateRetention(retained, policy, clock) = retained
================================================================================
