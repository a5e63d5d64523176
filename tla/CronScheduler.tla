----------------------------- MODULE CronScheduler -----------------------------
(***************************************************************************)
(* The backup scheduler of pkg/backup/scheduler.go with everybody who      *)
(* writes the rows it works from: a loop polls backup_schedules and runs   *)
(* the jobs that are due, while the API creates, edits and deletes rows,   *)
(* callers start and stop the loop, and the process ends and comes back.   *)
(*                                                                         *)
(* Three locks do not cover the same things: lifecycleMu orders Start and  *)
(* Stop but not the end of the loop, mu orders polls but not the API, and  *)
(* the controller's lock orders API writes but not the reads before them.  *)
(*                                                                         *)
(* Left out: the object and its retention in S3, last_run_at, the other    *)
(* columns, and whether a backup succeeded, which decides only what the    *)
(* execution record says.  The unit of time is the poll interval.          *)
(***************************************************************************)
EXTENDS Naturals

CONSTANTS Schedules,   \* IDs of schedules, each created once
          Loops,       \* loop goroutines; an identity is free again when its loop has ended
          Triggers,    \* calls of Trigger
          Editors,     \* API calls that edit or delete a schedule
          Crons,       \* cron expressions
          Parsable,    \* those ParseCron accepts
          NextMatch,   \* CronExpression.Next: the next match after a time, or Zero
          Horizon,     \* bound: the clock stops here, ticks do not
          MaxReboots,  \* bound: how often the process comes back
          None,        \* no row, no loop, no job; NULL as next_run_at
          Gone         \* the row of a deleted schedule

Runners == Loops \cup Triggers
Procs   == Runners \cup Editors
Times   == 1..Horizon
Zero    == 0    \* time.Time{}: before every poll, and Next's answer if nothing matches
NextRun == Nat \cup {None}
Rows    == [cron : Crons, on : BOOLEAN, next : NextRun]

(* A cron expression that never matches (30 February) is one Next always answers with Zero. *)
ASSUME CronSchedulerAssumption ==
    /\ Horizon \in Nat \ {0} /\ MaxReboots \in Nat
    /\ Parsable \subseteq Crons
    /\ NextMatch \in [Parsable -> [Times -> Nat]]
    /\ \A c \in Parsable, t \in Times : NextMatch[c][t] = Zero \/ NextMatch[c][t] > t
    /\ \A c \in Parsable, t, u \in Times :
          /\ NextMatch[c][t] = Zero <=> NextMatch[c][u] = Zero
          /\ t <= u => NextMatch[c][t] <= NextMatch[c][u]
    /\ Loops \cap Triggers = {} /\ Editors \cap Runners = {}
    /\ None \notin Schedules \cup Procs \cup Crons \cup Nat \cup Rows \cup {Gone}
    /\ Gone \notin Rows

VARIABLES
    clock,      \* the time
    alive,      \* the context the process runs under has not ended
    reboots,    \* how often the process came back
    running,    \* s.running
    cur,        \* the loop whose channels s.stopCh and s.doneCh are
    stopping,   \* the loop whose doneCh a Stop waits for, holding lifecycleMu
    tick,       \* the tick in the channel of each loop's ticker, or Zero
    pc,         \* what each loop and call does next
    now,        \* the time a poll is for, or Zero
    mu,         \* who holds s.mu
    row,        \* the rows of backup_schedules
    seen,       \* the rows as each process read them: the due jobs of a poll, the edited row
    job,        \* the schedule a process is working on
    attempted,  \* history: due times a backup was attempted for
    replaced,   \* history: due times UpdateRunTimes replaced
    recorded,   \* due times with an execution record
    orphans,    \* history: loops whose running flag another loop cleared
    raced,      \* history: schedules with a next_run_at computed from a stale row
    lost        \* history: schedules with an execution the end of the process left unrecorded

lifeVars == <<running, cur, stopping, orphans>>
pollVars == <<now, mu>>
rowVars  == <<row, replaced, raced>>
logVars  == <<attempted, recorded, lost>>
timeVars == <<clock, tick>>
procVars == <<alive, reboots>>
vars == <<clock, alive, reboots, running, cur, stopping, tick, pc, now, mu, row, seen, job,
          attempted, replaced, recorded, orphans, raced, lost>>

\* The parts of RunDueJobs that hold s.mu.
Polling == {"jobs", "stream", "update", "record"}
Steps   == {"none", "select", "lock", "exiting", "done", "edit"} \cup Polling

\* A loop is live until its doneCh is closed.
Live(l) == pc[l] \notin {"none", "exiting", "done"}

\* ListDue's WHERE clause.
IsDue(r, t) == r \in Rows /\ r.on /\ (r.next = None \/ r.next <= t)

\* The due time of the job a runner works on.
DueTime(r) == seen[r][job[r]].next

goto(p, step) == pc' = [pc EXCEPT ![p] = step]

Init ==
    /\ clock = 1 /\ alive = TRUE /\ reboots = 0
    /\ running = FALSE /\ cur = None /\ stopping = None
    /\ tick = [l \in Loops |-> Zero]
    /\ pc = [p \in Procs |-> "none"]
    /\ now = [r \in Runners |-> Zero]
    /\ mu = None
    /\ row = [s \in Schedules |-> None]
    /\ seen = [p \in Procs |-> [s \in Schedules |-> None]]
    /\ job = [p \in Procs |-> None]
    /\ attempted = [s \in Schedules |-> {}]
    /\ replaced = [s \in Schedules |-> {}]
    /\ recorded = [s \in Schedules |-> {}]
    /\ orphans = {} /\ raced = {} /\ lost = {}
--------------------------------------------------------------------------------
(* Start and Stop, under lifecycleMu, and the life of a loop. *)

\* A Start that finds running set returns an error and changes nothing.
Start(l) ==
    /\ stopping = None /\ ~running /\ pc[l] \in {"none", "done"}
    /\ running' = TRUE
    /\ cur' = l
    /\ goto(l, "select")
    /\ UNCHANGED <<stopping, orphans, now, mu, rowVars, logVars, timeVars, procVars, seen, job>>

\* A Stop that finds running clear returns at once; this one closes stopCh.
StopBegin ==
    /\ stopping = None /\ running
    /\ running' = FALSE
    /\ stopping' = cur
    /\ UNCHANGED <<cur, orphans, pc, pollVars, rowVars, logVars, timeVars, procVars, seen, job>>

\* Mutant of StopReturn: Stop does not wait for doneCh.
StopReturnAtOnce ==
    /\ stopping # None
    /\ stopping' = None
    /\ UNCHANGED <<running, cur, orphans, pc, pollVars, rowVars, logVars, timeVars, procVars,
                   seen, job>>

StopReturn ==
    /\ stopping # None /\ ~Live(stopping)
    /\ stopping' = None
    /\ UNCHANGED <<running, cur, orphans, pc, pollVars, rowVars, logVars, timeVars, procVars,
                   seen, job>>

LoopTick(l) ==
    /\ pc[l] = "select" /\ tick[l] # Zero
    /\ now' = [now EXCEPT ![l] = tick[l]]
    /\ tick' = [tick EXCEPT ![l] = Zero]
    /\ goto(l, "lock")
    /\ UNCHANGED <<clock, lifeVars, mu, rowVars, logVars, procVars, seen, job>>

\* Mutant of LoopExit: the loop does not watch stopCh.
LoopExitOnContext(l) ==
    /\ pc[l] = "select" /\ ~alive
    /\ tick' = [tick EXCEPT ![l] = Zero]
    /\ goto(l, "exiting")
    /\ UNCHANGED <<clock, lifeVars, pollVars, rowVars, logVars, procVars, seen, job>>

\* ctx.Done or stopCh: the first deferred calls stop the ticker and close doneCh.
LoopExit(l) ==
    /\ pc[l] = "select" /\ (~alive \/ stopping = l)
    /\ tick' = [tick EXCEPT ![l] = Zero]
    /\ goto(l, "exiting")
    /\ UNCHANGED <<clock, lifeVars, pollVars, rowVars, logVars, procVars, seen, job>>

\* The last deferred call, running.Store(false), whoever's flag it is by now.
LoopClear(l) ==
    /\ pc[l] = "exiting"
    /\ running' = FALSE
    /\ orphans' = (orphans \ {l}) \cup {o \in Loops : running /\ o = cur /\ o # l /\ Live(o)}
    /\ goto(l, "done")
    /\ UNCHANGED <<cur, stopping, pollVars, rowVars, logVars, timeVars, procVars, seen, job>>
--------------------------------------------------------------------------------
(* RunDueJobs, by a loop or a Trigger. *)

Trigger(t) ==
    /\ pc[t] = "none"
    /\ now' = [now EXCEPT ![t] = clock]
    /\ goto(t, "lock")
    /\ UNCHANGED <<lifeVars, mu, rowVars, logVars, timeVars, procVars, seen, job>>

\* RunDueJobs returns.
endPoll(r) ==
    /\ goto(r, IF r \in Loops THEN "select" ELSE "done")
    /\ now' = [now EXCEPT ![r] = Zero]

\* Mutant of ListDue: polls do not exclude each other.
ListDueUnlocked(r) ==
    /\ pc[r] = "lock" /\ alive
    /\ seen' = [seen EXCEPT ![r] = [s \in Schedules |->
                   IF IsDue(row[s], now[r]) THEN row[s] ELSE None]]
    /\ goto(r, "jobs")
    /\ UNCHANGED <<lifeVars, pollVars, rowVars, logVars, timeVars, procVars, job>>

\* s.mu.Lock and ListDue, which fails when the context has ended.
ListDue(r) ==
    /\ pc[r] = "lock" /\ mu = None
    /\ IF alive
       THEN /\ mu' = r
            /\ seen' = [seen EXCEPT ![r] = [s \in Schedules |->
                           IF IsDue(row[s], now[r]) THEN row[s] ELSE None]]
            /\ goto(r, "jobs")
            /\ UNCHANGED now
       ELSE /\ endPoll(r)
            /\ UNCHANGED <<mu, seen>>
    /\ UNCHANGED <<lifeVars, rowVars, logVars, timeVars, procVars, job>>

\* The jobs are taken in the order of next_run_at, NULLs before or after the times.
Timed(r) == {s \in Schedules : seen[r][s] # None /\ seen[r][s].next # None}
IsFirst(r, s) ==
    /\ seen[r][s] # None
    /\ s \in Timed(r) => \A u \in Timed(r) : seen[r][s].next <= seen[r][u].next

\* Mutant of BeginJob: the run times are updated before the backup, to claim the run.
BeginJobClaims(r, s) ==
    /\ pc[r] = "jobs" /\ IsFirst(r, s) /\ seen[r][s].cron \in Parsable
    /\ job' = [job EXCEPT ![r] = s]
    /\ goto(r, "stream")
    /\ IF alive /\ row[s] \in Rows
       THEN /\ row' = [row EXCEPT ![s].next = NextMatch[seen[r][s].cron][now[r]]]
            /\ replaced' = [replaced EXCEPT ![s] = @ \cup {row[s].next}]
       ELSE UNCHANGED <<row, replaced>>
    /\ UNCHANGED <<lifeVars, pollVars, raced, logVars, timeVars, procVars, seen>>

\* Mutant of BeginJob: an expression that does not parse ends the poll.
BeginJobOrReturn(r, s) ==
    /\ pc[r] = "jobs" /\ IsFirst(r, s)
    /\ IF seen[r][s].cron \in Parsable
       THEN /\ job' = [job EXCEPT ![r] = s]
            /\ goto(r, "stream")
            /\ UNCHANGED seen
       ELSE /\ seen' = [seen EXCEPT ![r] = [u \in Schedules |-> None]]
            /\ UNCHANGED <<job, pc>>
    /\ UNCHANGED <<lifeVars, pollVars, rowVars, logVars, timeVars, procVars>>

\* ExecuteScheduleJob up to StreamBackup; it returns when the expression does not parse.
BeginJob(r, s) ==
    /\ pc[r] = "jobs" /\ IsFirst(r, s)
    /\ IF seen[r][s].cron \in Parsable
       THEN /\ job' = [job EXCEPT ![r] = s]
            /\ goto(r, "stream")
            /\ UNCHANGED seen
       ELSE /\ seen' = [seen EXCEPT ![r][s] = None]
            /\ UNCHANGED <<job, pc>>
    /\ UNCHANGED <<lifeVars, pollVars, rowVars, logVars, timeVars, procVars>>

\* StreamBackup returns: it succeeded, failed, timed out or was cancelled.
StreamBackup(r) ==
    /\ pc[r] = "stream"
    /\ attempted' = [attempted EXCEPT ![job[r]] = @ \cup {DueTime(r)}]
    /\ goto(r, "update")
    /\ UNCHANGED <<lifeVars, pollVars, rowVars, recorded, lost, timeVars, procVars, seen, job>>

\* The next run follows the expression of the row as it was listed.
UpdateRunTimes(r) ==
    LET s == job[r] IN
    /\ pc[r] = "update"
    /\ IF alive /\ row[s] \in Rows
       THEN /\ row' = [row EXCEPT ![s].next = NextMatch[seen[r][s].cron][now[r]]]
            /\ replaced' = [replaced EXCEPT ![s] = @ \cup {row[s].next}]
            /\ raced' = IF row[s].next # seen[r][s].next \/ row[s].cron # seen[r][s].cron
                        THEN raced \cup {s} ELSE raced
       ELSE UNCHANGED rowVars
    /\ goto(r, "record")
    /\ UNCHANGED <<lifeVars, pollVars, logVars, timeVars, procVars, seen, job>>

\* Mutant of RecordExecution: a failed backup returns before it is recorded.
RecordExecutionOfSuccess(r) ==
    LET s == job[r] IN
    /\ pc[r] = "record"
    /\ \E ok \in BOOLEAN :
          recorded' = IF ok THEN [recorded EXCEPT ![s] = @ \cup {DueTime(r)}] ELSE recorded
    /\ seen' = [seen EXCEPT ![r][s] = None]
    /\ job' = [job EXCEPT ![r] = None]
    /\ goto(r, "jobs")
    /\ UNCHANGED <<lifeVars, pollVars, rowVars, attempted, lost, timeVars, procVars>>

\* RecordExecution, and the end of the job.
RecordExecution(r) ==
    LET s == job[r] IN
    /\ pc[r] = "record"
    /\ IF alive
       THEN recorded' = [recorded EXCEPT ![s] = @ \cup {DueTime(r)}] /\ UNCHANGED lost
       ELSE lost' = lost \cup {s} /\ UNCHANGED recorded
    /\ seen' = [seen EXCEPT ![r][s] = None]
    /\ job' = [job EXCEPT ![r] = None]
    /\ goto(r, "jobs")
    /\ UNCHANGED <<lifeVars, pollVars, rowVars, attempted, timeVars, procVars>>

\* Mutant of EndPoll: the loop polls again without waiting for a tick.
EndPollAgain(r) ==
    /\ pc[r] = "jobs" /\ \A s \in Schedules : seen[r][s] = None
    /\ mu' = None
    /\ goto(r, "lock")
    /\ now' = [now EXCEPT ![r] = Zero]
    /\ UNCHANGED <<lifeVars, rowVars, logVars, timeVars, procVars, seen, job>>

\* No job is left: s.mu is unlocked.
EndPoll(r) ==
    /\ pc[r] = "jobs" /\ \A s \in Schedules : seen[r][s] = None
    /\ mu' = None
    /\ endPoll(r)
    /\ UNCHANGED <<lifeVars, rowVars, logVars, timeVars, procVars, seen, job>>
--------------------------------------------------------------------------------
(* The API.  None for a cron expression keeps the row's. *)

\* When the next run is the column set by a request with the expression c, and NULL otherwise.
Create(s, c, on) ==
    /\ row[s] = None
    /\ row' = [row EXCEPT ![s] =
          [cron |-> c, on |-> on,
           next |-> IF c \in Parsable /\ NextMatch[c][clock] # Zero
                    THEN NextMatch[c][clock] ELSE None]]
    /\ UNCHANGED <<lifeVars, pc, pollVars, replaced, raced, logVars, timeVars, procVars, seen, job>>

\* GetBackupSchedule, before UpdateBackupSchedule takes the controller's lock.
EditRead(e, s) ==
    /\ pc[e] = "none" /\ row[s] \in Rows
    /\ seen' = [seen EXCEPT ![e][s] = row[s]]
    /\ job' = [job EXCEPT ![e] = s]
    /\ goto(e, "edit")
    /\ UNCHANGED <<lifeVars, pollVars, rowVars, logVars, timeVars, procVars>>

\* Mutant of EditWrite: a new expression does not move next_run_at.
EditWriteKeepsNext(e, c, on) ==
    LET s == job[e] IN
    /\ pc[e] = "edit"
    /\ row' = IF row[s] \in Rows
              THEN [row EXCEPT ![s] = [cron |-> IF c = None THEN seen[e][s].cron ELSE c,
                                       on |-> on, next |-> seen[e][s].next]]
              ELSE row
    /\ seen' = [seen EXCEPT ![e][s] = None]
    /\ job' = [job EXCEPT ![e] = None]
    /\ goto(e, "done")
    /\ UNCHANGED <<lifeVars, pollVars, replaced, raced, logVars, timeVars, procVars>>

\* Every column is written: those the request does not set with what was read.
EditWrite(e, c, on) ==
    LET s     == job[e]
        old   == seen[e][s]
        fresh == c \in Parsable /\ NextMatch[c][clock] # Zero
        new   == [cron |-> IF c = None THEN old.cron ELSE c, on |-> on,
                  next |-> IF fresh THEN NextMatch[c][clock] ELSE old.next]
    IN  /\ pc[e] = "edit"
        /\ IF row[s] \in Rows
           THEN /\ row' = [row EXCEPT ![s] = new]
                /\ raced' = IF ~fresh /\ (old.next # row[s].next \/ old.cron # row[s].cron)
                            THEN raced \cup {s} ELSE raced
           ELSE UNCHANGED <<row, raced>>
        /\ seen' = [seen EXCEPT ![e][s] = None]
        /\ job' = [job EXCEPT ![e] = None]
        /\ goto(e, "done")
        /\ UNCHANGED <<lifeVars, pollVars, replaced, logVars, timeVars, procVars>>

\* DeleteBackupSchedule.
Delete(e, s) ==
    /\ pc[e] = "none" /\ row[s] \in Rows
    /\ row' = [row EXCEPT ![s] = Gone]
    /\ goto(e, "done")
    /\ UNCHANGED <<lifeVars, pollVars, replaced, raced, logVars, timeVars, procVars, seen, job>>
--------------------------------------------------------------------------------
(* Time and the process. *)

\* A ticker drops the tick its reader has no room for.
ClockTick ==
    /\ clock' = IF clock < Horizon THEN clock + 1 ELSE clock
    /\ tick' = [l \in Loops |-> IF Live(l) /\ tick[l] = Zero THEN clock' ELSE tick[l]]
    /\ UNCHANGED <<lifeVars, pc, pollVars, rowVars, logVars, procVars, seen, job>>

ContextEnds ==
    /\ alive
    /\ alive' = FALSE
    /\ UNCHANGED <<reboots, lifeVars, pc, pollVars, rowVars, logVars, timeVars, seen, job>>

\* The process dies, at any moment, and comes back; the rows are what is left.
Reboot ==
    /\ reboots < MaxReboots
    /\ reboots' = reboots + 1
    /\ alive' = TRUE
    /\ running' = FALSE /\ cur' = None /\ stopping' = None /\ orphans' = {}
    /\ tick' = [l \in Loops |-> Zero]
    /\ pc' = [p \in Procs |-> IF p \in Editors /\ pc[p] # "none" THEN "done" ELSE "none"]
    /\ mu' = None
    /\ seen' = [p \in Procs |-> [s \in Schedules |-> None]]
    /\ job' = [p \in Procs |-> None]
    /\ lost' = lost \cup {job[r] : r \in {q \in Runners : pc[q] = "record"}}
    /\ now' = [r \in Runners |-> Zero]
    /\ UNCHANGED <<clock, rowVars, attempted, recorded>>
--------------------------------------------------------------------------------
Loop(l) == LoopTick(l) \/ LoopClear(l)

Poll(r) ==
    \/ \E s \in Schedules : BeginJob(r, s)
    \/ StreamBackup(r) \/ UpdateRunTimes(r) \/ RecordExecution(r) \/ EndPoll(r)

Api ==
    \/ \E s \in Schedules, c \in Crons, on \in BOOLEAN : Create(s, c, on)
    \/ \E e \in Editors, s \in Schedules : EditRead(e, s) \/ Delete(e, s)
    \/ \E e \in Editors, c \in Crons \cup {None}, on \in BOOLEAN : EditWrite(e, c, on)

Next ==
    \/ StopBegin \/ StopReturn
    \/ \E l \in Loops : Start(l) \/ LoopExit(l) \/ Loop(l)
    \/ \E t \in Triggers : Trigger(t)
    \/ \E r \in Runners : ListDue(r) \/ Poll(r)
    \/ Api
    \/ ClockTick \/ ContextEnds \/ Reboot

SafetySpec == Init /\ [][Next]_vars

(***************************************************************************)
(* Goroutines are scheduled and time passes.  A backup returns: jobTimeout *)
(* ends the upload, but the copy of the dump's stream ignores the context, *)
(* so that every dump comes to an end is assumed.  Go's mutex starves      *)
(* nobody and its select chooses at random among what is ready, hence      *)
(* strong fairness of taking s.mu and of seeing stopCh.  Nobody has to     *)
(* start, stop, trigger or edit anything.                                  *)
(***************************************************************************)
Fairness ==
    /\ WF_vars(ClockTick) /\ WF_vars(StopReturn)
    /\ \A l \in Loops : WF_vars(Loop(l)) /\ SF_vars(LoopExit(l))
    /\ \A r \in Runners : SF_vars(ListDue(r)) /\ WF_vars(Poll(r))

Spec == SafetySpec /\ Fairness
--------------------------------------------------------------------------------
(* Types, and which processes work on a schedule they have read. *)
TypeOK ==
    /\ clock \in Times /\ alive \in BOOLEAN /\ reboots \in 0..MaxReboots
    /\ running \in BOOLEAN
    /\ cur \in Loops \cup {None} /\ stopping \in Loops \cup {None}
    /\ tick \in [Loops -> Times \cup {Zero}]
    /\ pc \in [Procs -> Steps]
    /\ now \in [Runners -> Times \cup {Zero}]
    /\ mu \in Runners \cup {None}
    /\ row \in [Schedules -> Rows \cup {None, Gone}]
    /\ seen \in [Procs -> [Schedules -> Rows \cup {None}]]
    /\ job \in [Procs -> Schedules \cup {None}]
    /\ attempted \in [Schedules -> SUBSET NextRun]
    /\ replaced \in [Schedules -> SUBSET NextRun]
    /\ recorded \in [Schedules -> SUBSET NextRun]
    /\ orphans \subseteq Loops /\ raced \subseteq Schedules /\ lost \subseteq Schedules
    /\ \A p \in Procs : pc[p] \in {"stream", "update", "record", "edit"} =>
          job[p] \in Schedules /\ seen[p][job[p]] \in Rows
    /\ \A r \in Runners : pc[r] \in {"lock"} \cup Polling => now[r] \in Times
    /\ \A r \in Runners : pc[r] \in {"stream", "update", "record"} =>
          seen[r][job[r]].cron \in Parsable

(* A loop that still polls can be stopped: its channels are the ones Stop would use, and the     *)
(* running flag says so or a Stop is waiting for it - unless an earlier loop, whose last         *)
(* deferred call came after the next Start, has cleared the flag.                                *)
LiveLoopIsOwned ==
    \A l \in Loops : Live(l) =>
        l \in orphans \/ (l = cur /\ (running \/ stopping = l))

(* No due time is served twice: once UpdateRunTimes has moved a schedule on from it, no poll     *)
(* works on a job that was due then, whichever loop, Trigger or process listed it - unless an    *)
(* edit put a stale next_run_at back.  The zero time of an expression that never matches is      *)
(* due at every poll.                                                                            *)
FiresOnce ==
    \A r \in Runners, s \in Schedules \ raced :
        pc[r] \in {"stream", "update"} /\ job[r] = s /\ DueTime(r) \notin {None, Zero}
           => DueTime(r) \notin replaced[s]

(* No due time is lost: a schedule moves on from it only after a backup was attempted for it,    *)
(* also when the context ends or the process dies during the job - unless the row was edited     *)
(* during the job.                                                                               *)
NoRunLost ==
    \A s \in Schedules \ raced : replaced[s] \subseteq attempted[s]

(* The execution log tells of every due time a schedule moved on from, unless the process was    *)
(* ending when the record was to be written.                                                     *)
RunsAreRecorded ==
    \A s \in Schedules \ (raced \cup lost) : \A d \in replaced[s] \ recorded[s] :
        \E r \in Runners : pc[r] = "record" /\ job[r] = s /\ DueTime(r) = d

(* A schedule does not sleep past the next match of the expression its row has now - unless a    *)
(* row that was not current any more was used to compute next_run_at.                            *)
NextFollowsCron ==
    \A s \in Schedules \ raced :
        row[s] \in Rows /\ row[s].cron \in Parsable =>
            NextMatch[row[s].cron][clock] = Zero
               \/ (row[s].next \in Nat /\ row[s].next <= NextMatch[row[s].cron][clock])

\* A due job ListDue selects whose expression can be run and matches again.
Runnable(s) ==
    IsDue(row[s], clock) /\ row[s].cron \in Parsable /\ NextMatch[row[s].cron][clock] # Zero

Up(l) == alive /\ Live(l) /\ stopping # l

(* While a loop polls, a schedule that is due does not stay due, whatever the other schedules    *)
(* are: one that cannot be parsed or always fails holds nothing up.                              *)
DueRuns ==
    \A s \in Schedules, l \in Loops : (Runnable(s) /\ Up(l)) ~> (~Runnable(s) \/ ~Up(l))

(* Stop returns, whatever the loop is doing.                                                     *)
StopReturns ==
    stopping # None ~> stopping = None
================================================================================
