------------------------- MODULE CronScheduler_proofs -------------------------
(***************************************************************************)
(* Safety of the backup scheduler, for any schedules, loops, calls and     *)
(* expressions.                                                            *)
(*                                                                         *)
(* After the types, Locked says what s.mu protects and Clocks that nobody  *)
(* is ahead of the clock.  Dues, on top of them, orders the due times of a *)
(* schedule: those replaced lie before the one its row has and before the  *)
(* one a poll works on.                                                    *)
(***************************************************************************)
EXTENDS CronScheduler, TLAPS

LEMMA Bounds == Horizon \in Nat \ {0} /\ MaxReboots \in Nat
BY CronSchedulerAssumption DEF CronSchedulerAssumption

LEMMA Disjoint ==
    /\ Loops \cap Triggers = {} /\ Editors \cap Runners = {}
    /\ None \notin Schedules /\ None \notin Procs /\ None \notin Crons /\ None \notin Nat
    /\ None \notin Rows /\ None # Gone /\ Gone \notin Rows
BY CronSchedulerAssumption DEF CronSchedulerAssumption

\* What Next answers: Zero always or never, and otherwise a later time that grows.
LEMMA NextMatches ==
    ASSUME NEW c \in Parsable, NEW t \in Times
    PROVE  /\ c \in Crons /\ NextMatch[c][t] \in Nat
           /\ NextMatch[c][t] = Zero \/ NextMatch[c][t] > t
           /\ \A u \in Times : /\ NextMatch[c][t] = Zero <=> NextMatch[c][u] = Zero
                               /\ t <= u => NextMatch[c][t] <= NextMatch[c][u]
BY CronSchedulerAssumption DEF CronSchedulerAssumption

\* The fields of a row.
LEMMA RowFields ==
    /\ \A r \in Rows : r.cron \in Crons /\ r.on \in BOOLEAN /\ r.next \in NextRun
    /\ \A c \in Crons, on \in BOOLEAN, n \in NextRun : [cron |-> c, on |-> on, next |-> n] \in Rows
    /\ \A r \in Rows, n \in NextRun : [r EXCEPT !.next = n] \in Rows
    /\ \A r \in Rows, n \in NextRun :
          /\ [r EXCEPT !.next = n].next = n
          /\ [r EXCEPT !.next = n].cron = r.cron /\ [r EXCEPT !.next = n].on = r.on
BY DEF Rows

\* The types hold in every reachable state.
LEMMA TypedInit == Init => TypeOK
<1> SUFFICES ASSUME Init PROVE TypeOK
    OBVIOUS
<1> USE DEF Init
<1>1. clock \in Times /\ reboots \in 0..MaxReboots
    BY Bounds DEF Times
<1>2. /\ tick \in [Loops -> Times \cup {Zero}] /\ now \in [Runners -> Times \cup {Zero}]
      /\ row \in [Schedules -> Rows \cup {None, Gone}]
      /\ job \in [Procs -> Schedules \cup {None}]
    OBVIOUS
<1>3. seen \in [Procs -> [Schedules -> Rows \cup {None}]]
    OBVIOUS
<1>4. /\ pc \in [Procs -> Steps] /\ \A p \in Procs : pc[p] = "none"
    BY DEF Steps
<1>5. \A s \in Schedules : attempted[s] = {} /\ replaced[s] = {} /\ recorded[s] = {}
    OBVIOUS
<1> QED
    BY <1>1, <1>2, <1>3, <1>4, <1>5 DEF TypeOK, Procs, Polling

\* What becomes of the rows read when one of them is set.
LEMMA SeenSet ==
    ASSUME TypeOK, NEW p \in Procs, NEW s \in Schedules, NEW v \in Rows \cup {None},
           seen' = [seen EXCEPT ![p][s] = v]
    PROVE  /\ seen' \in [Procs -> [Schedules -> Rows \cup {None}]]
           /\ seen'[p][s] = v
           /\ \A q \in Procs, u \in Schedules : q # p \/ u # s => seen'[q][u] = seen[q][u]
BY DEF TypeOK

\* The two outcomes of BeginJob.
LEMMA BeginJobCases ==
    ASSUME NEW r \in Runners, NEW s \in Schedules, BeginJob(r, s)
    PROVE  /\ pc[r] = "jobs" /\ seen[r][s] # None
           /\ UNCHANGED <<lifeVars, pollVars, rowVars, logVars, timeVars, procVars>>
           /\ \/ /\ seen[r][s].cron \in Parsable
                 /\ job' = [job EXCEPT ![r] = s]
                 /\ pc' = [pc EXCEPT ![r] = "stream"]
                 /\ UNCHANGED seen
              \/ /\ seen[r][s].cron \notin Parsable
                 /\ seen' = [seen EXCEPT ![r][s] = None]
                 /\ UNCHANGED <<job, pc>>
BY DEF BeginJob, IsFirst, goto

LEMMA TypedNext == TypeOK /\ [Next]_vars => TypeOK'
<1> SUFFICES ASSUME TypeOK, [Next]_vars PROVE TypeOK'
    OBVIOUS
<1> USE DEF TypeOK, goto, endPoll, lifeVars, pollVars, rowVars, logVars, timeVars, procVars,
            Polling, Steps
<1>0. /\ Runners \subseteq Procs /\ Loops \subseteq Runners /\ Triggers \subseteq Runners
      /\ Editors \subseteq Procs /\ Editors \cap Runners = {}
      /\ \A p \in Procs : p \in Runners \/ p \in Editors
    BY Disjoint DEF Procs, Runners
<1>1. ASSUME NEW l \in Loops, Start(l) PROVE TypeOK'
    BY <1>0, <1>1 DEF Start
<1>2. CASE StopBegin
    BY <1>2 DEF StopBegin
<1>3. CASE StopReturn
    BY <1>3 DEF StopReturn
<1>4. ASSUME NEW l \in Loops, LoopTick(l) PROVE TypeOK'
    BY <1>0, <1>4 DEF LoopTick
<1>5. ASSUME NEW l \in Loops, LoopExit(l) PROVE TypeOK'
    BY <1>0, <1>5 DEF LoopExit
<1>6. ASSUME NEW l \in Loops, LoopClear(l) PROVE TypeOK'
    BY <1>0, <1>6 DEF LoopClear
<1>7. ASSUME NEW t \in Triggers, Trigger(t) PROVE TypeOK'
    BY <1>0, <1>7 DEF Trigger
<1>8. ASSUME NEW r \in Runners, ListDue(r) PROVE TypeOK'
    <2>1. seen' \in [Procs -> [Schedules -> Rows \cup {None}]]
        <3>1. [s \in Schedules |-> IF IsDue(row[s], now[r]) THEN row[s] ELSE None]
                 \in [Schedules -> Rows \cup {None}]
            BY DEF IsDue
        <3> QED
            BY <1>8, <3>1 DEF ListDue
    <2>2. /\ \A p \in Procs \ {r} : pc'[p] = pc[p] /\ seen'[p] = seen[p] /\ job' = job
          /\ pc'[r] \in {"jobs", "select", "done"} /\ pc' \in [Procs -> Steps]
          /\ \A q \in Runners \ {r} : now'[q] = now[q]
          /\ pc'[r] = "jobs" => now'[r] = now[r] /\ now[r] \in Times
          /\ now' \in [Runners -> Times \cup {Zero}] /\ mu' \in Runners \cup {None}
        BY ZenonT(60), <1>0, <1>8 DEF ListDue
    <2> QED
        BY <1>0, <1>8, <2>1, <2>2 DEF ListDue
<1>9. ASSUME NEW r \in Runners, NEW s \in Schedules, BeginJob(r, s) PROVE TypeOK'
    <2>1. /\ pc[r] = "jobs" /\ seen[r][s] \in Rows /\ r \in Procs
          /\ UNCHANGED <<lifeVars, pollVars, rowVars, logVars, timeVars, procVars>>
        BY <1>0, <1>9, BeginJobCases
    <2>2. CASE seen[r][s].cron \in Parsable
        <3>1. job' = [job EXCEPT ![r] = s] /\ pc' = [pc EXCEPT ![r] = "stream"] /\ seen' = seen
            BY <1>9, <2>2, BeginJobCases
        <3>2. /\ pc' \in [Procs -> Steps] /\ job' \in [Procs -> Schedules \cup {None}]
              /\ pc'[r] = "stream" /\ job'[r] = s
              /\ \A p \in Procs \ {r} : pc'[p] = pc[p] /\ job'[p] = job[p]
            BY <2>1, <3>1
        <3> QED
            BY <1>0, <2>1, <2>2, <3>1, <3>2
    <2>3. CASE seen[r][s].cron \notin Parsable
        <3>1. seen' = [seen EXCEPT ![r][s] = None] /\ UNCHANGED <<job, pc>>
            BY <1>9, <2>3, BeginJobCases
        <3>2. /\ seen' \in [Procs -> [Schedules -> Rows \cup {None}]]
              /\ \A q \in Procs \ {r} : seen'[q] = seen[q]
            BY <2>1, <3>1
        <3> QED
            BY <1>0, <2>1, <3>1, <3>2
    <2> QED
        BY <2>2, <2>3
<1>10. ASSUME NEW r \in Runners, StreamBackup(r) PROVE TypeOK'
    BY <1>0, <1>10, RowFields DEF StreamBackup, DueTime
<1>11. ASSUME NEW r \in Runners, UpdateRunTimes(r) PROVE TypeOK'
    <2>1. /\ job[r] \in Schedules /\ seen[r][job[r]] \in Rows /\ now[r] \in Times
          /\ pc' \in [Procs -> Steps] /\ pc'[r] = "record"
          /\ \A p \in Procs \ {r} : pc'[p] = pc[p]
        BY <1>0, <1>11 DEF UpdateRunTimes
    <2>2. row' \in [Schedules -> Rows \cup {None, Gone}]
        BY <1>0, <1>11, <2>1, RowFields, NextMatches DEF UpdateRunTimes, NextRun
    <2>3. /\ replaced' \in [Schedules -> SUBSET NextRun] /\ raced' \subseteq Schedules
        BY <1>11, <2>1, RowFields DEF UpdateRunTimes
    <2> QED
        BY <1>0, <1>11, <2>1, <2>2, <2>3 DEF UpdateRunTimes
<1>12. ASSUME NEW r \in Runners, RecordExecution(r) PROVE TypeOK'
    <2>1. job[r] \in Schedules /\ seen[r][job[r]] \in Rows /\ now[r] \in Times
        BY <1>0, <1>12 DEF RecordExecution
    <2>2. recorded' \in [Schedules -> SUBSET NextRun] /\ lost' \subseteq Schedules
        <3>1. DueTime(r) \in NextRun
            BY <2>1, RowFields DEF DueTime
        <3> QED
            BY <1>12, <2>1, <3>1 DEF RecordExecution
    <2>3. /\ seen' \in [Procs -> [Schedules -> Rows \cup {None}]]
          /\ \A p \in Procs \ {r} : seen'[p] = seen[p]
        BY <1>0, <1>12, <2>1 DEF RecordExecution
    <2>4. /\ pc' \in [Procs -> Steps] /\ pc'[r] = "jobs"
          /\ job' \in [Procs -> Schedules \cup {None}]
          /\ \A p \in Procs \ {r} : pc'[p] = pc[p] /\ job'[p] = job[p]
        BY <1>0, <1>12 DEF RecordExecution
    <2> QED
        BY <1>0, <1>12, <2>1, <2>2, <2>3, <2>4 DEF RecordExecution
<1>13. ASSUME NEW r \in Runners, EndPoll(r) PROVE TypeOK'
    BY <1>0, <1>13 DEF EndPoll
<1>14. ASSUME NEW s \in Schedules, NEW c \in Crons, NEW on \in BOOLEAN, Create(s, c, on)
       PROVE TypeOK'
    BY <1>14, RowFields, NextMatches DEF Create, NextRun
<1>15. ASSUME NEW e \in Editors, NEW s \in Schedules, EditRead(e, s) PROVE TypeOK'
    BY <1>0, <1>15 DEF EditRead
<1>16. ASSUME NEW e \in Editors, NEW s \in Schedules, Delete(e, s) PROVE TypeOK'
    BY <1>0, <1>16 DEF Delete
<1>17. ASSUME NEW e \in Editors, NEW c \in Crons \cup {None}, NEW on \in BOOLEAN,
              EditWrite(e, c, on)
       PROVE TypeOK'
    <2>1. job[e] \in Schedules /\ seen[e][job[e]] \in Rows
        BY <1>0, <1>17 DEF EditWrite
    <2>2. /\ row' \in [Schedules -> Rows \cup {None, Gone}] /\ raced' \subseteq Schedules
        BY <1>17, <2>1, RowFields, NextMatches DEF EditWrite, NextRun
    <2> QED
        BY <1>0, <1>17, <2>1, <2>2, SeenSet DEF EditWrite
<1>18. CASE ClockTick
    BY <1>18, Bounds DEF ClockTick, Times
<1>19. CASE ContextEnds
    BY <1>19 DEF ContextEnds
<1>20. CASE Reboot
    <2>1. /\ pc' \in [Procs -> Steps] /\ reboots' \in 0..MaxReboots
          /\ \A p \in Procs : pc'[p] \in {"none", "done"}
        BY <1>20, Bounds DEF Reboot
    <2>2. seen' \in [Procs -> [Schedules -> Rows \cup {None}]]
        BY <1>20 DEF Reboot
    <2>3. lost' \subseteq Schedules
        BY <1>0, <1>20 DEF Reboot
    <2> QED
        BY <1>0, <1>20, <2>1, <2>2, <2>3 DEF Reboot
<1>21. CASE UNCHANGED vars
    BY <1>21 DEF vars
<1> QED
    BY <1>1, <1>2, <1>3, <1>4, <1>5, <1>6, <1>7, <1>8, <1>9, <1>10, <1>11, <1>12, <1>13, <1>14,
       <1>15, <1>16, <1>17, <1>18, <1>19, <1>20, <1>21 DEF Next, Loop, Poll, Api

(* Every variable of the scheduler keeps its type, and a process works only on a schedule it     *)
(* has read.                                                                                     *)
THEOREM TypeCorrect == SafetySpec => []TypeOK
<1>1. Init => TypeOK
    BY TypedInit
<1>2. TypeOK /\ [Next]_vars => TypeOK'
    BY TypedNext
<1> QED
    BY <1>1, <1>2, PTL DEF SafetySpec
--------------------------------------------------------------------------------
(* A loop that still polls can be stopped, unless an earlier loop cleared the running flag.      *)
THEOREM LiveLoopIsOwnedHolds == SafetySpec => []LiveLoopIsOwned
<1>1. Init => LiveLoopIsOwned
    BY DEF Init, LiveLoopIsOwned, Live, Procs, Runners
<1>2. TypeOK /\ LiveLoopIsOwned /\ [Next]_vars => LiveLoopIsOwned'
    <2> SUFFICES ASSUME TypeOK, LiveLoopIsOwned, [Next]_vars PROVE LiveLoopIsOwned'
        OBVIOUS
    <2>0. /\ Runners \subseteq Procs /\ Loops \subseteq Runners /\ Triggers \cap Loops = {}
          /\ Loops \cap Editors = {} /\ pc \in [Procs -> Steps] /\ None \notin Loops
        BY Disjoint DEF Procs, Runners, TypeOK
    <2> DEFINE Frame == /\ UNCHANGED lifeVars
                        /\ \A l \in Loops : Live(l)' => Live(l)
    <2>1. Frame => LiveLoopIsOwned'
        BY DEF LiveLoopIsOwned, lifeVars
    <2>2. ASSUME NEW l \in Loops, Start(l) PROVE LiveLoopIsOwned'
        BY <2>0, <2>2 DEF Start, goto, LiveLoopIsOwned, Live
    <2>3. CASE StopBegin
        BY <2>3 DEF StopBegin, LiveLoopIsOwned, Live
    <2>4. CASE StopReturn
        BY <2>4 DEF StopReturn, LiveLoopIsOwned, Live
    <2>5. ASSUME NEW l \in Loops, LoopClear(l) PROVE LiveLoopIsOwned'
        BY <2>0, <2>5 DEF LoopClear, goto, LiveLoopIsOwned, Live
    <2>6. ASSUME NEW l \in Loops, LoopTick(l) \/ LoopExit(l) PROVE Frame
        BY <2>0, <2>6 DEF LoopTick, LoopExit, goto, Live
    <2>7. ASSUME NEW t \in Triggers, Trigger(t) PROVE Frame
        BY <2>0, <2>7 DEF Trigger, goto, Live
    <2>8. ASSUME NEW r \in Runners, ListDue(r) PROVE Frame
        BY <2>0, <2>8 DEF ListDue, endPoll, goto, Live
    <2>9. ASSUME NEW r \in Runners, NEW s \in Schedules, BeginJob(r, s) PROVE Frame
        BY <2>0, <2>9, BeginJobCases DEF Live
    <2>10. ASSUME NEW r \in Runners, StreamBackup(r) \/ UpdateRunTimes(r) \/ RecordExecution(r)
           PROVE Frame
        BY <2>0, <2>10 DEF StreamBackup, UpdateRunTimes, RecordExecution, goto, Live
    <2>11. ASSUME NEW r \in Runners, EndPoll(r) PROVE Frame
        BY <2>0, <2>11 DEF EndPoll, endPoll, goto, Live
    <2>12. ASSUME NEW e \in Editors, NEW s \in Schedules, EditRead(e, s) \/ Delete(e, s)
           PROVE Frame
        BY <2>0, <2>12 DEF EditRead, Delete, goto, Live
    <2>13. ASSUME NEW e \in Editors, NEW c \in Crons \cup {None}, NEW on \in BOOLEAN,
                  EditWrite(e, c, on)
           PROVE Frame
        BY <2>0, <2>13 DEF EditWrite, goto, Live
    <2>14. ASSUME NEW s \in Schedules, NEW c \in Crons, NEW on \in BOOLEAN, Create(s, c, on)
           PROVE Frame
        BY <2>14 DEF Create, Live
    <2>15. CASE ClockTick \/ ContextEnds
        BY <2>15, <2>1 DEF ClockTick, ContextEnds, Live
    <2>16. CASE Reboot
        BY <2>0, <2>16 DEF Reboot, LiveLoopIsOwned, Live
    <2>17. CASE UNCHANGED vars
        BY <2>17, <2>1 DEF vars, lifeVars, Live
    <2> QED
        BY <2>1, <2>2, <2>3, <2>4, <2>5, <2>6, <2>7, <2>8, <2>9, <2>10, <2>11, <2>12, <2>13,
           <2>14, <2>15, <2>16, <2>17 DEF Next, Loop, Poll, Api
<1> QED
    BY <1>1, <1>2, TypeCorrect, PTL DEF SafetySpec
--------------------------------------------------------------------------------
(* What s.mu protects, and that no poll is ahead of the clock. *)
Locked == \A r \in Runners : pc[r] \in Polling => mu = r
Clocks == (\A l \in Loops : tick[l] <= clock) /\ (\A r \in Runners : now[r] <= clock)

\* A step that neither takes part in a poll nor touches what polls and the API work on.
Quiet ==
    /\ UNCHANGED <<clock, mu, row, replaced, raced, seen, job, attempted, recorded, lost>>
    /\ \A r \in Runners : pc[r] \in Polling \/ pc'[r] \in Polling =>
          pc'[r] = pc[r] /\ now'[r] = now[r]

Others ==
    \/ StopBegin \/ StopReturn \/ ContextEnds \/ UNCHANGED vars
    \/ \E l \in Loops : Start(l) \/ LoopTick(l) \/ LoopExit(l) \/ LoopClear(l)
    \/ \E t \in Triggers : Trigger(t)

LEMMA OthersAreQuiet == TypeOK /\ Others => Quiet
<1> SUFFICES ASSUME TypeOK, Others PROVE Quiet
    OBVIOUS
<1>0. /\ Runners \subseteq Procs /\ Loops \subseteq Runners /\ Triggers \subseteq Runners
      /\ pc \in [Procs -> Steps] /\ now \in [Runners -> Times \cup {Zero}]
    BY DEF Procs, Runners, TypeOK
<1> USE DEF Quiet, rowVars, logVars, pollVars, timeVars, procVars
<1>1. CASE StopBegin \/ StopReturn \/ ContextEnds \/ UNCHANGED vars
    BY <1>1 DEF StopBegin, StopReturn, ContextEnds, vars
<1>2. ASSUME NEW l \in Loops, Start(l) \/ LoopExit(l) \/ LoopClear(l) PROVE Quiet
    BY <1>0, <1>2 DEF Start, LoopExit, LoopClear, goto, Polling
<1>3. ASSUME NEW l \in Loops, LoopTick(l) PROVE Quiet
    BY <1>0, <1>3 DEF LoopTick, goto, Polling
<1>4. ASSUME NEW t \in Triggers, Trigger(t) PROVE Quiet
    BY <1>0, <1>4 DEF Trigger, goto, Polling
<1> QED
    BY <1>1, <1>2, <1>3, <1>4 DEF Others

LEMMA LockedInit == Init => Locked /\ Clocks
BY DEF Init, Locked, Clocks, Polling, Zero, Procs, Runners

LEMMA LockedNext == TypeOK /\ Locked /\ Clocks /\ [Next]_vars => Locked' /\ Clocks'
<1> SUFFICES ASSUME TypeOK, Locked, Clocks, [Next]_vars PROVE Locked' /\ Clocks'
    OBVIOUS
<1>0. /\ Runners \subseteq Procs /\ Loops \subseteq Runners /\ Triggers \subseteq Runners
      /\ Editors \cap Runners = {} /\ Editors \subseteq Procs /\ None \notin Procs
      /\ pc \in [Procs -> Steps] /\ now \in [Runners -> Times \cup {Zero}]
      /\ tick \in [Loops -> Times \cup {Zero}] /\ clock \in Nat \ {0} /\ Zero = 0
      /\ Times \subseteq Nat /\ Horizon \in Nat
    BY Disjoint, Bounds DEF Procs, Runners, TypeOK, Times, Zero
<1> USE DEF Locked, Clocks, Polling, goto, endPoll, pollVars, timeVars
<1>1. ASSUME NEW l \in Loops, Start(l) \/ LoopExit(l) \/ LoopClear(l) \/ LoopTick(l)
      PROVE Locked' /\ Clocks'
    BY <1>0, <1>1 DEF Start, LoopExit, LoopClear, LoopTick
<1>2. ASSUME NEW t \in Triggers, Trigger(t) PROVE Locked' /\ Clocks'
    BY <1>0, <1>2 DEF Trigger
<1>3. ASSUME NEW r \in Runners, ListDue(r) PROVE Locked' /\ Clocks'
    BY <1>0, <1>3 DEF ListDue
<1>4. ASSUME NEW r \in Runners, NEW s \in Schedules, BeginJob(r, s) PROVE Locked' /\ Clocks'
    BY <1>0, <1>4, BeginJobCases
<1>5. ASSUME NEW r \in Runners, StreamBackup(r) \/ UpdateRunTimes(r) \/ RecordExecution(r)
      PROVE Locked' /\ Clocks'
    BY <1>0, <1>5 DEF StreamBackup, UpdateRunTimes, RecordExecution
<1>6. ASSUME NEW r \in Runners, EndPoll(r) PROVE Locked' /\ Clocks'
    BY <1>0, <1>6 DEF EndPoll
<1>7. ASSUME NEW e \in Editors, NEW s \in Schedules, EditRead(e, s) \/ Delete(e, s)
      PROVE Locked' /\ Clocks'
    BY <1>0, <1>7 DEF EditRead, Delete
<1>8. ASSUME NEW e \in Editors, NEW c \in Crons \cup {None}, NEW on \in BOOLEAN,
             EditWrite(e, c, on)
      PROVE Locked' /\ Clocks'
    BY <1>0, <1>8 DEF EditWrite
<1>9. ASSUME NEW s \in Schedules, NEW c \in Crons, NEW on \in BOOLEAN, Create(s, c, on)
      PROVE Locked' /\ Clocks'
    BY <1>9 DEF Create
<1>10. CASE ClockTick
    <2>1. clock' \in Nat /\ clock <= clock'
        BY <1>0, <1>10 DEF ClockTick
    <2>2. \A l \in Loops : tick'[l] = tick[l] \/ tick'[l] = clock'
        BY <1>10 DEF ClockTick
    <2>3. UNCHANGED <<pc, now, mu>>
        BY <1>10 DEF ClockTick
    <2>4. (\A l \in Loops : tick[l] \in Nat) /\ (\A r \in Runners : now[r] \in Nat)
        BY Bounds DEF TypeOK, Times, Zero
    <2>5. \A l \in Loops : tick'[l] <= clock'
        BY <1>0, <2>1, <2>2, <2>4
    <2>6. \A r \in Runners : now'[r] <= clock'
        BY <1>0, <2>1, <2>3, <2>4
    <2> QED
        BY <2>3, <2>5, <2>6
<1>11. CASE Reboot
    BY <1>0, <1>11 DEF Reboot
<1>12. CASE StopBegin \/ StopReturn \/ ContextEnds \/ UNCHANGED vars
    BY <1>12 DEF StopBegin, StopReturn, ContextEnds, vars
<1> QED
    BY <1>1, <1>2, <1>3, <1>4, <1>5, <1>6, <1>7, <1>8, <1>9, <1>10, <1>11, <1>12
       DEF Next, Loop, Poll, Api
--------------------------------------------------------------------------------
(* The due times of a schedule whose next_run_at never came from a stale row: those replaced     *)
(* are past and before the row's; the row's is no later than the next match of its expression;   *)
(* the one a poll works on has come and was not replaced.                                        *)
Real(d)  == d \in Nat \ {Zero}
Past(s)  == \A d \in replaced[s] : Real(d) => d <= clock
Ahead(s) == row[s] \in Rows /\ Real(row[s].next) =>
               \A d \in replaced[s] : Real(d) => d < row[s].next
Follows(s) ==
    row[s] \in Rows /\ row[s].cron \in Parsable /\ NextMatch[row[s].cron][clock] # Zero =>
        Real(row[s].next) /\ row[s].next <= NextMatch[row[s].cron][clock]
Working(r, s) == /\ pc[r] \in Polling /\ seen[r][s] # None
                 /\ ~(pc[r] = "record" /\ job[r] = s)
Serves(r, s) == Working(r, s) /\ Real(seen[r][s].next) =>
                   /\ seen[r][s].next <= now[r]
                   /\ \A d \in replaced[s] : Real(d) => d < seen[r][s].next
Dues == \A s \in Schedules \ raced :
           Past(s) /\ Ahead(s) /\ Follows(s) /\ \A r \in Runners : Serves(r, s)

LEMMA DuesInit == Init => Dues
<1> SUFFICES ASSUME Init, NEW s \in Schedules
             PROVE  Past(s) /\ Ahead(s) /\ Follows(s) /\ \A r \in Runners : Serves(r, s)
    BY DEF Dues
<1>1. replaced[s] = {} /\ row[s] = None /\ \A r \in Runners : pc[r] = "none"
    BY DEF Init, Procs, Runners
<1> QED
    BY <1>1, Disjoint DEF Past, Ahead, Follows, Serves, Working, Polling

LEMMA Bound == TypeOK => clock \in Times /\ clock \in Nat /\ Runners \subseteq Procs
BY Bounds DEF TypeOK, Times, Procs, Runners

LEMMA DuesQuiet == Dues /\ Quiet => Dues'
BY DEF Quiet, Dues, Past, Ahead, Follows, Serves, Working

LEMMA DuesListDue ==
    ASSUME TypeOK, Locked, Dues, NEW r \in Runners, ListDue(r) PROVE Dues'
<1> SUFFICES ASSUME NEW s \in Schedules \ raced, NEW q \in Runners
             PROVE  Past(s)' /\ Ahead(s)' /\ Follows(s)' /\ Serves(q, s)'
    BY DEF Dues, ListDue, rowVars
<1>0. /\ Runners \subseteq Procs /\ pc \in [Procs -> Steps] /\ now \in [Runners -> Times \cup {Zero}]
      /\ seen \in [Procs -> [Schedules -> Rows \cup {None}]]
    BY DEF TypeOK, Procs, Runners
<1>1. Past(s)' /\ Ahead(s)' /\ Follows(s)'
    BY DEF Dues, ListDue, rowVars, timeVars, Past, Ahead, Follows
<1>2. CASE alive
    <2>1. /\ pc' = [pc EXCEPT ![r] = "jobs"] /\ now' = now /\ replaced' = replaced /\ job' = job
          /\ seen' = [seen EXCEPT ![r] = [u \in Schedules |->
                         IF IsDue(row[u], now[r]) THEN row[u] ELSE None]]
        BY <1>2 DEF ListDue, goto, rowVars
    <2>2. CASE q = r
        <3>1. seen'[r][s] = IF IsDue(row[s], now[r]) THEN row[s] ELSE None
            BY <1>0, <2>1
        <3>2. Ahead(s)
            BY DEF Dues
        <3>3. CASE IsDue(row[s], now[r])
            <4>1. /\ row[s] \in Rows /\ seen'[q][s] = row[s] /\ now'[q] = now[r]
                  /\ Real(row[s].next) => row[s].next <= now[r]
                BY <2>1, <2>2, <3>1, <3>3, Disjoint DEF IsDue, Real
            <4> QED
                BY <1>1, <2>1, <3>2, <4>1 DEF Ahead, Serves
        <3>4. CASE ~IsDue(row[s], now[r])
            BY <1>1, <2>2, <3>1, <3>4 DEF Serves, Working
        <3> QED
            BY <3>3, <3>4
    <2>3. CASE q # r
        <3>1. Serves(q, s)
            BY DEF Dues
        <3>2. seen'[q] = seen[q] /\ pc'[q] = pc[q]
            BY <1>0, <2>1, <2>3
        <3> QED
            BY <1>1, <2>1, <3>1, <3>2 DEF Serves, Working
    <2> QED
        BY <1>1, <2>2, <2>3
<1>3. CASE ~alive
    <2>1. /\ pc' = [pc EXCEPT ![r] = IF r \in Loops THEN "select" ELSE "done"]
          /\ now' = [now EXCEPT ![r] = Zero] /\ UNCHANGED <<seen, replaced, job>>
        BY <1>3 DEF ListDue, goto, endPoll, rowVars
    <2>2. pc'[r] \notin Polling
        BY <1>0, <2>1 DEF Polling
    <2> QED
        BY <1>0, <1>1, <2>1, <2>2 DEF Dues, Serves, Working
<1> QED
    BY <1>2, <1>3

LEMMA DuesJob ==
    ASSUME TypeOK, Locked, Dues, NEW r \in Runners,
           \/ \E u \in Schedules : BeginJob(r, u)
           \/ StreamBackup(r) \/ RecordExecution(r) \/ EndPoll(r)
    PROVE  Dues'
<1>0. /\ Runners \subseteq Procs /\ pc \in [Procs -> Steps] /\ job \in [Procs -> Schedules \cup {None}]
      /\ seen \in [Procs -> [Schedules -> Rows \cup {None}]]
      /\ now \in [Runners -> Times \cup {Zero}]
    BY DEF TypeOK, Procs, Runners
<1> USE DEF rowVars, timeVars, pollVars
<1>1. UNCHANGED <<row, replaced, raced, clock>>
    BY BeginJobCases DEF StreamBackup, RecordExecution, EndPoll
<1> DEFINE Kept ==
        \A q \in Runners, s \in Schedules :
            Working(q, s)' => Working(q, s) /\ seen'[q][s] = seen[q][s] /\ now'[q] = now[q]
<1>2. Kept
    <2>1. ASSUME NEW u \in Schedules, BeginJob(r, u) PROVE Kept
        BY SMTT(30), <1>0, <2>1, BeginJobCases DEF Working, Polling
    <2>2. CASE StreamBackup(r)
        BY <1>0, <2>2 DEF StreamBackup, goto, Working, Polling
    <2>3. CASE RecordExecution(r)
        <3>1. job[r] \in Schedules
            BY <1>0, <2>3 DEF RecordExecution, TypeOK
        <3> QED
            BY <1>0, <2>3, <3>1 DEF RecordExecution, goto, Working, Polling
    <2>4. CASE EndPoll(r)
        BY <1>0, <2>4 DEF EndPoll, goto, endPoll, Working, Polling
    <2> QED
        BY <2>1, <2>2, <2>3, <2>4
<1> QED
    BY <1>1, <1>2 DEF Dues, Past, Ahead, Follows, Serves

\* The step that moves a schedule on: the row is the one that was listed, or the schedule races.
LEMMA DuesUpdate ==
    ASSUME TypeOK, Locked, Clocks, Dues, NEW r \in Runners, UpdateRunTimes(r) PROVE Dues'
<1> DEFINE u == job[r]
           n == NextMatch[seen[r][u].cron][now[r]]
<1>0. /\ Runners \subseteq Procs /\ pc \in [Procs -> Steps]
      /\ u \in Schedules /\ seen[r][u] \in Rows /\ now[r] \in Times /\ clock \in Times
      /\ seen[r][u].cron \in Parsable /\ pc[r] = "update" /\ now[r] <= clock
      /\ row \in [Schedules -> Rows \cup {None, Gone}]
      /\ replaced \in [Schedules -> SUBSET NextRun]
    BY DEF TypeOK, Procs, Runners, UpdateRunTimes, Polling, Clocks
<1>1. /\ clock' = clock /\ now' = now /\ seen' = seen /\ job' = job
      /\ pc' = [pc EXCEPT ![r] = "record"]
    BY DEF UpdateRunTimes, timeVars, pollVars, goto
<1>2. \A q \in Runners, s \in Schedules : Working(q, s)' => q = r /\ s # u /\ Working(r, s)
    BY <1>0, <1>1, Disjoint DEF Working, Polling, Locked
<1>3. CASE ~(alive /\ row[u] \in Rows)
    <2>1. UNCHANGED <<row, replaced, raced>>
        BY <1>3 DEF UpdateRunTimes, rowVars
    <2> QED
        BY <1>1, <1>2, <2>1 DEF Dues, Past, Ahead, Follows, Serves
<1>4. CASE alive /\ row[u] \in Rows
    <2>1. /\ row' = [row EXCEPT ![u].next = n]
          /\ replaced' = [replaced EXCEPT ![u] = @ \cup {row[u].next}]
          /\ raced' = IF row[u].next # seen[r][u].next \/ row[u].cron # seen[r][u].cron
                      THEN raced \cup {u} ELSE raced
        BY <1>4 DEF UpdateRunTimes
    <2>2. ASSUME NEW s \in Schedules \ raced', s # u
          PROVE  Past(s)' /\ Ahead(s)' /\ Follows(s)' /\ \A q \in Runners : Serves(q, s)'
        <3>1. row'[s] = row[s] /\ replaced'[s] = replaced[s] /\ s \notin raced
            BY <1>0, <2>1, <2>2
        <3> QED
            BY <1>1, <1>2, <2>2, <3>1 DEF Dues, Past, Ahead, Follows, Serves
    <2>3. ASSUME u \notin raced'
          PROVE  Past(u)' /\ Ahead(u)' /\ Follows(u)' /\ \A q \in Runners : Serves(q, u)'
        <3>1. /\ row[u].next = seen[r][u].next /\ row[u].cron = seen[r][u].cron /\ u \notin raced
              /\ row'[u] = [row[u] EXCEPT !.next = n]
              /\ replaced'[u] = replaced[u] \cup {row[u].next}
            BY <1>0, <2>1, <2>3
        <3>2. /\ Past(u) /\ Ahead(u) /\ Follows(u) /\ Serves(r, u)
              /\ Working(r, u)
            BY <1>0, <3>1, Disjoint DEF Dues, Working, Polling
        <3>3. /\ row'[u] \in Rows /\ row'[u].next = n /\ row'[u].cron = row[u].cron
              /\ n \in Nat /\ (n = Zero \/ n > now[r])
            BY SMTT(30), <1>0, <1>4, <3>1, RowFields, NextMatches DEF NextRun
        <3>4. Real(row[u].next) => row[u].next <= now[r]
            BY <3>1, <3>2 DEF Serves
        <3>5. Past(u)'
            BY <1>0, <1>1, <3>1, <3>2, <3>4, Bound DEF Past, Real, Times
        <3>6. Ahead(u)'
            <4>1. SUFFICES ASSUME Real(n), NEW d \in replaced'[u], Real(d) PROVE d < n
                BY <1>1, <3>3 DEF Ahead
            <4>2. Real(row[u].next)
                <5>1. NextMatch[row[u].cron][clock] # Zero
                    BY <1>0, <3>1, <4>1, NextMatches DEF Real
                <5> QED
                    BY <1>0, <1>4, <3>1, <3>2, <5>1 DEF Follows
            <4>3. d = row[u].next \/ d < row[u].next
                BY <1>4, <3>1, <3>2, <4>1, <4>2 DEF Ahead
            <4> QED
                BY SMTT(30), <1>0, <3>3, <3>4, <4>1, <4>2, <4>3, Bounds DEF Real, Times
        <3>7. Follows(u)'
            <4>1. SUFFICES ASSUME NextMatch[row[u].cron][clock] # Zero
                           PROVE  Real(n) /\ n <= NextMatch[row[u].cron][clock]
                BY <1>1, <3>3 DEF Follows
            <4> QED
                BY SMTT(30), <1>0, <3>1, <3>3, <4>1, NextMatches DEF Real
        <3>8. \A q \in Runners : ~Working(q, u)'
            BY <1>0, <1>1, <1>2 DEF Working
        <3> QED
            BY <3>5, <3>6, <3>7, <3>8 DEF Serves
    <2> QED
        BY <1>1, <2>2, <2>3 DEF Dues
<1> QED
    BY <1>3, <1>4

LEMMA DuesCreate ==
    ASSUME TypeOK, Dues, NEW u \in Schedules, NEW c \in Crons, NEW on \in BOOLEAN,
           Create(u, c, on)
    PROVE  Dues'
<1> DEFINE matches == c \in Parsable /\ NextMatch[c][clock] # Zero
           n       == IF matches THEN NextMatch[c][clock] ELSE None
<1>1. /\ row' = [row EXCEPT ![u] = [cron |-> c, on |-> on, next |-> n]]
      /\ UNCHANGED <<pc, now, replaced, raced, clock, seen, job>>
    BY DEF Create, pollVars, timeVars
<1>2. row \in [Schedules -> Rows \cup {None, Gone}] /\ clock \in Times /\ clock \in Nat
    BY Bound DEF TypeOK
<1>3. ASSUME NEW s \in Schedules \ raced
      PROVE  /\ Past(s)' /\ \A q \in Runners : Serves(q, s)'
             /\ s # u => Ahead(s)' /\ Follows(s)'
    BY <1>1, <1>2, <1>3 DEF Dues, Past, Ahead, Follows, Serves, Working
<1>4. ASSUME u \notin raced PROVE Ahead(u)' /\ Follows(u)'
    <2>1. row'[u].next = n /\ row'[u].cron = c
        BY <1>1, <1>2
    <2>2. matches => n \in Nat /\ n > clock
        BY <1>2, NextMatches
    <2>3. ~matches => ~Real(n)
        BY Disjoint DEF Real
    <2>4. Past(u)
        BY <1>4 DEF Dues
    <2>5. Ahead(u)'
        BY <1>1, <1>2, <2>1, <2>2, <2>3, <2>4 DEF Ahead, Past, Real
    <2>6. Follows(u)'
        BY <1>1, <1>2, <2>1, <2>2 DEF Follows, Real
    <2> QED
        BY <2>5, <2>6
<1> QED
    BY <1>1, <1>3, <1>4 DEF Dues

LEMMA DuesEdit ==
    ASSUME TypeOK, Dues, NEW e \in Editors, NEW c \in Crons \cup {None}, NEW on \in BOOLEAN,
           EditWrite(e, c, on)
    PROVE  Dues'
<1> DEFINE u     == job[e]
           old   == seen[e][u]
           fresh == c \in Parsable /\ NextMatch[c][clock] # Zero
           new   == [cron |-> IF c = None THEN old.cron ELSE c, on |-> on,
                     next |-> IF fresh THEN NextMatch[c][clock] ELSE old.next]
<1>0. /\ Runners \subseteq Procs /\ Editors \subseteq Procs /\ e \notin Runners
      /\ pc \in [Procs -> Steps] /\ u \in Schedules /\ old \in Rows
      /\ row \in [Schedules -> Rows \cup {None, Gone}] /\ clock \in Times /\ clock \in Nat
      /\ seen \in [Procs -> [Schedules -> Rows \cup {None}]]
      /\ job \in [Procs -> Schedules \cup {None}]
    BY Bound, Disjoint DEF TypeOK, Procs, Runners, EditWrite
<1>1. /\ UNCHANGED <<now, replaced, clock>>
      /\ \A q \in Runners : pc'[q] = pc[q] /\ job'[q] = job[q] /\ seen'[q] = seen[q]
    BY <1>0 DEF EditWrite, pollVars, timeVars, goto
<1>2. ASSUME NEW s \in Schedules \ raced
      PROVE  Past(s)' /\ \A q \in Runners : Serves(q, s)'
    BY <1>1, <1>2 DEF Dues, Past, Serves, Working
<1>3. CASE row[u] \notin Rows
    <2>1. UNCHANGED <<row, raced>>
        BY <1>3 DEF EditWrite
    <2> QED
        BY <1>1, <1>2, <2>1 DEF Dues, Ahead, Follows
<1>4. CASE row[u] \in Rows
    <2>1. /\ row' = [row EXCEPT ![u] = new]
          /\ raced' = IF ~fresh /\ (old.next # row[u].next \/ old.cron # row[u].cron)
                      THEN raced \cup {u} ELSE raced
        BY <1>4 DEF EditWrite
    <2>2. ASSUME NEW s \in Schedules \ raced', s # u PROVE Ahead(s)' /\ Follows(s)'
        <3>1. row'[s] = row[s] /\ s \notin raced
            BY <1>0, <2>1, <2>2
        <3> QED
            BY <1>1, <3>1 DEF Dues, Ahead, Follows
    <2>3. ASSUME NEW s \in Schedules \ raced', s = u PROVE Ahead(s)' /\ Follows(s)'
        <3>1. /\ row'[s] = new /\ s \notin raced
              /\ new.cron = (IF c = None THEN old.cron ELSE c)
              /\ new.next = (IF fresh THEN NextMatch[c][clock] ELSE old.next)
            BY <1>0, <2>1, <2>3
        <3>2. Past(s) /\ Ahead(s) /\ Follows(s)
            BY <3>1 DEF Dues
        <3>3. CASE fresh
            <4>1. /\ NextMatch[c][clock] \in Nat /\ NextMatch[c][clock] > clock
                  /\ row'[s].next = NextMatch[c][clock] /\ row'[s].cron = c
                BY <1>0, <3>1, <3>3, NextMatches, Disjoint
            <4> QED
                BY <1>0, <1>1, <3>2, <4>1 DEF Ahead, Past, Follows, Real
        <3>4. CASE ~fresh
            <4>1. row'[s].next = row[s].next /\ old.cron = row[s].cron
                BY <2>1, <2>3, <3>1, <3>4
            <4>2. Ahead(s)'
                BY <1>1, <1>4, <2>3, <3>2, <4>1 DEF Ahead
            <4>3. Follows(s)'
                BY <1>1, <1>4, <2>3, <3>1, <3>2, <3>4, <4>1 DEF Follows
            <4> QED
                BY <4>2, <4>3
        <3> QED
            BY <3>3, <3>4
    <2>4. raced \subseteq raced'
        BY <2>1
    <2> QED
        BY <1>2, <2>2, <2>3, <2>4 DEF Dues
<1> QED
    BY <1>3, <1>4

LEMMA DuesRest ==
    ASSUME TypeOK, Dues,
           \/ \E e \in Editors, s \in Schedules : EditRead(e, s) \/ Delete(e, s)
           \/ ClockTick \/ Reboot
    PROVE  Dues'
<1>0. /\ Runners \subseteq Procs /\ Editors \subseteq Procs /\ Editors \cap Runners = {}
      /\ pc \in [Procs -> Steps] /\ clock \in Times /\ clock \in Nat
      /\ row \in [Schedules -> Rows \cup {None, Gone}]
      /\ replaced \in [Schedules -> SUBSET NextRun]
      /\ seen \in [Procs -> [Schedules -> Rows \cup {None}]]
      /\ job \in [Procs -> Schedules \cup {None}]
    BY Bound, Disjoint DEF TypeOK, Procs, Runners
<1> USE DEF rowVars, timeVars, pollVars
<1>1. ASSUME NEW e \in Editors, NEW u \in Schedules, EditRead(e, u) PROVE Dues'
    <2>1. /\ UNCHANGED <<row, replaced, raced, clock, now>>
          /\ \A q \in Runners : pc'[q] = pc[q] /\ job'[q] = job[q] /\ seen'[q] = seen[q]
        BY <1>0, <1>1 DEF EditRead, goto
    <2> QED
        BY <2>1 DEF Dues, Past, Ahead, Follows, Serves, Working
<1>2. ASSUME NEW e \in Editors, NEW u \in Schedules, Delete(e, u) PROVE Dues'
    <2>1. /\ UNCHANGED <<replaced, raced, clock, now, seen, job>>
          /\ row'[u] \notin Rows /\ \A s \in Schedules \ {u} : row'[s] = row[s]
          /\ \A q \in Runners : pc'[q] = pc[q]
        BY <1>0, <1>2, Disjoint DEF Delete, goto
    <2> QED
        BY <2>1 DEF Dues, Past, Ahead, Follows, Serves, Working
<1>3. CASE ClockTick
    <2>1. /\ UNCHANGED <<row, replaced, raced, now, seen, job, pc>>
          /\ clock' \in Times /\ clock' \in Nat /\ clock <= clock'
        BY <1>0, <1>3, Bounds DEF ClockTick, Times
    <2>2. ASSUME NEW s \in Schedules \ raced
          PROVE  Past(s)' /\ Ahead(s)' /\ Follows(s)' /\ \A q \in Runners : Serves(q, s)'
        <3>1. Past(s) /\ Ahead(s) /\ Follows(s) /\ \A q \in Runners : Serves(q, s)
            BY DEF Dues
        <3>2. Past(s)'
            BY <1>0, <2>1, <3>1 DEF Past, Real
        <3>3. Follows(s)'
            <4>1. SUFFICES ASSUME row[s] \in Rows, row[s].cron \in Parsable,
                                  NextMatch[row[s].cron][clock'] # Zero
                           PROVE  /\ Real(row[s].next)
                                  /\ row[s].next <= NextMatch[row[s].cron][clock']
                BY <2>1 DEF Follows
            <4> DEFINE c == row[s].cron
            <4>2. /\ NextMatch[c][clock] # Zero /\ NextMatch[c][clock] \in Nat
                  /\ NextMatch[c][clock'] \in Nat /\ NextMatch[c][clock] <= NextMatch[c][clock']
                BY <1>0, <2>1, <4>1, NextMatches
            <4>3. Real(row[s].next) /\ row[s].next <= NextMatch[c][clock]
                BY <3>1, <4>1, <4>2 DEF Follows
            <4> QED
                BY <4>2, <4>3 DEF Real
        <3> QED
            BY <2>1, <3>1, <3>2, <3>3 DEF Ahead, Serves, Working
    <2> QED
        BY <2>1, <2>2 DEF Dues
<1>4. CASE Reboot
    <2>1. /\ UNCHANGED <<row, replaced, raced, clock>>
          /\ \A q \in Runners : pc'[q] \notin Polling
        BY <1>0, <1>4 DEF Reboot, Polling
    <2> QED
        BY <2>1 DEF Dues, Past, Ahead, Follows, Serves, Working
<1> QED
    BY <1>1, <1>2, <1>3, <1>4

LEMMA DuesNext == TypeOK /\ Locked /\ Clocks /\ Dues /\ [Next]_vars => Dues'
<1> SUFFICES ASSUME TypeOK, Locked, Clocks, Dues, [Next]_vars PROVE Dues'
    OBVIOUS
<1>1. CASE Others
    BY <1>1, OthersAreQuiet, DuesQuiet
<1>2. ASSUME NEW r \in Runners, ListDue(r) \/ Poll(r) PROVE Dues'
    BY <1>2, DuesListDue, DuesJob, DuesUpdate DEF Poll
<1>3. CASE Api
    BY <1>3, DuesCreate, DuesEdit, DuesRest DEF Api
<1>4. CASE ClockTick \/ Reboot
    BY <1>4, DuesRest
<1> QED
    BY <1>1, <1>2, <1>3, <1>4 DEF Next, Loop, Others

\* The strengthening the scheduler's safety rests on.
Ordered == TypeOK /\ Locked /\ Clocks /\ Dues

LEMMA OrderedAlways == SafetySpec => []Ordered
<1>1. Init => Ordered
    BY TypedInit, LockedInit, DuesInit DEF Ordered
<1>2. Ordered /\ [Next]_vars => Ordered'
    BY TypedNext, LockedNext, DuesNext DEF Ordered
<1> QED
    BY <1>1, <1>2, PTL DEF SafetySpec

(* No due time is served twice, whichever loop, Trigger or process listed the job: not after a   *)
(* crash between the backup and the update, not when the old loop of a Stop still runs.          *)
THEOREM FiresOnceHolds == SafetySpec => []FiresOnce
<1>1. Ordered => FiresOnce
    <2> SUFFICES ASSUME Ordered, NEW r \in Runners, NEW s \in Schedules \ raced,
                        pc[r] \in {"stream", "update"}, job[r] = s,
                        DueTime(r) \notin {None, Zero}
                 PROVE  DueTime(r) \notin replaced[s]
        BY DEF FiresOnce
    <2>1. seen[r][s] \in Rows /\ Serves(r, s)
        BY DEF Ordered, TypeOK, Dues, Procs
    <2>2. DueTime(r) = seen[r][s].next /\ Real(DueTime(r))
        BY <2>1, RowFields DEF DueTime, Real, NextRun
    <2>3. \A d \in replaced[s] : Real(d) => d < DueTime(r)
        BY <2>1, <2>2, Disjoint DEF Serves, Working, Polling
    <2> QED
        BY <2>2, <2>3 DEF Real
<1> QED
    BY <1>1, OrderedAlways, PTL

(* A schedule never sleeps past the next match of its expression, at any time and across         *)
(* crashes, unless its next run was computed from a stale row.                                   *)
THEOREM NextFollowsCronHolds == SafetySpec => []NextFollowsCron
<1>1. Ordered => NextFollowsCron
    BY Zenon DEF Ordered, Dues, Follows, Real, NextFollowsCron
<1> QED
    BY <1>1, OrderedAlways, PTL
--------------------------------------------------------------------------------
(* What is written about a job, and in which order: it is attempted before its schedule moves    *)
(* on, and recorded after.                                                                       *)
Attempted == \A r \in Runners : pc[r] = "update" => DueTime(r) \in attempted[job[r]]
Logged    == Attempted /\ NoRunLost /\ RunsAreRecorded

\* A step that moves no schedule on, and no job to its update or away from its record.
Aside ==
    /\ UNCHANGED <<replaced, attempted, recorded, lost>> /\ raced \subseteq raced'
    /\ \A r \in Runners : pc[r] = "record" \/ pc'[r] = "update" =>
          pc'[r] = pc[r] /\ job'[r] = job[r] /\ seen'[r] = seen[r]

LEMMA LoggedAside == Logged /\ Aside => Logged'
<1> SUFFICES ASSUME Logged, Aside PROVE Logged'
    OBVIOUS
<1>1. Attempted'
    BY DEF Logged, Aside, Attempted, DueTime
<1>2. NoRunLost'
    BY DEF Logged, Aside, NoRunLost
<1>3. RunsAreRecorded'
    <2> SUFFICES ASSUME NEW s \in Schedules \ (raced \cup lost), NEW d \in replaced[s] \ recorded[s]
                 PROVE  \E r \in Runners : pc'[r] = "record" /\ job'[r] = s /\ DueTime(r)' = d
        BY DEF Aside, RunsAreRecorded
    <2>1. PICK r \in Runners : pc[r] = "record" /\ job[r] = s /\ DueTime(r) = d
        BY DEF Logged, RunsAreRecorded
    <2>2. pc'[r] = "record" /\ job'[r] = s /\ DueTime(r)' = d
        BY <2>1 DEF Aside, DueTime
    <2> QED
        BY <2>2
<1> QED
    BY <1>1, <1>2, <1>3 DEF Logged

LEMMA MostStepsAreAside ==
    ASSUME TypeOK,
           \/ Quiet \/ Api \/ ClockTick
           \/ \E r \in Runners :
                 ListDue(r) \/ EndPoll(r) \/ \E s \in Schedules : BeginJob(r, s)
    PROVE  Aside
<1>0. /\ Runners \subseteq Procs /\ Editors \subseteq Procs /\ Editors \cap Runners = {}
      /\ pc \in [Procs -> Steps] /\ job \in [Procs -> Schedules \cup {None}]
      /\ seen \in [Procs -> [Schedules -> Rows \cup {None}]]
    BY Disjoint DEF TypeOK, Procs, Runners
<1> USE DEF Aside, rowVars, logVars, goto
<1>1. CASE Quiet
    BY <1>1 DEF Quiet, Polling
<1>2. ASSUME NEW s \in Schedules, NEW c \in Crons, NEW on \in BOOLEAN, Create(s, c, on)
      PROVE Aside
    BY <1>2 DEF Create
<1>3. ASSUME NEW e \in Editors, NEW s \in Schedules, EditRead(e, s) \/ Delete(e, s) PROVE Aside
    BY <1>0, <1>3 DEF EditRead, Delete
<1>4. ASSUME NEW e \in Editors, NEW c \in Crons \cup {None}, NEW on \in BOOLEAN,
             EditWrite(e, c, on)
      PROVE Aside
    BY <1>0, <1>4 DEF EditWrite
<1>5. CASE ClockTick
    BY <1>5 DEF ClockTick
<1>6. ASSUME NEW r \in Runners, ListDue(r) PROVE Aside
    BY <1>0, <1>6 DEF ListDue, endPoll
<1>7. ASSUME NEW r \in Runners, EndPoll(r) PROVE Aside
    BY <1>0, <1>7 DEF EndPoll, endPoll
<1>8. ASSUME NEW r \in Runners, NEW s \in Schedules, BeginJob(r, s) PROVE Aside
    BY <1>0, <1>8, BeginJobCases
<1> QED
    BY <1>1, <1>2, <1>3, <1>4, <1>5, <1>6, <1>7, <1>8 DEF Api

LEMMA LoggedNext == TypeOK /\ Logged /\ [Next]_vars => Logged'
<1> SUFFICES ASSUME TypeOK, Logged, [Next]_vars PROVE Logged'
    OBVIOUS
<1>0. /\ Runners \subseteq Procs /\ pc \in [Procs -> Steps]
      /\ attempted \in [Schedules -> SUBSET NextRun]
      /\ replaced \in [Schedules -> SUBSET NextRun]
      /\ recorded \in [Schedules -> SUBSET NextRun]
      /\ row \in [Schedules -> Rows \cup {None, Gone}]
      /\ job \in [Procs -> Schedules \cup {None}]
      /\ seen \in [Procs -> [Schedules -> Rows \cup {None}]]
    BY DEF TypeOK, Procs, Runners
<1>1. ASSUME Aside PROVE Logged'
    BY <1>1, LoggedAside
<1>2. ASSUME NEW r \in Runners, StreamBackup(r) PROVE Logged'
    <2>1. /\ job[r] \in Schedules /\ UNCHANGED <<replaced, raced, recorded, lost, seen, job>>
          /\ attempted' = [attempted EXCEPT ![job[r]] = @ \cup {DueTime(r)}]
          /\ pc[r] = "stream" /\ pc' = [pc EXCEPT ![r] = "update"]
        BY <1>0, <1>2 DEF StreamBackup, goto, rowVars, TypeOK
    <2>2. /\ \A s \in Schedules : attempted[s] \subseteq attempted'[s]
          /\ DueTime(r) \in attempted'[job[r]]
        BY <1>0, <2>1
    <2>3. Attempted'
        <3>1. ASSUME NEW q \in Runners, pc'[q] = "update"
              PROVE  DueTime(q)' \in attempted'[job'[q]]
            <4>1. DueTime(q)' = DueTime(q) /\ job'[q] = job[q]
                BY <2>1 DEF DueTime
            <4>2. CASE q = r
                BY <2>2, <4>1, <4>2
            <4>3. CASE q # r
                <5>1. pc[q] = "update" /\ job[q] \in Schedules
                    BY <1>0, <2>1, <3>1, <4>3 DEF TypeOK
                <5> QED
                    BY <2>2, <4>1, <5>1 DEF Logged, Attempted
            <4> QED
                BY <4>2, <4>3
        <3> QED
            BY <3>1 DEF Attempted
    <2>4. NoRunLost'
        BY <2>1, <2>2 DEF Logged, NoRunLost
    <2>5. RunsAreRecorded'
        <3>1. \A q \in Runners : pc[q] = "record" =>
                 pc'[q] = "record" /\ job'[q] = job[q] /\ DueTime(q)' = DueTime(q)
            BY <1>0, <2>1 DEF DueTime
        <3> QED
            BY <2>1, <3>1 DEF Logged, RunsAreRecorded
    <2> QED
        BY <2>3, <2>4, <2>5 DEF Logged
<1>3. ASSUME NEW r \in Runners, UpdateRunTimes(r) PROVE Logged'
    <2> DEFINE u == job[r]
    <2>1. /\ u \in Schedules /\ UNCHANGED <<attempted, recorded, lost, seen, job>>
          /\ pc[r] = "update" /\ pc' = [pc EXCEPT ![r] = "record"]
          /\ DueTime(r) \in attempted[u]
        BY <1>0, <1>3 DEF UpdateRunTimes, goto, logVars, TypeOK, Logged, Attempted
    <2>2. \A q \in Runners : DueTime(q)' = DueTime(q)
        BY <2>1 DEF DueTime
    <2>3. /\ raced \subseteq raced'
          /\ \A s \in Schedules \ raced' :
                replaced'[s] = replaced[s] \/ (s = u /\ replaced'[s] = replaced[s] \cup {DueTime(r)})
        BY <1>0, <1>3, <2>1 DEF UpdateRunTimes, rowVars, DueTime
    <2>4. Attempted'
        BY <1>0, <2>1, <2>2 DEF Logged, Attempted
    <2>5. NoRunLost'
        BY <2>1, <2>3 DEF Logged, NoRunLost
    <2>6. RunsAreRecorded'
        <3>1. SUFFICES ASSUME NEW s \in Schedules \ (raced' \cup lost),
                              NEW d \in replaced'[s] \ recorded[s]
                       PROVE  \E q \in Runners : pc'[q] = "record" /\ job'[q] = s /\ DueTime(q)' = d
            BY <2>1 DEF RunsAreRecorded
        <3>2. CASE d \in replaced[s]
            <4>1. PICK q \in Runners : pc[q] = "record" /\ job[q] = s /\ DueTime(q) = d
                BY <2>3, <3>1, <3>2 DEF Logged, RunsAreRecorded
            <4> QED
                BY <1>0, <2>1, <2>2, <4>1
        <3>3. CASE d \notin replaced[s]
            <4>1. s = u /\ d = DueTime(r)
                BY <2>3, <3>1, <3>3
            <4> QED
                BY <1>0, <2>1, <2>2, <4>1
        <3> QED
            BY <3>2, <3>3
    <2> QED
        BY <2>4, <2>5, <2>6 DEF Logged
<1>4. ASSUME NEW r \in Runners, RecordExecution(r) PROVE Logged'
    <2>1. /\ job[r] \in Schedules /\ UNCHANGED <<attempted, replaced, raced>>
          /\ pc[r] = "record" /\ pc' = [pc EXCEPT ![r] = "jobs"]
          /\ \A q \in Runners \ {r} : job'[q] = job[q] /\ seen'[q] = seen[q]
          /\ \/ recorded' = [recorded EXCEPT ![job[r]] = @ \cup {DueTime(r)}] /\ lost' = lost
             \/ lost' = lost \cup {job[r]} /\ recorded' = recorded
        BY <1>0, <1>4 DEF RecordExecution, goto, rowVars, TypeOK
    <2>2. \A q \in Runners \ {r} : DueTime(q)' = DueTime(q) /\ pc'[q] = pc[q]
        BY <1>0, <2>1 DEF DueTime
    <2>3. Attempted'
        BY <1>0, <2>1, <2>2 DEF Logged, Attempted
    <2>4. NoRunLost'
        BY <2>1 DEF Logged, NoRunLost
    <2>5. RunsAreRecorded'
        <3>1. SUFFICES ASSUME NEW s \in Schedules \ (raced \cup lost'),
                              NEW d \in replaced[s] \ recorded'[s]
                       PROVE  \E q \in Runners : pc'[q] = "record" /\ job'[q] = s /\ DueTime(q)' = d
            BY <2>1 DEF RunsAreRecorded
        <3>2. s \notin lost /\ d \notin recorded[s] /\ ~(s = job[r] /\ d = DueTime(r))
            BY <1>0, <2>1, <3>1
        <3>3. PICK q \in Runners : pc[q] = "record" /\ job[q] = s /\ DueTime(q) = d
            BY <3>1, <3>2 DEF Logged, RunsAreRecorded
        <3> QED
            BY <2>1, <2>2, <3>2, <3>3
    <2> QED
        BY <2>3, <2>4, <2>5 DEF Logged
<1>5. CASE Reboot
    <2>1. /\ UNCHANGED <<replaced, raced, attempted, recorded>>
          /\ \A q \in Runners : pc'[q] # "update"
          /\ \A q \in Runners : pc[q] = "record" => job[q] \in lost'
          /\ lost \subseteq lost'
        BY <1>0, <1>5 DEF Reboot, rowVars
    <2>2. Attempted' /\ NoRunLost'
        BY <2>1 DEF Logged, Attempted, NoRunLost
    <2>3. RunsAreRecorded'
        BY <2>1 DEF Logged, RunsAreRecorded
    <2> QED
        BY <2>2, <2>3 DEF Logged
<1>6. CASE Others
    BY <1>1, <1>6, OthersAreQuiet, MostStepsAreAside
<1>7. ASSUME NEW r \in Runners, ListDue(r) \/ Poll(r) PROVE Logged'
    BY <1>1, <1>2, <1>3, <1>4, <1>7, MostStepsAreAside DEF Poll
<1>8. CASE Api \/ ClockTick
    BY <1>1, <1>8, MostStepsAreAside
<1> QED
    BY <1>5, <1>6, <1>7, <1>8 DEF Next, Loop, Others

LEMMA LoggedInit == Init => Logged
<1> SUFFICES ASSUME Init PROVE Logged
    OBVIOUS
<1>1. \A r \in Runners : pc[r] = "none"
    BY DEF Init, Procs, Runners
<1>2. \A s \in Schedules : replaced[s] = {}
    BY DEF Init
<1> QED
    BY <1>1, <1>2 DEF Logged, Attempted, NoRunLost, RunsAreRecorded

LEMMA LoggedAlways == SafetySpec => []Logged
BY LoggedInit, LoggedNext, TypeCorrect, PTL DEF SafetySpec

(* No due time is lost, wherever a crash or a shutdown cuts the job.                             *)
THEOREM NoRunLostHolds == SafetySpec => []NoRunLost
<1>1. Logged => NoRunLost
    BY DEF Logged
<1> QED
    BY <1>1, LoggedAlways, PTL

(* Every due time a schedule moved on from has its execution record, or a poll about to write    *)
(* it, unless the process was ending.                                                            *)
THEOREM RunsAreRecordedHolds == SafetySpec => []RunsAreRecorded
<1>1. Logged => RunsAreRecorded
    BY DEF Logged
<1> QED
    BY <1>1, LoggedAlways, PTL
================================================================================
