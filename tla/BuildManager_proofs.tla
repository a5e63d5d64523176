------------------------- MODULE BuildManager_proofs -------------------------
(***************************************************************************)
(* Safety of the build manager, for any number of builds, services,        *)
(* workers, concurrent Cancel calls and any queue capacity.                *)
(*                                                                         *)
(* The inductive invariant is layered: Shape ties the program counters to  *)
(* the variables they own and makes the types inductive; Places adds where *)
(* a build can be and what its context is there; Rows, on top of both,     *)
(* explains every status a row can be left in.                             *)
(***************************************************************************)
EXTENDS BuildManager, FiniteSetTheorems, TLAPS

\* A worker holds a job exactly while it executes one, a Cancel call has a build
\* exactly while it runs.
Shape ==
    /\ \A w \in Workers : wjob[w] = NoBuild <=> wpc[w] \in {"idle", "exited"}
    /\ \A c \in Cancellers : cjob[c] = NoBuild <=> cpc[c] = "idle"

Typed == TypeOK /\ Shape

USE BuildManagerAssumption DEF BuildManagerAssumption

\* The types and the shape hold in every reachable state.
LEMMA TypedInit == Init => Typed
<1> SUFFICES ASSUME Init PROVE Typed
    OBVIOUS
<1>1. queue \in Seq(Builds) /\ Len(queue) <= QueueCapacity
    BY DEF Init
<1>2. TypeOK
    BY <1>1 DEF Init, TypeOK, Statuses, Steps, EnqueueSteps, CancelSteps
<1>3. Shape
    BY DEF Init, Shape
<1> QED
    BY <1>2, <1>3 DEF Typed

LEMMA TypedNext == Typed /\ [Next]_vars => Typed'
<1> SUFFICES ASSUME Typed, [Next]_vars PROVE Typed'
    OBVIOUS
<1> USE DEF Typed, TypeOK, Shape, enqueueVars, workerVars, cancelVars, externalVars
<1>1. ASSUME NEW b \in Builds, EnqueueCheck(b) PROVE Typed'
    BY <1>1 DEF EnqueueCheck, EnqueueSteps
<1>2. ASSUME NEW b \in Builds, EnqueueRecord(b) PROVE Typed'
    BY <1>2 DEF EnqueueRecord, EnqueueSteps, Statuses
<1>3. ASSUME NEW b \in Builds, EnqueueSend(b) PROVE Typed'
    <2>1. queue' \in Seq(Builds) /\ Len(queue') <= QueueCapacity
        BY <1>3 DEF EnqueueSend
    <2> QED
        BY <1>3, <2>1 DEF EnqueueSend, EnqueueSteps
<1>4. ASSUME NEW c \in Cancellers, NEW b \in Builds, CancelTake(c, b) PROVE Typed'
    BY <1>4 DEF CancelTake, CancelSteps
<1>5. ASSUME NEW c \in Cancellers, CancelFire(c) PROVE Typed'
    BY <1>5 DEF CancelFire, CancelSteps
<1>6. ASSUME NEW c \in Cancellers, CancelWrite(c) PROVE Typed'
    BY <1>6 DEF CancelWrite, CancelSteps, CancelOutcomes, Statuses, Terminal
<1>7. ASSUME CloseBegin PROVE Typed'
    BY <1>7 DEF CloseBegin
<1>8. ASSUME CloseReturn PROVE Typed'
    BY <1>8 DEF CloseReturn
<1>9. ASSUME NEW w \in Workers, WorkerTake(w) PROVE Typed'
    BY <1>9 DEF WorkerTake, Steps
<1>10. ASSUME NEW w \in Workers, WorkerExit(w) PROVE Typed'
    BY <1>10 DEF WorkerExit, Steps
<1>11. ASSUME NEW w \in Workers, Register(w) PROVE Typed'
    BY <1>11 DEF Register, Steps
<1>12. ASSUME NEW w \in Workers, CheckCancelled(w) PROVE Typed'
    BY <1>12 DEF CheckCancelled, Steps
<1>13. ASSUME NEW w \in Workers,
              NEW from \in Steps \ {"idle", "exited"}, NEW to \in Steps \ {"idle", "exited"},
              NEW s \in Statuses, Record(w, from, s, to)
       PROVE  Typed'
    BY <1>13 DEF Record, UpdateStatus
<1>14. ASSUME NEW w \in Workers,
              NEW from \in Steps \ {"idle", "exited"}, NEW to \in Steps \ {"idle", "exited"},
              Call(w, from, to)
       PROVE  Typed'
    <2>1. PICK pc \in {to, "failing"} : wpc' = [wpc EXCEPT ![w] = pc]
        BY <1>14 DEF Call
    <2>2. pc \in Steps \ {"idle", "exited"}
        BY DEF Steps
    <2> QED
        BY <1>14, <2>1, <2>2 DEF Call
<1>15. ASSUME NEW w \in Workers, Push(w) PROVE Typed'
    BY <1>15 DEF Push, Steps
<1>16. ASSUME NEW w \in Workers, Deploy(w) PROVE Typed'
    BY <1>16 DEF Deploy, Steps
<1>17. ASSUME NEW w \in Workers, SyncService(w) PROVE Typed'
    BY <1>17 DEF SyncService, Steps
<1>18. ASSUME NEW w \in Workers, Finish(w) PROVE Typed'
    BY <1>18 DEF Finish, Steps
<1>19. ASSUME NEW w \in Workers, Work(w) PROVE Typed'
    <2>1. /\ RecordCloning(w) => Typed'
          /\ RecordBuilding(w) => Typed'
          /\ RecordDeploying(w) => Typed'
          /\ RecordSuccess(w) => Typed'
          /\ FailBuild(w) => Typed'
        BY <1>13 DEF RecordCloning, RecordBuilding, RecordDeploying, RecordSuccess, FailBuild,
                     Steps, Statuses, Active, Terminal
    <2>2. Clone(w) \/ Build(w) => Typed'
        BY <1>14 DEF Clone, Build, Steps
    <2> QED
        BY <1>9, <1>10, <1>11, <1>12, <1>15, <1>16, <1>17, <1>18, <1>19, <2>1, <2>2
        DEF Work, Execute
<1>20. CASE UNCHANGED vars
    BY <1>20 DEF vars
<1> QED
    BY <1>1, <1>2, <1>3, <1>4, <1>5, <1>6, <1>7, <1>8, <1>19, <1>20
    DEF Next, Enqueue, Cancel

\* Type correctness of the manager for every instance.
THEOREM TypeCorrect == SafetySpec => []TypeOK
<1>1. Init => Typed
    BY TypedInit
<1>2. Typed /\ [Next]_vars => Typed'
    BY TypedNext
<1>3. Typed => TypeOK
    BY DEF Typed
<1> QED
    BY <1>1, <1>2, <1>3, PTL DEF SafetySpec
-----------------------------------------------------------------------------
\* The context of a job is created after "registering" and ends after "finishing".
WorkerContexts ==
    /\ \A w \in Workers :
        /\ wpc[w] = "registering" => ctx[wjob[w]] = "none"
        /\ wpc[w] \notin {"idle", "exited", "registering"} => ctx[wjob[w]] \in {"live", "cancelled"}
    /\ \A b \in Builds : ctx[b] \in {"live", "cancelled"} => Held(b)

\* A Cancel that took an entry owns it alone, and the context is not live once it has
\* called the cancel function.
CancelContexts ==
    \A c \in Cancellers :
        /\ cpc[c] = "taken" => cjob[c] \notin cancels /\ ctx[cjob[c]] # "none"
        /\ cpc[c] = "fired" => ctx[cjob[c]] \in {"cancelled", "done"}

Places == OnePlace /\ WorkerContexts /\ CancelContexts /\ CancelsAreLive

\* What Append and Tail do to the members of a sequence.
LEMMA AppendMembers ==
    ASSUME NEW S, NEW q \in Seq(S), NEW e \in S, NEW d
    PROVE  (\E i \in 1..Len(Append(q, e)) : Append(q, e)[i] = d) <=>
           (\E i \in 1..Len(q) : q[i] = d) \/ d = e
<1>1. Len(Append(q, e)) = Len(q) + 1 /\ Append(q, e)[Len(q) + 1] = e
    OBVIOUS
<1>2. \A i \in 1..Len(q) : Append(q, e)[i] = q[i]
    OBVIOUS
<1>3. 1..Len(q) + 1 = 1..Len(q) \cup {Len(q) + 1}
    OBVIOUS
<1> QED
    BY <1>1, <1>2, <1>3

LEMMA TailMembers ==
    ASSUME NEW S, NEW q \in Seq(S), q # <<>>,
           \A i, j \in 1..Len(q) : q[i] = q[j] => i = j
    PROVE  \A d \in S : (\E i \in 1..Len(Tail(q)) : Tail(q)[i] = d) <=>
                        (\E i \in 1..Len(q) : q[i] = d) /\ d # Head(q)
<1> SUFFICES ASSUME NEW d \in S
             PROVE  (\E i \in 1..Len(Tail(q)) : Tail(q)[i] = d) <=>
                    (\E i \in 1..Len(q) : q[i] = d) /\ d # Head(q)
    OBVIOUS
<1>1. Len(Tail(q)) = Len(q) - 1 /\ Head(q) = q[1] /\ Len(q) \in Nat \ {0}
    OBVIOUS
<1>2. \A i \in 1..Len(q) - 1 : Tail(q)[i] = q[i + 1]
    OBVIOUS
<1>3. ASSUME NEW i \in 1..Len(Tail(q)), Tail(q)[i] = d
      PROVE  (\E k \in 1..Len(q) : q[k] = d) /\ d # Head(q)
    <2>1. i + 1 \in 1..Len(q) /\ q[i + 1] = d /\ 1 \in 1..Len(q) /\ i + 1 # 1
        BY <1>1, <1>2, <1>3
    <2> QED
        BY <1>1, <2>1
<1>4. ASSUME NEW i \in 1..Len(q), q[i] = d, d # Head(q)
      PROVE  \E k \in 1..Len(Tail(q)) : Tail(q)[k] = d
    <2>1. i - 1 \in 1..Len(Tail(q)) /\ Tail(q)[i - 1] = d
        BY <1>1, <1>2, <1>4
    <2> QED
        BY <2>1
<1> QED
    BY <1>3, <1>4

LEMMA PlacesInit == Init => Places
BY DEF Init, Places, OnePlace, WorkerContexts, CancelContexts, CancelsAreLive, Queued, Held, Holds

\* A step inside a job moves nothing: it only advances the worker.
LEMMA PlacesInside ==
    ASSUME Typed, Typed', Places, NEW w \in Workers,
           wpc[w] \notin {"idle", "exited", "registering"},
           NEW pc \in Steps \ {"idle", "exited", "registering"},
           wpc' = [wpc EXCEPT ![w] = pc],
           UNCHANGED <<queue, cancels, ctx, enq, wjob, cpc, cjob>>
    PROVE  Places'
BY DEF Typed, TypeOK, Places, OnePlace, WorkerContexts, CancelContexts, CancelsAreLive, Queued, Held, Holds

LEMMA PlacesNext == Typed /\ Typed' /\ Places /\ [Next]_vars => Places'
<1> SUFFICES ASSUME Typed, Typed', Places, [Next]_vars PROVE Places'
    OBVIOUS
<1> USE DEF Typed, TypeOK, Shape, enqueueVars, workerVars, cancelVars, externalVars
<1>1. ASSUME NEW b \in Builds, EnqueueCheck(b) \/ EnqueueRecord(b) PROVE Places'
    BY <1>1 DEF EnqueueCheck, EnqueueRecord, Places, OnePlace, WorkerContexts, CancelContexts,
       CancelsAreLive, Queued, Held, Holds
<1>2. ASSUME NEW b \in Builds, EnqueueSend(b) PROVE Places'
    <2>1. ~Queued(b) /\ ~Held(b) /\ ctx[b] = "none"
        BY <1>2 DEF EnqueueSend, Places, OnePlace, WorkerContexts
    <2>2. CASE queue' = Append(queue, b) /\ enq' = [enq EXCEPT ![b] = "accepted"]
        <3>1. \A d \in Builds : Queued(d)' <=> Queued(d) \/ d = b
            BY <2>2, AppendMembers DEF Queued
        <3>2. \A d \in Builds : Held(d)' <=> Held(d)
            BY <1>2 DEF EnqueueSend, Held, Holds
        <3>3. \A i, j \in 1..Len(queue') : queue'[i] = queue'[j] => i = j
            BY <2>1, <2>2 DEF Places, OnePlace, Queued
        <3>4. OnePlace'
            BY <1>2, <2>1, <2>2, <3>1, <3>2, <3>3 DEF EnqueueSend, Places, OnePlace
        <3> QED
            BY <1>2, <3>2, <3>4 DEF EnqueueSend, Places, WorkerContexts, CancelContexts, CancelsAreLive
    <2>3. CASE UNCHANGED queue /\ enq' \in {[enq EXCEPT ![b] = "panicked"], [enq EXCEPT ![b] = "full"]}
        BY <1>2, <2>1, <2>3 DEF EnqueueSend, Places, OnePlace, WorkerContexts, CancelContexts,
           CancelsAreLive, Queued, Held, Holds
    <2> QED
        BY <1>2, <2>2, <2>3 DEF EnqueueSend
<1>3. ASSUME NEW c \in Cancellers, NEW b \in Builds, CancelTake(c, b) PROVE Places'
    <2> UNCHANGED <<queue, ctx, enq, wpc, wjob>>
        BY <1>3 DEF CancelTake
    <2>1. OnePlace' /\ WorkerContexts'
        BY DEF Places, OnePlace, WorkerContexts, Queued, Held, Holds
    <2>2. CancelContexts'
        BY <1>3 DEF CancelTake, CancelSteps, Places, CancelContexts, CancelsAreLive
    <2>3. CancelsAreLive'
        BY <1>3 DEF CancelTake, CancelSteps, Places, CancelsAreLive
    <2> QED
        BY <2>1, <2>2, <2>3 DEF Places
<1>4. ASSUME NEW c \in Cancellers, CancelFire(c) PROVE Places'
    <2>1. cjob[c] \in Builds /\ cjob[c] \notin cancels
        BY <1>4 DEF CancelFire, Places, CancelContexts
    <2>2. UNCHANGED <<queue, enq, wpc, wjob>> /\ (\A b \in Builds : Held(b)' <=> Held(b))
        BY <1>4 DEF CancelFire, Held, Holds
    <2>3. \A b \in Builds : ctx'[b] = IF b = cjob[c] /\ ctx[b] = "live" THEN "cancelled" ELSE ctx[b]
        BY <1>4 DEF CancelFire
    <2>4. OnePlace'
        BY <2>2, <2>3 DEF Places, OnePlace, Queued
    <2>5. WorkerContexts'
        BY <2>2, <2>3 DEF Places, WorkerContexts
    <2>6. CancelContexts'
        BY <1>4, <2>1 DEF CancelFire, CancelSteps, Places, CancelContexts
    <2>7. CancelsAreLive'
        BY <1>4, <2>1 DEF CancelFire, CancelSteps, Places, CancelsAreLive
    <2> QED
        BY <2>4, <2>5, <2>6, <2>7 DEF Places
<1>5. ASSUME NEW c \in Cancellers, CancelWrite(c) PROVE Places'
    BY <1>5 DEF CancelWrite, Places, OnePlace, WorkerContexts, CancelContexts,
       CancelsAreLive, Queued, Held, Holds
<1>6. ASSUME CloseBegin PROVE Places'
    <2>1. OnePlace' /\ WorkerContexts'
        BY SMTT(30), <1>6 DEF CloseBegin, Places, OnePlace, WorkerContexts, Queued, Held, Holds
    <2>2. CancelContexts' /\ CancelsAreLive'
        BY <1>6 DEF CloseBegin, Places, CancelContexts, CancelsAreLive
    <2> QED
        BY <2>1, <2>2 DEF Places
<1>7. ASSUME CloseReturn PROVE Places'
    BY <1>7 DEF CloseReturn, Places, OnePlace, WorkerContexts, CancelContexts,
       CancelsAreLive, Queued, Held, Holds
<1>8. ASSUME NEW w \in Workers, WorkerTake(w) PROVE Places'
    <2> DEFINE b == Head(queue)
    <2>1. b \in Builds /\ Queued(b) /\ ~Held(b) /\ ctx[b] = "none"
        BY <1>8 DEF WorkerTake, Places, OnePlace, Queued
    <2>2. \A d \in Builds : Queued(d)' <=> Queued(d) /\ d # b
        <3>1. /\ queue \in Seq(Builds) /\ queue # <<>> /\ queue' = Tail(queue)
              /\ \A i, j \in 1..Len(queue) : queue[i] = queue[j] => i = j
            BY <1>8 DEF WorkerTake, Places, OnePlace
        <3>2. \A d \in Builds : (\E i \in 1..Len(Tail(queue)) : Tail(queue)[i] = d) <=>
                                (\E i \in 1..Len(queue) : queue[i] = d) /\ d # Head(queue)
            BY ONLY <3>1, TailMembers
        <3> QED
            BY <3>1, <3>2 DEF Queued
    <2>3. \A d \in Builds : Held(d)' <=> Held(d) \/ d = b
        BY <1>8, <2>1 DEF WorkerTake, Held, Holds
    <2>4. \A i, j \in 1..Len(queue') : queue'[i] = queue'[j] => i = j
        BY <1>8 DEF WorkerTake, Places, OnePlace
    <2>5. \A v, x \in Workers : wjob'[v] = wjob'[x] /\ wjob'[v] # NoBuild => v = x
        BY <1>8, <2>1 DEF WorkerTake, Places, OnePlace, Held, Holds
    <2>6. OnePlace'
        BY <1>8, <2>1, <2>2, <2>3, <2>4, <2>5 DEF WorkerTake, Places, OnePlace
    <2>7. WorkerContexts'
        BY <1>8, <2>1, <2>3 DEF WorkerTake, Places, WorkerContexts
    <2> QED
        BY <1>8, <2>6, <2>7 DEF WorkerTake, Places, CancelContexts, CancelsAreLive
<1>9. ASSUME NEW w \in Workers, WorkerExit(w) PROVE Places'
    BY SMTT(30), <1>9 DEF WorkerExit, Places, OnePlace, WorkerContexts, CancelContexts,
       CancelsAreLive, Queued, Held, Holds
<1>10. ASSUME NEW w \in Workers, Register(w) PROVE Places'
    <2>1. wjob[w] \in Builds /\ Holds(w, wjob[w]) /\ ctx[wjob[w]] = "none"
        BY <1>10 DEF Register, Places, WorkerContexts, Holds
    <2>2. OnePlace'
        BY <1>10, <2>1 DEF Register, Places, OnePlace, Queued, Held, Holds
    <2>3. WorkerContexts'
        BY <1>10, <2>1 DEF Register, Places, OnePlace, WorkerContexts, Held, Holds
    <2>4. CancelContexts' /\ CancelsAreLive'
        BY <1>10, <2>1 DEF Register, Places, CancelContexts, CancelsAreLive
    <2> QED
        BY <2>2, <2>3, <2>4 DEF Places
<1>11. ASSUME NEW w \in Workers,
              \/ CheckCancelled(w)
              \/ RecordCloning(w) \/ Clone(w) \/ RecordBuilding(w) \/ Build(w)
              \/ Push(w) \/ RecordDeploying(w) \/ Deploy(w) \/ SyncService(w)
              \/ RecordSuccess(w) \/ FailBuild(w)
       PROVE  Places'
    <2>1. /\ wpc[w] \notin {"idle", "exited", "registering"}
          /\ \E pc \in Steps \ {"idle", "exited", "registering"} : wpc' = [wpc EXCEPT ![w] = pc]
          /\ UNCHANGED <<queue, cancels, ctx, enq, wjob, cpc, cjob>>
        BY <1>11 DEF CheckCancelled, Push, Deploy, SyncService, Record, Call, RecordCloning, Clone,
           RecordBuilding, Build, RecordDeploying, RecordSuccess, FailBuild, Steps
    <2>2. PICK pc \in Steps \ {"idle", "exited", "registering"} : wpc' = [wpc EXCEPT ![w] = pc]
        BY <2>1
    <2> QED
        BY <2>1, <2>2, PlacesInside
<1>12. ASSUME NEW w \in Workers, Finish(w) PROVE Places'
    <2>1. wjob[w] \in Builds /\ Holds(w, wjob[w]) /\ Held(wjob[w])
        BY <1>12 DEF Finish, Held, Holds
    <2>2. \A d \in Builds : Held(d)' <=> Held(d) /\ d # wjob[w]
        BY <1>12, <2>1 DEF Finish, Places, OnePlace, Held, Holds
    <2>3. OnePlace'
        BY <1>12, <2>1, <2>2 DEF Finish, Places, OnePlace, Queued
    <2>4. WorkerContexts'
        BY <1>12, <2>1, <2>2 DEF Finish, Places, OnePlace, WorkerContexts, Holds
    <2>5. CancelContexts' /\ CancelsAreLive'
        BY <1>12, <2>1 DEF Finish, Places, CancelContexts, CancelsAreLive
    <2> QED
        BY <2>3, <2>4, <2>5 DEF Places
<1>13. CASE UNCHANGED vars
    BY <1>13 DEF vars, Places, OnePlace, WorkerContexts, CancelContexts,
       CancelsAreLive, Queued, Held, Holds
<1> QED
    BY <1>1, <1>2, <1>3, <1>4, <1>5, <1>6, <1>7, <1>8, <1>9, <1>10, <1>11, <1>12, <1>13
    DEF Next, Enqueue, Cancel, Work, Execute
-----------------------------------------------------------------------------
\* A context is cancelled only by a Close or by a Cancel, which leaves a trace.
CancelExplained ==
    \A b \in Builds : ctx[b] = "cancelled" =>
        \/ closed
        \/ <<b, "lost">> \in cancelLog
        \/ row[b] = "cancelled"
        \/ \E c \in Cancellers : cjob[c] = b /\ cpc[c] = "fired"

\* A build whose Cancel succeeded has the row it left, and a context that ended.
StoppedEnded ==
    \A b \in Builds : <<b, "stopped">> \in cancelLog =>
        row[b] = "cancelled" /\ ctx[b] \in {"cancelled", "done"}

\* A job that unwinds has a final status, or a context that kept it from having one.
FinishingIsFinal ==
    \A w \in Workers : wpc[w] = "finishing" =>
        row[wjob[w]] \in Terminal \/ ctx[wjob[w]] = "cancelled"

\* A job past its push has its image in the registry.
PastPush ==
    \A w \in Workers :
        wpc[w] \in {"toDeploying", "deploying", "syncing"} => wjob[w] \in pushed

Rows == CancelExplained /\ StoppedEnded /\ FinishingIsFinal /\ NoOrphanRow

Images == PastPush /\ ImagePublishedBeforeUse

LEMMA RowsInit == Init => Rows /\ Images
BY DEF Init, Rows, Images, CancelExplained, StoppedEnded, FinishingIsFinal, NoOrphanRow, PastPush,
   ImagePublishedBeforeUse

LEMMA ImagesNext == Typed /\ Images /\ [Next]_vars => Images'
<1> SUFFICES ASSUME Typed, Images, [Next]_vars PROVE Images'
    OBVIOUS
<1> USE DEF Typed, TypeOK, Shape, enqueueVars, workerVars, cancelVars, externalVars,
            Images, PastPush, ImagePublishedBeforeUse
<1>1. ASSUME UNCHANGED <<wpc, wjob, externalVars>> PROVE Images'
    BY <1>1
<1>2. ASSUME NEW w \in Workers, NEW pc \in Steps,
             pc \in {"toDeploying", "deploying", "syncing"} =>
                 wpc[w] \in {"toDeploying", "deploying", "syncing"},
             wpc' = [wpc EXCEPT ![w] = pc],
             UNCHANGED <<wjob, externalVars>>
      PROVE  Images'
    BY <1>2
<1>3. ASSUME NEW w \in Workers, WorkerTake(w) \/ Finish(w) PROVE Images'
    BY <1>3 DEF WorkerTake, Finish
<1>4. ASSUME NEW w \in Workers, Push(w) PROVE Images'
    BY <1>4 DEF Push
<1>5. ASSUME NEW w \in Workers, Deploy(w) PROVE Images'
    BY <1>5 DEF Deploy
<1>6. ASSUME NEW w \in Workers, SyncService(w) PROVE Images'
    BY <1>6 DEF SyncService
<1>7. ASSUME NEW w \in Workers, Work(w) PROVE Images'
    <2>1. CASE WorkerExit(w) \/ Register(w) \/ CheckCancelled(w)
        BY <1>2, <2>1 DEF WorkerExit, Register, CheckCancelled, Steps
    <2>2. CASE RecordCloning(w) \/ RecordBuilding(w) \/ RecordDeploying(w) \/ RecordSuccess(w) \/ FailBuild(w)
        BY <1>2, <2>2 DEF RecordCloning, RecordBuilding, RecordDeploying, RecordSuccess, FailBuild,
           Record, Steps
    <2>3. CASE Clone(w) \/ Build(w)
        <3>1. PICK pc \in {"toBuilding", "pushing", "failing"} : wpc' = [wpc EXCEPT ![w] = pc]
            BY <2>3 DEF Clone, Build, Call
        <3> QED
            BY <1>2, <2>3, <3>1 DEF Clone, Build, Call, Steps
    <2> QED
        BY <1>3, <1>4, <1>5, <1>6, <1>7, <2>1, <2>2, <2>3 DEF Work, Execute
<1>8. CASE UNCHANGED vars
    BY <1>1, <1>8 DEF vars
<1>9. ASSUME NEW b \in Builds, Enqueue(b) PROVE Images'
    BY <1>1, <1>9 DEF Enqueue, EnqueueCheck, EnqueueRecord, EnqueueSend
<1>10. ASSUME NEW c \in Cancellers, Cancel(c) PROVE Images'
    BY <1>1, <1>10 DEF Cancel, CancelTake, CancelFire, CancelWrite
<1>11. ASSUME CloseBegin \/ CloseReturn PROVE Images'
    BY <1>1, <1>11 DEF CloseBegin, CloseReturn
<1> QED
    BY <1>7, <1>8, <1>9, <1>10, <1>11 DEF Next

\* A step inside a job writes the row only under a live context.
LEMMA RowsInside ==
    ASSUME Typed, Places, Rows, NEW w \in Workers,
           wpc[w] \notin {"idle", "exited", "registering", "finishing"},
           NEW pc \in Steps, NEW s \in Statuses,
           wpc' = [wpc EXCEPT ![w] = pc],
           ctx[wjob[w]] # "live" => UNCHANGED row,
           row' \in {row, [row EXCEPT ![wjob[w]] = s]},
           pc = "finishing" => row'[wjob[w]] \in Terminal \/ ctx[wjob[w]] = "cancelled",
           UNCHANGED <<closed, queue, cancels, ctx, enq, wjob, cpc, cjob, cancelLog>>
    PROVE  Rows'
<1> USE DEF Typed, TypeOK, Shape
<1>1. wjob[w] \in Builds /\ Held(wjob[w]) /\ ctx[wjob[w]] \in {"live", "cancelled"}
    BY DEF Places, WorkerContexts, Held, Holds
<1>2. \A b \in Builds : b # wjob[w] => row'[b] = row[b]
    OBVIOUS
<1>3. CancelExplained'
    BY <1>1, <1>2 DEF Rows, CancelExplained
<1>4. StoppedEnded'
    BY <1>1, <1>2 DEF Rows, StoppedEnded
<1>5. FinishingIsFinal'
    <2> SUFFICES ASSUME NEW x \in Workers, wpc'[x] = "finishing"
                 PROVE  row'[wjob[x]] \in Terminal \/ ctx[wjob[x]] = "cancelled"
        BY DEF FinishingIsFinal
    <2>1. CASE x = w
        BY <2>1
    <2>2. CASE x # w
        <3>1. wpc[x] = "finishing" /\ wjob[x] # wjob[w] /\ wjob[x] \in Builds
            BY <1>1, <2>2 DEF Places, OnePlace
        <3> QED
            BY <1>2, <3>1 DEF Rows, FinishingIsFinal
    <2> QED
        BY <2>1, <2>2
<1>6. NoOrphanRow'
    BY <1>1, <1>2 DEF Rows, NoOrphanRow, Queued, Held, Holds
<1> QED
    BY <1>3, <1>4, <1>5, <1>6 DEF Rows

\* A step that touches nothing Rows speaks of.
LEMMA RowsOutside ==
    ASSUME Rows, UNCHANGED <<closed, queue, ctx, row, enq, wpc, wjob, cpc, cjob, cancelLog>>
    PROVE  Rows'
<1>1. CancelExplained' /\ StoppedEnded'
    BY DEF Rows, CancelExplained, StoppedEnded
<1>2. FinishingIsFinal'
    BY DEF Rows, FinishingIsFinal
<1>3. NoOrphanRow'
    BY DEF Rows, NoOrphanRow, Queued, Held, Holds
<1> QED
    BY <1>1, <1>2, <1>3 DEF Rows

LEMMA RowsNext == Typed /\ Typed' /\ Places /\ Places' /\ Rows /\ [Next]_vars => Rows'
<1> SUFFICES ASSUME Typed, Typed', Places, Places', Rows, [Next]_vars PROVE Rows'
    OBVIOUS
<1> USE DEF Typed, TypeOK, Shape, enqueueVars, workerVars, cancelVars, externalVars
<1>1. ASSUME NEW b \in Builds, EnqueueCheck(b) PROVE Rows'
    BY <1>1 DEF EnqueueCheck, Rows, CancelExplained, StoppedEnded, FinishingIsFinal, NoOrphanRow,
       Queued, Held, Holds
<1>2. ASSUME NEW b \in Builds, EnqueueRecord(b) PROVE Rows'
    <2>1. ctx[b] = "none" /\ (\A w \in Workers : wjob[w] # b)
        BY <1>2 DEF EnqueueRecord, Places, OnePlace, WorkerContexts, Held, Holds
    <2>2. \A d \in Builds : d # b => row'[d] = row[d]
        BY <1>2 DEF EnqueueRecord
    <2>3. UNCHANGED <<closed, ctx, wpc, wjob, cpc, cjob, cancelLog, queue>>
        BY <1>2 DEF EnqueueRecord
    <2>4. CancelExplained' /\ StoppedEnded'
        BY <2>1, <2>2, <2>3 DEF Rows, CancelExplained, StoppedEnded
    <2>5. FinishingIsFinal'
        BY <2>1, <2>2, <2>3 DEF Rows, FinishingIsFinal
    <2>6. NoOrphanRow'
        BY <1>2, <2>2, <2>3 DEF EnqueueRecord, Rows, NoOrphanRow, Queued, Held, Holds
    <2> QED
        BY <2>4, <2>5, <2>6 DEF Rows
<1>3. ASSUME NEW b \in Builds, EnqueueSend(b) PROVE Rows'
    <2>1. UNCHANGED <<closed, ctx, row, wpc, wjob, cpc, cjob, cancelLog>>
        BY <1>3 DEF EnqueueSend
    <2>2. CancelExplained' /\ StoppedEnded' /\ FinishingIsFinal'
        BY <2>1 DEF Rows, CancelExplained, StoppedEnded, FinishingIsFinal
    <2>3. ASSUME NEW d \in Builds, enq'[d] = "accepted" PROVE enq[d] = "accepted" \/ Queued(d)'
        BY <1>3, <2>3, AppendMembers DEF EnqueueSend, Queued
    <2>4. ASSUME NEW d \in Builds, Queued(d) \/ Held(d) PROVE Queued(d)' \/ Held(d)'
        <3>1. CASE UNCHANGED queue
            BY <2>1, <2>4, <3>1 DEF Queued, Held, Holds
        <3>2. CASE queue' = Append(queue, b)
            BY <2>1, <2>4, <3>2, AppendMembers DEF Queued, Held, Holds
        <3> QED
            BY <1>3, <3>1, <3>2 DEF EnqueueSend
    <2>5. NoOrphanRow'
        BY <2>1, <2>3, <2>4 DEF Rows, NoOrphanRow
    <2> QED
        BY <2>2, <2>5 DEF Rows
<1>4. ASSUME NEW c \in Cancellers, NEW b \in Builds, CancelTake(c, b) PROVE Rows'
    <2>1. UNCHANGED <<closed, ctx, row, wpc, wjob, enq, queue, cancelLog>>
        BY <1>4 DEF CancelTake
    <2>2. \A k \in Cancellers : cpc[k] = "fired" => cpc'[k] = "fired" /\ cjob'[k] = cjob[k]
        BY <1>4 DEF CancelTake
    <2>3. CancelExplained'
        BY <2>1, <2>2 DEF Rows, CancelExplained
    <2>4. NoOrphanRow'
        BY <2>1, <2>2 DEF Rows, NoOrphanRow, Queued, Held, Holds
    <2> QED
        BY <2>1, <2>3, <2>4 DEF Rows, StoppedEnded, FinishingIsFinal
<1>5. ASSUME NEW c \in Cancellers, CancelFire(c) PROVE Rows'
    <2>1. UNCHANGED <<closed, row, wpc, wjob, enq, queue, cancelLog, cjob>>
        BY <1>5 DEF CancelFire
    <2>2. cpc' = [cpc EXCEPT ![c] = "fired"] /\ cjob[c] \in Builds
        BY <1>5 DEF CancelFire
    <2>3. \A b \in Builds : ctx'[b] = IF b = cjob[c] /\ ctx[b] = "live" THEN "cancelled" ELSE ctx[b]
        BY <1>5 DEF CancelFire
    <2>4. CancelExplained'
        BY <2>1, <2>2, <2>3 DEF Rows, CancelExplained
    <2>5. StoppedEnded' /\ FinishingIsFinal'
        BY SMTT(30), <2>1, <2>3 DEF Rows, StoppedEnded, FinishingIsFinal
    <2>6. NoOrphanRow'
        BY <2>1, <2>2 DEF Rows, NoOrphanRow, Queued, Held, Holds
    <2> QED
        BY <2>4, <2>5, <2>6 DEF Rows
<1>6. ASSUME NEW c \in Cancellers, CancelWrite(c) PROVE Rows'
    <2> DEFINE b == cjob[c]
    <2>1. UNCHANGED <<closed, ctx, wpc, wjob, enq, queue>> /\ b \in Builds
        BY <1>6 DEF CancelWrite
    <2>2. \A d \in Builds : row'[d] = row[d] \/ (d = b /\ row'[d] = "cancelled")
        BY <1>6 DEF CancelWrite
    <2>3. \A k \in Cancellers : k # c => cpc'[k] = cpc[k] /\ cjob'[k] = cjob[k]
        BY <1>6 DEF CancelWrite
    <2>4. cancelLog \subseteq cancelLog'
        BY <1>6 DEF CancelWrite
    <2>5. cpc[c] = "fired" => row'[b] = "cancelled" \/ <<b, "lost">> \in cancelLog'
        BY <1>6 DEF CancelWrite
    <2>6. ASSUME NEW d \in Builds, <<d, "stopped">> \in cancelLog'
          PROVE  <<d, "stopped">> \in cancelLog \/ (d = b /\ cpc[c] = "fired" /\ row'[b] = "cancelled")
        BY <1>6, <2>6 DEF CancelWrite
    <2>7. CancelExplained'
        BY <2>1, <2>2, <2>3, <2>4, <2>5 DEF Rows, CancelExplained
    <2>8. StoppedEnded'
        BY <2>1, <2>2, <2>6 DEF Rows, StoppedEnded, Places, CancelContexts
    <2>9. FinishingIsFinal'
        BY <2>1, <2>2 DEF Rows, FinishingIsFinal, Terminal
    <2>10. NoOrphanRow'
        <3> SUFFICES ASSUME NEW d \in Builds, enq[d] = "accepted", row'[d] \notin Terminal,
                            ~(Queued(d) \/ Held(d)), ~closed, <<d, "lost">> \notin cancelLog'
                     PROVE  \E k \in Cancellers : cjob'[k] = d /\ cpc'[k] = "fired"
            BY <2>1 DEF NoOrphanRow, Queued, Held, Holds
        <3>1. row[d] \notin Terminal /\ row'[d] # "cancelled" /\ <<d, "lost">> \notin cancelLog
            BY <2>2, <2>4 DEF Terminal
        <3>2. PICK k \in Cancellers : cjob[k] = d /\ cpc[k] = "fired"
            BY <3>1 DEF Rows, NoOrphanRow
        <3>3. k # c
            BY <2>5, <3>1, <3>2
        <3> QED
            BY <2>3, <3>2, <3>3
    <2> QED
        BY <2>7, <2>8, <2>9, <2>10 DEF Rows
<1>7. ASSUME CloseBegin PROVE Rows'
    <2>1. closed' /\ UNCHANGED <<row, wpc, wjob, enq, queue, cpc, cjob, cancelLog>>
        BY <1>7 DEF CloseBegin
    <2>2. \A b \in Builds : ctx'[b] = ctx[b] \/ (ctx[b] = "live" /\ ctx'[b] = "cancelled")
        BY <1>7 DEF CloseBegin
    <2>3. CancelExplained' /\ StoppedEnded'
        BY <2>1, <2>2 DEF Rows, CancelExplained, StoppedEnded
    <2>4. FinishingIsFinal'
        <3> SUFFICES ASSUME NEW w \in Workers, wpc[w] = "finishing"
                     PROVE  row[wjob[w]] \in Terminal \/ ctx'[wjob[w]] = "cancelled"
            BY <2>1 DEF FinishingIsFinal
        <3> QED
            BY <2>2 DEF Rows, FinishingIsFinal
    <2>5. NoOrphanRow'
        BY <2>1 DEF NoOrphanRow
    <2> QED
        BY <2>3, <2>4, <2>5 DEF Rows
<1>8. ASSUME CloseReturn PROVE Rows'
    BY <1>8, RowsOutside DEF CloseReturn
<1>9. ASSUME NEW w \in Workers, WorkerTake(w) PROVE Rows'
    <2>1. UNCHANGED <<closed, ctx, row, enq, cpc, cjob, cancelLog>>
        BY <1>9 DEF WorkerTake
    <2>2. ASSUME NEW d \in Builds, enq[d] = "accepted", Queued(d) \/ Held(d)
          PROVE  Queued(d)' \/ Held(d)'
        BY <2>1, <2>2 DEF Places, OnePlace
    <2>3. FinishingIsFinal'
        BY <1>9, <2>1 DEF WorkerTake, Rows, FinishingIsFinal
    <2> QED
        BY <2>1, <2>2, <2>3 DEF Rows, CancelExplained, StoppedEnded, NoOrphanRow
<1>10. ASSUME NEW w \in Workers, WorkerExit(w) PROVE Rows'
    BY <1>10 DEF WorkerExit, Rows, CancelExplained, StoppedEnded, FinishingIsFinal, NoOrphanRow,
       Queued, Held, Holds
<1>11. ASSUME NEW w \in Workers, Register(w) PROVE Rows'
    <2>1. wjob[w] \in Builds /\ ctx[wjob[w]] = "none"
        BY <1>11 DEF Register, Places, WorkerContexts
    <2>2. \A x \in Workers : wpc'[x] = "finishing" => wpc[x] = "finishing" /\ wjob[x] # wjob[w]
        BY <1>11, <2>1 DEF Register, Places, OnePlace
    <2>3. UNCHANGED <<closed, row, wjob, enq, queue, cpc, cjob, cancelLog>>
        BY <1>11 DEF Register
    <2>4. ctx' = [ctx EXCEPT ![wjob[w]] = "live"]
        BY <1>11 DEF Register
    <2>5. CancelExplained' /\ StoppedEnded'
        BY <2>1, <2>3, <2>4 DEF Rows, CancelExplained, StoppedEnded
    <2>6. FinishingIsFinal'
        BY <2>1, <2>2, <2>3, <2>4 DEF Rows, FinishingIsFinal
    <2>7. NoOrphanRow'
        BY <2>3 DEF Rows, NoOrphanRow, Queued, Held, Holds
    <2> QED
        BY <2>5, <2>6, <2>7 DEF Rows
<1>12. ASSUME NEW w \in Workers, NEW from \in Steps \ {"idle", "exited", "registering", "finishing"},
              NEW to \in Steps, NEW s \in Statuses, to = "finishing" => s \in Terminal,
              Record(w, from, s, to)
       PROVE  Rows'
    <2>1. ctx[wjob[w]] \in {"live", "cancelled"} /\ wjob[w] \in Builds
        BY <1>12 DEF Record, Places, WorkerContexts
    <2>2. row' \in {row, [row EXCEPT ![wjob[w]] = s]} /\ (ctx[wjob[w]] # "live" => UNCHANGED row)
        BY ZenonT(60), <1>12, <2>1 DEF Record, UpdateStatus
    <2>3. to = "finishing" => row'[wjob[w]] \in Terminal \/ ctx[wjob[w]] = "cancelled"
        BY <1>12, <2>1 DEF Record, UpdateStatus
    <2> QED
        BY <1>12, <2>2, <2>3, RowsInside DEF Record
<1>13. ASSUME NEW w \in Workers, NEW pc \in Steps \ {"finishing"},
              wpc[w] \notin {"idle", "exited", "registering", "finishing"},
              wpc' = [wpc EXCEPT ![w] = pc],
              UNCHANGED <<closed, queue, cancels, ctx, row, enq, wjob, cpc, cjob, cancelLog>>
       PROVE  Rows'
    BY <1>13, RowsInside DEF Statuses
<1>14. ASSUME NEW w \in Workers, CheckCancelled(w) PROVE Rows'
    <2>1. PICK pc \in {"finishing", "toCloning"} :
              /\ wpc' = [wpc EXCEPT ![w] = pc]
              /\ pc = "finishing" => row[wjob[w]] = "cancelled"
        BY <1>14 DEF CheckCancelled
    <2> QED
        BY <1>14, <2>1, RowsInside DEF CheckCancelled, Steps, Statuses, Terminal
<1>15. ASSUME NEW w \in Workers, Clone(w) \/ Build(w) \/ Push(w) \/ Deploy(w) \/ SyncService(w)
       PROVE  Rows'
    <2>1. PICK pc \in {"toBuilding", "pushing", "toDeploying", "syncing", "toSuccess", "failing"} :
              wpc' = [wpc EXCEPT ![w] = pc]
        BY <1>15 DEF Clone, Build, Call, Push, Deploy, SyncService
    <2> QED
        BY <1>13, <1>15, <2>1 DEF Clone, Build, Call, Push, Deploy, SyncService, Steps
<1>16. ASSUME NEW w \in Workers, Finish(w) PROVE Rows'
    <2> DEFINE b == wjob[w]
    <2>1. b \in Builds /\ ctx[b] \in {"live", "cancelled"}
        BY <1>16 DEF Finish, Places, WorkerContexts
    <2>2. UNCHANGED <<closed, row, queue, enq, cpc, cjob, cancelLog>>
        BY <1>16 DEF Finish
    <2>3. ctx' = [ctx EXCEPT ![b] = "done"]
        BY <1>16 DEF Finish
    <2>4. CancelExplained' /\ StoppedEnded'
        BY <2>1, <2>2, <2>3 DEF Rows, CancelExplained, StoppedEnded
    <2>5. FinishingIsFinal'
        <3> SUFFICES ASSUME NEW x \in Workers, wpc'[x] = "finishing"
                     PROVE  row'[wjob'[x]] \in Terminal \/ ctx'[wjob'[x]] = "cancelled"
            BY DEF FinishingIsFinal
        <3>1. x # w /\ wpc[x] = "finishing" /\ wjob'[x] = wjob[x] /\ wjob[x] \in Builds /\ wjob[x] # b
            BY <1>16, <2>1 DEF Finish, Places, OnePlace
        <3> QED
            BY <2>2, <2>3, <3>1 DEF Rows, FinishingIsFinal
    <2>6. \A d \in Builds : d # b /\ Held(d) => Held(d)'
        BY <1>16 DEF Finish, Held, Holds
    <2>7. row[b] \in Terminal \/ ctx[b] = "cancelled"
        BY <1>16 DEF Finish, Rows, FinishingIsFinal
    <2>8. NoOrphanRow'
        BY <2>1, <2>2, <2>6, <2>7 DEF Rows, NoOrphanRow, CancelExplained, Queued, Terminal
    <2> QED
        BY <2>4, <2>5, <2>8 DEF Rows
<1>17. ASSUME NEW w \in Workers, Work(w) PROVE Rows'
    <2>1. RecordCloning(w) \/ RecordBuilding(w) \/ RecordDeploying(w) \/ RecordSuccess(w) \/ FailBuild(w)
              => Rows'
        BY <1>12 DEF RecordCloning, RecordBuilding, RecordDeploying, RecordSuccess, FailBuild,
           Steps, Statuses, Active, Terminal
    <2> QED
        BY <1>9, <1>10, <1>11, <1>14, <1>15, <1>16, <1>17, <2>1 DEF Work, Execute
<1>18. CASE UNCHANGED vars
    BY <1>18, RowsOutside DEF vars
<1> QED
    BY <1>1, <1>2, <1>3, <1>4, <1>5, <1>6, <1>7, <1>8, <1>17, <1>18 DEF Next, Enqueue, Cancel
-----------------------------------------------------------------------------
\* The inductive invariant of the manager.
IInv == Typed /\ Places /\ Rows /\ Images

THEOREM IInvHolds == SafetySpec => []IInv
<1>1. Init => IInv
    BY TypedInit, PlacesInit, RowsInit DEF IInv
<1>2. IInv /\ [Next]_vars => IInv'
    <2> SUFFICES ASSUME IInv, [Next]_vars PROVE IInv'
        OBVIOUS
    <2>1. Typed'
        BY TypedNext DEF IInv
    <2>2. Places'
        BY <2>1, PlacesNext DEF IInv
    <2>3. Rows'
        BY <2>1, <2>2, RowsNext DEF IInv
    <2>4. Images'
        BY ImagesNext DEF IInv
    <2> QED
        BY <2>1, <2>2, <2>3, <2>4 DEF IInv
<1> QED
    BY <1>1, <1>2, PTL DEF SafetySpec

\* An accepted build is in exactly one place: the channel, one worker, or over.
THEOREM OnePlaceHolds == SafetySpec => []OnePlace
BY IInvHolds, PTL DEF IInv, Places

\* The map of cancel functions holds exactly the contexts that can be cancelled.
THEOREM CancelsAreLiveHolds == SafetySpec => []CancelsAreLive
BY IInvHolds, PTL DEF IInv, Places

\* A row is left in an unfinished status only by a Close or an unfinished Cancel.
THEOREM NoOrphanRowHolds == SafetySpec => []NoOrphanRow
BY IInvHolds, PTL DEF IInv, Rows

\* A cancelled row whose job was found running stays cancelled.
THEOREM CancelSticksHolds == SafetySpec => []CancelSticks
<1>1. IInv => CancelSticks
    BY DEF IInv, Rows, StoppedEnded, CancelSticks
<1> QED
    BY <1>1, IInvHolds, PTL

\* Only published images are rolled out or named by a service.
THEOREM ImagePublishedBeforeUseHolds == SafetySpec => []ImagePublishedBeforeUse
BY IInvHolds, PTL DEF IInv, Images
-----------------------------------------------------------------------------
\* Close returns only when every worker has left its loop, and none comes back.
Stopped == closer = "returned" => \A w \in Workers : wpc[w] = "exited"

LEMMA StoppedNext == Typed /\ Stopped /\ [Next]_vars => Stopped'
<1> SUFFICES ASSUME Typed, Stopped, [Next]_vars PROVE Stopped'
    OBVIOUS
<1> USE DEF Typed, TypeOK, Stopped, enqueueVars, workerVars, cancelVars, externalVars
<1>1. CASE CloseBegin \/ CloseReturn
    BY <1>1 DEF CloseBegin, CloseReturn
<1>2. ASSUME NEW b \in Builds, Enqueue(b) PROVE Stopped'
    BY <1>2 DEF Enqueue, EnqueueCheck, EnqueueRecord, EnqueueSend
<1>3. ASSUME NEW c \in Cancellers, Cancel(c) PROVE Stopped'
    BY <1>3 DEF Cancel, CancelTake, CancelFire, CancelWrite
<1>4. ASSUME NEW w \in Workers, Work(w) PROVE Stopped'
    <2>1. wpc[w] # "exited" /\ UNCHANGED closer
        BY <1>4 DEF Work, Execute, WorkerTake, WorkerExit, Register, CheckCancelled, RecordCloning,
           Clone, RecordBuilding, Build, Push, RecordDeploying, Deploy, SyncService, RecordSuccess,
           FailBuild, Finish, Record, Call
    <2> QED
        BY <2>1
<1>5. CASE UNCHANGED vars
    BY <1>5 DEF vars
<1> QED
    BY <1>1, <1>2, <1>3, <1>4, <1>5 DEF Next

\* After Close has returned, nothing is pushed, rolled out or named by a service any
\* more, and a row is only created or cancelled.
THEOREM ClosedIsQuietHolds == SafetySpec => ClosedIsQuiet
<1> DEFINE Quiet == closer = "returned" =>
        /\ UNCHANGED externalVars
        /\ \A b \in Builds : row'[b] # row[b] => row'[b] \in {"queued", "cancelled"}
<1>1. Init => Stopped
    BY DEF Init, Stopped
<1>2. Typed /\ Stopped /\ [Next]_vars => [Quiet]_vars
    <2> SUFFICES ASSUME Typed, Stopped, Next, closer = "returned" PROVE Quiet
        OBVIOUS
    <2> USE DEF Typed, TypeOK, Stopped, enqueueVars, workerVars, cancelVars, externalVars
    <2>1. CASE CloseBegin \/ CloseReturn
        BY <2>1 DEF CloseBegin, CloseReturn
    <2>2. ASSUME NEW b \in Builds, Enqueue(b) PROVE Quiet
        BY <2>2 DEF Enqueue, EnqueueCheck, EnqueueRecord, EnqueueSend
    <2>3. ASSUME NEW c \in Cancellers, Cancel(c) PROVE Quiet
        BY <2>3 DEF Cancel, CancelTake, CancelFire, CancelWrite
    <2>4. ASSUME NEW w \in Workers, Work(w) PROVE FALSE
        BY <2>4 DEF Work, Execute, WorkerTake, WorkerExit, Register, CheckCancelled, RecordCloning,
           Clone, RecordBuilding, Build, Push, RecordDeploying, Deploy, SyncService, RecordSuccess,
           FailBuild, Finish, Record, Call
    <2> QED
        BY <2>1, <2>2, <2>3, <2>4 DEF Next
<1> QED
    BY <1>1, <1>2, TypedInit, TypedNext, StoppedNext, PTL DEF SafetySpec, ClosedIsQuiet
-----------------------------------------------------------------------------
(* The manager implements BuildQueue. *)

\* The flag, the channels and the closer change together.
Gate == closed <=> closer # "open"

\* What the refinement rests on.
Refines == Typed /\ Places /\ Stopped /\ Gate

LEMMA GateNext == Typed /\ Gate /\ [Next]_vars => Gate'
<1> SUFFICES ASSUME Typed, Gate, [Next]_vars PROVE Gate'
    OBVIOUS
<1> USE DEF Typed, TypeOK, Gate, enqueueVars, workerVars, cancelVars, externalVars
<1>1. CASE CloseBegin \/ CloseReturn
    BY <1>1 DEF CloseBegin, CloseReturn
<1>2. ASSUME NEW b \in Builds, Enqueue(b) PROVE Gate'
    BY <1>2 DEF Enqueue, EnqueueCheck, EnqueueRecord, EnqueueSend
<1>3. ASSUME NEW c \in Cancellers, Cancel(c) PROVE Gate'
    BY <1>3 DEF Cancel, CancelTake, CancelFire, CancelWrite
<1>4. ASSUME NEW w \in Workers, Work(w) PROVE Gate'
    BY <1>4 DEF Work, Execute, WorkerTake, WorkerExit, Register, CheckCancelled, RecordCloning,
       Clone, RecordBuilding, Build, Push, RecordDeploying, Deploy, SyncService, RecordSuccess,
       FailBuild, Finish, Record, Call
<1>5. CASE UNCHANGED vars
    BY <1>5 DEF vars
<1> QED
    BY <1>1, <1>2, <1>3, <1>4, <1>5 DEF Next

\* A set whose elements are told apart by members of a finite set other than w is smaller than
\* that set.
LEMMA FewerThanWorkers ==
    ASSUME NEW W, IsFiniteSet(W), NEW w \in W, NEW S, NEW f \in [S -> W \ {w}],
           \A x, y \in S : f[x] = f[y] => x = y
    PROVE  IsFiniteSet(S) /\ Cardinality(S) < Cardinality(W)
<1>1. /\ IsFiniteSet(W \ {w}) /\ Cardinality(W) \in Nat
      /\ Cardinality(W \ {w}) = Cardinality(W) - 1
    BY FS_RemoveElement, FS_CardinalityType
<1>2. f \in Injection(S, W \ {w})
    BY DEF Injection, IsInjective
<1>3. IsFiniteSet(S) /\ Cardinality(S) <= Cardinality(W \ {w})
    BY <1>1, <1>2, FS_Injection
<1>4. Cardinality(S) \in Nat
    BY <1>3, FS_CardinalityType
<1> QED
    BY <1>1, <1>3, <1>4

\* The builds the queue sees running are those the workers hold.
LEMMA RunningIsHeld ==
    ASSUME Refines, NEW b \in Builds
    PROVE  /\ Stage(b) = "running" <=> Held(b)
           /\ Stage(b) = "waiting" <=> Queued(b)
           /\ Stage(b) = "outside" <=> enq[b] # "accepted"
           /\ Stage(b) = "over" <=> ctx[b] = "done"
BY DEF Refines, Places, OnePlace, Stage, WorkerContexts

\* Cardinality is the same operator wherever FiniteSets is extended.
LEMMA SameCardinality == \A S : Promise!Cardinality(S) = Cardinality(S)
BY DEF Promise!Cardinality, Promise!IsFiniteSet, Cardinality, IsFiniteSet

\* A worker without a job leaves a slot.
LEMMA SlotIsFree ==
    ASSUME Refines, NEW w \in Workers, wjob[w] = NoBuild
    PROVE  Cardinality(Promise!Running) < Cardinality(Workers)
<1> DEFINE f == [b \in Promise!Running |-> CHOOSE v \in Workers : wjob[v] = b]
<1>1. \A b \in Promise!Running : b \in Builds /\ \E v \in Workers : wjob[v] = b
    BY RunningIsHeld DEF Promise!Running, Held, Holds
<1>2. \A b \in Promise!Running : f[b] \in Workers \ {w} /\ wjob[f[b]] = b
    BY <1>1
<1>3. f \in [Promise!Running -> Workers \ {w}] /\ \A x, y \in Promise!Running : f[x] = f[y] => x = y
    BY <1>2
<1> QED
    BY <1>3, FewerThanWorkers, FiniteWorkers

\* What the queue sees of a step is where the builds are.
LEMMA Unmoved ==
    ASSUME UNCHANGED <<queue, closer, wjob>>,
           \A b \in Builds : enq'[b] = "accepted" <=> enq[b] = "accepted"
    PROVE  UNCHANGED Promise!vars
<1>1. \A b \in Builds : Stage(b)' = Stage(b)
    BY DEF Stage, Queued, Held, Holds
<1> QED
    BY <1>1 DEF Promise!vars

\* One build goes to another stage.
LEMMA Moved ==
    ASSUME NEW b \in Builds, NEW to, Stage(b)' = to,
           \A d \in Builds \ {b} : Stage(d)' = Stage(d)
    PROVE  [d \in Builds |-> Stage(d)]' = [[d \in Builds |-> Stage(d)] EXCEPT ![b] = to]
OBVIOUS

LEMMA QueueInit == Init => Promise!Init
BY DEF Init, Promise!Init, Stage

\* Every step of the manager is a step of the queue or leaves it alone.
LEMMA QueueNext == Refines /\ Refines' /\ [Next]_vars => [Promise!Next]_(Promise!vars)
<1> SUFFICES ASSUME Refines, Refines', [Next]_vars PROVE [Promise!Next]_(Promise!vars)
    OBVIOUS
<1> USE DEF Refines, Typed, TypeOK, Shape, enqueueVars, workerVars, cancelVars, externalVars
<1>1. ASSUME NEW b \in Builds, EnqueueCheck(b) \/ EnqueueRecord(b) PROVE UNCHANGED Promise!vars
    BY <1>1, Unmoved DEF EnqueueCheck, EnqueueRecord
<1>2. ASSUME NEW b \in Builds, EnqueueSend(b) PROVE [Promise!Next]_(Promise!vars)
    <2>1. CASE UNCHANGED queue /\ enq' \in {[enq EXCEPT ![b] = "panicked"], [enq EXCEPT ![b] = "full"]}
        <3>1. \A d \in Builds : enq'[d] = "accepted" <=> enq[d] = "accepted"
            BY <1>2, <2>1 DEF EnqueueSend
        <3> QED
            BY <1>2, <2>1, <3>1, Unmoved DEF EnqueueSend
    <2>2. CASE /\ ~closed /\ Len(queue) < QueueCapacity
               /\ enq' = [enq EXCEPT ![b] = "accepted"] /\ queue' = Append(queue, b)
        <3>1. \A d \in Builds : Queued(d)' <=> Queued(d) \/ d = b
            BY <2>2, AppendMembers DEF Queued
        <3>2. \A d \in Builds : Held(d)' <=> Held(d)
            BY <1>2 DEF EnqueueSend, Held, Holds
        <3>3. Stage(b) = "outside" /\ Stage(b)' = "waiting"
            BY <1>2, <2>2, <3>1 DEF EnqueueSend, Stage
        <3>4. \A d \in Builds \ {b} : Stage(d)' = Stage(d)
            BY <2>2, <3>1, <3>2 DEF Stage
        <3>5. closer = "open" /\ closer' = closer
            BY <1>2, <2>2 DEF EnqueueSend, Gate
        <3>6. Promise!Accept(b)
            BY <2>2, <3>3, <3>4, <3>5, Moved DEF Promise!Accept
        <3> QED
            BY <3>6 DEF Promise!Next
    <2> QED
        BY <1>2, <2>1, <2>2 DEF EnqueueSend
<1>3. ASSUME NEW c \in Cancellers, Cancel(c) PROVE UNCHANGED Promise!vars
    BY <1>3, Unmoved DEF Cancel, CancelTake, CancelFire, CancelWrite
<1>4. ASSUME CloseBegin PROVE Promise!BeginShut
    <2>1. UNCHANGED <<enq, queue, wjob>> /\ closer = "open" /\ closer' = "waiting"
        BY <1>4 DEF CloseBegin
    <2>2. \A b \in Builds : Stage(b)' = Stage(b)
        BY <2>1 DEF Stage, Queued, Held, Holds
    <2> QED
        BY <2>1, <2>2 DEF Promise!BeginShut
<1>5. ASSUME CloseReturn PROVE Promise!Shut
    <2>1. UNCHANGED <<enq, queue, wjob>> /\ closer = "waiting" /\ closer' = "returned"
        BY <1>5 DEF CloseReturn
    <2>2. \A b \in Builds : Stage(b)' = Stage(b)
        BY <2>1 DEF Stage, Queued, Held, Holds
    <2>3. \A b \in Builds : ~Held(b)
        BY <1>5 DEF CloseReturn, Held, Holds
    <2>4. Promise!Running = {}
        BY <2>3, RunningIsHeld DEF Promise!Running
    <2> QED
        BY <2>1, <2>2, <2>4 DEF Promise!Shut
<1>6. ASSUME NEW w \in Workers, WorkerTake(w) PROVE Promise!Start
    <2>0. PICK b \in Builds : b = Head(queue)
        BY <1>6 DEF WorkerTake
    <2>1. /\ wpc[w] = "idle" /\ queue # <<>> /\ queue' = Tail(queue) /\ b = Head(queue)
          /\ wjob' = [wjob EXCEPT ![w] = b] /\ UNCHANGED <<closer, enq>>
        BY <1>6, <2>0 DEF WorkerTake
    <2>2. Queued(b) /\ enq[b] = "accepted"
        BY <2>1 DEF Queued, Places, OnePlace
    <2>3. \A d \in Builds : Queued(d)' <=> Queued(d) /\ d # b
        <3>1. \A i, j \in 1..Len(queue) : queue[i] = queue[j] => i = j
            BY DEF Places, OnePlace
        <3>2. \A d \in Builds : (\E i \in 1..Len(Tail(queue)) : Tail(queue)[i] = d) <=>
                                (\E i \in 1..Len(queue) : queue[i] = d) /\ d # Head(queue)
            BY <2>1, <3>1, TailMembers
        <3> QED
            BY <2>1, <3>2 DEF Queued
    <2>4. \A d \in Builds : Held(d)' <=> Held(d) \/ d = b
        BY <2>1 DEF Held, Holds
    <2>5. Stage(b)' = "running"
        BY <2>1, <2>2, <2>3, <2>4 DEF Stage
    <2>6. \A d \in Builds \ {b} : Stage(d)' = Stage(d)
        BY <2>1, <2>3, <2>4 DEF Stage
    <2>7. closer # "returned"
        BY <2>1 DEF Stopped
    <2>8. Promise!Cardinality(Promise!Running) < Cardinality(Workers)
        BY <2>1, SlotIsFree, SameCardinality
    <2>9. [d \in Builds |-> Stage(d)]' = [[d \in Builds |-> Stage(d)] EXCEPT ![b] = "running"]
        BY <2>1, <2>5, <2>6, Moved
    <2> QED
        BY <2>1, <2>7, <2>8, <2>9 DEF Promise!Start
<1>7. ASSUME NEW w \in Workers, Finish(w) PROVE Promise!End(wjob[w])
    <2>0. PICK b \in Builds : b = wjob[w]
        BY <1>7 DEF Finish
    <2>1. /\ b = wjob[w] /\ Held(b) /\ UNCHANGED <<closer, enq, queue>>
          /\ wjob' = [wjob EXCEPT ![w] = NoBuild]
        BY <1>7, <2>0 DEF Finish, Held, Holds
    <2>2. \A d \in Builds : Held(d)' <=> Held(d) /\ d # b
        BY <2>1 DEF Held, Holds, Places, OnePlace
    <2>3. Stage(b) = "running" /\ Stage(b)' = "over"
        BY <2>1, <2>2, RunningIsHeld DEF Stage, Queued
    <2>4. \A d \in Builds \ {b} : Stage(d)' = Stage(d)
        BY <2>1, <2>2 DEF Stage, Queued
    <2>5. [d \in Builds |-> Stage(d)]' = [[d \in Builds |-> Stage(d)] EXCEPT ![b] = "over"]
        BY <2>1, <2>3, <2>4, Moved
    <2> QED
        BY <2>1, <2>3, <2>5 DEF Promise!End
<1>8. ASSUME NEW w \in Workers, Work(w) PROVE [Promise!Next]_(Promise!vars)
    <2>1. CASE WorkerTake(w) \/ Finish(w)
        <3>1. Finish(w) => wjob[w] \in Builds
            BY DEF Finish
        <3> QED
            BY <1>6, <1>7, <2>1, <3>1 DEF Promise!Next
    <2>2. CASE ~(WorkerTake(w) \/ Finish(w))
        <3>1. UNCHANGED <<queue, closer, wjob, enq>>
            BY <1>8, <2>2 DEF Work, Execute, WorkerExit, Register, CheckCancelled, RecordCloning,
               Clone, RecordBuilding, Build, Push, RecordDeploying, Deploy, SyncService,
               RecordSuccess, FailBuild, Record, Call
        <3> QED
            BY <3>1, Unmoved
    <2> QED
        BY <2>1, <2>2
<1>9. CASE UNCHANGED vars
    BY <1>9, Unmoved DEF vars
<1> QED
    BY <1>1, <1>2, <1>3, <1>4, <1>5, <1>8, <1>9 DEF Next, Enqueue, Promise!Next

\* The manager is the work queue of BuildQueue, for any number of workers and builds: accepted
\* builds wait in order, start in that order and once, never more at a time than there are
\* workers, and a shutdown is over only when none runs.
THEOREM ImplementsBuildQueueHolds == SafetySpec => ImplementsBuildQueue
<1>1. Init => Stopped /\ Gate
    BY DEF Init, Stopped, Gate
<1>2. Typed /\ Places /\ Stopped /\ Gate /\ [Next]_vars
        => Typed' /\ Places' /\ Stopped' /\ Gate'
    BY TypedNext, PlacesNext, StoppedNext, GateNext
<1>3. Refines <=> Typed /\ Places /\ Stopped /\ Gate
    BY DEF Refines
<1>4. Init => Refines
    BY <1>1, <1>3, TypedInit, PlacesInit
<1>5. Refines /\ [Next]_vars => Refines'
    BY <1>2 DEF Refines
<1> QED
    BY <1>4, <1>5, QueueInit, QueueNext, PTL DEF SafetySpec, ImplementsBuildQueue, Promise!SafetySpec
=============================================================================
