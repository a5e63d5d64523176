----------------------------- MODULE BuildManager -----------------------------
(***************************************************************************)
(* The build manager of pkg/build/manager.go: HTTP handlers enqueue builds *)
(* and cancel them, a pool of workers executes them, Close shuts the pool  *)
(* down, and the status of every build is a row of the builds table that   *)
(* all of them write without looking at what it holds.                     *)
(*                                                                         *)
(* Every statement or call that another goroutine can observe is a step of *)
(* its own: a critical section of bm.mu, a channel operation, a store      *)
(* statement, an external call (clone, build, push, deploy).  An external  *)
(* call takes effect at one point, where its context is live: a call whose *)
(* context is cancelled before that point fails.                           *)
(***************************************************************************)
EXTENDS Naturals, Sequences, FiniteSets

CONSTANTS Builds,         \* build jobs; each is enqueued at most once (a fresh ID)
          Apps,           \* services a build can be for
          AppOf,          \* the service of each build (job.AppID)
          Workers,        \* worker goroutines
          Cancellers,     \* calls of Cancel that may run at the same time
          QueueCapacity,  \* capacity of the job channel
          NoBuild         \* no build

ASSUME BuildManagerAssumption ==
    /\ NoBuild \notin Builds
    /\ AppOf \in [Builds -> Apps]
    /\ Workers # {}
    /\ QueueCapacity \in Nat \ {0}

\* NewBuildManager starts as many workers as its concurrency says.
ASSUME FiniteWorkers == IsFiniteSet(Workers)

VARIABLES
    closed,     \* bm.closed; closeChan and the queue channel are closed with it
    closer,     \* where the one effective Close call is
    queue,      \* the buffer of the channel bm.queue
    cancels,    \* builds that have an entry in bm.cancels
    ctx,        \* state of each build's jobCtx
    row,        \* status column of each build's row in the builds table
    enq,        \* where each build's Enqueue call is, or how it ended
    wpc,        \* what each worker does next
    wjob,       \* the build each worker executes
    cpc,        \* where each Cancel call is
    cjob,       \* the build each Cancel call is for
    pushed,     \* builds whose image is in the registry
    deployed,   \* builds whose image was rolled out by DeployApp
    svc,        \* the build whose image each service row names
    cancelLog   \* history: how Cancel calls that called a cancel function ended

enqueueVars  == <<enq>>
workerVars   == <<wpc, wjob>>
cancelVars   == <<cpc, cjob, cancelLog>>
externalVars == <<pushed, deployed, svc>>
vars == <<closed, closer, queue, cancels, ctx, row, enq, wpc, wjob, cpc, cjob,
          pushed, deployed, svc, cancelLog>>

Active   == {"cloning", "building", "deploying"}
Terminal == {"success", "failed", "cancelled"}
Statuses == {"absent", "queued"} \cup Active \cup Terminal

\* The steps of executeJob, in the order of the code; "idle" is the select of
\* workerLoop, "exited" is after wg.Done.
Steps == {"idle", "registering", "checking", "toCloning", "cloning",
          "toBuilding", "building", "pushing", "toDeploying", "deploying",
          "syncing", "toSuccess", "failing", "finishing", "exited"}

EnqueueSteps == {"new", "checked", "recorded", "accepted", "full", "refused",
                 "unrecorded", "panicked"}

\* "taken" and "missed": the map was read, with and without an entry for the build;
\* "fired": the cancel function found there was called.
CancelSteps == {"idle", "taken", "fired", "missed"}

\* How a Cancel ended that called a cancel function: its row was then written, or could
\* not be.
CancelOutcomes == {"stopped", "lost"}

Queued(b)  == \E i \in 1..Len(queue) : queue[i] = b
Holds(w, b) == wjob[w] = b
Held(b)    == \E w \in Workers : Holds(w, b)

Init ==
    /\ closed = FALSE
    /\ closer = "open"
    /\ queue = <<>>
    /\ cancels = {}
    /\ ctx = [b \in Builds |-> "none"]
    /\ row = [b \in Builds |-> "absent"]
    /\ enq = [b \in Builds |-> "new"]
    /\ wpc = [w \in Workers |-> "idle"]
    /\ wjob = [w \in Workers |-> NoBuild]
    /\ cpc = [c \in Cancellers |-> "idle"]
    /\ cjob = [c \in Cancellers |-> NoBuild]
    /\ pushed = {}
    /\ deployed = {}
    /\ svc = [a \in Apps |-> NoBuild]
    /\ cancelLog = {}
-----------------------------------------------------------------------------
(* Enqueue *)

\* The closed flag is read under the read lock, which is released at once.
EnqueueCheck(b) ==
    /\ enq[b] = "new"
    /\ enq' = [enq EXCEPT ![b] = IF closed THEN "refused" ELSE "checked"]
    /\ UNCHANGED <<closed, closer, queue, cancels, ctx, row, workerVars, cancelVars, externalVars>>

\* The row is created as "queued"; the insert fails when the request's context ended.
EnqueueRecord(b) ==
    /\ enq[b] = "checked"
    /\ \/ /\ row' = [row EXCEPT ![b] = "queued"]
          /\ enq' = [enq EXCEPT ![b] = "recorded"]
       \/ /\ enq' = [enq EXCEPT ![b] = "unrecorded"]
          /\ UNCHANGED row
    /\ UNCHANGED <<closed, closer, queue, cancels, ctx, workerVars, cancelVars, externalVars>>

\* Mutant of EnqueueSend: a list instead of a channel, one element too long.
EnqueueSendOverfull(b) ==
    /\ enq[b] = "recorded"
    /\ ~closed
    /\ Len(queue) <= QueueCapacity
    /\ enq' = [enq EXCEPT ![b] = "accepted"]
    /\ queue' = Append(queue, b)
    /\ UNCHANGED <<closed, closer, cancels, ctx, row, workerVars, cancelVars, externalVars>>

\* Mutant of EnqueueSend: Close no longer closes the channel, so a late send succeeds.
EnqueueSendAfterClose(b) ==
    /\ enq[b] = "recorded"
    /\ Len(queue) < QueueCapacity
    /\ enq' = [enq EXCEPT ![b] = "accepted"]
    /\ queue' = Append(queue, b)
    /\ UNCHANGED <<closed, closer, cancels, ctx, row, workerVars, cancelVars, externalVars>>

\* A send on the closed channel panics; a full buffer takes the default branch.
EnqueueSend(b) ==
    /\ enq[b] = "recorded"
    /\ \/ /\ closed
          /\ enq' = [enq EXCEPT ![b] = "panicked"]
          /\ UNCHANGED queue
       \/ /\ ~closed
          /\ Len(queue) < QueueCapacity
          /\ enq' = [enq EXCEPT ![b] = "accepted"]
          /\ queue' = Append(queue, b)
       \/ /\ ~closed
          /\ Len(queue) >= QueueCapacity
          /\ enq' = [enq EXCEPT ![b] = "full"]
          /\ UNCHANGED queue
    /\ UNCHANGED <<closed, closer, cancels, ctx, row, workerVars, cancelVars, externalVars>>

Enqueue(b) == EnqueueCheck(b) \/ EnqueueRecord(b) \/ EnqueueSend(b)
-----------------------------------------------------------------------------
(* Cancel *)

\* The entry of the build, if there is one, leaves the map under the lock.
CancelTake(c, b) ==
    /\ cpc[c] = "idle"
    /\ cpc' = [cpc EXCEPT ![c] = IF b \in cancels THEN "taken" ELSE "missed"]
    /\ cjob' = [cjob EXCEPT ![c] = b]
    /\ cancels' = cancels \ {b}
    /\ UNCHANGED <<closed, closer, queue, ctx, row, enqueueVars, workerVars, externalVars, cancelLog>>

\* cancel() of a context that already ended changes nothing.
CancelFire(c) ==
    /\ cpc[c] = "taken"
    /\ cpc' = [cpc EXCEPT ![c] = "fired"]
    /\ ctx' = [ctx EXCEPT ![cjob[c]] = IF @ = "live" THEN "cancelled" ELSE @]
    /\ UNCHANGED <<closed, closer, queue, cancels, row, enqueueVars, workerVars, externalVars, cjob, cancelLog>>

\* The status is overwritten whatever it is.  The statement fails when there is no
\* row or when the caller's context ended; Cancel returns nil all the same.
CancelWrite(c) ==
    LET b == cjob[c] IN
    /\ cpc[c] \in {"fired", "missed"}
    /\ \/ /\ row[b] # "absent"
          /\ row' = [row EXCEPT ![b] = "cancelled"]
          /\ cancelLog' = IF cpc[c] = "fired" THEN cancelLog \cup {<<b, "stopped">>} ELSE cancelLog
       \/ /\ UNCHANGED row
          /\ cancelLog' = IF cpc[c] = "fired" THEN cancelLog \cup {<<b, "lost">>} ELSE cancelLog
    /\ cpc' = [cpc EXCEPT ![c] = "idle"]
    /\ cjob' = [cjob EXCEPT ![c] = NoBuild]
    /\ UNCHANGED <<closed, closer, queue, cancels, ctx, enqueueVars, workerVars, externalVars>>

Cancel(c) == (\E b \in Builds : CancelTake(c, b)) \/ CancelFire(c) \/ CancelWrite(c)
-----------------------------------------------------------------------------
(* Close *)

\* Mutant of CloseBegin: the cancel functions are called but the channels stay open.
CloseBeginChannelsOpen ==
    /\ closer = "open"
    /\ closer' = "waiting"
    /\ ctx' = [b \in Builds |-> IF b \in cancels /\ ctx[b] = "live" THEN "cancelled" ELSE ctx[b]]
    /\ cancels' = {}
    /\ UNCHANGED <<closed, queue, row, enqueueVars, workerVars, cancelVars, externalVars>>

\* One critical section closes the manager and both channels, calls every
\* registered cancel function and empties the map.
CloseBegin ==
    /\ closer = "open"
    /\ closer' = "waiting"
    /\ closed' = TRUE
    /\ ctx' = [b \in Builds |-> IF b \in cancels /\ ctx[b] = "live" THEN "cancelled" ELSE ctx[b]]
    /\ cancels' = {}
    /\ UNCHANGED <<queue, row, enqueueVars, workerVars, cancelVars, externalVars>>

\* Mutant of CloseReturn: Close does not wait for the workers.
CloseReturnAtOnce ==
    /\ closer = "waiting"
    /\ closer' = "returned"
    /\ UNCHANGED <<closed, queue, cancels, ctx, row, enqueueVars, workerVars, cancelVars, externalVars>>

\* wg.Wait
CloseReturn ==
    /\ closer = "waiting"
    /\ \A w \in Workers : wpc[w] = "exited"
    /\ closer' = "returned"
    /\ UNCHANGED <<closed, queue, cancels, ctx, row, enqueueVars, workerVars, cancelVars, externalVars>>
-----------------------------------------------------------------------------
(* The workers *)

\* Mutant of WorkerTake: the job is read without being removed.
WorkerTakePeeks(w) ==
    /\ wpc[w] = "idle"
    /\ queue # <<>>
    /\ wpc' = [wpc EXCEPT ![w] = "registering"]
    /\ wjob' = [wjob EXCEPT ![w] = Head(queue)]
    /\ UNCHANGED <<closed, closer, queue, cancels, ctx, row, enqueueVars, cancelVars, externalVars>>

\* The select of workerLoop: with both channels ready Go picks either one.
WorkerTake(w) ==
    /\ wpc[w] = "idle"
    /\ queue # <<>>
    /\ wpc' = [wpc EXCEPT ![w] = "registering"]
    /\ wjob' = [wjob EXCEPT ![w] = Head(queue)]
    /\ queue' = Tail(queue)
    /\ UNCHANGED <<closed, closer, cancels, ctx, row, enqueueVars, cancelVars, externalVars>>

WorkerExit(w) ==
    /\ wpc[w] = "idle"
    /\ closed
    /\ wpc' = [wpc EXCEPT ![w] = "exited"]
    /\ UNCHANGED <<closed, closer, queue, cancels, ctx, row, wjob, enqueueVars, cancelVars, externalVars>>

\* The job's context is created and its cancel function entered in the map.
Register(w) ==
    /\ wpc[w] = "registering"
    /\ wpc' = [wpc EXCEPT ![w] = "checking"]
    /\ ctx' = [ctx EXCEPT ![wjob[w]] = "live"]
    /\ cancels' = cancels \cup {wjob[w]}
    /\ UNCHANGED <<closed, closer, queue, row, wjob, enqueueVars, cancelVars, externalVars>>

\* A row already "cancelled" ends the job; a failing read is ignored.
CheckCancelled(w) ==
    LET b == wjob[w] IN
    /\ wpc[w] = "checking"
    /\ wpc' = [wpc EXCEPT ![w] = IF ctx[b] = "live" /\ row[b] = "cancelled"
                                 THEN "finishing" ELSE "toCloning"]
    /\ UNCHANGED <<closed, closer, queue, cancels, ctx, row, wjob, enqueueVars, cancelVars, externalVars>>

\* Mutant of UpdateStatus: the status is written under a context that never ends.
UpdateStatusAnyContext(b, status) == row' = [row EXCEPT ![b] = status]

\* UPDATE builds SET status = ...: it is unconditional, needs a live context,
\* and its error is dropped.
UpdateStatus(b, status) ==
    row' = [row EXCEPT ![b] = IF ctx[b] = "live" THEN status ELSE @]

Record(w, from, status, to) ==
    /\ wpc[w] = from
    /\ wpc' = [wpc EXCEPT ![w] = to]
    /\ UpdateStatus(wjob[w], status)
    /\ UNCHANGED <<closed, closer, queue, cancels, ctx, wjob, enqueueVars, cancelVars, externalVars>>

RecordCloning(w)   == Record(w, "toCloning", "cloning", "cloning")
RecordBuilding(w)  == Record(w, "toBuilding", "building", "building")
RecordDeploying(w) == Record(w, "toDeploying", "deploying", "deploying")
RecordSuccess(w)   == Record(w, "toSuccess", "success", "finishing")
FailBuild(w)       == Record(w, "failing", "failed", "finishing")

\* A call that has no effect here but its outcome: only a live context lets it succeed.
Call(w, from, to) ==
    /\ wpc[w] = from
    /\ \/ /\ ctx[wjob[w]] = "live"
          /\ wpc' = [wpc EXCEPT ![w] = to]
       \/ wpc' = [wpc EXCEPT ![w] = "failing"]
    /\ UNCHANGED <<closed, closer, queue, cancels, ctx, row, wjob, enqueueVars, cancelVars, externalVars>>

\* Mutant of Clone: an error returns without failBuild.
CloneErrorReturns(w) ==
    /\ wpc[w] = "cloning"
    /\ wpc' = [wpc EXCEPT ![w] = IF ctx[wjob[w]] = "live" THEN "toBuilding" ELSE "finishing"]
       \/ wpc' = [wpc EXCEPT ![w] = "finishing"]
    /\ UNCHANGED <<closed, closer, queue, cancels, ctx, row, wjob, enqueueVars, cancelVars, externalVars>>

Clone(w) == Call(w, "cloning", "toBuilding")
Build(w) == Call(w, "building", "pushing")

\* Mutant of Push: an error is logged and the job goes on.
PushErrorLogged(w) ==
    /\ wpc[w] = "pushing"
    /\ wpc' = [wpc EXCEPT ![w] = "toDeploying"]
    /\ pushed' \in {pushed, pushed \cup {wjob[w]}}
    /\ UNCHANGED <<closed, closer, queue, cancels, ctx, row, wjob, deployed, svc, enqueueVars, cancelVars>>

Push(w) ==
    /\ wpc[w] = "pushing"
    /\ \/ /\ ctx[wjob[w]] = "live"
          /\ pushed' = pushed \cup {wjob[w]}
          /\ wpc' = [wpc EXCEPT ![w] = "toDeploying"]
       \/ /\ wpc' = [wpc EXCEPT ![w] = "failing"]
          /\ UNCHANGED pushed
    /\ UNCHANGED <<closed, closer, queue, cancels, ctx, row, wjob, deployed, svc, enqueueVars, cancelVars>>

\* An error of DeployApp is only logged: the job goes on as if it had worked.
Deploy(w) ==
    /\ wpc[w] = "deploying"
    /\ wpc' = [wpc EXCEPT ![w] = "syncing"]
    /\ \/ /\ ctx[wjob[w]] = "live"
          /\ deployed' = deployed \cup {wjob[w]}
       \/ UNCHANGED deployed
    /\ UNCHANGED <<closed, closer, queue, cancels, ctx, row, wjob, pushed, svc, enqueueVars, cancelVars>>

\* Read and rewrite of the service row (only its image is kept here): both
\* statements need a live context.
SyncService(w) ==
    LET b == wjob[w] IN
    /\ wpc[w] = "syncing"
    /\ wpc' = [wpc EXCEPT ![w] = "toSuccess"]
    /\ svc' = [svc EXCEPT ![AppOf[b]] = IF ctx[b] = "live" THEN b ELSE @]
    /\ UNCHANGED <<closed, closer, queue, cancels, ctx, row, wjob, pushed, deployed, enqueueVars, cancelVars>>

\* Mutant of Finish: the entry stays in the map.
FinishKeepsEntry(w) ==
    /\ wpc[w] = "finishing"
    /\ wpc' = [wpc EXCEPT ![w] = "idle"]
    /\ wjob' = [wjob EXCEPT ![w] = NoBuild]
    /\ ctx' = [ctx EXCEPT ![wjob[w]] = "done"]
    /\ UNCHANGED <<closed, closer, queue, cancels, row, enqueueVars, cancelVars, externalVars>>

\* Mutant of Finish: the worker goroutine ends with its job.
FinishEndsWorker(w) ==
    /\ wpc[w] = "finishing"
    /\ wpc' = [wpc EXCEPT ![w] = "exited"]
    /\ wjob' = [wjob EXCEPT ![w] = NoBuild]
    /\ cancels' = cancels \ {wjob[w]}
    /\ ctx' = [ctx EXCEPT ![wjob[w]] = "done"]
    /\ UNCHANGED <<closed, closer, queue, row, enqueueVars, cancelVars, externalVars>>

\* The deferred calls of executeJob: the entry leaves the map, the context ends.
Finish(w) ==
    /\ wpc[w] = "finishing"
    /\ wpc' = [wpc EXCEPT ![w] = "idle"]
    /\ wjob' = [wjob EXCEPT ![w] = NoBuild]
    /\ cancels' = cancels \ {wjob[w]}
    /\ ctx' = [ctx EXCEPT ![wjob[w]] = "done"]
    /\ UNCHANGED <<closed, closer, queue, row, enqueueVars, cancelVars, externalVars>>

Execute(w) ==
    \/ Register(w) \/ CheckCancelled(w)
    \/ RecordCloning(w) \/ Clone(w)
    \/ RecordBuilding(w) \/ Build(w) \/ Push(w)
    \/ RecordDeploying(w) \/ Deploy(w) \/ SyncService(w) \/ RecordSuccess(w)
    \/ FailBuild(w) \/ Finish(w)

Work(w) == WorkerTake(w) \/ WorkerExit(w) \/ Execute(w)
-----------------------------------------------------------------------------
Next ==
    \/ \E b \in Builds : Enqueue(b)
    \/ \E c \in Cancellers : Cancel(c)
    \/ CloseBegin
    \/ CloseReturn
    \/ \E w \in Workers : Work(w)

\* Goroutines are scheduled, handlers run to their end, and an external call
\* returns.  Nobody has to enqueue, cancel or close.
Fairness ==
    /\ \A b \in Builds : WF_vars(EnqueueRecord(b) \/ EnqueueSend(b))
    /\ \A c \in Cancellers : WF_vars(CancelFire(c) \/ CancelWrite(c))
    /\ \A w \in Workers : WF_vars(Work(w))
    /\ WF_vars(CloseReturn)

SafetySpec == Init /\ [][Next]_vars
Spec == SafetySpec /\ Fairness
-----------------------------------------------------------------------------
(* Properties *)

\* Every variable has a value the code can give it.
TypeOK ==
    /\ closed \in BOOLEAN
    /\ closer \in {"open", "waiting", "returned"}
    /\ queue \in Seq(Builds) /\ Len(queue) <= QueueCapacity
    /\ cancels \subseteq Builds
    /\ ctx \in [Builds -> {"none", "live", "cancelled", "done"}]
    /\ row \in [Builds -> Statuses]
    /\ enq \in [Builds -> EnqueueSteps]
    /\ wpc \in [Workers -> Steps]
    /\ wjob \in [Workers -> Builds \cup {NoBuild}]
    /\ cpc \in [Cancellers -> CancelSteps]
    /\ cjob \in [Cancellers -> Builds \cup {NoBuild}]
    /\ pushed \subseteq Builds
    /\ deployed \subseteq Builds
    /\ svc \in [Apps -> Builds \cup {NoBuild}]
    /\ cancelLog \subseteq Builds \X CancelOutcomes

\* A build Enqueue accepted is in exactly one place: the channel, one worker, or
\* over.  Nothing else is in the channel or at a worker, so no build is lost or run
\* twice however Enqueue, Cancel, Close and the workers interleave.
OnePlace ==
    /\ \A i, j \in 1..Len(queue) : queue[i] = queue[j] => i = j
    /\ \A w, x \in Workers : wjob[w] = wjob[x] /\ wjob[w] # NoBuild => w = x
    /\ \A b \in Builds :
         /\ Queued(b) => ~Held(b) /\ ctx[b] = "none"
         /\ Held(b) => ctx[b] # "done"
         /\ enq[b] = "accepted" <=> Queued(b) \/ Held(b) \/ ctx[b] = "done"

\* bm.cancels holds exactly the contexts that can still be cancelled: each entry is
\* the live context of a running job, and a running job with a live context has its
\* entry, unless a Cancel took it and is about to call it.  So no entry outlives its
\* job, and no job escapes a Cancel or a Close that comes while it runs.
CancelsAreLive ==
    \A b \in Builds :
        b \in cancels \/ (\E c \in Cancellers : cpc[c] = "taken" /\ cjob[c] = b /\ ctx[b] = "live")
            <=> ctx[b] = "live"

\* A row is not left in a status that promises more work: an accepted build that is
\* neither waiting nor running has a final status, except in the three ways the code
\* leaves it behind - Close ended it, or a Cancel ended it and has still to write the
\* row, or could not write it.
NoOrphanRow ==
    \A b \in Builds :
        enq[b] = "accepted" /\ row[b] \notin Terminal =>
            \/ Queued(b) \/ Held(b)
            \/ closed
            \/ <<b, "lost">> \in cancelLog
            \/ \E c \in Cancellers : cjob[c] = b /\ cpc[c] = "fired"

\* Once a Cancel that found the running job has written "cancelled", the row stays
\* so: the worker that still unwinds the job cannot overwrite it, whatever it does.
CancelSticks ==
    \A b \in Builds : <<b, "stopped">> \in cancelLog => row[b] = "cancelled"

\* Only images that are in the registry are rolled out or named by a service row.
ImagePublishedBeforeUse ==
    /\ deployed \subseteq pushed
    /\ \A a \in Apps : svc[a] \in pushed \cup {NoBuild}

\* After Close has returned the workers have stopped for good: nothing is pushed,
\* rolled out or recorded for a service, and a row changes only when it is created by
\* an Enqueue that passed its check earlier, or cancelled by a Cancel.
ClosedIsQuiet ==
    [][closer = "returned" =>
         /\ UNCHANGED externalVars
         /\ \A b \in Builds : row'[b] # row[b] => row'[b] \in {"queued", "cancelled"}]_vars

\* While the manager stays open, every accepted build reaches a final status, or its
\* row is one that a failing Cancel left behind.
AcceptedFinishes ==
    \A b \in Builds :
        enq[b] = "accepted" ~> row[b] \in Terminal \/ closed \/ <<b, "lost">> \in cancelLog

\* Close returns: it cannot wait forever for the workers.
CloseReturns == closer = "waiting" ~> closer = "returned"

\* The manager is the work queue BuildQueue describes: started in order, at most
\* Cardinality(Workers) at once, shut only when idle.
Stage(b) == IF enq[b] # "accepted" THEN "outside"
            ELSE IF Queued(b) THEN "waiting"
            ELSE IF Held(b) THEN "running"
            ELSE "over"

Promise == INSTANCE BuildQueue WITH
    stage <- [b \in Builds |-> Stage(b)],
    line  <- queue,
    gate  <- CASE closer = "open" -> "open"
               [] closer = "waiting" -> "closing"
               [] closer = "returned" -> "shut",
    Slots <- Cardinality(Workers)

\* Every step of the manager is a step of the queue, or none of its business.
ImplementsBuildQueue == Promise!SafetySpec

\* And the queue moves: builds are started while the manager is open, started builds
\* end, and a shutdown completes.
BuildQueueMoves == Promise!Fairness
-----------------------------------------------------------------------------
(* What comments of the code say and the code does not do *)

\* manager.go:23: "ErrManagerClosed is returned when enqueueing to a terminated
\* BuildManager": no Enqueue ends any other way because the manager was closed.
EnqueueNeverPanics == \A b \in Builds : enq[b] # "panicked"

\* manager.go:241: "Cancel terminates a running or queued build job": a build whose row
\* says "cancelled" is not taken up again.
CancelTerminates ==
    [][\A b \in Builds : row[b] = "cancelled" => row'[b] \notin Active]_vars
=============================================================================
