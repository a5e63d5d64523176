----------------------------- MODULE MultipartUpload -----------------------------
(***************************************************************************)
(* One backup, from the dump in the container to the object in S3, and the *)
(* restore that reads the object back: ExecuteMultiDBBackup and -Restore   *)
(* of pkg/backup/multi_db.go, the exec streams of engine.go, and           *)
(* UploadStreamMultipart of pkg/backup/s3/client.go with its reader loop,  *)
(* its part workers, its collector, the requests S3 may refuse, or carry   *)
(* out while the answer is lost, and the pruning of stale uploads.         *)
(*                                                                         *)
(* A part is its number; the dump is whole when every part that was        *)
(* written has arrived and the dump command ended with exit code 0.  The   *)
(* copy loop in ExecStreamStdout ends only with the stream it reads: that  *)
(* the dump comes to an end is an assumption of the liveness property.     *)
(***************************************************************************)
EXTENDS Naturals, FiniteSets

CONSTANTS MaxParts,        \* bound: a dump fills at most this many parts
          MaxConcurrency,  \* ClientOptions.MaxConcurrency
          MaxAttempts      \* maxAttempts of uploadPart (3 in the code)

\* A dump has room for one part, NewClient replaces a concurrency that is not positive.
ASSUME MultipartUploadAssumption ==
    MaxParts \in Nat \ {0} /\ MaxConcurrency \in Nat \ {0} /\ MaxAttempts \in Nat \ {0}

Part == 1..MaxParts

VARIABLES
    dump,       \* the exec stream's end: "running", "ok", "failed"
    written,    \* parts' worth of data the dump has put into the pipe
    ctx,        \* FALSE when the job's context has ended
    reader,     \* where UploadStreamMultipart is
    held,       \* the part that has been read and waits for the semaphore, or 0
    last,       \* TRUE when the read that gave it also met the end of the pipe
    worker,     \* [Part -> "none", "put", "send" with its outcome, or "gone"]
    attempt,    \* [Part -> attempts of uploadPart so far]
    results,    \* partsChan: results sent and not collected
    uploaded,   \* uploadedParts of the collector
    uploadErr,  \* TRUE when uploadErr is set
    upload,     \* in S3: "none", "open", "completed", "aborted"
    stored,     \* parts S3 holds for the upload
    object,     \* the parts of the completed object; {} when there is none
    stale,      \* the open upload has become older than 24 hours
    abortLost,  \* an abort has failed
    backup,     \* what ExecuteMultiDBBackup has returned: "none", "ok", "failed"
    restore     \* [at, read] of a restore of the object

clientVars == <<reader, held, last, worker, attempt, results, uploaded, uploadErr>>
s3Vars     == <<upload, stored, object, stale, abortLost>>
uploadVars == <<dump, written, ctx, clientVars, s3Vars, backup, restore>>

UploadInit ==
    /\ dump = "running" /\ written = 0 /\ ctx = TRUE
    /\ reader = "initiate" /\ held = 0 /\ last = FALSE
    /\ worker = [p \in Part |-> "none"] /\ attempt = [p \in Part |-> 0]
    /\ results = {} /\ uploaded = {} /\ uploadErr = FALSE
    /\ upload = "none" /\ stored = {} /\ object = {} /\ stale = FALSE /\ abortLost = FALSE
    /\ backup = "none" /\ restore = [at |-> "none", read |-> {}]

\* A worker holds the semaphore from its start to its deferred release.
Running == {p \in Part : worker[p] \notin {"none", "gone"}}
goto(place) == reader' = place
--------------------------------------------------------------------------------
(* The reader loop. *)

\* initiate: S3 may open the upload although its answer is lost.
InitiateUpload ==
    /\ reader = "initiate"
    /\ \E answered, done \in BOOLEAN :
          /\ answered => done
          /\ done => ctx
          /\ upload' = IF done THEN "open" ELSE upload
          /\ abortLost' = (abortLost \/ (done /\ ~answered))  \* nobody knows its uploadId
          /\ goto(IF answered THEN "top" ELSE "failed")
    /\ UNCHANGED <<dump, written, ctx, held, last, worker, attempt, results, uploaded,
                   uploadErr, stored, object, stale, backup, restore>>

\* The context is looked at, then io.ReadFull waits for a full part or the end of the pipe.
CheckContext ==
    /\ reader = "top"
    /\ goto(IF ctx THEN "read" ELSE "wait")
    /\ uploadErr' = (uploadErr \/ ~ctx)
    /\ UNCHANGED <<dump, written, ctx, held, last, worker, attempt, results, uploaded,
                   s3Vars, backup, restore>>

\* A whole part, while the dump runs.
ReadPart ==
    /\ reader = "read" /\ dump = "running" /\ written < MaxParts
    /\ written' = written + 1 /\ held' = written + 1
    /\ goto("acquire")
    /\ UNCHANGED <<dump, ctx, last, worker, attempt, results, uploaded, uploadErr,
                   s3Vars, backup, restore>>

\* Mutant of DumpEnds: the pipe is closed without the error, whatever the dump returned.
DumpEndsCloses ==
    /\ reader = "read" /\ dump = "running"
    /\ \E ok, rest \in BOOLEAN :
          /\ dump' = IF ok THEN "ok" ELSE "failed"
          /\ rest => written < MaxParts
          /\ written' = IF rest THEN written + 1 ELSE written
          /\ held' = IF rest THEN written + 1 ELSE 0
          /\ last' = TRUE
          /\ goto(IF rest THEN "acquire" ELSE "wait")
          /\ uploadErr' = uploadErr
    /\ UNCHANGED <<ctx, worker, attempt, results, uploaded, s3Vars, backup, restore>>

\* The dump ends, perhaps after the first bytes of another part: the producer goroutine closes
\* the pipe, with an error unless the command returned without one and with exit code 0.
DumpEnds ==
    /\ reader = "read" /\ dump = "running"
    /\ \E ok, rest \in BOOLEAN :
          /\ dump' = IF ok THEN "ok" ELSE "failed"
          /\ rest => written < MaxParts
          /\ written' = IF rest THEN written + 1 ELSE written
          /\ held' = IF rest THEN written + 1 ELSE 0
          /\ last' = TRUE
          /\ goto(IF rest THEN "acquire" ELSE "wait")
          /\ uploadErr' = (uploadErr \/ (~ok /\ ~rest))
    /\ UNCHANGED <<ctx, worker, attempt, results, uploaded, s3Vars, backup, restore>>

\* Mutant of StartWorker: the semaphore has one place too many.
StartWorkerOneMore ==
    /\ reader = "acquire" /\ Cardinality(Running) <= MaxConcurrency
    /\ worker' = IF uploadErr THEN worker ELSE [worker EXCEPT ![held] = "put"]
    /\ goto(IF uploadErr \/ last THEN "wait" ELSE "top")
    /\ uploadErr' = (uploadErr \/ (last /\ dump = "failed"))
    /\ held' = 0
    /\ UNCHANGED <<dump, written, ctx, last, attempt, results, uploaded, s3Vars, backup, restore>>

\* The semaphore is free: the part gets a worker, unless another part's error is seen.
StartWorker ==
    /\ reader = "acquire" /\ Cardinality(Running) < MaxConcurrency
    /\ worker' = IF uploadErr THEN worker ELSE [worker EXCEPT ![held] = "put"]
    /\ goto(IF uploadErr \/ last THEN "wait" ELSE "top")
    /\ uploadErr' = (uploadErr \/ (last /\ dump = "failed"))   \* the read's own error
    /\ held' = 0
    /\ UNCHANGED <<dump, written, ctx, last, attempt, results, uploaded, s3Vars, backup, restore>>

\* The context ends first.
GiveUpAcquire ==
    /\ reader = "acquire" /\ ~ctx
    /\ goto("wait") /\ uploadErr' = TRUE /\ held' = 0
    /\ UNCHANGED <<dump, written, ctx, last, worker, attempt, results, uploaded,
                   s3Vars, backup, restore>>
--------------------------------------------------------------------------------
(* The part workers and the collector. *)

\* One attempt of uploadPart; a part sent again overwrites itself.
UploadPart(p) ==
    /\ worker[p] = "put"
    /\ attempt' = [attempt EXCEPT ![p] = @ + 1]
    /\ \E done, answered, refused \in BOOLEAN :
          /\ done => ctx /\ upload = "open"
          /\ answered => done
          /\ refused => ~done
          /\ stored' = IF done THEN stored \cup {p} ELSE stored
          /\ worker' = [worker EXCEPT ![p] =
                IF answered THEN "sent"
                ELSE IF refused \/ ~ctx \/ attempt[p] + 1 = MaxAttempts THEN "failed"
                ELSE "put"]
    /\ UNCHANGED <<dump, written, ctx, reader, held, last, results, uploaded, uploadErr,
                   upload, object, stale, abortLost, backup, restore>>

\* The result goes to partsChan, or is dropped when the context has ended.
SendResult(p) ==
    /\ worker[p] \in {"sent", "failed"}
    /\ \/ Cardinality(results) < MaxConcurrency
          /\ results' = results \cup {<<p, worker[p] = "sent">>}
       \/ ~ctx /\ results' = results
    /\ worker' = [worker EXCEPT ![p] = "gone"]
    /\ UNCHANGED <<dump, written, ctx, reader, held, last, attempt, uploaded, uploadErr,
                   s3Vars, backup, restore>>

\* Mutant of Collect: the collector stops at the first error.
CollectUntilError ==
    /\ ~uploadErr
    /\ \E res \in results :
          /\ results' = results \ {res}
          /\ uploaded' = IF res[2] THEN uploaded \cup {res[1]} ELSE uploaded
          /\ uploadErr' = (uploadErr \/ ~res[2])
    /\ UNCHANGED <<dump, written, ctx, reader, held, last, worker, attempt, s3Vars, backup, restore>>

Collect ==
    /\ \E res \in results :
          /\ results' = results \ {res}
          /\ uploaded' = IF res[2] THEN uploaded \cup {res[1]} ELSE uploaded
          /\ uploadErr' = (uploadErr \/ ~res[2])
    /\ UNCHANGED <<dump, written, ctx, reader, held, last, worker, attempt, s3Vars, backup, restore>>
--------------------------------------------------------------------------------
(* The end of UploadStreamMultipart. *)

\* wg.Wait, close(partsChan), <-collectorDone.
WaitWorkers ==
    /\ reader = "wait" /\ Running = {} /\ results = {}
    /\ goto(IF uploadErr THEN "abort" ELSE IF uploaded = {} THEN "empty" ELSE "complete")
    /\ UNCHANGED <<dump, written, ctx, held, last, worker, attempt, results, uploaded,
                   uploadErr, s3Vars, backup, restore>>

\* No part at all: an empty part 1 is uploaded.
UploadEmptyPart ==
    /\ reader = "empty"
    /\ \E ok \in BOOLEAN :
          /\ ok => ctx /\ upload = "open"
          /\ goto(IF ok THEN "complete" ELSE "abort")
          /\ uploaded' = IF ok THEN {1} ELSE uploaded
          /\ stored' = IF ok THEN {1} ELSE stored
    /\ UNCHANGED <<dump, written, ctx, held, last, worker, attempt, results, uploadErr,
                   upload, object, stale, abortLost, backup, restore>>

\* The parts, sorted by number; the answer may be lost although S3 has completed the upload, and
\* S3 may answer 200 and say in the body, which is not looked at, that it has not: "misread".
CompleteUpload ==
    /\ reader = "complete"
    /\ \E done, answered \in BOOLEAN :
          /\ done => upload = "open" /\ uploaded \subseteq stored
          /\ done \/ answered => ctx
          /\ upload' = IF done THEN "completed" ELSE upload
          /\ object' = IF done THEN uploaded ELSE object
          /\ goto(IF ~answered THEN "abort" ELSE IF done THEN "returned" ELSE "misread")
    /\ UNCHANGED <<dump, written, ctx, held, last, worker, attempt, results, uploaded,
                   uploadErr, stored, stale, abortLost, backup, restore>>

\* Mutant of AbortUpload: the abort uses the job's context.
AbortWithContext ==
    /\ reader = "abort"
    /\ \E ok \in BOOLEAN :
          /\ upload' = IF ok /\ ctx /\ upload = "open" THEN "aborted" ELSE upload
          /\ abortLost' = (abortLost \/ ~ok)
    /\ goto("failed")
    /\ UNCHANGED <<dump, written, ctx, held, last, worker, attempt, results, uploaded,
                   uploadErr, stored, object, stale, backup, restore>>

\* With context.Background(), whatever the job's context; its error is ignored.
AbortUpload ==
    /\ reader = "abort"
    /\ \E ok \in BOOLEAN :
          /\ upload' = IF ok /\ upload = "open" THEN "aborted" ELSE upload
          /\ abortLost' = (abortLost \/ ~ok)
    /\ goto("failed")
    /\ UNCHANGED <<dump, written, ctx, held, last, worker, attempt, results, uploaded,
                   uploadErr, stored, object, stale, backup, restore>>

\* ExecuteMultiDBBackup: after a failed upload the pipe is closed under the dump, which then
\* ends; the backup is good when the dump, its exit code and the upload are.
ReturnBackup ==
    /\ backup = "none" /\ reader \in {"returned", "misread", "failed"}
    /\ dump' = IF dump = "running" THEN "failed" ELSE dump
    /\ backup' = IF reader # "failed" /\ dump = "ok" THEN "ok" ELSE "failed"
    /\ UNCHANGED <<written, ctx, clientVars, s3Vars, restore>>
--------------------------------------------------------------------------------
(* Around it. *)

\* jobTimeout, Stop or the shutdown of the process ends the context.
EndContext ==
    /\ ctx /\ backup = "none"
    /\ ctx' = FALSE
    /\ UNCHANGED <<dump, written, clientVars, s3Vars, backup, restore>>

\* The process dies: nothing of the client is left.
CrashUpload ==
    /\ reader # "crashed" /\ backup = "none"
    /\ goto("crashed") /\ backup' = "failed" /\ ctx' = FALSE
    /\ dump' = IF dump = "running" THEN "failed" ELSE dump
    /\ worker' = [p \in Part |-> "none"] /\ results' = {} /\ held' = 0
    /\ UNCHANGED <<written, last, attempt, uploaded, uploadErr, s3Vars, restore>>

\* A day passes.  jobTimeout is minutes, so the job's context is over by then.
UploadAges ==
    /\ upload = "open" /\ ~stale /\ ~ctx
    /\ stale' = TRUE
    /\ UNCHANGED <<dump, written, ctx, clientVars, upload, stored, object, abortLost, backup, restore>>

\* PruneStaleMultipartUploads, at a scheduler's start.
PruneStale ==
    /\ upload = "open" /\ stale
    /\ upload' = "aborted"
    /\ UNCHANGED <<dump, written, ctx, clientVars, stored, object, stale, abortLost, backup, restore>>

\* ExecuteMultiDBRestore: DownloadStream, then gunzip and stdin of the restore command.  The
\* stream breaks anywhere; the command may end before it has read it all.
BeginRestore ==
    /\ restore.at = "none" /\ upload = "completed"
    /\ restore' = [at |-> "copy", read |-> {}]
    /\ UNCHANGED <<dump, written, ctx, clientVars, s3Vars, backup>>

CopyRestore ==
    /\ restore.at = "copy"
    /\ \E p \in object \ restore.read :
          /\ \A q \in object \ restore.read : p <= q
          /\ restore' = [restore EXCEPT !.read = @ \cup {p}]
    /\ UNCHANGED <<dump, written, ctx, clientVars, s3Vars, backup>>

\* ExecStreamStdin: the error of the copy goroutine, then the exit code.
EndRestore ==
    /\ restore.at = "copy"
    /\ \E copied, exit0 \in BOOLEAN :
          /\ copied => restore.read = object
          /\ restore' = [restore EXCEPT !.at = IF copied /\ exit0 THEN "restored" ELSE "failed"]
    /\ UNCHANGED <<dump, written, ctx, clientVars, s3Vars, backup>>
--------------------------------------------------------------------------------
ClientStep ==
    \/ InitiateUpload \/ CheckContext \/ ReadPart \/ DumpEnds \/ StartWorker \/ GiveUpAcquire
    \/ Collect \/ WaitWorkers \/ UploadEmptyPart \/ CompleteUpload \/ AbortUpload \/ ReturnBackup
    \/ \E p \in Part : UploadPart(p) \/ SendResult(p)

UploadNext ==
    \/ ClientStep \/ EndContext \/ CrashUpload \/ UploadAges \/ PruneStale
    \/ BeginRestore \/ CopyRestore \/ EndRestore

\* A step of the client that can be taken is taken: its goroutines run, a request to S3 has an
\* outcome and the dump comes to an end.
UploadSpec == UploadInit /\ [][UploadNext]_uploadVars /\ WF_uploadVars(ClientStep)
--------------------------------------------------------------------------------
(* Types of the upload's variables, and the limits on parts in flight and on results. *)
UploadTypeOK ==
    /\ dump \in {"running", "ok", "failed"} /\ written \in 0..MaxParts /\ ctx \in BOOLEAN
    /\ reader \in {"initiate", "top", "read", "acquire", "wait", "empty", "complete", "abort",
                   "returned", "misread", "failed", "crashed"}
    /\ held \in 0..MaxParts /\ last \in BOOLEAN
    /\ worker \in [Part -> {"none", "put", "sent", "failed", "gone"}]
    /\ attempt \in [Part -> 0..MaxAttempts]
    /\ results \subseteq Part \X BOOLEAN /\ Cardinality(results) <= MaxConcurrency
    /\ Cardinality(Running) <= MaxConcurrency
    /\ uploaded \subseteq Part /\ uploadErr \in BOOLEAN
    /\ upload \in {"none", "open", "completed", "aborted"}
    /\ stored \subseteq Part /\ object \subseteq Part /\ stale \in BOOLEAN /\ abortLost \in BOOLEAN
    /\ backup \in {"none", "ok", "failed"}
    /\ restore.at \in {"none", "copy", "restored", "failed"} /\ restore.read \subseteq object

(* What lies in S3 as a backup, what a backup reports as done and what a restore reports as      *)
(* restored is always a whole dump: every part of it, of a dump that ended without an error and  *)
(* with exit code 0 - with parts failing, retried or dropped, and the context ending, anywhere.  *)
(* Only a refusal that S3 sends as an answer 200 makes a backup good that is not there.          *)
BackupIsWholeDump ==
    /\ UploadTypeOK
    /\ upload = "completed" => dump = "ok" /\ object = 1..(IF written = 0 THEN 1 ELSE written)
    /\ backup = "ok" => upload = "completed" \/ reader = "misread"
    /\ restore.at = "restored" => upload = "completed" /\ restore.read = object

(* A backup that has ended leaves no open upload behind unless an abort itself (or the answer    *)
(* that named the upload) was lost, a refusal was misread or the process died; and pruning old   *)
(* uploads never takes one away from a backup that could still complete.                         *)
NoOrphanUpload ==
    /\ backup # "none" /\ upload = "open" => abortLost \/ reader \in {"misread", "crashed"}
    /\ upload = "aborted" => ~ctx \/ reader = "failed"
================================================================================
