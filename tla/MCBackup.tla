--------------------------------- MODULE MCBackup ---------------------------------
(***************************************************************************)
(* The parts of the backup path that share no state - one upload with its  *)
(* restore, the retention of one service, and cron expressions - checked   *)
(* side by side: a behaviour is one of one part, the others stand still.   *)
(***************************************************************************)
EXTENDS MultipartUpload, Retention, CronExpr

VARIABLE part
vars == <<part, uploadVars, retentionVars, cronVars>>

Item(from, to, step) == [from |-> from, to |-> to, step |-> step]
MCMonthLengths == <<2, 3>>
MCDayFields == {Star, {Item(1, 3, 2)}, {Item(2, 2, 1)}, {Item(3, 3, 1)}}
MCWeekdayFields == {Star, {Item(1, 2, 1)}, {Item(2, 3, 1)}}

Policy(hourly, daily, weekly, monthly, max) ==
    [hourly |-> hourly, daily |-> daily, weekly |-> weekly, monthly |-> monthly, max |-> max]
MCPolicies == {Policy(0, 0, 0, 0, 0), Policy(2, 0, 0, 0, 0), Policy(1, 2, 0, 0, 0),
               Policy(0, 1, 2, 0, 0), Policy(0, 0, 0, 2, 0),
               Policy(1, 0, 1, 1, 2), Policy(0, 0, 0, 0, 2)}
MCUnitLength == [hourly |-> 2, daily |-> 3, weekly |-> 4]
\* Months of 1, 1, 2, 3 and 2 ticks, the third of which begins at tick 0.
MCMonthStart == <<-2, -1, 0, 2, 5, 7>>

SomePolicy == CHOOSE p \in MCPolicies : TRUE
SomeCron == ParseCron(0, {0}, Star, {1}, Star)
Init ==
    /\ part \in {"upload", "retention", "cron"}
    /\ UploadInit /\ RetentionInit /\ CronInit
    /\ part # "retention" => policy = SomePolicy
    /\ part # "cron" => cron = SomeCron
Next ==
    \/ part = "upload" /\ UploadNext /\ UNCHANGED <<part, retentionVars, cronVars>>
    \/ part = "retention" /\ RetentionNext /\ UNCHANGED <<part, uploadVars, cronVars>>
    \/ part = "cron" /\ ComesDue /\ UNCHANGED <<part, uploadVars, retentionVars>>

Spec ==
    /\ Init /\ [][Next]_vars
    /\ WF_vars(part = "upload" /\ ClientStep /\ UNCHANGED <<part, retentionVars, cronVars>>)

(* A backup that has begun ends, whatever fails on the way: no worker, collector or reader of    *)
(* UploadStreamMultipart is left waiting for another one - given that the dump comes to an end   *)
(* and that a request to S3 is answered or fails.                                                *)
StartedBackupReturns == part = "upload" /\ backup = "none" ~> backup # "none"
================================================================================
