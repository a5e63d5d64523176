----------------------------- MODULE AppDeploy -----------------------------
(***************************************************************************)
(* One application: the controller's copy of it (c.apps), its row of       *)
(* `services`, its containers or its Swarm service, and the requests that  *)
(* work on it.  The controller finds an app by its id or by its name and   *)
(* passes on what it was given, so a request carries a reference.  Beside  *)
(* the app a template may have been deployed whose container carries the   *)
(* app's name: the only kind DeployWithRollingUpdate takes for the old one *)
(* since the containers it makes are named, and labelled, name_v_<time>.   *)
(***************************************************************************)
EXTENDS Naturals, FiniteSets

CONSTANTS Deployers,    \* request slots
          MaxVersions,  \* bound: containers ever created
          MaxAppCalls,  \* bound: requests ever made
          MayFail,      \* whether Docker calls, contexts and the server may fail
          NoApp, NoService

ASSUME AppDeployAssumption ==
    /\ MaxVersions \in Nat /\ MaxAppCalls \in Nat
    /\ MayFail \in BOOLEAN
    /\ NoService \notin [version : Nat, replicas : Nat]

VARIABLES mode,      \* "standalone" or "swarm", found at start-up
          mem,       \* the entry of c.apps, or NoApp
          appRow,    \* the row of `services`, or NoApp
          template,  \* whether the template's row exists
          made,      \* the containers, by number
          service,   \* the Swarm service, or NoService
          call,      \* what each request is doing
          asked,     \* how many requests were made, for the bound
          proven,    \* ghost: containers that passed their probation
          served     \* ghost: the app was put in service and not taken out

appVars == <<mode, mem, appRow, template, made, service, call, asked, proven, served>>
appRows == <<mem, appRow, template>>
appGhosts == <<proven, served>>

Versions == 1 .. MaxVersions
Made == {c \in Versions : made[c].state \in {"created", "running", "exited"}}
Up == {c \in Versions : made[c].state = "running"}
Named == {c \in Made : made[c].name = "app"}
NoOld == 0

Free == [at |-> "free"]
Turn(r, where) == call' = [call EXCEPT ![r].at = where]
Ends(r) == call' = [call EXCEPT ![r] = Free]
Asks == asked < MaxAppCalls /\ asked' = asked + 1
To(c, s) == made' = [made EXCEPT ![c].state = s]
\* A Docker call with a side effect that may also fail and leave none.
Tries(effect, otherwise) == effect \/ (MayFail /\ otherwise)

AppsInit ==
    /\ mode \in {"standalone", "swarm"}
    /\ mem = NoApp /\ appRow = NoApp /\ template = FALSE
    /\ made = [c \in Versions |-> [name |-> "none", state |-> "none"]]
    /\ service = NoService
    /\ call = [r \in Deployers |-> Free] /\ asked = 0
    /\ proven = {} /\ served = FALSE

-----------------------------------------------------------------------------
(* The app and its row.                                                     *)

\* GetApp: the entry of c.apps by id or name, else the row by id.
Found(ref) == mem # NoApp \/ (ref = "id" /\ appRow # NoApp)

CreateApp ==
    /\ Asks /\ mem = NoApp /\ appRow = NoApp
    /\ mem' = [status |-> "running", replicas |-> 1]
    /\ appRow' = [status |-> "running", replicas |-> 1]
    /\ UNCHANGED <<mode, template, made, service, call, appGhosts>>

\* UpdateApp looks only in c.apps; the row is found by id alone.
UpdateApp(ref, n) ==
    /\ Asks /\ mem # NoApp
    /\ mem' = [mem EXCEPT !.replicas = n]
    /\ appRow' = IF ref = "id" /\ appRow # NoApp THEN [appRow EXCEPT !.replicas = n] ELSE appRow
    /\ UNCHANGED <<mode, template, made, service, call, appGhosts>>

\* By id the entry and the row go and the workload, which is not named after
\* the id, stays; by name the workload goes and the entry and the row stay.
DeleteApp(ref) ==
    /\ Asks
    /\ IF ref = "id"
         THEN mem' = NoApp /\ appRow' = NoApp /\ UNCHANGED <<made, service>>
         ELSE /\ service' = NoService
              /\ made' = [c \in Versions |-> IF c \in Named
                            THEN [made[c] EXCEPT !.state = "gone"] ELSE made[c]]
              /\ UNCHANGED <<mem, appRow>>
    /\ served' = FALSE
    /\ UNCHANGED <<mode, template, call, proven>>

\* The services of a deleted project go with it; c.apps is not told.
DeleteProject ==
    /\ Asks /\ appRow # NoApp /\ appRow' = NoApp
    /\ UNCHANGED <<mode, mem, template, made, service, call, appGhosts>>

RestartApp(ref) ==
    /\ Asks /\ Found(ref)
    /\ made' = [c \in Versions |-> IF ref = "name" /\ c \in Named
                  THEN [made[c] EXCEPT !.state = "running"] ELSE made[c]]
    /\ UNCHANGED <<mode, appRows, service, call, appGhosts>>

\* StopApp and StartApp write the controller's copy and scale the Swarm
\* service that has the given name; the containers are left alone.
ScaleApp(ref, n) ==
    /\ Asks /\ Found(ref)
    /\ mem' = IF mem = NoApp THEN NoApp
              ELSE [status |-> IF n = 0 THEN "stopped" ELSE "running", replicas |-> n]
    /\ service' = IF ref = "name" /\ service # NoService
                    THEN [version |-> service.version + 1, replicas |-> n] ELSE service
    /\ served' = (served /\ n # 0)
    /\ UNCHANGED <<mode, appRow, template, made, call, proven>>

-----------------------------------------------------------------------------
(* DeployApp.                                                               *)

BeginDeployApp(r, ref) ==
    /\ Asks /\ call[r] = Free /\ Found(ref)
    /\ mem' = IF mem = NoApp THEN NoApp ELSE [mem EXCEPT !.status = "deploying"]
    /\ call' = [call EXCEPT ![r] = [at |-> IF mode = "swarm" THEN "inspect" ELSE "find",
                                    ref |-> ref, old |-> NoOld, new |-> NoOld,
                                    seen |-> 0, ok |-> TRUE]]
    /\ UNCHANGED <<mode, appRow, template, made, service, appGhosts>>

\* InspectService, by the reference and then by the name.
InspectService(r) ==
    /\ call[r].at = "inspect"
    /\ call' = [call EXCEPT ![r].at = "swarm",
                            ![r].seen = IF service = NoService THEN 0 ELSE service.version]
    /\ UNCHANGED <<mode, appRows, made, service, asked, appGhosts>>

\* CreateService, or UpdateService with the version that was seen: Docker
\* refuses a name in use and a version that is out of date.  The error is
\* dropped.  convertSpecToSwarm makes at least one replica of none.
DeployService(r) ==
    /\ call[r].at = "swarm"
    /\ LET current == IF service = NoService THEN 0 ELSE service.version
           wanted == IF mem = NoApp \/ mem.replicas = 0 THEN 1 ELSE mem.replicas
       IN \/ /\ current = call[r].seen
             /\ service' = [version |-> current + 1, replicas |-> wanted]
             /\ served' = TRUE
          \/ /\ MayFail \/ current # call[r].seen
             /\ UNCHANGED <<service, served>>
    /\ Turn(r, "report")
    /\ UNCHANGED <<mode, appRows, made, asked, proven>>

-----------------------------------------------------------------------------
(* DeployWithRollingUpdate: start before stop.                              *)

FindOld(r) ==
    /\ call[r].at = "find"
    /\ \E old \in IF Named = {} THEN {NoOld} ELSE Named :
          call' = [call EXCEPT ![r].at = "create", ![r].old = old]
    /\ UNCHANGED <<mode, appRows, made, service, asked, appGhosts>>

Fail(r) == call' = [call EXCEPT ![r].at = "report", ![r].ok = FALSE]

\* The next container, under the given name.
Creates(c, name) ==
    /\ made[c].state = "none" /\ \A b \in 1 .. c - 1 : made[b].state # "none"
    /\ made' = [made EXCEPT ![c] = [name |-> name, state |-> "created"]]

CreateVersion(r) ==
    /\ call[r].at = "create"
    /\ \/ \E c \in Versions :
             /\ Creates(c, "version")
             /\ call' = [call EXCEPT ![r].at = "start", ![r].new = c]
       \/ MayFail /\ Fail(r) /\ UNCHANGED made
    /\ UNCHANGED <<mode, appRows, service, asked, appGhosts>>

\* The new container is removed with the request's own context, which may be
\* the very thing that ended.
Discard(r) ==
    /\ Tries(To(call[r].new, "gone"), UNCHANGED made)
    /\ Fail(r)

\* Mutant: the old container is stopped as soon as the new one has started.
StartVersionInstead(r) ==
    /\ call[r].at = "start"
    /\ \/ /\ made' = [c \in Versions |->
                IF c = call[r].new THEN [made[c] EXCEPT !.state = "running"]
                ELSE IF c = call[r].old THEN [made[c] EXCEPT !.state = "exited"]
                ELSE made[c]]
          /\ Turn(r, "probation")
       \/ MayFail /\ Discard(r)
    /\ UNCHANGED <<mode, appRows, service, asked, appGhosts>>

StartVersion(r) ==
    /\ call[r].at = "start"
    /\ \/ To(call[r].new, "running") /\ Turn(r, "probation")
       \/ MayFail /\ Discard(r)
    /\ UNCHANGED <<mode, appRows, service, asked, appGhosts>>

\* Probation ends with a healthy answer, a bad one, or the timeout.
Probation(r) ==
    /\ call[r].at = "probation"
    /\ \/ /\ proven' = proven \cup {call[r].new} /\ served' = TRUE
          /\ Turn(r, IF call[r].old = NoOld THEN "report" ELSE "stop")
          /\ UNCHANGED made
       \/ Discard(r) /\ UNCHANGED appGhosts
    /\ UNCHANGED <<mode, appRows, service, asked>>

StopOld(r) ==
    /\ call[r].at = "stop"
    /\ \/ call[r].old \in Up /\ To(call[r].old, "exited")
       \/ (MayFail \/ call[r].old \notin Up) /\ UNCHANGED made
    /\ Turn(r, "remove")
    /\ UNCHANGED <<mode, appRows, service, asked, appGhosts>>

RemoveOld(r) ==
    /\ call[r].at = "remove"
    /\ \/ call[r].old \in Made /\ To(call[r].old, "gone")
       \/ (MayFail \/ call[r].old \notin Made) /\ UNCHANGED made
    /\ Turn(r, "report")
    /\ UNCHANGED <<mode, appRows, service, asked, appGhosts>>

\* The status goes to the copy, and to the row when the reference is the id.
ReportDeploy(r) ==
    /\ call[r].at = "report"
    /\ LET status == IF call[r].ok THEN "running" ELSE "failed"
       IN /\ mem' = IF mem = NoApp THEN NoApp ELSE [mem EXCEPT !.status = status]
          /\ appRow' = IF call[r].ref = "id" /\ appRow # NoApp
                      THEN [appRow EXCEPT !.status = status] ELSE appRow
    /\ Ends(r)
    /\ UNCHANGED <<mode, template, made, service, asked, appGhosts>>

-----------------------------------------------------------------------------
(* templates.Deploy: the rows first, then the container; the rollback       *)
(* removes both.                                                            *)

BeginTemplate(r) ==
    /\ Asks /\ call[r] = Free /\ ~template
    /\ template' = TRUE
    /\ call' = [call EXCEPT ![r] = [at |-> "template"]]
    /\ UNCHANGED <<mode, mem, appRow, made, service, appGhosts>>

CreateFromTemplate(r) ==
    /\ call[r].at = "template"
    /\ \/ /\ Named = {}
          /\ \E c \in Versions :
                /\ Creates(c, "app")
                /\ call' = [call EXCEPT ![r] = [at |-> "launch", new |-> c]]
          /\ UNCHANGED template
       \/ /\ MayFail \/ Named # {}
          /\ template' = FALSE /\ Ends(r) /\ UNCHANGED made
    /\ UNCHANGED <<mode, mem, appRow, service, asked, appGhosts>>

\* Another request may have taken the container away in the meantime.
StartFromTemplate(r) ==
    /\ call[r].at = "launch"
    /\ \/ /\ call[r].new \in Made /\ To(call[r].new, "running")
          /\ proven' = proven \cup {call[r].new} /\ served' = TRUE
          /\ UNCHANGED template
       \/ /\ MayFail \/ call[r].new \notin Made
          /\ To(call[r].new, "gone") /\ template' = FALSE /\ UNCHANGED appGhosts
    /\ Ends(r)
    /\ UNCHANGED <<mode, mem, appRow, service, asked>>

-----------------------------------------------------------------------------
\* The process stops and starts again: c.apps is empty and no request is left.
RestartServer ==
    /\ MayFail /\ Asks
    /\ mem' = NoApp /\ call' = [r \in Deployers |-> Free]
    /\ UNCHANGED <<mode, appRow, template, made, service, appGhosts>>

AppsNext ==
    \/ CreateApp \/ DeleteProject \/ RestartServer
    \/ \E ref \in {"id", "name"} :
          \/ DeleteApp(ref) \/ RestartApp(ref)
          \/ \E n \in {0, 1} : UpdateApp(ref, n) \/ ScaleApp(ref, n)
          \/ \E r \in Deployers : BeginDeployApp(r, ref)
    \/ \E r \in Deployers :
          \/ InspectService(r) \/ DeployService(r)
          \/ FindOld(r) \/ CreateVersion(r) \/ StartVersion(r) \/ Probation(r)
          \/ StopOld(r) \/ RemoveOld(r) \/ ReportDeploy(r)
          \/ BeginTemplate(r) \/ CreateFromTemplate(r) \/ StartFromTemplate(r)

AppsSpec == AppsInit /\ [][AppsNext]_appVars

-----------------------------------------------------------------------------
\* Start before stop: once the app is in service, by a rolling update, a
\* template or a Swarm service, it stays so until someone deletes or stops
\* it, however deploys overlap, fail or are cut short by a restart of the
\* server.  A container on probation does not count.
RolloutKeepsServing ==
    served => \/ Up \cap proven # {}
              \/ service # NoService /\ service.replicas > 0

\* What the specification of the rolling update says: the replaced container
\* is stopped and deleted, so that when no request is running and no call has
\* failed one container serves the app.
OldVersionIsTornDown ==
    (\A r \in Deployers : call[r] = Free) =>
       Cardinality({c \in Up : made[c].name = "version"}) <= 1
=============================================================================
