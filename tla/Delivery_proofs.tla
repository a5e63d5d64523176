---------------------------- MODULE Delivery_proofs ----------------------------
(***************************************************************************)
(* An application and the traffic to it: rolling updates, for any number   *)
(* of requests and containers, and the ingress, for any number of          *)
(* applications, domains and bindings; and a compose stack, for any texts, *)
(* services, requests and containers.                                      *)
(***************************************************************************)
EXTENDS AppDeploy, Ingress, Stacks, SequenceTheorems, FiniteSetTheorems,
        WellFoundedInduction, TLAPS

USE AppDeployAssumption DEF AppDeployAssumption

(***************************************************************************)
(* The application.  A container gets its name when it is made and keeps   *)
(* it.  Only a template's container carries the application's name, so     *)
(* that only such a one is ever taken for the old container of a rolling   *)
(* update; and a new version, once it has passed its probation, is one     *)
(* that nobody takes down: the only request that would discard it has      *)
(* gone past that.                                                         *)
(***************************************************************************)
References == {"id", "name"}

\* What a request that works on the application is doing.
DeployAt == {"inspect", "swarm", "find", "create", "start", "probation", "stop", "remove", "report"}
Deploying == [at : DeployAt, ref : References, old : Versions \cup {NoOld},
              new : Versions \cup {NoOld}, seen : Nat, ok : BOOLEAN]
Making    == [at : {"template"}]
Launching == [at : {"launch"}, new : Versions]
CallState == {Free} \cup Deploying \cup Making \cup Launching

Copies == [status : {"running", "stopped", "deploying", "failed"}, replicas : Nat]
ContainerState == [name : {"none", "app", "version"},
                   state : {"none", "created", "running", "exited", "gone"}]

AppTyped ==
    /\ mode \in {"standalone", "swarm"} /\ template \in BOOLEAN /\ served \in BOOLEAN
    /\ mem \in Copies \cup {NoApp} /\ appRow \in Copies \cup {NoApp}
    /\ made \in [Versions -> ContainerState]
    /\ service \in [version : Nat, replicas : Nat] \cup {NoService}
    /\ call \in [Deployers -> CallState]

ProvenExist == \A c \in proven : c \in Versions /\ made[c].state # "none"

\* The container a request has made and not put in service yet.
Unproven(r) == IF call[r].at \in {"start", "probation", "launch"} THEN {call[r].new} ELSE {}

\* It exists, is not in service and is nobody else's.
UnprovenIsOwned(r) ==
    /\ Unproven(r) \subseteq {c \in Versions \ proven : made[c].state # "none"}
    /\ \A q \in Deployers \ {r} : Unproven(r) \cap Unproven(q) = {}

\* A new version has another name than what it replaces.
NamesDiffer(r) ==
    /\ call[r].at \in {"start", "probation", "stop", "remove"} =>
          call[r].new \in Versions /\ made[call[r].new].name = "version"
    /\ call[r].at \in {"create", "start", "probation", "stop", "remove"} /\ call[r].old # NoOld =>
          call[r].old \in Versions /\ made[call[r].old].name = "app"
                                   /\ made[call[r].old].state # "none"

\* Only a new version that is up and has passed its probation replaces the old container.
NewIsUp(r) ==
    /\ call[r].at = "probation" => call[r].new \in Up
    /\ call[r].at \in {"stop", "remove"} => call[r].new \in Up \cap proven /\ call[r].old # NoOld

AppInv ==
    /\ AppTyped
    /\ ProvenExist
    /\ \A r \in Deployers : UnprovenIsOwned(r) /\ NamesDiffer(r) /\ NewIsUp(r)
    /\ RolloutKeepsServing

LEMMA AppInvInit == AppsInit => AppInv
<1> SUFFICES ASSUME AppsInit PROVE AppInv
    OBVIOUS
<1>1. AppTyped
    BY DEF AppsInit, AppTyped, ContainerState, CallState
<1>2. \A r \in Deployers : call[r].at = "free"
    BY DEF AppsInit, Free
<1> QED
    BY <1>1, <1>2
       DEF AppsInit, AppInv, ProvenExist, UnprovenIsOwned, NamesDiffer, NewIsUp, RolloutKeepsServing, Unproven

\* What a request is doing tells what it knows.
LEMMA CallIs ==
    ASSUME AppTyped, NEW r \in Deployers
    PROVE  /\ call[r].at \in DeployAt => call[r] \in Deploying
           /\ call[r].at = "launch" => call[r] \in Launching
BY DEF AppTyped, CallState, Deploying, Launching, Making, Free, DeployAt

LEMMA DeployingTurns ==
    ASSUME NEW d \in Deploying, NEW where \in DeployAt
    PROVE  /\ [d EXCEPT !.at = where] \in Deploying
           /\ [d EXCEPT !.at = where, !.ok = FALSE] \in Deploying
           /\ \A n \in Nat : [d EXCEPT !.at = where, !.seen = n] \in Deploying
           /\ \A c \in Versions \cup {NoOld} : /\ [d EXCEPT !.at = where, !.old = c] \in Deploying
                                               /\ [d EXCEPT !.at = where, !.new = c] \in Deploying
BY DEF Deploying

LEMMA CallStaysTyped ==
    ASSUME AppTyped, NEW r \in Deployers, NEW d \in CallState
    PROVE  [call EXCEPT ![r] = d] \in [Deployers -> CallState]
BY DEF AppTyped

\* A step of a request that deploys.
LEMMA TurnStaysTyped ==
    ASSUME AppTyped, NEW r \in Deployers, call[r].at \in DeployAt
    PROVE  /\ \A where \in DeployAt : Turn(r, where) => call' \in [Deployers -> CallState]
           /\ Fail(r) => call' \in [Deployers -> CallState]
<1>1. call[r] \in Deploying /\ Deploying \subseteq CallState
    BY CallIs DEF CallState
<1>2. \A where \in DeployAt : Turn(r, where) => call' = [call EXCEPT ![r] = [call[r] EXCEPT !.at = where]]
    BY DEF Turn
<1>3. Fail(r) => call' = [call EXCEPT ![r] = [call[r] EXCEPT !.at = "report", !.ok = FALSE]]
    BY DEF Fail
<1>4. "report" \in DeployAt
    BY DEF DeployAt
<1>5. \A where \in DeployAt : [call[r] EXCEPT !.at = where] \in CallState
    BY <1>1, DeployingTurns
<1>6. [call[r] EXCEPT !.at = "report", !.ok = FALSE] \in CallState
    BY <1>1, <1>4, DeployingTurns
<1>7. ASSUME NEW where \in DeployAt, Turn(r, where) PROVE call' \in [Deployers -> CallState]
    <2>1. call' = [call EXCEPT ![r] = [call[r] EXCEPT !.at = where]]
        BY <1>2, <1>7
    <2>2. [call[r] EXCEPT !.at = where] \in CallState
        BY <1>5
    <2> QED
        BY <2>1, <2>2, CallStaysTyped
<1>8. Fail(r) => call' \in [Deployers -> CallState]
    BY <1>3, <1>6, CallStaysTyped
<1> QED
    BY <1>7, <1>8

LEMMA MadeStaysTyped ==
    ASSUME AppTyped, NEW c \in Versions \cup {NoOld}
    PROVE  \A s \in {"created", "running", "exited", "gone"} :
              To(c, s) => made' \in [Versions -> ContainerState]
<1> SUFFICES ASSUME NEW s \in {"created", "running", "exited", "gone"}, To(c, s)
             PROVE  made' \in [Versions -> ContainerState]
    OBVIOUS
<1>1. \A b \in Versions : [made[b] EXCEPT !.state = s] \in ContainerState /\ made[b] \in ContainerState
    BY DEF AppTyped, ContainerState
<1>2. made' = [b \in Versions |-> IF b = c THEN [made[b] EXCEPT !.state = s] ELSE made[b]]
    BY DEF To, AppTyped
<1> QED
    BY <1>1, <1>2

LEMMA DiscardStaysTyped ==
    ASSUME AppTyped, NEW r \in Deployers, call[r].at \in DeployAt, Discard(r)
    PROVE  call' \in [Deployers -> CallState] /\ made' \in [Versions -> ContainerState]
<1>1. call[r].new \in Versions \cup {NoOld}
    BY CallIs DEF Deploying
<1> QED
    BY <1>1, TurnStaysTyped, MadeStaysTyped DEF Discard, Tries, AppTyped

LEMMA AppTypedNext == AppTyped /\ AppsNext => AppTyped'
<1> SUFFICES ASSUME AppTyped, AppsNext PROVE AppTyped'
    OBVIOUS
<1> USE DEF appRows, appGhosts
<1>1. CASE CreateApp
    BY <1>1 DEF CreateApp, AppTyped, Copies
<1>2. CASE DeleteProject
    BY <1>2 DEF DeleteProject, AppTyped
<1>3. CASE RestartServer
    BY <1>3 DEF RestartServer, AppTyped, CallState
<1>4. ASSUME NEW ref \in References, DeleteApp(ref) PROVE AppTyped'
    <2>1. \A b \in Versions : [made[b] EXCEPT !.state = "gone"] \in ContainerState /\ made[b] \in ContainerState
        BY DEF AppTyped, ContainerState
    <2>2. made' \in [Versions -> ContainerState]
        BY <1>4, <2>1 DEF DeleteApp, AppTyped
    <2> QED
        BY <1>4, <2>2 DEF DeleteApp, AppTyped
<1>5. ASSUME NEW ref \in References, RestartApp(ref) PROVE AppTyped'
    BY <1>5 DEF RestartApp, AppTyped, ContainerState
<1>6. ASSUME NEW ref \in References, NEW n \in {0, 1}, UpdateApp(ref, n) PROVE AppTyped'
    BY <1>6 DEF UpdateApp, AppTyped, Copies
<1>7. ASSUME NEW ref \in References, NEW n \in {0, 1}, ScaleApp(ref, n) PROVE AppTyped'
    BY <1>7 DEF ScaleApp, AppTyped, Copies
<1>8. ASSUME NEW r \in Deployers, NEW ref \in References, BeginDeployApp(r, ref) PROVE AppTyped'
    BY <1>8 DEF BeginDeployApp, AppTyped, Copies, CallState, Deploying, DeployAt, References
<1>9. ASSUME NEW r \in Deployers, InspectService(r) PROVE AppTyped'
    <2>1. call[r] \in Deploying /\ Deploying \subseteq CallState /\ "swarm" \in DeployAt
        BY <1>9, CallIs DEF InspectService, DeployAt, CallState
    <2> DEFINE n == IF service = NoService THEN 0 ELSE service.version
    <2>2. n \in Nat
        BY DEF AppTyped
    <2>3. [call[r] EXCEPT !.at = "swarm", !.seen = n] \in CallState
        BY <2>1, <2>2, DeployingTurns
    <2>4. call' = [call EXCEPT ![r] = [call[r] EXCEPT !.at = "swarm", !.seen = n]]
        BY <1>9 DEF InspectService
    <2> QED
        BY <1>9, <2>3, <2>4, CallStaysTyped DEF InspectService, AppTyped
<1>10. ASSUME NEW r \in Deployers, DeployService(r) PROVE AppTyped'
    <2>1. call' \in [Deployers -> CallState]
        BY <1>10, TurnStaysTyped DEF DeployService, DeployAt
    <2>2. mem # NoApp => mem.replicas \in Nat
        BY DEF AppTyped, Copies
    <2> DEFINE current == IF service = NoService THEN 0 ELSE service.version
               wanted == IF mem = NoApp \/ mem.replicas = 0 THEN 1 ELSE mem.replicas
    <2>3. current \in Nat /\ wanted \in Nat
        BY <2>2 DEF AppTyped
    <2>4. \/ service' = [version |-> current + 1, replicas |-> wanted] /\ served' = TRUE
          \/ UNCHANGED <<service, served>>
        BY <1>10 DEF DeployService
    <2> HIDE DEF current, wanted
    <2>5. [version |-> current + 1, replicas |-> wanted] \in [version : Nat, replicas : Nat]
        BY <2>3
    <2>6. service' \in [version : Nat, replicas : Nat] \cup {NoService} /\ served' \in BOOLEAN
        BY <2>4, <2>5 DEF AppTyped
    <2> QED
        BY <1>10, <2>1, <2>6 DEF DeployService, AppTyped
<1>11. ASSUME NEW r \in Deployers, FindOld(r) PROVE AppTyped'
    <2>1. call[r] \in Deploying /\ Deploying \subseteq CallState /\ "create" \in DeployAt
        BY <1>11, CallIs DEF FindOld, DeployAt, CallState
    <2>2. PICK old \in IF Named = {} THEN {NoOld} ELSE Named :
              call' = [call EXCEPT ![r] = [call[r] EXCEPT !.at = "create", !.old = old]]
        BY <1>11 DEF FindOld
    <2>3. old \in Versions \cup {NoOld}
        BY DEF Named, Made
    <2>4. [call[r] EXCEPT !.at = "create", !.old = old] \in CallState
        BY <2>1, <2>3, DeployingTurns
    <2> QED
        BY <1>11, <2>2, <2>4, CallStaysTyped DEF FindOld, AppTyped
<1>12. ASSUME NEW r \in Deployers, CreateVersion(r) PROVE AppTyped'
    <2>1. call[r] \in Deploying /\ Deploying \subseteq CallState /\ {"create", "start"} \subseteq DeployAt
        BY <1>12, CallIs DEF CreateVersion, DeployAt, CallState
    <2>2. CASE Fail(r) /\ UNCHANGED made
        BY <1>12, <2>1, <2>2, TurnStaysTyped DEF CreateVersion, AppTyped
    <2>3. ASSUME NEW c \in Versions, Creates(c, "version"),
                 call' = [call EXCEPT ![r] = [call[r] EXCEPT !.at = "start", !.new = c]]
          PROVE  AppTyped'
        <3>1. [call[r] EXCEPT !.at = "start", !.new = c] \in CallState
            BY <2>1, DeployingTurns
        <3> QED
            BY <1>12, <2>3, <3>1, CallStaysTyped DEF CreateVersion, Creates, AppTyped, ContainerState
    <2> QED
        BY <1>12, <2>2, <2>3 DEF CreateVersion
<1>13. ASSUME NEW r \in Deployers, StartVersion(r) PROVE AppTyped'
    <2>1. call[r] \in Deploying /\ call[r].at \in DeployAt /\ "probation" \in DeployAt
        BY <1>13, CallIs DEF StartVersion, DeployAt
    <2>2. call' \in [Deployers -> CallState] /\ made' \in [Versions -> ContainerState]
        BY <1>13, <2>1, TurnStaysTyped, MadeStaysTyped, DiscardStaysTyped DEF StartVersion, Deploying
    <2> QED
        BY <1>13, <2>2 DEF StartVersion, AppTyped
<1>14. ASSUME NEW r \in Deployers, Probation(r) PROVE AppTyped'
    <2>1. /\ call[r] \in Deploying /\ call[r].at \in DeployAt /\ {"report", "stop"} \subseteq DeployAt
          /\ call[r].at = "probation"
        BY <1>14, CallIs DEF Probation, DeployAt
    <2>2. call' \in [Deployers -> CallState] /\ made' \in [Versions -> ContainerState]
        BY <1>14, <2>1, TurnStaysTyped, DiscardStaysTyped DEF Probation, AppTyped
    <2> QED
        BY <1>14, <2>2 DEF Probation, AppTyped
<1>15. ASSUME NEW r \in Deployers, StopOld(r) PROVE AppTyped'
    <2>1. call[r] \in Deploying /\ call[r].at \in DeployAt /\ "remove" \in DeployAt
        BY <1>15, CallIs DEF StopOld, DeployAt
    <2>2. call' \in [Deployers -> CallState] /\ made' \in [Versions -> ContainerState]
        BY <1>15, <2>1, TurnStaysTyped, MadeStaysTyped DEF StopOld, AppTyped, Deploying
    <2> QED
        BY <1>15, <2>2 DEF StopOld, AppTyped
<1>16. ASSUME NEW r \in Deployers, RemoveOld(r) PROVE AppTyped'
    <2>1. call[r] \in Deploying /\ call[r].at \in DeployAt /\ "report" \in DeployAt
        BY <1>16, CallIs DEF RemoveOld, DeployAt
    <2>2. call' \in [Deployers -> CallState] /\ made' \in [Versions -> ContainerState]
        BY <1>16, <2>1, TurnStaysTyped, MadeStaysTyped DEF RemoveOld, AppTyped, Deploying
    <2> QED
        BY <1>16, <2>2 DEF RemoveOld, AppTyped
<1>17. ASSUME NEW r \in Deployers, ReportDeploy(r) PROVE AppTyped'
    BY <1>17 DEF ReportDeploy, Ends, AppTyped, Copies, CallState
<1>18. ASSUME NEW r \in Deployers, BeginTemplate(r) PROVE AppTyped'
    BY <1>18 DEF BeginTemplate, AppTyped, CallState, Making
<1>19. ASSUME NEW r \in Deployers, CreateFromTemplate(r) PROVE AppTyped'
    <2>1. ASSUME NEW c \in Versions, Creates(c, "app"),
                 call' = [call EXCEPT ![r] = [at |-> "launch", new |-> c]]
          PROVE  call' \in [Deployers -> CallState] /\ made' \in [Versions -> ContainerState]
        <3>1. [at |-> "launch", new |-> c] \in CallState
            BY DEF CallState, Launching
        <3> QED
            BY <2>1, <3>1, CallStaysTyped DEF Creates, AppTyped, ContainerState
    <2>2. Ends(r) => call' \in [Deployers -> CallState]
        BY DEF Ends, CallState, AppTyped
    <2> QED
        BY <1>19, <2>1, <2>2 DEF CreateFromTemplate, AppTyped
<1>20. ASSUME NEW r \in Deployers, StartFromTemplate(r) PROVE AppTyped'
    <2>1. call[r] \in Launching
        BY <1>20, CallIs DEF StartFromTemplate
    <2>2. call[r].new \in Versions
        BY <2>1 DEF Launching
    <2>3. made' \in [Versions -> ContainerState]
        BY <1>20, <2>2, MadeStaysTyped DEF StartFromTemplate
    <2> QED
        BY <1>20, <2>2, <2>3 DEF StartFromTemplate, Ends, AppTyped, CallState
<1> QED
    BY <1>1, <1>2, <1>3, <1>4, <1>5, <1>6, <1>7, <1>8, <1>9, <1>10, <1>11, <1>12, <1>13, <1>14, <1>15, <1>16, <1>17, <1>18, <1>19, <1>20 DEF AppsNext, References

\* Containers keep their names, and only one with the application's name, or in `own`, is taken down.
TakesDown(own) ==
    /\ \A c \in Versions : made[c].state # "none" =>
          made'[c].state # "none" /\ made'[c].name = made[c].name
    /\ \A c \in Up \ own : made[c].name = "app" \/ made'[c].state = "running"

\* A step of one request: the others stay where they are, and it may take down, or put in service,
\* the container it has made, or make one.
StepOf(r) ==
    /\ \A q \in Deployers \ {r} : call'[q] = call[q]
    /\ TakesDown(Unproven(r))
    /\ proven \subseteq proven' /\ proven' \subseteq proven \cup Unproven(r)
    /\ Unproven(r)' \subseteq Unproven(r) \cup {c \in Versions : made[c].state = "none"}
    /\ Unproven(r)' \cap proven' = {}

\* Then the others know what they knew, and only what concerns the one request is left to show.
LEMMA OthersStay ==
    ASSUME AppInv, NEW r \in Deployers, StepOf(r)
    PROVE  /\ ProvenExist'
           /\ \A q \in Deployers \ {r} : UnprovenIsOwned(q)' /\ NamesDiffer(q)' /\ NewIsUp(q)'
           /\ \A q \in Deployers \ {r} : Unproven(r)' \cap Unproven(q)' = {}
<1>1. \A q \in Deployers \ {r} : Unproven(q)' = Unproven(q)
    BY DEF StepOf, Unproven
<1>2. \A q \in Deployers : /\ Unproven(q) \subseteq Versions \ proven
                           /\ \A c \in Unproven(q) : made[c].state # "none"
    BY DEF AppInv, UnprovenIsOwned
<1>3. \A q \in Deployers \ {r} : Unproven(q) \cap Unproven(r)' = {} /\ Unproven(q) \cap Unproven(r) = {}
    BY <1>2 DEF AppInv, UnprovenIsOwned, StepOf
<1>4. \A c \in Versions : made[c].state # "none" =>
          made'[c].state # "none" /\ made'[c].name = made[c].name
    BY DEF StepOf, TakesDown
<1>5. ProvenExist'
    BY <1>2, <1>4 DEF AppInv, ProvenExist, StepOf
<1>6. ASSUME NEW q \in Deployers \ {r} PROVE UnprovenIsOwned(q)'
    <2>1. Unproven(q)' \subseteq {c \in Versions \ proven' : made'[c].state # "none"}
        BY <1>1, <1>2, <1>3, <1>4 DEF StepOf
    <2>2. \A p \in Deployers \ {q} : Unproven(q)' \cap Unproven(p)' = {}
        BY <1>1, <1>3 DEF AppInv, UnprovenIsOwned
    <2> QED
        BY <2>1, <2>2 DEF UnprovenIsOwned
<1>7. ASSUME NEW q \in Deployers \ {r} PROVE NamesDiffer(q)' /\ NewIsUp(q)'
    <2>1. call'[q] = call[q] /\ NamesDiffer(q) /\ NewIsUp(q)
        BY DEF AppInv, StepOf
    <2>2. \A c \in Up : c \in Versions /\ made[c].state = "running"
        BY DEF Up
    <2>3. call[q].at \in {"start", "probation", "stop", "remove"} =>
             call'[q].new \in Versions /\ made'[call[q].new].name = "version"
        BY <2>1, <2>2, <1>2, <1>4 DEF NamesDiffer, NewIsUp, Unproven
    <2>4. NamesDiffer(q)'
        BY <2>1, <2>3, <1>4 DEF NamesDiffer
    <2>5. call[q].at \in {"probation", "stop", "remove"} =>
             call[q].new \in Up \ Unproven(r) /\ made[call[q].new].name = "version"
        BY <2>1, <1>2, <1>3 DEF NewIsUp, NamesDiffer, Unproven
    <2>6. call[q].at \in {"probation", "stop", "remove"} => call[q].new \in Up'
        BY <2>5, <2>2 DEF StepOf, TakesDown, Up
    <2> QED
        BY <2>1, <2>4, <2>6 DEF NewIsUp, StepOf
<1> QED
    BY <1>1, <1>3, <1>5, <1>6, <1>7

LEMMA StepKeeps ==
    ASSUME AppInv, AppTyped', RolloutKeepsServing',
           NEW r \in Deployers, StepOf(r), NamesDiffer(r)', NewIsUp(r)',
           \A c \in Unproven(r)' : c \in Versions /\ made'[c].state # "none"
    PROVE  AppInv'
<1>1. UnprovenIsOwned(r)'
    BY OthersStay DEF UnprovenIsOwned, StepOf
<1> QED
    BY <1>1, OthersStay DEF AppInv

\* A step of no request.
LEMMA RequestsStay ==
    ASSUME AppInv, AppTyped', RolloutKeepsServing', call' = call, proven' = proven, TakesDown({})
    PROVE  AppInv'
<1> USE DEF AppInv, TakesDown
<1>1. ProvenExist'
    BY DEF ProvenExist
<1>2. \A r \in Deployers : Unproven(r)' = Unproven(r)
    BY DEF Unproven
<1>3. ASSUME NEW r \in Deployers PROVE UnprovenIsOwned(r)'
    BY <1>2 DEF UnprovenIsOwned
<1>4. ASSUME NEW r \in Deployers PROVE NamesDiffer(r)' /\ NewIsUp(r)'
    BY DEF NamesDiffer, NewIsUp, Up, UnprovenIsOwned, Unproven
<1> QED
    BY <1>1, <1>3, <1>4
LEMMA AppInvNext == AppInv /\ AppsNext => AppInv'
<1> SUFFICES ASSUME AppInv, AppsNext PROVE AppInv'
    OBVIOUS
<1>a. AppTyped /\ AppTyped' /\ RolloutKeepsServing
    BY AppTypedNext DEF AppInv
<1> USE DEF appRows, appGhosts
\* As long as nobody in service goes down.
<1>b. ASSUME UNCHANGED <<proven, service, served>>, Up \cap proven \subseteq Up' PROVE RolloutKeepsServing'
    BY <1>a, <1>b DEF RolloutKeepsServing
<1>c. UNCHANGED <<made, call, proven, service, served>> => AppInv'
    BY <1>a, <1>b, RequestsStay DEF TakesDown, Up
\* As long as a new version in service is up.
<1>d. ASSUME NEW r \in Deployers, call[r].at \in {"stop", "remove"},
             UNCHANGED <<proven, service, served>>, TakesDown({})
      PROVE  RolloutKeepsServing' /\ call[r].new \in Up' \cap proven'
    <2>1. /\ call[r].new \in Up \cap proven
          /\ made[call[r].new].name = "version"
        BY <1>d DEF AppInv, NamesDiffer, NewIsUp
    <2>2. call[r].new \in Up'
        BY <1>d, <2>1 DEF TakesDown, Up
    <2> QED
        BY <1>d, <2>1, <2>2 DEF RolloutKeepsServing
<1>1. CASE CreateApp
    BY <1>1, <1>c DEF CreateApp
<1>2. CASE DeleteProject
    BY <1>2, <1>c DEF DeleteProject
<1>3. CASE RestartServer
    <2>1. RolloutKeepsServing'
        BY <1>3, <1>b DEF RestartServer, Up
    <2>2. \A r \in Deployers : call'[r].at = "free"
        BY <1>3 DEF RestartServer, Free
    <2>3. ProvenExist'
        BY <1>3 DEF RestartServer, AppInv, ProvenExist
    <2> QED
        BY <1>a, <2>1, <2>2, <2>3 DEF AppInv, UnprovenIsOwned, NamesDiffer, NewIsUp, Unproven
<1>4. ASSUME NEW ref \in References, DeleteApp(ref) PROVE AppInv'
    <2>1. RolloutKeepsServing'
        BY <1>4 DEF DeleteApp, RolloutKeepsServing
    <2>2. TakesDown({})
        BY <1>4, <1>a DEF DeleteApp, TakesDown, Named, Made, Up, AppTyped, ContainerState
    <2> QED
        BY <1>4, <1>a, <2>1, <2>2, RequestsStay DEF DeleteApp
<1>5. ASSUME NEW ref \in References, RestartApp(ref) PROVE AppInv'
    <2>1. Up \subseteq Up' /\ TakesDown({})
        BY <1>5, <1>a DEF RestartApp, TakesDown, Named, Made, Up, AppTyped, ContainerState
    <2>2. RolloutKeepsServing'
        BY <1>5, <2>1, <1>b DEF RestartApp
    <2> QED
        BY <1>5, <1>a, <2>1, <2>2, RequestsStay DEF RestartApp
<1>6. ASSUME NEW ref \in References, NEW n \in {0, 1}, UpdateApp(ref, n) PROVE AppInv'
    BY <1>6, <1>c DEF UpdateApp
<1>7. ASSUME NEW ref \in References, NEW n \in {0, 1}, ScaleApp(ref, n) PROVE AppInv'
    <2>1. TakesDown({}) /\ Up' = Up
        BY <1>7 DEF ScaleApp, TakesDown, Up
    <2>2. CASE service' = service
        BY <1>7, <1>a, <2>1, <2>2, RequestsStay DEF ScaleApp, RolloutKeepsServing
    <2>3. CASE service # NoService /\ service' = [version |-> service.version + 1, replicas |-> n]
        <3>1. service' # NoService /\ service'.replicas = n
            BY <1>a, <2>3 DEF AppTyped
        <3>2. served' => n = 1
            BY <1>7 DEF ScaleApp
        <3>3. n = 1 => service'.replicas > 0
            BY <3>1
        <3>4. RolloutKeepsServing'
            BY <3>1, <3>2, <3>3 DEF RolloutKeepsServing
        <3> QED
            BY <1>7, <1>a, <2>1, <3>4, RequestsStay DEF ScaleApp
    <2> QED
        BY <1>7, <2>2, <2>3 DEF ScaleApp
<1>8. ASSUME NEW r \in Deployers, NEW ref \in References, BeginDeployApp(r, ref) PROVE AppInv'
    <2>1. \A q \in Deployers \ {r} : call'[q] = call[q]
        BY <1>8, <1>a DEF BeginDeployApp, AppTyped
    <2>2. call'[r].at \in {"inspect", "find"} /\ call[r].at = "free"
        BY <1>8, <1>a DEF BeginDeployApp, AppTyped, Free
    <2>3. StepOf(r)
        BY <1>8, <2>1, <2>2 DEF BeginDeployApp, StepOf, TakesDown, Unproven, Up
    <2> QED
        BY <1>8, <1>a, <1>b, <2>2, <2>3, StepKeeps DEF BeginDeployApp, NamesDiffer, NewIsUp, Unproven, Up
<1>9. ASSUME NEW r \in Deployers, InspectService(r) PROVE AppInv'
    <2>1. \A q \in Deployers \ {r} : call'[q] = call[q]
        BY <1>9, <1>a DEF InspectService, AppTyped
    <2>2. call'[r].at = "swarm" /\ call[r].at = "inspect"
        BY <1>9, <1>a, CallIs DEF InspectService, AppTyped, DeployAt, Deploying
    <2>3. StepOf(r)
        BY <1>9, <2>1, <2>2 DEF InspectService, StepOf, TakesDown, Unproven, Up
    <2> QED
        BY <1>9, <1>a, <1>b, <2>2, <2>3, StepKeeps DEF InspectService, NamesDiffer, NewIsUp, Unproven, Up
<1>10. ASSUME NEW r \in Deployers, DeployService(r) PROVE AppInv'
    <2>1. \A q \in Deployers \ {r} : call'[q] = call[q]
        BY <1>10, <1>a DEF DeployService, Turn, AppTyped
    <2>2. call'[r].at = "report" /\ call[r].at = "swarm"
        BY <1>10, <1>a, CallIs DEF DeployService, Turn, AppTyped, DeployAt, Deploying
    <2>3. StepOf(r)
        BY <1>10, <2>1, <2>2 DEF DeployService, StepOf, TakesDown, Unproven, Up
    <2>4. RolloutKeepsServing'
        <3>1. CASE UNCHANGED <<service, served>>
            BY <1>10, <1>b, <3>1 DEF DeployService, Up
        <3>2. CASE ~UNCHANGED <<service, served>>
            <4> DEFINE current == IF service = NoService THEN 0 ELSE service.version
                       wanted == IF mem = NoApp \/ mem.replicas = 0 THEN 1 ELSE mem.replicas
            <4>1. service' = [version |-> current + 1, replicas |-> wanted]
                BY <1>10, <3>2 DEF DeployService
            <4>2. wanted \in Nat \ {0}
                BY <1>a DEF AppTyped, Copies
            <4>3. service' \in [version : Nat, replicas : Nat]
                BY <1>a, <4>1, <4>2 DEF AppTyped
            <4> HIDE DEF wanted
            <4> QED
                BY <4>1, <4>2, <4>3 DEF RolloutKeepsServing
        <3> QED
            BY <3>1, <3>2
    <2> QED
        BY <1>10, <1>a, <2>2, <2>3, <2>4, StepKeeps DEF NamesDiffer, NewIsUp, Unproven
<1>11. ASSUME NEW r \in Deployers, FindOld(r) PROVE AppInv'
    <2>1. \A q \in Deployers \ {r} : call'[q] = call[q]
        BY <1>11, <1>a DEF FindOld, AppTyped
    <2>2. /\ call'[r].at = "create" /\ call[r].at = "find"
          /\ call'[r].old \in Named \cup {NoOld}
        BY <1>11, <1>a, CallIs DEF FindOld, AppTyped, DeployAt, Deploying
    <2>3. StepOf(r)
        BY <1>11, <2>1, <2>2 DEF FindOld, StepOf, TakesDown, Unproven, Up
    <2>4. NamesDiffer(r)'
        BY <1>11, <2>2 DEF FindOld, NamesDiffer, Named, Made
    <2> QED
        BY <1>11, <1>a, <1>b, <2>2, <2>3, <2>4, StepKeeps DEF FindOld, NewIsUp, Unproven, Up
<1>12. ASSUME NEW r \in Deployers, CreateVersion(r) PROVE AppInv'
    <2>1. call[r] \in Deploying /\ call[r].at = "create"
        BY <1>12, <1>a, CallIs DEF CreateVersion, DeployAt
    <2>2. CASE Fail(r) /\ UNCHANGED made
        <3>1. \A q \in Deployers \ {r} : call'[q] = call[q]
            BY <2>2, <1>a DEF Fail, AppTyped
        <3>2. call'[r].at = "report"
            BY <2>1, <2>2, <1>a DEF Fail, AppTyped, Deploying
        <3>3. StepOf(r)
            BY <1>12, <2>1, <2>2, <3>1, <3>2 DEF CreateVersion, StepOf, TakesDown, Unproven, Up
        <3> QED
            BY <1>12, <1>a, <1>b, <2>2, <3>2, <3>3, StepKeeps DEF CreateVersion, NamesDiffer, NewIsUp, Unproven, Up
    <2>3. ASSUME NEW c \in Versions, Creates(c, "version"),
                 call' = [call EXCEPT ![r] = [call[r] EXCEPT !.at = "start", !.new = c]]
          PROVE  AppInv'
        <3>1. \A q \in Deployers \ {r} : call'[q] = call[q]
            BY <2>3, <1>a DEF AppTyped
        <3>2. call'[r].at = "start" /\ call'[r].new = c /\ call'[r].old = call[r].old
            BY <2>1, <2>3, <1>a DEF AppTyped, Deploying
        <3>3. /\ made[c].state = "none" /\ \A b \in Versions \ {c} : made'[b] = made[b]
              /\ made'[c] = [name |-> "version", state |-> "created"]
            BY <2>3, <1>a DEF Creates, AppTyped
        <3>4. c \notin proven /\ UNCHANGED <<proven, service, served>>
            BY <1>12, <3>3 DEF AppInv, ProvenExist, CreateVersion
        <3>5. Up \subseteq Up' /\ TakesDown({})
            BY <3>3 DEF Up, TakesDown
        <3>6. StepOf(r)
            BY <2>1, <3>1, <3>2, <3>3, <3>4, <3>5 DEF StepOf, TakesDown, Unproven
        <3>7. NamesDiffer(r)'
            BY <2>1, <3>2, <3>3 DEF NamesDiffer, AppInv
        <3> QED
            BY <1>a, <1>b, <3>2, <3>3, <3>4, <3>5, <3>6, <3>7, StepKeeps DEF NewIsUp, Unproven
    <2> QED
        BY <1>12, <2>2, <2>3 DEF CreateVersion
<1>e. ASSUME NEW r \in Deployers, call[r].at \in {"start", "probation"}, Discard(r),
             UNCHANGED <<proven, service, served>>
      PROVE  AppInv'
    <2>1. /\ call[r] \in Deploying /\ Unproven(r) = {call[r].new} 
          /\ call[r].new \in Versions \ proven /\ made[call[r].new].state # "none"
        BY <1>a, <1>e, CallIs DEF DeployAt, Unproven, AppInv, UnprovenIsOwned
    <2>2. \A q \in Deployers \ {r} : call'[q] = call[q]
        BY <1>a, <1>e DEF Discard, Fail, AppTyped
    <2>3. call'[r].at = "report"
        BY <1>a, <1>e, <2>1 DEF Discard, Fail, AppTyped, Deploying
    <2>4. \/ made' = made
          \/ made' = [made EXCEPT ![call[r].new].state = "gone"]
        BY <1>e DEF Discard, Tries, To
    <2>5. TakesDown(Unproven(r)) /\ Up \cap proven \subseteq Up'
        BY <1>a, <2>1, <2>4 DEF TakesDown, Up, AppTyped, ContainerState
    <2>6. StepOf(r)
        BY <1>e, <2>2, <2>3, <2>5 DEF StepOf, Unproven
    <2> QED
        BY <1>a, <1>b, <1>e, <2>3, <2>5, <2>6, StepKeeps DEF NamesDiffer, NewIsUp, Unproven
<1>13. ASSUME NEW r \in Deployers, StartVersion(r) PROVE AppInv'
    <2>1. /\ call[r] \in Deploying /\ call[r].at = "start" /\ Unproven(r) = {call[r].new}
          /\ call[r].new \in Versions \ proven /\ made[call[r].new].state # "none"
          /\ made[call[r].new].name = "version"
        BY <1>13, <1>a, CallIs DEF StartVersion, DeployAt, Unproven, AppInv, UnprovenIsOwned, NamesDiffer
    <2>2. CASE Discard(r)
        BY <1>13, <1>e, <2>1, <2>2 DEF StartVersion
    <2>3. CASE To(call[r].new, "running") /\ Turn(r, "probation")
        <3>1. \A q \in Deployers \ {r} : call'[q] = call[q]
            BY <2>3, <1>a DEF Turn, AppTyped
        <3>2. call'[r].at = "probation" /\ call'[r].new = call[r].new /\ call'[r].old = call[r].old
            BY <2>1, <2>3, <1>a DEF Turn, AppTyped, Deploying
        <3>3. /\ \A b \in Versions \ {call[r].new} : made'[b] = made[b]
              /\ made'[call[r].new].state = "running"
              /\ made'[call[r].new].name = "version"
            BY <2>1, <2>3, <1>a DEF To, AppTyped, ContainerState
        <3>4. Up \subseteq Up' /\ TakesDown({}) /\ call[r].new \in Up'
            BY <2>1, <3>3 DEF Up, TakesDown
        <3>5. StepOf(r)
            BY <1>13, <2>1, <3>1, <3>2, <3>4 DEF StartVersion, StepOf, TakesDown, Unproven
        <3>6. NamesDiffer(r)'
            BY <2>1, <3>2, <3>3 DEF NamesDiffer, AppInv
        <3> QED
            BY <1>13, <1>a, <1>b, <2>1, <3>2, <3>3, <3>4, <3>5, <3>6, StepKeeps
               DEF StartVersion, NewIsUp, Unproven
    <2> QED
        BY <1>13, <2>2, <2>3 DEF StartVersion
<1>14. ASSUME NEW r \in Deployers, Probation(r) PROVE AppInv'
    <2>1. /\ call[r] \in Deploying /\ call[r].at = "probation" /\ Unproven(r) = {call[r].new}
          /\ call[r].new \in Versions \ proven /\ made[call[r].new].state # "none"
          /\ made[call[r].new].name = "version" /\ call[r].new \in Up
        BY <1>14, <1>a, CallIs
           DEF Probation, DeployAt, Unproven, AppInv, UnprovenIsOwned, NamesDiffer, NewIsUp
    <2>2. CASE Discard(r) /\ UNCHANGED appGhosts
        BY <1>14, <1>e, <2>1, <2>2 DEF Probation
    <2>3. CASE /\ proven' = proven \cup {call[r].new} /\ served' = TRUE
               /\ Turn(r, IF call[r].old = NoOld THEN "report" ELSE "stop")
               /\ UNCHANGED made
        <3>1. \A q \in Deployers \ {r} : call'[q] = call[q]
            BY <2>3, <1>a DEF Turn, AppTyped
        <3>2. /\ call'[r].at = IF call[r].old = NoOld THEN "report" ELSE "stop"
              /\ call'[r].new = call[r].new /\ call'[r].old = call[r].old
            BY <2>1, <2>3, <1>a DEF Turn, AppTyped, Deploying
        <3>3. Up' = Up /\ TakesDown({})
            BY <2>3 DEF Up, TakesDown
        <3>4. StepOf(r)
            BY <2>1, <2>3, <3>1, <3>2, <3>3 DEF StepOf, TakesDown, Unproven
        <3>5. NamesDiffer(r)'
            BY <2>1, <2>3, <3>2 DEF NamesDiffer, AppInv
        <3>6. RolloutKeepsServing'
            BY <2>1, <2>3, <3>3 DEF RolloutKeepsServing
        <3> QED
            BY <1>a, <2>1, <2>3, <3>2, <3>3, <3>4, <3>5, <3>6, StepKeeps DEF NewIsUp, Unproven
    <2> QED
        BY <1>14, <2>2, <2>3 DEF Probation
<1>15. ASSUME NEW r \in Deployers, StopOld(r) PROVE AppInv'
    <2>1. /\ call[r] \in Deploying /\ call[r].at = "stop" /\ Unproven(r) = {}
          /\ call[r].old \in Versions /\ made[call[r].old].name = "app"
          /\ made[call[r].old].state # "none"
        BY <1>15, <1>a, CallIs DEF StopOld, DeployAt, Unproven, AppInv, NamesDiffer, NewIsUp
    <2>2. \A q \in Deployers \ {r} : call'[q] = call[q]
        BY <1>15, <1>a DEF StopOld, Turn, AppTyped
    <2>3. call'[r].at = "remove" /\ call'[r].new = call[r].new /\ call'[r].old = call[r].old
        BY <1>15, <2>1, <1>a DEF StopOld, Turn, AppTyped, Deploying
    <2>4. \/ made' = made
          \/ made' = [made EXCEPT ![call[r].old].state = "exited"]
        BY <1>15 DEF StopOld, To
    <2>5. TakesDown({})
        BY <1>a, <2>1, <2>4 DEF TakesDown, Up, AppTyped, ContainerState
    <2>6. RolloutKeepsServing' /\ call[r].new \in Up' \cap proven'
        BY <1>15, <1>d, <2>1, <2>5 DEF StopOld
    <2>7. StepOf(r)
        BY <1>15, <2>1, <2>2, <2>3, <2>5 DEF StopOld, StepOf, Unproven
    <2>8. NamesDiffer(r)'
        BY <2>1, <2>3, <2>5 DEF NamesDiffer, NewIsUp, AppInv, TakesDown, Up
    <2> QED
        BY <1>a, <2>1, <2>3, <2>6, <2>7, <2>8, StepKeeps DEF NewIsUp, Unproven, AppInv
<1>16. ASSUME NEW r \in Deployers, RemoveOld(r) PROVE AppInv'
    <2>1. /\ call[r] \in Deploying /\ call[r].at = "remove" /\ Unproven(r) = {}
          /\ call[r].old \in Versions /\ made[call[r].old].name = "app"
          /\ made[call[r].old].state # "none"
        BY <1>16, <1>a, CallIs DEF RemoveOld, DeployAt, Unproven, AppInv, NamesDiffer, NewIsUp
    <2>2. \A q \in Deployers \ {r} : call'[q] = call[q]
        BY <1>16, <1>a DEF RemoveOld, Turn, AppTyped
    <2>3. call'[r].at = "report"
        BY <1>16, <2>1, <1>a DEF RemoveOld, Turn, AppTyped, Deploying
    <2>4. \/ made' = made
          \/ made' = [made EXCEPT ![call[r].old].state = "gone"]
        BY <1>16 DEF RemoveOld, To
    <2>5. TakesDown({})
        BY <1>a, <2>1, <2>4 DEF TakesDown, Up, AppTyped, ContainerState
    <2>6. RolloutKeepsServing'
        BY <1>16, <1>d, <2>1, <2>5 DEF RemoveOld
    <2>7. StepOf(r)
        BY <1>16, <2>1, <2>2, <2>3, <2>5 DEF RemoveOld, StepOf, Unproven
    <2> QED
        BY <1>a, <2>3, <2>6, <2>7, StepKeeps DEF NamesDiffer, NewIsUp, Unproven
<1>17. ASSUME NEW r \in Deployers, ReportDeploy(r) PROVE AppInv'
    <2>1. \A q \in Deployers \ {r} : call'[q] = call[q]
        BY <1>17, <1>a DEF ReportDeploy, Ends, AppTyped
    <2>2. call'[r].at = "free" /\ call[r].at = "report"
        BY <1>17, <1>a DEF ReportDeploy, Ends, AppTyped, Free
    <2>3. StepOf(r)
        BY <1>17, <2>1, <2>2 DEF ReportDeploy, StepOf, TakesDown, Unproven, Up
    <2> QED
        BY <1>17, <1>a, <1>b, <2>2, <2>3, StepKeeps DEF ReportDeploy, NamesDiffer, NewIsUp, Unproven, Up
<1>18. ASSUME NEW r \in Deployers, BeginTemplate(r) PROVE AppInv'
    <2>1. \A q \in Deployers \ {r} : call'[q] = call[q]
        BY <1>18, <1>a DEF BeginTemplate, AppTyped
    <2>2. call'[r].at = "template" /\ call[r].at = "free"
        BY <1>18, <1>a DEF BeginTemplate, AppTyped, Free
    <2>3. StepOf(r)
        BY <1>18, <2>1, <2>2 DEF BeginTemplate, StepOf, TakesDown, Unproven, Up
    <2> QED
        BY <1>18, <1>a, <1>b, <2>2, <2>3, StepKeeps DEF BeginTemplate, NamesDiffer, NewIsUp, Unproven, Up
<1>19. ASSUME NEW r \in Deployers, CreateFromTemplate(r) PROVE AppInv'
    <2>1. call[r].at = "template"
        BY <1>19 DEF CreateFromTemplate
    <2>2. CASE Ends(r) /\ UNCHANGED made
        <3>1. \A q \in Deployers \ {r} : call'[q] = call[q]
            BY <2>2, <1>a DEF Ends, AppTyped
        <3>2. call'[r].at = "free"
            BY <2>2, <1>a DEF Ends, AppTyped, Free
        <3>3. StepOf(r)
            BY <1>19, <2>1, <2>2, <3>1, <3>2 DEF CreateFromTemplate, StepOf, TakesDown, Unproven, Up
        <3> QED
            BY <1>19, <1>a, <1>b, <2>2, <3>2, <3>3, StepKeeps
               DEF CreateFromTemplate, NamesDiffer, NewIsUp, Unproven, Up
    <2>3. ASSUME NEW c \in Versions, Creates(c, "app"),
                 call' = [call EXCEPT ![r] = [at |-> "launch", new |-> c]]
          PROVE  AppInv'
        <3>1. /\ \A q \in Deployers \ {r} : call'[q] = call[q]
              /\ call'[r].at = "launch" /\ call'[r].new = c
            BY <2>3, <1>a DEF AppTyped
        <3>2. /\ made[c].state = "none" /\ \A b \in Versions \ {c} : made'[b] = made[b]
              /\ made'[c] = [name |-> "app", state |-> "created"]
            BY <2>3, <1>a DEF Creates, AppTyped
        <3>3. c \notin proven /\ UNCHANGED <<proven, service, served>>
            BY <1>19, <3>2 DEF AppInv, ProvenExist, CreateFromTemplate
        <3>4. Up \subseteq Up' /\ TakesDown({})
            BY <3>2 DEF Up, TakesDown
        <3>5. StepOf(r)
            BY <2>1, <3>1, <3>2, <3>3, <3>4 DEF StepOf, TakesDown, Unproven
        <3> QED
            BY <1>a, <1>b, <3>1, <3>2, <3>3, <3>4, <3>5, StepKeeps DEF NamesDiffer, NewIsUp, Unproven
    <2> QED
        BY <1>19, <2>2, <2>3 DEF CreateFromTemplate
<1>20. ASSUME NEW r \in Deployers, StartFromTemplate(r) PROVE AppInv'
    <2>1. /\ call[r] \in Launching /\ Unproven(r) = {call[r].new} /\ call[r].at = "launch"
          /\ call[r].new \in Versions \ proven /\ made[call[r].new].state # "none"
        BY <1>20, <1>a, CallIs DEF StartFromTemplate, Unproven, AppInv, UnprovenIsOwned
    <2>2. \A q \in Deployers \ {r} : call'[q] = call[q]
        BY <1>20, <1>a DEF StartFromTemplate, Ends, AppTyped
    <2>3. call'[r].at = "free"
        BY <1>20, <1>a DEF StartFromTemplate, Ends, AppTyped, Free
    <2>4. CASE /\ To(call[r].new, "running")
               /\ proven' = proven \cup {call[r].new} /\ served' = TRUE
        <3>1. /\ \A b \in Versions \ {call[r].new} : made'[b] = made[b]
              /\ made'[call[r].new] = [made[call[r].new] EXCEPT !.state = "running"]
            BY <2>1, <2>4, <1>a DEF To, AppTyped
        <3>2. TakesDown({}) /\ call[r].new \in Up'
            BY <1>a, <2>1, <3>1 DEF Up, TakesDown, AppTyped, ContainerState
        <3>3. RolloutKeepsServing'
            BY <2>4, <3>2 DEF RolloutKeepsServing
        <3>4. StepOf(r)
            BY <2>1, <2>2, <2>3, <2>4, <3>2 DEF StepOf, TakesDown, Unproven
        <3> QED
            BY <1>a, <2>3, <3>3, <3>4, StepKeeps DEF NamesDiffer, NewIsUp, Unproven
    <2>5. CASE To(call[r].new, "gone") /\ UNCHANGED appGhosts
        <3>1. /\ \A b \in Versions \ {call[r].new} : made'[b] = made[b]
              /\ made'[call[r].new] = [made[call[r].new] EXCEPT !.state = "gone"]
            BY <2>1, <2>5, <1>a DEF To, AppTyped
        <3>2. TakesDown(Unproven(r)) /\ Up \cap proven \subseteq Up'
            BY <1>a, <2>1, <3>1 DEF Up, TakesDown, AppTyped, ContainerState
        <3>3. StepOf(r)
            BY <2>1, <2>2, <2>3, <2>5, <3>2 DEF StepOf, Unproven
        <3> QED
            BY <1>20, <1>a, <1>b, <2>3, <2>5, <3>2, <3>3, StepKeeps
               DEF StartFromTemplate, NamesDiffer, NewIsUp, Unproven
    <2> QED
        BY <1>20, <2>4, <2>5 DEF StartFromTemplate
<1> QED
    BY <1>1, <1>2, <1>3, <1>4, <1>5, <1>6, <1>7, <1>8, <1>9, <1>10, <1>11, <1>12, <1>13, <1>14,
       <1>15, <1>16, <1>17, <1>18, <1>19, <1>20 DEF AppsNext, References

LEMMA AppInvSteps == AppInv /\ [AppsNext]_appVars => AppInv'
<1> SUFFICES ASSUME AppInv, UNCHANGED appVars PROVE AppInv'
    BY AppInvNext
<1>1. AppTyped'
    BY DEF AppInv, AppTyped, appVars
<1>2. RolloutKeepsServing' /\ TakesDown({})
    BY DEF AppInv, RolloutKeepsServing, TakesDown, Up, appVars
<1> QED
    BY <1>1, <1>2, RequestsStay DEF appVars

(* Start before stop, for any number of overlapping deploys, templates, failures and restarts of  *)
(* the server: an application in service stays so until someone deletes or stops it.              *)
THEOREM RolloutKeepsServingHolds == AppsSpec => []RolloutKeepsServing
<1>1. AppInv => RolloutKeepsServing
    BY DEF AppInv
<1> QED
    BY <1>1, AppInvInit, AppInvSteps, PTL DEF AppsSpec
-----------------------------------------------------------------------------
(***************************************************************************)
(* The ingress.  What a request still carries was accepted, and accepted   *)
(* splits are only added to.  A reconcile is alone from its start as long  *)
(* as `quiet` says so: then every other request is idle, the rows are what *)
(* it read, and the splits are what it loads.  Between two loads Caddy     *)
(* gets no second route of an ID, so that removing the route of an ID      *)
(* removes them all, but for the IDs of two routes of the last load.       *)
(***************************************************************************)
USE IngressAssumption DEF IngressAssumption, caddyGhosts

RowRoutes   == SUBSET Pairs
Splits      == [Domains -> Weights \cup {NoSplit}]
CaddyConfig == [routes : SUBSET (Pairs \X {"row", "bound"}), splits : SUBSET (Domains \X Weights)]

\* What a request of the ingress is doing.
OnRoute    == [at : {"applied", "removed"}, of : Pairs]
Splitting  == [at : {"put", "client", "manager"}, app : Apps, domain : Domains, weights : Weights]
Resetting  == [at : {"reset", "deleting", "deleted"}, domain : Domains]
HasRead    == [at : {"read", "loaded"}, plain : RowRoutes]
HasToLoad  == [at : {"loading"}, plain : RowRoutes, active : Splits]
CallerState == {IdleCaller} \cup OnRoute \cup Splitting \cup Resetting \cup HasRead \cup HasToLoad

IngressTyped ==
    /\ row \in [Apps -> [served : BOOLEAN, domains : SUBSET Domains]]
    /\ binding \in [Bindings -> [of : Pairs \cup {<<>>}, live : BOOLEAN]]
    /\ splits \in Splits /\ clientSplits \in Splits
    /\ caddy \in CaddyConfig
    /\ caller \in [Callers -> CallerState]
    /\ accepted \in [Domains -> SUBSET Weights]
    /\ answer \in [Apps -> Weights \cup {NoSplit, Default}]

\* Two routes of one ID were loaded together.
OneRouteOfEachID ==
    \A x, y \in caddy.routes : RouteID(x[1]) = RouteID(y[1]) => x = y \/ RouteID(x[1]) \in twins

\* One application has a domain, and a route of a binding is in use or could not be removed.
BindingsAreKept ==
    /\ \A b \in Bindings : binding[b].live => binding[b].of \in Pairs
    /\ \A b, o \in Bindings :
          binding[b].live /\ binding[o].live /\ binding[b].of[2] = binding[o].of[2]
             => binding[b].of[1] = binding[o].of[1]
    /\ \A p \in Pairs :
          <<p, "bound">> \in caddy.routes => InUse(p) \/ p \in stuck \/ RouteID(p) \in twins
    /\ OneRouteOfEachID

AcceptedOrNone(s) == \A d \in Domains : s[d] \in accepted[d] \cup {NoSplit}

\* Whoever holds a split, or is about to write one down, holds one that Caddy accepted.
SplitsAreAccepted ==
    /\ AcceptedOrNone(splits) /\ AcceptedOrNone(clientSplits)
    /\ \A x \in caddy.splits : x[2] \in accepted[x[1]]
    /\ \A r \in Callers :
          /\ caller[r].at \in {"put", "client", "manager"} =>
                caller[r].weights \in accepted[caller[r].domain]
          /\ caller[r].at = "loading" => AcceptedOrNone(caller[r].active)
    /\ \A a \in Apps : answer[a] \in {NoSplit, Default} \/ \E d \in Domains : answer[a] \in accepted[d]

IsAlone(r) == \A o \in Callers \ {r} : caller[o].at = "idle"
Loaded == caddy = BuildCaddyConfig(StoredRoutes, splits)

\* How far the reconcile of r is: what it holds is what there is.
Reconciling(r) ==
    /\ caller[r].at \in {"read", "loading", "loaded"} /\ caller[r].plain = StoredRoutes
    /\ caller[r].at = "loading" => caller[r].active = splits
    /\ caller[r].at = "loaded" => Loaded

QuietReconcile ==
    /\ quiet = "during" => \E r \in Callers : IsAlone(r) /\ Reconciling(r)
    /\ quiet = "since" => /\ \A r \in Callers : caller[r].at = "idle"
                          /\ Loaded
                          /\ \E kept \in OneOfEachID(StoredRoutes) : routes = kept \X {"row"}

IngressInv == IngressTyped /\ BindingsAreKept /\ SplitsAreAccepted /\ QuietReconcile

LEMMA StoredRoutesTyped == IngressTyped => StoredRoutes \in RowRoutes
BY DEF StoredRoutes, RowRoutes

LEMMA BuildTyped ==
    ASSUME NEW plain \in RowRoutes, NEW active \in Splits
    PROVE  /\ BuildCaddyConfig(plain, active) \in CaddyConfig
           /\ \A p \in Pairs : <<p, "bound">> \notin BuildCaddyConfig(plain, active).routes
           /\ \A x \in BuildCaddyConfig(plain, active).splits : x[2] = active[x[1]] /\ x[2] # NoSplit
<1>1. BuildCaddyConfig(plain, active).routes \in SUBSET (Pairs \X {"row"})
    BY DEF BuildCaddyConfig, RowRoutes
<1>2. \A d \in Domains : active[d] \in Weights \cup {NoSplit}
    BY DEF Splits
<1>3. BuildCaddyConfig(plain, active).splits \in SUBSET (Domains \X Weights)
    BY <1>2 DEF BuildCaddyConfig
<1>4. \A x \in BuildCaddyConfig(plain, active).splits : x[2] = active[x[1]] /\ x[2] # NoSplit
    BY DEF BuildCaddyConfig
<1> QED
    BY <1>1, <1>3, <1>4 DEF BuildCaddyConfig, CaddyConfig

LEMMA IDsOfTwoAre ==
    ASSUME NEW rs, NEW x \in rs, NEW y \in rs, x # y, RouteID(x[1]) = RouteID(y[1])
    PROVE  RouteID(x[1]) \in IDsOfTwo(rs)
BY DEF IDsOfTwo, RoutesAt

LEMMA PairsArePairs == \A p \in Pairs : p # <<>>
BY DEF Pairs

LEMMA CallerIs ==
    ASSUME IngressTyped, NEW r \in Callers
    PROVE  /\ caller[r].at \in {"applied", "removed"} => caller[r] \in OnRoute
           /\ caller[r].at \in {"put", "client", "manager"} => caller[r] \in Splitting
           /\ caller[r].at \in {"reset", "deleting", "deleted"} => caller[r] \in Resetting
           /\ caller[r].at \in {"read", "loaded"} => caller[r] \in HasRead
           /\ caller[r].at = "loading" => caller[r] \in HasToLoad
BY DEF IngressTyped, CallerState, IdleCaller, OnRoute, Splitting, Resetting, HasRead, HasToLoad

LEMMA CallerStaysTyped ==
    ASSUME IngressTyped, NEW r \in Callers, NEW state \in CallerState, Become(r, state)
    PROVE  /\ caller' \in [Callers -> CallerState] /\ caller'[r] = state
           /\ \A o \in Callers \ {r} : caller'[o] = caller[o]
BY DEF IngressTyped, Become

\* Caddy with other routes, and with other splits.
LEMMA CaddyUpdates ==
    ASSUME IngressTyped
    PROVE  /\ caddy.routes \in SUBSET (Pairs \X {"row", "bound"})
           /\ caddy.splits \in SUBSET (Domains \X Weights)
           /\ \A rs \in SUBSET (Pairs \X {"row", "bound"}) :
                 /\ [caddy EXCEPT !.routes = rs] \in CaddyConfig
                 /\ [caddy EXCEPT !.routes = rs].splits = caddy.splits
                 /\ [caddy EXCEPT !.routes = rs].routes = rs
           /\ \A ss \in SUBSET (Domains \X Weights) :
                 /\ [caddy EXCEPT !.splits = ss] \in CaddyConfig
                 /\ [caddy EXCEPT !.splits = ss].splits = ss
                 /\ [caddy EXCEPT !.splits = ss].routes = caddy.routes
BY DEF IngressTyped, CaddyConfig

LEMMA IngressInvInit == IngressInit => IngressInv
<1> SUFFICES ASSUME IngressInit PROVE IngressInv
    OBVIOUS
<1>1. IngressTyped
    BY DEF IngressInit, IngressTyped, NoSplits, Splits, CaddyConfig, CallerState
<1>2. \A r \in Callers : caller[r].at = "idle"
    BY DEF IngressInit, IdleCaller
<1> QED
    BY <1>1, <1>2 DEF IngressInit, IngressInv, BindingsAreKept, SplitsAreAccepted, QuietReconcile,
                      AcceptedOrNone, OneRouteOfEachID, NoSplits

-----------------------------------------------------------------------------
\* What steps leave as it is.

\* A request in the middle of another operation: no reconcile is alone.
LEMMA NotQuiet ==
    ASSUME QuietReconcile, NEW r \in Callers, quiet' = quiet,
           caller[r].at \notin {"idle", "read", "loading", "loaded"}
    PROVE  QuietReconcile'
BY DEF QuietReconcile, IsAlone, Reconciling

LEMMA Disturbed == quiet' = "no" => QuietReconcile'
BY DEF QuietReconcile

LEMMA BindingsStay ==
    ASSUME BindingsAreKept, UNCHANGED <<binding, stuck, twins>>, caddy'.routes = caddy.routes
    PROVE  BindingsAreKept'
BY DEF BindingsAreKept, OneRouteOfEachID, InUse

LEMMA DomainsTyped ==
    IngressTyped => \A r \in Callers :
        caller[r].at \in {"put", "client", "manager"} => caller[r].domain \in Domains
BY CallerIs DEF Splitting

\* Splits that were accepted stay so.
LEMMA SplitsStay ==
    ASSUME IngressTyped, SplitsAreAccepted, \A d \in Domains : accepted[d] \subseteq accepted'[d],
           AcceptedOrNone(splits)', AcceptedOrNone(clientSplits)',
           \A x \in caddy'.splits : x[2] \in accepted'[x[1]],
           NEW r \in Callers, \A o \in Callers \ {r} : caller'[o] = caller[o],
           caller'[r].at \in {"put", "client", "manager"} =>
               caller'[r].weights \in accepted'[caller'[r].domain],
           caller'[r].at = "loading" => AcceptedOrNone(caller[r].active)',
           \A a \in Apps : \/ answer'[a] = answer[a] \/ answer'[a] = Default
                           \/ \E d \in Domains : answer'[a] \in accepted'[d]
    PROVE  SplitsAreAccepted'
BY DomainsTyped DEF SplitsAreAccepted, AcceptedOrNone

LEMMA IngressInvNext == IngressInv /\ IngressNext => IngressInv'
<1> SUFFICES ASSUME IngressInv, IngressNext PROVE IngressInv'
    OBVIOUS
<1> USE DEF IngressInv
<1>1. ASSUME NEW a \in Apps, NEW isServed \in BOOLEAN, NEW domains \in SUBSET Domains,
             ChangeRow(a, isServed, domains)
      PROVE  IngressInv'
    <2>1. IngressTyped'
        BY <1>1 DEF ChangeRow, IngressTyped
    <2>2. BindingsAreKept'
        BY <1>1, BindingsStay DEF ChangeRow
    <2>3. SplitsAreAccepted'
        BY <1>1 DEF ChangeRow, SplitsAreAccepted, AcceptedOrNone
    <2> QED
        BY <1>1, <2>1, <2>2, <2>3, Disturbed DEF ChangeRow, Begin
<1>2. ASSUME NEW r \in Callers, CacheRoute(r) PROVE IngressInv'
    <2>1. caller[r] \in OnRoute /\ caller[r].at = "applied" /\ caller[r].of \in Pairs
        BY <1>2, CallerIs DEF CacheRoute, OnRoute
    <2>2. /\ caller' \in [Callers -> CallerState] /\ caller'[r].at = "idle"
          /\ \A o \in Callers \ {r} : caller'[o] = caller[o]
        BY <1>2, CallerStaysTyped DEF CacheRoute, CallerState, IdleCaller
    <2>4. IngressTyped'
        BY <1>2, <2>2 DEF CacheRoute, IngressTyped
    <2>5. BindingsAreKept'
        BY <1>2, BindingsStay DEF CacheRoute
    <2>6. SplitsAreAccepted'
        BY <1>2, <2>2, SplitsStay DEF CacheRoute, SplitsAreAccepted, AcceptedOrNone
    <2> QED
        BY <1>2, <2>1, <2>4, <2>5, <2>6, NotQuiet DEF CacheRoute
<1>3. ASSUME NEW r \in Callers, UncacheRoute(r) PROVE IngressInv'
    <2>1. caller[r] \in OnRoute /\ caller[r].at = "removed" /\ caller[r].of \in Pairs
        BY <1>3, CallerIs DEF UncacheRoute, OnRoute
    <2>2. /\ caller' \in [Callers -> CallerState] /\ caller'[r].at = "idle"
          /\ \A o \in Callers \ {r} : caller'[o] = caller[o]
        BY <1>3, CallerStaysTyped DEF UncacheRoute, CallerState, IdleCaller
    <2>4. IngressTyped'
        BY <1>3, <2>2 DEF UncacheRoute, IngressTyped
    <2>5. BindingsAreKept'
        BY <1>3, BindingsStay DEF UncacheRoute
    <2>6. SplitsAreAccepted'
        BY <1>3, <2>2, SplitsStay DEF UncacheRoute, SplitsAreAccepted, AcceptedOrNone
    <2> QED
        BY <1>3, <2>1, <2>4, <2>5, <2>6, NotQuiet DEF UncacheRoute
<1>4. ASSUME NEW r \in Callers, CacheClientSplit(r) PROVE IngressInv'
    <2>1. /\ caller[r] \in Splitting /\ caller[r].at = "put"
          /\ caller[r].domain \in Domains /\ caller[r].weights \in Weights
          /\ caller[r].weights \in accepted[caller[r].domain]
        BY <1>4, CallerIs DEF CacheClientSplit, Splitting, SplitsAreAccepted
    <2>2. [caller[r] EXCEPT !.at = "client"] \in Splitting
        BY <2>1 DEF Splitting
    <2>3. /\ caller' \in [Callers -> CallerState]
          /\ caller'[r] = [caller[r] EXCEPT !.at = "client"]
          /\ \A o \in Callers \ {r} : caller'[o] = caller[o]
        BY <1>4, <2>2, CallerStaysTyped DEF CacheClientSplit, CallerState
    <2>4. /\ caller'[r].at = "client" /\ caller'[r].domain = caller[r].domain
          /\ caller'[r].weights = caller[r].weights
        BY <2>1, <2>3 DEF Splitting
    <2>5. clientSplits' \in Splits /\ AcceptedOrNone(clientSplits)'
        BY <1>4, <2>1 DEF CacheClientSplit, IngressTyped, Splits, SplitsAreAccepted, AcceptedOrNone
    <2>6. IngressTyped'
        BY <1>4, <2>3, <2>5 DEF CacheClientSplit, IngressTyped
    <2>7. BindingsAreKept'
        BY <1>4, BindingsStay DEF CacheClientSplit
    <2>8. SplitsAreAccepted'
        BY <1>4, <2>1, <2>3, <2>4, <2>5, SplitsStay
           DEF CacheClientSplit, SplitsAreAccepted, AcceptedOrNone
    <2> QED
        BY <1>4, <2>1, <2>6, <2>7, <2>8, NotQuiet DEF CacheClientSplit
<1>5. ASSUME NEW r \in Callers, CacheSplit(r) PROVE IngressInv'
    <2>1. /\ caller[r] \in Splitting /\ caller[r].at = "client"
          /\ caller[r].domain \in Domains /\ caller[r].weights \in Weights
          /\ caller[r].weights \in accepted[caller[r].domain]
        BY <1>5, CallerIs DEF CacheSplit, Splitting, SplitsAreAccepted
    <2>2. [caller[r] EXCEPT !.at = "manager"] \in Splitting
        BY <2>1 DEF Splitting
    <2>3. /\ caller' \in [Callers -> CallerState]
          /\ caller'[r] = [caller[r] EXCEPT !.at = "manager"]
          /\ \A o \in Callers \ {r} : caller'[o] = caller[o]
        BY <1>5, <2>2, CallerStaysTyped DEF CacheSplit, CallerState
    <2>4. /\ caller'[r].at = "manager" /\ caller'[r].domain = caller[r].domain
          /\ caller'[r].weights = caller[r].weights
        BY <2>1, <2>3 DEF Splitting
    <2>5. splits' \in Splits /\ AcceptedOrNone(splits)'
        BY <1>5, <2>1 DEF CacheSplit, IngressTyped, Splits, SplitsAreAccepted, AcceptedOrNone
    <2>6. IngressTyped'
        BY <1>5, <2>3, <2>5 DEF CacheSplit, IngressTyped
    <2>7. BindingsAreKept'
        BY <1>5, BindingsStay DEF CacheSplit
    <2>8. SplitsAreAccepted'
        BY <1>5, <2>1, <2>3, <2>4, <2>5, SplitsStay DEF CacheSplit, SplitsAreAccepted, AcceptedOrNone
    <2> QED
        BY <1>5, <2>1, <2>6, <2>7, <2>8, NotQuiet DEF CacheSplit
<1>6. ASSUME NEW r \in Callers, CacheAnswer(r) PROVE IngressInv'
    <2>1. /\ caller[r] \in Splitting /\ caller[r].at = "manager" /\ caller[r].app \in Apps
          /\ caller[r].domain \in Domains /\ caller[r].weights \in Weights
          /\ caller[r].weights \in accepted[caller[r].domain]
        BY <1>6, CallerIs DEF CacheAnswer, Splitting, SplitsAreAccepted
    <2>2. /\ caller' \in [Callers -> CallerState] /\ caller'[r].at = "idle"
          /\ \A o \in Callers \ {r} : caller'[o] = caller[o]
        BY <1>6, CallerStaysTyped DEF CacheAnswer, CallerState, IdleCaller
    <2>3. \A a \in Apps : answer'[a] = answer[a] \/ answer'[a] = caller[r].weights
        BY <1>6 DEF CacheAnswer, IngressTyped
    <2>4. IngressTyped'
        BY <1>6, <2>1, <2>2 DEF CacheAnswer, IngressTyped
    <2>5. BindingsAreKept'
        BY <1>6, BindingsStay DEF CacheAnswer
    <2>6. SplitsAreAccepted'
        BY <1>6, <2>1, <2>2, <2>3, SplitsStay DEF CacheAnswer, SplitsAreAccepted, AcceptedOrNone
    <2> QED
        BY <1>6, <2>1, <2>4, <2>5, <2>6, NotQuiet DEF CacheAnswer
<1>7. ASSUME NEW r \in Callers, RemoveSplit(r) PROVE IngressInv'
    <2>1. caller[r] \in Resetting /\ caller[r].at = "reset" /\ caller[r].domain \in Domains
        BY <1>7, CallerIs DEF RemoveSplit, Resetting
    <2>2. [caller[r] EXCEPT !.at = "deleting"] \in Resetting
        BY <2>1 DEF Resetting
    <2>3. /\ caller' \in [Callers -> CallerState]
          /\ caller'[r] = [caller[r] EXCEPT !.at = "deleting"]
          /\ \A o \in Callers \ {r} : caller'[o] = caller[o]
        BY <1>7, <2>2, CallerStaysTyped DEF RemoveSplit, CallerState
    <2>4. caller'[r].at = "deleting"
        BY <2>1, <2>3 DEF Resetting
    <2>5. splits' \in Splits /\ AcceptedOrNone(splits)'
        BY <1>7, <2>1 DEF RemoveSplit, IngressTyped, Splits, SplitsAreAccepted, AcceptedOrNone
    <2>6. IngressTyped'
        BY <1>7, <2>3, <2>5 DEF RemoveSplit, IngressTyped
    <2>7. BindingsAreKept'
        BY <1>7, BindingsStay DEF RemoveSplit
    <2>8. SplitsAreAccepted'
        BY <1>7, <2>3, <2>4, <2>5, SplitsStay DEF RemoveSplit, SplitsAreAccepted, AcceptedOrNone
    <2> QED
        BY <1>7, <2>1, <2>6, <2>7, <2>8, NotQuiet DEF RemoveSplit
<1>8. ASSUME NEW r \in Callers, DeleteSplitRoute(r) PROVE IngressInv'
    <2>1. caller[r] \in Resetting /\ caller[r].at = "deleting" /\ caller[r].domain \in Domains
        BY <1>8, CallerIs DEF DeleteSplitRoute, Resetting
    <2>2. /\ caller' \in [Callers -> CallerState] /\ caller'[r].at \in {"idle", "deleted"}
          /\ \A o \in Callers \ {r} : caller'[o] = caller[o]
        <3>1. PICK state \in {IdleCaller, [caller[r] EXCEPT !.at = "deleted"]} : Become(r, state)
            BY <1>8 DEF DeleteSplitRoute
        <3>2. state \in CallerState /\ state.at \in {"idle", "deleted"}
            BY <2>1 DEF CallerState, Resetting, IdleCaller
        <3> QED
            BY <3>1, <3>2, CallerStaysTyped
    <2>3. clientSplits' \in Splits /\ AcceptedOrNone(clientSplits)'
        BY <1>8, <2>1
           DEF DeleteSplitRoute, IngressTyped, Splits, SplitsAreAccepted, AcceptedOrNone
    <2>4. caddy' \in CaddyConfig /\ caddy'.routes = caddy.routes /\ caddy'.splits \subseteq caddy.splits
        <3>1. CASE UNCHANGED caddy
            BY <3>1 DEF IngressTyped
        <3>2. CASE ~UNCHANGED caddy
            <4>1. PICK old : caddy' = [caddy EXCEPT !.splits = caddy.splits \ old]
                BY <1>8, <3>2 DEF DeleteSplitRoute
            <4>2. caddy.splits \ old \in SUBSET (Domains \X Weights)
                BY CaddyUpdates
            <4> QED
                BY <4>1, <4>2, CaddyUpdates
        <3> QED
            BY <3>1, <3>2
    <2>5. \A x \in caddy'.splits : x[2] \in accepted'[x[1]]
        BY <1>8, <2>4 DEF DeleteSplitRoute, SplitsAreAccepted
    <2>6. IngressTyped'
        BY <1>8, <2>2, <2>3, <2>4 DEF DeleteSplitRoute, IngressTyped
    <2>7. BindingsAreKept'
        BY <1>8, <2>4, BindingsStay DEF DeleteSplitRoute
    <2>8. SplitsAreAccepted'
        BY <1>8, <2>2, <2>3, <2>5, SplitsStay
           DEF DeleteSplitRoute, SplitsAreAccepted, AcceptedOrNone
    <2> QED
        BY <1>8, <2>1, <2>6, <2>7, <2>8, NotQuiet DEF DeleteSplitRoute
<1>17. ASSUME NEW r \in Callers, ForgetSplits(r) PROVE IngressInv'
    <2>1. caller[r] \in Resetting /\ caller[r].at = "deleted"
        BY <1>17, CallerIs DEF ForgetSplits
    <2>2. /\ caller' \in [Callers -> CallerState] /\ caller'[r].at = "idle"
          /\ \A o \in Callers \ {r} : caller'[o] = caller[o]
        BY <1>17, CallerStaysTyped DEF ForgetSplits, CallerState, IdleCaller
    <2>3. clientSplits' \in Splits /\ AcceptedOrNone(clientSplits)'
        BY <1>17 DEF ForgetSplits, IngressTyped, Splits, SplitsAreAccepted, AcceptedOrNone
    <2>4. IngressTyped'
        BY <1>17, <2>2, <2>3 DEF ForgetSplits, IngressTyped
    <2>5. BindingsAreKept'
        BY <1>17, BindingsStay DEF ForgetSplits
    <2>6. SplitsAreAccepted'
        BY <1>17, <2>2, <2>3, SplitsStay DEF ForgetSplits, SplitsAreAccepted, AcceptedOrNone
    <2> QED
        BY <1>17, <2>1, <2>4, <2>5, <2>6, NotQuiet DEF ForgetSplits
<1>9. ASSUME NEW r \in Callers, ReconcileFromStore(r) PROVE IngressInv'
    <2>1. [at |-> "read", plain |-> StoredRoutes] \in CallerState
        BY StoredRoutesTyped DEF CallerState, HasRead
    <2>2. /\ caller' \in [Callers -> CallerState] /\ caller[r].at = "idle"
          /\ caller'[r].at = "read" /\ caller'[r].plain = StoredRoutes
          /\ \A o \in Callers \ {r} : caller'[o] = caller[o]
        BY <1>9, <2>1, CallerStaysTyped DEF ReconcileFromStore
    <2>3. IngressTyped'
        BY <1>9, <2>2 DEF ReconcileFromStore, IngressTyped
    <2>4. BindingsAreKept'
        BY <1>9, BindingsStay DEF ReconcileFromStore
    <2>5. SplitsAreAccepted'
        BY <1>9, <2>2, SplitsStay DEF ReconcileFromStore, SplitsAreAccepted, AcceptedOrNone
    <2>6. StoredRoutes' = StoredRoutes
        BY <1>9 DEF ReconcileFromStore, StoredRoutes
    <2>7. quiet' \in {"during", "no"} /\ (quiet' = "during" => \A o \in Callers : caller[o].at = "idle")
        BY <1>9 DEF ReconcileFromStore
    <2>8. QuietReconcile'
        BY <2>2, <2>6, <2>7 DEF QuietReconcile, IsAlone, Reconciling
    <2> QED
        BY <2>3, <2>4, <2>5, <2>8
<1>10. ASSUME NEW r \in Callers, ReconcileAll(r) PROVE IngressInv'
    <2>1. caller[r] \in HasRead /\ caller[r].at = "read" /\ caller[r].plain \in RowRoutes
        BY <1>10, CallerIs DEF ReconcileAll, HasRead
    <2>2. [at |-> "loading", plain |-> caller[r].plain, active |-> splits] \in CallerState
        BY <2>1 DEF CallerState, HasToLoad, IngressTyped
    <2>3. /\ caller' \in [Callers -> CallerState]
          /\ caller'[r].at = "loading" /\ caller'[r].plain = caller[r].plain
          /\ caller'[r].active = splits
          /\ \A o \in Callers \ {r} : caller'[o] = caller[o]
        BY <1>10, <2>2, CallerStaysTyped DEF ReconcileAll
    <2>4. IngressTyped'
        BY <1>10, <2>3 DEF ReconcileAll, IngressTyped
    <2>5. BindingsAreKept'
        BY <1>10, BindingsStay DEF ReconcileAll
    <2>6. SplitsAreAccepted'
        BY <1>10, <2>3, SplitsStay DEF ReconcileAll, SplitsAreAccepted, AcceptedOrNone
    <2>7. StoredRoutes' = StoredRoutes /\ splits' = splits /\ quiet' = quiet
        BY <1>10 DEF ReconcileAll, StoredRoutes
    <2>8. QuietReconcile'
        BY <2>1, <2>3, <2>7 DEF QuietReconcile, IsAlone, Reconciling
    <2> QED
        BY <2>4, <2>5, <2>6, <2>8
<1>11. ASSUME NEW r \in Callers, LoadFullConfig(r) PROVE IngressInv'
    <2>1. /\ caller[r] \in HasToLoad /\ caller[r].at = "loading"
          /\ caller[r].plain \in RowRoutes /\ caller[r].active \in Splits
          /\ AcceptedOrNone(caller[r].active)
        BY <1>11, CallerIs DEF LoadFullConfig, HasToLoad, SplitsAreAccepted
    <2>2. CASE Become(r, IdleCaller) /\ quiet' = "no" /\ UNCHANGED <<caddy, stuck, twins>>
        <3>1. /\ caller' \in [Callers -> CallerState] /\ caller'[r].at = "idle"
              /\ \A o \in Callers \ {r} : caller'[o] = caller[o]
            BY <2>2, CallerStaysTyped DEF CallerState, IdleCaller
        <3>2. IngressTyped'
            BY <1>11, <2>2, <3>1 DEF LoadFullConfig, IngressTyped
        <3>3. BindingsAreKept'
            BY <1>11, <2>2, BindingsStay DEF LoadFullConfig
        <3>4. SplitsAreAccepted'
            BY <1>11, <2>2, <3>1, SplitsStay DEF LoadFullConfig, SplitsAreAccepted, AcceptedOrNone
        <3> QED
            BY <2>2, <3>2, <3>3, <3>4, Disturbed
    <2>3. CASE /\ caddy' = BuildCaddyConfig(caller[r].plain, caller[r].active)
               /\ stuck' = {}
               /\ twins' = IDsOfTwo(caddy'.routes)
               /\ Become(r, [at |-> "loaded", plain |-> caller[r].plain])
               /\ UNCHANGED quiet
        <3>1. [at |-> "loaded", plain |-> caller[r].plain] \in CallerState
            BY <2>1 DEF CallerState, HasRead
        <3>2. /\ caller' \in [Callers -> CallerState]
              /\ caller'[r].at = "loaded" /\ caller'[r].plain = caller[r].plain
              /\ \A o \in Callers \ {r} : caller'[o] = caller[o]
            BY <2>3, <3>1, CallerStaysTyped
        <3>3. /\ caddy' \in CaddyConfig
              /\ \A p \in Pairs : <<p, "bound">> \notin caddy'.routes
              /\ \A x \in caddy'.splits : x[2] = caller[r].active[x[1]] /\ x[2] # NoSplit
            BY <2>1, <2>3, BuildTyped
        <3>4. IngressTyped'
            BY <1>11, <3>2, <3>3 DEF LoadFullConfig, IngressTyped
        <3>5. BindingsAreKept'
            <4>1. OneRouteOfEachID'
                BY <2>3, IDsOfTwoAre DEF OneRouteOfEachID
            <4> QED
                BY <1>11, <3>3, <4>1 DEF LoadFullConfig, BindingsAreKept
        <3>6. SplitsAreAccepted'
            <4>1. \A x \in caddy'.splits : x[1] \in Domains
                BY <3>3 DEF CaddyConfig
            <4>2. \A x \in caddy'.splits : x[2] \in accepted'[x[1]]
                BY <1>11, <2>1, <3>3, <4>1 DEF LoadFullConfig, AcceptedOrNone
            <4> QED
                BY <1>11, <3>2, <4>2, SplitsStay DEF LoadFullConfig, SplitsAreAccepted, AcceptedOrNone
        <3>7. StoredRoutes' = StoredRoutes /\ splits' = splits
            BY <1>11 DEF LoadFullConfig, StoredRoutes
        <3>8. /\ IsAlone(r)' = IsAlone(r)
              /\ Reconciling(r) => Reconciling(r)'
            BY <2>1, <2>3, <3>2, <3>7 DEF IsAlone, Reconciling, Loaded, BuildCaddyConfig
        <3>9. QuietReconcile'
            BY <2>1, <2>3, <3>8 DEF QuietReconcile, IsAlone
        <3> QED
            BY <3>4, <3>5, <3>6, <3>9
    <2> QED
        BY <1>11, <2>2, <2>3 DEF LoadFullConfig
<1>12. ASSUME NEW r \in Callers, CacheRoutes(r) PROVE IngressInv'
    <2>1. caller[r] \in HasRead /\ caller[r].at = "loaded" /\ caller[r].plain \in RowRoutes
        BY <1>12, CallerIs DEF CacheRoutes, HasRead
    <2>2. /\ caller' \in [Callers -> CallerState] /\ caller'[r].at = "idle"
          /\ \A o \in Callers \ {r} : caller'[o] = caller[o]
        BY <1>12, CallerStaysTyped DEF CacheRoutes, CallerState, IdleCaller
    <2>4. IngressTyped'
        BY <1>12, <2>2 DEF CacheRoutes, IngressTyped
    <2>5. BindingsAreKept'
        BY <1>12, BindingsStay DEF CacheRoutes
    <2>6. SplitsAreAccepted'
        BY <1>12, <2>2, SplitsStay DEF CacheRoutes, SplitsAreAccepted, AcceptedOrNone
    <2>7. /\ StoredRoutes' = StoredRoutes /\ Loaded' = Loaded
          /\ \E kept \in OneOfEachID(caller[r].plain) : routes' = kept \X {"row"}
          /\ quiet' = IF quiet = "during" THEN "since" ELSE quiet
        BY <1>12 DEF CacheRoutes, StoredRoutes, Loaded, BuildCaddyConfig
    <2>8. quiet = "during" => IsAlone(r) /\ Reconciling(r)
        BY <2>1 DEF QuietReconcile, IsAlone
    <2>9. quiet # "since"
        BY <2>1 DEF QuietReconcile
    <2>10. QuietReconcile'
        BY <2>1, <2>2, <2>7, <2>8, <2>9 DEF QuietReconcile, IsAlone, Reconciling
    <2> QED
        BY <2>4, <2>5, <2>6, <2>10
<1>13. ASSUME NEW r \in Callers, NEW b \in Bindings, DeleteDomain(r, b) PROVE IngressInv'
    <2> DEFINE p == binding[b].of
    <2>1. /\ p \in Pairs /\ binding' = [binding EXCEPT ![b].live = FALSE]
          /\ quiet' = "no" /\ caller[r].at = "idle"
        BY <1>13 DEF DeleteDomain, BindingsAreKept, Starts, Begin
    <2>2. /\ binding' \in [Bindings -> [of : Pairs \cup {<<>>}, live : BOOLEAN]]
          /\ binding'[b].live = FALSE
          /\ \A o \in Bindings \ {b} : binding'[o] = binding[o]
        BY ZenonT(60), <2>1 DEF IngressTyped
    <2> HIDE DEF p
    <2>3. [at |-> "removed", of |-> p] \in CallerState
        BY <2>1 DEF CallerState, OnRoute
    <2>4. /\ caller' \in [Callers -> CallerState]
          /\ \A o \in Callers \ {r} : caller'[o] = caller[o]
          /\ caller'[r].at \in {"idle", "removed"}
        <3>1. caller' = caller \/ Become(r, [at |-> "removed", of |-> p])
            BY <1>13 DEF DeleteDomain, p
        <3> QED
            BY <2>1, <2>3, <3>1, CallerStaysTyped DEF IngressTyped
    <2>5. \/ /\ UNCHANGED stuck
             /\ \E x \in RoutesAt(caddy.routes, p) :
                   caddy' = [caddy EXCEPT !.routes = caddy.routes \ {x}]
          \/ /\ caddy' = caddy
             /\ stuck' = IF <<p, "bound">> \in caddy.routes THEN stuck \cup {p} ELSE stuck
        BY <1>13 DEF DeleteDomain, p
    <2>6. /\ caddy' \in CaddyConfig /\ caddy'.splits = caddy.splits
          /\ caddy'.routes \subseteq caddy.routes /\ stuck \subseteq stuck'
          /\ <<p, "bound">> \in caddy'.routes => p \in stuck' \/ RouteID(p) \in twins
        <3>1. ASSUME NEW x \in RoutesAt(caddy.routes, p), UNCHANGED stuck,
                     caddy' = [caddy EXCEPT !.routes = caddy.routes \ {x}]
              PROVE  /\ caddy' \in CaddyConfig /\ caddy'.splits = caddy.splits
                     /\ caddy'.routes \subseteq caddy.routes /\ stuck \subseteq stuck'
                     /\ <<p, "bound">> \in caddy'.routes => p \in stuck' \/ RouteID(p) \in twins
            <4>1. /\ caddy' \in CaddyConfig /\ caddy'.splits = caddy.splits
                  /\ caddy'.routes = caddy.routes \ {x}
                BY <3>1, CaddyUpdates
            <4>2. <<p, "bound">> \in caddy'.routes => RouteID(p) \in twins
                BY <4>1 DEF BindingsAreKept, OneRouteOfEachID, RoutesAt
            <4> QED
                BY <3>1, <4>1, <4>2
        <3> QED
            BY <2>5, <3>1 DEF IngressTyped
    <2>7. IngressTyped'
        BY <1>13, <2>2, <2>4, <2>6 DEF DeleteDomain, IngressTyped
    <2>8. \A q \in Pairs \ {p} : InUse(q) => InUse(q)'
        BY <2>2 DEF InUse, p
    <2>9. BindingsAreKept'
        BY <1>13, <2>1, <2>2, <2>6, <2>8 DEF BindingsAreKept, OneRouteOfEachID, DeleteDomain
    <2>10. SplitsAreAccepted'
        BY <1>13, <2>4, <2>6, SplitsStay DEF DeleteDomain, SplitsAreAccepted, AcceptedOrNone
    <2> QED
        BY <2>1, <2>7, <2>9, <2>10, Disturbed
<1>14. ASSUME NEW r \in Callers, NEW b \in Bindings, NEW p \in Pairs, BindDomain(r, b, p)
       PROVE  IngressInv'
    <2>1. /\ binding' = [binding EXCEPT ![b] = [of |-> p, live |-> TRUE]]
          /\ binding[b].of = <<>> /\ quiet' = "no" /\ caller[r].at = "idle"
          /\ \A o \in Bindings : binding[o].live /\ binding[o].of[2] = p[2] => binding[o].of[1] = p[1]
        BY <1>14 DEF BindDomain, Starts, Begin
    <2>2. /\ binding' \in [Bindings -> [of : Pairs \cup {<<>>}, live : BOOLEAN]]
          /\ binding'[b].live /\ binding'[b].of = p
          /\ \A o \in Bindings \ {b} : binding'[o] = binding[o]
        BY <2>1 DEF IngressTyped
    <2>3. [at |-> "applied", of |-> p] \in CallerState
        BY DEF CallerState, OnRoute
    <2>4. /\ caller' \in [Callers -> CallerState]
          /\ \A o \in Callers \ {r} : caller'[o] = caller[o]
          /\ caller'[r].at \in {"idle", "applied"}
        <3>1. caller' = caller \/ Become(r, [at |-> "applied", of |-> p])
            BY <1>14 DEF BindDomain
        <3> QED
            BY <2>1, <2>3, <3>1, CallerStaysTyped DEF IngressTyped
    <2>5. \/ /\ stuck' = stuck \ {p}
             /\ \E old \in MayName(RoutesAt(caddy.routes, p)) :
                   caddy' = [caddy EXCEPT !.routes = (caddy.routes \ old) \cup {<<p, "bound">>}]
          \/ UNCHANGED <<caddy, stuck>>
        BY <1>14 DEF BindDomain
    <2>6. /\ caddy' \in CaddyConfig /\ caddy'.splits = caddy.splits
          /\ stuck \ {p} \subseteq stuck' /\ OneRouteOfEachID'
          /\ caddy'.routes \subseteq caddy.routes \cup {<<p, "bound">>}
        <3>1. ASSUME NEW old \in MayName(RoutesAt(caddy.routes, p)), stuck' = stuck \ {p},
                     caddy' = [caddy EXCEPT !.routes = (caddy.routes \ old) \cup {<<p, "bound">>}]
              PROVE  /\ caddy' \in CaddyConfig /\ caddy'.splits = caddy.splits
                     /\ stuck \ {p} \subseteq stuck' /\ OneRouteOfEachID'
                     /\ caddy'.routes \subseteq caddy.routes \cup {<<p, "bound">>}
            <4>1. (caddy.routes \ old) \cup {<<p, "bound">>} \in SUBSET (Pairs \X {"row", "bound"})
                BY CaddyUpdates
            <4>2. /\ caddy' \in CaddyConfig /\ caddy'.splits = caddy.splits
                  /\ caddy'.routes = (caddy.routes \ old) \cup {<<p, "bound">>}
                BY <3>1, <4>1, CaddyUpdates
            <4>3. OneRouteOfEachID /\ twins' = twins
                BY <1>14 DEF BindDomain, BindingsAreKept
            <4>4. ASSUME NEW y \in caddy.routes \ old, RouteID(y[1]) = RouteID(p)
                  PROVE  RouteID(p) \in twins
                BY <4>3, <4>4 DEF OneRouteOfEachID, RoutesAt, MayName
            <4>5. OneRouteOfEachID'
                BY <4>2, <4>3, <4>4 DEF OneRouteOfEachID
            <4> QED
                BY <3>1, <4>2, <4>5
        <3>2. CASE UNCHANGED <<caddy, stuck>>
            BY <1>14, <3>2 DEF BindDomain, BindingsAreKept, OneRouteOfEachID, IngressTyped
        <3> QED
            BY <2>5, <3>1, <3>2
    <2>7. IngressTyped'
        BY <1>14, <2>2, <2>4, <2>6 DEF BindDomain, IngressTyped
    <2>8. InUse(p)' /\ \A q \in Pairs : InUse(q) => InUse(q)'
        BY <2>1, <2>2, PairsArePairs DEF InUse
    <2>9. BindingsAreKept'
        BY <1>14, <2>1, <2>2, <2>6, <2>8 DEF BindingsAreKept, BindDomain
    <2>10. SplitsAreAccepted'
        BY <1>14, <2>4, <2>6, SplitsStay DEF BindDomain, SplitsAreAccepted, AcceptedOrNone
    <2> QED
        BY <2>1, <2>7, <2>9, <2>10, Disturbed
<1>15. ASSUME NEW r \in Callers, NEW a \in Apps, NEW d \in Domains, ResetAppTraffic(r, a, d)
       PROVE  IngressInv'
    <2>1. [at |-> "reset", domain |-> d] \in CallerState
        BY DEF CallerState, Resetting
    <2>2. /\ caller' \in [Callers -> CallerState] /\ caller'[r].at = "reset"
          /\ \A o \in Callers \ {r} : caller'[o] = caller[o]
        BY <1>15, <2>1, CallerStaysTyped DEF ResetAppTraffic
    <2>3. IngressTyped'
        BY <1>15, <2>2 DEF ResetAppTraffic, IngressTyped
    <2>4. BindingsAreKept'
        BY <1>15, BindingsStay DEF ResetAppTraffic
    <2>5. \A x \in Apps : answer'[x] = answer[x] \/ answer'[x] = Default
        BY <1>15 DEF ResetAppTraffic, IngressTyped
    <2>6. SplitsAreAccepted'
        BY <1>15, <2>2, <2>5, SplitsStay DEF ResetAppTraffic, SplitsAreAccepted, AcceptedOrNone
    <2> QED
        BY <1>15, <2>3, <2>4, <2>6, Disturbed DEF ResetAppTraffic, Starts, Begin
<1>16. ASSUME NEW r \in Callers, NEW a \in Apps, NEW d \in Domains, NEW w \in Weights,
              SetAppTraffic(r, a, d, w)
       PROVE  IngressInv'
    <2>1. [at |-> "put", app |-> a, domain |-> d, weights |-> w] \in CallerState
        BY DEF CallerState, Splitting
    <2>2. CASE UNCHANGED <<caddy, accepted, caller>>
        <3>1. IngressTyped'
            BY <1>16, <2>2 DEF SetAppTraffic, IngressTyped
        <3>2. BindingsAreKept'
            BY <1>16, <2>2, BindingsStay DEF SetAppTraffic
        <3>3. SplitsAreAccepted'
            BY <1>16, <2>2 DEF SetAppTraffic, SplitsAreAccepted, AcceptedOrNone
        <3> QED
            BY <1>16, <3>1, <3>2, <3>3, Disturbed DEF SetAppTraffic, Starts, Begin
    <2>3. ASSUME NEW old, caddy' = [caddy EXCEPT !.splits = (caddy.splits \ old) \cup {<<d, w>>}],
                 accepted' = [accepted EXCEPT ![d] = accepted[d] \cup {w}],
                 Become(r, [at |-> "put", app |-> a, domain |-> d, weights |-> w])
          PROVE  IngressInv'
        <3>1. (caddy.splits \ old) \cup {<<d, w>>} \in SUBSET (Domains \X Weights)
            BY CaddyUpdates
        <3>2. /\ caddy' \in CaddyConfig /\ caddy'.routes = caddy.routes
              /\ caddy'.splits = (caddy.splits \ old) \cup {<<d, w>>}
            BY <2>3, <3>1, CaddyUpdates
        <3>3. /\ accepted' \in [Domains -> SUBSET Weights] /\ w \in accepted'[d]
              /\ \A x \in Domains : accepted[x] \subseteq accepted'[x]
            BY <2>3 DEF IngressTyped
        <3>4. /\ caller' \in [Callers -> CallerState]
              /\ \A o \in Callers \ {r} : caller'[o] = caller[o]
              /\ caller'[r].at = "put" /\ caller'[r].domain = d /\ caller'[r].weights = w
            BY <2>1, <2>3, CallerStaysTyped
        <3>5. \A x \in caddy'.splits : x[2] \in accepted'[x[1]]
            <4>1. \A x \in caddy.splits : x[1] \in Domains /\ x[2] \in accepted[x[1]]
                BY CaddyUpdates DEF SplitsAreAccepted
            <4> QED
                BY <3>2, <3>3, <4>1
        <3>6. AcceptedOrNone(splits)' /\ AcceptedOrNone(clientSplits)'
            BY <1>16, <3>3 DEF SetAppTraffic, SplitsAreAccepted, AcceptedOrNone
        <3>7. IngressTyped'
            BY <1>16, <3>2, <3>3, <3>4 DEF SetAppTraffic, IngressTyped
        <3>8. BindingsAreKept'
            BY <1>16, <3>2, BindingsStay DEF SetAppTraffic
        <3>9. SplitsAreAccepted'
            BY <1>16, <3>3, <3>4, <3>5, <3>6, SplitsStay DEF SetAppTraffic
        <3> QED
            BY <1>16, <3>7, <3>8, <3>9, Disturbed DEF SetAppTraffic, Starts, Begin
    <2> QED
        BY <1>16, <2>2, <2>3 DEF SetAppTraffic
<1> QED
    BY <1>1, <1>2, <1>3, <1>4, <1>5, <1>6, <1>7, <1>8, <1>9, <1>10, <1>11, <1>12, <1>13, <1>14,
       <1>15, <1>16, <1>17 DEF IngressNext

LEMMA IngressInvSteps == IngressInv /\ [IngressNext]_ingressVars => IngressInv'
<1> SUFFICES ASSUME IngressInv, UNCHANGED ingressVars PROVE IngressInv'
    BY IngressInvNext
<1> USE DEF IngressInv, ingressVars
<1>1. IngressTyped'
    BY DEF IngressTyped
<1>2. BindingsAreKept'
    BY BindingsStay
<1>3. SplitsAreAccepted'
    BY DEF SplitsAreAccepted, AcceptedOrNone
<1>4. StoredRoutes' = StoredRoutes /\ Loaded' = Loaded
    BY DEF StoredRoutes, Loaded, BuildCaddyConfig
<1>5. QuietReconcile'
    BY <1>4 DEF QuietReconcile, IsAlone, Reconciling
<1> QED
    BY <1>1, <1>2, <1>3, <1>5

LEMMA FollowsFromInv == IngressInv => RoutesFollowDomains
<1> SUFFICES ASSUME IngressInv PROVE RoutesFollowDomains
    OBVIOUS
<1> USE DEF IngressInv
<1>1. \A d \in Domains : {splits[d], clientSplits[d]} \subseteq accepted[d] \cup {NoSplit}
    BY DEF SplitsAreAccepted, AcceptedOrNone
<1>2. ASSUME NEW a \in Apps, NEW d \in Domains, NEW w \in GetAppTraffic(a, d)
      PROVE  w = Default \/ \E e \in Domains :
                                w \in accepted[e] /\ (answer[a] = NoSplit => Slug[e] = Slug[d])
    <2>1. CASE answer[a] # NoSplit
        BY <2>1 DEF GetAppTraffic, SplitsAreAccepted
    <2>2. CASE answer[a] = NoSplit /\ clientSplits[d] # NoSplit
        BY <1>1, <2>2 DEF GetAppTraffic
    <2>3. CASE answer[a] = NoSplit /\ clientSplits[d] = NoSplit /\ w # Default
        <3>1. PICK x \in SplitsAt(caddy.splits, d) : w = x[2]
            BY <2>3 DEF GetAppTraffic
        <3>2. x \in caddy.splits /\ Slug[x[1]] = Slug[d] /\ x[1] \in Domains
            BY CaddyUpdates DEF SplitsAt
        <3> QED
            BY <3>1, <3>2 DEF SplitsAreAccepted
    <2> QED
        BY <2>1, <2>2, <2>3
<1>3. \A p \in Pairs : \A x, y \in RoutesAt(caddy.routes, p) : x = y \/ RouteID(p) \in twins
    BY DEF BindingsAreKept, OneRouteOfEachID, RoutesAt
<1> QED
    BY <1>1, <1>2, <1>3 DEF RoutesFollowDomains, BindingsAreKept, SplitsAreAccepted, QuietReconcile,
                            Loaded

(* What Caddy serves follows what was asked for, for any number of applications, domains and      *)
(* bindings, whichever of the domains have one slug, whatever Caddy refuses and however requests  *)
(* and reconciles overlap.                                                                        *)
THEOREM RoutesFollowDomainsHolds == IngressSpec => []RoutesFollowDomains
BY IngressInvInit, IngressInvSteps, FollowsFromInv, PTL DEF IngressSpec

-----------------------------------------------------------------------------
(***************************************************************************)
(* A compose stack, for any services, texts, requests and containers.      *)
(***************************************************************************)
(***************************************************************************)
(* The stack.  What is known of one deploy - the order of what is left to  *)
(* do, which container replaces which - holds however the others           *)
(* interleave with it; which containers are whose relates all of them.     *)
(* And as long as no request has met the half-done work of another, each   *)
(* service that was up has a witness: a container that no rollback will    *)
(* remove and no finished deploy is about to remove, and that runs, or     *)
(* that the deploy which stopped it will start again if it fails.  A       *)
(* deploy that has gone through its last service hands the witness over to *)
(* its own container.  A container that was made and whose ID did not come *)
(* back is in nobody's acts: it is neither settled nor a new one, so that  *)
(* no service counts on it, and it alone may outlive a failed deploy.      *)
(***************************************************************************)
HIDE DEF AppDeployAssumption, IngressAssumption
USE StacksAssumption DEF StacksAssumption

ContainerStates == {"none", "created", "running", "exited", "gone"}
Things   == Services \cup Networks \cup Volumes
ContainerRow == [service : Things \cup {None}, state : ContainerStates]
StackRow == [id : Nat, compose : Composes \cup {BadYaml},
             status : {"stopped", "running", "degraded", "failed", "deploying"}]

\* What a request about the stack is doing.
StackAt  == {"networks", "volumes", "find", "create", "connect", "start", "probe", "retire",
             "save", "rollback"}
Act      == [new : Numbers, old : Numbers \cup {None}, wasRunning : BOOLEAN]
Acting   == Seq(Act)
Todo     == Seq(Things)
Listed   == Seq(Numbers)
StackDeploy == [at : StackAt, id : Nat, compose : Composes, todo : Todo, nets : SUBSET Things,
                vols : SUBSET Things, acts : Acting, retire : Listed, made : Numbers \cup {None},
                old : Numbers \cup {None}, oldUp : BOOLEAN]
StackEach == [at : {"each"}, id : Nat, op : {"stop", "restart", "delete"}, todo : Listed]
StackJob == {AtRest} \cup StackDeploy \cup StackEach

\* It is at the first service of todo, and has listed its containers.
OnService(r) == job[r].at \in {"create", "connect", "start", "probe", "retire"}

StackTyped ==
    /\ container \in [Numbers -> ContainerRow]
    /\ stack \in StackRow \cup {NoRow}
    /\ job \in [StackRequests -> StackJob]
    /\ begun \in Nat /\ collided \in BOOLEAN
    /\ placed \subseteq Numbers /\ unreturned \subseteq Numbers
    /\ \A r \in StackRequests : OnService(r) => job[r].todo # <<>>

\* What r has replaced so far: a pair of a new container and the old one for each service.
Deploys(r) == job[r].at \in StackAt
Acts(r) == IF Deploys(r) THEN job[r].acts ELSE <<>>

LEMMA JobIs ==
    ASSUME StackTyped, NEW r \in StackRequests
    PROVE  /\ job[r] \in StackJob
           /\ Deploys(r) => job[r] \in StackDeploy
           /\ job[r].at = "each" => job[r] \in StackEach
           /\ ~Deploys(r) /\ job[r].at # "each" => job[r] = AtRest /\ job[r].at = "idle"
           /\ Acts(r) \in Acting
<1>1. job[r] \in StackJob
    BY DEF StackTyped
<1>2. job[r] = AtRest => job[r].at = "idle"
    BY DEF AtRest
<1>3. job[r] \in StackEach => job[r].at = "each"
    BY DEF StackEach
<1>4. job[r] \in StackDeploy => job[r].at \in StackAt /\ job[r].acts \in Acting
    BY DEF StackDeploy
<1>5. <<>> \in Acting
    BY DEF Acting
<1> QED
    BY <1>1, <1>2, <1>3, <1>4, <1>5 DEF StackJob, Deploys, StackAt, Acts

\* Only the job of r changes.
LEMMA JobGoes ==
    ASSUME StackTyped, NEW r \in StackRequests, NEW j, Goes(r, j)
    PROVE  /\ job'[r] = j /\ \A q \in StackRequests : q # r => job'[q] = job[q]
           /\ j \in StackJob => job' \in [StackRequests -> StackJob]
BY DEF Goes, StackTyped

LEMMA GoesTo ==
    ASSUME NEW j \in StackDeploy, NEW w \in StackAt
    PROVE  LET k == [j EXCEPT !.at = w] IN
           /\ k \in StackDeploy /\ k.at = w /\ k.compose = j.compose /\ k.todo = j.todo
           /\ k.acts = j.acts /\ k.retire = j.retire /\ k.old = j.old /\ k.oldUp = j.oldUp
           /\ k.made = j.made
BY DEF StackDeploy

LEMMA JobGoesTo ==
    ASSUME StackTyped, NEW r \in StackRequests, NEW w \in StackAt, GoTo(r, w), Deploys(r)
    PROVE  /\ \A q \in StackRequests : q # r => job'[q] = job[q]
           /\ job' \in [StackRequests -> StackJob]
           /\ job'[r].at = w /\ job'[r].compose = job[r].compose /\ job'[r].todo = job[r].todo
           /\ job'[r].acts = job[r].acts /\ job'[r].retire = job[r].retire
           /\ job'[r].old = job[r].old /\ job'[r].oldUp = job[r].oldUp
           /\ job'[r].made = job[r].made
<1> DEFINE k == [job[r] EXCEPT !.at = w]
<1>1. job[r] \in StackDeploy
    BY JobIs
<1>2. /\ k \in StackDeploy /\ k.at = w /\ k.compose = job[r].compose /\ k.todo = job[r].todo
      /\ k.acts = job[r].acts /\ k.retire = job[r].retire /\ k.old = job[r].old
      /\ k.oldUp = job[r].oldUp /\ k.made = job[r].made
    BY <1>1, GoesTo
<1>3. Goes(r, k)
    BY DEF GoTo
<1> HIDE DEF k
<1> QED
    BY <1>2, <1>3, JobGoes DEF StackJob

LEMMA SeqOfSet ==
    ASSUME NEW S, IsFiniteSet(S)
    PROVE  SetToSeq(S) \in Seq(S)
<1>1. Cardinality(S) \in Nat /\ ExistsBijection(1 .. Cardinality(S), S)
    BY FS_CardinalityType
<1>2. PICK f : f \in [1 .. Cardinality(S) -> S] /\ IsInjective(f)
    BY <1>1 DEF ExistsBijection, Bijection, Injection
<1>3. SetToSeq(S) \in [1 .. Cardinality(S) -> S]
    BY <1>2 DEF SetToSeq
<1> QED
    BY <1>1, <1>3

LEMMA SetStateIs ==
    ASSUME StackTyped, NEW c \in Numbers, NEW s \in ContainerStates, SetState(c, s)
    PROVE  /\ container' \in [Numbers -> ContainerRow]
           /\ container'[c].state = s /\ container'[c].service = container[c].service
           /\ \A b \in Numbers : b # c => container'[b] = container[b]
BY DEF StackTyped, SetState, ContainerRow

-----------------------------------------------------------------------------
(* What the steps of a deploy do, with the types of what they leave.        *)

OthersWait(r) == \A q \in StackRequests : q # r => job'[q] = job[q]

\* A container that exists keeps its service, and is never unmade.
Evolves ==
    \A c \in Numbers : container[c].state # "none" =>
        container'[c].state # "none" /\ container'[c].service = container[c].service

\* A step that only takes r to another place.
LEMMA TypedAfterGoTo ==
    ASSUME StackTyped, NEW r \in StackRequests, NEW w \in StackAt, GoTo(r, w), Deploys(r),
           container' \in [Numbers -> ContainerRow], stack' \in StackRow \cup {NoRow},
           begun' \in Nat, collided' \in BOOLEAN, placed' \subseteq Numbers,
           unreturned' \subseteq Numbers,
           w \in {"start", "probe", "retire"} => OnService(r), w \notin {"create", "connect"}
    PROVE  StackTyped'
<1>1. /\ OthersWait(r) /\ job' \in [StackRequests -> StackJob] /\ job'[r].at = w
      /\ job'[r].todo = job[r].todo
    BY JobGoesTo DEF OthersWait
<1>2. ASSUME NEW q \in StackRequests, OnService(q)'
      PROVE  job'[q].todo # <<>>
    BY <1>1, <1>2 DEF OthersWait, StackTyped, OnService
<1> QED
    BY <1>1, <1>2 DEF StackTyped

\* A step that leaves r with another record.
LEMMA TypedAfterGoes ==
    ASSUME StackTyped, NEW r \in StackRequests, NEW j \in StackJob, Goes(r, j),
           container' \in [Numbers -> ContainerRow], stack' \in StackRow \cup {NoRow},
           begun' \in Nat, collided' \in BOOLEAN, placed' \subseteq Numbers,
           unreturned' \subseteq Numbers,
           j.at \in {"create", "connect", "start", "probe", "retire"} => j.todo # <<>>
    PROVE  StackTyped' /\ OthersWait(r) /\ job'[r] = j
<1>1. OthersWait(r) /\ job' \in [StackRequests -> StackJob] /\ job'[r] = j
    BY JobGoes DEF OthersWait
<1>2. ASSUME NEW q \in StackRequests, OnService(q)'
      PROVE  job'[q].todo # <<>>
    BY <1>1, <1>2 DEF OthersWait, StackTyped, OnService
<1> QED
    BY <1>1, <1>2 DEF StackTyped

LEMMA BeginDeployIs ==
    ASSUME StackTyped, NEW r \in StackRequests, BeginDeploy(r), stack.compose # BadYaml
    PROVE  /\ StackTyped' /\ OthersWait(r)
           /\ job'[r].at = "networks" /\ job'[r].acts = <<>> /\ job'[r].retire = <<>>
           /\ job'[r].compose \in Composes /\ FromRest /\ UNCHANGED docker
<1> DEFINE j == [at |-> "networks", id |-> stack.id, compose |-> stack.compose,
                 todo |-> SetToSeq(Networks), nets |-> {}, vols |-> {},
                 acts |-> <<>>, retire |-> <<>>, made |-> None, old |-> None, oldUp |-> FALSE]
<1>1. stack \in StackRow /\ stack.id \in Nat /\ stack.compose \in Composes
    BY DEF BeginDeploy, StackTyped, StackRow
<1>2. SetToSeq(Networks) \in Todo
    BY SeqOfSet DEF Todo, Things
<1>3. <<>> \in Acting /\ <<>> \in Listed /\ None \in Numbers \cup {None}
    BY DEF Acting, Listed
<1>4. j \in StackDeploy
    BY <1>1, <1>2, <1>3 DEF StackDeploy, StackAt
<1>5. Goes(r, j) /\ stack' \in StackRow /\ begun' \in Nat /\ FromRest /\ UNCHANGED docker
    BY <1>1 DEF BeginDeploy, Status, StackRow, Call, StackTyped
<1>6. collided' \in BOOLEAN /\ placed' \subseteq Numbers /\ unreturned' \subseteq Numbers
    BY <1>5 DEF FromRest, ghosts, StackTyped, Present
<1>7. StackTyped' /\ OthersWait(r) /\ job'[r] = j
    BY <1>4, <1>5, <1>6, TypedAfterGoes DEF StackJob, docker, StackTyped
<1> QED
    BY <1>1, <1>5, <1>7

LEMMA TodoGoesOn ==
    ASSUME NEW t \in Todo, t # <<>>
    PROVE  Head(t) \in Things /\ Tail(t) \in Todo
BY HeadTailProperties DEF Todo

LEMMA CreateNetworksIs ==
    ASSUME StackTyped, NEW r \in StackRequests, CreateNetworks(r)
    PROVE  /\ StackTyped' /\ OthersWait(r) /\ job[r].at = "networks"
           /\ job'[r].at \in {"networks", "volumes", "rollback"}
           /\ job'[r].acts = job[r].acts /\ job'[r].retire = job[r].retire
           /\ job'[r].compose = job[r].compose
           /\ UNCHANGED <<container, ghosts>>
<1>1. job[r] \in StackDeploy /\ job[r].at = "networks" /\ Deploys(r)
    BY JobIs DEF CreateNetworks, Deploys, StackAt
<1>2. UNCHANGED <<container, stack, begun, ghosts>>
    BY DEF CreateNetworks
<1>3. ASSUME NEW j \in StackDeploy, Goes(r, j), j.at \in {"networks", "volumes"}
      PROVE  StackTyped' /\ OthersWait(r) /\ job'[r] = j
    BY <1>2, <1>3, TypedAfterGoes DEF StackJob, ghosts, StackTyped
<1>4. CASE job[r].todo = <<>> /\ Goes(r, [job[r] EXCEPT !.at = "volumes", !.todo = SetToSeq(Volumes)])
    <2> DEFINE j == [job[r] EXCEPT !.at = "volumes", !.todo = SetToSeq(Volumes)]
    <2>1. SetToSeq(Volumes) \in Todo
        BY SeqOfSet DEF Todo, Things
    <2>2. /\ j \in StackDeploy /\ j.at = "volumes" /\ j.acts = job[r].acts
          /\ j.retire = job[r].retire /\ j.compose = job[r].compose
        BY <1>1, <2>1 DEF StackDeploy, StackAt
    <2> QED
        BY <1>1, <1>2, <1>3, <1>4, <2>2
<1>5. ASSUME job[r].todo # <<>>,
             LET n == Head(job[r].todo)
             IN  Goes(r, [job[r] EXCEPT !.todo = Tail(@),
                                        !.nets = IF n \in networks THEN @ ELSE @ \cup {n}])
      PROVE  /\ StackTyped' /\ OthersWait(r) /\ job'[r].at = "networks"
             /\ job'[r].acts = job[r].acts /\ job'[r].retire = job[r].retire
             /\ job'[r].compose = job[r].compose
    <2> DEFINE n == Head(job[r].todo)
               m == IF n \in networks THEN job[r].nets ELSE job[r].nets \cup {n}
               t == Tail(job[r].todo)
               j == [job[r] EXCEPT !.todo = t, !.nets = m]
    <2>1. n \in Things /\ t \in Todo /\ m \in SUBSET Things
        BY <1>1, <1>5, TodoGoesOn DEF StackDeploy
    <2>2. Goes(r, j)
        BY <1>5
    <2> HIDE DEF n, m, t
    <2>3. /\ j \in StackDeploy /\ j.at = "networks" /\ j.acts = job[r].acts
          /\ j.retire = job[r].retire /\ j.compose = job[r].compose
        BY <1>1, <2>1 DEF StackDeploy, StackAt
    <2> QED
        BY <1>3, <2>2, <2>3
<1>6. CASE GoTo(r, "rollback")
    <2>1. StackTyped'
        BY <1>1, <1>2, <1>6, TypedAfterGoTo DEF ghosts, StackTyped, StackAt
    <2> QED
        BY <1>1, <1>2, <1>6, <2>1, JobGoesTo DEF OthersWait, StackAt
<1> QED
    BY <1>1, <1>2, <1>4, <1>5, <1>6 DEF CreateNetworks

\* By the well-foundedness of strict inclusion, for the intervals that begin in S.
LEMMA GreatestOf ==
    ASSUME NEW n \in Nat, NEW S \in SUBSET (1 .. n), S # {}
    PROVE  Max(S) \in S
<1> DEFINE T == {x .. n : x \in S}
<1>1. T \subseteq FiniteSubsetsOf(Nat) /\ T # {}
    <2>1. ASSUME NEW x \in S PROVE x .. n \in FiniteSubsetsOf(Nat)
        <3>1. x \in Int /\ n \in Int /\ x .. n \subseteq Nat
            OBVIOUS
        <3>2. IsFiniteSet(x .. n)
            BY <3>1, FS_Interval
        <3> QED
            BY <3>1, <3>2 DEF FiniteSubsetsOf
    <2>2. PICK x \in S : TRUE
        OBVIOUS
    <2>3. x .. n \in T
        BY <2>2
    <2> QED
        BY <2>1, <2>3
<1> HIDE DEF T
<1>2. PICK X \in T : \A Y \in T : <<Y, X>> \notin StrictSubsetOrdering(Nat)
    BY <1>1, FS_StrictSubsetOrderingWellFounded, WFMin
<1>3. PICK x \in S : X = x .. n
    BY DEF T
<1>4. ASSUME NEW y \in S PROVE x >= y
    <2>1. y .. n \in T /\ y .. n \in SUBSET Nat /\ x .. n \in SUBSET Nat
        BY DEF T
    <2>2. ~ (y .. n \subseteq x .. n /\ y .. n # x .. n)
        BY <1>2, <1>3, <2>1 DEF StrictSubsetOrdering
    <2>3. x \in 1 .. n /\ y \in 1 .. n
        OBVIOUS
    <2> QED
        BY <2>2, <2>3
<1> QED
    BY <1>4 DEF Max

LEMMA OrderIs ==
    ASSUME NEW deps \in Composes, NEW order \in ResolveDeploymentOrder(deps)
    PROVE  /\ DOMAIN deps \subseteq Services /\ Cardinality(DOMAIN deps) \in Nat
           /\ order \in Seq(Services) /\ Len(order) = Cardinality(DOMAIN deps)
           /\ \A i \in 1 .. Len(order) :
                 order[i] \in Ready(deps, {order[j] : j \in 1 .. i - 1})
<1>1. DOMAIN deps \subseteq Services
    OBVIOUS
<1>2. IsFiniteSet(DOMAIN deps)
    BY <1>1, FS_Subset
<1>3. Cardinality(DOMAIN deps) \in Nat
    BY <1>2, FS_CardinalityType
<1>4. /\ order \in [1 .. Cardinality(DOMAIN deps) -> DOMAIN deps]
      /\ \A i \in DOMAIN order : order[i] \in Ready(deps, {order[j] : j \in 1 .. i - 1})
    BY DEF ResolveDeploymentOrder
<1>5. order \in Seq(DOMAIN deps) /\ Len(order) = Cardinality(DOMAIN deps)
    BY <1>3, <1>4
<1> QED
    BY <1>1, <1>3, <1>4, <1>5

LEMMA CreateVolumesIs ==
    ASSUME StackTyped, NEW r \in StackRequests, CreateVolumes(r)
    PROVE  /\ StackTyped' /\ OthersWait(r) /\ job[r].at = "volumes"
           /\ \/ job'[r].at \in {"volumes", "rollback"}
              \/ /\ job'[r].at = "find"
                 /\ job'[r].todo \in ResolveDeploymentOrder(job[r].compose)
           /\ job'[r].acts = job[r].acts /\ job'[r].retire = job[r].retire
           /\ job'[r].compose = job[r].compose
           /\ UNCHANGED <<container, ghosts>>
<1>1. /\ job[r] \in StackDeploy /\ job[r].at = "volumes" /\ Deploys(r)
      /\ job[r].compose \in Composes
    BY JobIs DEF CreateVolumes, Deploys, StackAt, StackDeploy
<1>2. UNCHANGED <<container, stack, begun, ghosts>>
    BY DEF CreateVolumes
<1>3. ASSUME NEW j \in StackDeploy, Goes(r, j), j.at \in {"volumes", "find"}
      PROVE  StackTyped' /\ OthersWait(r) /\ job'[r] = j
    BY <1>2, <1>3, TypedAfterGoes DEF StackJob, ghosts, StackTyped
<1>4. ASSUME NEW order \in ResolveDeploymentOrder(job[r].compose),
             Goes(r, [job[r] EXCEPT !.at = "find", !.todo = order])
      PROVE  /\ StackTyped' /\ OthersWait(r) /\ job'[r].at = "find" /\ job'[r].todo = order
             /\ job'[r].acts = job[r].acts /\ job'[r].retire = job[r].retire
             /\ job'[r].compose = job[r].compose
    <2> DEFINE j == [job[r] EXCEPT !.at = "find", !.todo = order]
    <2>1. order \in Todo
        <3>1. order \in Seq(Services)
            BY <1>1, OrderIs
        <3> QED
            BY <3>1 DEF Todo, Things
    <2>2. /\ j \in StackDeploy /\ j.at = "find" /\ j.acts = job[r].acts /\ j.todo = order
          /\ j.retire = job[r].retire /\ j.compose = job[r].compose
        BY <1>1, <2>1 DEF StackDeploy, StackAt
    <2> QED
        BY <1>3, <1>4, <2>2
<1>5. ASSUME job[r].todo # <<>>,
             LET v == Head(job[r].todo)
             IN  Goes(r, [job[r] EXCEPT !.todo = Tail(@), !.vols = @ \cup {v}])
      PROVE  /\ StackTyped' /\ OthersWait(r) /\ job'[r].at = "volumes"
             /\ job'[r].acts = job[r].acts /\ job'[r].retire = job[r].retire
             /\ job'[r].compose = job[r].compose
    <2> DEFINE m == job[r].vols \cup {Head(job[r].todo)}
               t == Tail(job[r].todo)
               j == [job[r] EXCEPT !.todo = t, !.vols = m]
    <2>1. t \in Todo /\ m \in SUBSET Things
        BY <1>1, <1>5, TodoGoesOn DEF StackDeploy
    <2>2. Goes(r, j)
        BY <1>5
    <2> HIDE DEF m, t
    <2>3. /\ j \in StackDeploy /\ j.at = "volumes" /\ j.acts = job[r].acts
          /\ j.retire = job[r].retire /\ j.compose = job[r].compose
        BY <1>1, <2>1 DEF StackDeploy, StackAt
    <2> QED
        BY <1>3, <2>2, <2>3
<1>6. CASE GoTo(r, "rollback")
    <2>1. StackTyped'
        BY <1>1, <1>2, <1>6, TypedAfterGoTo DEF ghosts, StackTyped, StackAt
    <2> QED
        BY <1>1, <1>2, <1>6, <2>1, JobGoesTo DEF OthersWait, StackAt
<1> QED
    <2>1. \/ job[r].todo = <<>> /\ \E order \in ResolveDeploymentOrder(job[r].compose) :
                Goes(r, [job[r] EXCEPT !.at = "find", !.todo = order])
          \/ GoTo(r, "rollback")
          \/ job[r].todo # <<>> /\ LET v == Head(job[r].todo)
                IN  Goes(r, [job[r] EXCEPT !.todo = Tail(@), !.vols = @ \cup {v}])
        BY DEF CreateVolumes
    <2>2. CASE \E order \in ResolveDeploymentOrder(job[r].compose) :
                  Goes(r, [job[r] EXCEPT !.at = "find", !.todo = order])
        <3>1. PICK order \in ResolveDeploymentOrder(job[r].compose) :
                  Goes(r, [job[r] EXCEPT !.at = "find", !.todo = order])
            BY <2>2
        <3> QED
            BY <1>1, <1>2, <1>4, <3>1
    <2>3. CASE GoTo(r, "rollback")
        BY <1>1, <1>2, <1>6, <2>3
    <2>4. CASE job[r].todo # <<>> /\ LET v == Head(job[r].todo)
                IN  Goes(r, [job[r] EXCEPT !.todo = Tail(@), !.vols = @ \cup {v}])
        BY <1>1, <1>2, <1>5, <2>4
    <2> QED
        BY <2>1, <2>2, <2>3, <2>4

LEMMA FindOldContainerIs ==
    ASSUME StackTyped, NEW r \in StackRequests, FindOldContainer(r)
    PROVE  /\ StackTyped' /\ OthersWait(r) /\ job[r].at = "find" /\ job[r].todo # <<>>
           /\ job'[r].at = "create" /\ job'[r].todo = job[r].todo
           /\ job'[r].acts = job[r].acts /\ job'[r].retire = job[r].retire
           /\ job'[r].compose = job[r].compose
           /\ job'[r].old \in Of(Head(job[r].todo)) \cup {None}
           /\ job'[r].oldUp = (job'[r].old # None /\ job'[r].old \in Running)
           /\ collided' = (collided \/ HalfDone \ {r} # {})
           /\ UNCHANGED <<container, unreturned, placed, serving>>
<1>1. job[r] \in StackDeploy /\ job[r].at = "find" /\ job[r].todo # <<>>
    BY JobIs DEF FindOldContainer, Deploys, StackAt
<1> DEFINE s == Head(job[r].todo)
<1>a. PICK found \in {Of(s), {}} :
          Goes(r, [job[r] EXCEPT !.at = "create",
                                   !.old = IF found = {} THEN None ELSE Max(found),
                                   !.oldUp = found # {} /\ Max(found) \in Running])
    BY DEF FindOldContainer
<1> DEFINE old == IF found = {} THEN None ELSE Max(found)
           up == found # {} /\ Max(found) \in Running
           j == [job[r] EXCEPT !.at = "create", !.old = old, !.oldUp = up]
<1>2. Goes(r, j)
    BY <1>a
<1>3. Of(s) \subseteq Numbers /\ (Of(s) # {} => Max(Of(s)) \in Of(s)) /\ None \notin Numbers
    <2>1. Of(s) \in SUBSET (1 .. MaxContainers)
        BY DEF Of, Present, Numbers
    <2>2. Of(s) # {} => Max(Of(s)) \in Of(s)
        BY <2>1, GreatestOf
    <2> QED
        BY <2>1, <2>2 DEF Numbers, None
<1>4. /\ old \in Of(s) \cup {None} /\ old \in Numbers \cup {None} /\ up \in BOOLEAN
      /\ up = (old # None /\ old \in Running)
    BY <1>3
<1> HIDE DEF old, up
<1>5. /\ j \in StackDeploy /\ j.at = "create" /\ j.todo = job[r].todo /\ j.acts = job[r].acts
      /\ j.retire = job[r].retire /\ j.compose = job[r].compose /\ j.old = old /\ j.oldUp = up
    BY <1>1, <1>4 DEF StackDeploy, StackAt
<1>6. /\ UNCHANGED <<container, stack, begun, unreturned, placed, serving>>
      /\ collided' = (collided \/ HalfDone \ {r} # {}) /\ collided' \in BOOLEAN
    BY DEF FindOldContainer, docker
<1>7. StackTyped' /\ OthersWait(r) /\ job'[r] = j
    BY <1>1, <1>2, <1>5, <1>6, TypedAfterGoes DEF StackJob, StackTyped
<1> QED
    BY <1>1, <1>4, <1>5, <1>6, <1>7

LEMMA CreateServiceIs ==
    ASSUME StackTyped, NEW r \in StackRequests, CreateService(r)
    PROVE  /\ StackTyped' /\ OthersWait(r) /\ job[r].at = "create"
           /\ job'[r].todo = job[r].todo /\ job'[r].retire = job[r].retire
           /\ job'[r].compose = job[r].compose /\ job'[r].old = job[r].old
           /\ job'[r].oldUp = job[r].oldUp
           /\ job'[r].acts = job[r].acts /\ UNCHANGED <<placed, serving, collided>>
           /\ \/ job'[r].at = "rollback" /\ UNCHANGED <<container, unreturned>>
              \/ \E c \in Numbers :
                    /\ container[c].state = "none" /\ container'[c].state = "created"
                    /\ container'[c].service = Head(job[r].todo)
                    /\ \A b \in Numbers : b # c => container'[b] = container[b]
                    /\ job'[r].at = "connect" /\ job'[r].made = c
                    /\ unreturned' = unreturned \cup {c}
<1>1. /\ job[r] \in StackDeploy /\ job[r].at = "create" /\ Deploys(r) /\ job[r].todo # <<>>
    BY JobIs DEF CreateService, Deploys, StackAt, StackTyped, OnService
<1>2. UNCHANGED <<stack, begun, placed, serving, collided>>
    BY DEF CreateService
<1>3. ASSUME NEW c \in Numbers, container[c].state = "none",
             container' = [container EXCEPT ![c] =
                              [service |-> Head(job[r].todo), state |-> "created"]],
             Goes(r, [job[r] EXCEPT !.at = "connect", !.made = c]),
             unreturned' = unreturned \cup {c}
      PROVE  /\ StackTyped' /\ OthersWait(r)
             /\ container[c].state = "none" /\ container'[c].state = "created"
             /\ container'[c].service = Head(job[r].todo)
             /\ \A b \in Numbers : b # c => container'[b] = container[b]
             /\ job'[r].at = "connect" /\ job'[r].made = c
             /\ job'[r].acts = job[r].acts
             /\ job'[r].todo = job[r].todo /\ job'[r].retire = job[r].retire
             /\ job'[r].compose = job[r].compose /\ job'[r].old = job[r].old
             /\ job'[r].oldUp = job[r].oldUp
    <2> DEFINE j == [job[r] EXCEPT !.at = "connect", !.made = c]
    <2>1. /\ j \in StackDeploy /\ j.at = "connect" /\ j.todo = job[r].todo
          /\ j.acts = job[r].acts /\ j.made = c
          /\ j.retire = job[r].retire /\ j.compose = job[r].compose /\ j.old = job[r].old
          /\ j.oldUp = job[r].oldUp
        BY <1>1 DEF StackDeploy, StackAt
    <2>2. /\ container' \in [Numbers -> ContainerRow] /\ container'[c].state = "created"
          /\ container'[c].service = Head(job[r].todo)
          /\ \A b \in Numbers : b # c => container'[b] = container[b]
        <3> DEFINE new == [service |-> Head(job[r].todo), state |-> "created"]
        <3>1. Head(job[r].todo) \in Things
            BY <1>1, TodoGoesOn DEF StackDeploy
        <3>2. new \in ContainerRow /\ new.state = "created" /\ new.service = Head(job[r].todo)
            BY <3>1 DEF ContainerRow, ContainerStates
        <3>3. container' = [container EXCEPT ![c] = new]
            BY <1>3
        <3> HIDE DEF new
        <3> QED
            BY <3>2, <3>3 DEF StackTyped
    <2>3. StackTyped' /\ OthersWait(r) /\ job'[r] = j
        BY <1>1, <1>2, <1>3, <2>1, <2>2, TypedAfterGoes DEF StackJob, StackTyped
    <2> QED
        BY <1>3, <2>1, <2>2, <2>3
<1>4. CASE GoTo(r, "rollback") /\ UNCHANGED <<volumes, container, unreturned>>
    <2>1. StackTyped'
        BY <1>1, <1>2, <1>4, TypedAfterGoTo DEF StackTyped, StackAt
    <2> QED
        BY <1>1, <1>2, <1>4, <2>1, JobGoesTo DEF OthersWait, StackAt
<1> QED
    <2>1. \/ GoTo(r, "rollback") /\ UNCHANGED <<volumes, container, unreturned>>
          \/ \E c \in Numbers :
                /\ container[c].state = "none"
                /\ container' = [container EXCEPT ![c] =
                                  [service |-> Head(job[r].todo), state |-> "created"]]
                /\ Goes(r, [job[r] EXCEPT !.at = "connect", !.made = c])
                /\ unreturned' = unreturned \cup {c}
        BY DEF CreateService
    <2>2. CASE GoTo(r, "rollback") /\ UNCHANGED <<volumes, container, unreturned>>
        BY <1>1, <1>2, <1>4, <2>2
    <2>3. CASE \E c \in Numbers :
                  /\ container[c].state = "none"
                  /\ container' = [container EXCEPT ![c] =
                                    [service |-> Head(job[r].todo), state |-> "created"]]
                  /\ Goes(r, [job[r] EXCEPT !.at = "connect", !.made = c])
                  /\ unreturned' = unreturned \cup {c}
        <3>1. PICK c \in Numbers :
                  /\ container[c].state = "none"
                  /\ container' = [container EXCEPT ![c] =
                                    [service |-> Head(job[r].todo), state |-> "created"]]
                  /\ Goes(r, [job[r] EXCEPT !.at = "connect", !.made = c])
                  /\ unreturned' = unreturned \cup {c}
            BY <2>3
        <3>2. /\ StackTyped' /\ OthersWait(r)
              /\ container[c].state = "none" /\ container'[c].state = "created"
              /\ container'[c].service = Head(job[r].todo)
              /\ \A b \in Numbers : b # c => container'[b] = container[b]
              /\ job'[r].at = "connect" /\ job'[r].made = c
              /\ job'[r].acts = job[r].acts
              /\ job'[r].todo = job[r].todo /\ job'[r].retire = job[r].retire
              /\ job'[r].compose = job[r].compose /\ job'[r].old = job[r].old
              /\ job'[r].oldUp = job[r].oldUp
            BY <1>3, <3>1
        <3> QED
            BY <1>1, <1>2, <3>1, <3>2
    <2> QED
        BY <2>1, <2>2, <2>3

\* The act that ConnectService appends.
NewAct(r) == [new |-> job[r].made, old |-> job[r].old, wasRunning |-> job[r].oldUp]

LEMMA ConnectServiceIs ==
    ASSUME StackTyped, NEW r \in StackRequests, ConnectService(r)
    PROVE  /\ StackTyped' /\ OthersWait(r) /\ job[r].at = "connect"
           /\ job'[r].todo = job[r].todo /\ job'[r].retire = job[r].retire
           /\ job'[r].compose = job[r].compose /\ job'[r].old = job[r].old
           /\ UNCHANGED <<placed, serving, collided>>
           /\ \/ /\ job'[r].at = "rollback" /\ job'[r].acts = job[r].acts
                 /\ UNCHANGED unreturned
                 /\ \/ UNCHANGED container
                    \/ /\ job[r].made \in Present /\ container'[job[r].made].state = "gone"
                       /\ container'[job[r].made].service = container[job[r].made].service
                       /\ \A b \in Numbers : b # job[r].made => container'[b] = container[b]
              \/ /\ job[r].made \in Present /\ UNCHANGED container
                 /\ job'[r].at = "start" /\ NewAct(r) \in Act
                 /\ job'[r].acts = Append(job[r].acts, NewAct(r))
                 /\ unreturned' = unreturned \ {job[r].made}
<1>1. /\ job[r] \in StackDeploy /\ job[r].at = "connect" /\ job[r].todo # <<>>
      /\ job[r].acts \in Acting
    BY JobIs DEF ConnectService, Deploys, StackAt, StackTyped, OnService, StackDeploy
<1>2. UNCHANGED <<stack, begun, placed, serving, collided>>
    BY DEF ConnectService
<1>3. CASE /\ job[r].made \in Present
           /\ Goes(r, [job[r] EXCEPT !.at = "start", !.made = None,
                         !.acts = Append(@, [new |-> job[r].made, old |-> job[r].old,
                                             wasRunning |-> job[r].oldUp])])
           /\ unreturned' = unreturned \ {job[r].made}
           /\ UNCHANGED container
    <2> DEFINE a == Append(job[r].acts, NewAct(r))
               j == [job[r] EXCEPT !.at = "start", !.made = None, !.acts = a]
    <2>1. NewAct(r) \in Act
        <3>1. job[r].made \in Numbers
            BY <1>3 DEF Present
        <3> QED
            BY <1>1, <3>1 DEF NewAct, Act, StackDeploy
    <2>2. a \in Acting
        BY <1>1, <2>1, AppendProperties DEF Acting
    <2>3. Goes(r, j)
        BY <1>3 DEF NewAct
    <2> HIDE DEF a
    <2>4. /\ j \in StackDeploy /\ j.at = "start" /\ j.todo = job[r].todo /\ j.acts = a
          /\ j.retire = job[r].retire /\ j.compose = job[r].compose /\ j.old = job[r].old
        BY <1>1, <2>2 DEF StackDeploy, StackAt
    <2>5. StackTyped' /\ OthersWait(r) /\ job'[r] = j
        BY <1>1, <1>2, <1>3, <2>3, <2>4, TypedAfterGoes DEF StackJob, StackTyped
    <2> QED
        BY <1>1, <1>2, <1>3, <2>1, <2>4, <2>5 DEF a
<1>4. CASE /\ Goes(r, [job[r] EXCEPT !.at = "rollback", !.made = None])
           /\ (job[r].made \in Present /\ SetState(job[r].made, "gone")) \/ UNCHANGED container
           /\ UNCHANGED unreturned
    <2> DEFINE j == [job[r] EXCEPT !.at = "rollback", !.made = None]
    <2>1. /\ j \in StackDeploy /\ j.at = "rollback" /\ j.todo = job[r].todo
          /\ j.acts = job[r].acts
          /\ j.retire = job[r].retire /\ j.compose = job[r].compose /\ j.old = job[r].old
        BY <1>1 DEF StackDeploy, StackAt
    <2>2. /\ container' \in [Numbers -> ContainerRow]
          /\ \/ UNCHANGED container
             \/ /\ job[r].made \in Present /\ container'[job[r].made].state = "gone"
                /\ container'[job[r].made].service = container[job[r].made].service
                /\ \A b \in Numbers : b # job[r].made => container'[b] = container[b]
        <3>1. CASE UNCHANGED container
            BY <3>1 DEF StackTyped
        <3>2. CASE job[r].made \in Present /\ SetState(job[r].made, "gone")
            <4>1. PICK c \in Numbers : c = job[r].made
                BY <3>2 DEF Present
            <4> QED
                BY <3>2, <4>1, SetStateIs DEF ContainerStates
        <3> QED
            BY <1>4, <3>1, <3>2
    <2>3. StackTyped' /\ OthersWait(r) /\ job'[r] = j
        BY <1>1, <1>2, <1>4, <2>1, <2>2, TypedAfterGoes DEF StackJob, StackTyped
    <2> QED
        BY <1>1, <1>2, <1>4, <2>1, <2>2, <2>3
<1> QED
    BY <1>3, <1>4 DEF ConnectService

LEMMA StartServiceIs ==
    ASSUME StackTyped, NEW r \in StackRequests, StartService(r)
    PROVE  /\ StackTyped' /\ OthersWait(r) /\ job[r].at = "start" /\ UNCHANGED ghosts
           /\ job'[r].at \in {"probe", "retire", "rollback"}
           /\ job'[r].acts = job[r].acts /\ job'[r].retire = job[r].retire
           /\ job'[r].compose = job[r].compose /\ job'[r].todo = job[r].todo
           /\ job'[r].old = job[r].old
           /\ \/ job'[r].at = "rollback" /\ UNCHANGED container
              \/ /\ New(r) \in Present /\ container'[New(r)].state = "running"
                 /\ container'[New(r)].service = container[New(r)].service
                 /\ \A b \in Numbers : b # New(r) => container'[b] = container[b]
<1>1. job[r].at = "start" /\ Deploys(r)
    BY DEF StartService, Deploys, StackAt
<1>2. UNCHANGED <<stack, begun, ghosts>>
    BY DEF StartService
<1>3. \E w \in {"probe", "retire", "rollback"} :
          /\ GoTo(r, w)
          /\ \/ w = "rollback" /\ UNCHANGED container
             \/ New(r) \in Present /\ SetState(New(r), "running")
    BY DEF StartService
<1>4. PICK w \in {"probe", "retire", "rollback"} :
          /\ GoTo(r, w)
          /\ \/ w = "rollback" /\ UNCHANGED container
             \/ New(r) \in Present /\ SetState(New(r), "running")
    BY <1>3
<1>5. w \in StackAt
    BY DEF StackAt
<1>6. /\ OthersWait(r) /\ job'[r].at = w /\ job'[r].compose = job[r].compose
      /\ job'[r].todo = job[r].todo /\ job'[r].acts = job[r].acts
      /\ job'[r].retire = job[r].retire /\ job'[r].old = job[r].old
    BY <1>1, <1>4, <1>5, JobGoesTo DEF OthersWait
<1>7. CASE w = "rollback" /\ UNCHANGED container
    <2>1. StackTyped'
        BY <1>1, <1>2, <1>4, <1>5, <1>7, TypedAfterGoTo DEF ghosts, StackTyped, OnService
    <2> QED
        BY <1>1, <1>2, <1>6, <1>7, <2>1
<1>8. CASE New(r) \in Present /\ SetState(New(r), "running")
    <2>1. PICK c \in Numbers : c = New(r)
        BY <1>8 DEF Present
    <2>2. /\ container' \in [Numbers -> ContainerRow] /\ container'[c].state = "running"
          /\ container'[c].service = container[c].service
          /\ \A b \in Numbers : b # c => container'[b] = container[b]
        BY <1>8, <2>1, SetStateIs DEF ContainerStates
    <2>3. StackTyped'
        BY <1>1, <1>2, <1>4, <1>5, <2>2, TypedAfterGoTo DEF ghosts, StackTyped, OnService
    <2> QED
        BY <1>1, <1>2, <1>6, <1>8, <2>1, <2>2, <2>3
<1> QED
    BY <1>4, <1>7, <1>8

LEMMA ProbeHealthIs ==
    ASSUME StackTyped, NEW r \in StackRequests, ProbeHealth(r)
    PROVE  /\ StackTyped' /\ OthersWait(r) /\ job[r].at = "probe"
           /\ job'[r].at \in {"retire", "rollback"}
           /\ job'[r].acts = job[r].acts /\ job'[r].retire = job[r].retire
           /\ job'[r].compose = job[r].compose /\ job'[r].todo = job[r].todo
           /\ job'[r].old = job[r].old
           /\ UNCHANGED <<container, ghosts>>
<1>1. job[r].at = "probe" /\ Deploys(r)
    BY DEF ProbeHealth, Deploys, StackAt
<1>2. UNCHANGED <<container, stack, begun, ghosts>>
    BY DEF ProbeHealth, docker
<1>3. PICK w \in {"retire", "rollback"} : GoTo(r, w)
    BY DEF ProbeHealth
<1>4. w \in StackAt
    BY DEF StackAt
<1>5. StackTyped'
    BY <1>1, <1>2, <1>3, <1>4, TypedAfterGoTo DEF ghosts, StackTyped, OnService
<1> QED
    BY <1>1, <1>2, <1>3, <1>4, <1>5, JobGoesTo DEF OthersWait

LEMMA StopOldContainerIs ==
    ASSUME StackTyped, NEW r \in StackRequests, StopOldContainer(r)
    PROVE  /\ StackTyped' /\ OthersWait(r) /\ job[r].at = "retire" /\ UNCHANGED ghosts
           /\ job'[r].at = "find" /\ job[r].todo # <<>> /\ job'[r].todo = Tail(job[r].todo)
           /\ job'[r].acts = job[r].acts /\ job'[r].compose = job[r].compose
           /\ job'[r].retire = IF job[r].old = None THEN job[r].retire
                               ELSE Append(job[r].retire, job[r].old)
           /\ job[r].old \in Numbers \cup {None} /\ job[r].retire \in Listed
           /\ \/ UNCHANGED container
              \/ /\ job[r].old \in Numbers /\ container[job[r].old].state = "running"
                 /\ container'[job[r].old].state = "exited"
                 /\ container'[job[r].old].service = container[job[r].old].service
                 /\ \A b \in Numbers : b # job[r].old => container'[b] = container[b]
<1>1. /\ job[r] \in StackDeploy /\ job[r].at = "retire" /\ job[r].todo # <<>>
      /\ job[r].old \in Numbers \cup {None} /\ job[r].retire \in Listed
    BY JobIs DEF StopOldContainer, Deploys, StackAt, StackTyped, StackDeploy, OnService
<1>2. UNCHANGED <<stack, begun, ghosts>>
    BY DEF StopOldContainer
<1> DEFINE t == Tail(job[r].todo)
           l == IF job[r].old = None THEN job[r].retire ELSE Append(job[r].retire, job[r].old)
           j == [job[r] EXCEPT !.at = "find", !.todo = t, !.retire = l]
<1>3. Goes(r, j)
    BY DEF StopOldContainer
<1>4. t \in Todo /\ l \in Listed
    <2>1. job[r].old # None => Append(job[r].retire, job[r].old) \in Listed
        BY <1>1, AppendProperties DEF Listed
    <2> QED
        BY <1>1, <2>1, TodoGoesOn DEF StackDeploy
<1>5. /\ container' \in [Numbers -> ContainerRow]
      /\ \/ UNCHANGED container
         \/ /\ job[r].old \in Numbers /\ container[job[r].old].state = "running"
            /\ container'[job[r].old].state = "exited"
            /\ container'[job[r].old].service = container[job[r].old].service
            /\ \A b \in Numbers : b # job[r].old => container'[b] = container[b]
    <2>1. CASE UNCHANGED container
        BY <2>1 DEF StackTyped
    <2>2. CASE job[r].old \in Running /\ SetState(job[r].old, "exited")
        <3>1. PICK c \in Numbers : c = job[r].old /\ container[c].state = "running"
            BY <2>2 DEF Running
        <3> QED
            BY <2>2, <3>1, SetStateIs DEF ContainerStates
    <2> QED
        BY <2>1, <2>2 DEF StopOldContainer
<1> HIDE DEF t, l
<1>6. /\ j \in StackDeploy /\ j.at = "find" /\ j.todo = t /\ j.retire = l
      /\ j.acts = job[r].acts /\ j.compose = job[r].compose
    BY <1>1, <1>4 DEF StackDeploy, StackAt
<1>7. StackTyped' /\ OthersWait(r) /\ job'[r] = j
    BY <1>2, <1>3, <1>5, <1>6, TypedAfterGoes DEF StackJob, StackTyped, ghosts
<1> QED
    BY <1>1, <1>2, <1>5, <1>6, <1>7 DEF t, l

\* What r has made, and how far it is: the last step of a deploy.
Finishing(r) == job[r].at = "find" /\ job[r].todo = <<>>

LEMMA RemoveRetiredIs ==
    ASSUME StackTyped, NEW r \in StackRequests, RemoveRetired(r)
    PROVE  /\ StackTyped' /\ OthersWait(r) /\ Finishing(r) /\ UNCHANGED <<unreturned, collided>>
           /\ job[r].retire \in Listed
           /\ \/ /\ job[r].retire # <<>> /\ UNCHANGED ghosts
                 /\ job'[r].at = "find" /\ job'[r].todo = <<>> /\ job'[r].acts = job[r].acts
                 /\ job'[r].compose = job[r].compose /\ job'[r].retire = Tail(job[r].retire)
                 /\ \/ UNCHANGED container
                    \/ /\ Head(job[r].retire) \in Present
                       /\ container'[Head(job[r].retire)].state = "gone"
                       /\ container'[Head(job[r].retire)].service
                             = container[Head(job[r].retire)].service
                       /\ \A b \in Numbers :
                             b # Head(job[r].retire) => container'[b] = container[b]
              \/ /\ placed' = placed \cup {a.new : a \in ToSet(job[r].acts)}
                 /\ serving' = serving \cup DOMAIN job[r].compose
                 /\ job'[r].at = "save" /\ job'[r].acts = <<>> /\ UNCHANGED container
<1>1. /\ job[r] \in StackDeploy /\ Finishing(r) /\ job[r].retire \in Listed
      /\ job[r].acts \in Acting
    BY JobIs DEF RemoveRetired, Deploys, StackAt, StackDeploy, Finishing
<1>2. UNCHANGED <<stack, begun, unreturned, collided>>
    BY DEF RemoveRetired
<1>3. CASE /\ job[r].retire # <<>>
           /\ \/ Head(job[r].retire) \in Present /\ SetState(Head(job[r].retire), "gone")
              \/ UNCHANGED container
           /\ Goes(r, [job[r] EXCEPT !.retire = Tail(@)])
           /\ UNCHANGED <<placed, serving>>
    <2> DEFINE l == Tail(job[r].retire)
               j == [job[r] EXCEPT !.retire = l]
    <2>1. l \in Listed
        BY <1>1, <1>3, HeadTailProperties DEF Listed
    <2>2. Goes(r, j)
        BY <1>3
    <2> HIDE DEF l
    <2>3. /\ j \in StackDeploy /\ j.at = "find" /\ j.todo = <<>> /\ j.acts = job[r].acts
          /\ j.compose = job[r].compose /\ j.retire = l
        BY <1>1, <2>1 DEF StackDeploy, StackAt, Finishing
    <2>4. /\ container' \in [Numbers -> ContainerRow]
          /\ \/ UNCHANGED container
             \/ /\ Head(job[r].retire) \in Present
                /\ container'[Head(job[r].retire)].state = "gone"
                /\ container'[Head(job[r].retire)].service
                      = container[Head(job[r].retire)].service
                /\ \A b \in Numbers :
                      b # Head(job[r].retire) => container'[b] = container[b]
        <3>1. CASE UNCHANGED container
            BY <3>1 DEF StackTyped
        <3>2. CASE Head(job[r].retire) \in Present /\ SetState(Head(job[r].retire), "gone")
            <4>1. PICK c \in Numbers : c = Head(job[r].retire)
                BY <3>2 DEF Present
            <4> QED
                BY <3>2, <4>1, SetStateIs DEF ContainerStates
        <3> QED
            BY <1>3, <3>1, <3>2
    <2>5. StackTyped' /\ OthersWait(r) /\ job'[r] = j
        BY <1>2, <1>3, <2>2, <2>3, <2>4, TypedAfterGoes DEF StackJob, StackTyped
    <2> QED
        BY <1>1, <1>2, <1>3, <2>3, <2>4, <2>5 DEF l, ghosts
<1>4. CASE /\ job[r].retire = <<>>
           /\ placed' = placed \cup {a.new : a \in ToSet(job[r].acts)}
           /\ serving' = serving \cup DOMAIN job[r].compose
           /\ Goes(r, [job[r] EXCEPT !.at = "save", !.acts = <<>>,
                                   !.todo = SetToSeq(job[r].nets) \o SetToSeq(job[r].vols)])
           /\ UNCHANGED container
    <2> DEFINE t == SetToSeq(job[r].nets) \o SetToSeq(job[r].vols)
               j == [job[r] EXCEPT !.at = "save", !.acts = <<>>, !.todo = t]
    <2>1. t \in Todo
        <3>1. IsFiniteSet(Services) /\ IsFiniteSet(Networks) /\ IsFiniteSet(Volumes)
            OBVIOUS
        <3>2. IsFiniteSet(Services \cup Networks)
            BY <3>1, FS_Union
        <3>3. IsFiniteSet(Things)
            BY <3>1, <3>2, FS_Union DEF Things
        <3>4. job[r].nets \in SUBSET Things /\ job[r].vols \in SUBSET Things
            BY <1>1 DEF StackDeploy
        <3>5. IsFiniteSet(job[r].nets) /\ IsFiniteSet(job[r].vols)
            BY <3>3, <3>4, FS_Subset
        <3>6. /\ SetToSeq(job[r].nets) \in Seq(job[r].nets)
              /\ SetToSeq(job[r].vols) \in Seq(job[r].vols)
            BY <3>5, SeqOfSet
        <3>7. SetToSeq(job[r].nets) \in Seq(Things) /\ SetToSeq(job[r].vols) \in Seq(Things)
            BY <3>4, <3>6
        <3> QED
            BY <3>7, ConcatProperties DEF Todo
    <2>2. Goes(r, j)
        BY <1>4
    <2> HIDE DEF t
    <2>3. j \in StackDeploy /\ j.at = "save" /\ j.acts = <<>>
        <3>1. <<>> \in Acting
            BY DEF Acting
        <3> QED
            BY <1>1, <2>1, <3>1 DEF StackDeploy, StackAt
    <2>4. placed' \subseteq Numbers
        <3>1. \A a \in ToSet(job[r].acts) : a.new \in Numbers
            <4>1. \A i \in DOMAIN job[r].acts : job[r].acts[i] \in Act
                BY <1>1 DEF Acting
            <4> QED
                BY <4>1 DEF ToSet, Act
        <3> QED
            BY <1>4, <3>1 DEF StackTyped
    <2>5. StackTyped' /\ OthersWait(r) /\ job'[r] = j
        BY <1>2, <1>4, <2>2, <2>3, <2>4, TypedAfterGoes DEF StackJob, StackTyped
    <2> QED
        BY <1>1, <1>2, <1>4, <2>3, <2>5
<1> QED
    BY <1>3, <1>4 DEF RemoveRetired

\* The statuses a request writes.
LEMMA StatusIs ==
    ASSUME StackTyped, stack # NoRow,
           NEW s \in {"stopped", "running", "degraded", "failed", "deploying"}
    PROVE  Status(s) \in StackRow
BY DEF StackTyped, StackRow, Status

LEMMA AtRestIs == AtRest \in StackJob /\ AtRest.at = "idle"
BY DEF AtRest, StackJob

LEMMA SaveResourcesIs ==
    ASSUME StackTyped, NEW r \in StackRequests, SaveResources(r)
    PROVE  /\ StackTyped' /\ OthersWait(r) /\ job[r].at = "save"
           /\ UNCHANGED <<container, ghosts>>
           /\ \/ job'[r].at = "save" /\ job'[r].acts = job[r].acts
              \/ job'[r].at = "idle"
<1>1. job[r] \in StackDeploy /\ job[r].at = "save"
    BY JobIs DEF SaveResources, Deploys, StackAt
<1>2. UNCHANGED <<container, begun, ghosts>>
    BY DEF SaveResources, docker
<1>3. stack' \in StackRow \cup {NoRow}
    BY StatusIs DEF SaveResources, RowRemains, StackTyped
<1>4. CASE Goes(r, AtRest)
    BY <1>1, <1>2, <1>3, <1>4, AtRestIs, TypedAfterGoes DEF StackTyped, ghosts
<1>5. CASE job[r].todo # <<>> /\ Goes(r, [job[r] EXCEPT !.todo = Tail(@)])
    <2> DEFINE t == Tail(job[r].todo)
               j == [job[r] EXCEPT !.todo = t]
    <2>1. t \in Todo /\ Goes(r, j)
        BY <1>1, <1>5, TodoGoesOn DEF StackDeploy
    <2> HIDE DEF t
    <2>2. j \in StackDeploy /\ j.at = "save" /\ j.acts = job[r].acts
        BY <1>1, <2>1 DEF StackDeploy, StackAt
    <2>3. StackTyped' /\ OthersWait(r) /\ job'[r] = j
        BY <1>2, <1>3, <2>1, <2>2, TypedAfterGoes DEF StackJob, StackTyped, ghosts
    <2> QED
        BY <1>1, <1>2, <2>2, <2>3
<1> QED
    BY <1>4, <1>5 DEF SaveResources

LEMMA UndoServiceIs ==
    ASSUME StackTyped, NEW r \in StackRequests, UndoService(r)
    PROVE  /\ StackTyped' /\ OthersWait(r) /\ job[r].at = "rollback" /\ UNCHANGED ghosts
           /\ job'[r].at = "rollback" /\ job[r].acts # <<>> /\ job[r].acts \in Acting
           /\ job'[r].acts = Front(job[r].acts) /\ job'[r].compose = job[r].compose
           /\ Last(job[r].acts) \in Act
           /\ container' = [c \in Numbers |->
                 IF c = Last(job[r].acts).new /\ c \in Present
                   THEN [container[c] EXCEPT !.state = "gone"]
                 ELSE IF c = Last(job[r].acts).old /\ Last(job[r].acts).wasRunning /\ c \in Present
                   THEN [container[c] EXCEPT !.state = "running"]
                 ELSE container[c]]
<1>1. /\ job[r] \in StackDeploy /\ job[r].at = "rollback" /\ job[r].acts # <<>>
      /\ job[r].acts \in Acting
    BY JobIs DEF UndoService, Deploys, StackAt, StackDeploy
<1>2. UNCHANGED <<stack, begun, ghosts>>
    BY DEF UndoService
<1> DEFINE f == Front(job[r].acts)
           j == [job[r] EXCEPT !.acts = f]
<1>3. f \in Acting /\ Last(job[r].acts) \in Act
    BY <1>1 DEF Acting, Front, Last
<1>4. Goes(r, j)
    BY DEF UndoService
<1> HIDE DEF f
<1>5. j \in StackDeploy /\ j.at = "rollback" /\ j.acts = f /\ j.compose = job[r].compose
    BY <1>1, <1>3 DEF StackDeploy, StackAt
<1>6. container' = [c \in Numbers |->
                 IF c = Last(job[r].acts).new /\ c \in Present
                   THEN [container[c] EXCEPT !.state = "gone"]
                 ELSE IF c = Last(job[r].acts).old /\ Last(job[r].acts).wasRunning /\ c \in Present
                   THEN [container[c] EXCEPT !.state = "running"]
                 ELSE container[c]]
    BY DEF UndoService
<1>7. container' \in [Numbers -> ContainerRow]
    <2>1. ASSUME NEW c \in Numbers, NEW s \in ContainerStates
          PROVE  container[c] \in ContainerRow /\ [container[c] EXCEPT !.state = s] \in ContainerRow
        BY DEF StackTyped, ContainerRow
    <2>2. "gone" \in ContainerStates /\ "running" \in ContainerStates
        BY DEF ContainerStates
    <2> QED
        BY <1>6, <2>1, <2>2
<1>8. StackTyped' /\ OthersWait(r) /\ job'[r] = j
    BY <1>2, <1>4, <1>5, <1>7, TypedAfterGoes DEF StackJob, StackTyped, ghosts
<1> QED
    BY <1>1, <1>2, <1>3, <1>5, <1>6, <1>8 DEF f

LEMMA RemoveCreatedIs ==
    ASSUME StackTyped, NEW r \in StackRequests, RemoveCreated(r)
    PROVE  /\ StackTyped' /\ OthersWait(r) /\ job[r].at = "rollback" /\ job[r].acts = <<>>
           /\ job'[r].at = "idle" /\ UNCHANGED <<container, ghosts>>
<1>1. job[r].at = "rollback" /\ job[r].acts = <<>> /\ UNCHANGED <<container, begun, ghosts>>
    BY DEF RemoveCreated
<1>2. stack' \in StackRow \cup {NoRow}
    BY StatusIs DEF RemoveCreated, RowRemains, StackTyped, MayWrite
<1>3. Goes(r, AtRest)
    BY DEF RemoveCreated
<1> QED
    BY <1>1, <1>2, <1>3, AtRestIs, TypedAfterGoes DEF StackTyped, ghosts

LEMMA BeginEachIs ==
    ASSUME StackTyped, NEW r \in StackRequests, NEW op \in {"stop", "restart", "delete"},
           BeginEach(r, op)
    PROVE  /\ StackTyped' /\ OthersWait(r) /\ job[r].at = "idle" /\ job'[r].at = "each"
           /\ job'[r].op = op /\ (op # "restart" => serving' = {})
           /\ NoneBusy => placed' = Present /\ serving' \subseteq ServicesUp /\ unreturned' = {}
           /\ ~NoneBusy => placed' = placed /\ unreturned' = unreturned
           /\ collided' = ~NoneBusy /\ UNCHANGED container
<1>a. PICK listed \in {Present, {}} :
          Goes(r, [at |-> "each", id |-> stack.id, op |-> op, todo |-> SetToSeq(listed)])
    BY DEF BeginEach
<1> DEFINE j == [at |-> "each", id |-> stack.id, op |-> op, todo |-> SetToSeq(listed)]
<1>1. /\ job[r].at = "idle" /\ stack \in StackRow /\ Goes(r, j)
      /\ serving' = IF op # "restart" THEN {} ELSE IF NoneBusy THEN ServicesUp ELSE serving
      /\ placed' = IF NoneBusy THEN Present ELSE placed
      /\ unreturned' = IF NoneBusy THEN {} ELSE unreturned
      /\ collided' = ~NoneBusy
      /\ UNCHANGED <<stack, container>> /\ begun' \in Nat
    BY <1>a DEF BeginEach, Busy, StackTyped, docker, Call
<1>2. SetToSeq(listed) \in Listed
    <2>1. 1 \in Int /\ MaxContainers \in Int
        OBVIOUS
    <2>2. IsFiniteSet(Numbers)
        BY <2>1, FS_Interval DEF Numbers
    <2>3. listed \subseteq Numbers
        BY DEF Present
    <2>4. IsFiniteSet(listed)
        BY <2>2, <2>3, FS_Subset
    <2>5. SetToSeq(listed) \in Seq(listed)
        BY <2>4, SeqOfSet
    <2> QED
        BY <2>3, <2>5 DEF Listed
<1>3. stack.id \in Nat
    BY <1>1 DEF StackRow
<1>4. j \in StackEach /\ j.at = "each" /\ j.op = op
    BY <1>2, <1>3 DEF StackEach
<1>5. collided' \in BOOLEAN
    BY <1>1
<1>6. placed' \subseteq Numbers /\ unreturned' \subseteq Numbers
    BY <1>1 DEF StackTyped, Present
<1>7. StackTyped' /\ OthersWait(r) /\ job'[r] = j
    BY <1>1, <1>4, <1>5, <1>6, TypedAfterGoes DEF StackJob, StackTyped
<1> QED
    BY <1>1, <1>4, <1>7

LEMMA EachContainerIs ==
    ASSUME StackTyped, NEW r \in StackRequests, EachContainer(r)
    PROVE  /\ StackTyped' /\ OthersWait(r) /\ job[r].at = "each" /\ job'[r].at = "each"
           /\ job'[r].op = job[r].op /\ UNCHANGED <<unreturned, placed, collided>>
           /\ \/ UNCHANGED <<container, serving>>
              \/ \E c \in Present :
                    /\ container'[c].service = container[c].service
                    /\ \A b \in Numbers : b # c => container'[b] = container[b]
                    /\ container'[c].state \in {"running", "exited", "gone"}
                    /\ \/ /\ container'[c].state = "exited"
                          /\ serving' = serving \ {container[c].service}
                       \/ /\ UNCHANGED serving
                          /\ job[r].op = "restart" => container'[c].state = "running"
<1>1. job[r] \in StackEach /\ job[r].at = "each" /\ job[r].todo # <<>>
    BY JobIs DEF EachContainer
<1>2. UNCHANGED <<stack, begun, unreturned, placed, collided>>
    BY DEF EachContainer
<1> DEFINE c == Head(job[r].todo)
           t == Tail(job[r].todo)
           j == [job[r] EXCEPT !.todo = t]
<1>3. /\ Goes(r, j)
      /\ \/ \E s \in Outcomes(job[r].op) :
               /\ IF s = "exited" THEN c \in Running ELSE c \in Present
               /\ SetState(c, s)
               /\ serving' = IF s = "exited" THEN serving \ {container[c].service} ELSE serving
         \/ UNCHANGED <<container, serving>>
    BY DEF EachContainer
<1>4. t \in Listed /\ c \in Numbers
    BY <1>1, HeadTailProperties DEF Listed, StackEach
<1>5. \A s \in Outcomes(job[r].op) :
          /\ s \in {"running", "exited", "gone"} /\ s \in ContainerStates
          /\ job[r].op = "restart" => s \in {"running", "exited"}
    <2>1. job[r].op \in {"stop", "restart", "delete"}
        BY <1>1 DEF StackEach
    <2> QED
        BY <2>1 DEF Outcomes, ContainerStates
<1>6. Running \subseteq Present
    BY DEF Running, Present
<1> HIDE DEF t, c
<1>7. j \in StackEach /\ j.at = "each" /\ j.op = job[r].op
    BY <1>1, <1>4 DEF StackEach
<1>8. ASSUME NEW s \in Outcomes(job[r].op),
             IF s = "exited" THEN c \in Running ELSE c \in Present, SetState(c, s),
             serving' = IF s = "exited" THEN serving \ {container[c].service} ELSE serving
      PROVE  /\ container' \in [Numbers -> ContainerRow]
             /\ c \in Present /\ container'[c].service = container[c].service
             /\ \A b \in Numbers : b # c => container'[b] = container[b]
             /\ container'[c].state \in {"running", "exited", "gone"}
             /\ \/ /\ container'[c].state = "exited"
                   /\ serving' = serving \ {container[c].service}
                \/ /\ UNCHANGED serving
                   /\ job[r].op = "restart" => container'[c].state = "running"
    <2>1. c \in Present
        BY <1>6, <1>8
    <2>2. /\ container' \in [Numbers -> ContainerRow]
          /\ container'[c].state = s /\ container'[c].service = container[c].service
          /\ \A b \in Numbers : b # c => container'[b] = container[b]
        BY <1>4, <1>5, <1>8, SetStateIs
    <2> QED
        BY <1>5, <1>8, <2>1, <2>2
<1>9. ASSUME container' \in [Numbers -> ContainerRow]
      PROVE  StackTyped' /\ OthersWait(r) /\ job'[r] = j
    BY <1>2, <1>3, <1>7, <1>9, TypedAfterGoes DEF StackJob, StackTyped
<1>10. CASE UNCHANGED <<container, serving>>
    BY <1>1, <1>2, <1>7, <1>9, <1>10 DEF StackTyped
<1>11. CASE ~UNCHANGED <<container, serving>>
    <2>1. PICK s \in Outcomes(job[r].op) :
              /\ IF s = "exited" THEN c \in Running ELSE c \in Present
              /\ SetState(c, s)
              /\ serving' = IF s = "exited" THEN serving \ {container[c].service} ELSE serving
        BY <1>3, <1>11
    <2> QED
        BY <1>1, <1>2, <1>7, <1>8, <1>9, <2>1
<1> QED
    BY <1>10, <1>11

LEMMA EndEachIs ==
    ASSUME StackTyped, NEW r \in StackRequests, EndEach(r)
    PROVE  /\ StackTyped' /\ OthersWait(r) /\ job[r].at = "each" /\ job'[r].at = "idle"
           /\ UNCHANGED <<container, ghosts>>
<1>1. /\ job[r] \in StackEach /\ job[r].at = "each" /\ UNCHANGED <<container, begun, ghosts>>
      /\ Goes(r, AtRest)
    BY JobIs DEF EndEach
<1>2. stack' \in StackRow \cup {NoRow}
    <2> DEFINE written == CASE ~RowRemains(r) -> stack
                            [] RowRemains(r) /\ job[r].op = "delete" -> NoRow
                            [] RowRemains(r) /\ job[r].op = "stop" -> Status("stopped")
                            [] RowRemains(r) /\ job[r].op = "restart" -> Status("running")
    <2>1. stack' = written \/ UNCHANGED stack
        BY DEF EndEach, MayWrite
    <2>2. job[r].op \in {"stop", "restart", "delete"}
        BY <1>1 DEF StackEach
    <2>3. CASE ~RowRemains(r)
        BY <2>1, <2>3 DEF StackTyped
    <2>4. CASE RowRemains(r)
        <3>1. Status("stopped") \in StackRow /\ Status("running") \in StackRow
            BY <2>4, StatusIs DEF RowRemains
        <3>2. written \in StackRow \cup {NoRow}
            BY <2>2, <2>4, <3>1
        <3> HIDE DEF written
        <3> QED
            BY <2>1, <3>2 DEF StackTyped
    <2> QED
        BY <2>3, <2>4
<1> QED
    BY <1>1, <1>2, AtRestIs, TypedAfterGoes DEF StackTyped, ghosts

\* The steps that are about no request.
AboutRows ==
    \/ \E text \in Composes \cup {BadYaml} : CreateStack(text) \/ UpdateStack(text)
    \/ \E r \in StackRequests : BeginDeploy(r) /\ stack.compose = BadYaml
    \/ \E n \in Networks : CreateNetwork(n) \/ DeleteNetwork(n)
    \/ \E v \in Volumes : CreateVolume(v) \/ DeleteVolume(v)
    \/ PruneNetworks \/ PruneVolumes

LEMMA AboutRowsIs ==
    ASSUME StackTyped, AboutRows
    PROVE  StackTyped' /\ UNCHANGED <<job, container, ghosts>>
<1>1. begun' \in Nat /\ UNCHANGED <<job, container, ghosts>>
    <2>1. Call => begun' \in Nat
        BY DEF Call, StackTyped
    <2>2. ASSUME NEW text, CreateStack(text) \/ UpdateStack(text)
          PROVE  Call /\ UNCHANGED <<job, container, ghosts>>
        BY <2>2 DEF CreateStack, UpdateStack, docker
    <2>3. ASSUME NEW r, BeginDeploy(r), stack.compose = BadYaml
          PROVE  Call /\ UNCHANGED <<job, container, ghosts>>
        BY <2>3 DEF BeginDeploy, docker
    <2>4. ASSUME NEW n, CreateNetwork(n) \/ DeleteNetwork(n)
          PROVE  Call /\ UNCHANGED <<job, container, ghosts>>
        BY <2>4 DEF CreateNetwork, DeleteNetwork
    <2>5. ASSUME NEW v, CreateVolume(v) \/ DeleteVolume(v)
          PROVE  Call /\ UNCHANGED <<job, container, ghosts>>
        BY <2>5 DEF CreateVolume, DeleteVolume
    <2>6. PruneNetworks \/ PruneVolumes => Call /\ UNCHANGED <<job, container, ghosts>>
        BY DEF PruneNetworks, PruneVolumes
    <2> QED
        BY <2>1, <2>2, <2>3, <2>4, <2>5, <2>6 DEF AboutRows
<1>2. CASE UNCHANGED stack
    BY <1>1, <1>2 DEF StackTyped, ghosts, OnService
<1>3. ASSUME NEW text \in Composes \cup {BadYaml}, CreateStack(text)
      PROVE  stack' \in StackRow
    BY <1>3 DEF CreateStack, StackRow, StackTyped
<1>4. ASSUME NEW text \in Composes \cup {BadYaml}, UpdateStack(text)
      PROVE  stack' \in StackRow
    <2>1. stack \in StackRow
        BY <1>4 DEF UpdateStack, StackTyped
    <2>2. LiveStatus \in {"stopped", "running", "degraded", "failed", "deploying"}
        BY <2>1 DEF LiveStatus, StackRow
    <2> QED
        BY <1>4, <2>1, <2>2 DEF UpdateStack, StackRow
<1>5. ASSUME NEW r \in StackRequests, BeginDeploy(r), stack.compose = BadYaml
      PROVE  stack' \in StackRow
    BY <1>5, StatusIs DEF BeginDeploy
<1>6. UNCHANGED stack \/ stack' \in StackRow
    BY <1>3, <1>4, <1>5 DEF AboutRows, CreateNetwork, DeleteNetwork, CreateVolume,
           DeleteVolume, PruneNetworks, PruneVolumes
<1>7. CASE stack' \in StackRow
    BY <1>1, <1>7 DEF StackTyped, ghosts, OnService
<1> QED
    BY <1>2, <1>6, <1>7, <1>1

-----------------------------------------------------------------------------
(* The order of the services.                                               *)

\* todo is an order for the services of deps that are not in done.
InOrder(todo, deps, done) ==
    /\ \A i, j \in 1 .. Len(todo) : todo[i] = todo[j] => i = j
    /\ \A i \in 1 .. Len(todo) :
          /\ todo[i] \notin done
          /\ deps[todo[i]] \subseteq done \cup {todo[j] : j \in 1 .. i - 1}
    /\ DOMAIN deps = done \cup {todo[i] : i \in 1 .. Len(todo)}

\* An order of distinct services, as long as there are services, has them all.
LEMMA OrderBegins ==
    ASSUME NEW deps \in Composes, NEW order \in ResolveDeploymentOrder(deps)
    PROVE  order \in Seq(Services) /\ InOrder(order, deps, {})
<1> DEFINE n == Cardinality(DOMAIN deps)
<1>1. /\ DOMAIN deps \subseteq Services /\ n \in Nat /\ order \in Seq(Services) /\ Len(order) = n
      /\ \A i \in 1 .. n : order[i] \in Ready(deps, {order[j] : j \in 1 .. i - 1})
    BY OrderIs
<1>2. order \in [1 .. n -> DOMAIN deps]
    BY DEF ResolveDeploymentOrder
<1>3. IsFiniteSet(DOMAIN deps)
    BY <1>1, FS_Subset
<1> HIDE DEF n
<1>4. ASSUME NEW i \in 1 .. n, NEW j \in 1 .. n, order[i] = order[j] PROVE i = j
    <2>1. ASSUME NEW k \in 1 .. n, NEW l \in 1 .. n, l < k PROVE order[k] # order[l]
        <3>1. order[k] \notin {order[m] : m \in 1 .. k - 1}
            BY <1>1 DEF Ready
        <3>2. l \in 1 .. k - 1
            BY <1>1, <2>1
        <3> QED
            BY <3>1, <3>2
    <2>2. i < j \/ j < i \/ i = j
        BY <1>1
    <2> QED
        BY <1>4, <2>1, <2>2
<1>5. order \in Surjection(1 .. n, DOMAIN deps)
    <2>1. order \in Injection(1 .. n, DOMAIN deps)
        BY <1>2, <1>4 DEF Injection, IsInjective
    <2>2. 1 \in Int /\ n \in Int
        BY <1>1
    <2>3. Cardinality(1 .. n) = n
        BY <1>1, <2>2, FS_Interval
    <2> QED
        BY <1>3, <2>1, <2>3, FS_Injection DEF n
<1>6. DOMAIN deps = {order[i] : i \in 1 .. n}
    BY <1>2, <1>5 DEF Surjection
<1>7. \A i \in 1 .. n : deps[order[i]] \subseteq {order[j] : j \in 1 .. i - 1}
    BY <1>1 DEF Ready
<1> QED
    BY <1>1, <1>4, <1>6, <1>7 DEF InOrder

\* The first service of an order can be done next.
LEMMA OrderGoesOn ==
    ASSUME NEW todo \in Seq(Services), todo # <<>>, NEW deps, NEW done, InOrder(todo, deps, done)
    PROVE  /\ Tail(todo) \in Seq(Services) /\ InOrder(Tail(todo), deps, done \cup {Head(todo)})
           /\ deps[Head(todo)] \subseteq done /\ Head(todo) \notin done
           /\ Head(todo) \in Services
<1> DEFINE t == Tail(todo)
           n == Len(todo)
<1>1. /\ n \in Nat /\ n > 0 /\ t \in Seq(Services) /\ Len(t) = n - 1 /\ Head(todo) = todo[1]
      /\ \A i \in 1 .. n - 1 : t[i] = todo[i + 1]
    BY HeadTailProperties
<1>2. todo[1] \notin done /\ deps[todo[1]] \subseteq done \cup {todo[j] : j \in 1 .. 0}
    BY <1>1 DEF InOrder
<1>3. deps[todo[1]] \subseteq done
    BY <1>2
<1>4. todo[1] \in Services
    BY <1>1
<1> HIDE DEF t, n
<1>5. ASSUME NEW i \in 1 .. n - 1, NEW j \in 1 .. n - 1, t[i] = t[j] PROVE i = j
    <2>1. i + 1 \in 1 .. n /\ j + 1 \in 1 .. n /\ i \in Int /\ j \in Int
        BY <1>1
    <2>2. i + 1 = j + 1
        BY <1>1, <1>5, <2>1 DEF InOrder, n
    <2> QED
        BY <2>1, <2>2
<1>6. ASSUME NEW i \in 1 .. n - 1
      PROVE  /\ t[i] \notin done \cup {todo[1]}
             /\ deps[t[i]] \subseteq (done \cup {todo[1]}) \cup {t[j] : j \in 1 .. i - 1}
    <2>1. i + 1 \in 1 .. n /\ 1 \in 1 .. n /\ i + 1 # 1 /\ t[i] = todo[i + 1]
        BY <1>1
    <2>2. todo[i + 1] # todo[1]
        BY <2>1 DEF InOrder, n
    <2>3. /\ todo[i + 1] \notin done
          /\ deps[todo[i + 1]] \subseteq done \cup {todo[j] : j \in 1 .. (i + 1) - 1}
        BY <2>1 DEF InOrder, n
    <2>4. ASSUME NEW j \in 1 .. (i + 1) - 1
          PROVE  todo[j] = todo[1] \/ \E k \in 1 .. i - 1 : todo[j] = t[k]
        <3>1. CASE j = 1
            BY <3>1
        <3>2. CASE j # 1
            <4>1. j - 1 \in 1 .. i - 1 /\ j - 1 \in 1 .. n - 1 /\ (j - 1) + 1 = j
                BY <1>1, <3>2
            <4>2. t[j - 1] = todo[j]
                BY <1>1, <4>1
            <4> QED
                BY <4>1, <4>2
        <3> QED
            BY <3>1, <3>2
    <2> QED
        BY <2>1, <2>2, <2>3, <2>4
<1>7. {todo[i] : i \in 1 .. n} = {todo[1]} \cup {t[i] : i \in 1 .. n - 1}
    <2>1. ASSUME NEW i \in 1 .. n PROVE todo[i] = todo[1] \/ \E k \in 1 .. n - 1 : todo[i] = t[k]
        <3>1. CASE i = 1
            BY <3>1
        <3>2. CASE i # 1
            <4>1. i - 1 \in 1 .. n - 1 /\ (i - 1) + 1 = i
                BY <1>1, <3>2
            <4> QED
                BY <1>1, <4>1
        <3> QED
            BY <3>1, <3>2
    <2>2. ASSUME NEW i \in 1 .. n - 1 PROVE \E k \in 1 .. n : t[i] = todo[k]
        <3>1. i + 1 \in 1 .. n
            BY <1>1
        <3> QED
            BY <1>1, <3>1
    <2>3. 1 \in 1 .. n
        BY <1>1
    <2> QED
        BY <2>1, <2>2, <2>3
<1>8. DOMAIN deps = (done \cup {todo[1]}) \cup {t[i] : i \in 1 .. n - 1}
    BY <1>7 DEF InOrder, n
<1>9. InOrder(t, deps, done \cup {todo[1]})
    BY <1>1, <1>5, <1>6, <1>8 DEF InOrder
<1> QED
    BY <1>1, <1>2, <1>3, <1>4, <1>9 DEF t

-----------------------------------------------------------------------------
(* What is known of one deploy, whatever the others do.                     *)

Stands(c) == container[c].state # "none"
Svc(c)  == container[c].service
MadeBy(r) == {Acts(r)[i].new : i \in DOMAIN Acts(r)}
Done(r) == {Svc(Acts(r)[i].new) : i \in DOMAIN Acts(r)}
Working(r) == job[r].at = "find" \/ OnService(r)
\* The services r has not made a container for yet.
Rest(r) == IF job[r].at \in {"find", "create", "connect"} THEN job[r].todo ELSE Tail(job[r].todo)

Ordered(r) == Working(r) =>
    job[r].todo \in Seq(Services) /\ InOrder(Rest(r), job[r].compose, Done(r))
ActsMatch(r) == \A i \in DOMAIN Acts(r) :
    /\ Stands(Acts(r)[i].new)
    /\ Acts(r)[i].old # None => /\ Stands(Acts(r)[i].old)
                                /\ Svc(Acts(r)[i].old) = Svc(Acts(r)[i].new)
Depended(r) == \A i \in DOMAIN Acts(r) :
    job[r].compose[Svc(Acts(r)[i].new)] \subseteq {Svc(Acts(r)[j].new) : j \in 1 .. i - 1}
OldMatches(r) ==
    (OnService(r) /\ job[r].old # None) =>
       Stands(job[r].old) /\ Svc(job[r].old) = Head(job[r].todo)
MadeMatches(r) == job[r].at = "connect" =>
    job[r].made \in Numbers /\ Stands(job[r].made) /\ Svc(job[r].made) = Head(job[r].todo)
LastAct(r) == job[r].at \in {"start", "probe", "retire"} =>
    Acts(r) # <<>> /\ Last(Acts(r)).old = job[r].old
NoActs(r) ==
    /\ job[r].at \in {"networks", "volumes", "save"} => Acts(r) = <<>>
    /\ job[r].at \in {"networks", "volumes"} => job[r].retire = <<>>
Retires(r) == Working(r) =>
    \A k \in DOMAIN job[r].retire : \E i \in DOMAIN Acts(r) : Acts(r)[i].old = job[r].retire[k]

Shape(r) == /\ Ordered(r) /\ ActsMatch(r) /\ Depended(r) /\ OldMatches(r) /\ LastAct(r)
            /\ MadeMatches(r) /\ NoActs(r) /\ Retires(r)

\* The acts are a sequence of acts.
LEMMA ActsAre ==
    ASSUME StackTyped, NEW r \in StackRequests
    PROVE  /\ Acts(r) \in Seq(Act) /\ DOMAIN Acts(r) = 1 .. Len(Acts(r)) /\ Len(Acts(r)) \in Nat
           /\ \A i \in DOMAIN Acts(r) :
                 /\ Acts(r)[i] \in Act /\ Acts(r)[i].new \in Numbers
                 /\ Acts(r)[i].old \in Numbers \cup {None} /\ Acts(r)[i].wasRunning \in BOOLEAN
           /\ job[r].at \in StackAt => Acts(r) = job[r].acts
           /\ job[r].at \notin StackAt => Acts(r) = <<>>
           /\ None \notin Numbers
<1>1. Acts(r) \in Seq(Act)
    BY JobIs DEF Acting
<1>2. \A i \in DOMAIN Acts(r) : Acts(r)[i] \in Act
    BY <1>1
<1>3. DOMAIN Acts(r) = 1 .. Len(Acts(r)) /\ Len(Acts(r)) \in Nat
    BY <1>1
<1>4. job[r].at \in StackAt => Acts(r) = job[r].acts
    BY DEF Acts, Deploys
<1>5. job[r].at \notin StackAt => Acts(r) = <<>>
    BY DEF Acts, Deploys
<1>6. None \notin Numbers
    BY DEF None, Numbers
<1>7. \A a \in Act : a.new \in Numbers /\ a.old \in Numbers \cup {None} /\ a.wasRunning \in BOOLEAN
    BY DEF Act
<1> QED
    BY <1>1, <1>2, <1>3, <1>4, <1>5, <1>6, <1>7

\* What the acts say stays true.
LEMMA ActsStay ==
    ASSUME StackTyped, NEW r \in StackRequests, Evolves, ActsMatch(r), Depended(r),
           Acts(r)' = Acts(r), Acts(r) # <<>> => job'[r].compose = job[r].compose
    PROVE  MadeBy(r)' = MadeBy(r) /\ Done(r)' = Done(r) /\ ActsMatch(r)' /\ Depended(r)'
<1>1. /\ DOMAIN Acts(r) = 1 .. Len(Acts(r)) /\ Len(Acts(r)) \in Nat /\ None \notin Numbers
      /\ \A i \in DOMAIN Acts(r) :
            Acts(r)[i].new \in Numbers /\ Acts(r)[i].old \in Numbers \cup {None}
    BY ActsAre
<1>2. \A i \in DOMAIN Acts(r) :
          /\ Stands(Acts(r)[i].new)' /\ Svc(Acts(r)[i].new)' = Svc(Acts(r)[i].new)
          /\ Acts(r)[i].old # None => /\ Stands(Acts(r)[i].old)'
                                      /\ Svc(Acts(r)[i].old)' = Svc(Acts(r)[i].old)
    <2> TAKE i \in DOMAIN Acts(r)
    <2> DEFINE a == Acts(r)[i]
    <2>1. Acts(r)'[i] = a
        OBVIOUS
    <2>2. a.new \in Numbers /\ Stands(a.new) /\ (a.old # None => a.old \in Numbers /\ Stands(a.old))
        BY <1>1 DEF ActsMatch
    <2> QED
        BY <2>1, <2>2 DEF Evolves, Stands, Svc
<1>3. MadeBy(r)' = MadeBy(r)
    BY DEF MadeBy
<1>4. Done(r)' = Done(r)
    BY <1>2 DEF Done
<1>5. ActsMatch(r)'
    BY <1>2 DEF ActsMatch
<1>6. ASSUME NEW i \in DOMAIN Acts(r)
      PROVE  job'[r].compose[Svc(Acts(r)[i].new)'] \subseteq {Svc(Acts(r)[j].new)' : j \in 1 .. i - 1}
    <2>1. job'[r].compose = job[r].compose
        BY <1>1, <1>6
    <2>2. \A j \in 1 .. i - 1 : j \in DOMAIN Acts(r)
        BY <1>1
    <2>3. {Svc(Acts(r)[j].new)' : j \in 1 .. i - 1} = {Svc(Acts(r)[j].new) : j \in 1 .. i - 1}
        BY <1>2, <2>2
    <2>4. Svc(Acts(r)[i].new)' = Svc(Acts(r)[i].new)
        BY <1>2
    <2> QED
        BY <1>6, <2>1, <2>3, <2>4 DEF Depended
<1>7. Depended(r)'
    BY <1>6 DEF Depended
<1> QED
    BY <1>3, <1>4, <1>5, <1>7

\* So stays what is known of a deploy that waits.
LEMMA ShapeStays ==
    ASSUME StackTyped, NEW r \in StackRequests, Evolves, Shape(r), job'[r] = job[r]
    PROVE  Shape(r)' /\ Acts(r)' = Acts(r) /\ MadeBy(r)' = MadeBy(r) /\ Done(r)' = Done(r)
<1>1. Acts(r)' = Acts(r)
    BY DEF Acts, Deploys
<1>2. MadeBy(r)' = MadeBy(r) /\ Done(r)' = Done(r) /\ ActsMatch(r)' /\ Depended(r)'
    BY <1>1, ActsStay DEF Shape
<1>3. Ordered(r)'
    BY <1>2 DEF Shape, Ordered, Working, OnService, Rest
<1>4. OldMatches(r)'
    <2>1. OnService(r) => job[r].old \in Numbers \cup {None}
        BY JobIs DEF Deploys, StackAt, StackDeploy, OnService
    <2> QED
        BY <2>1 DEF Shape, OldMatches, Evolves, Stands, Svc, OnService
<1>5. LastAct(r)' /\ NoActs(r)' /\ Retires(r)'
    BY <1>1 DEF Shape, LastAct, NoActs, Retires, Working, OnService
<1>6. MadeMatches(r)'
    BY DEF Shape, MadeMatches, Evolves, Stands, Svc
<1> QED
    BY <1>1, <1>2, <1>3, <1>4, <1>5, <1>6 DEF Shape

-----------------------------------------------------------------------------
(* Each step keeps the shape of the request that takes it.                  *)

\* A request that has left the services, or has not come to them, and has no acts.
LEMMA ShapeAside ==
    ASSUME NEW r \in StackRequests, Acts(r)' = <<>>, ~Working(r)',
           job'[r].at \in {"networks", "volumes"} => job'[r].retire = <<>>
    PROVE  Shape(r)'
<1>1. DOMAIN (Acts(r)') = {}
    OBVIOUS
<1>2. job'[r].at \notin {"find", "create", "connect", "start", "probe", "retire"}
    BY DEF Working, OnService
<1>3. Ordered(r)' /\ Retires(r)'
    BY DEF Ordered, Retires
<1>4. ActsMatch(r)' /\ Depended(r)'
    BY <1>1 DEF ActsMatch, Depended
<1>5. OldMatches(r)' /\ LastAct(r)' /\ MadeMatches(r)'
    BY <1>2 DEF OldMatches, LastAct, OnService, MadeMatches
<1>6. NoActs(r)'
    BY DEF NoActs
<1> QED
    BY <1>3, <1>4, <1>5, <1>6 DEF Shape

\* A request that gives up on the services keeps its acts.
LEMMA ShapeGivesUp ==
    ASSUME StackTyped, NEW r \in StackRequests, Evolves, Shape(r), Acts(r)' = Acts(r),
           job'[r].compose = job[r].compose, job'[r].at = "rollback"
    PROVE  Shape(r)'
<1>1. ActsMatch(r)' /\ Depended(r)'
    BY ActsStay DEF Shape
<1> QED
    BY <1>1 DEF Shape, Ordered, Retires, OldMatches, LastAct, NoActs, MadeMatches, Working, OnService

\* What exists goes on existing when one existing container changes its state.
LEMMA OneChanges ==
    ASSUME NEW c, container'[c].state # "none", container'[c].service = container[c].service,
           \A b \in Numbers : b # c => container'[b] = container[b]
    PROVE  Evolves
BY DEF Evolves

LEMMA BeginDeployShape ==
    ASSUME StackTyped, NEW r \in StackRequests, BeginDeploy(r), stack.compose # BadYaml
    PROVE  Shape(r)' /\ Evolves /\ Acts(r)' = <<>> /\ Acts(r) = <<>>
<1>1. job[r].at = "idle" /\ job'[r].at = "networks" /\ job'[r].acts = <<>> /\ job'[r].retire = <<>>
    BY BeginDeployIs DEF BeginDeploy, Busy
<1>2. Acts(r) = <<>> /\ Acts(r)' = <<>>
    BY <1>1 DEF Acts, Deploys, StackAt
<1>3. ~Working(r)'
    BY <1>1 DEF Working, OnService
<1>4. Evolves
    BY BeginDeployIs DEF Evolves, docker
<1> QED
    BY <1>1, <1>2, <1>3, <1>4, ShapeAside

LEMMA CreateNetworksShape ==
    ASSUME StackTyped, NEW r \in StackRequests, Shape(r), CreateNetworks(r)
    PROVE  Shape(r)' /\ Evolves /\ Acts(r)' = <<>> /\ Acts(r) = <<>>
<1>1. /\ job[r].at = "networks" /\ job'[r].at \in {"networks", "volumes", "rollback"}
      /\ job'[r].acts = job[r].acts /\ job'[r].retire = job[r].retire
    BY CreateNetworksIs
<1>2. Acts(r)' = Acts(r) /\ Acts(r) = <<>>
    BY <1>1 DEF Acts, Deploys, StackAt, Shape, NoActs
<1>3. ~Working(r)' /\ job'[r].retire = <<>>
    BY <1>1 DEF Working, OnService, Shape, NoActs
<1>4. Evolves
    BY CreateNetworksIs DEF Evolves
<1> QED
    BY <1>2, <1>3, <1>4, ShapeAside

LEMMA CreateVolumesShape ==
    ASSUME StackTyped, NEW r \in StackRequests, Shape(r), CreateVolumes(r)
    PROVE  /\ Shape(r)' /\ Evolves /\ Acts(r)' = <<>> /\ Acts(r) = <<>>
           /\ job'[r].retire = <<>>
<1>1. /\ job[r].at = "volumes" /\ job'[r].acts = job[r].acts /\ job'[r].retire = job[r].retire
      /\ job'[r].compose = job[r].compose
      /\ \/ job'[r].at \in {"volumes", "rollback"}
         \/ /\ job'[r].at = "find"
            /\ job'[r].todo \in ResolveDeploymentOrder(job[r].compose)
    BY CreateVolumesIs
<1>2. Acts(r)' = Acts(r) /\ Acts(r) = <<>>
    BY <1>1 DEF Acts, Deploys, StackAt, Shape, NoActs
<1>3. job'[r].retire = <<>>
    BY <1>1 DEF Shape, NoActs
<1>4. Evolves
    BY CreateVolumesIs DEF Evolves
<1>5. CASE job'[r].at # "find"
    <2>1. ~Working(r)'
        BY <1>1, <1>5 DEF Working, OnService
    <2> QED
        BY <1>2, <1>3, <1>4, <2>1, ShapeAside
<1>6. CASE job'[r].at = "find"
    <2>1. job[r].compose \in Composes /\ job'[r].todo \in ResolveDeploymentOrder(job[r].compose)
        BY <1>1, <1>6, JobIs DEF Deploys, StackAt, StackDeploy
    <2>2. job'[r].todo \in Seq(Services) /\ InOrder(job'[r].todo, job'[r].compose, {})
        BY <1>1, <2>1, OrderBegins
    <2>3. Done(r)' = {} /\ Rest(r)' = job'[r].todo
        BY <1>2, <1>6 DEF Done, Rest
    <2>4. Ordered(r)'
        BY <2>2, <2>3 DEF Ordered
    <2>5. ActsMatch(r)' /\ Depended(r)'
        BY <1>2 DEF ActsMatch, Depended
    <2>6. OldMatches(r)' /\ LastAct(r)' /\ MadeMatches(r)' /\ NoActs(r)'
        BY <1>6 DEF OldMatches, MadeMatches, OnService, LastAct, NoActs
    <2>7. Retires(r)'
        BY <1>3 DEF Retires
    <2> QED
        BY <1>2, <1>3, <1>4, <2>4, <2>5, <2>6, <2>7 DEF Shape
<1> QED
    BY <1>5, <1>6

LEMMA FindOldContainerShape ==
    ASSUME StackTyped, NEW r \in StackRequests, Shape(r), FindOldContainer(r)
    PROVE  Shape(r)' /\ Evolves /\ Acts(r)' = Acts(r)
<1>1. /\ job[r].at = "find" /\ job[r].todo # <<>> /\ job'[r].at = "create"
      /\ job'[r].todo = job[r].todo /\ job'[r].acts = job[r].acts
      /\ job'[r].retire = job[r].retire /\ job'[r].compose = job[r].compose
      /\ job'[r].old \in Of(Head(job[r].todo)) \cup {None} /\ UNCHANGED container
    BY FindOldContainerIs
<1>2. Acts(r)' = Acts(r) /\ Evolves
    BY <1>1 DEF Acts, Deploys, StackAt, Evolves
<1>3. Done(r)' = Done(r) /\ ActsMatch(r)' /\ Depended(r)'
    BY <1>1, <1>2, ActsStay DEF Shape
<1>4. Ordered(r)'
    BY <1>1, <1>3 DEF Shape, Ordered, Working, OnService, Rest
<1>5. OldMatches(r)'
    BY <1>1 DEF OldMatches, MadeMatches, OnService, Stands, Svc, Of, Present
<1>6. MadeMatches(r)' /\ LastAct(r)' /\ NoActs(r)' /\ Retires(r)'
    BY <1>1, <1>2 DEF Shape, LastAct, MadeMatches, NoActs, Retires, Working, OnService
<1> QED
    BY <1>2, <1>3, <1>4, <1>5, <1>6 DEF Shape

LEMMA StartServiceShape ==
    ASSUME StackTyped, NEW r \in StackRequests, Shape(r), StartService(r) \/ ProbeHealth(r)
    PROVE  Shape(r)' /\ Evolves /\ Acts(r)' = Acts(r)
<1>1. /\ job[r].at \in {"start", "probe"} /\ job'[r].at \in {"probe", "retire", "rollback"}
      /\ job'[r].todo = job[r].todo /\ job'[r].acts = job[r].acts
      /\ job'[r].retire = job[r].retire /\ job'[r].compose = job[r].compose
      /\ job'[r].old = job[r].old
    BY StartServiceIs, ProbeHealthIs
<1>2. Acts(r)' = Acts(r)
    BY <1>1 DEF Acts, Deploys, StackAt
<1>3. Evolves
    <2>1. CASE UNCHANGED container
        BY <2>1 DEF Evolves
    <2>2. CASE /\ container'[New(r)].state = "running"
               /\ container'[New(r)].service = container[New(r)].service
               /\ \A b \in Numbers : b # New(r) => container'[b] = container[b]
        BY <2>2, OneChanges
    <2> QED
        BY <2>1, <2>2, StartServiceIs, ProbeHealthIs
<1>4. Done(r)' = Done(r) /\ ActsMatch(r)' /\ Depended(r)'
    BY <1>1, <1>2, <1>3, ActsStay DEF Shape
<1>5. CASE job'[r].at = "rollback"
    BY <1>1, <1>2, <1>3, <1>5, ShapeGivesUp
<1>6. CASE job'[r].at # "rollback"
    <2>1. job[r].old \in Numbers \cup {None}
        BY <1>1, JobIs DEF Deploys, StackAt, StackDeploy
    <2>2. OldMatches(r)'
        BY <1>1, <1>3, <2>1 DEF Shape, OldMatches, MadeMatches, OnService, Evolves, Stands, Svc
    <2>3. Ordered(r)'
        BY <1>1, <1>4, <1>6 DEF Shape, Ordered, Working, OnService, Rest
    <2>4. MadeMatches(r)' /\ LastAct(r)' /\ NoActs(r)' /\ Retires(r)'
        BY <1>1, <1>2, <1>6 DEF Shape, LastAct, MadeMatches, NoActs, Retires, Working, OnService
    <2> QED
        BY <1>2, <1>3, <1>4, <2>2, <2>3, <2>4 DEF Shape
<1> QED
    BY <1>2, <1>3, <1>5, <1>6

LEMMA CreateServiceShape ==
    ASSUME StackTyped, NEW r \in StackRequests, Shape(r), CreateService(r)
    PROVE  Shape(r)' /\ Evolves /\ Acts(r)' = Acts(r)
<1>1. /\ job[r].at = "create" /\ job'[r].at \in {"connect", "rollback"}
      /\ job'[r].todo = job[r].todo /\ job'[r].retire = job[r].retire
      /\ job'[r].compose = job[r].compose /\ job'[r].old = job[r].old
      /\ job'[r].acts = job[r].acts
    BY CreateServiceIs
<1>2. Acts(r)' = Acts(r)
    BY <1>1 DEF Acts, Deploys, StackAt
<1>3. CASE job'[r].at = "rollback" /\ UNCHANGED container
    <2>1. Evolves
        BY <1>3 DEF Evolves
    <2> QED
        BY <1>1, <1>2, <1>3, <2>1, ShapeGivesUp
<1>4. ASSUME NEW c \in Numbers, container[c].state = "none", container'[c].state = "created",
             container'[c].service = Head(job[r].todo),
             \A b \in Numbers : b # c => container'[b] = container[b],
             job'[r].at = "connect", job'[r].made = c
      PROVE  Shape(r)' /\ Evolves
    <2>1. Evolves
        BY <1>4 DEF Evolves
    <2>2. Done(r)' = Done(r) /\ ActsMatch(r)' /\ Depended(r)'
        BY <1>1, <1>2, <2>1, ActsStay DEF Shape
    <2>3. Ordered(r)'
        BY <1>1, <1>4, <2>2 DEF Shape, Ordered, Working, OnService, Rest
    <2>4. OldMatches(r)'
        <3>1. job[r].old \in Numbers \cup {None}
            BY <1>1, JobIs DEF Deploys, StackAt, StackDeploy
        <3> QED
            BY <1>1, <2>1, <3>1 DEF Shape, OldMatches, OnService, Evolves, Stands, Svc
    <2>5. MadeMatches(r)'
        BY <1>1, <1>4 DEF MadeMatches, Stands, Svc
    <2>6. LastAct(r)' /\ NoActs(r)' /\ Retires(r)'
        BY <1>1, <1>2, <1>4 DEF Shape, LastAct, NoActs, Retires, Working, OnService
    <2> QED
        BY <2>1, <2>2, <2>3, <2>4, <2>5, <2>6 DEF Shape
<1> QED
    BY <1>1, <1>2, <1>3, <1>4, CreateServiceIs

LEMMA ConnectServiceShape ==
    ASSUME StackTyped, NEW r \in StackRequests, Shape(r), ConnectService(r)
    PROVE  /\ Shape(r)' /\ Evolves
           /\ \/ job'[r].at = "rollback" /\ Acts(r)' = Acts(r)
              \/ job'[r].at = "start" /\ Acts(r)' = Append(Acts(r), NewAct(r))
<1>1. /\ job[r].at = "connect" /\ job'[r].todo = job[r].todo /\ job'[r].retire = job[r].retire
      /\ job'[r].compose = job[r].compose /\ job'[r].old = job[r].old
      /\ Acts(r) = job[r].acts /\ job[r].todo # <<>>
      /\ job[r].made \in Numbers /\ Stands(job[r].made) /\ Svc(job[r].made) = Head(job[r].todo)
    BY ConnectServiceIs DEF Acts, Deploys, StackAt, StackTyped, OnService, Shape, MadeMatches
<1>2. ASSUME job'[r].at = "rollback", job'[r].acts = job[r].acts,
             \/ UNCHANGED container
             \/ /\ container'[job[r].made].state = "gone"
                /\ container'[job[r].made].service = container[job[r].made].service
                /\ \A b \in Numbers : b # job[r].made => container'[b] = container[b]
      PROVE  Shape(r)' /\ Evolves /\ Acts(r)' = Acts(r)
    <2>1. Evolves
        <3>1. CASE UNCHANGED container
            BY <3>1 DEF Evolves
        <3>2. CASE /\ container'[job[r].made].state = "gone"
                   /\ container'[job[r].made].service = container[job[r].made].service
                   /\ \A b \in Numbers : b # job[r].made => container'[b] = container[b]
            BY <3>2, OneChanges
        <3> QED
            BY <1>2, <3>1, <3>2
    <2>2. Acts(r)' = Acts(r)
        BY <1>1, <1>2 DEF Acts, Deploys, StackAt
    <2> QED
        BY <1>1, <1>2, <2>1, <2>2, ShapeGivesUp
<1>3. ASSUME UNCHANGED container,
             job'[r].at = "start", job'[r].acts = Append(job[r].acts, NewAct(r)),
             NewAct(r) \in Act
      PROVE  Shape(r)' /\ Evolves /\ Acts(r)' = Append(Acts(r), NewAct(r))
    <2> DEFINE n == Len(Acts(r))
               s == Head(job[r].todo)
               c == job[r].made
    <2>1. Evolves
        BY <1>3 DEF Evolves
    <2>2. Acts(r)' = Append(Acts(r), NewAct(r))
        BY <1>1, <1>3 DEF Acts, Deploys, StackAt
    <2>3. /\ Acts(r) \in Seq(Act) /\ DOMAIN Acts(r) = 1 .. n /\ n \in Nat /\ None \notin Numbers
          /\ \A i \in 1 .. n : Acts(r)[i].new \in Numbers /\ Acts(r)[i].old \in Numbers \cup {None}
        BY ActsAre
    <2>4. /\ DOMAIN Acts(r)' = 1 .. n + 1 /\ Len(Acts(r)') = n + 1
          /\ \A i \in 1 .. n : Acts(r)'[i] = Acts(r)[i]
          /\ Acts(r)'[n + 1] = NewAct(r)
        BY <1>3, <2>2, <2>3, AppendProperties
    <2>5. \A i \in 1 .. (n + 1) : i \in 1 .. n \/ i = n + 1
        BY <2>3
    <2>6. /\ \A i \in 1 .. n : i \in 1 .. n + 1 /\ n + 1 \in 1 .. n + 1
          /\ n + 1 \in 1 .. n + 1
        BY <2>3
    <2>7. NewAct(r).new = c /\ NewAct(r).old = job[r].old
        BY DEF NewAct
    <2> HIDE DEF n, c
    <2>8. \A i \in 1 .. n :
             /\ Stands(Acts(r)[i].new)' /\ Svc(Acts(r)[i].new)' = Svc(Acts(r)[i].new)
             /\ Acts(r)[i].old # None => /\ Stands(Acts(r)[i].old)'
                                         /\ Svc(Acts(r)[i].old)' = Svc(Acts(r)[i].old)
        <3> TAKE i \in 1 .. n
        <3> DEFINE a == Acts(r)[i]
        <3>1. Acts(r)'[i] = a
            BY <2>4
        <3>2. /\ a.new \in Numbers /\ Stands(a.new)
              /\ a.old # None => a.old \in Numbers /\ Stands(a.old)
            BY <2>3 DEF Shape, ActsMatch
        <3> QED
            BY <2>1, <2>4, <3>1, <3>2 DEF Evolves, Stands, Svc
    <2>9. container'[c].service = s /\ container'[c].state # "none"
        BY <1>1, <1>3 DEF Svc, Stands, c
    <2>10. job[r].old # None => Stands(job[r].old)' /\ Svc(job[r].old)' = s
        <3>1. job[r].old \in Numbers \cup {None}
            BY <1>1, JobIs DEF Deploys, StackAt, StackDeploy
        <3>2. job[r].old # None => Stands(job[r].old) /\ Svc(job[r].old) = s
            BY <1>1 DEF Shape, OldMatches, OnService
        <3> QED
            BY <1>1, <2>1, <3>1, <3>2 DEF Evolves, Stands, Svc
    <2>11. ActsMatch(r)'
        <3> SUFFICES ASSUME NEW i \in 1 .. n + 1
                     PROVE  /\ Stands(Acts(r)[i].new)'
                            /\ (Acts(r)[i].old)' # None =>
                                  /\ Stands(Acts(r)[i].old)'
                                  /\ Svc(Acts(r)[i].old)' = Svc(Acts(r)[i].new)'
            BY <2>4 DEF ActsMatch
        <3>1. CASE i \in 1 .. n
            BY <2>3, <2>4, <2>8, <3>1 DEF Shape, ActsMatch, Stands, Svc
        <3>2. CASE i = n + 1
            BY <1>1, <2>4, <2>7, <2>9, <2>10, <3>2 DEF Stands, Svc
        <3> QED
            BY <2>5, <3>1, <3>2
    <2>12. Done(r)' = Done(r) \cup {s}
        <3>1. Done(r)' = {container'[Acts(r)'[i].new].service : i \in 1 .. n + 1}
            BY <2>4 DEF Done, Svc
        <3>2. \A i \in 1 .. n : container'[Acts(r)'[i].new].service = Svc(Acts(r)[i].new)
            BY <2>4, <2>8 DEF Svc
        <3>3. container'[Acts(r)'[n + 1].new].service = s
            BY <2>4, <2>7, <2>9 DEF Svc
        <3> QED
            BY <2>3, <2>5, <2>6, <3>1, <3>2, <3>3 DEF Done
    <2>13. /\ job[r].todo \in Seq(Services) /\ InOrder(job[r].todo, job[r].compose, Done(r))
        BY <1>1 DEF Shape, Ordered, Working, OnService, Rest
    <2>14. InOrder(Tail(job[r].todo), job[r].compose, Done(r)') /\ job[r].compose[s] \subseteq Done(r)
        <3>1. /\ InOrder(Tail(job[r].todo), job[r].compose, Done(r) \cup {Head(job[r].todo)})
              /\ (job[r].compose)[Head(job[r].todo)] \subseteq Done(r)
            BY <1>1, <2>13, OrderGoesOn
        <3> QED
            BY <2>12, <3>1
    <2>15. Ordered(r)'
        BY <1>1, <1>3, <2>13, <2>14 DEF Ordered, Rest
    <2>16. Depended(r)'
        <3> SUFFICES ASSUME NEW i \in 1 .. n + 1
                     PROVE  job'[r].compose[Svc(Acts(r)[i].new)']
                               \subseteq {Svc(Acts(r)[j].new)' : j \in 1 .. i - 1}
            BY <2>4 DEF Depended, Svc
        <3>1. \A j \in 1 .. n : Svc(Acts(r)[j].new)' = Svc(Acts(r)[j].new)
            BY <2>4, <2>8 DEF Svc
        <3>2. \A j \in 1 .. i - 1 : j \in 1 .. n
            BY <2>3
        <3>3. {Svc(Acts(r)[j].new)' : j \in 1 .. i - 1} = {Svc(Acts(r)[j].new) : j \in 1 .. i - 1}
            BY <3>1, <3>2
        <3>4. CASE i \in 1 .. n
            BY <1>1, <2>3, <3>1, <3>3, <3>4 DEF Shape, Depended
        <3>5. CASE i = n + 1
            <4>1. Svc(Acts(r)[i].new)' = s
                BY <2>4, <2>7, <2>9, <3>5 DEF Svc
            <4>2. i - 1 = n
                BY <2>3, <3>5
            <4>3. {Svc(Acts(r)[j].new) : j \in 1 .. i - 1} = Done(r)
                BY <2>3, <4>2 DEF Done
            <4> QED
                BY <1>1, <2>14, <3>3, <4>1, <4>3
        <3> QED
            BY <2>5, <3>4, <3>5
    <2>17. OldMatches(r)'
        BY <1>1, <2>10 DEF OldMatches, Stands, Svc
    <2>18. LastAct(r)'
        <3>1. Acts(r)' # <<>> /\ Last(Acts(r)') = NewAct(r)
            BY <2>3, <2>4 DEF Last
        <3> QED
            BY <1>1, <2>7, <3>1 DEF LastAct
    <2>19. NoActs(r)' /\ MadeMatches(r)'
        BY <1>3 DEF NoActs, MadeMatches
    <2>20. Retires(r)'
        <3> SUFFICES ASSUME NEW k \in DOMAIN job[r].retire
                     PROVE  \E i \in 1 .. n + 1 : Acts(r)'[i].old = job[r].retire[k]
            BY <1>1, <2>4 DEF Retires
        <3>1. PICK i \in 1 .. n : Acts(r)[i].old = job[r].retire[k]
            BY <1>1, <2>3 DEF Shape, Retires, Working, OnService
        <3> QED
            BY <2>4, <2>6, <3>1
    <2> QED
        BY <2>1, <2>2, <2>11, <2>15, <2>16, <2>17, <2>18, <2>19, <2>20 DEF Shape
<1> QED
    BY <1>2, <1>3, ConnectServiceIs

LEMMA StopOldContainerShape ==
    ASSUME StackTyped, NEW r \in StackRequests, Shape(r), StopOldContainer(r)
    PROVE  Shape(r)' /\ Evolves /\ Acts(r)' = Acts(r)
<1>1. /\ job[r].at = "retire" /\ job'[r].at = "find" /\ job[r].todo # <<>>
      /\ job'[r].todo = Tail(job[r].todo)
      /\ job'[r].acts = job[r].acts /\ job'[r].compose = job[r].compose
      /\ job'[r].retire = IF job[r].old = None THEN job[r].retire
                          ELSE Append(job[r].retire, job[r].old)
      /\ job[r].retire \in Seq(Numbers) /\ job[r].old \in Numbers \cup {None}
    BY StopOldContainerIs DEF Listed
<1>2. Acts(r)' = Acts(r)
    BY <1>1 DEF Acts, Deploys, StackAt
<1>3. Evolves
    <2>1. CASE UNCHANGED container
        BY <2>1 DEF Evolves
    <2>2. CASE /\ container'[job[r].old].state = "exited"
               /\ container'[job[r].old].service = container[job[r].old].service
               /\ \A b \in Numbers : b # job[r].old => container'[b] = container[b]
        BY <2>2, OneChanges
    <2> QED
        BY <2>1, <2>2, StopOldContainerIs
<1>4. Done(r)' = Done(r) /\ ActsMatch(r)' /\ Depended(r)'
    BY <1>1, <1>2, <1>3, ActsStay DEF Shape
<1>5. Ordered(r)'
    <2>1. job[r].todo \in Seq(Services) /\ InOrder(Tail(job[r].todo), job[r].compose, Done(r))
        BY <1>1 DEF Shape, Ordered, Working, OnService, Rest
    <2>2. Tail(job[r].todo) \in Seq(Services)
        BY <1>1, <2>1, HeadTailProperties
    <2> QED
        BY <1>1, <1>4, <2>1, <2>2 DEF Ordered, Rest
<1>6. OldMatches(r)' /\ LastAct(r)' /\ MadeMatches(r)' /\ NoActs(r)'
    BY <1>1 DEF OldMatches, MadeMatches, OnService, LastAct, NoActs
<1>7. Retires(r)'
    <2> DEFINE n == Len(Acts(r))
               k == Len(job[r].retire)
    <2>1. /\ n \in 1 .. n /\ DOMAIN Acts(r) = 1 .. n /\ Acts(r)[n].old = job[r].old
        BY <1>1, ActsAre DEF Shape, LastAct, MadeMatches, Last
    <2>2. \A i \in DOMAIN job[r].retire : \E m \in DOMAIN Acts(r) : Acts(r)[m].old = job[r].retire[i]
        BY <1>1 DEF Shape, Retires, Working, OnService
    <2>3. CASE job[r].old = None
        BY <1>1, <1>2, <2>2, <2>3 DEF Retires
    <2>4. CASE job[r].old # None
        <3>1. job'[r].retire = Append(job[r].retire, job[r].old)
            BY <1>1, <2>4
        <3>2. /\ DOMAIN job'[r].retire = 1 .. k + 1 /\ k \in Nat /\ DOMAIN job[r].retire = 1 .. k
              /\ \A i \in 1 .. k : job'[r].retire[i] = job[r].retire[i]
              /\ job'[r].retire[k + 1] = job[r].old
            BY <1>1, <2>4, <3>1, AppendProperties
        <3> HIDE DEF k, n
        <3>3. \A i \in 1 .. k + 1 : i \in 1 .. k \/ i = k + 1
            BY <3>2
        <3>4. \A i \in 1 .. k + 1 : \E m \in DOMAIN Acts(r) : Acts(r)[m].old = job'[r].retire[i]
            BY <2>1, <2>2, <3>2, <3>3
        <3> QED
            BY <1>2, <3>2, <3>4 DEF Retires
    <2> QED
        BY <2>3, <2>4
<1> QED
    BY <1>2, <1>3, <1>4, <1>5, <1>6, <1>7 DEF Shape

LEMMA RemoveRetiredShape ==
    ASSUME StackTyped, NEW r \in StackRequests, Shape(r), RemoveRetired(r)
    PROVE  /\ Shape(r)' /\ Evolves
           /\ \/ job'[r].at = "find" /\ Acts(r)' = Acts(r)
              \/ job'[r].at = "save" /\ Acts(r)' = <<>>
<1>1. job[r].at = "find" /\ job[r].todo = <<>> /\ job[r].retire \in Seq(Numbers)
    BY RemoveRetiredIs DEF Finishing, Listed
<1>2. Evolves
    <2>1. CASE UNCHANGED container
        BY <2>1 DEF Evolves
    <2>2. CASE /\ container'[Head(job[r].retire)].state = "gone"
               /\ container'[Head(job[r].retire)].service
                     = container[Head(job[r].retire)].service
               /\ \A b \in Numbers :
                     b # Head(job[r].retire) => container'[b] = container[b]
        BY <2>2, OneChanges
    <2> QED
        BY <2>1, <2>2, RemoveRetiredIs
<1>3. CASE /\ job[r].retire # <<>>
           /\ job'[r].at = "find" /\ job'[r].todo = <<>> /\ job'[r].acts = job[r].acts
           /\ job'[r].compose = job[r].compose /\ job'[r].retire = Tail(job[r].retire)
    <2>1. Acts(r)' = Acts(r)
        BY <1>1, <1>3 DEF Acts, Deploys, StackAt
    <2>2. Done(r)' = Done(r) /\ ActsMatch(r)' /\ Depended(r)'
        BY <1>2, <1>3, <2>1, ActsStay DEF Shape
    <2>3. Ordered(r)'
        BY <1>1, <1>3, <2>2 DEF Shape, Ordered, Working, OnService, Rest
    <2>4. OldMatches(r)' /\ LastAct(r)' /\ MadeMatches(r)' /\ NoActs(r)'
        BY <1>3 DEF OldMatches, MadeMatches, OnService, LastAct, NoActs
    <2>5. Retires(r)'
        <3> SUFFICES ASSUME NEW k \in DOMAIN Tail(job[r].retire)
                     PROVE  \E i \in DOMAIN Acts(r) : Acts(r)[i].old = Tail(job[r].retire)[k]
            BY <1>3, <2>1 DEF Retires
        <3>1. k + 1 \in DOMAIN job[r].retire /\ Tail(job[r].retire)[k] = job[r].retire[k + 1]
            BY <1>1, <1>3, HeadTailProperties
        <3> QED
            BY <1>1, <3>1 DEF Shape, Retires, Working, OnService
    <2> QED
        BY <1>2, <1>3, <2>1, <2>2, <2>3, <2>4, <2>5 DEF Shape
<1>4. CASE job'[r].at = "save" /\ job'[r].acts = <<>>
    <2>1. Acts(r)' = <<>> /\ ~Working(r)'
        BY <1>4 DEF Acts, Deploys, StackAt, Working, OnService
    <2> QED
        BY <1>2, <1>4, <2>1, ShapeAside
<1> QED
    BY <1>3, <1>4, RemoveRetiredIs

LEMMA UndoServiceShape ==
    ASSUME StackTyped, NEW r \in StackRequests, Shape(r), UndoService(r)
    PROVE  Shape(r)' /\ Evolves /\ Acts(r) # <<>> /\ Acts(r)' = Front(Acts(r))
<1>1. /\ job[r].at = "rollback" /\ job'[r].at = "rollback" /\ job[r].acts # <<>>
      /\ job'[r].acts = Front(job[r].acts) /\ job'[r].compose = job[r].compose
    BY UndoServiceIs
<1>2. Acts(r)' = Front(Acts(r)) /\ Acts(r) # <<>>
    BY <1>1 DEF Acts, Deploys, StackAt
<1> DEFINE n == Len(Acts(r))
<1>3. /\ Acts(r) \in Seq(Act) /\ DOMAIN Acts(r) = 1 .. n /\ n \in Nat /\ n > 0 /\ None \notin Numbers
      /\ \A i \in 1 .. n : Acts(r)[i].new \in Numbers /\ Acts(r)[i].old \in Numbers \cup {None}
    BY <1>2, ActsAre
<1>4. /\ DOMAIN Acts(r)' = 1 .. n - 1
      /\ \A i \in 1 .. n - 1 : i \in 1 .. n /\ Acts(r)'[i] = Acts(r)[i]
    BY <1>2, <1>3 DEF Front
<1>5. Evolves
    <2> SUFFICES ASSUME NEW c \in Numbers, container[c].state # "none"
                 PROVE  /\ container'[c].state # "none"
                        /\ container'[c].service = container[c].service
        BY DEF Evolves
    <2>1. /\ [container[c] EXCEPT !.state = "gone"].state = "gone"
          /\ [container[c] EXCEPT !.state = "running"].state = "running"
          /\ [container[c] EXCEPT !.state = "gone"].service = container[c].service
          /\ [container[c] EXCEPT !.state = "running"].service = container[c].service
        BY DEF StackTyped, ContainerRow
    <2> QED
        BY <2>1, UndoServiceIs
<1> HIDE DEF n
<1>6. \A i \in 1 .. n - 1 :
         /\ Stands(Acts(r)[i].new)' /\ Svc(Acts(r)[i].new)' = Svc(Acts(r)[i].new)
         /\ Acts(r)[i].old # None => /\ Stands(Acts(r)[i].old)'
                                     /\ Svc(Acts(r)[i].old)' = Svc(Acts(r)[i].old)
    <2> TAKE i \in 1 .. n - 1
    <2> DEFINE a == Acts(r)[i]
    <2>1. Acts(r)'[i] = a /\ i \in 1 .. n
        BY <1>4
    <2>2. /\ a.new \in Numbers /\ Stands(a.new)
          /\ a.old # None => a.old \in Numbers /\ Stands(a.old)
        BY <1>3, <2>1 DEF Shape, ActsMatch
    <2> QED
        BY <1>4, <1>5, <2>1, <2>2 DEF Evolves, Stands, Svc
<1>7. ActsMatch(r)'
    BY <1>3, <1>4, <1>6 DEF Shape, ActsMatch, Stands, Svc
<1>8. Depended(r)'
    <2> SUFFICES ASSUME NEW i \in 1 .. n - 1
                 PROVE  job'[r].compose[Svc(Acts(r)[i].new)']
                           \subseteq {Svc(Acts(r)[j].new)' : j \in 1 .. i - 1}
        BY <1>4 DEF Depended, Svc
    <2>1. \A j \in 1 .. i - 1 : j \in 1 .. n - 1
        BY <1>3
    <2>2. {Svc(Acts(r)[j].new)' : j \in 1 .. i - 1} = {Svc(Acts(r)[j].new) : j \in 1 .. i - 1}
        BY <1>6, <2>1
    <2>3. i \in DOMAIN Acts(r) /\ Svc(Acts(r)[i].new)' = Svc(Acts(r)[i].new)
        BY <1>3, <1>4, <1>6
    <2> QED
        BY <1>1, <2>2, <2>3 DEF Shape, Depended
<1>9. /\ Ordered(r)' /\ OldMatches(r)' /\ LastAct(r)' /\ MadeMatches(r)' /\ NoActs(r)' /\ Retires(r)'
    BY <1>1 DEF Ordered, OldMatches, LastAct, NoActs, MadeMatches, Retires, Working, OnService
<1> QED
    BY <1>2, <1>5, <1>7, <1>8, <1>9 DEF Shape

\* The steps of a request with no acts that leave it with none, and away from the services.
LEMMA AsideShape ==
    ASSUME StackTyped, NEW r \in StackRequests, Shape(r),
           \/ SaveResources(r) \/ RemoveCreated(r) \/ EachContainer(r) \/ EndEach(r)
           \/ \E op \in {"stop", "restart", "delete"} : BeginEach(r, op)
    PROVE  Shape(r)' /\ Evolves /\ Acts(r)' = <<>> /\ Acts(r) = <<>>
<1>1. Evolves
    <2>1. CASE UNCHANGED container
        BY <2>1 DEF Evolves
    <2>2. ASSUME NEW c \in Present, container'[c].service = container[c].service,
                 \A b \in Numbers : b # c => container'[b] = container[b],
                 container'[c].state \in {"running", "exited", "gone"}
          PROVE  Evolves
        BY <2>2, OneChanges
    <2> QED
        BY <2>1, <2>2, SaveResourcesIs, RemoveCreatedIs, EachContainerIs, EndEachIs, BeginEachIs
<1>2. CASE SaveResources(r)
    <2>1. /\ job[r].at = "save" /\ Acts(r) = <<>>
          /\ (job'[r].at = "save" /\ job'[r].acts = job[r].acts) \/ job'[r].at = "idle"
        BY <1>2, SaveResourcesIs DEF Shape, NoActs
    <2>2. Acts(r)' = <<>>
        BY <2>1 DEF Acts, Deploys, StackAt
    <2>3. ~Working(r)' /\ job'[r].at \notin {"networks", "volumes"}
        BY <2>1 DEF Working, OnService
    <2> QED
        BY <1>1, <2>1, <2>2, <2>3, ShapeAside
<1>3. CASE ~SaveResources(r)
    <2>1. /\ job'[r].at \in {"idle", "each"}
          /\ job[r].at \in {"idle", "each"} \/ (job[r].at = "rollback" /\ job[r].acts = <<>>)
        <3>1. ASSUME NEW op \in {"stop", "restart", "delete"}, BeginEach(r, op)
              PROVE  job'[r].at = "each" /\ job[r].at = "idle"
            BY <3>1, BeginEachIs
        <3> QED
            BY <1>3, <3>1, RemoveCreatedIs, EachContainerIs, EndEachIs
    <2>2. Acts(r)' = <<>> /\ Acts(r) = <<>>
        BY <2>1 DEF Acts, Deploys, StackAt
    <2>3. ~Working(r)' /\ job'[r].at \notin {"networks", "volumes"}
        BY <2>1 DEF Working, OnService
    <2> QED
        BY <1>1, <2>2, <2>3, ShapeAside
<1> QED
    BY <1>2, <1>3

-----------------------------------------------------------------------------
(* Whose containers are whose: each new container belongs to one deploy, to *)
(* the placed ones, or to those whose ID was not returned, and there are no *)
(* others.                                                                  *)

\* The container r has made and does not know of yet.
Held(r) == IF job[r].at = "connect" THEN {job[r].made} ELSE {}

NewsDiffer ==
    /\ \A r, q \in StackRequests : \A i \in DOMAIN Acts(r), j \in DOMAIN Acts(q) :
          Acts(r)[i].new = Acts(q)[j].new => r = q /\ i = j
    /\ \A r \in StackRequests : MadeBy(r) \cap placed = {}
    /\ \A c \in placed \cup unreturned : Stands(c)
    /\ unreturned \cap placed = {}
    /\ \A r \in StackRequests : MadeBy(r) \cap unreturned = {} /\ Held(r) \subseteq unreturned
    /\ \A r, q \in StackRequests : r # q => Held(r) \cap Held(q) = {}
Accounted ==
    Present \subseteq placed \cup unreturned \cup UNION {MadeBy(r) : r \in StackRequests}
Shapes == \A r \in StackRequests : Shape(r)

\* While r takes a step, the others keep what they have.
LEMMA OthersKeep ==
    ASSUME StackTyped, Shapes, NEW r \in StackRequests, OthersWait(r), Evolves
    PROVE  \A q \in StackRequests : q # r =>
              Shape(q)' /\ Acts(q)' = Acts(q) /\ MadeBy(q)' = MadeBy(q) /\ Held(q)' = Held(q)
BY ShapeStays DEF OthersWait, Shapes, Held

\* A step that makes no container and places none.
LEMMA NewsStay ==
    ASSUME StackTyped, Shapes, NEW r \in StackRequests, OthersWait(r), Evolves,
           NewsDiffer, Accounted, Acts(r)' = Acts(r), Held(r)' \subseteq Held(r),
           placed' = placed, unreturned' = unreturned, Present' \subseteq Present
    PROVE  NewsDiffer' /\ Accounted'
<1>1. \A q \in StackRequests :
         Acts(q)' = Acts(q) /\ MadeBy(q)' = MadeBy(q) /\ Held(q)' \subseteq Held(q)
    BY OthersKeep DEF MadeBy
<1>2. NewsDiffer'
    <2>1. \A c \in placed \cup unreturned : Stands(c)'
        BY DEF NewsDiffer, Stands, Evolves, StackTyped
    <2> QED
        BY <1>1, <2>1 DEF NewsDiffer
<1>3. Accounted'
    BY <1>1 DEF Accounted
<1> QED
    BY <1>2, <1>3

\* The container r has just made is unreturned.
LEMMA NewsAfterCreate ==
    ASSUME StackTyped, Shapes, NewsDiffer, Accounted, NEW r \in StackRequests, OthersWait(r),
           Evolves, placed' = placed, NEW c \in Numbers, container[c].state = "none",
           container'[c].state = "created",
           \A b \in Numbers : b # c => container'[b] = container[b],
           Acts(r)' = Acts(r), Held(r)' = {c}, unreturned' = unreturned \cup {c}
    PROVE  /\ NewsDiffer' /\ Accounted'
           /\ \A q \in StackRequests : c \notin MadeBy(q) /\ c \notin Held(q)
<1>1. \A q \in StackRequests :
         Acts(q)' = Acts(q) /\ MadeBy(q)' = MadeBy(q) /\ (q # r => Held(q)' = Held(q))
    BY OthersKeep DEF MadeBy
<1>2. \A q \in StackRequests : c \notin MadeBy(q)
    <2>1. \A q \in StackRequests : \A i \in DOMAIN Acts(q) : Acts(q)[i].new # c
        BY DEF Shapes, Shape, ActsMatch, Stands
    <2> QED
        BY <2>1 DEF MadeBy
<1>3. c \notin placed /\ c \notin unreturned
    BY DEF NewsDiffer, Stands
<1>4. \A q \in StackRequests : c \notin Held(q)
    BY <1>3 DEF NewsDiffer
<1>5. NewsDiffer'
    <2>1. \A b \in placed' \cup unreturned' : Stands(b)'
        BY DEF NewsDiffer, Stands, Evolves, StackTyped
    <2>2. \A p, q \in StackRequests : p # q => Held(p)' \cap Held(q)' = {}
        BY <1>1, <1>4 DEF NewsDiffer
    <2>3. \A q \in StackRequests :
             MadeBy(q)' \cap unreturned' = {} /\ Held(q)' \subseteq unreturned'
        BY <1>1, <1>2 DEF NewsDiffer
    <2> QED
        BY <1>1, <1>3, <2>1, <2>2, <2>3 DEF NewsDiffer
<1>6. Accounted'
    <2>1. Present' \subseteq Present \cup {c}
        BY DEF Present
    <2> QED
        BY <1>1, <2>1 DEF Accounted
<1> QED
    BY <1>2, <1>4, <1>5, <1>6

\* The container whose ID r has got is the one of its new act.
LEMMA NewsAfterConnect ==
    ASSUME StackTyped, Shapes, NewsDiffer, Accounted, NEW r \in StackRequests, OthersWait(r),
           UNCHANGED container, Evolves, placed' = placed, NEW c \in Numbers, Held(r) = {c},
           Held(r)' = {}, unreturned' = unreturned \ {c},
           NEW a, a.new = c, Acts(r)' = Append(Acts(r), a)
    PROVE  NewsDiffer' /\ Accounted' /\ MadeBy(r)' = MadeBy(r) \cup {c}
<1> DEFINE n == Len(Acts(r))
<1>1. /\ DOMAIN Acts(r) = 1 .. n /\ n \in Nat
      /\ DOMAIN Acts(r)' = 1 .. n + 1
      /\ \A i \in 1 .. n : i \in 1 .. n + 1 /\ Acts(r)'[i] = Acts(r)[i]
      /\ n + 1 \in 1 .. n + 1 /\ Acts(r)'[n + 1].new = c
    BY ActsAre, AppendProperties
<1> HIDE DEF n
<1>2. \A i \in 1 .. (n + 1) : i \in 1 .. n \/ i = n + 1
    BY <1>1
<1>3. \A q \in StackRequests : q # r =>
         Acts(q)' = Acts(q) /\ MadeBy(q)' = MadeBy(q) /\ Held(q)' = Held(q)
    BY OthersKeep
<1>4. c \in unreturned /\ c \notin placed /\ \A q \in StackRequests : c \notin MadeBy(q)
    BY DEF NewsDiffer
<1>5. \A q \in StackRequests : \A i \in DOMAIN Acts(q) : Acts(q)[i].new # c
    BY <1>4 DEF MadeBy
<1>6. MadeBy(r)' = MadeBy(r) \cup {c}
    BY <1>1, <1>2 DEF MadeBy
<1>7. NewsDiffer'
    <2>1. ASSUME NEW q \in StackRequests, NEW i \in DOMAIN Acts(r)', NEW j \in DOMAIN Acts(q)',
                 Acts(r)'[i].new = Acts(q)'[j].new
          PROVE  r = q /\ i = j
        <3>1. CASE q # r
            <4>1. Acts(q)' = Acts(q) /\ j \in DOMAIN Acts(q)
                BY <1>3, <2>1, <3>1
            <4>2. i \in 1 .. n
                BY <1>1, <1>2, <1>5, <2>1, <4>1
            <4> QED
                BY <1>1, <2>1, <4>1, <4>2, <3>1 DEF NewsDiffer
        <3>2. CASE q = r
            <4>1. CASE i \in 1 .. n /\ j \in 1 .. n
                BY <1>1, <2>1, <3>2, <4>1 DEF NewsDiffer
            <4>2. CASE i = n + 1 /\ j \in 1 .. n
                BY <1>1, <1>5, <2>1, <3>2, <4>2
            <4>3. CASE i \in 1 .. n /\ j = n + 1
                BY <1>1, <1>5, <2>1, <3>2, <4>3
            <4> QED
                BY <1>1, <1>2, <3>2, <4>1, <4>2, <4>3
        <3> QED
            BY <3>1, <3>2
    <2>2. ASSUME NEW p \in StackRequests, NEW q \in StackRequests,
                 NEW i \in DOMAIN Acts(p)', NEW j \in DOMAIN Acts(q)',
                 Acts(p)'[i].new = Acts(q)'[j].new
          PROVE  p = q /\ i = j
        <3>1. CASE p = r
            BY <2>1, <2>2, <3>1
        <3>2. CASE q = r
            BY <2>1, <2>2, <3>2
        <3>3. CASE p # r /\ q # r
            BY <1>3, <2>2, <3>3 DEF NewsDiffer
        <3> QED
            BY <3>1, <3>2, <3>3
    <2>3. \A q \in StackRequests : MadeBy(q)' \cap placed' = {}
        BY <1>3, <1>4, <1>6 DEF NewsDiffer
    <2>4. \A b \in placed' \cup unreturned' : Stands(b)'
        BY DEF NewsDiffer, Stands, StackTyped
    <2>5. \A q \in StackRequests :
             MadeBy(q)' \cap unreturned' = {} /\ Held(q)' \subseteq unreturned'
        BY <1>3, <1>6 DEF NewsDiffer
    <2>6. \A p, q \in StackRequests : p # q => Held(p)' \cap Held(q)' = {}
        BY <1>3 DEF NewsDiffer
    <2>7. unreturned' \cap placed' = {}
        BY DEF NewsDiffer
    <2> QED
        BY <2>2, <2>3, <2>4, <2>5, <2>6, <2>7 DEF NewsDiffer
<1>8. Accounted'
    <2>1. Present' = Present
        BY DEF Present
    <2>2. \A q \in StackRequests : MadeBy(q) \subseteq MadeBy(q)'
        BY <1>3, <1>6
    <2> QED
        BY <1>6, <2>1, <2>2 DEF Accounted
<1> QED
    BY <1>6, <1>7, <1>8

\* The acts of r that are left are the ones it had.
LEMMA NewsAfterFewer ==
    ASSUME StackTyped, Shapes, NewsDiffer, Accounted, NEW r \in StackRequests, OthersWait(r),
           Evolves, DOMAIN Acts(r)' \subseteq DOMAIN Acts(r),
           \A i \in DOMAIN Acts(r)' : Acts(r)'[i] = Acts(r)[i],
           placed \subseteq placed', placed' \subseteq placed \cup MadeBy(r),
           MadeBy(r)' \cap placed' = {}, Present' \subseteq Present,
           Present' \cap MadeBy(r) \subseteq MadeBy(r)' \cup placed',
           unreturned' = unreturned, Held(r)' = {}
    PROVE  NewsDiffer' /\ Accounted'
<1>1. \A q \in StackRequests : q # r =>
         Acts(q)' = Acts(q) /\ MadeBy(q)' = MadeBy(q) /\ Held(q)' = Held(q)
    BY OthersKeep
<1>2. \A q \in StackRequests :
         DOMAIN Acts(q)' \subseteq DOMAIN Acts(q) /\ \A i \in DOMAIN Acts(q)' : Acts(q)'[i] = Acts(q)[i]
    BY <1>1
<1>3. \A p, q \in StackRequests : \A i \in DOMAIN Acts(p)', j \in DOMAIN Acts(q)' :
         Acts(p)'[i].new = Acts(q)'[j].new => p = q /\ i = j
    BY <1>2 DEF NewsDiffer
<1>4. \A q \in StackRequests : q # r => MadeBy(q) \cap MadeBy(r) = {}
    BY DEF NewsDiffer, MadeBy
<1>5. \A q \in StackRequests : MadeBy(q)' \cap placed' = {}
    BY <1>1, <1>4 DEF NewsDiffer
<1>6. \A c \in placed' \cup unreturned' : Stands(c)'
    <2>1. \A c \in placed \cup unreturned : c \in Numbers /\ Stands(c)
        BY DEF NewsDiffer, StackTyped
    <2>2. \A c \in MadeBy(r) : c \in Numbers /\ Stands(c)
        BY ActsAre DEF Shapes, Shape, ActsMatch, MadeBy
    <2> QED
        BY <2>1, <2>2 DEF Stands, Evolves
<1>7. Accounted'
    BY <1>1 DEF Accounted
<1>8. \A q \in StackRequests : MadeBy(q)' \cap unreturned' = {} /\ Held(q)' \subseteq unreturned'
    <2>1. MadeBy(r)' \subseteq MadeBy(r)
        BY DEF MadeBy
    <2> QED
        BY <1>1, <2>1 DEF NewsDiffer
<1>9. \A p, q \in StackRequests : p # q => Held(p)' \cap Held(q)' = {}
    <2>1. \A q \in StackRequests : Held(q)' \subseteq Held(q)
        BY <1>1
    <2> QED
        BY <2>1 DEF NewsDiffer
<1>10. unreturned' \cap placed' = {}
    BY DEF NewsDiffer
<1> QED
    BY <1>3, <1>5, <1>6, <1>7, <1>8, <1>9, <1>10 DEF NewsDiffer

-----------------------------------------------------------------------------
(* What holds as long as no request has met the half-done work of another:  *)
(* each service that was up has a container that runs, or that the deploy   *)
(* that stopped it will start again.                                        *)

\* The containers r replaces, and the one it is about to.
Olds(r)   == {Acts(r)[i].old : i \in DOMAIN Acts(r)} \ {None}
Sought(r) == IF job[r].at \in {"create", "connect"} THEN {job[r].old} \ {None} ELSE {}
\* Those of them that were down, which a rollback leaves down.
Down(r) == {c \in Numbers :
              \/ \E i \in DOMAIN Acts(r) : Acts(r)[i].old = c /\ ~Acts(r)[i].wasRunning
              \/ job[r].at \in {"create", "connect"} /\ job[r].old = c /\ ~job[r].oldUp}
\* Those a finished deploy is about to remove.
Leaving(r) == IF Finishing(r) THEN ToSet(job[r].retire) ELSE {}

OldsAreSettled == \A r, q \in StackRequests :
    (Olds(r) \cup Sought(r)) \cap (MadeBy(q) \cup Held(q)) = {}
NewsRun == \A r \in StackRequests : Working(r) => \A i \in DOMAIN Acts(r) :
    Acts(r)[i].new \in Running \/ (job[r].at = "start" /\ i = Len(Acts(r)))
EachAlone == \A r \in StackRequests : job[r].at = "each" =>
    /\ \A q \in StackRequests \ {r} : job[q].at \notin {"each", "create", "connect"} /\ Acts(q) = <<>>
    /\ job[r].op # "restart" => serving = {}
\* The containers that no rollback will remove.
Settled == placed \cup UNION {MadeBy(r) : r \in {q \in StackRequests : Finishing(q)}}
Restarts(r, c) == ~Finishing(r) /\ c \in Olds(r)
Witness(c, s) ==
    /\ c \in Settled /\ c \in Present /\ Svc(c) = s
    /\ \A r \in StackRequests : c \notin Leaving(r) /\ c \notin Down(r)
    /\ c \in Running \/ \E r \in StackRequests : Restarts(r, c)
Serves == \A s \in serving : \E c \in Numbers : Witness(c, s)
Undisturbed == OldsAreSettled /\ NewsRun /\ EachAlone /\ Serves

StackInv ==
    /\ StackTyped /\ Shapes /\ NewsDiffer /\ Accounted
    /\ ~collided => Undisturbed

\* What belongs to a request that waits.
LEMMA WaitingIs ==
    ASSUME NEW r \in StackRequests, job'[r] = job[r]
    PROVE  /\ Olds(r)' = Olds(r) /\ Sought(r)' = Sought(r) /\ Down(r)' = Down(r)
           /\ Leaving(r)' = Leaving(r) /\ Finishing(r)' = Finishing(r)
           /\ Working(r)' = Working(r) /\ Acts(r)' = Acts(r) /\ MadeBy(r)' = MadeBy(r)
           /\ \A c : Restarts(r, c)' = Restarts(r, c)
           /\ Held(r)' = Held(r)
<1>1. Acts(r)' = Acts(r)
    BY DEF Acts, Deploys
<1>2. Finishing(r)' = Finishing(r)
    BY DEF Finishing
<1>3. Olds(r)' = Olds(r) /\ MadeBy(r)' = MadeBy(r)
    BY <1>1 DEF Olds, MadeBy
<1>4. Sought(r)' = Sought(r)
    BY DEF Sought
<1>5. Down(r)' = Down(r)
    BY <1>1 DEF Down
<1>6. Leaving(r)' = Leaving(r)
    BY <1>2 DEF Leaving
<1>7. Working(r)' = Working(r) /\ Held(r)' = Held(r)
    BY DEF Working, OnService, Held
<1>8. \A c : Restarts(r, c)' = Restarts(r, c)
    BY <1>2, <1>3 DEF Restarts
<1> QED
    BY <1>1, <1>2, <1>3, <1>4, <1>5, <1>6, <1>7, <1>8

\* What is settled stays so, when r keeps or places what it finishes.
LEMMA SettledStays ==
    ASSUME NEW r \in StackRequests, OthersWait(r), placed \subseteq placed',
           Finishing(r) => MadeBy(r) \subseteq placed' \/ (Finishing(r)' /\ MadeBy(r) \subseteq MadeBy(r)')
    PROVE  Settled \subseteq Settled'
<1> SUFFICES ASSUME NEW c \in Settled PROVE c \in Settled'
    OBVIOUS
<1>1. CASE c \in placed
    BY <1>1 DEF Settled
<1>2. ASSUME NEW q \in StackRequests, Finishing(q), c \in MadeBy(q)
      PROVE  c \in Settled'
    <2>1. CASE q = r
        BY <1>2, <2>1 DEF Settled
    <2>2. CASE q # r
        <3>1. Finishing(q)' /\ MadeBy(q)' = MadeBy(q)
            BY <1>2, <2>2, WaitingIs DEF OthersWait
        <3> QED
            BY <1>2, <3>1 DEF Settled
    <2> QED
        BY <2>1, <2>2
<1> QED
    BY <1>1, <1>2 DEF Settled

\* A witness stays one, as far as r leaves it alone.
LEMMA WitnessStays ==
    ASSUME StackTyped, NEW r \in StackRequests, OthersWait(r), Evolves,
           NEW c \in Numbers, NEW s, Witness(c, s), c \in Settled', c \in Present',
           c \notin Leaving(r)', c \notin Down(r)',
           c \in Running \/ Restarts(r, c) => c \in Running' \/ Restarts(r, c)'
    PROVE  Witness(c, s)'
<1>1. Svc(c)' = s
    BY DEF Witness, Svc, Present, Evolves
<1>2. \A q \in StackRequests : c \notin Leaving(q)' /\ c \notin Down(q)'
    BY WaitingIs DEF Witness, OthersWait
<1>3. c \in Running' \/ \E q \in StackRequests : Restarts(q, c)'
    <2>1. CASE c \in Running \/ Restarts(r, c)
        BY <2>1
    <2>2. ASSUME NEW q \in StackRequests, Restarts(q, c), q # r
          PROVE  Restarts(q, c)'
        BY <2>2, WaitingIs DEF OthersWait
    <2> QED
        BY <2>1, <2>2 DEF Witness
<1> QED
    BY <1>1, <1>2, <1>3 DEF Witness

\* When r only lets go of containers, every service keeps its witness.
LEMMA ServesStays ==
    ASSUME StackTyped, NEW r \in StackRequests, OthersWait(r), Evolves, Serves,
           serving' \subseteq serving, Settled \subseteq Settled',
           Down(r)' \subseteq Down(r), Leaving(r)' \subseteq Leaving(r),
           Present \ Leaving(r) \subseteq Present', Running \ Leaving(r) \subseteq Running',
           Finishing(r)' => Finishing(r) \/ Olds(r) = {}, Olds(r) \subseteq Olds(r)' \/ Finishing(r)
    PROVE  Serves'
<1> SUFFICES ASSUME NEW s \in serving PROVE \E c \in Numbers : Witness(c, s)'
    BY DEF Serves
<1>1. PICK c \in Numbers : Witness(c, s)
    BY DEF Serves
<1>2. /\ c \in Settled' /\ c \in Present' /\ c \notin Leaving(r)' /\ c \notin Down(r)'
      /\ c \in Running => c \in Running'
    BY <1>1 DEF Witness
<1>3. Restarts(r, c) => Restarts(r, c)'
    BY DEF Restarts
<1> QED
    BY <1>1, <1>2, <1>3, WitnessStays

\* A step that leaves the containers and the acts of r alone.
LEMMA SameActs ==
    ASSUME NEW r \in StackRequests, Acts(r)' = Acts(r)
    PROVE  Olds(r)' = Olds(r) /\ MadeBy(r)' = MadeBy(r)
BY DEF Olds, MadeBy

-----------------------------------------------------------------------------
(* Every step keeps the invariant.                                          *)

LEMMA ShapesStay ==
    ASSUME StackTyped, Shapes, NEW r \in StackRequests, OthersWait(r), Evolves, Shape(r)'
    PROVE  Shapes'
BY OthersKeep DEF Shapes

\* A step that makes, removes and stops no container.
LEMMA QuietStep ==
    ASSUME StackInv, StackTyped', NEW r \in StackRequests, OthersWait(r), Evolves, Shape(r)',
           Acts(r)' = Acts(r), UNCHANGED ghosts, Present' = Present, Running \subseteq Running',
           job'[r].at \notin {"each", "create", "connect"},
           ~collided /\ Working(r)' => \A i \in DOMAIN Acts(r) : Acts(r)[i].new \in Running',
           Finishing(r) => Finishing(r)', Finishing(r)' => Acts(r) = <<>> \/ Finishing(r),
           Leaving(r)' \subseteq Leaving(r)
    PROVE  StackInv'
<1>1. Shapes'
    BY ShapesStay DEF StackInv
<1>2. NewsDiffer' /\ Accounted'
    BY NewsStay DEF StackInv, ghosts, Held
<1>3. ASSUME ~collided PROVE Undisturbed'
    <2>1. OldsAreSettled /\ NewsRun /\ EachAlone /\ Serves
        BY <1>3 DEF StackInv, Undisturbed
    <2>2. Olds(r)' = Olds(r) /\ MadeBy(r)' = MadeBy(r) /\ Sought(r)' = {} /\ Held(r)' = {}
        BY SameActs DEF Sought, Held
    <2>3. \A q \in StackRequests : q # r =>
             /\ Olds(q)' = Olds(q) /\ Sought(q)' = Sought(q) /\ MadeBy(q)' = MadeBy(q)
             /\ Held(q)' = Held(q)
             /\ Working(q)' = Working(q) /\ Acts(q)' = Acts(q) /\ job'[q] = job[q]
        BY WaitingIs DEF OthersWait
    <2>4. OldsAreSettled'
        BY <2>1, <2>2, <2>3 DEF OldsAreSettled
    <2>5. NewsRun'
        <3> SUFFICES ASSUME NEW q \in StackRequests, Working(q)', NEW i \in DOMAIN Acts(q)'
                     PROVE  Acts(q)'[i].new \in Running' \/ (job'[q].at = "start" /\ i = Len(Acts(q)'))
            BY DEF NewsRun
        <3>1. CASE q = r
            BY <1>3, <3>1
        <3>2. CASE q # r
            BY <2>1, <2>3, <3>2 DEF NewsRun
        <3> QED
            BY <3>1, <3>2
    <2>6. EachAlone'
        BY <2>1, <2>3 DEF EachAlone, ghosts
    <2>7. Down(r)' \subseteq Down(r)
        BY DEF Down
    <2>8. Settled \subseteq Settled'
        BY <2>2, SettledStays DEF ghosts
    <2>9. Olds(r) = {} \/ Acts(r) # <<>>
        BY DEF Olds
    <2>10. serving' \subseteq serving
        BY DEF ghosts
    <2>11. Serves'
        BY <2>1, <2>2, <2>7, <2>8, <2>9, <2>10, ServesStays DEF StackInv
    <2> QED
        BY <2>4, <2>5, <2>6, <2>11 DEF Undisturbed
<1> QED
    BY <1>1, <1>2, <1>3 DEF StackInv, ghosts

LEMMA UnchangedContainers ==
    ASSUME UNCHANGED container
    PROVE  Present' = Present /\ Running' = Running /\ Evolves
BY DEF Present, Running, Evolves

\* With nothing else under way the ghosts begin anew, whatever they were: what
\* exists is accounted for and what runs serves.
LEMMA StartFromRest ==
    ASSUME StackInv, StackTyped', NEW r \in StackRequests, OthersWait(r), NoneBusy,
           UNCHANGED container, Shape(r)', Acts(r)' = <<>>, job'[r].at \in {"networks", "each"},
           placed' = Present, unreturned' = {}, serving' \subseteq ServicesUp,
           job'[r].at = "each" /\ job'[r].op # "restart" => serving' = {}
    PROVE  StackInv'
<1>1. StackTyped /\ Shapes
    BY DEF StackInv
<1>2. Present' = Present /\ Running' = Running /\ Evolves
    BY UnchangedContainers
<1>3. \A q \in StackRequests : job[q].at = "idle"
    BY DEF NoneBusy, Busy
<1>4. \A q \in StackRequests :
         job'[q].at \in {"idle", "networks", "each"} /\ (q # r => job'[q].at = "idle")
    BY <1>3 DEF OthersWait
<1>5. \A q \in StackRequests : Acts(q)' = <<>>
    BY <1>4 DEF Acts, Deploys, StackAt
<1>6. \A q \in StackRequests :
         /\ DOMAIN Acts(q)' = {} /\ Olds(q)' = {} /\ MadeBy(q)' = {}
         /\ Sought(q)' = {} /\ Held(q)' = {}
    BY <1>4, <1>5 DEF Olds, MadeBy, Sought, Held
<1>7. \A q \in StackRequests : ~Finishing(q)' /\ Leaving(q)' = {} /\ Down(q)' = {}
    BY <1>4, <1>6 DEF Finishing, Leaving, Down
<1>8. Shapes'
    BY <1>1, <1>2, ShapesStay
<1>9. NewsDiffer'
    <2>1. \A c \in placed' : Stands(c)'
        BY DEF Stands, Present
    <2> QED
        BY <1>6, <2>1 DEF NewsDiffer
<1>10. Accounted'
    BY <1>2 DEF Accounted
<1>11. OldsAreSettled' /\ NewsRun'
    BY <1>6 DEF OldsAreSettled, NewsRun
<1>12. EachAlone'
    BY <1>4, <1>5 DEF EachAlone
<1>13. Serves'
    <2> SUFFICES ASSUME NEW s \in ServicesUp PROVE \E c \in Numbers : Witness(c, s)'
        BY DEF Serves
    <2>1. PICK c \in Numbers : c \in Running /\ c \in Present /\ container[c].service = s
        BY DEF ServicesUp, Of, Present
    <2>2. c \in Settled' /\ Svc(c)' = s
        BY <2>1 DEF Settled, Svc
    <2> QED
        BY <1>2, <1>7, <2>1, <2>2 DEF Witness
<1> QED
    BY <1>8, <1>9, <1>10, <1>11, <1>12, <1>13 DEF StackInv, Undisturbed

LEMMA BeginDeployFromRest ==
    ASSUME StackInv, NEW r \in StackRequests, BeginDeploy(r), stack.compose # BadYaml, NoneBusy
    PROVE  StackInv'
<1>1. StackTyped
    BY DEF StackInv
<1>2. /\ StackTyped' /\ OthersWait(r) /\ job'[r].at = "networks" /\ UNCHANGED container
      /\ placed' = Present /\ unreturned' = {} /\ serving' = ServicesUp
    BY <1>1, BeginDeployIs DEF docker, FromRest
<1>3. Shape(r)' /\ Acts(r)' = <<>>
    BY <1>1, BeginDeployShape
<1> QED
    BY <1>2, <1>3, StartFromRest

LEMMA FirstSteps ==
    ASSUME StackInv, NEW r \in StackRequests,
           \/ BeginDeploy(r) /\ stack.compose # BadYaml /\ ~NoneBusy
           \/ CreateNetworks(r) \/ CreateVolumes(r)
    PROVE  StackInv'
<1>1. StackTyped /\ Shape(r)
    BY DEF StackInv, Shapes
<1>2. /\ StackTyped' /\ OthersWait(r) /\ UNCHANGED <<container, ghosts>>
      /\ job[r].at \in {"idle", "networks", "volumes"}
      /\ job'[r].at \notin {"each", "create", "connect"}
    <2>1. CASE BeginDeploy(r) /\ stack.compose # BadYaml /\ ~NoneBusy
        BY <1>1, <2>1, BeginDeployIs DEF BeginDeploy, Busy, docker, FromRest
    <2>2. CASE CreateNetworks(r)
        BY <1>1, <2>2, CreateNetworksIs
    <2>3. CASE CreateVolumes(r)
        BY <1>1, <2>3, CreateVolumesIs
    <2> QED
        BY <2>1, <2>2, <2>3
<1>3. Shape(r)' /\ Evolves /\ Acts(r)' = <<>> /\ Acts(r) = <<>>
    BY <1>1, BeginDeployShape, CreateNetworksShape, CreateVolumesShape
<1>4. Leaving(r)' = {} /\ ~Finishing(r)
    <2>1. job'[r].retire = <<>>
        <3>1. BeginDeploy(r) /\ stack.compose # BadYaml /\ ~NoneBusy => job'[r].retire = <<>>
            BY <1>1, BeginDeployIs
        <3>2. CreateNetworks(r) => job'[r].retire = <<>>
            BY <1>1, CreateNetworksIs DEF Shape, NoActs
        <3> QED
            BY <1>1, <3>1, <3>2, CreateVolumesShape
    <2> QED
        BY <1>2, <2>1 DEF Leaving, ToSet, Finishing
<1>5. Present' = Present /\ Running' = Running
    BY <1>2, UnchangedContainers
<1>6. \A i \in DOMAIN Acts(r) : FALSE
    BY <1>3
<1> QED
    BY <1>2, <1>3, <1>4, <1>5, <1>6, QuietStep

\* The last steps of a request, and the end of a stop, a restart or a deletion.
LEMMA LastSteps ==
    ASSUME StackInv, NEW r \in StackRequests,
           SaveResources(r) \/ RemoveCreated(r) \/ EndEach(r)
    PROVE  StackInv'
<1>1. StackTyped /\ Shape(r)
    BY DEF StackInv, Shapes
<1>2. /\ StackTyped' /\ OthersWait(r) /\ UNCHANGED <<container, ghosts>>
      /\ job'[r].at \in {"idle", "save"} /\ job[r].at # "find"
    BY <1>1, SaveResourcesIs, RemoveCreatedIs, EndEachIs
<1>3. Shape(r)' /\ Evolves /\ Acts(r)' = <<>> /\ Acts(r) = <<>>
    BY <1>1, AsideShape
<1>4. Leaving(r)' = {} /\ ~Finishing(r) /\ ~Finishing(r)' /\ ~Working(r)'
    BY <1>2 DEF Leaving, Finishing, Working, OnService
<1>5. Present' = Present /\ Running' = Running
    BY <1>2, UnchangedContainers
<1> QED
    BY <1>2, <1>3, <1>4, <1>5, QuietStep

\* A request that gives up, or whose new container starts or is found healthy.
LEMMA StartSteps ==
    ASSUME StackInv, NEW r \in StackRequests, StartService(r) \/ ProbeHealth(r)
    PROVE  StackInv'
<1>1. StackTyped /\ Shape(r)
    BY DEF StackInv, Shapes
<1>2. /\ StackTyped' /\ OthersWait(r) /\ UNCHANGED ghosts /\ job[r].at \in {"start", "probe"}
      /\ job'[r].at \in {"probe", "retire", "rollback"}
    BY <1>1, StartServiceIs, ProbeHealthIs
<1>3. Shape(r)' /\ Evolves /\ Acts(r)' = Acts(r)
    BY <1>1, StartServiceShape
<1>4. Leaving(r)' = {} /\ ~Finishing(r) /\ ~Finishing(r)'
    BY <1>2 DEF Leaving, Finishing
<1>5. /\ Present' = Present /\ Running \subseteq Running'
      /\ \/ job[r].at = "probe" \/ job'[r].at = "rollback"
         \/ New(r) \in Running'
    <2>1. CASE UNCHANGED container /\ (job[r].at = "probe" \/ job'[r].at = "rollback")
        BY <2>1, UnchangedContainers
    <2>2. CASE /\ New(r) \in Present /\ container'[New(r)].state = "running"
               /\ \A b \in Numbers : b # New(r) => container'[b] = container[b]
        <3>1. PICK c \in Present : c = New(r)
            BY <2>2
        <3> QED
            BY <2>2, <3>1 DEF Present, Running
    <2> QED
        BY <1>1, <2>1, <2>2, StartServiceIs, ProbeHealthIs
<1>6. ASSUME ~collided, Working(r)', NEW i \in DOMAIN Acts(r)
      PROVE  Acts(r)[i].new \in Running'
    <2>1. Acts(r)[i].new \in Running \/ (job[r].at = "start" /\ i = Len(Acts(r)))
        BY <1>2, <1>6 DEF StackInv, Undisturbed, NewsRun, Working, OnService
    <2>2. job'[r].at # "rollback"
        BY <1>6 DEF Working, OnService
    <2>3. New(r) = Acts(r)[Len(Acts(r))].new
        BY <1>2 DEF New, Last, Acts, Deploys, StackAt
    <2> QED
        BY <1>5, <2>1, <2>2, <2>3
<1> QED
    BY <1>2, <1>3, <1>4, <1>5, <1>6, QuietStep

\* The container found is settled: nobody else is half done, and r has made
\* none of that service.  If it is somebody's witness, it runs.
LEMMA FindStep ==
    ASSUME StackInv, NEW r \in StackRequests, FindOldContainer(r)
    PROVE  StackInv'
<1>1. StackTyped /\ Shapes /\ Shape(r) /\ NewsDiffer /\ Accounted
    BY DEF StackInv, Shapes
<1>2. /\ StackTyped' /\ OthersWait(r) /\ job[r].at = "find" /\ job[r].todo # <<>>
      /\ job'[r].at = "create" /\ job'[r].old \in Of(Head(job[r].todo)) \cup {None}
      /\ job'[r].oldUp = (job'[r].old # None /\ job'[r].old \in Running)
      /\ collided' = (collided \/ HalfDone \ {r} # {})
      /\ UNCHANGED <<container, unreturned, placed, serving>>
    BY <1>1, FindOldContainerIs
<1>3. Shape(r)' /\ Evolves /\ Acts(r)' = Acts(r)
    BY <1>1, FindOldContainerShape
<1>4. Present' = Present /\ Running' = Running
    BY <1>2, UnchangedContainers
<1>5. Shapes' /\ NewsDiffer' /\ Accounted'
    BY <1>1, <1>2, <1>3, <1>4, ShapesStay, NewsStay DEF Held
<1>6. ASSUME ~collided' PROVE Undisturbed'
    <2>1. ~collided /\ HalfDone \ {r} = {}
        BY <1>2, <1>6
    <2>2. OldsAreSettled /\ NewsRun /\ EachAlone /\ Serves
        BY <2>1 DEF StackInv, Undisturbed
    <2>3. \A q \in StackRequests : q # r => Acts(q) = <<>> /\ job[q].at \notin {"each", "connect"}
        <3> SUFFICES ASSUME NEW q \in StackRequests, q # r
                     PROVE  Acts(q) = <<>> /\ job[q].at \notin {"each", "connect"}
            OBVIOUS
        <3>1. ~ (Busy(q) /\ (job[q].at \in {"each", "connect"} \/ job[q].acts # <<>>))
            BY <2>1 DEF HalfDone
        <3>2. job[q].at \notin {"each", "connect"}
            BY <3>1 DEF Busy
        <3>3. Deploys(q) => job[q].acts = <<>>
            BY <3>1 DEF Busy, Deploys, StackAt
        <3> QED
            BY <3>2, <3>3 DEF Acts
    <2>4. \A q \in StackRequests : q # r =>
             /\ Olds(q)' = Olds(q) /\ Sought(q)' = Sought(q) /\ MadeBy(q)' = MadeBy(q)
             /\ Working(q)' = Working(q) /\ Acts(q)' = Acts(q) /\ job'[q] = job[q]
        BY <1>2, WaitingIs DEF OthersWait
    <2>5. Olds(r)' = Olds(r) /\ MadeBy(r)' = MadeBy(r)
        BY <1>3, SameActs
    <2> DEFINE s == Head(job[r].todo)
               old == job'[r].old
    <2>6. s \notin Done(r)
        <3>1. job[r].todo \in Seq(Services) /\ InOrder(job[r].todo, job[r].compose, Done(r))
            BY <1>1, <1>2 DEF Shape, Ordered, Working, OnService, Rest
        <3> QED
            BY ZenonT(60), <1>2, <3>1, OrderGoesOn
    <2>7. ASSUME old # None
          PROVE  old \in Numbers /\ old \in Present /\ Svc(old) = s /\ old \notin MadeBy(r)
                 /\ old \notin Olds(r)
        <3>1. old \in Numbers /\ old \in Present /\ Svc(old) = s
            BY <1>2, <2>7 DEF Of, Present, Svc
        <3>2. old \notin MadeBy(r)
            BY <2>6, <3>1 DEF MadeBy, Done
        <3>3. old \notin Olds(r)
            BY <1>1, <2>6, <3>1 DEF Olds, Done, Shape, ActsMatch
        <3> QED
            BY <3>1, <3>2, <3>3
    <2>8. OldsAreSettled'
        <3>1. Sought(r)' = {old} \ {None}
            BY <1>2 DEF Sought
        <3>2. \A q \in StackRequests : q # r => MadeBy(q)' = {}
            BY <2>3, <2>4 DEF MadeBy
        <3>3. \A q \in StackRequests : Olds(q)' = Olds(q) /\ MadeBy(q)' = MadeBy(q)
            BY <2>4, <2>5
        <3>a. \A q \in StackRequests : Held(q)' = {}
            BY <1>2, <2>3, <2>4 DEF Held
        <3>4. ASSUME NEW p \in StackRequests, NEW q \in StackRequests
              PROVE  Sought(p)' \cap MadeBy(q)' = {}
            <4>1. CASE p = r /\ q = r
                BY <2>5, <2>7, <3>1, <4>1
            <4>2. CASE q # r
                BY <3>2, <4>2
            <4>3. CASE p # r
                BY <2>2, <2>4, <3>3, <4>3 DEF OldsAreSettled
            <4> QED
                BY <4>1, <4>2, <4>3
        <3> QED
            BY <2>2, <3>3, <3>4, <3>a DEF OldsAreSettled
    <2>9. NewsRun'
        <3>1. Working(r)' /\ Working(r) /\ job[r].at # "start"
            BY <1>2 DEF Working, OnService
        <3>2. \A q \in StackRequests : Working(q)' => Working(q) /\ Acts(q)' = Acts(q)
            BY <1>3, <2>4, <3>1
        <3>3. \A q \in StackRequests : job[q].at = "start" => job'[q].at = "start"
            BY <2>4, <3>1
        <3> QED
            BY <1>4, <2>2, <3>2, <3>3 DEF NewsRun
    <2>10. EachAlone'
        BY <1>2, <2>3, <2>4 DEF EachAlone
    <2>11. Serves'
        <3> SUFFICES ASSUME NEW z \in serving PROVE \E c \in Numbers : Witness(c, z)'
            BY <1>2 DEF Serves
        <3>1. PICK c \in Numbers : Witness(c, z)
            BY <2>2 DEF Serves
        <3>2. ~Finishing(r) /\ ~Finishing(r)' /\ Leaving(r)' = {}
            BY <1>2 DEF Finishing, Leaving
        <3>3. c \in Settled'
            BY <1>2, <3>1, <3>2, SettledStays DEF Witness
        <3>4. c \notin Down(r)'
            <4>1. c \notin Down(r)
                BY <3>1 DEF Witness
            <4>2. ~ \E i \in DOMAIN Acts(r)' : Acts(r)'[i].old = c /\ ~Acts(r)'[i].wasRunning
                BY <1>3, <4>1 DEF Down
            <4>3. ASSUME old = c PROVE job'[r].oldUp
                <5>1. old # None
                    BY <4>3 DEF Numbers, None
                <5>2. \A q \in StackRequests : ~Restarts(q, c)
                    <6>1. \A q \in StackRequests : q # r => Olds(q) = {}
                        BY <2>3 DEF Olds
                    <6> QED
                        BY <2>7, <4>3, <5>1, <6>1 DEF Restarts
                <5>3. c \in Running
                    BY <3>1, <5>2 DEF Witness
                <5> QED
                    BY <1>2, <4>3, <5>1, <5>3
            <4> QED
                BY <4>2, <4>3 DEF Down
        <3>5. Restarts(r, c) => Restarts(r, c)'
            BY <2>5, <3>2 DEF Restarts
        <3>6. c \in Present'
            BY <1>4, <3>1 DEF Witness
        <3> QED
            BY <1>1, <1>2, <1>3, <1>4, <3>1, <3>2, <3>3, <3>4, <3>5, <3>6, WitnessStays
    <2> QED
        BY <2>8, <2>9, <2>10, <2>11 DEF Undisturbed
<1> QED
    BY <1>2, <1>5, <1>6 DEF StackInv

\* The new container is nobody's old one, and runs for nobody yet.
LEMMA CreateStep ==
    ASSUME StackInv, NEW r \in StackRequests, CreateService(r)
    PROVE  StackInv'
<1>1. StackTyped /\ Shapes /\ Shape(r) /\ NewsDiffer /\ Accounted
    BY DEF StackInv, Shapes
<1>2. /\ StackTyped' /\ OthersWait(r) /\ job[r].at = "create"
      /\ UNCHANGED <<placed, serving, collided>>
      /\ Shape(r)' /\ Evolves /\ Acts(r)' = Acts(r) /\ ~Finishing(r)
    BY <1>1, CreateServiceIs, CreateServiceShape DEF Finishing
<1>3. CASE job'[r].at = "rollback" /\ UNCHANGED <<container, unreturned>>
    <2>1. Leaving(r)' = {} /\ ~Working(r)' /\ ~Finishing(r)'
        BY <1>3 DEF Leaving, Working, OnService, Finishing
    <2>2. Present' = Present /\ Running' = Running /\ UNCHANGED ghosts
        BY <1>2, <1>3, UnchangedContainers DEF ghosts
    <2> QED
        BY <1>2, <1>3, <2>1, <2>2, QuietStep
<1>4. ASSUME NEW c \in Numbers, container[c].state = "none", container'[c].state = "created",
             \A b \in Numbers : b # c => container'[b] = container[b],
             job'[r].at = "connect", job'[r].made = c, unreturned' = unreturned \cup {c},
             job'[r].old = job[r].old, job'[r].oldUp = job[r].oldUp
      PROVE  StackInv'
    <2>1. Held(r)' = {c}
        BY <1>4 DEF Held
    <2>2. NewsDiffer' /\ Accounted'
        BY <1>1, <1>2, <1>4, <2>1, NewsAfterCreate
    <2>3. Shapes'
        BY <1>1, <1>2, ShapesStay
    <2>4. ASSUME ~collided PROVE Undisturbed'
        <3>1. OldsAreSettled /\ NewsRun /\ EachAlone /\ Serves
            BY <2>4 DEF StackInv, Undisturbed
        <3>2. \A q \in StackRequests : q # r =>
                 /\ Olds(q)' = Olds(q) /\ Sought(q)' = Sought(q) /\ MadeBy(q)' = MadeBy(q)
                 /\ Held(q)' = Held(q)
                 /\ Working(q)' = Working(q) /\ Acts(q)' = Acts(q) /\ job'[q] = job[q]
            BY <1>2, WaitingIs DEF OthersWait
        <3>3. /\ Olds(r)' = Olds(r) /\ MadeBy(r)' = MadeBy(r) /\ Sought(r)' = Sought(r)
              /\ Down(r)' = Down(r) /\ Leaving(r)' = {} /\ ~Finishing(r)'
            BY <1>2, <1>4, SameActs DEF Sought, Down, Leaving, Finishing
        <3>4. \A q \in StackRequests : c \notin Olds(q) /\ c \notin Sought(q)
            <4> SUFFICES ASSUME NEW q \in StackRequests
                         PROVE  c \notin Olds(q) /\ c \notin Sought(q)
                OBVIOUS
            <4>1. Shape(q)
                BY <1>1 DEF Shapes
            <4>2. c \notin Olds(q)
                BY <1>4, <4>1 DEF Olds, Shape, ActsMatch, Stands
            <4>3. c \notin Sought(q)
                BY <1>4, <4>1 DEF Sought, Shape, OldMatches, OnService, Stands
            <4> QED
                BY <4>2, <4>3
        <3>5. OldsAreSettled'
            <4>1. \A q \in StackRequests :
                     /\ Olds(q)' \cup Sought(q)' = Olds(q) \cup Sought(q)
                     /\ MadeBy(q)' \cup Held(q)' \subseteq (MadeBy(q) \cup Held(q)) \cup {c}
                BY <2>1, <3>2, <3>3
            <4> QED
                BY <3>1, <3>4, <4>1 DEF OldsAreSettled
        <3>6. Running' = Running /\ Present \subseteq Present'
            BY <1>4 DEF Running, Present
        <3>7. NewsRun'
            <4>1. Working(r) /\ job[r].at # "start"
                BY <1>2 DEF Working, OnService
            <4>2. \A q \in StackRequests : Working(q)' => Working(q) /\ Acts(q)' = Acts(q)
                BY <1>2, <3>2, <4>1
            <4>3. \A q \in StackRequests : job[q].at = "start" => job'[q].at = "start"
                BY <3>2, <4>1
            <4> QED
                BY <3>1, <3>6, <4>2, <4>3 DEF NewsRun
        <3>8. EachAlone'
            <4>1. \A q \in StackRequests : job[q].at # "each"
                BY <1>2, <3>1 DEF EachAlone
            <4> QED
                BY <1>4, <3>2, <4>1 DEF EachAlone
        <3>9. Settled \subseteq Settled'
            BY <1>2, SettledStays
        <3>10. Serves'
            BY <1>1, <1>2, <3>1, <3>3, <3>6, <3>9, ServesStays
        <3> QED
            BY <3>5, <3>7, <3>8, <3>10 DEF Undisturbed
    <2> QED
        BY <1>2, <2>2, <2>3, <2>4 DEF StackInv
<1> QED
    BY <1>1, <1>3, <1>4, CreateServiceIs

\* What r gives up knowing of is no witness: it is neither settled nor of an act.
LEMMA ConnectFails ==
    ASSUME StackInv, NEW r \in StackRequests, ConnectService(r), job'[r].at = "rollback"
    PROVE  StackInv'
<1>1. StackTyped /\ Shapes /\ Shape(r) /\ NewsDiffer /\ Accounted
    BY DEF StackInv, Shapes
<1> DEFINE c == job[r].made
<1>2. /\ StackTyped' /\ OthersWait(r) /\ job[r].at = "connect"
      /\ UNCHANGED <<unreturned, placed, serving, collided>>
      /\ \/ UNCHANGED container
         \/ c \in Present /\ container'[c].state = "gone"
            /\ \A b \in Numbers : b # c => container'[b] = container[b]
    BY <1>1, ConnectServiceIs
<1>3. Shape(r)' /\ Evolves /\ Acts(r)' = Acts(r)
    BY <1>1, ConnectServiceShape
<1>4. Present' \subseteq Present /\ Present \ {c} \subseteq Present' /\ Running \ {c} \subseteq Running'
    BY <1>2 DEF Present, Running
<1>5. Held(r) = {c} /\ Held(r)' = {}
    BY <1>2 DEF Held
<1>6. Shapes' /\ NewsDiffer' /\ Accounted'
    BY <1>1, <1>2, <1>3, <1>4, <1>5, ShapesStay, NewsStay
<1>7. c \notin Settled /\ \A q \in StackRequests : c \notin MadeBy(q)
    BY <1>1, <1>5 DEF NewsDiffer, Settled
<1> HIDE DEF c
<1>8. ASSUME ~collided PROVE Undisturbed'
    <2>1. OldsAreSettled /\ NewsRun /\ EachAlone /\ Serves
        BY <1>8 DEF StackInv, Undisturbed
    <2>2. \A q \in StackRequests : q # r =>
             /\ Olds(q)' = Olds(q) /\ Sought(q)' = Sought(q) /\ MadeBy(q)' = MadeBy(q)
             /\ Held(q)' = Held(q)
             /\ Working(q)' = Working(q) /\ Acts(q)' = Acts(q) /\ job'[q] = job[q]
        BY <1>2, WaitingIs DEF OthersWait
    <2>3. /\ Olds(r)' = Olds(r) /\ MadeBy(r)' = MadeBy(r) /\ Sought(r)' = {}
          /\ Down(r)' \subseteq Down(r) /\ Leaving(r)' = {} /\ ~Finishing(r)' /\ ~Working(r)'
          /\ ~Finishing(r)
        BY <1>2, <1>3, SameActs DEF Sought, Down, Leaving, Finishing, Working, OnService
    <2>4. OldsAreSettled'
        <3>1. \A q \in StackRequests :
                 /\ Olds(q)' \cup Sought(q)' \subseteq Olds(q) \cup Sought(q)
                 /\ MadeBy(q)' \cup Held(q)' \subseteq MadeBy(q) \cup Held(q)
            BY <1>5, <2>2, <2>3
        <3> QED
            BY <2>1, <3>1 DEF OldsAreSettled
    <2>5. NewsRun'
        <3>1. \A q \in StackRequests : Working(q)' => Working(q) /\ Acts(q)' = Acts(q) /\ job'[q] = job[q]
            BY <2>2, <2>3
        <3>2. \A q \in StackRequests : \A i \in DOMAIN Acts(q) : Acts(q)[i].new # c
            BY <1>7 DEF MadeBy
        <3> QED
            BY <1>4, <2>1, <3>1, <3>2 DEF NewsRun
    <2>6. EachAlone'
        <3>1. \A q \in StackRequests : job[q].at # "each"
            BY <1>2, <2>1 DEF EachAlone
        <3> QED
            BY <2>2, <3>1 DEF EachAlone
    <2>7. Settled \subseteq Settled'
        BY <1>2, <2>3, SettledStays
    <2>8. Serves'
        <3> SUFFICES ASSUME NEW s \in serving PROVE \E w \in Numbers : Witness(w, s)'
            BY <1>2 DEF Serves
        <3>1. PICK w \in Numbers : Witness(w, s)
            BY <2>1 DEF Serves
        <3>2. w # c /\ w \in Settled' /\ w \in Present' /\ w \notin Leaving(r)' /\ w \notin Down(r)'
            BY <1>4, <1>7, <2>3, <2>7, <3>1 DEF Witness
        <3>3. w \in Running \/ Restarts(r, w) => w \in Running' \/ Restarts(r, w)'
            BY <1>4, <2>3, <3>2 DEF Restarts
        <3> QED
            BY <1>1, <1>2, <1>3, <3>1, <3>2, <3>3, WitnessStays
    <2> QED
        BY <2>4, <2>5, <2>6, <2>8 DEF Undisturbed
<1> QED
    BY <1>2, <1>6, <1>8 DEF StackInv

LEMMA ConnectSucceeds ==
    ASSUME StackInv, NEW r \in StackRequests, ConnectService(r), job'[r].at = "start"
    PROVE  StackInv'
<1>1. StackTyped /\ Shapes /\ Shape(r) /\ NewsDiffer /\ Accounted
    BY DEF StackInv, Shapes
<1> DEFINE c == job[r].made
           n == Len(Acts(r))
<1>2. /\ StackTyped' /\ OthersWait(r) /\ job[r].at = "connect" /\ c \in Numbers
      /\ UNCHANGED <<container, placed, serving, collided>>
      /\ unreturned' = unreturned \ {c}
    BY <1>1, ConnectServiceIs DEF Present
<1>3. /\ Shape(r)' /\ Evolves /\ Acts(r)' = Append(Acts(r), NewAct(r)) /\ ~Finishing(r)
      /\ Present' = Present /\ Running' = Running
    BY <1>1, <1>2, ConnectServiceShape, UnchangedContainers DEF Finishing
<1>4. Held(r) = {c} /\ Held(r)' = {}
    BY <1>2 DEF Held
<1>5. /\ NewAct(r).new = c /\ NewAct(r).old = job[r].old /\ NewAct(r).wasRunning = job[r].oldUp
    BY DEF NewAct
<1> HIDE DEF c
<1>6. NewsDiffer' /\ Accounted' /\ MadeBy(r)' = MadeBy(r) \cup {c}
    BY <1>1, <1>2, <1>3, <1>4, <1>5, NewsAfterConnect
<1>7. Shapes'
    BY <1>1, <1>2, <1>3, ShapesStay
<1>8. ASSUME ~collided PROVE Undisturbed'
    <2>1. OldsAreSettled /\ NewsRun /\ EachAlone /\ Serves
        BY <1>8 DEF StackInv, Undisturbed
    <2>2. /\ DOMAIN Acts(r) = 1 .. n /\ n \in Nat
          /\ DOMAIN Acts(r)' = 1 .. n + 1 /\ Len(Acts(r)') = n + 1
          /\ \A i \in 1 .. n : i \in 1 .. n + 1 /\ Acts(r)'[i] = Acts(r)[i]
          /\ n + 1 \in 1 .. n + 1 /\ Acts(r)'[n + 1] = NewAct(r)
        BY <1>1, <1>3, ActsAre, AppendProperties
    <2> HIDE DEF n
    <2>3. \A i \in 1 .. (n + 1) : i \in 1 .. n \/ i = n + 1
        BY <2>2
    <2>4. \A q \in StackRequests : q # r =>
             /\ Olds(q)' = Olds(q) /\ Sought(q)' = Sought(q) /\ MadeBy(q)' = MadeBy(q)
             /\ Held(q)' = Held(q)
             /\ Working(q)' = Working(q) /\ Acts(q)' = Acts(q) /\ job'[q] = job[q]
        BY <1>2, WaitingIs DEF OthersWait
    <2>5. Olds(r)' = Olds(r) \cup Sought(r) /\ Sought(r)' = {}
        <3>1. {Acts(r)'[i].old : i \in 1 .. n + 1} = {Acts(r)[i].old : i \in 1 .. n} \cup {job[r].old}
            BY <1>5, <2>2, <2>3
        <3> QED
            BY <1>2, <2>2, <3>1 DEF Olds, Sought
    <2>6. OldsAreSettled'
        <3>1. \A q \in StackRequests :
                 /\ Olds(q)' \cup Sought(q)' = Olds(q) \cup Sought(q)
                 /\ MadeBy(q)' \cup Held(q)' \subseteq MadeBy(q) \cup Held(q)
            BY <1>4, <1>6, <2>4, <2>5
        <3> QED
            BY <2>1, <3>1 DEF OldsAreSettled
    <2>7. NewsRun'
        <3> SUFFICES ASSUME NEW q \in StackRequests, Working(q)', NEW i \in DOMAIN Acts(q)'
                     PROVE  \/ Acts(q)'[i].new \in Running'
                            \/ job'[q].at = "start" /\ i = Len(Acts(q)')
            BY DEF NewsRun
        <3>1. CASE q # r
            BY <1>3, <2>1, <2>4, <3>1 DEF NewsRun
        <3>2. CASE q = r /\ i \in 1 .. n
            <4>1. Working(r) /\ job[r].at # "start"
                BY <1>2 DEF Working, OnService
            <4> QED
                BY <1>3, <2>1, <2>2, <3>2, <4>1 DEF NewsRun
        <3>3. CASE q = r /\ i = n + 1
            BY <2>2, <3>3
        <3> QED
            BY <2>2, <2>3, <3>1, <3>2, <3>3
    <2>8. EachAlone'
        <3>1. \A q \in StackRequests : job[q].at # "each"
            BY <1>2, <2>1 DEF EachAlone
        <3> QED
            BY <2>4, <3>1 DEF EachAlone
    <2>9. ~Finishing(r)' /\ Leaving(r)' = {}
        BY DEF Finishing, Leaving
    <2>10. Settled \subseteq Settled'
        BY <1>2, <1>3, SettledStays
    <2>11. Down(r)' \subseteq Down(r)
        <3> SUFFICES ASSUME NEW b \in Down(r)' PROVE b \in Down(r)
            OBVIOUS
        <3>1. PICK i \in 1 .. n + 1 : Acts(r)'[i].old = b /\ ~Acts(r)'[i].wasRunning
            BY <2>2 DEF Down
        <3>2. b \in Numbers
            BY DEF Down
        <3>3. CASE i \in 1 .. n
            BY <2>2, <3>1, <3>2, <3>3 DEF Down
        <3>4. CASE i = n + 1
            BY <1>2, <1>5, <2>2, <3>1, <3>2, <3>4 DEF Down
        <3> QED
            BY <2>3, <3>3, <3>4
    <2>12. Serves'
        <3>1. serving' \subseteq serving /\ Olds(r) \subseteq Olds(r)'
            BY <1>2, <2>5
        <3> QED
            BY <1>1, <1>2, <1>3, <2>1, <2>9, <2>10, <2>11, <3>1, ServesStays
    <2> QED
        BY <2>6, <2>7, <2>8, <2>12 DEF Undisturbed
<1> QED
    BY <1>2, <1>6, <1>7, <1>8 DEF StackInv

LEMMA ConnectStep ==
    ASSUME StackInv, NEW r \in StackRequests, ConnectService(r)
    PROVE  StackInv'
<1>1. StackTyped
    BY DEF StackInv
<1> QED
    BY <1>1, ConnectServiceIs, ConnectFails, ConnectSucceeds

\* Nobody replaces, or is about to remove, a new container.
LEMMA NewsAreFree ==
    ASSUME StackTyped, Shapes, OldsAreSettled, NEW r \in StackRequests, NEW w \in MadeBy(r)
    PROVE  /\ w \in Numbers
           /\ \A q \in StackRequests : w \notin Leaving(q) /\ w \notin Down(q) /\ w \notin Olds(q)
<1>1. w \in Numbers /\ w # None
    BY ActsAre DEF MadeBy
<1> SUFFICES ASSUME NEW q \in StackRequests
             PROVE  w \notin Leaving(q) /\ w \notin Down(q) /\ w \notin Olds(q)
    BY <1>1
<1>2. w \notin Olds(q) /\ w \notin Sought(q)
    BY DEF OldsAreSettled
<1>3. w \notin Down(q)
    BY <1>1, <1>2 DEF Down, Olds, Sought
<1>4. w \notin Leaving(q)
    <2>1. Finishing(q) => Working(q) /\ Shape(q)
        BY DEF Finishing, Working, OnService, Shapes
    <2> QED
        BY <1>1, <1>2, <2>1 DEF Leaving, ToSet, Olds, Shape, Retires
<1> QED
    BY <1>2, <1>3, <1>4

\* The old container is stopped when the new one has taken over.  With the last
\* service the new containers become the witnesses.
LEMMA StopStep ==
    ASSUME StackInv, NEW r \in StackRequests, StopOldContainer(r)
    PROVE  StackInv'
<1>1. StackTyped /\ Shapes /\ Shape(r) /\ NewsDiffer /\ Accounted
    BY DEF StackInv, Shapes
<1> DEFINE old == job[r].old
<1>2. /\ StackTyped' /\ OthersWait(r) /\ job[r].at = "retire" /\ UNCHANGED ghosts
      /\ job'[r].at = "find"
      /\ \/ UNCHANGED container
         \/ /\ old \in Numbers /\ container[old].state = "running"
            /\ container'[old].state = "exited"
            /\ \A b \in Numbers : b # old => container'[b] = container[b]
    BY <1>1, StopOldContainerIs
<1>3. Shape(r)' /\ Evolves /\ Acts(r)' = Acts(r)
    BY <1>1, StopOldContainerShape
<1>4. Present' = Present /\ Running \ {old} \subseteq Running' /\ Running' \subseteq Running
    BY <1>2 DEF Present, Running
<1>5. Shapes' /\ NewsDiffer' /\ Accounted'
    BY <1>1, <1>2, <1>3, <1>4, ShapesStay, NewsStay DEF ghosts, Held
<1>6. ASSUME ~collided PROVE Undisturbed'
    <2>1. OldsAreSettled /\ NewsRun /\ EachAlone /\ Serves
        BY <1>6 DEF StackInv, Undisturbed
    <2>2. \A q \in StackRequests : q # r =>
             /\ Olds(q)' = Olds(q) /\ Sought(q)' = Sought(q) /\ MadeBy(q)' = MadeBy(q)
             /\ Working(q)' = Working(q) /\ Acts(q)' = Acts(q) /\ job'[q] = job[q]
             /\ Leaving(q)' = Leaving(q) /\ Down(q)' = Down(q) /\ Held(q)' = Held(q)
        BY <1>2, WaitingIs DEF OthersWait
    <2>3. Olds(r)' = Olds(r) /\ MadeBy(r)' = MadeBy(r) /\ Sought(r)' = {} /\ Held(r)' = {}
        BY <1>2, <1>3, SameActs DEF Sought, Held
    <2>4. old = None \/ old \in Olds(r)
        <3>1. Acts(r) # <<>> /\ Last(Acts(r)).old = old
            BY <1>1, <1>2 DEF Shape, LastAct
        <3>2. Len(Acts(r)) \in DOMAIN Acts(r)
            BY <1>1, <3>1, ActsAre
        <3> QED
            BY <3>1, <3>2 DEF Olds, Last
    <2>5. Acts(r) # <<>>
        BY <1>1, <1>2 DEF Shape, LastAct
    <2>6. \A q \in StackRequests : \A w \in MadeBy(q) : w # old
        BY <1>1, <2>1, <2>4, NewsAreFree DEF Numbers, None
    <2>7. OldsAreSettled'
        BY <2>1, <2>2, <2>3 DEF OldsAreSettled
    <2>8. NewsRun'
        <3>1. \A q \in StackRequests : Working(q)' => Working(q) /\ Acts(q)' = Acts(q)
            BY <1>2, <1>3, <2>2 DEF Working, OnService
        <3>2. \A q \in StackRequests : job[q].at = "start" => job'[q].at = "start"
            BY <1>2, <2>2
        <3>3. \A q \in StackRequests : \A i \in DOMAIN Acts(q) : Acts(q)[i].new # old
            BY <2>6 DEF MadeBy
        <3> QED
            BY <1>4, <2>1, <3>1, <3>2, <3>3 DEF NewsRun
    <2>9. EachAlone'
        <3>1. \A q \in StackRequests : job[q].at # "each"
            BY <1>2, <2>1, <2>5 DEF EachAlone
        <3> QED
            BY <1>2, <2>2, <3>1 DEF EachAlone
    <2>10. Down(r)' \subseteq Down(r)
        BY <1>2, <1>3 DEF Down
    <2>11. Leaving(r)' \subseteq Olds(r) \cup {None} /\ (~Finishing(r)' => Leaving(r)' = {})
        <3>1. Retires(r)' /\ Working(r)'
            BY <1>2, <1>3 DEF Shape, Working, OnService
        <3>2. \A k \in DOMAIN job'[r].retire : job'[r].retire[k] \in Olds(r) \cup {None}
            BY <1>3, <3>1 DEF Retires, Olds
        <3> QED
            BY <3>2 DEF Leaving, ToSet
    <2>12. ~Finishing(r)
        BY <1>2 DEF Finishing
    <2>13. Settled \subseteq Settled'
        BY <1>2, <2>12, SettledStays DEF ghosts
    <2>14. Serves'
        <3> SUFFICES ASSUME NEW s \in serving PROVE \E c \in Numbers : Witness(c, s)'
            BY <1>2 DEF Serves, ghosts
        <3>1. PICK c \in Numbers : Witness(c, s)
            BY <2>1 DEF Serves
        <3>2. CASE Finishing(r)' /\ c \in Olds(r)
            <4>1. PICK i \in DOMAIN Acts(r) : Acts(r)[i].old = c
                BY <3>2 DEF Olds
            <4>2. PICK w \in Numbers : w = Acts(r)[i].new /\ w \in MadeBy(r)
                BY <1>1, <4>1, ActsAre DEF MadeBy
            <4>3. \A q \in StackRequests : w \notin Leaving(q) /\ w \notin Down(q) /\ w \notin Olds(q)
                BY <1>1, <2>1, <4>2, NewsAreFree
            <4>4. w \in Running'
                BY <1>2, <1>4, <2>1, <2>6, <4>2 DEF NewsRun, Working, OnService
            <4>5. w \in Present'
                BY <4>4 DEF Running, Present
            <4>6. Svc(w) = s /\ Stands(w)
                <5>1. Svc(c) = s /\ c # None
                    BY <3>1, <3>2 DEF Witness, Olds
                <5> QED
                    BY <1>1, <4>1, <4>2, <5>1 DEF Shape, ActsMatch
            <4>7. Svc(w)' = s
                BY <1>3, <4>2, <4>6 DEF Evolves, Svc, Stands
            <4>8. w \in Settled'
                BY <2>3, <3>2, <4>2 DEF Settled
            <4>9. \A q \in StackRequests : w \notin Leaving(q)' /\ w \notin Down(q)'
                BY <2>2, <2>10, <2>11, <4>2, <4>3 DEF Numbers, None
            <4> QED
                BY <4>2, <4>4, <4>5, <4>7, <4>8, <4>9 DEF Witness
        <3>3. CASE ~(Finishing(r)' /\ c \in Olds(r))
            <4>1. c \in Settled' /\ c \in Present' /\ c \notin Down(r)' /\ c # None
                BY <1>4, <2>10, <2>13, <3>1 DEF Witness, Numbers, None
            <4>2. c \notin Leaving(r)'
                BY <2>11, <3>3, <4>1
            <4>3. ASSUME c \in Running \/ Restarts(r, c) PROVE c \in Running' \/ Restarts(r, c)'
                <5>1. CASE c \in Olds(r)
                    BY <2>3, <3>3, <5>1 DEF Restarts
                <5>2. CASE c \notin Olds(r)
                    <6>1. c \in Running /\ c # old
                        BY <2>4, <4>1, <4>3, <5>2 DEF Restarts
                    <6> QED
                        BY <1>4, <6>1
                <5> QED
                    BY <5>1, <5>2
            <4> QED
                BY <1>1, <1>2, <1>3, <3>1, <4>1, <4>2, <4>3, WitnessStays
        <3> QED
            BY <3>2, <3>3
    <2> QED
        BY <2>7, <2>8, <2>9, <2>14 DEF Undisturbed
<1> QED
    BY <1>2, <1>5, <1>6 DEF StackInv, ghosts

\* The retired containers are removed one by one: none of them is a witness.
LEMMA RetireStep ==
    ASSUME StackInv, NEW r \in StackRequests, RemoveRetired(r), job'[r].at = "find"
    PROVE  StackInv'
<1>1. StackTyped /\ Shapes /\ Shape(r) /\ NewsDiffer /\ Accounted
    BY DEF StackInv, Shapes
<1> DEFINE x == Head(job[r].retire)
<1>2. /\ StackTyped' /\ OthersWait(r) /\ Finishing(r) /\ UNCHANGED ghosts
      /\ job[r].retire \in Seq(Numbers) /\ job[r].retire # <<>>
      /\ job'[r].todo = <<>> /\ job'[r].retire = Tail(job[r].retire)
      /\ \/ UNCHANGED container
         \/ /\ container'[x].state = "gone" /\ \A b \in Numbers : b # x => container'[b] = container[b]
    BY <1>1, RemoveRetiredIs DEF Listed
<1>3. Shape(r)' /\ Evolves /\ Acts(r)' = Acts(r)
    BY <1>1, RemoveRetiredShape
<1>4. x \in Leaving(r) /\ x \in Numbers /\ Leaving(r)' \subseteq Leaving(r) /\ Finishing(r)'
    <2>1. 1 \in DOMAIN job[r].retire /\ x = job[r].retire[1] /\ x \in Numbers
        BY <1>2, HeadTailProperties
    <2>2. \A k \in DOMAIN Tail(job[r].retire) :
             k + 1 \in DOMAIN job[r].retire /\ Tail(job[r].retire)[k] = job[r].retire[k + 1]
        BY <1>2, HeadTailProperties
    <2>3. ToSet(Tail(job[r].retire)) \subseteq ToSet(job[r].retire)
        BY <2>2 DEF ToSet
    <2>4. x \in ToSet(job[r].retire)
        BY <2>1 DEF ToSet
    <2>5. Finishing(r)'
        BY <1>2 DEF Finishing
    <2> QED
        BY <1>2, <2>1, <2>3, <2>4, <2>5 DEF Leaving
<1> HIDE DEF x
<1>5. Present' \subseteq Present /\ Present \ {x} \subseteq Present' /\ Running \ {x} \subseteq Running'
    BY <1>2, <1>4 DEF Present, Running
<1>6. Shapes' /\ NewsDiffer' /\ Accounted'
    BY <1>1, <1>2, <1>3, <1>5, ShapesStay, NewsStay DEF ghosts, Held, Finishing
<1>7. ASSUME ~collided PROVE Undisturbed'
    <2>1. OldsAreSettled /\ NewsRun /\ EachAlone /\ Serves
        BY <1>7 DEF StackInv, Undisturbed
    <2>2. \A q \in StackRequests : q # r =>
             /\ Olds(q)' = Olds(q) /\ Sought(q)' = Sought(q) /\ MadeBy(q)' = MadeBy(q)
             /\ Held(q)' = Held(q)
             /\ Working(q)' = Working(q) /\ Acts(q)' = Acts(q) /\ job'[q] = job[q]
        BY <1>2, WaitingIs DEF OthersWait
    <2>3. Olds(r)' = Olds(r) /\ MadeBy(r)' = MadeBy(r)
        BY <1>3, SameActs
    <2>4. job[r].at = "find" /\ job'[r].at = "find" /\ Sought(r)' = {} /\ Held(r)' = {}
        BY <1>2 DEF Finishing, Sought, Held
    <2>5. OldsAreSettled'
        BY <2>1, <2>2, <2>3, <2>4 DEF OldsAreSettled
    <2>6. NewsRun'
        <3>1. \A q \in StackRequests : \A i \in DOMAIN Acts(q) : Acts(q)[i].new # x
            BY <1>1, <1>4, <2>1, NewsAreFree DEF MadeBy
        <3>2. \A q \in StackRequests : Working(q)' => Working(q) /\ Acts(q)' = Acts(q)
            BY <1>3, <2>2, <2>4 DEF Working, OnService
        <3>3. \A q \in StackRequests : job[q].at = "start" => job'[q].at = "start"
            BY <2>2, <2>4
        <3> QED
            BY <1>5, <2>1, <3>1, <3>2, <3>3 DEF NewsRun
    <2>7. EachAlone'
        <3>1. \A q \in StackRequests : /\ Acts(q)' = Acts(q)
                                       /\ job'[q].at \in {"each", "create", "connect"} => job'[q] = job[q]
            BY <1>3, <2>2, <2>4
        <3> QED
            BY <1>2, <2>1, <3>1 DEF EachAlone, ghosts
    <2>8. Settled \subseteq Settled'
        BY <1>2, <1>4, <2>3, SettledStays DEF ghosts
    <2>9. Down(r)' \subseteq Down(r)
        BY <1>3, <2>4 DEF Down
    <2>10. serving' \subseteq serving
        BY <1>2 DEF ghosts
    <2>11. Present \ Leaving(r) \subseteq Present' /\ Running \ Leaving(r) \subseteq Running'
        BY <1>4, <1>5
    <2>12. Serves'
        BY <1>1, <1>2, <1>3, <1>4, <2>1, <2>8, <2>9, <2>10, <2>11, ServesStays
    <2> QED
        BY <2>5, <2>6, <2>7, <2>12 DEF Undisturbed
<1> QED
    BY <1>2, <1>6, <1>7 DEF StackInv, ghosts

\* A deploy that has worked puts its containers in place; each serves.
LEMMA PlaceStep ==
    ASSUME StackInv, NEW r \in StackRequests, RemoveRetired(r), job'[r].at # "find"
    PROVE  StackInv'
<1>1. StackTyped /\ Shapes /\ Shape(r) /\ NewsDiffer /\ Accounted
    BY DEF StackInv, Shapes
<1>2. /\ StackTyped' /\ OthersWait(r) /\ Finishing(r) /\ UNCHANGED <<container, unreturned, collided>>
      /\ placed' = placed \cup {a.new : a \in ToSet(job[r].acts)}
      /\ serving' = serving \cup DOMAIN job[r].compose
      /\ job'[r].at = "save" /\ job[r].at = "find"
    BY <1>1, RemoveRetiredIs DEF Finishing
<1>3. Shape(r)' /\ Evolves /\ Acts(r)' = <<>>
    BY <1>1, <1>2, RemoveRetiredShape
<1>4. Present' = Present /\ Running' = Running
    BY <1>2, UnchangedContainers
<1>5. placed' = placed \cup MadeBy(r)
    <2>1. Acts(r) = job[r].acts
        BY <1>2 DEF Acts, Deploys, StackAt
    <2>2. {a.new : a \in ToSet(job[r].acts)} = MadeBy(r)
        BY <2>1 DEF ToSet, MadeBy
    <2> QED
        BY <1>2, <2>2
<1>6. /\ MadeBy(r)' = {} /\ Olds(r)' = {} /\ Sought(r)' = {} /\ Down(r)' = {} /\ Leaving(r)' = {}
      /\ ~Finishing(r)' /\ ~Working(r)' /\ DOMAIN Acts(r)' = {} /\ Held(r)' = {}
    <2>1. DOMAIN Acts(r)' = {}
        BY <1>3
    <2> QED
        BY <1>2, <2>1 DEF MadeBy, Olds, Sought, Down, Leaving, Finishing, Held, Working, OnService
<1>7. Shapes' /\ NewsDiffer' /\ Accounted'
    BY <1>1, <1>2, <1>3, <1>4, <1>5, <1>6, ShapesStay, NewsAfterFewer
<1>8. DOMAIN job[r].compose = Done(r)
    <2>1. InOrder(<<>>, job[r].compose, Done(r))
        BY <1>1, <1>2 DEF Shape, Ordered, Working, OnService, Rest, Finishing
    <2> QED
        BY <2>1 DEF InOrder
<1>9. ASSUME ~collided PROVE Undisturbed'
    <2>1. OldsAreSettled /\ NewsRun /\ EachAlone /\ Serves
        BY <1>9 DEF StackInv, Undisturbed
    <2>2. \A q \in StackRequests : q # r =>
             /\ Olds(q)' = Olds(q) /\ Sought(q)' = Sought(q) /\ MadeBy(q)' = MadeBy(q)
             /\ Held(q)' = Held(q)
             /\ Working(q)' = Working(q) /\ Acts(q)' = Acts(q) /\ job'[q] = job[q]
             /\ Leaving(q)' = Leaving(q) /\ Down(q)' = Down(q)
        BY <1>2, WaitingIs DEF OthersWait
    <2>3. OldsAreSettled'
        BY <1>6, <2>1, <2>2 DEF OldsAreSettled
    <2>4. NewsRun'
        BY <1>4, <1>6, <2>1, <2>2 DEF NewsRun
    <2>5. EachAlone'
        <3> SUFFICES ASSUME NEW q \in StackRequests, job'[q].at = "each"
                     PROVE  /\ \A p \in StackRequests \ {q} :
                                  job'[p].at \notin {"each", "create", "connect"} /\ Acts(p)' = <<>>
                            /\ job'[q].op # "restart" => serving' = {}
            BY DEF EachAlone
        <3>1. q # r /\ job[q].at = "each" /\ job'[q] = job[q]
            BY <1>2, <2>2
        <3>2. Acts(r) = <<>>
            BY <2>1, <3>1 DEF EachAlone
        <3>3. Done(r) = {}
            BY <3>2 DEF Done
        <3>4. serving' = serving
            BY <1>2, <1>8, <3>3
        <3> QED
            BY <1>2, <1>3, <2>1, <2>2, <3>1, <3>4 DEF EachAlone
    <2>6. Settled \subseteq Settled'
        BY <1>2, <1>5, SettledStays
    <2>7. ASSUME NEW s \in serving PROVE \E c \in Numbers : Witness(c, s)'
        <3>1. PICK c \in Numbers : Witness(c, s)
            BY <2>1 DEF Serves
        <3>2. c \in Settled' /\ c \in Present' /\ (c \in Running => c \in Running') /\ ~Restarts(r, c)
            BY <1>2, <1>4, <2>6, <3>1 DEF Witness, Restarts
        <3> QED
            BY <1>1, <1>2, <1>3, <1>6, <3>1, <3>2, WitnessStays
    <2>8. ASSUME NEW s \in Done(r) PROVE \E c \in Numbers : Witness(c, s)'
        <3>1. PICK i \in DOMAIN Acts(r) : Svc(Acts(r)[i].new) = s
            BY <2>8 DEF Done
        <3>2. PICK w \in Numbers : w = Acts(r)[i].new /\ w \in MadeBy(r)
            BY <1>1, ActsAre DEF MadeBy
        <3>3. \A q \in StackRequests : w \notin Leaving(q) /\ w \notin Down(q)
            BY <1>1, <2>1, <3>2, NewsAreFree
        <3>4. w \in Running' /\ w \in Present'
            <4>1. w \in Running
                BY <1>2, <2>1, <3>2 DEF NewsRun, Working, OnService
            <4> QED
                BY <1>4, <4>1 DEF Running, Present
        <3>5. Svc(w)' = s
            BY <1>2, <3>1, <3>2 DEF Svc
        <3>6. w \in Settled'
            BY <1>5, <3>2 DEF Settled
        <3>7. \A q \in StackRequests : w \notin Leaving(q)' /\ w \notin Down(q)'
            BY <1>6, <2>2, <3>3
        <3> QED
            BY <3>4, <3>5, <3>6, <3>7 DEF Witness
    <2>9. Serves'
        BY <1>2, <1>8, <2>7, <2>8 DEF Serves
    <2> QED
        BY <2>3, <2>4, <2>5, <2>9 DEF Undisturbed
<1> QED
    BY <1>2, <1>7, <1>9 DEF StackInv

\* A rollback step: the new container goes and the old one, if it ran, runs again.
LEMMA UndoStep ==
    ASSUME StackInv, NEW r \in StackRequests, UndoService(r)
    PROVE  StackInv'
<1>1. StackTyped /\ Shapes /\ Shape(r) /\ NewsDiffer /\ Accounted
    BY DEF StackInv, Shapes
<1>2. /\ StackTyped' /\ OthersWait(r) /\ job[r].at = "rollback" /\ UNCHANGED ghosts
      /\ job'[r].at = "rollback" /\ Acts(r) = job[r].acts
    BY <1>1, UndoServiceIs DEF Acts, Deploys, StackAt
<1>3. Shape(r)' /\ Evolves /\ Acts(r) # <<>> /\ Acts(r)' = Front(Acts(r))
    BY <1>1, UndoServiceShape
<1> DEFINE n == Len(Acts(r))
<1>4. /\ Acts(r) \in Seq(Act) /\ DOMAIN Acts(r) = 1 .. n /\ n \in Nat /\ n \in 1 .. n
      /\ Last(Acts(r)) = Acts(r)[n]
    BY <1>1, <1>3, ActsAre DEF Last
<1>5. /\ DOMAIN Acts(r)' = 1 .. n - 1
      /\ \A i \in 1 .. n - 1 : i \in 1 .. n /\ Acts(r)'[i] = Acts(r)[i]
    BY <1>3, <1>4 DEF Front
<1> HIDE DEF n
<1>6. \A i \in 1 .. n : i \in 1 .. n - 1 \/ i = n
    BY <1>4
<1>7. PICK x \in Numbers : x = Acts(r)[n].new
    BY <1>1, <1>4, ActsAre
<1>8. PICK old \in Numbers \cup {None} : old = Acts(r)[n].old
    BY <1>1, <1>4, ActsAre
<1>9. PICK up \in BOOLEAN : up = Acts(r)[n].wasRunning
    BY <1>1, <1>4, ActsAre
<1>10. container' = [c \in Numbers |->
             IF c = x /\ c \in Present THEN [container[c] EXCEPT !.state = "gone"]
             ELSE IF c = old /\ up /\ c \in Present THEN [container[c] EXCEPT !.state = "running"]
             ELSE container[c]]
    BY <1>1, <1>2, <1>4, <1>7, <1>8, <1>9, UndoServiceIs
<1>11. \A c \in Numbers : /\ [container[c] EXCEPT !.state = "gone"].state = "gone"
                          /\ [container[c] EXCEPT !.state = "running"].state = "running"
    BY <1>1 DEF StackTyped, ContainerRow
<1>12. /\ Present' = Present \ {x} /\ Running \ {x} \subseteq Running'
       /\ old \in Present /\ up /\ old # x => old \in Running'
    <2>1. \A c \in Numbers : c # x =>
             /\ c \in Present <=> c \in Present'
             /\ c \in Running => c \in Running'
        BY <1>10, <1>11 DEF Present, Running
    <2>2. x \notin Present'
        BY <1>10, <1>11 DEF Present
    <2>3. old \in Present /\ up /\ old # x => old \in Running'
        BY <1>10, <1>11 DEF Present, Running
    <2>4. Present \subseteq Numbers /\ Present' \subseteq Numbers /\ Running \subseteq Numbers
        BY DEF Present, Running
    <2> QED
        BY <2>1, <2>2, <2>3, <2>4
<1>13. /\ MadeBy(r) = MadeBy(r)' \cup {x} /\ Olds(r)' \subseteq Olds(r)
       /\ Olds(r) \subseteq Olds(r)' \cup {old} /\ Down(r)' \subseteq Down(r)
       /\ Sought(r)' = {} /\ x \in MadeBy(r) /\ Held(r)' = {}
    <2>1. MadeBy(r) = MadeBy(r)' \cup {x}
        BY <1>4, <1>5, <1>6, <1>7 DEF MadeBy
    <2>2. Olds(r)' \subseteq Olds(r) /\ Olds(r) \subseteq Olds(r)' \cup {old}
        BY <1>4, <1>5, <1>6, <1>8 DEF Olds
    <2>3. Down(r)' \subseteq Down(r)
        BY <1>2, <1>4, <1>5 DEF Down
    <2> QED
        BY <1>2, <2>1, <2>2, <2>3 DEF Sought, Held
<1>14. Shapes' /\ NewsDiffer' /\ Accounted'
    <2>1. MadeBy(r)' \cap placed' = {}
        BY <1>1, <1>2, <1>13 DEF NewsDiffer, ghosts
    <2>2. Present' \cap MadeBy(r) \subseteq MadeBy(r)' \cup placed' /\ Present' \subseteq Present
        BY <1>12, <1>13
    <2>3. placed' = placed /\ unreturned' = unreturned /\ Held(r)' = {}
        BY <1>2 DEF ghosts, Held
    <2>4. Shapes'
        BY <1>1, <1>2, <1>3, ShapesStay
    <2> QED
        BY <1>1, <1>2, <1>3, <1>4, <1>5, <2>1, <2>2, <2>3, <2>4, NewsAfterFewer
<1>15. ASSUME ~collided PROVE Undisturbed'
    <2>1. OldsAreSettled /\ NewsRun /\ EachAlone /\ Serves
        BY <1>15 DEF StackInv, Undisturbed
    <2>2. \A q \in StackRequests : q # r =>
             /\ Olds(q)' = Olds(q) /\ Sought(q)' = Sought(q) /\ MadeBy(q)' = MadeBy(q)
             /\ Held(q)' = Held(q)
             /\ Working(q)' = Working(q) /\ Acts(q)' = Acts(q) /\ job'[q] = job[q]
             /\ Finishing(q)' = Finishing(q)
        BY <1>2, WaitingIs DEF OthersWait
    <2>3. ~Finishing(r) /\ ~Finishing(r)' /\ ~Working(r)' /\ Leaving(r)' = {}
        BY <1>2 DEF Finishing, Working, OnService, Leaving
    <2>4. OldsAreSettled'
        BY <1>13, <2>1, <2>2 DEF OldsAreSettled
    <2>5. \A q \in StackRequests : q # r => x \notin MadeBy(q)
        BY <1>1, <1>4, <1>7 DEF NewsDiffer, MadeBy
    <2>6. NewsRun'
        <3>1. \A q \in StackRequests : q # r => \A i \in DOMAIN Acts(q) : Acts(q)[i].new # x
            BY <2>5 DEF MadeBy
        <3> QED
            BY <1>12, <2>1, <2>2, <2>3, <3>1 DEF NewsRun
    <2>7. EachAlone'
        <3>1. \A q \in StackRequests : job[q].at # "each"
            BY <1>2, <1>3, <2>1 DEF EachAlone
        <3> QED
            BY <1>2, <2>2, <3>1 DEF EachAlone
    <2>8. x \notin Settled
        <3>1. x \notin placed
            BY <1>1, <1>13 DEF NewsDiffer
        <3> QED
            BY <2>3, <2>5, <3>1 DEF Settled
    <2>9. Settled \subseteq Settled'
        BY <1>2, <2>3, SettledStays DEF ghosts
    <2>10. Serves'
        <3> SUFFICES ASSUME NEW s \in serving PROVE \E c \in Numbers : Witness(c, s)'
            BY <1>2 DEF Serves, ghosts
        <3>1. PICK c \in Numbers : Witness(c, s)
            BY <2>1 DEF Serves
        <3>2. c # x /\ c \in Settled' /\ c \in Present' /\ c \notin Down(r)' /\ c \in Present
            BY <1>12, <1>13, <2>8, <2>9, <3>1 DEF Witness
        <3>3. c \in Running => c \in Running'
            BY <1>12, <3>2
        <3>4. ASSUME Restarts(r, c) PROVE c \in Running' \/ Restarts(r, c)'
            <4>1. CASE c = old
                <5>1. c \notin Down(r)
                    BY <3>1 DEF Witness
                <5>2. up
                    BY <1>4, <1>8, <1>9, <4>1, <5>1 DEF Down
                <5> QED
                    BY <1>12, <3>2, <4>1, <5>2
            <4>2. CASE c # old
                BY <1>13, <2>3, <3>4, <4>2 DEF Restarts
            <4> QED
                BY <4>1, <4>2
        <3> QED
            BY <1>1, <1>2, <1>3, <2>3, <3>1, <3>2, <3>3, <3>4, WitnessStays
    <2> QED
        BY <2>4, <2>6, <2>7, <2>10 DEF Undisturbed
<1> QED
    BY <1>2, <1>14, <1>15 DEF StackInv, ghosts

\* A stop, a restart or a deletion begins alone, or it is disturbed.
LEMMA BeginEachStep ==
    ASSUME StackInv, NEW r \in StackRequests, NEW op \in {"stop", "restart", "delete"},
           BeginEach(r, op)
    PROVE  StackInv'
<1>1. StackTyped /\ Shapes /\ Shape(r) /\ NewsDiffer /\ Accounted
    BY DEF StackInv, Shapes
<1>2. /\ StackTyped' /\ OthersWait(r) /\ job'[r].at = "each" /\ job'[r].op = op
      /\ op # "restart" => serving' = {}
      /\ NoneBusy => placed' = Present /\ serving' \subseteq ServicesUp /\ unreturned' = {}
      /\ ~NoneBusy => placed' = placed /\ unreturned' = unreturned
      /\ collided' = ~NoneBusy /\ UNCHANGED container
    BY <1>1, BeginEachIs
<1>3. Shape(r)' /\ Evolves /\ Acts(r)' = <<>> /\ Acts(r) = <<>>
    BY <1>1, AsideShape
<1>4. CASE NoneBusy
    BY <1>2, <1>3, <1>4, StartFromRest
<1>5. CASE ~NoneBusy
    <2>1. Present' = Present /\ collided'
        BY <1>2, <1>5, UnchangedContainers
    <2>2. Shapes' /\ NewsDiffer' /\ Accounted'
        BY <1>1, <1>2, <1>3, <1>5, <2>1, ShapesStay, NewsStay DEF Held
    <2> QED
        BY <1>2, <2>1, <2>2 DEF StackInv
<1> QED
    BY <1>4, <1>5

\* It takes the containers one at a time: only a restart serves meanwhile.
LEMMA EachContainerStep ==
    ASSUME StackInv, NEW r \in StackRequests, EachContainer(r)
    PROVE  StackInv'
<1>1. StackTyped /\ Shapes /\ Shape(r) /\ NewsDiffer /\ Accounted
    BY DEF StackInv, Shapes
<1>2. /\ StackTyped' /\ OthersWait(r) /\ job[r].at = "each" /\ job'[r].at = "each"
      /\ job'[r].op = job[r].op /\ UNCHANGED <<unreturned, placed, collided>>
    BY <1>1, EachContainerIs
<1>3. Shape(r)' /\ Evolves /\ Acts(r)' = <<>> /\ Acts(r) = <<>>
    BY <1>1, AsideShape
<1>4. /\ Present' \subseteq Present /\ serving' \subseteq serving
      /\ job[r].op = "restart" => Present \subseteq Present'
      /\ \A w \in Running :
            job[r].op = "restart" => w \in Running' \/ Svc(w) \notin serving'
    <2>1. CASE UNCHANGED <<container, serving>>
        BY <2>1, UnchangedContainers
    <2>2. ASSUME NEW c \in Present, \A b \in Numbers : b # c => container'[b] = container[b],
                 \/ /\ container'[c].state = "exited"
                    /\ serving' = serving \ {container[c].service}
                 \/ /\ UNCHANGED serving
                    /\ job[r].op = "restart" => container'[c].state = "running"
          PROVE  /\ Present' \subseteq Present /\ serving' \subseteq serving
                 /\ job[r].op = "restart" => Present \subseteq Present'
                 /\ \A w \in Running :
                       job[r].op = "restart" => w \in Running' \/ Svc(w) \notin serving'
        BY <2>2 DEF Present, Running, Svc
    <2> QED
        BY <1>1, <2>1, <2>2, EachContainerIs
<1>5. Shapes' /\ NewsDiffer' /\ Accounted'
    BY <1>1, <1>2, <1>3, <1>4, ShapesStay, NewsStay DEF Held
<1>6. ASSUME ~collided PROVE Undisturbed'
    <2>1. EachAlone /\ Serves
        BY <1>6 DEF StackInv, Undisturbed
    <2>2. \A q \in StackRequests : q # r => job'[q] = job[q] /\ Acts(q)' = Acts(q)
        BY <1>2, WaitingIs DEF OthersWait
    <2>3. \A q \in StackRequests : q # r => Acts(q) = <<>> /\ job[q].at \notin {"each", "create", "connect"}
        BY <1>2, <2>1 DEF EachAlone
    <2>4. \A q \in StackRequests : Acts(q)' = <<>> /\ job'[q].at \notin {"create", "connect"}
        BY <1>2, <1>3, <2>2, <2>3
    <2>5. \A q \in StackRequests : Olds(q)' = {} /\ Sought(q)' = {} /\ DOMAIN Acts(q)' = {}
        BY <2>4 DEF Olds, Sought
    <2>6. OldsAreSettled' /\ NewsRun'
        BY <2>5 DEF OldsAreSettled, NewsRun
    <2>7. EachAlone'
        BY <1>2, <1>4, <2>1, <2>2, <2>3, <2>4 DEF EachAlone
    <2>8. /\ ~Finishing(r) /\ ~Finishing(r)' /\ Leaving(r)' = {} /\ Down(r)' = {}
          /\ Olds(r) = {}
        BY <1>2, <1>3, <2>5 DEF Finishing, Leaving, Down, Olds
    <2>9. Settled \subseteq Settled'
        BY <1>2, <2>8, SettledStays
    <2>10. CASE job[r].op = "restart"
        <3> SUFFICES ASSUME NEW s \in serving' PROVE \E w \in Numbers : Witness(w, s)'
            BY <2>6, <2>7 DEF Undisturbed, Serves
        <3>1. PICK w \in Numbers : Witness(w, s)
            BY <1>4, <2>1 DEF Serves
        <3>2. w \in Settled' /\ w \in Present' /\ w \notin Leaving(r)' /\ w \notin Down(r)'
            BY <1>4, <2>8, <2>9, <2>10, <3>1 DEF Witness
        <3>3. w \in Running => w \in Running'
            BY <1>4, <2>10, <3>1 DEF Witness
        <3>4. ~Restarts(r, w)
            BY <2>8 DEF Restarts
        <3> QED
            BY <1>1, <1>2, <1>3, <3>1, <3>2, <3>3, <3>4, WitnessStays
    <2>11. CASE job[r].op # "restart"
        <3>1. serving' = {}
            BY <1>2, <1>4, <2>1, <2>11 DEF EachAlone
        <3> QED
            BY <2>6, <2>7, <3>1 DEF Undisturbed, Serves
    <2> QED
        BY <2>10, <2>11
<1> QED
    BY <1>2, <1>5, <1>6 DEF StackInv

\* The invariant is about the requests, the containers and the ghosts.
LEMMA RowsStep ==
    ASSUME StackInv, StackTyped', UNCHANGED <<job, container, ghosts>>
    PROVE  StackInv'
<1>1. StackTyped /\ Shapes /\ NewsDiffer /\ Accounted
    BY DEF StackInv
<1>2. Present' = Present /\ Running' = Running /\ Evolves
    BY UnchangedContainers
<1>3. \A q \in StackRequests :
         /\ Olds(q)' = Olds(q) /\ Sought(q)' = Sought(q) /\ MadeBy(q)' = MadeBy(q)
         /\ Working(q)' = Working(q) /\ Acts(q)' = Acts(q) /\ Finishing(q)' = Finishing(q)
         /\ Leaving(q)' = Leaving(q) /\ Down(q)' = Down(q) /\ Held(q)' = Held(q)
         /\ \A c : Restarts(q, c)' = Restarts(q, c)
    BY WaitingIs
<1>4. Shapes'
    BY <1>1, <1>2, ShapeStays DEF Shapes
<1>5. NewsDiffer' /\ Accounted'
    BY <1>1, <1>2, <1>3 DEF NewsDiffer, Accounted, Stands, ghosts
<1>6. ASSUME ~collided PROVE Undisturbed'
    <2>1. OldsAreSettled /\ NewsRun /\ EachAlone /\ Serves
        BY <1>6 DEF StackInv, Undisturbed
    <2>2. OldsAreSettled' /\ NewsRun'
        BY <1>2, <1>3, <2>1 DEF OldsAreSettled, NewsRun
    <2>3. EachAlone'
        BY <1>3, <2>1 DEF EachAlone, ghosts
    <2>4. Settled' = Settled
        BY <1>3 DEF Settled, ghosts
    <2>5. \A c \in Numbers : \A s : Witness(c, s) => Witness(c, s)'
        BY <1>2, <1>3, <2>4 DEF Witness, Svc
    <2>6. Serves'
        BY <2>1, <2>5 DEF Serves, ghosts
    <2> QED
        BY <2>2, <2>3, <2>6 DEF Undisturbed
<1> QED
    BY <1>4, <1>5, <1>6 DEF StackInv, ghosts

LEMMA StacksStart == StacksInit => StackInv
<1> SUFFICES ASSUME StacksInit PROVE StackInv
    OBVIOUS
<1>1. \A r \in StackRequests : job[r] = AtRest /\ job[r].at = "idle"
    BY DEF StacksInit, AtRest
<1>2. StackTyped
    <2>1. container \in [Numbers -> ContainerRow]
        BY DEF StacksInit, ContainerRow, ContainerStates
    <2>2. job \in [StackRequests -> StackJob]
        BY AtRestIs DEF StacksInit
    <2> QED
        BY <1>1, <2>1, <2>2 DEF StackTyped, StacksInit, OnService
<1>3. \A r \in StackRequests :
         Acts(r) = <<>> /\ DOMAIN Acts(r) = {} /\ MadeBy(r) = {} /\ Held(r) = {}
    BY <1>1 DEF Acts, Deploys, StackAt, MadeBy, Held
<1>4. \A r \in StackRequests : ~Working(r) /\ ~OnService(r) /\ job[r].at # "connect"
    BY <1>1 DEF Working, OnService
<1>5. Shapes
    BY <1>1, <1>3, <1>4 DEF Shapes, Shape, Ordered, ActsMatch, Depended, OldMatches, LastAct,
           MadeMatches, NoActs, Retires
<1>6. NewsDiffer
    BY <1>3 DEF NewsDiffer, StacksInit
<1>7. Accounted
    BY DEF Accounted, Present, StacksInit
<1>8. Undisturbed
    <2>1. OldsAreSettled
        BY <1>3 DEF OldsAreSettled
    <2>2. NewsRun /\ EachAlone /\ Serves
        BY <1>1, <1>4 DEF NewsRun, EachAlone, Serves, StacksInit
    <2> QED
        BY <2>1, <2>2 DEF Undisturbed
<1> QED
    BY <1>2, <1>5, <1>6, <1>7, <1>8 DEF StackInv

LEMMA StacksStep == StackInv /\ [StacksNext]_stackVars => StackInv'
<1> SUFFICES ASSUME StackInv, [StacksNext]_stackVars PROVE StackInv'
    OBVIOUS
<1>1. StackTyped
    BY DEF StackInv
<1>2. CASE AboutRows
    BY <1>1, <1>2, AboutRowsIs, RowsStep
<1>3. CASE UNCHANGED stackVars
    <2>1. StackTyped'
        BY <1>1, <1>3 DEF StackTyped, stackVars, OnService
    <2> QED
        BY <1>3, <2>1, RowsStep DEF stackVars, ghosts
<1>4. ASSUME NEW r \in StackRequests,
             \/ (BeginDeploy(r) /\ stack.compose # BadYaml)
             \/ CreateNetworks(r) \/ CreateVolumes(r)
             \/ FindOldContainer(r) \/ CreateService(r) \/ ConnectService(r)
             \/ StartService(r) \/ ProbeHealth(r) \/ StopOldContainer(r) \/ RemoveRetired(r)
             \/ SaveResources(r) \/ UndoService(r) \/ RemoveCreated(r)
             \/ \E op \in {"stop", "restart", "delete"} : BeginEach(r, op)
             \/ EachContainer(r) \/ EndEach(r)
      PROVE  StackInv'
    BY <1>4, FirstSteps, BeginDeployFromRest, LastSteps, StartSteps, FindStep, CreateStep,
       ConnectStep, StopStep, RetireStep, PlaceStep, UndoStep, BeginEachStep, EachContainerStep
<1> QED
    BY <1>2, <1>3, <1>4 DEF StacksNext, AboutRows

LEMMA StackInvHolds == StacksSpec => []StackInv
BY StacksStart, StacksStep, PTL DEF StacksSpec

LEMMA StackInvImplies == StackInv => StackDeployIsAllOrNothing
<1> SUFFICES ASSUME StackInv PROVE StackDeployIsAllOrNothing
    OBVIOUS
<1>1. StackTyped /\ Shapes /\ Accounted
    BY DEF StackInv
<1>2. ASSUME ~collided, NoneBusy
      PROVE  (\A s \in serving : Of(s) \cap Running # {}) /\ Present \subseteq placed \cup unreturned
    <2>1. \A r \in StackRequests : Acts(r) = <<>> /\ MadeBy(r) = {} /\ ~Finishing(r) /\ Olds(r) = {}
        BY <1>2 DEF NoneBusy, Busy, Acts, Deploys, StackAt, MadeBy, Finishing, Olds
    <2>2. Present \subseteq placed \cup unreturned
        BY <1>1, <2>1 DEF Accounted
    <2>3. ASSUME NEW s \in serving PROVE Of(s) \cap Running # {}
        <3>1. PICK c \in Numbers : Witness(c, s)
            BY <1>2 DEF StackInv, Undisturbed, Serves
        <3>2. c \in Running /\ c \in Of(s)
            BY <2>1, <3>1 DEF Witness, Restarts, Of, Svc
        <3> QED
            BY <3>2
    <2> QED
        BY <2>2, <2>3
<1>3. DependenciesComeFirst
    <2> SUFFICES ASSUME NEW r \in StackRequests, Busy(r), job[r].at # "each",
                        NEW i \in DOMAIN job[r].acts
                 PROVE  job[r].compose[container[job[r].acts[i].new].service]
                           \subseteq {container[job[r].acts[j].new].service : j \in 1 .. i - 1}
        BY DEF DependenciesComeFirst
    <2>1. Deploys(r)
        BY <1>1, JobIs DEF Busy
    <2>2. Acts(r) = job[r].acts
        BY <2>1 DEF Acts
    <2> QED
        BY SMTT(30), <1>1, <2>2 DEF Shapes, Shape, Depended, Svc
<1> QED
    BY <1>2, <1>3 DEF StackDeployIsAllOrNothing

\* However the requests about a stack interleave: a service is created after
\* those it depends on; and when requests that began with the stack at rest are
\* over and none met the half-done work of another, every service that was up is
\* up and no container of a deploy that failed is left but those of a Create that
\* failed between its two calls, whatever came before.
THEOREM StackDeployIsAllOrNothingHolds == StacksSpec => []StackDeployIsAllOrNothing
BY StackInvHolds, StackInvImplies, PTL
=============================================================================
