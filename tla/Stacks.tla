------------------------------- MODULE Stacks -------------------------------
(***************************************************************************)
(* One compose stack: its row in the store, the rows of the networks and   *)
(* volumes it owns, and the Docker objects DockerStackManager makes for    *)
(* it.  Every HTTP request about the stack runs in a goroutine of its own  *)
(* (a slot of StackRequests) and nothing excludes two of them, so each Docker   *)
(* call is a step.  A call made with the request's context may fail (the   *)
(* daemon refuses, or the client has left), and so may a write of the      *)
(* status; rollback calls use the background context and are assumed to be *)
(* answered.  The stack is of a project, so that a container is created in *)
(* one network and then connected to the project's.                        *)
(***************************************************************************)
EXTENDS Naturals, FiniteSets, Sequences, SequencesExt, FiniteSetsExt

CONSTANTS Services,      \* service names, as numbers in alphabetical order
          HealthChecked, \* the services whose compose entry has a health check
          Composes,      \* compose texts: functions from services to depends_on
          BadYaml,       \* a text that does not parse
          Networks,      \* networks of the stack
          Volumes,       \* named volumes of the stack
          StackRequests, \* request slots
          MaxContainers, \* bound: containers ever created
          MaxStackCalls, \* bound: requests ever made
          NoRow

ASSUME StacksAssumption ==
    /\ Services \subseteq Nat \ {0}
    /\ \A S \in {Services, Networks, Volumes} : IsFiniteSet(S)
    /\ Composes \subseteq UNION {[S -> SUBSET Services] : S \in SUBSET Services}
    /\ BadYaml \notin Composes
    /\ MaxContainers \in Nat /\ MaxStackCalls \in Nat

VARIABLES stack,      \* the row of `stacks`, or NoRow
          rows,       \* names with a row in managed_networks, managed_volumes
          networks,   \* networks that exist in Docker
          volumes,    \* volumes that exist in Docker
          container,  \* containers, by number: Docker lists the newest first
          job,        \* what each request is doing
          begun,      \* how many requests were made, for the bound
          unreturned, \* ghost: containers made since then whose ID Create has not returned
          placed,     \* ghost: containers there when all was at rest, or deployed since
          serving,    \* ghost: services up since then and not stopped on purpose
          collided    \* ghost: a request since then met the half-done work of another

stackVars == <<stack, rows, networks, volumes, container, job, begun,
               unreturned, placed, serving, collided>>
ghosts == <<unreturned, placed, serving, collided>>
docker == <<networks, volumes, container>>

Numbers == 1 .. MaxContainers
Present == {c \in Numbers : container[c].state \in {"created", "running", "exited"}}
Running == {c \in Numbers : container[c].state = "running"}
Of(s) == {c \in Present : container[c].service = s}
None == 0

AtRest == [at |-> "idle"]
Busy(r) == job[r].at # "idle"
NoneBusy == \A r \in StackRequests : ~Busy(r)
Goes(r, j) == job' = [job EXCEPT ![r] = j]
GoTo(r, where) == Goes(r, [job[r] EXCEPT !.at = where])
SetState(c, s) == container' = [container EXCEPT ![c].state = s]
Status(s) == [stack EXCEPT !.status = s]
\* A write of the row with the context of a request, which may be over.
MayWrite(row) == stack' = row \/ UNCHANGED stack
\* A stack deleted and created again under its name has another id.
RowRemains(r) == stack # NoRow /\ stack.id = job[r].id
Call == begun < MaxStackCalls /\ begun' = begun + 1

StacksInit ==
    /\ stack = NoRow /\ rows = {} /\ networks = {} /\ volumes = {}
    /\ container = [c \in Numbers |-> [service |-> None, state |-> "none"]]
    /\ job = [r \in StackRequests |-> AtRest] /\ begun = 0
    /\ unreturned = {} /\ placed = {} /\ serving = {} /\ collided = FALSE

-----------------------------------------------------------------------------
(* ResolveDeploymentOrder: Kahn's algorithm whose queue is kept sorted.     *)

Known(deps) == UNION {deps[s] : s \in DOMAIN deps} \subseteq DOMAIN deps

\* What is in the queue once the services in done have left it.
Ready(deps, done) == {s \in DOMAIN deps \ done : deps[s] \subseteq done}

\* The order in which all services leave the queue, the first of it each time.
\* There is none when some depend on each other.
ResolveDeploymentOrder(deps) ==
    {order \in [1 .. Cardinality(DOMAIN deps) -> DOMAIN deps] :
        /\ Known(deps)
        /\ \A i \in DOMAIN order :
              LET ready == Ready(deps, {order[j] : j \in 1 .. i - 1})
              IN  order[i] \in ready /\ \A s \in ready : order[i] <= s}

-----------------------------------------------------------------------------
(* The rows: CreateStack, UpdateStack, and what GetStack finds.             *)

CreateStack(text) ==
    /\ Call
    /\ stack = NoRow
    /\ stack' = [id |-> begun, compose |-> text, status |-> "stopped"]
    /\ UNCHANGED <<rows, docker, job, ghosts>>

\* UpdateStack writes back the status it read, which GetStack has replaced by
\* the live one when the stack has containers.
LiveStatus == IF Present = {} THEN stack.status
              ELSE IF Present \subseteq Running THEN "running" ELSE "degraded"

UpdateStack(text) ==
    /\ Call
    /\ stack # NoRow
    /\ stack' = [stack EXCEPT !.compose = text, !.status = LiveStatus]
    /\ UNCHANGED <<rows, docker, job, ghosts>>

-----------------------------------------------------------------------------
(* DeployStack, the controller's part: the status is written, the text is   *)
(* parsed, and the engine is given a copy of it.                            *)

\* The ghosts begin anew when a job begins and no other runs.
ServicesUp == {s \in Services : Of(s) \cap Running # {}}
FromRest ==
    IF NoneBusy THEN /\ unreturned' = {} /\ placed' = Present
                     /\ serving' = ServicesUp /\ collided' = FALSE
                ELSE UNCHANGED ghosts

BeginDeploy(r) ==
    /\ Call
    /\ ~Busy(r) /\ stack # NoRow
    /\ IF stack.compose = BadYaml
         THEN stack' \in {Status("failed"), Status("deploying")} /\ UNCHANGED <<job, ghosts>>
         ELSE /\ stack' = Status("deploying") /\ FromRest
              /\ Goes(r, [at |-> "networks", id |-> stack.id, compose |-> stack.compose,
                            todo |-> SetToSeq(Networks), nets |-> {}, vols |-> {},
                            acts |-> <<>>, retire |-> <<>>, made |-> None,
                            old |-> None, oldUp |-> FALSE])
    /\ UNCHANGED <<rows, docker>>

\* One network per step.  A network that exists is used as it is; any other
\* error starts the rollback.
CreateNetworks(r) ==
    /\ job[r].at = "networks"
    /\ \/ /\ job[r].todo = <<>>
          /\ Goes(r, [job[r] EXCEPT !.at = "volumes", !.todo = SetToSeq(Volumes)])
          /\ UNCHANGED networks
       \/ /\ job[r].todo # <<>>
          /\ LET n == Head(job[r].todo)
             IN /\ networks' = networks \cup {n}
                /\ Goes(r, [job[r] EXCEPT !.todo = Tail(@),
                              !.nets = IF n \in networks THEN @ ELSE @ \cup {n}])
       \/ /\ job[r].todo # <<>> /\ GoTo(r, "rollback") /\ UNCHANGED networks
    /\ UNCHANGED <<begun, stack, rows, volumes, container, ghosts>>

\* VolumeCreate is idempotent: a volume that exists comes back without an
\* error and is therefore recorded as created by this deploy.
CreateVolumes(r) ==
    /\ job[r].at = "volumes"
    /\ \/ /\ job[r].todo = <<>>
          /\ \/ \E order \in ResolveDeploymentOrder(job[r].compose) :
                   Goes(r, [job[r] EXCEPT !.at = "find", !.todo = order])
             \/ /\ ResolveDeploymentOrder(job[r].compose) = {}
                /\ GoTo(r, "rollback")
          /\ UNCHANGED volumes
       \/ /\ job[r].todo # <<>>
          /\ LET v == Head(job[r].todo)
             IN /\ volumes' = volumes \cup {v}
                /\ Goes(r, [job[r] EXCEPT !.todo = Tail(@), !.vols = @ \cup {v}])
       \/ /\ job[r].todo # <<>> /\ GoTo(r, "rollback") /\ UNCHANGED volumes
    /\ UNCHANGED <<begun, stack, rows, networks, container, ghosts>>

-----------------------------------------------------------------------------
(* The services, one after the other: find the old container, create the   *)
(* new one beside it, start it, watch its health, stop the old one.        *)

\* The deploys that have made a container and are not finished.
HalfDone == {r \in StackRequests :
                Busy(r) /\ (job[r].at \in {"each", "connect"} \/ job[r].acts # <<>>)}

\* existingList[0]: the newest container of the service, or none when the
\* listing fails, whose error is ignored.  The ghost records that the list
\* shows the half-done work of another request.
FindOldContainer(r) ==
    /\ job[r].at = "find" /\ job[r].todo # <<>>
    /\ \E found \in {Of(Head(job[r].todo)), {}} :
          Goes(r, [job[r] EXCEPT !.at = "create",
                                   !.old = IF found = {} THEN None ELSE Max(found),
                                   !.oldUp = found # {} /\ Max(found) \in Running])
    /\ collided' = (collided \/ HalfDone \ {r} # {})
    /\ UNCHANGED <<begun, stack, rows, docker, unreturned, placed, serving>>

\* The first half of Create: Docker makes the container, in the first network.
CreateService(r) ==
    /\ job[r].at = "create"
    /\ \/ \E c \in Numbers :
             /\ container[c].state = "none"
             /\ \A b \in 1 .. c - 1 : container[b].state # "none"
             /\ Networks \subseteq networks
             /\ volumes' = volumes \cup Volumes
             /\ container' = [container EXCEPT ![c] =
                                [service |-> Head(job[r].todo), state |-> "created"]]
             /\ Goes(r, [job[r] EXCEPT !.at = "connect", !.made = c])
             /\ unreturned' = unreturned \cup {c}
       \/ GoTo(r, "rollback") /\ UNCHANGED <<volumes, container, unreturned>>
    /\ UNCHANGED <<begun, stack, rows, networks, placed, serving, collided>>

\* The second half connects the other networks.  When that fails it removes the
\* container again, with the context that may be the reason and ignoring the
\* error, and returns no ID: the deploy does not record what may be left.
ConnectService(r) ==
    /\ job[r].at = "connect"
    /\ LET c == job[r].made
       IN \/ /\ c \in Present
             /\ Goes(r, [job[r] EXCEPT !.at = "start", !.made = None,
                           !.acts = Append(@, [new |-> c, old |-> job[r].old,
                                               wasRunning |-> job[r].oldUp])])
             /\ unreturned' = unreturned \ {c}
             /\ UNCHANGED container
          \/ /\ Goes(r, [job[r] EXCEPT !.at = "rollback", !.made = None])
             /\ (c \in Present /\ SetState(c, "gone")) \/ UNCHANGED container
             /\ UNCHANGED unreturned
    /\ UNCHANGED <<begun, stack, rows, networks, volumes, placed, serving, collided>>

New(r) == Last(job[r].acts).new

StartService(r) ==
    /\ job[r].at = "start"
    /\ \/ /\ New(r) \in Present /\ Networks \subseteq networks
          /\ SetState(New(r), "running")
          /\ GoTo(r, IF Head(job[r].todo) \in HealthChecked THEN "probe" ELSE "retire")
       \/ GoTo(r, "rollback") /\ UNCHANGED container
    /\ UNCHANGED <<begun, stack, rows, networks, volumes, ghosts>>

\* The probe loop ends with "healthy", with "unhealthy" or "exited", or with
\* its timeout.
ProbeHealth(r) ==
    /\ job[r].at = "probe"
    /\ \/ New(r) \in Running /\ GoTo(r, "retire")
       \/ GoTo(r, "rollback")
    /\ UNCHANGED <<begun, stack, rows, docker, ghosts>>

\* The error of Stop is ignored.
StopOldContainer(r) ==
    /\ job[r].at = "retire"
    /\ LET old == job[r].old
       IN /\ \/ old \in Running /\ SetState(old, "exited")
             \/ UNCHANGED container
          /\ Goes(r, [job[r] EXCEPT !.at = "find", !.todo = Tail(@),
                        !.retire = IF old = None THEN @ ELSE Append(@, old)])
    /\ UNCHANGED <<begun, stack, rows, networks, volumes, ghosts>>

\* All services are up: the old containers go, one at a time, errors ignored.
RemoveRetired(r) ==
    /\ job[r].at = "find" /\ job[r].todo = <<>>
    /\ \/ /\ job[r].retire # <<>>
          /\ \/ Head(job[r].retire) \in Present /\ SetState(Head(job[r].retire), "gone")
             \/ UNCHANGED container
          /\ Goes(r, [job[r] EXCEPT !.retire = Tail(@)])
          /\ UNCHANGED <<placed, serving>>
       \/ /\ job[r].retire = <<>>
          /\ placed' = placed \cup {a.new : a \in ToSet(job[r].acts)}
          /\ serving' = serving \cup DOMAIN job[r].compose
          /\ Goes(r, [job[r] EXCEPT !.at = "save", !.acts = <<>>,
                                      !.todo = SetToSeq(job[r].nets) \o SetToSeq(job[r].vols)])
          /\ UNCHANGED container
    /\ UNCHANGED <<begun, stack, rows, networks, volumes, unreturned, collided>>

\* A row per created object: a duplicate name, or any other error, ends the
\* handler and leaves the status at "deploying".
SaveResources(r) ==
    /\ job[r].at = "save"
    /\ \/ /\ job[r].todo # <<>> /\ Head(job[r].todo) \notin rows
          /\ rows' = rows \cup {Head(job[r].todo)}
          /\ Goes(r, [job[r] EXCEPT !.todo = Tail(@)])
          /\ UNCHANGED stack
       \/ Goes(r, AtRest) /\ UNCHANGED <<stack, rows>>
       \/ /\ job[r].todo = <<>> /\ RowRemains(r) /\ stack' = Status("running")
          /\ Goes(r, AtRest) /\ UNCHANGED rows
    /\ UNCHANGED <<begun, docker, ghosts>>

-----------------------------------------------------------------------------
(* rollback: from the last service back to the first the new container is  *)
(* removed and the old one started again, then networks and volumes go.    *)

\* Mutant: only a service that had an old container is put back.
UndoReplacedService(r) ==
    /\ job[r].at = "rollback" /\ job[r].acts # <<>>
    /\ LET a == Last(job[r].acts)
       IN container' = [c \in Numbers |->
             IF c = a.new /\ a.old # None /\ c \in Present THEN [container[c] EXCEPT !.state = "gone"]
             ELSE IF c = a.old /\ a.wasRunning /\ c \in Present
               THEN [container[c] EXCEPT !.state = "running"]
             ELSE container[c]]
    /\ Goes(r, [job[r] EXCEPT !.acts = Front(@)])
    /\ UNCHANGED <<begun, stack, rows, networks, volumes, ghosts>>

UndoService(r) ==
    /\ job[r].at = "rollback" /\ job[r].acts # <<>>
    /\ LET a == Last(job[r].acts)
       IN container' = [c \in Numbers |->
             IF c = a.new /\ c \in Present THEN [container[c] EXCEPT !.state = "gone"]
             ELSE IF c = a.old /\ a.wasRunning /\ c \in Present
               THEN [container[c] EXCEPT !.state = "running"]
             ELSE container[c]]
    /\ Goes(r, [job[r] EXCEPT !.acts = Front(@)])
    /\ UNCHANGED <<begun, stack, rows, networks, volumes, ghosts>>

\* Docker refuses to remove a network with running containers and a volume
\* any container mounts; the errors are ignored.
RemoveCreated(r) ==
    /\ job[r].at = "rollback" /\ job[r].acts = <<>>
    /\ networks' = IF Running = {} THEN networks \ job[r].nets ELSE networks
    /\ volumes' = IF Present = {} THEN volumes \ job[r].vols ELSE volumes
    /\ MayWrite(IF RowRemains(r) THEN Status("failed") ELSE stack)
    /\ Goes(r, AtRest)
    /\ UNCHANGED <<begun, rows, container, ghosts>>

-----------------------------------------------------------------------------
(* StopStack, RestartStack, DeleteStack: the containers listed at the       *)
(* start are taken one at a time.  Their handlers ignore every error of     *)
(* Docker and write the row all the same.                                   *)

BeginEach(r, op) ==
    /\ Call
    /\ ~Busy(r) /\ stack # NoRow
    /\ \E listed \in {Present, {}} :
          Goes(r, [at |-> "each", id |-> stack.id, op |-> op, todo |-> SetToSeq(listed)])
    /\ unreturned' = IF NoneBusy THEN {} ELSE unreturned
    /\ placed' = IF NoneBusy THEN Present ELSE placed
    /\ serving' = IF op # "restart" THEN {} ELSE IF NoneBusy THEN ServicesUp ELSE serving
    /\ collided' = ~NoneBusy
    /\ UNCHANGED <<stack, rows, docker>>

\* What a call may make of a container.  A restart, and a removal after the
\* stop, may get no further than the stop.
Outcomes(op) == CASE op = "stop"    -> {"exited"}
                  [] op = "restart" -> {"running", "exited"}
                  [] op = "delete"  -> {"gone", "exited"}

EachContainer(r) ==
    /\ job[r].at = "each" /\ job[r].todo # <<>>
    /\ LET c == Head(job[r].todo)
       IN \/ \E s \in Outcomes(job[r].op) :
                /\ IF s = "exited" THEN c \in Running ELSE c \in Present
                /\ SetState(c, s)
                /\ serving' = IF s = "exited" THEN serving \ {container[c].service} ELSE serving
          \/ UNCHANGED <<container, serving>>
    /\ Goes(r, [job[r] EXCEPT !.todo = Tail(@)])
    /\ UNCHANGED <<begun, stack, rows, networks, volumes, unreturned, placed, collided>>

\* DeleteStack removes the networks that carry the stack's label, unless the
\* listing failed or Docker refuses, and keeps every named volume.
EndEach(r) ==
    /\ job[r].at = "each" /\ job[r].todo = <<>>
    /\ MayWrite(CASE ~RowRemains(r) -> stack
                  [] RowRemains(r) /\ job[r].op = "delete" -> NoRow
                  [] RowRemains(r) /\ job[r].op = "stop" -> Status("stopped")
                  [] RowRemains(r) /\ job[r].op = "restart" -> Status("running"))
    /\ \E removed \in SUBSET networks :
          /\ removed # {} => job[r].op = "delete" /\ Running = {}
          /\ networks' = networks \ removed
    /\ Goes(r, AtRest)
    /\ UNCHANGED <<begun, rows, volumes, container, ghosts>>

-----------------------------------------------------------------------------
(* The network and volume routes, which may name the stack's objects.       *)

CreateNetwork(n) ==
    /\ Call
    /\ networks' = networks \cup {n} /\ rows' = rows \cup {n}
    /\ UNCHANGED <<stack, volumes, container, job, ghosts>>

DeleteNetwork(n) ==
    /\ Call
    /\ n \in rows
    /\ networks' = IF Running = {} THEN networks \ {n} ELSE networks
    /\ rows' = rows \ {n}
    /\ UNCHANGED <<stack, volumes, container, job, ghosts>>

PruneNetworks ==
    /\ Call
    /\ Running = {} /\ networks # {} /\ networks' = {}
    /\ UNCHANGED <<stack, rows, volumes, container, job, ghosts>>

CreateVolume(v) ==
    /\ Call
    /\ volumes' = volumes \cup {v} /\ rows' = rows \cup {v}
    /\ UNCHANGED <<stack, networks, container, job, ghosts>>

DeleteVolume(v) ==
    /\ Call
    /\ v \in rows
    /\ volumes' = IF Present = {} THEN volumes \ {v} ELSE volumes
    /\ rows' = rows \ {v}
    /\ UNCHANGED <<stack, networks, container, job, ghosts>>

PruneVolumes ==
    /\ Call
    /\ Present = {} /\ volumes # {} /\ volumes' = {}
    /\ UNCHANGED <<stack, rows, networks, container, job, ghosts>>

-----------------------------------------------------------------------------
StacksNext ==
    \/ \E text \in Composes \cup {BadYaml} : CreateStack(text) \/ UpdateStack(text)
    \/ \E r \in StackRequests :
          \/ BeginDeploy(r) \/ CreateNetworks(r) \/ CreateVolumes(r)
          \/ FindOldContainer(r) \/ CreateService(r) \/ ConnectService(r)
          \/ StartService(r) \/ ProbeHealth(r) \/ StopOldContainer(r) \/ RemoveRetired(r)
          \/ SaveResources(r) \/ UndoService(r) \/ RemoveCreated(r)
          \/ \E op \in {"stop", "restart", "delete"} : BeginEach(r, op)
          \/ EachContainer(r) \/ EndEach(r)
    \/ \E n \in Networks : CreateNetwork(n) \/ DeleteNetwork(n)
    \/ \E v \in Volumes : CreateVolume(v) \/ DeleteVolume(v)
    \/ PruneNetworks \/ PruneVolumes

StacksSpec == StacksInit /\ [][StacksNext]_stackVars

-----------------------------------------------------------------------------
\* A service is created after every service it depends on.
DependenciesComeFirst ==
    \A r \in StackRequests :
       (Busy(r) /\ job[r].at # "each") =>
          \A i \in DOMAIN job[r].acts :
             job[r].compose[container[job[r].acts[i].new].service]
                \subseteq {container[job[r].acts[j].new].service : j \in 1 .. i - 1}

\* DeployStack replaces a stack as a whole or leaves it as it was: when the
\* requests that ran are over, a service that was up before the first of them
\* and was not stopped is up, and no container of a failed deploy is left but those
\* of a Create that failed between its two calls, which the deploy's rollback
\* does not know of.  It is claimed when none of them met the half-done work of
\* another, whatever happened before.
StackDeployIsAllOrNothing ==
    /\ (~collided /\ NoneBusy) =>
          /\ \A s \in serving : Of(s) \cap Running # {}
          /\ Present \subseteq placed \cup unreturned
    /\ DependenciesComeFirst
=============================================================================
