# Verification of pikpik

pikpik is a self-hosted platform: a control plane that keeps its state in SQLite or PostgreSQL,
drives Docker Swarm and Caddy, builds images, takes backups, and receives telemetry from agents
on worker nodes.  This directory holds TLA+ models of the parts whose correctness depends on the
order in which things happen, their TLC configurations, and theorems about them that TLAPS checks.

    tlc -workers 2 -config BuildManagerPool.cfg MCBuildManager
    tlapm AgentServer_proofs.tla

`PROJECT.json` lists the runs, what each definition models (file and lines), the mutants that show
each property can fail, the findings and the hazards.

## 1. The system

`cmd/pikpik/main.go` wires everything: store, vault, auth, orchestration engine, ingress manager,
backup engine and scheduler, registry manager, the hubs, the agent server, the downsampler's
ticker, the deploy webhook, the API controller, rate limiter and gateway.  The build manager is
complete and tested but `main.go` does not construct it yet.

| Component | State | Operations | Talks to | What is hard | Model |
|---|---|---|---|---|---|
| Build manager (`pkg/build/manager.go`) | job channel, closed flag, `cancels` map, `builds` rows | Enqueue, Cancel, Close, workers | cloner, builders, pusher, orchestrator, store, SSE | four kinds of goroutine over a channel, a map and rows written blindly | `BuildManager` |
| Agent server (`pkg/agent/server.go`) | `sessions` map, pending commands per session, `managed_machines` rows | HandleHTTP, RegisterNode, UnregisterNode, DispatchCommand | agents over WebSocket, controller, hub, ring buffers | connections of one node overlap; a reply races disconnection, displacement and the end of the request | `AgentServer` |
| Agent client, dispatcher | connection, backoff, collector | Start, connectionLoop, runSession, Close | agent server, Docker collector | reconnection, goroutines of an earlier session | `AgentClient` |
| Docker collector | `streams`, `lastAttempt`, running flag | Start, StreamContainerStats, events, Stop | Docker socket, agent client | a container stops and starts while its old stream unwinds; the next session finds it running | `AgentClient` |
| Backup scheduler | running flag, `doneCh`, schedule rows | Start, Stop, RunDueJobs, ExecuteScheduleJob, CRUD, cron | engine, S3, store | Stop then Start; crash between upload and `UpdateRunTimes`; edits during a run | `CronScheduler`, `CronExpr` |
| Backup engine, multi-DB | pipes, exec streams | ExecuteMultiDBBackup, ExecuteMultiDBRestore | Docker exec, S3 client | producer and uploader fail independently | `MultipartUpload` |
| S3 client, retention | upload state, parts | multipart upload, abort, prune, retention | S3 | a failing part while others are in flight; lost answers; off-by-one that deletes a backup | `MultipartUpload`, `Retention` |
| Ingress manager, Caddy client | `routes`, `splits` caches, the controller's `domains` and `trafficSplits` | ApplyRoute, RemoveRoute, Set/RemoveTrafficSplit, ReconcileAll | Caddy admin API | caches and Caddy diverge on partial failure and on races with ReconcileAll; two domains may have one ID | `Ingress` |
| Ring buffer, downsampler | circular array, hourly rows | Push, GetLastN, GetRange, DownsampleHour, the ticker's goroutine | agent server, store | index arithmetic, hour boundaries, a tick read late, clocks that differ | `Samples` |
| Telemetry hub, API hub, SSE | clients, topics, bounded channels | Subscribe, Unregister, Broadcast | browsers, agent server | disconnect against subscribe, addresses used again; drop policy of slow clients | `Hubs` |
| Rate limiters (`api`, `deploy`) | records, buckets | Allow, Cleanup, Stop | gateway, webhook | refill arithmetic, Stop against the cleanup goroutine | `RateLimits` |
| Authentication, tokens, users | `users`, `api_tokens`, `invitations`, `project_memberships` | login, tokens, reset, invite, members | store | three reads of one check while a reset runs | `Accounts`, `ApiRoutes` |
| Compose stacks (`pkg/orchestration/compose.go`) | stack row, managed networks and volumes, containers | Create, Update, Deploy, Stop, Restart, Delete | Docker, store | a step of a deploy fails after others replaced containers | `Stacks` |
| Applications (`containers.go`, `swarm.go`) | `c.apps`, service rows, containers, Swarm services | Create, Update, Deploy, Stop, Delete | Docker, store | start before stop with a probation in between; two deploys at once | `AppDeploy` |
| Template deployer | app, service and domain rows, containers | Deploy, rollback | store, engine, ingress | a failing step must leave nothing behind | in `AppDeploy` |
| Command line client (`cmd/pikpik-cli`) | `~/.pikpik/config.json` | login, context, commands | API | two invocations replace one file | `Cli` |
| API controller and routes | caches beside the store | about 150 operations | everything | sequences of several statements | `ApiRoutes` and the modules above |
| Deploy webhook, git webhook | token map, hooks | GenerateToken, RevokeToken, ServeHTTP | engine | revocation during a delivery, token live before its branch filter | its bucket: `RateLimits` |
| Notification dispatcher | queue, two workers | Dispatch, Close | HTTP, store | send on a closed channel, lost events | none |
| Configuration resolver | dependency graph | resolve, order | store | cycles | none |
| Build strategies, PTY sessions, registry, crypto, web console | little of their own | requests | Docker | I/O, cryptography, presentation | none |

What makes each correct:

- *Build manager*: an accepted build runs at most once and is not lost; its row tells the truth; a
  cancelled build stays cancelled; Close leaves nothing running.
- *Agent server*: the map holds the live session of a node and no ghost; the machine row follows
  the sessions; nobody waits for an answer that cannot come.
- *Agent client and collector*: nothing is streamed twice; whatever streams can be stopped.
- *Scheduler*: Stop reaches every loop; a due time is served, once, and recorded; a schedule
  follows its expression; one schedule holds up no other.
- *Backup path*: an object is a whole dump or is not there; an upload completes or is aborted; no
  goroutine is left blocked; retention deletes nothing a rule has promised all along.
- *Ingress*: Caddy serves what the rows and bindings say, and no split it has refused.
- *Hubs*: the index of topics says what the sessions asked for; nobody sends on a closed channel.
- *Samples*: readers get what was pushed; an hourly row is of its hour.
- *Accounts*: a request is let in only with a token that was live when it came.
- *Stacks, applications, templates*: a deployment takes place as a whole or changes nothing
  but for what Docker refuses to take back, and does not take out of service what was in service.
- *CLI*: its file is whole, and every request it sends exists.

`PROJECT.json` lists the hazards with their lines.

## 2. The modules

| Module | What it is |
|---|---|
| `BuildQueue` | the promise of the build manager: builds wait in line, start in order, at most `Slots` run, shutting down waits for them |
| `BuildManager` | the manager as the code has it; refines `BuildQueue` |
| `MCBuildManager` | its instance for TLC: every build is for one service |
| `BuildManager_proofs` | its safety theorems |
| `AgentServer` | the agent server with the two controller operations that use its map |
| `MCAgentServer` | its instance for TLC: one node |
| `AgentServer_proofs` | its safety theorems |
| `CronScheduler` | the backup scheduler with the API calls that write its rows, and the end and return of the process |
| `MCCronScheduler` | its instance for TLC: four cron expressions |
| `CronScheduler_proofs` | its safety theorems |
| `MultipartUpload` | one backup from the dump to the object, and the restore |
| `Retention` | which backups a service keeps, over days of hourly pruning |
| `CronExpr` | the cron expression and the search for its next match |
| `MCBackup` | the instance of those three for TLC |
| `ApiRoutes` | the route table with the role each operation asks for; no state |
| `Accounts` | users, tokens, invitations and members behind the middleware; extends `ApiRoutes` |
| `Cli` | the client's requests and its configuration file; extends `ApiRoutes` |
| `Stacks` | one compose stack: rows, networks, volumes, containers |
| `AppDeploy` | one application: cache, row, containers or Swarm service, a template beside it |
| `Ingress` | domains, routes and splits in rows, three caches and Caddy |
| `AgentClient` | the agent on a node with its Docker collector |
| `Hubs` | the SSE broadcaster, the API's hub, the telemetry hub |
| `Samples` | ring buffer and hourly rows |
| `RateLimits` | sliding window and token bucket |
| `MCServerParts` | the instance of `Accounts` to `RateLimits` for TLC |
| `Backup_proofs` | `Retention`, `CronExpr`, `MultipartUpload`: what is kept, when it is due, and one upload |
| `Access_proofs` | `Cli`, `RateLimits`, `Accounts`: who is let in |
| `Telemetry_proofs` | `AgentClient`, `Hubs` and the buffer of `Samples`: from the node to those who watch |
| `Delivery_proofs` | `AppDeploy`, `Ingress`, `Stacks`: what serves, and what is routed to it |
| `MCServerParts_proofs` | the properties of the run `server_parts`, from those of the parts |

Operators with the comment "Mutant of X" are variants of `X` with a plausible bug; no
specification uses them.

`PROJECT.json` maps definitions to lines.  It lists for each module those that translate most of
the code and those the mutants change; the others carry the name of the function they model, or
a comment that names it.

### BuildManager

A step is whatever another goroutine can observe: a critical section of `bm.mu`, a channel
operation, one store statement, one external call.

| Variable | Code |
|---|---|
| `closed`, `closer` | `bm.closed` (both channels are closed with it), the one effective `Close` |
| `queue` | the buffered channel `bm.queue` |
| `cancels`, `ctx` | `bm.cancels`, and what has become of each job's context |
| `row` | `status` of the build's row; `"absent"` before the insert |
| `enq`, `cpc`/`cjob`, `wpc`/`wjob` | where each Enqueue, Cancel and worker is |
| `pushed`, `deployed`, `svc` | what the registry, the orchestrator and the service row hold |
| `cancelLog` | history: how Cancel calls ended |

`EnqueueCheck`, `EnqueueRecord`, `EnqueueSend` are the three parts of `Enqueue` that the lock does
not hold together; `CancelTake`, `CancelFire`, `CancelWrite` those of `Cancel`; `Register` to
`Finish` the statements of `executeJob`.  `UpdateStatus` is unconditional, as in the SQL, and has
no effect once the job's context has ended: that is how `failBuild` fails to record a cancelled
job.  An external call may fail, and fails if its context is over.

Not modelled: errors of the store other than an ended context, the error and duration columns,
log lines, SSE broadcasts, the commit status posted to GitHub.  An image pusher is configured and
each job is for a service.

### AgentServer

| Variable | Code |
|---|---|
| `sessions` | `s.sessions` |
| `open` | connections whose server end is not closed |
| `machine` | `status` of the machine's row, `"absent"` without a row |
| `pc`, `hand`, `taken` | where each handler and call is, the reply a handler has read, the session an `UnregisterNode` removed |
| `target`, `pending`, `mailbox` | the session a dispatch chose, `PendingCommands`, the one-element result channels |
| `received` | commands written to a connection, which the agent may answer on it |
| `evicted`, `joined` | history: sessions removed by somebody else; rows last written by `JoinSwarmCluster` |

`Accept`, `Upsert`, `RegisterNode`, the read loop and the deferred `UnregisterNode` (`TakeSession`,
`MarkOffline`, `Sweep`) are a handler's life.  `RegisterNode` is one step although it waits for a
close handshake: everything it changes is under `s.mu`, and a message read from the displaced
connection meanwhile is one read just before.  `ConnEnds` stands for the agent, the network, the
read deadline and the ping loop's 25 seconds: time is abstracted to "may happen".  The commands of
the model are those of `JoinSwarmCluster`, the one caller in the program.

Not modelled: refused upgrades, the forwarding of metrics and logs (each a component of its own),
`HandleAgentConnection` (no caller), two commands with the same ID (IDs are generated), store
errors.

### CronScheduler

| Variable | Code |
|---|---|
| `running`, `cur` | `s.running`; the loop whose channels are in `s.stopCh` and `s.doneCh` |
| `stopping` | a `Stop` between closing `stopCh` and receiving from `doneCh`; it holds `lifecycleMu` |
| `tick` | the one-element channel of each loop's ticker |
| `pc`, `now`, `job` | where each loop, Trigger and API call is, the time its poll is for, its schedule |
| `mu` | who holds `s.mu` |
| `row` | `cron_expr`, `is_enabled` and `next_run_at` of each row of `backup_schedules` |
| `seen` | the rows as a poll or an edit has read them |
| `recorded` | the due times with a row in `backup_executions` |
| `clock`, `alive`, `reboots` | the time, in poll intervals; the context has not ended; restarts so far |
| `attempted`, `replaced`, `orphans`, `raced`, `lost` | history, for the properties |

`Start`, `StopBegin`, `StopReturn` are what `lifecycleMu` orders; `LoopExit` and `LoopClear` are the
loop's deferred calls, between which a `Stop` returns and a `Start` may come.  `ListDue` to
`EndPoll` are `RunDueJobs` and the statements of `ExecuteScheduleJob`, one step for each that
another goroutine can get in front of.  `EditRead` and `EditWrite` are `UpdateBackupSchedule`, whose
read is not under the lock of its write.  `Reboot` is a crash at any moment and the next start.
`ContextEnds` makes the statements that use the context fail, as at shutdown.

A cron expression is what `Next` makes of a time; `Next` truncates to minutes and searches five
years, of which the model keeps that it answers a later time or the zero time.
`CronSchedulerAssumption` says that it is monotone, and zero for an expression either always or
never; a 29 February before the year 2100, which is no leap year, is the exception.

Not modelled: the object and its retention in S3, the pruning of stale uploads at Start,
`last_run_at` and the other columns, whether a backup succeeded (it decides only what the record
says), errors of the store other than an ended context or a missing row, and the deletion of a
service, which takes its schedules and records with it.

### MultipartUpload

| Variable | Code |
|---|---|
| `dump`, `written`, `ctx` | how the exec stream ended, what is in the pipe, the job's context |
| `reader`, `held`, `last` | `UploadStreamMultipart`: where it is, the part in hand, whether the pipe has ended |
| `worker`, `attempt` | the part goroutines behind the semaphore, attempts of `uploadPart` |
| `results`, `uploaded`, `uploadErr` | `partsChan` and what the collector made of it |
| `upload`, `stored`, `object`, `stale` | what S3 holds |
| `abortLost`, `backup`, `restore` | an abort that failed (history), what the backup returned, the restore |

One step is a read of the pipe, a channel operation, or a request to S3.  A request may be refused,
or carried out while its answer is lost; the context may end and the process die anywhere.
To complete an upload S3 may also answer 200 and put an error in the body, which the code decodes
and drops (`client.go:431`): the reader is then at `"misread"`.

### Retention, CronExpr

`Retention` has a clock, a policy, the backups ever `taken` and those `kept`: backups start, end,
and are followed by two calls of `PruneRetention`, each of which may delete only part of what it
should.  `EvaluateRetention` is the source's: sort, keep the newest of each hour, day, week and
month within its cut-off, then the maximum.  Months have the lengths `MonthStart` gives them.  The
monthly `Cutoff` is what `AddDate(0, -n, 0)` makes: the place now has in its month, counted from the
start of an earlier one, and so perhaps beyond the end of that one.  `CronExpr` translates the
parser's fields and the search of `Next`, which skips months, days and hours, over a calendar of two
months of two and three days.

### ApiRoutes, Accounts, Cli

`ApiRoutes` is a table: operation to least role.  `Accounts` reads it to decide what a request may
do.  A request is let in by three statements (`GetByHash`, `ValidateAPIToken`, `AuthMiddleware`),
between which passwords are reset, tokens deleted and users removed; a login checks the password,
captures `session_version` and inserts the token in separate steps.  `Cli` has the requests of
`APIClient`, the requests each command sends, in order, and what a failure in between leaves; its
file is loaded, waited over (a password is asked for) and replaced by a temporary one.

### Stacks, AppDeploy

Both give every HTTP request a slot and every Docker call a step, and nothing excludes two requests
about one stack or app, as in the code.

`Stacks`: the stack's row, the rows and Docker objects of its networks and volumes, numbered
containers, and `job`, which holds what a deploy has done so far - that is what its rollback undoes.
A failing call leads to `UndoService` (newest first) and `RemoveCreated`.  `Create` is two steps:
`CreateService` makes the container, `ConnectService` connects it to the project's network and
records it; where the second fails the container is removed under the same context, which may fail
as well, and is never recorded (`unreturned`).  In the loops of StopStack, RestartStack and
DeleteStack each call may fail and is passed over (`EachContainer`); a restart may get no further
than the stop.  The calls of a rollback have the background context and are assumed to be answered.
`unreturned`, `placed`, `serving` and `collided` are the history since all was at rest.
`ResolveDeploymentOrder` is Kahn's algorithm without its loop: each place of the order holds the
first, by name, of the services that are `Ready` once those before it are out of the queue.

`AppDeploy`: `c.apps` and the row of an app, its containers or its Swarm service, and requests that
name the app by its id or by its name, as the controller passes on what it was given.
`DeployWithRollingUpdate` is the steps `FindOld` to `RemoveOld`; `Probation` may fail.  A template
is one service, and its rollback.  The process may restart.

### Ingress

| Variable | Code |
|---|---|
| `row`, `binding` | rows of `services` with their domains; `c.domains` |
| `answer` | `c.trafficSplits` |
| `routes`, `splits` | `m.routes` (one route of each ID), `m.splits` (by domain) |
| `clientSplits` | the Caddy client's own splits |
| `caddy` | the configuration Caddy runs, external: sets of plain routes and of splits |
| `holder`, `caller` | `c.mu`, held across calls to Caddy; where each request is |
| `accepted`, `stuck`, `twins`, `quiet` | history |

Every cache is written in a step of its own, before or after the call to Caddy as in the code.

`Slug` is what `Slugify` makes of a domain; `a.b.com` and `a-b.com` have one.  `RouteID` is the
application and the slug, the ID of a split the slug alone.  A request to Caddy names an ID, so it
adds, answers with or removes a route or split of any domain with that ID.  A load may hold several
of one ID (`twins`); Caddy may refuse it, or take it and mean either by the ID.  The IDs of
applications are taken to be those `store.NewID` makes, which are of one length and begin with
`app`: so two do not run together with their domains into one route ID, and no plain route has the
ID of a split.  A call that Caddy carried out while its answer was lost is left out.

### AgentClient, Hubs, Samples, RateLimits

`AgentClient`: one session after another, the goroutines of each, the commands it executes, and
the collector that outlives sessions: its running flag, context and channel, `d.streams` (here
`registry`), and the stream goroutines, from their entry to the deferred `stopContainerStream`.

`Hubs`: three hubs, each with its own variables.  A channel is the number of frames in it.  The
telemetry hub's `dispatchToSession` is the steps it has: offer, drop the oldest, warn, try again.
That hub knows a client by its remote address, so `listed` (`h.clients`) and `topicIndex` (`h.topics`)
are by address, and any connection may come to any address: to one whose handler has not
noticed yet that its connection is gone, and to one for which a late reader has made a session.
`HandleWebSocket` enters its session over whatever is there.  `inherited` are the entries of the index
a displaced session left, `overlapped` the connections whose handlers shared an address.

`Samples`: the ring buffer as array, head and size, beside `history`, which is what was pushed,
and the rows of hours beside the samples each was made from (`rolledUp`).  The ticker's goroutine takes
a tick (`TakeTick`, which fixes the hour), reads this buffer when the rows of others are saved, at any
later time (`DownsampleAndSave`), and prunes (`PruneExpiredMetrics`); each statement may fail.  A sample
carries the time of its agent, up to `Skew` from the server's, and samples come in any order.  `Restart`
empties the buffer and keeps the rows.  A sorted list is given by what it holds (so many values
below the k-th, so many up to it), the sort itself is Go's.
`RateLimits`: the records of the window and the buckets as the code keeps them, beside what was
`granted` and `refused`.

## 3. The runs

| Run | Bounds | What it shows |
|---|---|---|
| `build_pool` | 2 builds, 1 service, 2 workers, queue of 1, 2 Cancels, Close | safety of all interleavings; `BuildQueue` is implemented |
| `build_live` | 2 builds, 1 worker, 1 Cancel | accepted builds finish, Close returns, the queue moves |
| `build_panic` | 1 build, 1 worker, 1 Cancel, Close | finding: Enqueue can panic on the closed channel |
| `build_cancel` | 1 build, 1 worker, 1 Cancel | finding: a row goes from `cancelled` back to an active status |
| `agent` | 1 node, 3 connections, 1 join, 1 delete | safety of overlapping connections and calls |
| `agent_live` | 1 node, 2 connections, 1 join, 1 delete | waiting ends, the status recovers |
| `agent_evict` | 1 node, 3 connections, 1 join | finding: a displaced handler evicts its successor |
| `cron` | 1 schedule, 2 loops, 1 edit or deletion, 3 expressions, 3 ticks of time, 1 restart | due times are served once, not lost, recorded; every live loop can be stopped |
| `cron_live` | 2 schedules, 1 loop, 1 Trigger, 3 ticks of time | a due schedule does not stay due; Stop returns |
| `backup_path` | 3 parts, 2 at a time, 2 attempts each; 7 retention policies over 9 ticks of time and 6 months; 7 fields of days and weekdays, every set of hours and months, to minute 24 of years of 20 | a stored backup is whole, no upload is orphaned, a begun backup ends; retention keeps what its rules have promised; `Next` is the first match |
| `server_parts` | 2 overlapping requests in every part, see below | the safety of `Accounts` to `RateLimits` |
| `old_version_stays` | 1 request at a time, 5 in all, no failures | finding: from the second rolling update on the old version stays |

*Runs of several parts.*  `MCBackup` and `MCServerParts` put modules side by side that share no
variable: the variable `part` is chosen in the initial state, the steps of the chosen part follow,
and the variables of the others stand still.  A behaviour is one of one part, so nothing is
assumed about how they go together, and each part's states add up instead of multiplying.  In
`server_parts` the agent is two parts, since what commands do and what the collector does have
nothing in common but the session.  Its symmetry permutes the two requests: every part treats them
alike, nothing chooses among them, and the run has invariants only.

*Why these bounds are enough.*  Two builds of one service on two workers give every pair of
concurrent steps; a queue of one is full when the second build comes, and empty, and closed; two
Cancels can be for the same build.  One node is enough for the agent server, as nodes share
nothing but the lock: a third connection lets a handler remove a session that is neither its own
nor the one that displaced it, and come after both.  In the scheduler one schedule is enough for
`cron`, as jobs of different schedules share only `s.mu`: it is replaced, edited and listed by two
loops, before and after a restart; two loops are an old one that is ending and its successor, and
each can be started again once it has ended.  The clock stops at three but its ticks do not; three
times let an expression match, match again and match beyond the horizon.  A Trigger is a loop that
polls once, so `cron` has none and `cron_live` has one.  The liveness runs are smaller and use no
symmetry.  The theorems lift the safety properties of these runs from the bounds to all.

Three parts and two workers make a worker wait for the semaphore, results arrive out of order, and a
part fail while one is in flight and one is not yet read; a fourth part repeats that.  Nine ticks
are more than four hours, three days or two weeks of the model, with a pruning after every backup.
Months of one, two and three ticks follow each other (`MonthStart`), so that the cutoff of two
months ago goes back while there are backups it concerns.  In `server_parts`: two users, two tokens
and an invitation, passwords reset once; two services, one that has a health check and in one text
needs the other, four requests and two containers, which is a deploy over a deploy, its failure
after it has stopped the old container, or a third after two have collided; three versions of an app and four requests, in both modes; two apps, two
domains of one slug, two bindings and four calls; one container that stops and starts through two
sessions and two streams; two connections at two addresses, so that either keeps its own, shares or
takes over one, one topic beside the one for every target, and a channel of one, which is full at
once (one sender: a second multiplies the states by twenty, and no property is about what a channel
of that hub holds); a buffer of two samples, three of two values pushed, with stamps a tick off, and
hours of two ticks, which wraps before the hour is written; two keys, a limit of two in a window of
three, a bucket of two tokens; three logins over two contexts.

*Deadlock.*  In the build manager's runs a Cancel is always possible and in the scheduler's the
clock always ticks, so they check deadlock.  In
the agent server's a finite number of connections and calls is used up, after which nothing is
left to do: those cfgs say `CHECK_DEADLOCK FALSE`.  So do `backup_path`, where a backup and a clock come to
their end, and `server_parts`, where calls, time and IDs are used up.

*Fairness.*  In `BuildManager`: goroutines are scheduled and external calls return (clone, build and
push have no timeout in the code, so this is an assumption about the tools); nobody has to enqueue,
cancel or close.  In `AgentServer`: a goroutine with work of its own continues, and a handler that
keeps coming back to a read sees a metric again and again (strong fairness: the agent's ticker sends
one every five seconds, `hostMetricsLoop`, and other messages cannot keep it out for ever).  No
reply, no end of a request and no new connection is assumed.  In `CronScheduler`: goroutines are
scheduled, time passes, and a backup returns.  That is an assumption about the dump: `jobTimeout`
ends the requests of the upload, but the copy of the dump's stream does not look at the context
(`engine.go`), so a dump that neither writes nor ends holds its backup up.  Taking `s.mu` and seeing
`stopCh` get strong fairness: Go's mutex hands over to a waiter it has starved, and `select` chooses
at random among the ready cases.  In `MultipartUpload`: the goroutines of the upload are scheduled,
a request to S3 is answered or fails, and the dump ends; the end of the context, a crash, the
pruning and the restore are never required.  The other parts are checked for safety only, so nothing
is assumed of them.

*Findings.*  `build_panic`, `build_cancel` and `agent_evict` contradict a comment of the code each,
`old_version_stays` a specification of the repository: `Create` overwrites the label by which
`DeployWithRollingUpdate` looks for the container to replace, so from the second update on it finds
none.  `PROJECT.json` quotes them.  Seen on the way and not made runs: `ErrBuildNotFound` "is
returned when attempting to cancel a non-existent build" (`manager.go:26`), but `Cancel` returns nil
always; `JoinSwarmCluster` sets a machine online that the dispatch just found offline (`joined`,
exempt in `OfflineWhenAllGone`); a build that a full queue refuses has a row by then, which stays
`queued` (`manager.go:236`).

The properties of the scheduler exempt what the history variables name, because the code does it:

- `orphans`: the last deferred call of an ended loop (`scheduler.go:306`) clears the running flag a
  later Start has set.  `IsRunning` is then false of a live loop, Stop does nothing, and another
  Start makes a second loop; `main.go` starts the scheduler once and is not affected.
- `raced`: `UpdateRunTimes` (`scheduler.go:500`) stores the next match of the expression as it was
  listed and overwrites an edit made during the backup, so that the schedule may sleep past the
  next match; `UpdateBackupSchedule` writes back every column it read without the lock
  (`controller.go:2838`), so that a due time already served is served again.
- `lost`: a job that ends with the process has no execution record although its schedule may have
  moved on.
- The zero time stored for an expression that never matches, and a NULL, are due at every poll; a
  schedule whose expression does not parse is due at every poll and never run.

A backup that failed is not tried again before its next time (`reviews/selfhosted_parity_matrix.md:90`
speaks of retries with a backoff).

What the other parts do, seen while they were modelled and reflected in them:

- *Stacks*: a `Create` that cannot connect its second network and cannot remove its container either
  - a client that has left is the reason for both - returns no ID, and the rollback ("Teardown all
  new containers created during this deployment", `compose.go:590`) does not know of it:
  `StackDeployIsAllOrNothing` exempts these containers (`unreturned`).  Two deploys of one stack are
  not excluded; when one lists a container another has just made, its rollback can leave a service
  down.  `StacksAreWhole` is not claimed of requests that met so (`collided`); it is again of the
  next ones, which begin with the stack at rest, whatever state the others left it in (`FromRest`).
   `VolumeCreate` is idempotent, so a rollback may remove a volume that was there before ("created
  during this deployment", `compose.go:612`), and a second deploy of a stack with a volume stops at
  the unique row of `managed_volumes`.
- *Applications*: `DeleteApp`, `StopApp` and `RestartApp` by id never reach the container or
  service, which carries the name (`specs/06` says the service is deleted); by name the workload
  goes while entry and row stay.  Errors of the Swarm calls are dropped and the deployment is
  announced as finished.
- *Templates*: services that cannot be ordered return before the rows are rolled back
  (`deployer.go:220-225`).
- *Ingress*: an app that binds a domain twice and takes one binding back loses the route of the
  other; a reconcile drops the routes of bindings, as it loads those of rows; deleting an app leaves
  its bindings.  Two domains of one slug share an ID: binding the second replaces the route of the
  first, taking one back removes the other's, the split of one is answered for the other, and after
  a reconcile the manager remembers one of them.  `RoutesFollowDomains` says what holds beside that.
- *Accounts*: a login that checked the old password before a reset gets a token with the version
  after it.  `AccountsAreSafe` speaks of tokens issued before a reset and so does not exclude it.
- *S3*: a refusal to complete that comes as an answer 200 is reported as a good backup, and its upload
  stays open until it is pruned (`"misread"`, exempt in `BackupIsWholeDump` and `NoOrphanUpload`).
- *Agent*: the collector is bound to the first session's context; after a reconnect no container is
  streamed.  The backoff's exponent is never reset.
- *Retention*: `AddDate` carries 31 May minus three months over to 3 March (2 March in a leap year),
  and on 1 June the cutoff is 1 March: a backup of 2 March, the newest of its month, is deleted on
  the last day of May and within the rule the day after
  (`specs/05-REGISTRY-AND-STREAMING-BACKUPS-SPEC.md:476`: "retain 1 per month for 12 months").
  `PromisedBackupsStay` speaks of backups that were never too old before (`PromisedSince`); with
  `Promised` in its place TLC finds that case at once.
- *Samples*: the hour of a row is that of the tick, every ten minutes, so samples that come after the
  last tick of an hour are in no row; a sample on the hour exactly can be in two.  The first tick after a
  restart replaces the row of the current hour by one of the samples since.
- *Hubs*: a Subscribe handled after the client unregistered makes a session that nobody removes
  until a connection comes to that address; it takes the session's place and with it the entries of
  the index, so that it gets frames it did not ask for, also after it has gone and come again
  (`inherited`).  Of two handlers at one address, the first to end removes the session of the other
  (`overlapped`).  `specs/04-AGENT-AND-TELEMETRY-SPEC.md:542` has, for a full channel, "Oldest
  message dropped, a warning frame is inserted": the warning takes the place that was freed, and the
  new frame is dropped unless a writer has made room meanwhile.  A pong after Run has ended is sent
  on a closed channel (`hubPanic`, exempt once Run has stopped).
- *Rate limiter*: a Stop during a cleanup leaves the loop waiting on a nil channel (`"deaf"`).
- *CLI*: overlapping saves lose a login (`overwrote`), though `config.go:28` calls the manager atomic
  and thread-safe.  `stack deploy <file>` creates the stack first, and names are unique, so a retry
  after a failure stops there; a long deploy is cut off by the client's 30 seconds and rolled back.
- *Shutdown*: `main.go` runs its cleanups in the order they were registered, the store first: a backup
  that ends meanwhile cannot be recorded.

### The properties

Build manager:
`OnePlace` - no build lost or run twice; `CancelsAreLive` - the cancels map is exactly the
contexts that can still be cancelled; `NoOrphanRow` - every unfinished row has one of three
explanations (Close, a Cancel under way, a Cancel whose write failed); `CancelSticks` - a stopped
build's row stays cancelled; `ImagePublishedBeforeUse`; `ClosedIsQuiet` - nothing happens after
Close returned; `ImplementsBuildQueue`, `BuildQueueMoves` - the refinement, safety and progress;
`AcceptedFinishes`; `CloseReturns`.

Agent server:
`MapHoldsLiveHandlers` - every entry will be removed by the handler it belongs to, if by nobody
else; `OpenIsRegisteredOrEvicted` - a connected node is in the map, but for the eviction found;
`OfflineWhenAllGone` - the row follows the last handler; `PendingIsInProgress` - no leaked
entries; `NobodyWaitsOnDeadSession`, `DispatchEnds` - no wait without an answer to come, but for
the eviction; `StatusRecovers`.

Scheduler:
`LiveLoopIsOwned` - a loop that polls is the one Stop would stop; `FiresOnce` - no job is worked on
for a due time its schedule has moved on from; `NoRunLost` - a schedule moves on only after an
attempt; `RunsAreRecorded`; `NextFollowsCron` - `next_run_at` is never later than the next match of
the row's own expression; `DueRuns` - nothing due stays due while a loop polls; `StopReturns`.

Backup path: `BackupIsWholeDump` - what lies in S3, is reported good or restored is every part of a
dump that ended well; `NoOrphanUpload` - an upload that stays open has an abort that failed, an
answer misread or a crash, and pruning takes none that could complete; `StartedBackupReturns`;
`PromisedBackupsStay` - pruning with an earlier clock has never deleted what the rules promise now
and have promised since; `NextIsFirstMatch`.

Server, agent and client (`MCServerParts` states each for its part): `AccountsAreSafe` - whoever is
let in had a live token when the request came; the CLI's file is whole and keeps its logins;
`StacksAreWhole` - a deploy replaces everything or nothing (but for `unreturned`), in the order of
dependencies, also after earlier ones collided; `AppsStayInService` - a proven container or a
replica serves until someone stops it; `RoutesAreServed` - no domain bound for two apps, no route or
split left that nobody asked for, no answer of a domain with another ID, and a reconcile brings all
views together, whichever domains have one ID; `AgentStreamsAreOwned` - at most one stream per
container, one that can be stopped, none after Close; `FramesGoToOpenChannels` - the lists of the
hubs name open channels, and the telemetry hub's index the sessions that asked and those that
displaced one which did; `RingKeepsNewest` - readers get the newest samples in order and each range
whole, and an hourly row is what the buffer held of its hour when it was read; `LimitsHold` -
neither more nor less than the limit.

The invariants of these two runs contain the types of their modules: what a `TypeOK` of `Accounts`
adds are its foreign keys, and that of `MultipartUpload` the limits on goroutines and results.

## 4. The theorems

They have the form `Spec => []P` (or `[][P]_vars`) of a specification without fairness, and hold for
every value of the constants that satisfies the assumptions.  These are as weak as the code allows:

| Assumption | What it says |
|---|---|
| `BuildManagerAssumption`, `FiniteWorkers` | the null value is no build, each build has a service; there is a worker, and finitely many; the queue has room for a build |
| `AgentServerAssumption` | null values are no elements, each actor is for one node, the three kinds of actor differ |
| `CronSchedulerAssumption` | what is said of `Next` in section 2, and that the kinds of actor differ |
| `MultipartUploadAssumption`, `AgentClientAssumption`, `HubsAssumption`, `IngressAssumption`, `AppDeployAssumption` | sizes and bounds are numbers, a channel holds a frame, there is an address, each domain has a slug, null values are no elements |
| `StacksAssumption` | names of services are numbers, since the order sorts them, and a text has finitely many |
| `AccountsAssumption`, `CliAssumption`, `TypedAssumption` | the administrator's address is an address, the default context a context; null values are no elements; what is typed are commands of the client |
| `RateLimitsAssumption` | sizes are positive; a bucket that idles until it is dropped is full by then |
| `RetentionAssumption`, `CronExprAssumption` | the counts of a policy are numbers; hours, days and weeks have a length, months begin one after the other and go back as far as a policy asks; the year has a month |
| `SamplesAssumption` | sizes are positive, values, stamps and bounds are numbers |

*Build manager.*  `Typed` (types, and the shape that ties a worker's job to its program counter) is
inductive.  `Places` adds where a build can be and what its context is in each place: `OnePlace`
is not inductive without it, as "a context that is live is held by somebody" is what makes the
queue, the workers and the finished builds disjoint.  `Rows` adds what each status means while a
worker is at each step; `NoOrphanRow`, `CancelSticks` and `ImagePublishedBeforeUse` follow.  For
`ClosedIsQuiet` the invariant is that after Close returned every worker has exited.

*Agent server.*  `Registry` relates map, handlers, connections and rows; `OnlineHasHandler` (an
online row has a handler that has yet to write offline) is what makes `OfflineWhenAllGone`
inductive, and `OpenIsSetUp` says that the handler of an open connection has not begun to leave.
`Dispatches` says who will answer a waiting command: the session is in the map, so whoever removes
it sweeps it, or its own handler has removed it and has yet to sweep.  A command can start to wait
only on an open connection, and by `Registry` an open one is in the map or evicted; that closes
the window between the lookup and the sweep.

*Scheduler.*  `Locked` says that whoever is inside a poll holds `s.mu`, `Clocks` that no tick and
no poll is ahead of the clock.  `Dues` orders the due times of a schedule no stale row was written
to: those replaced have passed and lie before the row's, and before every one a poll still works
on; the row's is not after the next match.  It is needed because `FiresOnce` alone forgets how the
times relate: that a due time is new follows from its being later than all that were replaced.
`FiresOnce` and `NextFollowsCron` follow from `Dues`.  `Logged` adds that a job that is about to be
updated was attempted, from which `NoRunLost` and `RunsAreRecorded` follow.

*The refinement.*  `QueueNext` takes the actions of the build manager one by one: an `EnqueueSend`
that finds room is an `Accept`, `WorkerTake` a `Start`, `Finish` an `End`, `CloseBegin` and
`CloseReturn` are `BeginShut` and `Shut`, and all others leave the waiting line as it is.  That a
free worker means a free slot (`SlotIsFree`) needs `Places`: each running build is the job of a
worker of its own, and workers are finitely many.

*One upload.*  `UploadInv` follows a part from the pipe to the object.  `PartsPlaced` says where parts
can be at each place of the reader; `PartsAccounted` that each is held by the reader, at a worker, in
the channel of results or collected, unless the upload has an error or no context, and then
nothing completes it; `DumpSeen` that a reader which goes on to complete it has seen the dump end well.
`Stored` and `Reported` tie what S3 holds and what the backup said to where the client is.

*Retention.*  `EvaluateIs` is the lemma that carries it: the sort, the four loops and the cut come
down to `Promised`, cut to the newest.  `NewestFirstIs` says what the sort gives (the rank of a
backup is an injection into as many numbers), `LoopIs` what a loop keeps.  `PromisesKept` is then
inductive because what has been promised all along only shrinks (`PromisedShrinks`): the hourly,
daily and weekly cutoffs never go back, for the monthly one `PromisedSince` asks for every moment
since the backup was made, and a new backup makes no older one the newest of its bucket.

*Cron expressions.*  The calendar first: `SkipsHour`, `SkipsDay`, `SkipsMonth` say that up to the minute
the search jumps to, the hour, the day or the month stays what it is, so none of the minutes
between matches; for the month this needs that each day of a year lies in one month (`MonthIs`).
`CronNextIs` is then what the search returns, from any minute.

The loops, the days before a month and the search are recursive functions.  What each computes is
proved from a closed form: it satisfies the recursion, so the function exists, and of the places where
the function differs from it there would be a least one (`Least`), at which the recursion
refutes the difference.

*Accounts.*  `AuthMiddleware` reads three times.  `BadTokensAreRefused` is the strengthening: a token
that was no good when its row was read is refused by one of the reads left.  It is inductive because
rows only age (`UsersAge`, a theorem itself): an ID is never used again and a `session_version` never
goes down.

*CLI.*  `WholeSaves` speaks of the file an invocation is about to write, `FilesKeep` of its tokens as
long as nobody saved since it loaded: without both, nothing is known of a file that is replaced.

*Rate limiters.*  The window's record is a tail of what was granted, and all before it has left the
window: so a shorter record is no reason to grant or to refuse.  For the bucket, what may be taken
now and what was let through since any time are together at most a full bucket and what was
added since, and for one time at least that.  That time is when it was last full, and a
bucket that was dropped counts as full: here the assumption about idling is needed.

*Agent client.*  A stream that sends is the one `d.streams` holds or belongs to a context that has
ended; a session that is over is never live again (`SessionsOpened`), so no stream started for it
becomes one of a later session.

*Hubs.*  A client leaves the list before its channel is closed, by whoever is first; one that is not
registered yet has an open channel.  In the telemetry hub `IndexIs` says that index and sessions agree but
for what is `inherited`, and `SessionsOwned` whose session an address can have: the one of a
handler that has not unregistered, or nobody's.  `TopicsAreIndexed` follows; the types of the senders
(`SendersTyped`) are needed for any number of them.

*Samples.*  `RingInv` says where each point is: the one pushed k points ago lies k places behind the
head, round the array, and the head is the last place written until the array is full.  So what the
buffer gives is the end of `history`, whatever the stamps, and a range of the one is a range of the
other; `RangeIs` says what the loop of `GetRange` keeps.  `SortedIs` says that a k-th value exists
and where it lies; with both, a row tells the truth of its samples (`AggregateTells`).  `RowsInv` is
that each row was made from the samples `rolledUp` names, and it survives a restart because those
are history of their own.

*Applications.*  Only a template's container has the application's name (`NamesDiffer`), and what a
request may still discard is its own and not in service yet (`UnprovenIsOwned`).  That is why two
overlapping updates do not take each other's version down.

*Ingress.*  Splits in any cache were accepted once for their domain (`SplitsAreAccepted`).  A second
route of one ID comes only of a load, which notes it in `twins`; a binding replaces what Caddy finds
by its ID.  `QuietReconcile` relates the steps of a reconcile that nothing runs beside to the rows
it has read and what it has loaded.

*Stacks.*  Some of the invariant holds however deploys interleave: the shape of each (`Shapes`:
what is left is in the order of the dependencies, which container replaces which, what is removed
was replaced), that two deploys never make the same container (`NewsDiffer`), and that every
container is one's own or nobody's (`Accounted`).  The rest is claimed of requests that have not
collided since the stack was last at rest (`Undisturbed`): every service that was up has a
witness, a container that no rollback and no finished deploy will remove, and that runs or will be
started again by the deploy that stopped it.  `StackDeployIsAllOrNothing` is not inductive without
it, as it speaks only of a stack at rest.  A deploy that is through with its last service hands
the witness over to its own container.  A request that begins with nothing else under way founds
all this anew (`StartFromRest`): what runs is a witness, what exists is accounted for, even where
an earlier collision left a half-done deploy.

*The parts together.*  `MCServerParts_proofs` shows that a step of the whole is a step of each part
or leaves it alone (`StepsOfParts`), so that the invariants above prove the properties of `server_parts`
as that run states them.  The limiters share a clock: each invariant is claimed where its limiter
runs.

The invariants were checked by TLC before they were proved.  What stays with TLC:

- Liveness (`build_live`, `agent_live`, `cron_live`, `StartedBackupReturns`) and `BuildQueueMoves`:
  fairness and `ENABLED` are beyond the prover.

Every safety invariant and every action property of the runs is proved, but for those of the
runs that expect a violation.

## 5. Not modelled, and the plan

Left out of the modelled parts is said with each module.  Left out altogether:

- *Build strategies, registry manager, PTY sessions, git clone*: one external process or stream each,
  with an outcome; `BuildManager` has the outcome of a build and a clone.
- *Crypto vault, request signing*: cryptography.
- *Configuration resolution*: a function over strings; its order of dependencies is the algorithm
  `Stacks` has as `ResolveDeploymentOrder`.
- *Git webhooks, the deploy webhook's handler*: a delivery is checked by itself and becomes an
  `Enqueue` or a `DeployApp`, which are modelled, and so is the webhook's bucket.
- *Notification dispatcher*: a queue with two workers; nothing in the program closes it.
- *Operations on single rows* (organizations, tags, destinations, databases, channels,
  integrations): one statement, of which a model would repeat the text.
- *A crash in the middle of a stack's deployment* leaves its status at "deploying"; nothing in the
  code takes it up again.
- *Wiring and shutdown of the process, web console, payloads of Docker and Caddy*.

What is left to do, in this order:

1. `Ingress`: after how many reconciles all views agree when calls to Caddy fail in between.
2. The steps of `CronScheduler` and `MultipartUpload` joined: a job that runs is one upload, so that
   a recorded due time has an object or an error that explains why not.
3. The notification dispatcher and the deploy webhook's handler, should the program come to close
   the one and to filter in the other.
