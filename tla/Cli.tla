----------------------------------- MODULE Cli -----------------------------------
(***************************************************************************)
(* The command line client, cmd/pikpik-cli: the requests APIClient can     *)
(* send, the requests every command sends, and the configuration file      *)
(* that `login` and `context use` read, change and replace as a whole,     *)
(* while other invocations of the program do the same.                     *)
(*                                                                         *)
(* A token is known by the role of its user.  Flags, printing and the      *)
(* PIKPIK_* environment are left out; a command that exits over a missing  *)
(* argument does nothing here.  `init` only writes .pikpik.yml.            *)
(***************************************************************************)
EXTENDS ApiRoutes, Sequences

CONSTANTS Invocations,   \* processes of the CLI, each free for the next command when one ends
          ContextNames, DefaultContext,   \* "default" is one of the names
          CliTokens,     \* roles of the tokens that log in
          Typed,         \* the commands typed: a subset of CliCommands
          MaxLogins,     \* bound: replacements of the file
          NoConfig       \* the file does not exist

VARIABLES cliFile,       \* ~/.pikpik/config.json
          cli,           \* what each invocation is doing
          saves,         \* how many times the file has been replaced
          overwrote,     \* a save replaced a file newer than the one it had loaded
          loggedIn       \* the token last saved for each context

cliVars == <<cliFile, cli, saves, overwrote, loggedIn>>
--------------------------------------------------------------------------------
(* The requests of APIClient, by the operation the server runs for them. *)

AccountRequests == {"Login", "GetCurrentUser"}
MachineRequests ==
    {"ListNodes", "UpdateNodeAvailability", "GetJoinTokens", "ListMachines", "GetMachine",
     "DeleteMachine", "JoinSwarmCluster", "GetMachineMetrics", "GetMachineEnrollCommand"}
AppRequests == {"ListApps", "GetApp", "CreateApp", "DeployApp", "GetAppTraffic", "SetAppTraffic"}
DatabaseRequests ==
    {"ListDatabases", "CreateDatabase", "CreateBackup", "ListBackups", "RestoreBackup",
     "PruneSystem"}
ProjectRequests == {"ListProjects", "CreateProject", "DeleteProject", "ListTags", "InspectCompose"}
StreamRequests == {"WebSocket", "Pty"}   \* dialled with WebSocketDialer
StackRequestSet ==
    {"ListStacks", "GetStack", "CreateStack", "DeployStack", "RestartStack", "StopStack",
     "DeleteStack", "StackLogs"}
NetworkRequests ==
    {"ListNetworks", "GetNetwork", "CreateNetwork", "DeleteNetwork", "PruneNetworks",
     "ListVolumes", "GetVolume", "CreateVolume", "DeleteVolume", "PruneVolumes"}
IngressRequests ==
    {"ListDomains", "BindDomain", "DeleteDomain", "UploadCertificate", "ReconcileIngress",
     "GetCaddyConfig", "GetRegistryStatus", "ListRepositories", "GetRegistryCredentials",
     "RotateRegistryCredentials", "GarbageCollectRegistry"}
TemplateRequests ==
    {"ListTemplates", "GetTemplate", "DeployTemplate", "ListBackupSchedules",
     "CreateBackupSchedule", "GetBackupSchedule", "DeleteBackupSchedule",
     "ListNotificationChannels", "CreateNotificationChannel", "DeleteNotificationChannel",
     "TestNotificationChannel"}
TeamRequests ==
    {"ListUsers", "InviteUser", "UpdateUserRole", "DeleteUser", "ResetUserPassword",
     "ListIntegrations", "CreateIntegration", "GetIntegration", "DeleteIntegration",
     "TestIntegration"}

ClientRequests ==
    AccountRequests \cup MachineRequests \cup AppRequests \cup DatabaseRequests
    \cup ProjectRequests \cup StreamRequests \cup StackRequestSet \cup NetworkRequests
    \cup IngressRequests \cup TemplateRequests \cup TeamRequests
--------------------------------------------------------------------------------
(* The commands that talk to the server: the requests each sends, in order. *)

Single(requests) == {<<op>> : op \in requests}

ProjectCommands == Single({"CreateProject", "DeleteProject", "ListProjects"})
AppCommands == Single({"ListApps", "GetAppTraffic", "SetAppTraffic"})
NodeCommands == Single({"ListTags", "ListNodes", "UpdateNodeAvailability", "GetJoinTokens"})
\* `deploy -f` creates an app from a compose file once the server has looked at it.
DeployCommands == {<<"InspectCompose", "CreateApp">>, <<"DeployApp">>}
WatchCommands == Single({"WebSocket"})   \* logs and stats
DbCommands == Single({"CreateBackup", "ListBackups", "RestoreBackup"})
PruneCommands == Single({"PruneSystem"})
ExecCommands == Single({"Pty"})
\* `stack deploy` of a file creates the stack first, of a name it does not.
StackDeployCommands == {<<"CreateStack", "DeployStack">>, <<"DeployStack">>}
StackCommands ==
    Single({"ListStacks", "GetStack", "StopStack", "RestartStack", "DeleteStack", "StackLogs"})
NetworkCommands ==
    Single({"ListNetworks", "GetNetwork", "CreateNetwork", "DeleteNetwork", "PruneNetworks"})
VolumeCommands ==
    Single({"ListVolumes", "GetVolume", "CreateVolume", "DeleteVolume", "PruneVolumes"})
MachineCommands ==
    Single({"ListMachines", "GetMachine", "DeleteMachine", "JoinSwarmCluster",
            "GetMachineEnrollCommand", "GetMachineMetrics"})
DomainCommands ==
    Single({"ListDomains", "BindDomain", "DeleteDomain", "UploadCertificate", "ReconcileIngress",
            "GetCaddyConfig"})
RegistryCommands ==
    Single({"GetRegistryStatus", "ListRepositories", "GetRegistryCredentials",
            "RotateRegistryCredentials", "GarbageCollectRegistry"})
TemplateCommands == Single({"ListTemplates", "GetTemplate", "DeployTemplate"})
ScheduleCommands ==
    Single({"ListBackupSchedules", "CreateBackupSchedule", "DeleteBackupSchedule"})
NotifyCommands ==
    Single({"ListNotificationChannels", "CreateNotificationChannel", "TestNotificationChannel",
            "DeleteNotificationChannel"})
UserCommands ==
    Single({"ListUsers", "InviteUser", "UpdateUserRole", "ResetUserPassword", "DeleteUser"})
IntegrationCommands ==
    Single({"ListIntegrations", "CreateIntegration", "TestIntegration", "DeleteIntegration"})

\* main's switch over the command word; the rest of it is below.
CliCommands ==
    ProjectCommands \cup AppCommands \cup NodeCommands \cup DeployCommands \cup WatchCommands
    \cup DbCommands \cup PruneCommands \cup ExecCommands \cup StackDeployCommands
    \cup StackCommands \cup NetworkCommands \cup VolumeCommands \cup MachineCommands
    \cup DomainCommands \cup RegistryCommands \cup TemplateCommands \cup ScheduleCommands
    \cup NotifyCommands \cup UserCommands \cup IntegrationCommands

ASSUME TypedAssumption == Typed \subseteq CliCommands
--------------------------------------------------------------------------------
(* The configuration: the current context, and the token of each context there is. *)

NoTokens == [c \in {} |-> ""]
Config == [current : ContextNames, tokens : UNION {[S -> CliTokens] : S \in SUBSET ContextNames}]

ASSUME CliAssumption ==
    /\ DefaultContext \in ContextNames /\ NoConfig \notin ContextNames \cup Config
    /\ MaxLogins \in Nat

\* Load: a file that is not there is an empty configuration.
Load == IF cliFile = NoConfig THEN [current |-> DefaultContext, tokens |-> NoTokens] ELSE cliFile

HasContext(config, c) == c \in DOMAIN config.tokens
SetToken(tokens, c, t) == [x \in DOMAIN tokens \cup {c} |-> IF x = c THEN t ELSE tokens[x]]
LogIn(config, c, t) == [current |-> c, tokens |-> SetToken(config.tokens, c, t)]

CliIdle == [at |-> "idle"]
Becomes(p, state) == cli' = [cli EXCEPT ![p] = state]
InCli(p, place) == cli[p].at = place

CliInit ==
    /\ cliFile = NoConfig
    /\ cli = [p \in Invocations |-> CliIdle]
    /\ saves = 0
    /\ overwrote = FALSE
    /\ loggedIn = NoTokens
--------------------------------------------------------------------------------
(* `login` and `context use`. *)

\* runLogin loads the file, and then asks for the password ...
BeginLogin(p) ==
    /\ InCli(p, "idle")
    /\ Becomes(p, [at |-> "asking", config |-> Load, seen |-> saves])
    /\ UNCHANGED <<cliFile, saves, overwrote, loggedIn>>

\* ... and the server for a token; a token given with -t is kept even if the server refuses it.
AnswerLogin(p, c, t) ==
    /\ InCli(p, "asking")
    /\ Becomes(p, [at |-> "saving", config |-> LogIn(cli[p].config, c, t), seen |-> cli[p].seen,
                   login |-> c])
    /\ UNCHANGED <<cliFile, saves, overwrote, loggedIn>>

RefuseLogin(p) ==
    /\ InCli(p, "asking")
    /\ Becomes(p, CliIdle)
    /\ UNCHANGED <<cliFile, saves, overwrote, loggedIn>>

UseContext(p, c) ==
    /\ InCli(p, "idle") /\ HasContext(Load, c)
    /\ Becomes(p, [at |-> "saving", config |-> [Load EXCEPT !.current = c], seen |-> saves,
                   login |-> NoConfig])
    /\ UNCHANGED <<cliFile, saves, overwrote, loggedIn>>

\* Save writes and syncs a file of its own; when that fails, or the process is killed, the old
\* configuration is still there.
WriteTemp(p) ==
    /\ InCli(p, "saving")
    /\ \/ Becomes(p, [cli[p] EXCEPT !.at = "written"])
       \/ Becomes(p, CliIdle)
    /\ UNCHANGED <<cliFile, saves, overwrote, loggedIn>>

\* os.Rename: one step, whatever the file holds by now.
RenameTemp(p) ==
    /\ InCli(p, "written") /\ saves < MaxLogins
    /\ \/ /\ cliFile' = cli[p].config
          /\ saves' = saves + 1
          /\ overwrote' = (overwrote \/ cli[p].seen # saves)
          /\ loggedIn' = IF cli[p].login = NoConfig THEN loggedIn
                         ELSE SetToken(loggedIn, cli[p].login, cli[p].config.tokens[cli[p].login])
       \/ UNCHANGED <<cliFile, saves, overwrote, loggedIn>>
    /\ Becomes(p, CliIdle)
--------------------------------------------------------------------------------
(* The other commands. *)

\* getClient: the token of the current context, which must exist.
GetClient(p, command) ==
    /\ InCli(p, "idle") /\ HasContext(Load, Load.current)
    /\ Becomes(p, [at |-> "running", todo |-> command, token |-> Load.tokens[Load.current]])
    /\ UNCHANGED <<cliFile, saves, overwrote, loggedIn>>

\* doRequest: the next request, only once this one was answered well; any error, the 30 s timeout
\* too, ends the command.
DoRequest(p) ==
    LET op == Head(cli[p].todo) IN
    /\ InCli(p, "running") /\ op \notin StreamRequests
    /\ \/ /\ IsRoleAllowed(cli[p].token, MinRole[op])
          /\ Becomes(p, IF Len(cli[p].todo) = 1 THEN CliIdle
                        ELSE [cli[p] EXCEPT !.todo = Tail(@)])
       \/ Becomes(p, CliIdle)
    /\ UNCHANGED <<cliFile, saves, overwrote, loggedIn>>

\* logs, stats and exec show frames until the stream ends, the read deadline passes or they are
\* interrupted.
DialStream(p) ==
    /\ InCli(p, "running") /\ Head(cli[p].todo) \in StreamRequests
    /\ \/ /\ IsRoleAllowed(cli[p].token, MinRole[Head(cli[p].todo)])
          /\ Becomes(p, [cli[p] EXCEPT !.at = "watching"])
       \/ Becomes(p, CliIdle)
    /\ UNCHANGED <<cliFile, saves, overwrote, loggedIn>>

EndWatch(p) ==
    /\ InCli(p, "watching")
    /\ Becomes(p, CliIdle)
    /\ UNCHANGED <<cliFile, saves, overwrote, loggedIn>>
--------------------------------------------------------------------------------
CliNext == \E p \in Invocations :
    \/ BeginLogin(p) \/ RefuseLogin(p) \/ WriteTemp(p) \/ RenameTemp(p)
    \/ DoRequest(p) \/ DialStream(p) \/ EndWatch(p)
    \/ \E c \in ContextNames : UseContext(p, c) \/ \E t \in CliTokens : AnswerLogin(p, c, t)
    \/ \E command \in Typed : GetClient(p, command)

CliSpec == CliInit /\ [][CliNext]_cliVars
--------------------------------------------------------------------------------
(* Types of the client's variables; what is typed is a command. *)
CliTypeOK ==
    /\ cliFile \in Config \cup {NoConfig}
    /\ Typed \subseteq CliCommands
    /\ \A p \in Invocations :
          cli[p].at \in {"idle", "asking", "saving", "written", "running", "watching"}

(* The configuration a command finds is always a whole one, whose current context exists; a login *)
(* is lost only if another invocation saved between the load and the save of a third.  Whatever   *)
(* an invocation has sent so far, its token's role was allowed to.  Every request of a command is *)
(* one that APIClient has and the server routes.                                                  *)
LoginsAreKept ==
    /\ cliFile # NoConfig => HasContext(cliFile, cliFile.current)
    /\ overwrote \/ \A c \in DOMAIN loggedIn :
          cliFile # NoConfig /\ HasContext(cliFile, c) /\ cliFile.tokens[c] = loggedIn[c]
    /\ \A p \in Invocations : InCli(p, "watching") =>
          IsRoleAllowed(cli[p].token, MinRole[Head(cli[p].todo)])
    /\ \A command \in CliCommands : \A i \in DOMAIN command :
          command[i] \in ClientRequests /\ command[i] \in DOMAIN MinRole
==================================================================================
