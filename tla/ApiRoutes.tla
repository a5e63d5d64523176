-------------------------------- MODULE ApiRoutes --------------------------------
(***************************************************************************)
(* The route table of pkg/api/routes.go: every controller operation with   *)
(* the least role its route asks for.  "public" routes skip the            *)
(* middleware.  Methods, paths, decoding and status codes are left out.    *)
(***************************************************************************)
EXTENDS Naturals

\* roleLevels; a role that is not in the table has level 0.
Level(role) ==
    CASE role = "viewer" -> 1 [] role = "developer" -> 2 [] role = "admin" -> 3
      [] role = "owner" -> 4 [] OTHER -> 0

IsRoleAllowed(userRole, requiredRole) ==
    \/ requiredRole = "public"
    \/ Level(userRole) # 0 /\ Level(userRole) >= Level(requiredRole)

AuthRoutes ==
    [Login |-> "public", Logout |-> "viewer", GetCurrentUser |-> "viewer",
     ListAPITokens |-> "developer", CreateAPIToken |-> "admin", DeleteAPIToken |-> "admin"]
ProjectRoutes ==
    [ListOrganizations |-> "viewer", CreateOrganization |-> "admin", ListProjects |-> "viewer",
     CreateProject |-> "developer", GetProject |-> "viewer", UpdateProject |-> "developer",
     DeleteProject |-> "admin", ListTags |-> "viewer"]
AppRoutes ==
    [ListApps |-> "viewer", CreateApp |-> "developer", InspectCompose |-> "viewer",
     GetApp |-> "viewer", UpdateApp |-> "developer", DeleteApp |-> "admin",
     DeployApp |-> "developer", RestartApp |-> "developer", StopApp |-> "developer",
     StartApp |-> "developer"]
AppConfigRoutes ==
    [GetAppEnv |-> "developer", SetAppEnv |-> "developer", GetAppTraffic |-> "viewer",
     SetAppTraffic |-> "developer", Nudge |-> "public"]
StackRoutes ==
    [ListStacks |-> "viewer", CreateStack |-> "developer", GetStack |-> "viewer",
     UpdateStack |-> "developer", DeployStack |-> "developer", RestartStack |-> "developer",
     StopStack |-> "developer", StackLogs |-> "viewer", DeleteStack |-> "admin"]
NetworkRoutes ==
    [ListNetworks |-> "viewer", CreateNetwork |-> "developer", PruneNetworks |-> "admin",
     GetNetwork |-> "viewer", DeleteNetwork |-> "admin",
     ListVolumes |-> "viewer", CreateVolume |-> "developer", PruneVolumes |-> "admin",
     GetVolume |-> "viewer", DeleteVolume |-> "admin"]
MachineRoutes ==
    [ListNodes |-> "viewer", GetNode |-> "viewer", UpdateNodeAvailability |-> "admin",
     DeleteNode |-> "admin", GetJoinTokens |-> "admin", ListMachines |-> "viewer",
     GetMachineEnrollCommand |-> "admin", GetMachine |-> "viewer", DeleteMachine |-> "admin",
     GetMachineMetrics |-> "viewer", JoinSwarmCluster |-> "admin"]
DatabaseRoutes ==
    [ListDatabases |-> "viewer", CreateDatabase |-> "developer", GetDatabase |-> "viewer",
     UpdateDatabase |-> "developer", RestartDatabase |-> "developer", DeleteDatabase |-> "owner"]
BackupRoutes ==
    [ListBackups |-> "developer", CreateBackup |-> "developer", GetBackup |-> "developer",
     RestoreBackup |-> "admin", DeleteBackup |-> "admin", ListBackupDestinations |-> "admin",
     CreateBackupDestination |-> "admin"]
ScheduleRoutes ==
    [ListBackupSchedules |-> "developer", CreateBackupSchedule |-> "admin",
     GetBackupSchedule |-> "developer", UpdateBackupSchedule |-> "admin",
     DeleteBackupSchedule |-> "admin"]
IngressRoutes ==
    [ListDomains |-> "viewer", BindDomain |-> "developer", DeleteDomain |-> "developer",
     UploadCertificate |-> "admin", ReconcileIngress |-> "admin", GetCaddyConfig |-> "admin",
     Ask |-> "public"]
SystemRoutes ==
    [GetRegistryStatus |-> "viewer", ListRepositories |-> "viewer",
     GetRegistryCredentials |-> "developer", RotateRegistryCredentials |-> "admin",
     GarbageCollectRegistry |-> "admin", GetSystemInfo |-> "viewer", GetDiskUsage |-> "viewer",
     PruneSystem |-> "admin"]
StreamRoutes ==
    [WebSocket |-> "viewer", Pty |-> "developer", Events |-> "viewer", Logs |-> "viewer",
     Stats |-> "viewer"]
BuildRoutes ==
    [HandleGitHubWebhook |-> "public", HandleGenericGitWebhook |-> "public",
     ListAppBuilds |-> "viewer", GetBuild |-> "viewer", Rebuild |-> "developer",
     BuildStream |-> "viewer"]
TemplateRoutes ==
    [ListTemplates |-> "viewer", GetTemplate |-> "viewer", DeployTemplate |-> "developer"]
ChannelRoutes ==
    [ListNotificationChannels |-> "viewer", CreateNotificationChannel |-> "admin",
     UpdateNotificationChannel |-> "admin", DeleteNotificationChannel |-> "admin",
     TestNotificationChannel |-> "developer"]
TeamRoutes ==
    [ListUsers |-> "admin", InviteUser |-> "admin", AcceptInvitation |-> "public",
     UpdateUserRole |-> "owner", DeleteUser |-> "owner", ResetUserPassword |-> "admin"]
MemberRoutes ==
    [ListProjectMembers |-> "viewer", SetProjectMember |-> "admin",
     RemoveProjectMember |-> "admin"]
IntegrationRoutes ==
    [ListIntegrations |-> "viewer", CreateIntegration |-> "admin", GetIntegration |-> "viewer",
     UpdateIntegration |-> "admin", DeleteIntegration |-> "admin",
     TestIntegration |-> "developer"]

RouteTables ==
    {AuthRoutes, ProjectRoutes, AppRoutes, AppConfigRoutes, StackRoutes, NetworkRoutes,
     MachineRoutes, DatabaseRoutes, BackupRoutes, ScheduleRoutes, IngressRoutes, SystemRoutes,
     StreamRoutes, BuildRoutes, TemplateRoutes, ChannelRoutes, TeamRoutes, MemberRoutes,
     IntegrationRoutes}

\* Every operation is in one table.
MinRole ==
    [op \in UNION {DOMAIN table : table \in RouteTables} |->
        (CHOOSE table \in RouteTables : op \in DOMAIN table)[op]]
=================================================================================
