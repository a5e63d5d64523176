----------------------------- MODULE Access_proofs -----------------------------
(***************************************************************************)
(* Who is let in: the command line client with its tokens, for any number  *)
(* of invocations and contexts, the rate limiters, for any keys and        *)
(* limits, and the accounts.                                               *)
(***************************************************************************)
EXTENDS Accounts, Cli, RateLimits, SequenceTheorems, FiniteSetTheorems,
        WellFoundedInduction, TLAPS

(***************************************************************************)
(* The command line client.  An invocation that is about to replace the    *)
(* file holds a whole configuration, and as long as nobody else has saved  *)
(* since it loaded the file, one with every token of that file.            *)
(***************************************************************************)
Tokens == UNION {[S -> CliTokens] : S \in SUBSET ContextNames}

\* What an invocation can hold.
Asking  == [at : {"asking"}, config : Config, seen : Nat]
Saving  == [at : {"saving", "written"}, config : Config, seen : Nat,
            login : ContextNames \cup {NoConfig}]
Calling == [at : {"running", "watching"}, todo : Seq(ClientRequests) \ {<<>>}, token : CliTokens]
CliState == {CliIdle} \cup Asking \cup Saving \cup Calling

CliTyped ==
    /\ cliFile \in Config \cup {NoConfig}
    /\ saves \in Nat /\ overwrote \in BOOLEAN /\ loggedIn \in Tokens
    /\ cli \in [Invocations -> CliState]

IsWhole(config) == HasContext(config, config.current)

\* tokens has every token of the configuration that is loaded now, but for that of c.
Keeps(tokens, c) ==
    \A x \in DOMAIN Load.tokens : x # c => x \in DOMAIN tokens /\ tokens[x] = Load.tokens[x]

\* What an invocation will write.
WholeSaves == \A p \in Invocations : cli[p].at \in {"saving", "written"} =>
    /\ IsWhole(cli[p].config)
    /\ cli[p].login # NoConfig => HasContext(cli[p].config, cli[p].login)

\* Nobody saved since p loaded the file.
Current(p) == cli[p].seen = saves

FilesKeep ==
    /\ \A p \in Invocations : cli[p].at \in {"asking", "saving", "written"} => cli[p].seen <= saves
    /\ \A p \in Invocations : InCli(p, "asking") /\ Current(p) => cli[p].config = Load
    /\ \A p \in Invocations : cli[p].at \in {"saving", "written"} /\ Current(p) =>
          Keeps(cli[p].config.tokens, cli[p].login)
    /\ cliFile # NoConfig => IsWhole(cliFile)
    /\ overwrote \/ \A c \in DOMAIN loggedIn :
          c \in DOMAIN Load.tokens /\ Load.tokens[c] = loggedIn[c]

WatchesAreAllowed == \A p \in Invocations : InCli(p, "watching") =>
    IsRoleAllowed(cli[p].token, MinRole[Head(cli[p].todo)])

CliInv == CliTyped /\ WholeSaves /\ FilesKeep /\ WatchesAreAllowed
-----------------------------------------------------------------------------------
\* What a command sends is known to APIClient and to the routes; no command sends nothing.
RequestsAreKnown(commands) ==
    \A cmd \in commands :
        /\ cmd \in Seq(ClientRequests) \ {<<>>}
        /\ \A i \in DOMAIN cmd : cmd[i] \in DOMAIN MinRole

LEMMA RoutedOperations ==
    ASSUME NEW table \in RouteTables, NEW op \in DOMAIN table
    PROVE  op \in DOMAIN MinRole
BY DEF MinRole

LEMMA SingleRequests ==
    ASSUME NEW ops, ops \subseteq ClientRequests, ops \subseteq DOMAIN MinRole
    PROVE  RequestsAreKnown(Single(ops))
<1>1. SUFFICES ASSUME NEW op \in ops
               PROVE  /\ <<op>> \in Seq(ClientRequests) \ {<<>>}
                      /\ \A i \in DOMAIN <<op>> : <<op>>[i] \in DOMAIN MinRole
    BY DEF RequestsAreKnown, Single
<1> QED
    OBVIOUS

\* Every request is routed: each set of requests, by the table it is in.
LEMMA RequestsAreRouted == ClientRequests \subseteq DOMAIN MinRole
<1>1. AccountRequests \subseteq DOMAIN MinRole
    BY RoutedOperations DEF AccountRequests, RouteTables, AuthRoutes
<1>2. MachineRequests \subseteq DOMAIN MinRole
    BY RoutedOperations DEF MachineRequests, RouteTables, MachineRoutes
<1>3. AppRequests \subseteq DOMAIN MinRole
    <2>1. AppRequests \subseteq DOMAIN AppRoutes \cup DOMAIN AppConfigRoutes
        BY DEF AppRequests, AppRoutes, AppConfigRoutes
    <2> QED
        BY <2>1, RoutedOperations DEF RouteTables
<1>4. DatabaseRequests \subseteq DOMAIN MinRole
    <2>1. DatabaseRequests \subseteq DOMAIN DatabaseRoutes \cup DOMAIN BackupRoutes \cup DOMAIN SystemRoutes
        BY DEF DatabaseRequests, DatabaseRoutes, BackupRoutes, SystemRoutes
    <2> QED
        BY <2>1, RoutedOperations DEF RouteTables
<1>5. ProjectRequests \subseteq DOMAIN MinRole
    <2>1. ProjectRequests \subseteq DOMAIN ProjectRoutes \cup DOMAIN AppRoutes
        BY DEF ProjectRequests, ProjectRoutes, AppRoutes
    <2> QED
        BY <2>1, RoutedOperations DEF RouteTables
<1>6. StreamRequests \subseteq DOMAIN MinRole
    BY RoutedOperations DEF StreamRequests, RouteTables, StreamRoutes
<1>7. StackRequestSet \subseteq DOMAIN MinRole
    BY RoutedOperations DEF StackRequestSet, RouteTables, StackRoutes
<1>8. NetworkRequests \subseteq DOMAIN MinRole
    BY RoutedOperations DEF NetworkRequests, RouteTables, NetworkRoutes
<1>9. IngressRequests \subseteq DOMAIN MinRole
    <2>1. IngressRequests \subseteq DOMAIN IngressRoutes \cup DOMAIN SystemRoutes
        BY DEF IngressRequests, IngressRoutes, SystemRoutes
    <2> QED
        BY <2>1, RoutedOperations DEF RouteTables
<1>10. TemplateRequests \subseteq DOMAIN MinRole
    <2>1. TemplateRequests \subseteq DOMAIN TemplateRoutes \cup DOMAIN ScheduleRoutes \cup DOMAIN ChannelRoutes
        BY DEF TemplateRequests, TemplateRoutes, ScheduleRoutes, ChannelRoutes
    <2> QED
        BY <2>1, RoutedOperations DEF RouteTables
<1>11. TeamRequests \subseteq DOMAIN MinRole
    <2>1. TeamRequests \subseteq DOMAIN TeamRoutes \cup DOMAIN IntegrationRoutes
        BY DEF TeamRequests, TeamRoutes, IntegrationRoutes
    <2> QED
        BY <2>1, RoutedOperations DEF RouteTables
<1> QED
    BY <1>1, <1>2, <1>3, <1>4, <1>5, <1>6, <1>7, <1>8, <1>9, <1>10, <1>11 DEF ClientRequests

LEMMA CommandsAreKnown == RequestsAreKnown(CliCommands)
<1>1. ASSUME NEW ops, ops \subseteq ClientRequests PROVE RequestsAreKnown(Single(ops))
    BY <1>1, SingleRequests, RequestsAreRouted
<1>2. RequestsAreKnown(ProjectCommands)
    BY <1>1 DEF ProjectCommands, ClientRequests, ProjectRequests
<1>3. RequestsAreKnown(AppCommands)
    BY <1>1 DEF AppCommands, ClientRequests, AppRequests
<1>4. RequestsAreKnown(NodeCommands)
    BY <1>1 DEF NodeCommands, ClientRequests, ProjectRequests, MachineRequests
<1>5. RequestsAreKnown(DeployCommands) /\ RequestsAreKnown(StackDeployCommands)
    <2>1. /\ {"InspectCompose", "CreateApp", "DeployApp", "CreateStack", "DeployStack"}
                 \subseteq ClientRequests
          /\ {"InspectCompose", "CreateApp", "DeployApp", "CreateStack", "DeployStack"}
                 \subseteq DOMAIN MinRole
        BY RequestsAreRouted DEF ClientRequests, ProjectRequests, AppRequests, StackRequestSet
    <2> QED
        BY <2>1 DEF RequestsAreKnown, DeployCommands, StackDeployCommands
<1>6. RequestsAreKnown(WatchCommands) /\ RequestsAreKnown(ExecCommands)
    BY <1>1 DEF WatchCommands, ExecCommands, ClientRequests, StreamRequests
<1>7. RequestsAreKnown(DbCommands) /\ RequestsAreKnown(PruneCommands)
    BY <1>1 DEF DbCommands, PruneCommands, ClientRequests, DatabaseRequests
<1>8. RequestsAreKnown(StackCommands)
    BY <1>1 DEF StackCommands, ClientRequests, StackRequestSet
<1>9. RequestsAreKnown(NetworkCommands) /\ RequestsAreKnown(VolumeCommands)
    BY <1>1 DEF NetworkCommands, VolumeCommands, ClientRequests, NetworkRequests
<1>10. RequestsAreKnown(MachineCommands)
    BY <1>1 DEF MachineCommands, ClientRequests, MachineRequests
<1>11. RequestsAreKnown(DomainCommands) /\ RequestsAreKnown(RegistryCommands)
    BY <1>1 DEF DomainCommands, RegistryCommands, ClientRequests, IngressRequests
<1>12. RequestsAreKnown(TemplateCommands) /\ RequestsAreKnown(ScheduleCommands)
       /\ RequestsAreKnown(NotifyCommands)
    BY <1>1 DEF TemplateCommands, ScheduleCommands, NotifyCommands, ClientRequests, TemplateRequests
<1>13. RequestsAreKnown(UserCommands) /\ RequestsAreKnown(IntegrationCommands)
    BY <1>1 DEF UserCommands, IntegrationCommands, ClientRequests, TeamRequests
<1> QED
    BY <1>2, <1>3, <1>4, <1>5, <1>6, <1>7, <1>8, <1>9, <1>10, <1>11, <1>12, <1>13
       DEF CliCommands, RequestsAreKnown
-----------------------------------------------------------------------------------
LEMMA LoadedFile ==
    ASSUME CliTyped, FilesKeep
    PROVE  /\ Load \in Config
           /\ cliFile # NoConfig <=> cliFile \in Config
           /\ cliFile # NoConfig => Load = cliFile
           /\ cliFile = NoConfig => DOMAIN Load.tokens = {}
<1>1. NoTokens \in [{} -> CliTokens] /\ DOMAIN NoTokens = {}
    BY DEF NoTokens
<1>2. [current |-> DefaultContext, tokens |-> NoTokens] \in Config
    BY <1>1, CliAssumption DEF CliAssumption, Config
<1> QED
    BY <1>1, <1>2, CliAssumption DEF CliAssumption, CliTyped, Load

LEMMA SetTokenTyped ==
    ASSUME NEW tokens \in Tokens, NEW c \in ContextNames, NEW t \in CliTokens
    PROVE  /\ SetToken(tokens, c, t) \in Tokens
           /\ DOMAIN SetToken(tokens, c, t) = DOMAIN tokens \cup {c}
           /\ SetToken(tokens, c, t)[c] = t
           /\ \A x \in DOMAIN tokens : x # c => SetToken(tokens, c, t)[x] = tokens[x]
<1>1. PICK S \in SUBSET ContextNames : tokens \in [S -> CliTokens]
    BY DEF Tokens
<1>2. SetToken(tokens, c, t) \in [S \cup {c} -> CliTokens]
    BY <1>1 DEF SetToken
<1> QED
    BY <1>1, <1>2 DEF SetToken, Tokens

LEMMA WhatIsHeld ==
    ASSUME NEW state \in CliState
    PROVE  /\ state.at = "asking" => state \in Asking
           /\ state.at \in {"saving", "written"} => state \in Saving
           /\ state.at \in {"running", "watching"} => state \in Calling
BY DEF CliState, CliIdle, Asking, Saving, Calling

LEMMA CliInvInit == CliInit => CliInv
<1> SUFFICES ASSUME CliInit PROVE CliInv
    OBVIOUS
<1>1. NoTokens \in [{} -> CliTokens] /\ DOMAIN NoTokens = {}
    BY DEF NoTokens
<1>2. CliTyped
    BY <1>1 DEF CliInit, CliTyped, Tokens, CliState
<1>3. WholeSaves /\ WatchesAreAllowed
    BY DEF CliInit, WholeSaves, WatchesAreAllowed, CliIdle, InCli
<1>4. FilesKeep
    BY <1>1 DEF CliInit, FilesKeep, CliIdle, InCli
<1> QED
    BY <1>2, <1>3, <1>4 DEF CliInv

\* A step of p that keeps the file, and what the next state of p must be.
LEMMA FileIsKept ==
    ASSUME CliInv, NEW p \in Invocations, NEW state \in CliState, Becomes(p, state),
           UNCHANGED <<cliFile, saves, overwrote, loggedIn>>,
           state.at \in {"asking", "saving", "written"} => state.seen <= saves,
           state.at = "asking" => state.config = Load,
           state.at \in {"saving", "written"} =>
               /\ IsWhole(state.config)
               /\ state.login # NoConfig => HasContext(state.config, state.login)
               /\ state.seen = saves => Keeps(state.config.tokens, state.login),
           state.at = "watching" => IsRoleAllowed(state.token, MinRole[Head(state.todo)])
    PROVE  CliInv'
<1>1. /\ cli' \in [Invocations -> CliState] /\ cli'[p] = state
      /\ \A q \in Invocations : q # p => cli'[q] = cli[q]
    BY DEF CliInv, CliTyped, Becomes
<1>2. CliTyped'
    BY <1>1 DEF CliInv, CliTyped
<1>3. WholeSaves'
    BY <1>1 DEF CliInv, WholeSaves, IsWhole, HasContext
<1>4. Load' = Load
    BY DEF Load
<1>5. FilesKeep'
    BY <1>1, <1>4 DEF CliInv, FilesKeep, Current, InCli, Keeps, IsWhole, HasContext
<1>6. WatchesAreAllowed'
    BY <1>1 DEF CliInv, WatchesAreAllowed, InCli
<1> QED
    BY <1>2, <1>3, <1>5, <1>6 DEF CliInv

LEMMA CliInvNext == CliInv /\ [CliNext]_cliVars => CliInv'
<1> SUFFICES ASSUME CliInv, [CliNext]_cliVars PROVE CliInv'
    OBVIOUS
<1> DEFINE Same == UNCHANGED <<cliFile, saves, overwrote, loggedIn>>
<1>1. CASE UNCHANGED cliVars
    BY <1>1 DEF cliVars, CliInv, CliTyped, WholeSaves, FilesKeep, WatchesAreAllowed, Load, Keeps,
           Current, InCli, IsWhole, HasContext
<1> SUFFICES ASSUME NEW p \in Invocations,
                    \/ BeginLogin(p) \/ RefuseLogin(p) \/ WriteTemp(p) \/ RenameTemp(p)
                    \/ DoRequest(p) \/ DialStream(p) \/ EndWatch(p)
                    \/ \E c \in ContextNames :
                          UseContext(p, c) \/ \E t \in CliTokens : AnswerLogin(p, c, t)
                    \/ \E cmd \in Typed : GetClient(p, cmd)
             PROVE  CliInv'
    BY <1>1 DEF CliNext
<1>2. Load \in Config /\ saves \in Nat /\ cli[p] \in CliState
    BY LoadedFile DEF CliInv, CliTyped
<1>3. CliIdle \in CliState
    BY DEF CliState
<1>4. CASE Becomes(p, CliIdle) /\ Same
    BY <1>3, <1>4, FileIsKept DEF CliIdle
<1>5. CASE BeginLogin(p)
    <2>1. [at |-> "asking", config |-> Load, seen |-> saves] \in Asking
        BY <1>2 DEF Asking
    <2>2. [at |-> "asking", config |-> Load, seen |-> saves] \in CliState
        BY <2>1 DEF CliState
    <2>3. saves <= saves
        BY <1>2
    <2> QED
        BY <1>5, <2>2, <2>3, FileIsKept DEF BeginLogin
<1>6. CASE RefuseLogin(p)
    BY <1>4, <1>6 DEF RefuseLogin
<1>7. CASE WriteTemp(p)
    <2>1. CASE Becomes(p, CliIdle)
        BY <1>4, <1>7, <2>1 DEF WriteTemp
    <2>2. CASE Becomes(p, [cli[p] EXCEPT !.at = "written"])
        <3>1. cli[p] \in Saving
            BY <1>2, <1>7, WhatIsHeld DEF WriteTemp, InCli
        <3>2. PICK state \in Saving : state = [cli[p] EXCEPT !.at = "written"]
            BY <3>1 DEF Saving
        <3>3. /\ state.at = "written" /\ state.config = cli[p].config /\ state.seen = cli[p].seen
              /\ state.login = cli[p].login
            BY <3>1, <3>2 DEF Saving
        <3>4. /\ IsWhole(state.config) /\ state.seen <= saves
              /\ state.login # NoConfig => HasContext(state.config, state.login)
              /\ state.seen = saves => Keeps(state.config.tokens, state.login)
            BY <1>7, <3>3 DEF WriteTemp, InCli, CliInv, WholeSaves, FilesKeep, Current
        <3> QED
            BY <1>7, <2>2, <3>2, <3>3, <3>4, FileIsKept DEF WriteTemp, CliState
    <2> QED
        BY <1>7, <2>1, <2>2 DEF WriteTemp
<1>8. CASE RenameTemp(p)
    <2>1. CASE Same
        BY <1>4, <1>8, <2>1 DEF RenameTemp
    <2>2. CASE ~Same
        <3>1. /\ InCli(p, "written") /\ cliFile' = cli[p].config /\ saves' = saves + 1
              /\ overwrote' = (overwrote \/ cli[p].seen # saves)
              /\ loggedIn' = IF cli[p].login = NoConfig THEN loggedIn
                             ELSE SetToken(loggedIn, cli[p].login, cli[p].config.tokens[cli[p].login])
            BY <1>8, <2>2 DEF RenameTemp
        <3>2. cli' = [cli EXCEPT ![p] = CliIdle]
            BY <1>8 DEF RenameTemp, Becomes
        <3>3. cli[p] \in Saving /\ cli[p].config \in Config /\ IsWhole(cli[p].config)
            BY <1>2, <3>1, WhatIsHeld DEF InCli, Saving, CliInv, WholeSaves
        <3>4. /\ cli' \in [Invocations -> CliState] /\ cli'[p].at = "idle"
              /\ \A q \in Invocations : q # p => cli'[q] = cli[q]
            BY <1>3, <3>2 DEF CliInv, CliTyped, CliIdle
        <3>5. cliFile' # NoConfig /\ Load' = cli[p].config
            BY <3>1, <3>3, CliAssumption DEF CliAssumption, Load
        <3>6. ASSUME NEW c, c = cli[p].login, c # NoConfig
              PROVE  /\ c \in ContextNames /\ c \in DOMAIN cli[p].config.tokens
                     /\ cli[p].config.tokens[c] \in CliTokens
            <4>1. c \in ContextNames /\ c \in DOMAIN cli[p].config.tokens
                BY <3>1, <3>3, <3>6 DEF Saving, CliInv, WholeSaves, HasContext, InCli
            <4> QED
                BY <3>3, <4>1 DEF Config
        <3>7. /\ loggedIn' \in Tokens
              /\ cli[p].login = NoConfig => loggedIn' = loggedIn
              /\ cli[p].login # NoConfig =>
                     /\ DOMAIN loggedIn' = DOMAIN loggedIn \cup {cli[p].login}
                     /\ loggedIn'[cli[p].login] = cli[p].config.tokens[cli[p].login]
                     /\ \A c \in DOMAIN loggedIn : c # cli[p].login => loggedIn'[c] = loggedIn[c]
            <4>1. loggedIn \in Tokens
                BY DEF CliInv, CliTyped
            <4>2. CASE cli[p].login = NoConfig
                BY <3>1, <4>1, <4>2
            <4>3. CASE cli[p].login # NoConfig
                <5>1. PICK c \in ContextNames, t \in CliTokens :
                          c = cli[p].login /\ t = cli[p].config.tokens[cli[p].login]
                    BY <3>6, <4>3
                <5>2. PICK before \in Tokens : before = loggedIn
                    BY <4>1
                <5>3. loggedIn' = SetToken(before, c, t)
                    BY <3>1, <4>3, <5>1, <5>2
                <5>4. /\ SetToken(before, c, t) \in Tokens
                      /\ DOMAIN SetToken(before, c, t) = DOMAIN before \cup {c}
                      /\ SetToken(before, c, t)[c] = t
                      /\ \A x \in DOMAIN before : x # c => SetToken(before, c, t)[x] = before[x]
                    BY SetTokenTyped, Zenon
                <5> QED
                    BY <4>3, <5>1, <5>2, <5>3, <5>4
            <4> QED
                BY <4>2, <4>3
        <3>8. CliTyped'
            BY <1>2, <3>1, <3>3, <3>4, <3>7 DEF CliInv, CliTyped
        <3>9. WholeSaves'
            BY <3>4 DEF CliInv, WholeSaves, IsWhole, HasContext
        <3>10. WatchesAreAllowed'
            BY <3>4 DEF CliInv, WatchesAreAllowed, InCli
        <3>11. \A q \in Invocations : cli'[q].at \in {"asking", "saving", "written"} =>
                   cli'[q].seen <= saves' /\ ~Current(q)'
            <4>1. SUFFICES ASSUME NEW q \in Invocations, cli'[q].at \in {"asking", "saving", "written"}
                           PROVE  cli'[q].seen <= saves' /\ cli'[q].seen # saves'
                BY DEF Current
            <4>2. cli'[q] = cli[q] /\ cli[q].seen <= saves
                BY <3>4, <4>1 DEF CliInv, FilesKeep
            <4>3. cli[q].seen \in Nat
                BY <4>1, <4>2, WhatIsHeld DEF CliInv, CliTyped, Asking, Saving
            <4> QED
                BY <1>2, <3>1, <4>2, <4>3
        <3>12. overwrote' \/ \A c \in DOMAIN loggedIn' :
                   c \in DOMAIN Load'.tokens /\ Load'.tokens[c] = loggedIn'[c]
            <4>1. SUFFICES ASSUME ~overwrote, cli[p].seen = saves, NEW c \in DOMAIN loggedIn'
                           PROVE  /\ c \in DOMAIN cli[p].config.tokens
                                  /\ cli[p].config.tokens[c] = loggedIn'[c]
                BY <3>1, <3>5
            <4>2. Keeps(cli[p].config.tokens, cli[p].login)
                BY <3>1, <4>1 DEF CliInv, FilesKeep, Current, InCli
            <4>3. CASE c \in DOMAIN loggedIn /\ c # cli[p].login
                <5>1. c \in DOMAIN Load.tokens /\ Load.tokens[c] = loggedIn[c]
                    BY <4>1, <4>3 DEF CliInv, FilesKeep
                <5>2. loggedIn'[c] = loggedIn[c]
                    BY <3>7, <4>3
                <5> QED
                    BY <4>2, <4>3, <5>1, <5>2 DEF Keeps
            <4>4. CASE c = cli[p].login /\ c # NoConfig
                BY <3>6, <3>7, <4>4
            <4>5. NoConfig \notin DOMAIN loggedIn
                BY CliAssumption DEF CliAssumption, CliInv, CliTyped, Tokens
            <4> QED
                BY <3>7, <4>3, <4>4, <4>5
        <3>13. FilesKeep'
            BY <3>1, <3>3, <3>5, <3>11, <3>12 DEF FilesKeep, InCli
        <3> QED
            BY <3>8, <3>9, <3>10, <3>13 DEF CliInv
    <2> QED
        BY <2>1, <2>2
<1>9. CASE DoRequest(p)
    <2>1. CASE Becomes(p, CliIdle)
        BY <1>4, <1>9, <2>1 DEF DoRequest
    <2>2. CASE Becomes(p, [cli[p] EXCEPT !.todo = Tail(@)]) /\ Len(cli[p].todo) # 1
        <3>1. cli[p] \in Calling /\ cli[p].at = "running"
            BY <1>2, <1>9, WhatIsHeld DEF DoRequest, InCli
        <3>2. Tail(cli[p].todo) \in Seq(ClientRequests) \ {<<>>}
            <4>1. cli[p].todo \in Seq(ClientRequests) /\ cli[p].todo # <<>>
                BY <3>1 DEF Calling
            <4>2. Len(cli[p].todo) \in Nat /\ Len(cli[p].todo) # 0
                BY <4>1, EmptySeq
            <4>3. Tail(cli[p].todo) \in Seq(ClientRequests) /\ Len(Tail(cli[p].todo)) = Len(cli[p].todo) - 1
                BY <4>1, HeadTailProperties
            <4>4. Len(Tail(cli[p].todo)) # 0
                BY <2>2, <4>2, <4>3
            <4>5. Len(<<>>) = 0
                OBVIOUS
            <4> QED
                BY <4>3, <4>4, <4>5
        <3>3. [cli[p] EXCEPT !.todo = Tail(@)] \in Calling
            BY <3>1, <3>2 DEF Calling
        <3>4. [cli[p] EXCEPT !.todo = Tail(@)].at = "running"
            BY <3>1 DEF Calling
        <3> QED
            BY <1>9, <2>2, <3>3, <3>4, FileIsKept DEF DoRequest, CliState
    <2> QED
        BY <1>9, <2>1, <2>2 DEF DoRequest
<1>10. CASE DialStream(p)
    <2>1. CASE Becomes(p, CliIdle)
        BY <1>4, <1>10, <2>1 DEF DialStream
    <2>2. CASE /\ IsRoleAllowed(cli[p].token, MinRole[Head(cli[p].todo)])
               /\ Becomes(p, [cli[p] EXCEPT !.at = "watching"])
        <3>1. cli[p] \in Calling
            BY <1>2, <1>10, WhatIsHeld DEF DialStream, InCli
        <3>2. PICK state \in Calling : state = [cli[p] EXCEPT !.at = "watching"]
            BY <3>1 DEF Calling
        <3>3. state.at = "watching" /\ state.todo = cli[p].todo /\ state.token = cli[p].token
            BY <3>1, <3>2 DEF Calling
        <3> QED
            BY <1>10, <2>2, <3>2, <3>3, FileIsKept DEF DialStream, CliState
    <2> QED
        BY <1>10, <2>1, <2>2 DEF DialStream
<1>11. CASE EndWatch(p)
    BY <1>4, <1>11 DEF EndWatch
<1>12. ASSUME NEW c \in ContextNames, UseContext(p, c) PROVE CliInv'
    <2>1. PICK config \in Config : config = [Load EXCEPT !.current = c]
        BY <1>2 DEF Config
    <2>2. config.current = c /\ config.tokens = Load.tokens
        BY <1>2, <2>1 DEF Config
    <2>3. IsWhole(config) /\ Keeps(config.tokens, NoConfig)
        BY <1>12, <2>2 DEF UseContext, IsWhole, HasContext, Keeps
    <2>4. PICK state \in Saving : state = [at |-> "saving", config |-> config, seen |-> saves,
                                          login |-> NoConfig]
        BY <1>2 DEF Saving
    <2>5. state.at = "saving" /\ state.config = config /\ state.seen = saves /\ state.login = NoConfig
        BY <2>4
    <2>6. state \in CliState /\ state.seen <= saves
        BY <1>2, <2>5 DEF CliState
    <2>7. Becomes(p, state) /\ Same
        BY <1>12, <2>1, <2>4 DEF UseContext
    <2> QED
        BY <2>3, <2>5, <2>6, <2>7, FileIsKept
<1>13. ASSUME NEW c \in ContextNames, NEW t \in CliTokens, AnswerLogin(p, c, t) PROVE CliInv'
    <2>1. cli[p] \in Asking
        BY <1>2, <1>13, WhatIsHeld DEF AnswerLogin, InCli
    <2>2. cli[p].config \in Config /\ cli[p].config.tokens \in Tokens /\ cli[p].seen \in Nat
        BY <2>1 DEF Asking, Config, Tokens
    <2>3. PICK config \in Config : config = LogIn(cli[p].config, c, t)
        BY <2>2, SetTokenTyped DEF LogIn, Config, Tokens
    <2>a. PICK tokens \in Tokens : tokens = cli[p].config.tokens
        BY <2>2
    <2>4. /\ config.current = c /\ c \in DOMAIN config.tokens
          /\ \A x \in DOMAIN tokens : x # c => x \in DOMAIN config.tokens /\ config.tokens[x] = tokens[x]
        <3>1. config.current = c /\ config.tokens = SetToken(tokens, c, t)
            BY <2>3, <2>a DEF LogIn
        <3>2. /\ DOMAIN SetToken(tokens, c, t) = DOMAIN tokens \cup {c}
              /\ \A x \in DOMAIN tokens : x # c => SetToken(tokens, c, t)[x] = tokens[x]
            BY SetTokenTyped, Zenon
        <3> QED
            BY <3>1, <3>2
    <2>5. IsWhole(config) /\ HasContext(config, c)
        BY <2>4 DEF IsWhole, HasContext
    <2>6. cli[p].seen = saves => Keeps(config.tokens, c)
        <3>1. cli[p].seen = saves => cli[p].config = Load
            BY <1>13 DEF AnswerLogin, CliInv, FilesKeep, Current
        <3> QED
            BY <2>a, <2>4, <3>1 DEF Keeps
    <2>7. cli[p].seen <= saves
        BY <1>13 DEF AnswerLogin, InCli, CliInv, FilesKeep
    <2>8. PICK state \in Saving : state = [at |-> "saving", config |-> config,
                                          seen |-> cli[p].seen, login |-> c]
        BY <2>2 DEF Saving
    <2> QED
        BY <1>13, <2>3, <2>5, <2>6, <2>7, <2>8, FileIsKept DEF AnswerLogin, CliState
<1>14. ASSUME NEW cmd \in Typed, GetClient(p, cmd) PROVE CliInv'
    <2>1. cmd \in Seq(ClientRequests) \ {<<>>}
        BY CommandsAreKnown, TypedAssumption DEF TypedAssumption, RequestsAreKnown
    <2>2. Load.tokens[Load.current] \in CliTokens
        BY <1>2, <1>14 DEF GetClient, HasContext, Config
    <2>3. [at |-> "running", todo |-> cmd, token |-> Load.tokens[Load.current]] \in Calling
        BY <2>1, <2>2 DEF Calling
    <2>4. [at |-> "running", todo |-> cmd, token |-> Load.tokens[Load.current]] \in CliState
        BY <2>3 DEF CliState
    <2> QED
        BY <1>14, <2>4, FileIsKept DEF GetClient
<1> QED
    BY <1>5, <1>6, <1>7, <1>8, <1>9, <1>10, <1>11, <1>12, <1>13, <1>14

(* The inductive invariant: what the file, and the invocations that will replace it, hold.      *)
THEOREM CliInvHolds == CliSpec => []CliInv
<1>1. CliInit => CliInv
    BY CliInvInit
<1>2. CliInv /\ [CliNext]_cliVars => CliInv'
    BY CliInvNext
<1> QED
    BY <1>1, <1>2, PTL DEF CliSpec

LEMMA CliSafeByInv == CliInv => CliTypeOK /\ LoginsAreKept
<1> SUFFICES ASSUME CliInv PROVE CliTypeOK /\ LoginsAreKept
    OBVIOUS
<1>1. CliTypeOK
    BY TypedAssumption DEF TypedAssumption, CliTypeOK, CliInv, CliTyped, CliState, CliIdle, Asking,
       Saving, Calling
<1>2. cliFile # NoConfig => HasContext(cliFile, cliFile.current)
    BY DEF CliInv, FilesKeep, IsWhole
<1>3. overwrote \/ \A c \in DOMAIN loggedIn :
          cliFile # NoConfig /\ HasContext(cliFile, c) /\ cliFile.tokens[c] = loggedIn[c]
    BY LoadedFile DEF CliInv, FilesKeep, HasContext
<1>4. \A p \in Invocations : InCli(p, "watching") =>
          IsRoleAllowed(cli[p].token, MinRole[Head(cli[p].todo)])
    BY DEF CliInv, WatchesAreAllowed
<1>5. \A cmd \in CliCommands : \A i \in DOMAIN cmd :
          cmd[i] \in ClientRequests /\ cmd[i] \in DOMAIN MinRole
    <2>1. SUFFICES ASSUME NEW cmd \in CliCommands, NEW i \in DOMAIN cmd
                   PROVE  cmd[i] \in ClientRequests /\ cmd[i] \in DOMAIN MinRole
        OBVIOUS
    <2>2. cmd \in Seq(ClientRequests) /\ cmd[i] \in DOMAIN MinRole
        BY CommandsAreKnown DEF RequestsAreKnown
    <2> QED
        BY <2>2
<1> QED
    BY <1>1, <1>2, <1>3, <1>4, <1>5 DEF LoginsAreKept

(* The file is always whole, with a current context that exists; unless one invocation saves    *)
(* over another, it has every login; a stream is watched only by a role the route allows; and   *)
(* every request of a command is one the server routes.                                         *)
THEOREM LoginsAreKeptHolds == CliSpec => [](CliTypeOK /\ LoginsAreKept)
BY CliInvHolds, CliSafeByInv, PTL
-----------------------------------------------------------------------------------
(***************************************************************************)
(* The rate limiters.  What is granted is only added to, in the order of   *)
(* the clock.                                                              *)
(***************************************************************************)
GrantsTyped ==
    /\ time \in Nat
    /\ granted \in [Keys -> Seq(Nat)]
    /\ \A k \in Keys : \A i \in DOMAIN granted[k] : granted[k][i] <= time
    /\ \A k \in Keys : \A i, j \in DOMAIN granted[k] : i <= j => granted[k][i] <= granted[k][j]
    /\ refused \subseteq Keys

\* The requests of a key that were allowed at t or later.
Since(k, t) == {i \in DOMAIN granted[k] : granted[k][i] >= t}

LEMMA SinceIsFinite ==
    ASSUME GrantsTyped, NEW k \in Keys, NEW t
    PROVE  /\ IsFiniteSet(Since(k, t)) /\ Since(k, t) \subseteq 1 .. Len(granted[k])
           /\ GrantedSince(k, t) = Cardinality(Since(k, t)) /\ GrantedSince(k, t) \in Nat
<1>1. granted[k] \in Seq(Nat)
    BY DEF GrantsTyped
<1>2. Len(granted[k]) \in Nat /\ DOMAIN granted[k] = 1 .. Len(granted[k])
    BY <1>1
<1>3. IsFiniteSet(1 .. Len(granted[k]))
    <2>1. 1 \in Int /\ Len(granted[k]) \in Int
        BY <1>2
    <2> QED
        BY <2>1, FS_Interval
<1>4. Since(k, t) \subseteq 1 .. Len(granted[k])
    BY <1>2 DEF Since
<1> QED
    BY <1>3, <1>4, FS_Subset, FS_CardinalityType DEF GrantedSince, Since

\* By the well-foundedness of strict inclusion, for the intervals that end in S.
LEMMA LeastOf ==
    ASSUME NEW S \in SUBSET Nat, S # {}
    PROVE  Min(S) \in S /\ \A x \in S : Min(S) <= x
<1> DEFINE T == {0..x : x \in S}
<1>1. T \subseteq FiniteSubsetsOf(Nat) /\ T # {}
    <2>1. ASSUME NEW x \in S PROVE 0..x \in FiniteSubsetsOf(Nat)
        <3>1. 0 \in Int /\ x \in Int
            OBVIOUS
        <3>2. IsFiniteSet(0..x)
            BY <3>1, FS_Interval
        <3> QED
            BY <3>2 DEF FiniteSubsetsOf
    <2> QED
        BY <2>1
<1> HIDE DEF T
<1>2. PICK X \in T : \A Y \in T : <<Y, X>> \notin StrictSubsetOrdering(Nat)
    BY <1>1, FS_StrictSubsetOrderingWellFounded, WFMin
<1>3. PICK x \in S : X = 0..x
    BY DEF T
<1>4. ASSUME NEW y \in S PROVE x =< y
    <2>1. 0..y \in T /\ 0..y \in SUBSET Nat /\ 0..x \in SUBSET Nat
        BY DEF T
    <2>2. ~ (0..y \subseteq 0..x /\ 0..y # 0..x)
        BY <1>2, <1>3, <2>1 DEF StrictSubsetOrdering
    <2> QED
        BY <2>2
<1> QED
    BY <1>4 DEF Min

\* One more grant, now, is one more since any time.
LEMMA GrantAddsOne ==
    ASSUME GrantsTyped, NEW k \in Keys, Grant(k), UNCHANGED time
    PROVE  /\ GrantsTyped'
           /\ \A t \in Int : t <= time => GrantedSince(k, t)' = GrantedSince(k, t) + 1
           /\ \A j \in Keys \ {k} : granted'[j] = granted[j]
           /\ granted'[k] = Append(granted[k], time)
           /\ refused' = {}
<1>1. /\ granted'[k] = Append(granted[k], time) /\ \A j \in Keys \ {k} : granted'[j] = granted[j]
      /\ granted' \in [Keys -> Seq(Nat)] /\ refused' = {}
    BY DEF Grant, GrantsTyped
<1> DEFINE n == Len(granted[k])
<1>2. /\ granted[k] \in Seq(Nat) /\ n \in Nat
      /\ DOMAIN granted[k] = 1..n /\ DOMAIN granted'[k] = 1..(n + 1)
      /\ \A i \in 1..n : granted'[k][i] = granted[k][i]
      /\ granted'[k][n + 1] = time
    BY <1>1 DEF GrantsTyped
<1> HIDE DEF n
<1>0. /\ time \in Nat /\ \A i \in 1..n : granted[k][i] \in Nat /\ granted[k][i] <= time
      /\ \A i, j \in 1..n : i <= j => granted[k][i] <= granted[k][j]
    <2>1. /\ time \in Nat /\ \A i \in DOMAIN granted[k] : granted[k][i] <= time
          /\ \A i, j \in DOMAIN granted[k] : i <= j => granted[k][i] <= granted[k][j]
        BY DEF GrantsTyped
    <2>2. \A i \in 1..n : granted[k][i] \in Nat
        BY <1>2
    <2> QED
        BY <1>2, <2>1, <2>2
<1>3. GrantsTyped'
    <2>1. \A i \in 1..(n + 1) : granted'[k][i] <= time
        <3>1. \A i \in 1..(n + 1) : i \in 1..n \/ i = n + 1
            BY <1>2
        <3>2. \A i \in 1..n : granted'[k][i] <= time
            BY <1>0, <1>2
        <3> QED
            BY <1>0, <1>2, <3>1, <3>2
    <2>2. \A i, j \in 1..(n + 1) : i <= j => granted'[k][i] <= granted'[k][j]
        <3>1. \A i \in 1..(n + 1) : granted'[k][i] \in Nat /\ time \in Nat
            BY <1>0, <1>2
        <3>2. \A i \in 1..(n + 1), j \in 1..n : i <= j => granted'[k][i] <= granted'[k][j]
            BY SMTT(30), <1>0, <1>2
        <3> QED
            BY <1>2, <2>1, <3>1, <3>2
    <2> QED
        BY <1>1, <1>2, <2>1, <2>2 DEF GrantsTyped
<1>4. ASSUME NEW t \in Int, t <= time PROVE GrantedSince(k, t)' = GrantedSince(k, t) + 1
    <2>1. Since(k, t)' = {i \in 1..(n + 1) : granted'[k][i] >= t}
        BY <1>2 DEF Since
    <2>2. Since(k, t) = {i \in 1..n : granted[k][i] >= t} /\ time >= t
        BY <1>2, <1>4 DEF Since, GrantsTyped
    <2>3. Since(k, t)' = Since(k, t) \cup {n + 1}
        BY <1>2, <2>1, <2>2, 1..(n + 1) = (1..n) \cup {n + 1}
    <2>4. n + 1 \notin Since(k, t)
        BY <1>2, <2>2
    <2>5. IsFiniteSet(Since(k, t))
        BY SinceIsFinite
    <2>6. Cardinality(Since(k, t) \cup {n + 1}) = Cardinality(Since(k, t)) + 1
        BY <2>4, <2>5, FS_AddElement
    <2> QED
        BY <2>3, <2>6 DEF GrantedSince, Since
<1> QED
    BY <1>1, <1>3, <1>4

\* Nothing granted since t, if all of it was before.
LEMMA NoneSince ==
    ASSUME GrantsTyped, NEW k \in Keys, NEW t \in Nat, \A i \in DOMAIN granted[k] : granted[k][i] < t
    PROVE  GrantedSince(k, t) = 0
<1>1. Since(k, t) = {}
    BY DEF Since, GrantsTyped
<1> QED
    BY <1>1, FS_EmptySet DEF GrantedSince, Since

\* Nothing is granted: time may pass, but no more.
LEMMA GrantsStay ==
    ASSUME GrantsTyped, granted' = granted, time' \in Nat, time <= time', refused' \subseteq Keys
    PROVE  GrantsTyped' /\ \A k \in Keys : \A t : GrantedSince(k, t)' = GrantedSince(k, t)
<1>1. \A k \in Keys : \A i \in DOMAIN granted[k] : granted[k][i] <= time'
    <2> SUFFICES ASSUME NEW k \in Keys, NEW i \in DOMAIN granted[k] PROVE granted[k][i] <= time'
        OBVIOUS
    <2>1. granted[k] \in Seq(Nat) /\ granted[k][i] <= time /\ time \in Nat
        BY DEF GrantsTyped
    <2>2. granted[k][i] \in Nat
        BY <2>1
    <2> QED
        BY <2>1, <2>2
<1>2. GrantsTyped'
    BY <1>1 DEF GrantsTyped
<1> QED
    BY <1>2 DEF GrantedSince

(***************************************************************************)
(* The sliding window.  The record of a key is what is left of the times   *)
(* at which its requests were allowed when those that have left the window *)
(* are dropped from the front; a key without a record has none left.       *)
(***************************************************************************)
\* The times of k that its record keeps.
Times(k) == IF k \in DOMAIN records THEN records[k] ELSE <<>>

\* times are those of the last requests of k that were allowed, and the others are past.
IsTailOf(times, k) ==
    LET dropped == Len(granted[k]) - Len(times) IN
    /\ times \in Seq(Nat) /\ dropped \in Nat
    /\ \A i \in 1 .. Len(times) : times[i] = granted[k][i + dropped]
    /\ \A i \in 1 .. dropped : granted[k][i] <= time - Window

SlidingInv ==
    /\ GrantsTyped
    /\ \A k \in Keys : IsTailOf(Times(k), k)
    /\ SlidingLimitHolds

LEMMA SlidingInvInit == LimitsInit => SlidingInv
<1> SUFFICES ASSUME LimitsInit PROVE SlidingInv
    OBVIOUS
<1>1. GrantsTyped /\ \A k \in Keys : granted[k] = <<>> /\ Times(k) = <<>>
    BY DEF LimitsInit, GrantsTyped, Times
<1>2. \A k \in Keys : \A t : GrantedSince(k, t) = 0
    BY <1>1, FS_EmptySet DEF GrantedSince
<1>3. SlidingLimitHolds
    BY <1>2, RateLimitsAssumption DEF SlidingLimitHolds, LimitsInit, RateLimitsAssumption
<1>4. \A k \in Keys : IsTailOf(Times(k), k)
    <2> SUFFICES ASSUME NEW k \in Keys PROVE IsTailOf(Times(k), k)
        OBVIOUS
    <2>1. granted[k] = <<>> /\ Times(k) = <<>> /\ Len(<<>>) = 0 /\ <<>> \in Seq(Nat)
        BY <1>1
    <2>2. \A i \in 1 .. 0 : FALSE
        OBVIOUS
    <2> QED
        BY <2>1, <2>2 DEF IsTailOf
<1> QED
    BY <1>1, <1>3, <1>4 DEF SlidingInv

\* Pruning drops from the front what has left the window, and what stays is what was granted in it.
LEMMA KeptIsInWindow ==
    ASSUME GrantsTyped, NEW k \in Keys, IsTailOf(Times(k), k)
    PROVE  /\ IsTailOf(Kept(k), k)
           /\ Len(Kept(k)) = GrantedSince(k, time - Window + 1)
<1> DEFINE ts == Times(k)
           g == granted[k]
           m == Len(g) - Len(ts)
           c == time - Window
           valid == {i \in 1 .. Len(ts) : ts[i] > c}
<1>1. /\ g \in Seq(Nat) /\ ts \in Seq(Nat) /\ m \in Nat /\ Len(g) \in Nat /\ Len(ts) \in Nat
      /\ Len(g) = m + Len(ts) /\ c \in Int
      /\ DOMAIN g = 1 .. Len(g) /\ DOMAIN ts = 1 .. Len(ts)
    BY RateLimitsAssumption DEF GrantsTyped, IsTailOf, RateLimitsAssumption
<1>2. /\ \A i \in 1 .. Len(ts) : ts[i] = g[i + m] /\ ts[i] \in Nat
      /\ \A i \in 1 .. m : g[i] <= c
    BY SMTT(30), <1>1 DEF IsTailOf
<1>3. /\ \A i \in 1 .. Len(g) : g[i] \in Nat
      /\ \A i, j \in 1 .. Len(g) : i <= j => g[i] <= g[j]
    <2>1. \A i, j \in DOMAIN g : i <= j => g[i] <= g[j]
        BY DEF GrantsTyped
    <2>2. \A i \in 1 .. Len(g) : g[i] \in Nat
        BY <1>1
    <2> HIDE DEF g
    <2> QED
        BY <1>1, <2>1, <2>2
<1>4. Kept(k) = IF valid = {} THEN <<>> ELSE SubSeq(ts, Min(valid), Len(ts))
    <2>1. Times(k) = <<>> => valid = {}
        OBVIOUS
    <2>2. k \in DOMAIN records => Kept(k) = InWindow(ts) /\ ts = records[k]
        BY DEF Kept, Times
    <2>3. k \notin DOMAIN records => Kept(k) = <<>> /\ Times(k) = <<>>
        BY DEF Kept, Times
    <2>4. InWindow(ts) = IF valid = {} THEN <<>> ELSE SubSeq(ts, Min(valid), Len(ts))
        BY <1>1 DEF InWindow
    <2> HIDE DEF valid
    <2> QED
        BY <2>1, <2>2, <2>3, <2>4
<1>5. IsTailOf(Kept(k), k) <=> LET dropped == Len(g) - Len(Kept(k)) IN
             /\ Kept(k) \in Seq(Nat) /\ dropped \in Nat
             /\ \A i \in 1 .. Len(Kept(k)) : Kept(k)[i] = g[i + dropped]
             /\ \A i \in 1 .. dropped : g[i] <= c
    BY <1>1 DEF IsTailOf
<1>8. GrantedSince(k, c + 1) = Cardinality({i \in 1 .. Len(g) : g[i] >= c + 1})
    BY <1>1 DEF GrantedSince
<1> HIDE DEF ts, g, m, c, valid
<1>6. CASE valid = {}
    <2>1. \A i \in 1 .. Len(ts) : ts[i] <= c
        <3> SUFFICES ASSUME NEW i \in 1 .. Len(ts) PROVE ts[i] <= c
            OBVIOUS
        <3>1. ~(ts[i] > c)
            BY <1>6 DEF valid
        <3> QED
            BY <1>1, <1>2, <3>1
    <2>2. \A i \in 1 .. Len(g) : g[i] <= c
        <3> SUFFICES ASSUME NEW i \in 1 .. Len(g) PROVE g[i] <= c
            OBVIOUS
        <3>1. CASE i <= m
            BY <1>1, <1>2, <3>1
        <3>2. CASE i > m
            <4>1. i - m \in 1 .. Len(ts) /\ (i - m) + m = i
                BY <1>1, <3>2
            <4> QED
                BY <1>2, <2>1, <4>1
        <3> QED
            BY <1>1, <3>1, <3>2
    <2>3. {i \in 1 .. Len(g) : g[i] >= c + 1} = {}
        BY <1>1, <1>3, <2>2
    <2>4. Kept(k) = <<>>
        BY <1>4, <1>6
    <2> QED
        <3>1. Len(Kept(k)) = 0 /\ Kept(k) \in Seq(Nat) /\ Len(g) - 0 = Len(g)
            BY <1>1, <2>4
        <3>2. IsTailOf(Kept(k), k)
            BY <1>1, <1>5, <2>2, <3>1
        <3>3. GrantedSince(k, c + 1) = 0
            BY <1>8, <2>3, FS_EmptySet
        <3> QED
            BY <3>1, <3>2, <3>3 DEF c
<1>7. CASE valid # {}
    <2> DEFINE f == Min(valid)
    <2>1. f \in valid /\ \A i \in valid : f <= i
        <3>1. valid \in SUBSET Nat
            BY <1>1 DEF valid
        <3> QED
            BY <1>7, <3>1, LeastOf
    <2> HIDE DEF f
    <2>2. f \in 1 .. Len(ts) /\ ts[f] > c /\ \A i \in 1 .. f - 1 : ts[i] <= c
        <3>1. f \in 1 .. Len(ts) /\ ts[f] > c
            BY <2>1 DEF valid
        <3>2. ASSUME NEW i \in 1 .. f - 1 PROVE ts[i] <= c
            <4>1. i \notin valid /\ i \in 1 .. Len(ts)
                BY <1>1, <2>1, <3>1
            <4> QED
                BY <1>1, <1>2, <4>1 DEF valid
        <3> QED
            BY <3>1, <3>2
    <2>3. /\ Kept(k) \in Seq(Nat) /\ Len(Kept(k)) = Len(ts) - f + 1
          /\ \A i \in 1 .. Len(ts) - f + 1 : Kept(k)[i] = ts[f + i - 1]
        <3>1. Kept(k) = SubSeq(ts, f, Len(ts))
            BY <1>4, <1>7 DEF f
        <3>2. /\ f \in Int /\ Len(ts) \in Int /\ f <= Len(ts)
              /\ \A i \in f .. Len(ts) : i \in 1 .. Len(ts)
            BY <1>1, <2>2
        <3> QED
            BY <1>2, <3>1, <3>2, SubSeqProperties
    <2>4. \A i \in 1 .. Len(ts) - f + 1 : Kept(k)[i] = g[i + (m + f - 1)]
        <3> SUFFICES ASSUME NEW i \in 1 .. Len(ts) - f + 1 PROVE Kept(k)[i] = g[i + (m + f - 1)]
            OBVIOUS
        <3>1. f + i - 1 \in 1 .. Len(ts) /\ (f + i - 1) + m = i + (m + f - 1)
            BY <1>1, <2>2
        <3> QED
            BY <1>2, <2>3, <3>1
    <2>5. Len(g) - Len(Kept(k)) = m + f - 1 /\ m + f - 1 \in Nat
        BY <1>1, <2>2, <2>3
    <2>6. \A i \in 1 .. m + f - 1 : g[i] <= c
        <3> SUFFICES ASSUME NEW i \in 1 .. m + f - 1 PROVE g[i] <= c
            OBVIOUS
        <3>1. CASE i <= m
            BY <1>1, <1>2, <3>1
        <3>2. CASE i > m
            <4>1. i - m \in 1 .. f - 1 /\ i - m \in 1 .. Len(ts) /\ (i - m) + m = i
                BY <1>1, <2>2, <3>2
            <4> QED
                BY <1>2, <2>2, <4>1
        <3> QED
            BY <1>1, <3>1, <3>2
    <2>7. \A i \in m + f .. Len(g) : g[i] >= c + 1
        <3>1. m + f \in 1 .. Len(g) /\ g[m + f] > c
            BY <1>1, <1>2, <2>2
        <3>2. \A i \in m + f .. Len(g) : i \in 1 .. Len(g) /\ g[m + f] <= g[i]
            BY <1>1, <1>3, <3>1
        <3> QED
            BY <1>1, <1>3, <3>1, <3>2
    <2>8. {i \in 1 .. Len(g) : g[i] >= c + 1} = m + f .. Len(g)
        <3>1. \A i \in 1 .. Len(g) : i \in 1 .. m + f - 1 \/ i \in m + f .. Len(g)
            BY <1>1, <2>2
        <3>2. \A i \in m + f .. Len(g) : i \in 1 .. Len(g)
            BY <1>1, <2>2
        <3> QED
            BY <1>1, <1>3, <2>6, <2>7, <3>1, <3>2
    <2>9. Cardinality(m + f .. Len(g)) = Len(g) - (m + f) + 1
        <3>1. m + f \in Int /\ Len(g) \in Int /\ m + f <= Len(g)
            BY <1>1, <2>2
        <3> QED
            BY <3>1, FS_Interval
    <2>10. Len(Kept(k)) = GrantedSince(k, c + 1)
        <3>1. GrantedSince(k, c + 1) = Len(g) - (m + f) + 1
            BY <1>8, <2>8, <2>9
        <3> QED
            BY <1>1, <2>2, <2>3, <3>1
    <2>11. IsTailOf(Kept(k), k)
        BY <1>5, <2>3, <2>4, <2>5, <2>6
    <2> QED
        BY <2>10, <2>11 DEF c
<1> QED
    BY <1>6, <1>7

LEMMA SinceShrinks ==
    ASSUME GrantsTyped, NEW k \in Keys, NEW t \in Int, NEW u \in Int, t <= u
    PROVE  GrantedSince(k, u) <= GrantedSince(k, t)
<1>1. granted[k] \in Seq(Nat)
    BY DEF GrantsTyped
<1>2. Since(k, u) \subseteq Since(k, t)
    BY <1>1 DEF Since
<1> QED
    BY <1>2, SinceIsFinite, FS_Subset

LEMMA SlidingInvNext == SlidingInv /\ [SlidingNext]_limitVars => SlidingInv'
<1> SUFFICES ASSUME SlidingInv, [SlidingNext]_limitVars PROVE SlidingInv'
    OBVIOUS
<1>a. GrantsTyped /\ time \in Int /\ Window \in Nat \ {0} /\ Limit \in Nat
    BY RateLimitsAssumption DEF SlidingInv, GrantsTyped, RateLimitsAssumption
<1>1. CASE UNCHANGED limitVars
    <2>1. GrantsTyped' /\ \A k \in Keys : IsTailOf(Times(k), k)'
        BY <1>1 DEF limitVars, SlidingInv, GrantsTyped, IsTailOf, Times
    <2>2. SlidingLimitHolds'
        BY <1>1 DEF limitVars, SlidingInv, SlidingLimitHolds, GrantedSince
    <2> QED
        BY <2>1, <2>2 DEF SlidingInv
<1>2. CASE PassTick
    <2>1. GrantsTyped' /\ \A k \in Keys : \A t : GrantedSince(k, t)' = GrantedSince(k, t)
        BY <1>2, <1>a, GrantsStay DEF PassTick, GrantsTyped
    <2>2. ASSUME NEW k \in Keys PROVE IsTailOf(Times(k), k)'
        <3>1. /\ IsTailOf(Times(k), k) /\ Times(k)' = Times(k) /\ granted'[k] = granted[k]
              /\ time' = time + 1 /\ granted[k] \in Seq(Nat)
            BY <1>2, <1>a DEF SlidingInv, PassTick, Times, GrantsTyped
        <3>2. \A x \in Nat : x <= time - Window => x <= time' - Window
            BY <1>a, <3>1
        <3>3. \A i \in 1 .. Len(granted[k]) - Len(Times(k)) : granted[k][i] \in Nat
            BY <3>1 DEF IsTailOf
        <3> QED
            BY <3>1, <3>2, <3>3 DEF IsTailOf
    <2>3. ASSUME NEW k \in Keys PROVE GrantedSince(k, time - Window + 1)' <= Limit
        <3>1. /\ GrantedSince(k, time - Window + 1)' = GrantedSince(k, time' - Window + 1)
              /\ time' = time + 1
            BY <1>2, <2>1 DEF PassTick, GrantedSince
        <3>2. GrantedSince(k, time' - Window + 1) <= GrantedSince(k, time - Window + 1)
            BY <1>a, <3>1, SinceShrinks
        <3>3. /\ GrantedSince(k, time - Window + 1) <= Limit
              /\ GrantedSince(k, time - Window + 1) \in Nat
              /\ GrantedSince(k, time' - Window + 1) \in Nat
            BY <1>a, SinceIsFinite DEF SlidingInv, SlidingLimitHolds
        <3> QED
            BY <1>a, <3>1, <3>2, <3>3
    <2> QED
        BY <1>2, <2>1, <2>2, <2>3 DEF SlidingInv, SlidingLimitHolds, PassTick
<1>3. CASE CleanupTick \/ StopLimiter
    <2>1. GrantsTyped' /\ \A k \in Keys : IsTailOf(Times(k), k)'
        BY ZenonT(60), <1>3 DEF CleanupTick, StopLimiter, SlidingInv, GrantsTyped, IsTailOf, Times
    <2>2. SlidingLimitHolds'
        BY <1>3 DEF CleanupTick, StopLimiter, SlidingInv, SlidingLimitHolds, GrantedSince
    <2> QED
        BY <2>1, <2>2 DEF SlidingInv
<1>4. CASE Cleanup
    <2>1. ASSUME NEW k \in Keys PROVE Times(k)' = Kept(k)
        BY <1>4 DEF Cleanup, Times, Kept
    <2>2. GrantsTyped' /\ \A k \in Keys : IsTailOf(Times(k), k)'
        <3>1. \A k \in Keys : IsTailOf(Kept(k), k)
            BY KeptIsInWindow DEF SlidingInv
        <3> QED
            BY <1>4, <2>1, <3>1 DEF Cleanup, SlidingInv, GrantsTyped, IsTailOf
    <2>3. SlidingLimitHolds'
        BY <1>4 DEF Cleanup, SlidingInv, SlidingLimitHolds, GrantedSince
    <2> QED
        BY <2>2, <2>3 DEF SlidingInv
<1>5. ASSUME NEW k \in Keys, Allow(k) PROVE SlidingInv'
    <2>1. /\ IsTailOf(Kept(k), k) /\ Len(Kept(k)) = GrantedSince(k, time - Window + 1)
          /\ Kept(k) \in Seq(Nat) /\ Len(Kept(k)) \in Nat /\ Len(Kept(k)) <= Limit
        <3>1. GrantsTyped /\ IsTailOf(Times(k), k) /\ GrantedSince(k, time - Window + 1) <= Limit
            BY DEF SlidingInv, SlidingLimitHolds
        <3>2. IsTailOf(Kept(k), k) /\ Len(Kept(k)) = GrantedSince(k, time - Window + 1)
            BY <3>1, KeptIsInWindow
        <3>3. Kept(k) \in Seq(Nat)
            BY <3>2 DEF IsTailOf
        <3> QED
            BY <3>1, <3>2, <3>3
    <2>2. time' = time /\ \A j \in Keys \ {k} : Times(j)' = Times(j)
        BY <1>5 DEF Allow, Times, With
    <2>3. CASE Len(Kept(k)) >= Limit
        <3>1. /\ Times(k)' = Kept(k) /\ granted' = granted /\ refused' = {k}
            BY <1>5, <2>3 DEF Allow, Times, With, Refuse
        <3>2. /\ GrantsTyped'
              /\ \A j \in Keys : \A t : GrantedSince(j, t)' = GrantedSince(j, t)
            BY <1>a, <2>2, <3>1, GrantsStay DEF GrantsTyped
        <3>3. \A j \in Keys : IsTailOf(Times(j), j)'
            BY <2>1, <2>2, <3>1 DEF SlidingInv, IsTailOf
        <3>4. GrantedSince(k, time - Window + 1) = Limit
            BY <1>a, <2>1, <2>3
        <3>5. SlidingLimitHolds'
            BY <2>2, <3>1, <3>2, <3>4 DEF SlidingInv, SlidingLimitHolds, GrantedSince
        <3> QED
            BY <3>2, <3>3, <3>5 DEF SlidingInv
    <2>4. CASE ~(Len(Kept(k)) >= Limit)
        <3>1. Times(k)' = Append(Kept(k), time) /\ Grant(k)
            BY <1>5, <2>4 DEF Allow, Times, With
        <3>2. /\ GrantsTyped' /\ refused' = {}
              /\ \A t \in Int : t <= time => GrantedSince(k, t)' = GrantedSince(k, t) + 1
              /\ \A j \in Keys \ {k} : granted'[j] = granted[j]
              /\ granted'[k] = Append(granted[k], time)
            BY <1>a, <2>2, <3>1, GrantAddsOne
        <3>3. ASSUME NEW j \in Keys \ {k} PROVE IsTailOf(Times(j), j)'
            BY <2>2, <3>2 DEF SlidingInv, IsTailOf
        <3>4. IsTailOf(Times(k), k)'
            <4> DEFINE ts == Kept(k)
                       g == granted[k]
            <4>1. /\ ts \in Seq(Nat) /\ g \in Seq(Nat) /\ time \in Nat /\ Len(ts) \in Nat
                  /\ Len(g) \in Nat /\ Len(g) - Len(ts) \in Nat
                  /\ \A i \in 1 .. Len(ts) : ts[i] = g[i + (Len(g) - Len(ts))]
                  /\ \A i \in 1 .. Len(g) - Len(ts) : g[i] <= time - Window
                BY <1>a, <2>1 DEF IsTailOf, GrantsTyped
            <4> HIDE DEF ts, g
            <4>2. /\ Append(ts, time) \in Seq(Nat) /\ Len(Append(ts, time)) = Len(ts) + 1
                  /\ Len(Append(g, time)) = Len(g) + 1
                  /\ \A i \in 1 .. Len(ts) : Append(ts, time)[i] = ts[i]
                  /\ Append(ts, time)[Len(ts) + 1] = time
                  /\ \A i \in 1 .. Len(g) : Append(g, time)[i] = g[i]
                  /\ Append(g, time)[Len(g) + 1] = time
                BY <4>1
            <4>3. (Len(g) + 1) - (Len(ts) + 1) = Len(g) - Len(ts)
                BY <4>1
            <4>4. \A i \in 1 .. Len(ts) + 1 :
                      Append(ts, time)[i] = Append(g, time)[i + (Len(g) - Len(ts))]
                <5> SUFFICES ASSUME NEW i \in 1 .. Len(ts) + 1
                             PROVE  Append(ts, time)[i] = Append(g, time)[i + (Len(g) - Len(ts))]
                    OBVIOUS
                <5>1. CASE i = Len(ts) + 1
                    <6>1. i + (Len(g) - Len(ts)) = Len(g) + 1
                        BY <4>1, <5>1
                    <6> QED
                        BY <4>2, <5>1, <6>1
                <5>2. CASE i \in 1 .. Len(ts)
                    <6>1. i + (Len(g) - Len(ts)) \in 1 .. Len(g)
                        BY <4>1, <5>2
                    <6> QED
                        BY <4>1, <4>2, <5>2, <6>1
                <5>3. i = Len(ts) + 1 \/ i \in 1 .. Len(ts)
                    BY <4>1
                <5> QED
                    BY <5>1, <5>2, <5>3
            <4>5. \A i \in 1 .. Len(g) - Len(ts) : Append(g, time)[i] <= time - Window
                BY <4>1, <4>2
            <4>6. Times(k)' = Append(ts, time) /\ granted'[k] = Append(g, time) /\ time' = time
                BY <2>2, <3>1, <3>2 DEF ts, g
            <4> QED
                BY <4>1, <4>2, <4>3, <4>4, <4>5, <4>6 DEF IsTailOf
        <3>5. GrantedSince(k, time - Window + 1)' <= Limit
            <4>1. time - Window + 1 \in Int /\ time - Window + 1 <= time
                BY <1>a
            <4>2. GrantedSince(k, time - Window + 1)' = GrantedSince(k, time - Window + 1) + 1
                <5>1. (time - Window + 1)' = time - Window + 1
                    BY <2>2
                <5> QED
                    BY <3>2, <4>1, <5>1 DEF GrantedSince
            <4> QED
                BY <1>a, <2>1, <2>4, <4>2
        <3>6. SlidingLimitHolds'
            BY <2>2, <3>2, <3>5 DEF SlidingInv, SlidingLimitHolds, GrantedSince
        <3> QED
            BY <3>2, <3>3, <3>4, <3>6 DEF SlidingInv
    <2> QED
        BY <2>3, <2>4
<1> QED
    BY <1>1, <1>2, <1>3, <1>4, <1>5 DEF SlidingNext

(* No window holds more than Limit requests of a key, and one is refused only when it is full,    *)
(* for any limit and window and however the clean-up drops what has left it.                      *)
THEOREM SlidingLimitHoldsAlways == LimitsInit /\ [][SlidingNext]_limitVars => []SlidingLimitHolds
<1>1. SlidingInv => SlidingLimitHolds
    BY DEF SlidingInv
<1> QED
    BY <1>1, SlidingInvInit, SlidingInvNext, PTL

(***************************************************************************)
(* The token bucket.  What a key may take now is what its bucket would     *)
(* hold if it were refilled, and a full bucket when it has none: that a    *)
(* bucket is dropped makes no difference, for it has been idle long enough *)
(* to be full.  What may be taken now and what was let through since any   *)
(* time are together at most a full bucket and what was added since, and   *)
(* exactly that since the time at which the bucket was last full.          *)
(***************************************************************************)
Available(k) == IF k \in DOMAIN buckets THEN Refilled(buckets[k]) ELSE Full.tokens

\* What can have been let through since t.
Allowance(t) == Burst * TokenUnit + (time - t) * Rate

BucketsTyped ==
    \A k \in DOMAIN buckets :
        buckets[k].tokens \in 0 .. Full.tokens /\ buckets[k].lastRefill \in 0 .. time

BucketInv ==
    /\ GrantsTyped
    /\ BucketsTyped
    /\ \A k \in Keys :
        /\ \A t \in 0 .. time : GrantedSince(k, t) * TokenUnit + Available(k) <= Allowance(t)
        /\ \E t \in 0 .. time : GrantedSince(k, t) * TokenUnit + Available(k) >= Allowance(t)
        /\ k \in refused => Available(k) < TokenUnit

LEMMA OneMore == ASSUME NEW x \in Int, NEW y \in Int PROVE (x + 1) * y = x * y + y /\ x * y \in Int
    OBVIOUS

LEMMA ProductGrows ==
    ASSUME NEW x \in Nat, NEW y \in Nat, x <= y, NEW z \in Nat
    PROVE  x * z \in Nat /\ x * z <= y * z
<1>1. PICK d \in Nat : d = y - x
    OBVIOUS
<1>2. y * z = x * z + d * z /\ d * z \in Nat /\ x * z \in Nat
    BY <1>1
<1> QED
    BY <1>2

LEMMA FullIsNat == /\ Full.tokens = Burst * TokenUnit /\ Full.tokens \in Nat
                   /\ TokenUnit \in Nat /\ TokenUnit <= Full.tokens
                   /\ Rate \in Nat /\ IdleTicks \in Nat /\ IdleTicks * Rate >= Full.tokens
<1>1. /\ Burst \in Nat \ {0} /\ TokenUnit \in Nat \ {0} /\ Rate \in Nat \ {0}
      /\ IdleTicks \in Nat \ {0} /\ IdleTicks * Rate >= Burst * TokenUnit
    BY RateLimitsAssumption DEF RateLimitsAssumption
<1>2. 1 * TokenUnit <= Burst * TokenUnit /\ Burst * TokenUnit \in Nat
    BY <1>1, ProductGrows
<1> QED
    BY <1>1, <1>2 DEF Full

LEMMA AllowanceIsInt ==
    ASSUME time \in Nat, NEW t \in 0 .. time PROVE Allowance(t) \in Nat
<1>1. time - t \in Nat
    OBVIOUS
<1> QED
    BY <1>1, FullIsNat, ProductGrows DEF Allowance

LEMMA RefilledIsNat ==
    ASSUME time \in Nat, NEW b, b.tokens \in 0 .. Full.tokens, b.lastRefill \in 0 .. time
    PROVE  /\ b.tokens + (time - b.lastRefill) * Rate \in Nat
           /\ Refilled(b) \in 0 .. Full.tokens
<1>1. time - b.lastRefill \in Nat /\ b.tokens \in Nat
    BY FullIsNat
<1>2. PICK r \in Nat : r = (time - b.lastRefill) * Rate
    BY <1>1, FullIsNat, ProductGrows
<1> QED
    BY <1>1, <1>2, FullIsNat DEF Refilled

LEMMA AvailableTyped ==
    ASSUME time \in Nat, BucketsTyped, NEW k PROVE Available(k) \in 0 .. Full.tokens
<1>1. CASE k \in DOMAIN buckets
    BY <1>1, RefilledIsNat DEF Available, BucketsTyped
<1>2. CASE k \notin DOMAIN buckets
    BY <1>2, FullIsNat DEF Available
<1> QED
    BY <1>1, <1>2

\* A tick adds Rate, up to a full bucket, whether or not the key has a bucket.
LEMMA AvailableAfterTick ==
    ASSUME time \in Nat, BucketsTyped, NEW k, buckets' = buckets, time' = time + 1
    PROVE  Available(k)' = IF Available(k) + Rate > Full.tokens THEN Full.tokens
                           ELSE Available(k) + Rate
<1>1. CASE k \in DOMAIN buckets
    <2> DEFINE b == buckets[k]
    <2>1. b.tokens \in 0 .. Full.tokens /\ b.lastRefill \in 0 .. time
        BY <1>1 DEF BucketsTyped
    <2>2. PICK r \in Nat : r = b.tokens + (time - b.lastRefill) * Rate
        BY <2>1, RefilledIsNat
    <2>3. b.tokens + (time' - b.lastRefill) * Rate = r + Rate
        <3>1. PICK d \in Int : d = time - b.lastRefill
            BY <2>1
        <3>2. time' - b.lastRefill = d + 1
            BY <2>1, <3>1
        <3>3. (d + 1) * Rate = d * Rate + Rate /\ d * Rate \in Int
            BY <3>1, OneMore, FullIsNat
        <3> HIDE DEF b
        <3> QED
            BY <2>1, <2>2, <3>1, <3>2, <3>3, FullIsNat
    <2>4. /\ Available(k) = IF r > Full.tokens THEN Full.tokens ELSE r
          /\ Available(k)' = IF r + Rate > Full.tokens THEN Full.tokens ELSE r + Rate
        <3>1. Available(k)' = Refilled(b)'
            BY <1>1 DEF Available
        <3>2. Full' = Full /\ b' = b
            BY DEF Full
        <3> QED
            BY <1>1, <2>2, <2>3, <3>1, <3>2 DEF Available, Refilled
    <2> QED
        BY <2>2, <2>4, FullIsNat
<1>2. CASE k \notin DOMAIN buckets
    <2>1. Available(k) = Full.tokens /\ Available(k)' = Full.tokens
        BY <1>2 DEF Available, Full
    <2> QED
        BY <2>1, FullIsNat
<1> QED
    BY <1>1, <1>2

\* A bucket that is dropped would be full if it were refilled.
LEMMA DroppedIsFull ==
    ASSUME time \in Nat, BucketsTyped, NEW k \in DOMAIN buckets \ KeptBuckets
    PROVE  Available(k) = Full.tokens
<1> DEFINE b == buckets[k]
<1>1. b.tokens \in 0 .. Full.tokens /\ b.lastRefill \in 0 .. time
    BY DEF BucketsTyped
<1>2. ~ (time - b.lastRefill <= IdleTicks)
    BY DEF KeptBuckets
<1>3. PICK d \in Nat : d = time - b.lastRefill
    BY <1>1
<1>4. d * Rate \in Nat /\ IdleTicks * Rate \in Nat /\ IdleTicks * Rate <= d * Rate
    BY <1>2, <1>3, FullIsNat, ProductGrows
<1>5. b.tokens + (time - b.lastRefill) * Rate = b.tokens + d * Rate
    BY <1>3
<1>6. b.tokens + d * Rate >= Full.tokens /\ b.tokens + d * Rate \in Nat
    BY <1>1, <1>4, FullIsNat
<1>7. Available(k) = IF b.tokens + d * Rate > Full.tokens THEN Full.tokens ELSE b.tokens + d * Rate
    BY <1>5 DEF Available, Refilled
<1> QED
    BY <1>6, <1>7, FullIsNat

\* Taking a token takes it from what the key may take now, and from no other key.
LEMMA AvailableAfterTake ==
    ASSUME time \in Nat, BucketsTyped, NEW k, TakeToken(k)
    PROVE  /\ BucketsTyped' /\ time' = time
           /\ \A j : j # k => Available(j)' = Available(j)
           /\ IF Available(k) >= TokenUnit
              THEN Grant(k) /\ Available(k)' = Available(k) - TokenUnit
              ELSE Refuse(k) /\ Available(k)' = Available(k)
<1> DEFINE kept == [j \in KeptBuckets |-> buckets[j]]
           tokens == IF k \in DOMAIN kept THEN Refilled(kept[k]) ELSE Full.tokens
           left == IF tokens >= TokenUnit THEN tokens - TokenUnit ELSE tokens
           new == [tokens |-> left, lastRefill |-> time]
<1>1. DOMAIN kept = KeptBuckets /\ KeptBuckets \subseteq DOMAIN buckets
    BY DEF KeptBuckets
<1>2. \A j \in KeptBuckets : kept[j] = buckets[j]
    OBVIOUS
<1>3. /\ buckets' = With(kept, k, new) /\ time' = time
      /\ IF tokens >= TokenUnit THEN Grant(k) ELSE Refuse(k)
    BY DEF TakeToken
<1>4. tokens = Available(k)
    <2>1. CASE k \in KeptBuckets
        BY <1>1, <1>2, <2>1 DEF Available
    <2>2. CASE k \in DOMAIN buckets \ KeptBuckets
        BY <1>1, <2>2, DroppedIsFull
    <2>3. CASE k \notin DOMAIN buckets
        BY <1>1, <2>3 DEF Available
    <2> QED
        BY <2>1, <2>2, <2>3
<1>5. tokens \in 0 .. Full.tokens
    BY <1>4, AvailableTyped
<1> HIDE DEF tokens
<1>6. left \in 0 .. Full.tokens
    BY <1>5, FullIsNat
<1> HIDE DEF kept, left
<1>7. /\ DOMAIN buckets' = KeptBuckets \cup {k} /\ buckets'[k] = new
      /\ \A j \in KeptBuckets : j # k => buckets'[j] = buckets[j]
    BY <1>1, <1>2, <1>3 DEF With
<1>8. new.tokens = left /\ new.lastRefill = time
    OBVIOUS
<1> HIDE DEF new
<1>9. Full' = Full /\ Full.tokens' = Full.tokens
    BY DEF Full
<1>10. BucketsTyped'
    <2> SUFFICES ASSUME NEW j \in DOMAIN buckets'
                 PROVE  buckets'[j].tokens \in 0 .. Full.tokens /\ buckets'[j].lastRefill \in 0 .. time'
        BY <1>9 DEF BucketsTyped
    <2>1. CASE j = k
        <3>1. time \in 0 .. time
            OBVIOUS
        <3> QED
            BY <1>3, <1>6, <1>7, <1>8, <2>1, <3>1
    <2>2. CASE j # k
        BY <1>1, <1>3, <1>7, <2>2 DEF BucketsTyped
    <2> QED
        BY <2>1, <2>2
<1>11. ASSUME NEW j, j # k PROVE Available(j)' = Available(j)
    <2>1. CASE j \in KeptBuckets
        <3>1. Refilled(buckets[j])' = Refilled(buckets[j])
            BY <1>3, <1>7, <1>9, <1>11, <2>1 DEF Refilled
        <3> QED
            BY <1>1, <1>7, <2>1, <3>1 DEF Available
    <2>2. CASE j \in DOMAIN buckets \ KeptBuckets
        <3>1. Available(j) = Full.tokens
            BY <2>2, DroppedIsFull
        <3> QED
            BY <1>7, <1>9, <1>11, <2>2, <3>1 DEF Available
    <2>3. CASE j \notin DOMAIN buckets
        BY <1>1, <1>7, <1>9, <1>11, <2>3 DEF Available
    <2> QED
        BY <2>1, <2>2, <2>3
<1>12. Available(k)' = left
    <2>1. Available(k)' = Refilled(buckets[k])'
        BY <1>7 DEF Available
    <2>2. Refilled(buckets[k])' =
              LET t == left + (time' - time) * Rate IN IF t > Full.tokens THEN Full.tokens ELSE t
        BY <1>3, <1>7, <1>8, <1>9 DEF Refilled
    <2>3. (time' - time) * Rate = 0
        BY <1>3, FullIsNat
    <2> QED
        BY <1>6, <2>1, <2>2, <2>3, FullIsNat
<1> QED
    BY <1>3, <1>4, <1>10, <1>11, <1>12 DEF left

LEMMA BucketInvInit == LimitsInit => BucketInv
<1> SUFFICES ASSUME LimitsInit PROVE BucketInv
    OBVIOUS
<1>1. /\ time = 0 /\ GrantsTyped /\ DOMAIN buckets = {} /\ refused = {}
      /\ \A k \in Keys : granted[k] = <<>>
    BY DEF LimitsInit, GrantsTyped
<1>2. \A k \in Keys : \A t : GrantedSince(k, t) = 0
    BY <1>1, FS_EmptySet DEF GrantedSince
<1>3. \A k : Available(k) = Full.tokens
    BY <1>1 DEF Available
<1>4. Allowance(0) = Full.tokens
    BY <1>1, FullIsNat DEF Allowance
<1>5. 0 .. time = {0} /\ 0 * TokenUnit = 0
    BY <1>1, FullIsNat
<1> QED
    BY <1>1, <1>2, <1>3, <1>4, <1>5, FullIsNat DEF BucketInv, BucketsTyped

LEMMA BucketInvNext == BucketInv /\ [BucketNext]_limitVars => BucketInv'
<1> SUFFICES ASSUME BucketInv, [BucketNext]_limitVars PROVE BucketInv'
    OBVIOUS
<1> DEFINE ok(k) == /\ \A t \in 0 .. time : GrantedSince(k, t) * TokenUnit + Available(k) <= Allowance(t)
                    /\ \E t \in 0 .. time : GrantedSince(k, t) * TokenUnit + Available(k) >= Allowance(t)
                    /\ k \in refused => Available(k) < TokenUnit
<1>a. GrantsTyped /\ BucketsTyped /\ time \in Nat /\ time \in Int /\ \A k \in Keys : ok(k)
    BY DEF BucketInv, GrantsTyped
<1>0. \A k \in Keys : /\ Available(k) \in 0 .. Full.tokens
                      /\ \A t : /\ GrantedSince(k, t) \in Nat
                                /\ GrantedSince(k, t) * TokenUnit \in Nat
                                /\ (GrantedSince(k, t) + 1) * TokenUnit
                                       = GrantedSince(k, t) * TokenUnit + TokenUnit
    <2> TAKE k \in Keys
    <2>1. Available(k) \in 0 .. Full.tokens
        BY <1>a, AvailableTyped
    <2>2. ASSUME NEW t
          PROVE  /\ GrantedSince(k, t) \in Nat /\ GrantedSince(k, t) * TokenUnit \in Nat
                 /\ (GrantedSince(k, t) + 1) * TokenUnit = GrantedSince(k, t) * TokenUnit + TokenUnit
        <3>1. PICK n \in Nat : n = GrantedSince(k, t)
            BY <1>a, SinceIsFinite
        <3>2. n * TokenUnit \in Nat /\ (n + 1) * TokenUnit = n * TokenUnit + TokenUnit
            BY FullIsNat, OneMore, ProductGrows
        <3> QED
            BY <3>1, <3>2
    <2> QED
        BY <2>1, <2>2
<1>1. CASE UNCHANGED limitVars
    <2>1. GrantsTyped' /\ BucketsTyped'
        BY <1>1, <1>a DEF limitVars, GrantsTyped, BucketsTyped, Full
    <2>2. ASSUME NEW k \in Keys PROVE ok(k)'
        BY <1>1, <1>a DEF limitVars, GrantedSince, Available, Refilled, Allowance, Full
    <2> QED
        BY <2>1, <2>2 DEF BucketInv
<1>2. CASE PassTick
    <2>0. /\ time' = time + 1 /\ buckets' = buckets /\ granted' = granted /\ refused' = {}
          /\ time' \in Nat /\ time <= time'
        BY <1>2, <1>a DEF PassTick
    <2>1. GrantsTyped' /\ \A k \in Keys : \A t : GrantedSince(k, t)' = GrantedSince(k, t)
        BY <1>a, <2>0, GrantsStay
    <2>2. BucketsTyped'
        <3>1. Full.tokens' = Full.tokens
            BY DEF Full
        <3>2. \A x \in 0 .. time : x \in 0 .. time'
            BY <1>a, <2>0
        <3> QED
            BY <1>a, <2>0, <3>1, <3>2 DEF BucketsTyped
    <2>3. \A t \in 0 .. time : Allowance(t)' = Allowance(t) + Rate /\ Allowance(t) \in Nat
        <3> TAKE t \in 0 .. time
        <3>1. PICK d \in Int : d = time - t
            BY <1>a
        <3>2. (d + 1) * Rate = d * Rate + Rate /\ d * Rate \in Int /\ time' - t = d + 1
            BY <1>a, <2>0, <3>1, OneMore, FullIsNat
        <3>3. /\ Allowance(t) = Full.tokens + d * Rate
              /\ Allowance(t)' = Full.tokens + (d + 1) * Rate
            BY <3>1, <3>2, FullIsNat DEF Allowance
        <3> QED
            BY <1>a, <3>2, <3>3, FullIsNat, AllowanceIsInt
    <2>n. PICK now \in Nat : now = time + 1
        BY <1>a
    <2>4. Allowance(now)' = Full.tokens
        <3>1. time' - now = 0 /\ 0 * Rate = 0
            BY <1>a, <2>0, <2>n, FullIsNat
        <3>2. Allowance(now)' = Full.tokens + (time' - now) * Rate
            BY FullIsNat DEF Allowance
        <3> QED
            BY <3>1, <3>2, FullIsNat
    <2>5. ASSUME NEW k \in Keys PROVE ok(k)'
        <3> DEFINE a == Available(k)
                   u(t) == GrantedSince(k, t) * TokenUnit
        <3>1. a \in 0 .. Full.tokens /\ \A t : u(t) \in Nat /\ u(t)' = u(t)
            BY <1>0, <2>1
        <3>2. a' = IF a + Rate > Full.tokens THEN Full.tokens ELSE a + Rate
            BY <1>a, <2>0, AvailableAfterTick
        <3>3. u(now) = 0
            <4>1. \A i \in DOMAIN granted[k] : granted[k][i] < now
                <5> TAKE i \in DOMAIN granted[k]
                <5>1. granted[k] \in Seq(Nat) /\ granted[k][i] <= time
                    BY <1>a DEF GrantsTyped
                <5>2. granted[k][i] \in Nat
                    BY <5>1
                <5> QED
                    BY <1>a, <2>n, <5>1, <5>2
            <4>2. GrantedSince(k, now) = 0
                BY <1>a, <4>1, NoneSince
            <4> QED
                BY <4>2, FullIsNat
        <3>4. /\ \A t \in 0 .. time : u(t) + a <= Allowance(t)
              /\ \E t \in 0 .. time : u(t) + a >= Allowance(t)
            BY <1>a
        <3>5. 0 .. time' = (0 .. time) \cup {now} /\ now \in 0 .. time'
            BY <1>a, <2>0, <2>n
        <3> HIDE DEF a, u
        <3>6. ASSUME NEW t \in 0 .. time' PROVE u(t)' + a' <= Allowance(t)'
            <4>1. CASE t \in 0 .. time
                BY <2>3, <3>1, <3>2, <3>4, <4>1, FullIsNat
            <4>2. CASE t = now
                BY <2>4, <3>1, <3>2, <3>3, <4>2, FullIsNat
            <4> QED
                BY <3>5, <4>1, <4>2
        <3>7. \E t \in 0 .. time' : u(t)' + a' >= Allowance(t)'
            <4>1. CASE a + Rate > Full.tokens
                <5>1. u(now)' + a' >= Allowance(now)'
                    BY <2>4, <3>1, <3>2, <3>3, <4>1, FullIsNat
                <5> QED
                    BY <3>5, <5>1
            <4>2. CASE ~(a + Rate > Full.tokens)
                <5>1. PICK t \in 0 .. time : u(t) + a >= Allowance(t)
                    BY <3>4
                <5>2. u(t)' + a' >= Allowance(t)'
                    BY <2>3, <3>1, <3>2, <4>2, <5>1, FullIsNat
                <5> QED
                    BY <3>5, <5>2
            <4> QED
                BY <4>1, <4>2
        <3> QED
            BY <2>0, <3>6, <3>7 DEF a, u
    <2> QED
        BY <2>1, <2>2, <2>5 DEF BucketInv
<1>3. ASSUME NEW k \in Keys, TakeToken(k) PROVE BucketInv'
    <2>0. /\ BucketsTyped' /\ time' = time
          /\ \A j : j # k => Available(j)' = Available(j)
          /\ IF Available(k) >= TokenUnit
             THEN Grant(k) /\ Available(k)' = Available(k) - TokenUnit
             ELSE Refuse(k) /\ Available(k)' = Available(k)
        BY <1>3, <1>a, AvailableAfterTake
    <2>1. \A t \in 0 .. time : Allowance(t)' = Allowance(t) /\ Allowance(t) \in Nat /\ t \in Int /\ t <= time
        BY <1>a, <2>0, AllowanceIsInt DEF Allowance
    <2>2. CASE Available(k) >= TokenUnit
        <3>1. /\ GrantsTyped' /\ refused' = {}
              /\ \A t \in Int : t <= time => GrantedSince(k, t)' = GrantedSince(k, t) + 1
              /\ \A j \in Keys \ {k} : granted'[j] = granted[j]
            BY <1>a, <2>0, <2>2, GrantAddsOne
        <3>2. ASSUME NEW j \in Keys \ {k} PROVE ok(j)'
            <4>1. \A t : GrantedSince(j, t)' = GrantedSince(j, t)
                BY <3>1 DEF GrantedSince
            <4> QED
                BY <1>a, <2>0, <2>1, <3>1, <4>1
        <3>3. ok(k)'
            <4> DEFINE a == Available(k)
                       u(t) == GrantedSince(k, t) * TokenUnit
            <4>1. /\ a \in 0 .. Full.tokens /\ a' = a - TokenUnit
                  /\ \A t \in 0 .. time : u(t) \in Nat /\ u(t)' = u(t) + TokenUnit
                <5>1. a \in 0 .. Full.tokens /\ a' = a - TokenUnit
                    BY <1>0, <2>0, <2>2
                <5>2. ASSUME NEW t \in 0 .. time PROVE u(t) \in Nat /\ u(t)' = u(t) + TokenUnit
                    <6>1. GrantedSince(k, t)' = GrantedSince(k, t) + 1
                        BY <2>1, <3>1
                    <6> QED
                        BY <1>0, <6>1
                <5> HIDE DEF a, u
                <5> QED
                    BY <5>1, <5>2
            <4>2. /\ \A t \in 0 .. time : u(t) + a <= Allowance(t)
                  /\ \E t \in 0 .. time : u(t) + a >= Allowance(t)
                BY <1>a
            <4> HIDE DEF a, u
            <4>3. \A t \in 0 .. time : u(t)' + a' = u(t) + a
                BY <4>1, FullIsNat
            <4>4. /\ \A t \in 0 .. time' : u(t)' + a' <= Allowance(t)'
                  /\ \E t \in 0 .. time' : u(t)' + a' >= Allowance(t)'
                BY <2>0, <2>1, <4>2, <4>3
            <4> QED
                BY <3>1, <4>4 DEF a, u
        <3> QED
            BY <2>0, <3>1, <3>2, <3>3 DEF BucketInv
    <2>3. CASE ~(Available(k) >= TokenUnit)
        <3>1. Refuse(k) /\ Available(k)' = Available(k)
            BY <2>0, <2>3
        <3>2. GrantsTyped' /\ \A j \in Keys : \A t : GrantedSince(j, t)' = GrantedSince(j, t)
            <4>1. granted' = granted /\ refused' \subseteq Keys /\ time' \in Nat /\ time <= time'
                BY <1>a, <2>0, <3>1 DEF Refuse
            <4> QED
                BY <1>a, <4>1, GrantsStay
        <3>3. Available(k) < TokenUnit
            BY <1>0, <2>3, FullIsNat
        <3>4. ASSUME NEW j \in Keys PROVE ok(j)'
            <4>1. Available(j)' = Available(j)
                BY <2>0, <3>1
            <4>2. j \in refused' => Available(j) < TokenUnit
                BY <3>1, <3>3 DEF Refuse
            <4> QED
                BY <1>a, <2>0, <2>1, <3>2, <4>1, <4>2
        <3> QED
            BY <2>0, <3>2, <3>4 DEF BucketInv
    <2> QED
        BY <2>2, <2>3
<1> QED
    BY <1>1, <1>2, <1>3 DEF BucketNext

LEMMA BucketInvImplies == BucketInv => BucketLimitHolds
<1> SUFFICES ASSUME BucketInv, NEW k \in Keys
             PROVE  /\ \A t \in 0 .. time : GrantedSince(k, t) * TokenUnit <= Allowance(t)
                    /\ k \in refused => \E t \in 0 .. time :
                           (GrantedSince(k, t) + 1) * TokenUnit > Allowance(t)
    BY DEF BucketLimitHolds, Allowance
<1>1. time \in Nat /\ GrantsTyped /\ BucketsTyped
    BY DEF BucketInv, GrantsTyped
<1>2. Available(k) \in 0 .. Full.tokens
    BY <1>1, AvailableTyped
<1>3. ASSUME NEW t \in 0 .. time
      PROVE  /\ GrantedSince(k, t) * TokenUnit \in Nat /\ Allowance(t) \in Nat
             /\ (GrantedSince(k, t) + 1) * TokenUnit = GrantedSince(k, t) * TokenUnit + TokenUnit
    <2>1. PICK n \in Nat : n = GrantedSince(k, t)
        BY <1>1, SinceIsFinite
    <2>2. n * TokenUnit \in Nat /\ (n + 1) * TokenUnit = n * TokenUnit + TokenUnit
        BY FullIsNat, OneMore, ProductGrows
    <2> QED
        BY <1>1, <2>1, <2>2, AllowanceIsInt
<1> DEFINE u(t) == GrantedSince(k, t) * TokenUnit
           v(t) == (GrantedSince(k, t) + 1) * TokenUnit
<1>4. /\ \A t \in 0 .. time : u(t) + Available(k) <= Allowance(t)
      /\ \E t \in 0 .. time : u(t) + Available(k) >= Allowance(t)
      /\ k \in refused => Available(k) < TokenUnit
    BY DEF BucketInv
<1>5. \A t \in 0 .. time : u(t) \in Nat /\ Allowance(t) \in Nat /\ v(t) = u(t) + TokenUnit
    BY <1>3
<1> HIDE DEF u, v
<1>6. \A t \in 0 .. time : u(t) <= Allowance(t)
    BY <1>2, <1>4, <1>5, FullIsNat
<1>7. ASSUME k \in refused PROVE \E t \in 0 .. time : v(t) > Allowance(t)
    BY <1>2, <1>4, <1>5, <1>7, FullIsNat
<1> QED
    BY <1>6, <1>7 DEF u, v

(* In no stretch of time are more requests of a key let through than a full bucket and what was   *)
(* added in it, and one is refused only when less than a token was left of that, for any sizes    *)
(* with which a bucket that is dropped for idling would be full by then.                          *)
THEOREM BucketLimitHoldsAlways == LimitsInit /\ [][BucketNext]_limitVars => []BucketLimitHolds
<1> QED
    BY BucketInvInit, BucketInvNext, BucketInvImplies, PTL

(***************************************************************************)
(* The accounts, for any number of users, tokens, invitations, roles,      *)
(* password resets and requests in progress.                               *)
(*                                                                         *)
(* AuthMiddleware admits a request after three reads that other requests   *)
(* can interleave with.  What ties the first read to the second is that    *)
(* rows only age: a deleted user never comes back under its ID, and a      *)
(* session_version never goes down.  So a token that was no good when its  *)
(* row was read is still refused when the owner's row is.                  *)
(***************************************************************************)

USE AccountsAssumption DEF AccountsAssumption

GivenRoles == RoleSet \cup {"owner"}
SessionVersions == 1..MaxVersion

\* What a request can have read.
TokenRead == [at : {"token", "valid"}, tok : TokenIDs, who : UserIDs, version : SessionVersions,
              usable : BOOLEAN]
LetIn     == [at : {"admitted"}, tok : TokenIDs, who : UserIDs, role : GivenRoles, usable : BOOLEAN]
LoggedIn  == [at : {"verified"}, who : UserIDs]
Issuing   == [at : {"issuing"}, who : UserIDs, version : SessionVersions]
Accepting == [at : {"accepting"}, inv : Invites, email : Emails, role : RoleSet]
Created   == [at : {"created"}, inv : Invites, who : UserIDs]
RequestState == {Idle} \cup TokenRead \cup LetIn \cup LoggedIn \cup Issuing \cup Accepting \cup Created

RequestsTyped == request \in [Requests -> RequestState]

\* The owner of a token is no longer what it was when the token was issued.
Outdated(state) ==
    \/ user[state.who] = Gone
    \/ Exists(user, state.who) /\ user[state.who].version > state.version

\* A token that was no good when it was read is one that the next read refuses.
IsRefused(r) ==
    /\ at(r, "token") => request[r].usable \/ Outdated(request[r])
    /\ at(r, "valid") \/ at(r, "admitted") => request[r].usable
BadTokensAreRefused == \A r \in Requests : IsRefused(r)

AccountsInv == AccountsTypeOK /\ RequestsTyped /\ BadTokensAreRefused

\* Users are inserted once, deleted for good, and their sessions are only ever ended.
UsersAge ==
    \A u \in UserIDs :
        /\ user[u] = Gone => user'[u] = Gone
        /\ user[u] # Unused =>
              user'[u] = Gone \/ (user'[u] \in User /\ user'[u].version >= user[u].version)
----------------------------------------------------------------------------------
\* Rows are there or not.
LEMMA ARowExists ==
    ASSUME AccountsTypeOK
    PROVE  /\ \A u \in UserIDs : Exists(user, u) <=> user[u] \in User
           /\ \A t \in TokenIDs : Exists(token, t) <=> token[t] \in Token
           /\ \A i \in Invites : Exists(invite, i) <=> invite[i] \in Invite
<1>1. Unused \notin User /\ Gone \notin User /\ Unused \notin Token /\ Gone \notin Token
      /\ Unused \notin Invite /\ Gone \notin Invite
    OBVIOUS
<1> QED
    BY <1>1 DEF AccountsTypeOK, Exists

\* What a request holds follows from where it is.
LEMMA WhatIsRead ==
    ASSUME NEW state \in RequestState
    PROVE  /\ state.at \in {"token", "valid"} => state \in TokenRead
           /\ state.at = "admitted" => state \in LetIn
           /\ state.at = "verified" => state \in LoggedIn
           /\ state.at = "issuing" => state \in Issuing
           /\ state.at = "accepting" => state \in Accepting
           /\ state.at = "created" => state \in Created
BY DEF RequestState, Idle, TokenRead, LetIn, LoggedIn, Issuing, Accepting, Created

LEMMA AccountsInvInit == AccountsInit => AccountsInv
<1> SUFFICES ASSUME AccountsInit PROVE AccountsInv
    OBVIOUS
<1>1. AccountsTypeOK
    BY DEF AccountsInit, AccountsTypeOK, Exists
<1>2. RequestsTyped
    BY DEF AccountsInit, RequestsTyped, RequestState
<1>3. BadTokensAreRefused
    BY DEF AccountsInit, BadTokensAreRefused, IsRefused, at, Idle
<1> QED
    BY <1>1, <1>2, <1>3 DEF AccountsInv
----------------------------------------------------------------------------------
\* InsertUser fills the row of a user that never was.
LEMMA InsertedUser ==
    ASSUME AccountsTypeOK, NEW u \in UserIDs, NEW e \in Emails, NEW role \in GivenRoles,
           InsertUser(u, e, role), UNCHANGED <<token, invite, member>>
    PROVE  AccountsTypeOK' /\ UsersAge
<1> DEFINE row == [email |-> e, role |-> role, version |-> 1]
<1>1. row \in User
    BY DEF User, GivenRoles
<1>2. user[u] = Unused /\ user' = [user EXCEPT ![u] = row]
    BY DEF InsertUser, Fresh
<1> HIDE DEF row
<1>3. user' \in [UserIDs -> User \cup {Unused, Gone}] /\ \A v \in UserIDs : v # u => user'[v] = user[v]
    BY <1>1, <1>2 DEF AccountsTypeOK
<1>4. \A v \in UserIDs : Exists(user, v) => v # u /\ Exists(user', v)
    BY <1>2, <1>3 DEF Exists
<1>5. AccountsTypeOK'
    BY <1>3, <1>4, ARowExists DEF AccountsTypeOK, Token, Invite, Exists
<1>6. UsersAge
    BY <1>1, <1>2, <1>3 DEF UsersAge, AccountsTypeOK, User
<1> QED
    BY <1>5, <1>6

\* DeleteUserRow takes every row that refers to the user with it.
LEMMA DeletedUser ==
    ASSUME AccountsTypeOK, NEW u \in UserIDs, DeleteUserRow(u)
    PROVE  AccountsTypeOK' /\ UsersAge
<1>1. user' \in [UserIDs -> User \cup {Unused, Gone}] /\ user'[u] = Gone
      /\ \A v \in UserIDs : v # u => user'[v] = user[v]
    BY DEF AccountsTypeOK, DeleteUserRow
<1>2. /\ token' \in [TokenIDs -> Token \cup {Unused, Gone}]
      /\ invite' \in [Invites -> Invite \cup {Unused, Gone}] /\ member' \subseteq UserIDs
    BY DEF AccountsTypeOK, DeleteUserRow
<1>3. \A v \in UserIDs : Exists(user, v) /\ v # u => Exists(user', v)
    BY <1>1 DEF Exists
<1>4. \A t \in TokenIDs : Exists(token', t) =>
          Exists(token, t) /\ token'[t] = token[t] /\ token[t].owner # u
    BY DEF DeleteUserRow, Exists
<1>5. \A i \in Invites : Exists(invite', i) =>
          Exists(invite, i) /\ invite'[i] = invite[i] /\ invite[i].by # u
    BY DEF DeleteUserRow, Exists
<1>6. \A t \in TokenIDs : Exists(token', t) => Exists(user', token'[t].owner)
    BY <1>3, <1>4, ARowExists DEF AccountsTypeOK, Token
<1>7. \A i \in Invites : Exists(invite', i) => Exists(user', invite'[i].by)
    BY <1>3, <1>5, ARowExists DEF AccountsTypeOK, Invite
<1>8. \A v \in member' : Exists(user', v)
    <2>1. SUFFICES ASSUME NEW v \in member, v # u PROVE Exists(user', v)
        BY DEF DeleteUserRow
    <2>2. Exists(user, v)
        BY <2>1 DEF AccountsTypeOK
    <2> QED
        BY <1>1, <2>1, <2>2 DEF Exists, DeleteUserRow
<1>9. AccountsTypeOK'
    BY <1>1, <1>2, <1>6, <1>7, <1>8 DEF AccountsTypeOK, Exists
<1>10. UsersAge
    BY <1>1 DEF UsersAge, AccountsTypeOK, User
<1> QED
    BY <1>9, <1>10

\* A change of users that keeps every row keeps the rows that refer to them.
LEMMA ChangedUser ==
    ASSUME AccountsTypeOK, NEW u \in UserIDs, Exists(user, u), NEW row \in User,
           user' = [user EXCEPT ![u] = row], row.version >= user[u].version,
           UNCHANGED <<token, invite, member>>
    PROVE  AccountsTypeOK' /\ UsersAge
<1>1. user' \in [UserIDs -> User \cup {Unused, Gone}] /\ user'[u] = row
      /\ \A v \in UserIDs : v # u => user'[v] = user[v]
    BY DEF AccountsTypeOK
<1>2. row # Unused /\ row # Gone
    OBVIOUS
<1>3. \A v \in UserIDs : Exists(user, v) => Exists(user', v)
    BY <1>1, <1>2 DEF Exists
<1>4. AccountsTypeOK'
    BY <1>1, <1>3, ARowExists DEF AccountsTypeOK, Token, Invite, Exists
<1>5. UsersAge
    BY <1>1, ARowExists DEF UsersAge, AccountsTypeOK, User, Exists
<1> QED
    BY <1>4, <1>5

LEMMA SameUsers == AccountsTypeOK /\ UNCHANGED user => UsersAge
BY ARowExists DEF UsersAge, AccountsTypeOK, User

\* A token whose owner exists, or none any more.
LEMMA ChangedToken ==
    ASSUME AccountsTypeOK, NEW t \in TokenIDs, NEW row \in Token \cup {Gone},
           row \in Token => Exists(user, row.owner), token' = [token EXCEPT ![t] = row],
           UNCHANGED <<user, invite, member>>
    PROVE  AccountsTypeOK'
<1>1. token' \in [TokenIDs -> Token \cup {Unused, Gone}] /\ token'[t] = row
      /\ \A s \in TokenIDs : s # t => token'[s] = token[s]
    BY DEF AccountsTypeOK
<1>2. \A s \in TokenIDs : Exists(token', s) => Exists(user, token'[s].owner)
    BY <1>1 DEF AccountsTypeOK, Exists
<1> QED
    BY <1>1, <1>2 DEF AccountsTypeOK, Exists

\* An invitation by a user that exists.
LEMMA ChangedInvite ==
    ASSUME AccountsTypeOK, NEW i \in Invites, NEW row \in Invite, Exists(user, row.by),
           invite' = [invite EXCEPT ![i] = row], UNCHANGED <<user, token, member>>
    PROVE  AccountsTypeOK'
<1>1. invite' \in [Invites -> Invite \cup {Unused, Gone}] /\ invite'[i] = row
      /\ \A j \in Invites : j # i => invite'[j] = invite[j]
    BY DEF AccountsTypeOK
<1>2. \A j \in Invites : Exists(invite', j) => Exists(user, invite'[j].by)
    BY <1>1 DEF AccountsTypeOK, Exists
<1> QED
    BY <1>1, <1>2 DEF AccountsTypeOK, Exists

LEMMA DeletedToken ==
    ASSUME AccountsTypeOK, NEW t \in TokenIDs, DeleteToken(t), UNCHANGED <<user, invite, member>>
    PROVE  AccountsTypeOK'
<1>1. CASE Exists(token, t)
    <2>1. token' = [token EXCEPT ![t] = Gone]
        BY <1>1 DEF DeleteToken
    <2>2. Gone \notin Token
        OBVIOUS
    <2> QED
        BY <2>1, <2>2, ChangedToken
<1>2. CASE ~Exists(token, t)
    BY <1>2 DEF DeleteToken, AccountsTypeOK, Exists
<1> QED
    BY <1>1, <1>2
----------------------------------------------------------------------------------
\* No operation leaves a row that refers to a user who is gone, and users only age.
LEMMA AccountsTypeNext == AccountsInv /\ [AccountsNext]_accountVars => AccountsTypeOK' /\ UsersAge
<1> SUFFICES ASSUME AccountsTypeOK, RequestsTyped, [AccountsNext]_accountVars
             PROVE  AccountsTypeOK' /\ UsersAge
    BY DEF AccountsInv
<1> DEFINE Same == UNCHANGED <<user, token, invite, member>>
<1>0. CASE Same
    BY <1>0, SameUsers DEF AccountsTypeOK, Exists
<1>1. ASSUME NEW u \in UserIDs, BootstrapAdmin(u) PROVE AccountsTypeOK' /\ UsersAge
    BY <1>1, InsertedUser DEF BootstrapAdmin, GivenRoles
<1>2. ASSUME NEW t \in TokenIDs, ExpireToken(t) PROVE AccountsTypeOK' /\ UsersAge
    <2>1. PICK row \in Token : row = [token[t] EXCEPT !.expired = TRUE]
        BY <1>2, ARowExists DEF ExpireToken, Token
    <2>2. token' = [token EXCEPT ![t] = row]
        BY <1>2, <2>1 DEF ExpireToken, AccountsTypeOK
    <2>3. Exists(user, row.owner)
        BY <1>2, <2>1, ARowExists DEF ExpireToken, AccountsTypeOK, Token
    <2> QED
        BY <1>2, <2>2, <2>3, ChangedToken, SameUsers DEF ExpireToken
<1>3. ASSUME NEW i \in Invites, ExpireInvite(i) PROVE AccountsTypeOK' /\ UsersAge
    <2>1. PICK row \in Invite : row = [invite[i] EXCEPT !.expired = TRUE]
        BY <1>3, ARowExists DEF ExpireInvite, Invite
    <2>2. invite' = [invite EXCEPT ![i] = row]
        BY <1>3, <2>1 DEF ExpireInvite, AccountsTypeOK
    <2>3. Exists(user, row.by)
        BY <1>3, <2>1, ARowExists DEF ExpireInvite, AccountsTypeOK, Invite
    <2> QED
        BY <1>3, <2>2, <2>3, ChangedInvite, SameUsers DEF ExpireInvite
<1> SUFFICES ASSUME NEW r \in Requests, Same => FALSE,
                    \/ Logout(r) \/ MarkAccepted(r)
                    \/ \E t \in TokenIDs : CreateAPIToken(r, t) \/ DeleteAPIToken(r, t)
                    \/ \E i \in Invites, e \in Emails, role \in RoleSet : InviteUser(r, i, e, role)
                    \/ \E u \in UserIDs :
                          \/ CreateInvited(r, u) \/ DeleteUser(r, u) \/ ResetUserPassword(r, u)
                          \/ SetProjectMember(r, u) \/ RemoveProjectMember(r, u)
                    \/ \E u \in UserIDs, role \in RoleSet : UpdateUserRole(r, u, role)
             PROVE  AccountsTypeOK' /\ UsersAge
    BY ZenonT(60), <1>0, <1>1, <1>2, <1>3
       DEF AccountsNext, accountVars, ValidateAPIToken, AuthMiddleware, CaptureVersion, Answer,
           GetByHash, CheckInvitation, AuthenticateUser
<1> HIDE DEF Same
<1>a. request[r] \in RequestState
    BY DEF RequestsTyped
<1>4. CASE Logout(r)
    <2>1. request[r].tok \in TokenIDs
        BY <1>4, <1>a, WhatIsRead DEF Logout, Admitted, at, LetIn
    <2> QED
        BY <1>4, <2>1, DeletedToken, SameUsers DEF Logout
<1>5. CASE MarkAccepted(r)
    <2>1. PICK i \in Invites : i = request[r].inv
        BY <1>5, <1>a, WhatIsRead DEF MarkAccepted, at, Created
    <2>2. CASE invite' = [invite EXCEPT ![i].accepted = TRUE] /\ Exists(invite, i)
        <3>1. PICK row \in Invite : row = [invite[i] EXCEPT !.accepted = TRUE]
            BY <2>2, ARowExists DEF Invite
        <3>2. invite' = [invite EXCEPT ![i] = row]
            BY <2>2, <3>1 DEF AccountsTypeOK
        <3>3. Exists(user, row.by)
            BY <2>2, <3>1, ARowExists DEF AccountsTypeOK, Invite
        <3> QED
            BY <1>5, <3>2, <3>3, ChangedInvite, SameUsers DEF MarkAccepted
    <2>3. CASE invite' = invite
        BY <1>0, <1>5, <2>3 DEF MarkAccepted, Same
    <2> QED
        BY <1>5, <2>1, <2>2, <2>3 DEF MarkAccepted
<1>6. ASSUME NEW t \in TokenIDs, CreateAPIToken(r, t) PROVE AccountsTypeOK' /\ UsersAge
    <2>1. CASE Exists(user, request[r].who)
        <3>1. request[r] \in Issuing
            BY <1>6, <1>a, WhatIsRead DEF CreateAPIToken, at
        <3>2. PICK row \in Token : row = [owner |-> request[r].who, version |-> request[r].version,
                                          expired |-> FALSE]
            BY <3>1 DEF Issuing, Token, SessionVersions
        <3> QED
            BY <1>6, <2>1, <3>2, ChangedToken, SameUsers DEF CreateAPIToken
    <2>2. CASE ~Exists(user, request[r].who)
        BY <1>0, <1>6, <2>2 DEF CreateAPIToken, Same
    <2> QED
        BY <2>1, <2>2
<1>7. ASSUME NEW t \in TokenIDs, DeleteAPIToken(r, t) PROVE AccountsTypeOK' /\ UsersAge
    BY <1>7, DeletedToken, SameUsers DEF DeleteAPIToken
<1>8. ASSUME NEW i \in Invites, NEW e \in Emails, NEW role \in RoleSet, InviteUser(r, i, e, role)
      PROVE  AccountsTypeOK' /\ UsersAge
    <2>1. CASE Exists(user, request[r].who)
        <3>1. request[r] \in LetIn
            BY <1>8, <1>a, WhatIsRead DEF InviteUser, Admitted, at
        <3>2. PICK row \in Invite : row = [email |-> e, role |-> role, by |-> request[r].who,
                                           accepted |-> FALSE, expired |-> FALSE]
            BY <3>1 DEF LetIn, Invite
        <3> QED
            BY <1>8, <2>1, <3>2, ChangedInvite, SameUsers DEF InviteUser
    <2>2. CASE ~Exists(user, request[r].who)
        BY <1>0, <1>8, <2>2 DEF InviteUser, Same
    <2> QED
        BY <2>1, <2>2
<1>9. ASSUME NEW u \in UserIDs, CreateInvited(r, u) PROVE AccountsTypeOK' /\ UsersAge
    <2>1. request[r] \in Accepting
        BY <1>9, <1>a, WhatIsRead DEF CreateInvited, at
    <2>2. CASE EmailFree(request[r].email)
        BY <1>9, <2>1, <2>2, InsertedUser DEF CreateInvited, Accepting, GivenRoles
    <2>3. CASE ~EmailFree(request[r].email)
        BY <1>0, <1>9, <2>3 DEF CreateInvited, Same
    <2> QED
        BY <2>2, <2>3
<1>10. ASSUME NEW u \in UserIDs, DeleteUser(r, u) PROVE AccountsTypeOK' /\ UsersAge
    BY <1>10, DeletedUser DEF DeleteUser
<1>11. ASSUME NEW u \in UserIDs, ResetUserPassword(r, u) PROVE AccountsTypeOK' /\ UsersAge
    <2>0. user[u] \in User /\ user[u].version + 1 \in 1..MaxVersion
        BY <1>11, ARowExists DEF ResetUserPassword, User
    <2>1. PICK row \in User : row = [user[u] EXCEPT !.version = user[u].version + 1]
        BY <2>0 DEF User
    <2>2. user' = [user EXCEPT ![u] = row] /\ row.version >= user[u].version
        BY <1>11, <2>1, ARowExists DEF ResetUserPassword, AccountsTypeOK, User
    <2> QED
        BY <1>11, <2>2, ChangedUser DEF ResetUserPassword
<1>12. ASSUME NEW u \in UserIDs, SetProjectMember(r, u) \/ RemoveProjectMember(r, u)
       PROVE  AccountsTypeOK' /\ UsersAge
    BY <1>12, SameUsers DEF SetProjectMember, RemoveProjectMember, AccountsTypeOK, Exists
<1>13. ASSUME NEW u \in UserIDs, NEW role \in RoleSet, UpdateUserRole(r, u, role)
       PROVE  AccountsTypeOK' /\ UsersAge
    <2>1. CASE Exists(user, u)
        <3>1. PICK row \in User : row = [user[u] EXCEPT !.role = role]
            BY <2>1, ARowExists DEF User
        <3>2. user' = [user EXCEPT ![u] = row] /\ row.version >= user[u].version
            BY <1>13, <2>1, <3>1, ARowExists DEF UpdateUserRole, AccountsTypeOK, User
        <3> QED
            BY <1>13, <2>1, <3>2, ChangedUser DEF UpdateUserRole
    <2>2. CASE ~Exists(user, u)
        BY <1>0, <1>13, <2>2 DEF UpdateUserRole, Same
    <2> QED
        BY <2>1, <2>2
<1> QED
    BY <1>4, <1>5, <1>6, <1>7, <1>8, <1>9, <1>10, <1>11, <1>12, <1>13
----------------------------------------------------------------------------------
\* Every operation leaves the request with what its next step needs.
LEMMA RequestsTypedNext == AccountsInv /\ [AccountsNext]_accountVars => RequestsTyped'
<1> SUFFICES ASSUME AccountsTypeOK, RequestsTyped, [AccountsNext]_accountVars
             PROVE  RequestsTyped'
    BY DEF AccountsInv
<1>1. CASE UNCHANGED request
    BY <1>1 DEF RequestsTyped
<1>2. ASSUME NEW r \in Requests, NEW state \in RequestState, step(r, state) PROVE RequestsTyped'
    BY <1>2 DEF RequestsTyped, step
<1>3. Idle \in RequestState
    BY DEF RequestState
<1>4. ASSUME NEW r \in Requests, step(r, Idle) PROVE RequestsTyped'
    BY <1>2, <1>3, <1>4
<1> SUFFICES ASSUME NEW r \in Requests,
                    \/ ValidateAPIToken(r) \/ AuthMiddleware(r) \/ CaptureVersion(r)
                    \/ MarkAccepted(r)
                    \/ \E t \in TokenIDs : GetByHash(r, t)
                    \/ \E i \in Invites : CheckInvitation(r, i)
                    \/ \E u \in UserIDs : AuthenticateUser(r, u) \/ CreateInvited(r, u)
             PROVE  RequestsTyped'
    BY <1>1, <1>4 DEF AccountsNext, accountVars, BootstrapAdmin, ExpireToken, ExpireInvite,
           Logout, Answer, CreateAPIToken, DeleteAPIToken, InviteUser, DeleteUser,
           ResetUserPassword, SetProjectMember, RemoveProjectMember, UpdateUserRole
<1>a. request[r] \in RequestState
    BY DEF RequestsTyped
<1>5. CASE ValidateAPIToken(r)
    <2>1. [request[r] EXCEPT !.at = "valid"] \in TokenRead
        BY <1>5, <1>a, WhatIsRead DEF ValidateAPIToken, at, TokenRead
    <2>2. [request[r] EXCEPT !.at = "valid"] \in RequestState
        BY <2>1 DEF RequestState
    <2> QED
        BY <1>2, <1>3, <1>5, <2>2 DEF ValidateAPIToken
<1>6. CASE AuthMiddleware(r)
    <2>1. request[r] \in TokenRead
        BY <1>6, <1>a, WhatIsRead DEF AuthMiddleware, at
    <2>2. CASE Exists(user, request[r].who)
        <3>1. user[request[r].who].role \in GivenRoles
            BY <2>1, <2>2, ARowExists DEF TokenRead, User, GivenRoles
        <3>2. [at |-> "admitted", tok |-> request[r].tok, who |-> request[r].who,
               role |-> user[request[r].who].role, usable |-> request[r].usable] \in LetIn
            BY <2>1, <3>1 DEF TokenRead, LetIn
        <3> QED
            BY <1>2, <1>6, <2>2, <3>2 DEF AuthMiddleware, RequestState
    <2>3. CASE ~Exists(user, request[r].who)
        BY <1>4, <1>6, <2>3 DEF AuthMiddleware
    <2> QED
        BY <2>2, <2>3
<1>7. CASE CaptureVersion(r)
    <2>1. request[r].who \in UserIDs
        BY <1>7, <1>a, WhatIsRead DEF CaptureVersion, Admitted, at, LetIn, LoggedIn
    <2>2. CASE Exists(user, request[r].who)
        <3>1. [at |-> "issuing", who |-> request[r].who,
               version |-> user[request[r].who].version] \in Issuing
            BY <2>1, <2>2, ARowExists DEF Issuing, User, SessionVersions
        <3> QED
            BY <1>2, <1>7, <2>2, <3>1 DEF CaptureVersion, RequestState
    <2>3. CASE ~Exists(user, request[r].who)
        BY <1>4, <1>7, <2>3 DEF CaptureVersion
    <2> QED
        BY <2>2, <2>3
<1>8. CASE MarkAccepted(r)
    <2>1. [at |-> "verified", who |-> request[r].who] \in LoggedIn
        BY <1>8, <1>a, WhatIsRead DEF MarkAccepted, at, Created, LoggedIn
    <2>2. [at |-> "verified", who |-> request[r].who] \in RequestState
        BY <2>1 DEF RequestState
    <2> QED
        BY <1>2, <1>4, <1>8, <2>2 DEF MarkAccepted
<1>9. ASSUME NEW t \in TokenIDs, GetByHash(r, t) PROVE RequestsTyped'
    <2>1. token[t] \in Token
        BY <1>9, ARowExists DEF GetByHash
    <2>2. PICK usable \in BOOLEAN : usable = Usable(t)
        BY DEF Usable
    <2>3. [at |-> "token", tok |-> t, who |-> token[t].owner, version |-> token[t].version,
           usable |-> usable] \in TokenRead
        BY <2>1 DEF Token, TokenRead, SessionVersions
    <2>4. step(r, [at |-> "token", tok |-> t, who |-> token[t].owner, version |-> token[t].version,
                   usable |-> usable])
        BY <1>9, <2>2 DEF GetByHash
    <2> QED
        BY <1>2, <2>3, <2>4 DEF RequestState
<1>10. ASSUME NEW i \in Invites, CheckInvitation(r, i) PROVE RequestsTyped'
    <2>1. [at |-> "accepting", inv |-> i, email |-> invite[i].email, role |-> invite[i].role]
              \in Accepting
        BY <1>10, ARowExists DEF CheckInvitation, Invite, Accepting
    <2> QED
        BY <1>2, <1>10, <2>1 DEF CheckInvitation, RequestState
<1>11. ASSUME NEW u \in UserIDs, AuthenticateUser(r, u) PROVE RequestsTyped'
    <2>1. [at |-> "verified", who |-> u] \in LoggedIn
        BY DEF LoggedIn
    <2> QED
        BY <1>2, <1>11, <2>1 DEF AuthenticateUser, RequestState
<1>12. ASSUME NEW u \in UserIDs, CreateInvited(r, u) PROVE RequestsTyped'
    <2>1. [at |-> "created", inv |-> request[r].inv, who |-> u] \in Created
        BY <1>12, <1>a, WhatIsRead DEF CreateInvited, at, Accepting, Created
    <2>2. [at |-> "created", inv |-> request[r].inv, who |-> u] \in RequestState
        BY <2>1 DEF RequestState
    <2> QED
        BY <1>2, <1>4, <1>12, <2>2 DEF CreateInvited
<1> QED
    BY <1>5, <1>6, <1>7, <1>8, <1>9, <1>10, <1>11, <1>12

\* An owner who had changed stays so, whatever happens to users meanwhile.
LEMMA StaysOutdated ==
    ASSUME AccountsTypeOK, AccountsTypeOK', UsersAge, NEW state \in TokenRead, Outdated(state)
    PROVE  Outdated(state)'
<1>1. state.who \in UserIDs /\ state.version \in Nat
    BY DEF TokenRead, SessionVersions
<1>2. user'[state.who] = Gone \/ user'[state.who] \in User
    BY <1>1, ARowExists DEF UsersAge, Outdated, AccountsTypeOK, Exists
<1>3. CASE user'[state.who] = Gone
    BY <1>3 DEF Outdated
<1>4. CASE user'[state.who] \in User
    <2>1. Gone \notin User /\ Unused \notin User
        OBVIOUS
    <2>2. user[state.who] # Gone /\ user[state.who] # Unused
        BY <1>1, <1>4, <2>1 DEF UsersAge, Outdated, Exists
    <2>3. user[state.who] \in User /\ user[state.who].version > state.version
        BY <1>1, <2>2, ARowExists DEF Outdated, Exists
    <2>4. user'[state.who].version >= user[state.who].version
        BY <1>1, <1>4, <2>1, <2>2 DEF UsersAge
    <2>5. user'[state.who].version > state.version
        BY <1>1, <1>4, <2>3, <2>4 DEF User
    <2> QED
        BY <1>4, <2>1, <2>5 DEF Outdated, Exists
<1> QED
    BY <1>2, <1>3, <1>4

LEMMA BadTokensNext == AccountsInv /\ [AccountsNext]_accountVars => BadTokensAreRefused'
<1> SUFFICES ASSUME AccountsTypeOK, RequestsTyped, BadTokensAreRefused, [AccountsNext]_accountVars
             PROVE  BadTokensAreRefused'
    BY DEF AccountsInv
<1>0. AccountsTypeOK' /\ UsersAge
    BY AccountsTypeNext DEF AccountsInv
<1> SUFFICES ASSUME NEW s \in Requests PROVE IsRefused(s)'
    BY DEF BadTokensAreRefused
<1>1. CASE UNCHANGED request[s]
    <2>1. IsRefused(s)
        BY DEF BadTokensAreRefused
    <2>2. at(s, "token") /\ Outdated(request[s]) => Outdated(request[s])'
        BY <1>0, <1>1, WhatIsRead, StaysOutdated DEF RequestsTyped, at
    <2> QED
        BY <1>1, <2>1, <2>2 DEF IsRefused, at
<1>2. ASSUME NEW r \in Requests, NEW state, step(r, state),
             state.at \notin {"token", "valid", "admitted"}
      PROVE  IsRefused(s)'
    BY <1>1, <1>2 DEF step, RequestsTyped, IsRefused, at
<1>3. ASSUME NEW r \in Requests, step(r, Idle) PROVE IsRefused(s)'
    BY <1>2, <1>3 DEF Idle
<1>4. ASSUME NEW r \in Requests, r # s, NEW state, step(r, state) PROVE IsRefused(s)'
    BY <1>1, <1>4 DEF step, RequestsTyped
<1>5. ASSUME NEW t \in TokenIDs, GetByHash(s, t) PROVE IsRefused(s)'
    <2>1. token[t] \in Token /\ Exists(user, token[t].owner)
        BY <1>5, ARowExists DEF GetByHash, AccountsTypeOK
    <2>2. ~Usable(t) => user[token[t].owner].version > token[t].version
        BY <1>5, <2>1, ARowExists DEF GetByHash, Usable, Token, User
    <2>3. /\ request'[s].at = "token" /\ request'[s].who = token[t].owner
          /\ request'[s].version = token[t].version /\ request'[s].usable = Usable(t)
        BY <1>5 DEF GetByHash, step, RequestsTyped
    <2>4. user' = user
        BY <1>5 DEF GetByHash
    <2> QED
        BY <2>1, <2>2, <2>3, <2>4 DEF IsRefused, at, Outdated, Exists
<1>6. CASE ValidateAPIToken(s)
    <2>1. CASE Exists(user, request[s].who) /\ user[request[s].who].version <= request[s].version
        <3>1. request[s] \in TokenRead
            BY <1>6, WhatIsRead DEF ValidateAPIToken, at, RequestsTyped
        <3>2. ~Outdated(request[s])
            BY <2>1, <3>1, ARowExists DEF Outdated, Exists, TokenRead, User, SessionVersions
        <3>3. request[s].usable
            BY <1>6, <3>2 DEF ValidateAPIToken, BadTokensAreRefused, IsRefused
        <3>4. request'[s] = [request[s] EXCEPT !.at = "valid"]
            BY <1>6, <2>1 DEF ValidateAPIToken, step, RequestsTyped
        <3> QED
            BY <3>1, <3>3, <3>4 DEF IsRefused, at, TokenRead
    <2>2. CASE ~(Exists(user, request[s].who) /\ user[request[s].who].version <= request[s].version)
        BY <1>3, <1>6, <2>2 DEF ValidateAPIToken
    <2> QED
        BY <2>1, <2>2
<1>7. CASE AuthMiddleware(s)
    <2>1. CASE Exists(user, request[s].who)
        <3>1. request[s].usable
            BY <1>7 DEF AuthMiddleware, BadTokensAreRefused, IsRefused
        <3>2. request'[s].at = "admitted" /\ request'[s].usable = request[s].usable
            BY <1>7, <2>1 DEF AuthMiddleware, step, RequestsTyped
        <3> QED
            BY <3>1, <3>2 DEF IsRefused, at
    <2>2. CASE ~Exists(user, request[s].who)
        BY <1>3, <1>7, <2>2 DEF AuthMiddleware
    <2> QED
        BY <2>1, <2>2
<1>8. ASSUME NEW r \in Requests, CaptureVersion(r) PROVE IsRefused(s)'
    <2>1. [at |-> "issuing", who |-> request[r].who, version |-> user[request[r].who].version].at
              = "issuing"
        OBVIOUS
    <2> QED
        BY <1>2, <1>3, <1>8, <2>1 DEF CaptureVersion
<1>9. ASSUME NEW r \in Requests, MarkAccepted(r) PROVE IsRefused(s)'
    BY <1>2, <1>3, <1>9 DEF MarkAccepted
<1>10. ASSUME NEW r \in Requests, NEW i \in Invites, CheckInvitation(r, i) PROVE IsRefused(s)'
    BY <1>2, <1>10 DEF CheckInvitation
<1>11. ASSUME NEW r \in Requests, NEW u \in UserIDs, AuthenticateUser(r, u) \/ CreateInvited(r, u)
       PROVE  IsRefused(s)'
    BY <1>2, <1>3, <1>11 DEF AuthenticateUser, CreateInvited
<1>12. ASSUME NEW r \in Requests,
              ValidateAPIToken(r) \/ AuthMiddleware(r) \/ \E t \in TokenIDs : GetByHash(r, t)
       PROVE  IsRefused(s)'
    BY <1>4, <1>5, <1>6, <1>7, <1>12 DEF ValidateAPIToken, AuthMiddleware, GetByHash
<1> QED
    BY <1>1, <1>3, <1>8, <1>9, <1>10, <1>11, <1>12
       DEF AccountsNext, accountVars, BootstrapAdmin, ExpireToken, ExpireInvite, Logout, Answer,
           CreateAPIToken, DeleteAPIToken, InviteUser, DeleteUser, ResetUserPassword,
           SetProjectMember, RemoveProjectMember, UpdateUserRole

LEMMA AccountsInvNext == AccountsInv /\ [AccountsNext]_accountVars => AccountsInv'
BY AccountsTypeNext, RequestsTypedNext, BadTokensNext DEF AccountsInv

LEMMA AdmittedByInv == AccountsInv => AdmittedTokensAreLive
BY DEF AccountsInv, BadTokensAreRefused, IsRefused, AdmittedTokensAreLive
----------------------------------------------------------------------------------
(* The inductive invariant: rows, foreign keys, and what each request has read. *)
THEOREM AccountsInvHolds == AccountsSpec => []AccountsInv
<1>1. AccountsInit => AccountsInv
    BY AccountsInvInit
<1>2. AccountsInv /\ [AccountsNext]_accountVars => AccountsInv'
    BY AccountsInvNext
<1> QED
    BY <1>1, <1>2, PTL DEF AccountsSpec

(* No token, invitation or membership of a user who is gone, however the operations interleave. *)
THEOREM AccountsTypeCorrect == AccountsSpec => []AccountsTypeOK
<1>1. AccountsInv => AccountsTypeOK
    BY DEF AccountsInv
<1> QED
    BY <1>1, AccountsInvHolds, PTL

(* A request is let through only with a token that was good when the request arrived, however   *)
(* logins, resets, logouts and deletions run between the three reads of the middleware.         *)
THEOREM AdmittedTokensAreLiveHolds == AccountsSpec => []AdmittedTokensAreLive
BY AccountsInvHolds, AdmittedByInv, PTL

(* A step of the accounts never brings a deleted user back nor lowers a session_version.        *)
THEOREM UsersAgeHolds == AccountsSpec => [][UsersAge]_accountVars
<1>1. AccountsInv /\ [AccountsNext]_accountVars => [UsersAge]_accountVars
    BY AccountsTypeNext
<1> QED
    BY <1>1, AccountsInvHolds, PTL DEF AccountsSpec
================================================================================
