------------------------------ MODULE MCServerParts ------------------------------
(***************************************************************************)
(* Parts of the server and of the agent that share no state: the accounts, *)
(* the client's configuration, one stack, one application, the ingress,    *)
(* the agent on a node, the three hubs, the buffer of samples and the two  *)
(* rate limiters.  They are checked side by side: a behaviour is one of    *)
(* one part, and the others stand still.                                   *)
(***************************************************************************)
EXTENDS Accounts, Cli, Stacks, AppDeploy, Ingress, AgentClient, Hubs, Samples, RateLimits,
        TLC

VARIABLE part

controlVars == <<accountVars, cliVars, stackVars, appVars, ingressVars>>
hubsVars == <<sseVars, hubVars, telemetryVars>>
meterVars == <<sampleVars, limitVars>>
vars == <<part, controlVars, agentVars, hubsVars, meterVars>>

Parts == {"accounts", "cli", "stack", "app", "ingress", "commands", "agent", "sse",
          "websocket", "telemetry", "samples", "window", "bucket"}

\* Compose texts: a service that needs another, two that need each other, one
\* that needs a service that is not there, and a service by itself.
MCComposes == {(1 :> {2} @@ 2 :> {}), (1 :> {2} @@ 2 :> {1}), (1 :> {2}), (2 :> {})}

\* Commands typed: one of one request, one of two, and one that opens a stream.
MCTyped == {<<"ListApps">>, <<"CreateStack", "DeployStack">>, <<"Pty">>}

\* Domains such as a-b.com and a.b.com, which have one slug.
MCSlug == [d \in Domains |-> "a_b_com"]

\* Requests in progress, of every part, and what they write down are interchangeable.
Interchangeable == Permutations(Requests)

Init ==
    /\ part \in Parts
    /\ AccountsInit /\ CliInit /\ StacksInit /\ AppsInit /\ IngressInit /\ AgentInit
    /\ SseInit /\ HubInit /\ TelemetryInit /\ SamplesInit /\ LimitsInit
    /\ part # "app" => mode = "standalone"

Next ==
    /\ UNCHANGED part
    /\ \/ /\ part = "accounts" /\ AccountsNext
          /\ UNCHANGED <<cliVars, stackVars, appVars, ingressVars, agentVars, hubsVars, meterVars>>
       \/ /\ part = "cli" /\ CliNext
          /\ UNCHANGED <<accountVars, stackVars, appVars, ingressVars, agentVars, hubsVars,
                         meterVars>>
       \/ /\ part = "stack" /\ StacksNext
          /\ UNCHANGED <<accountVars, cliVars, appVars, ingressVars, agentVars, hubsVars,
                         meterVars>>
       \/ /\ part = "app" /\ AppsNext
          /\ UNCHANGED <<accountVars, cliVars, stackVars, ingressVars, agentVars, hubsVars,
                         meterVars>>
       \/ /\ part = "ingress" /\ IngressNext
          /\ UNCHANGED <<accountVars, cliVars, stackVars, appVars, agentVars, hubsVars,
                         meterVars>>
       \/ /\ part = "commands" /\ (ConnectionNext \/ CommandsNext)
          /\ UNCHANGED <<controlVars, hubsVars, meterVars>>
       \/ /\ part = "agent" /\ (ConnectionNext \/ CollectorNext)
          /\ UNCHANGED <<controlVars, hubsVars, meterVars>>
       \/ /\ part = "sse" /\ SseNext
          /\ UNCHANGED <<controlVars, agentVars, hubVars, telemetryVars, meterVars>>
       \/ /\ part = "websocket" /\ HubNext
          /\ UNCHANGED <<controlVars, agentVars, sseVars, telemetryVars, meterVars>>
       \/ /\ part = "telemetry" /\ TelemetryNext
          /\ UNCHANGED <<controlVars, agentVars, sseVars, hubVars, meterVars>>
       \/ /\ part = "samples" /\ SamplesNext
          /\ UNCHANGED <<controlVars, agentVars, hubsVars, limitVars>>
       \/ /\ part = "window" /\ SlidingNext
          /\ UNCHANGED <<controlVars, agentVars, hubsVars, sampleVars>>
       \/ /\ part = "bucket" /\ BucketNext
          /\ UNCHANGED <<controlVars, agentVars, hubsVars, sampleVars>>

Spec == Init /\ [][Next]_vars

(* A request that is let in carried, when it started, a token that was live; the file in which *)
(* the client keeps its tokens is whole, and keeps every login unless saves overlap.           *)
AccountsAreSafe ==
    /\ part = "accounts" => AccountsTypeOK /\ AdmittedTokensAreLive
    /\ part = "cli" => CliTypeOK /\ LoginsAreKept

(* Deploying a stack replaces it as a whole or leaves it as it was, but for what is left of a   *)
(* Create that failed between its two calls.                                                    *)
StacksAreWhole == part = "stack" => StackDeployIsAllOrNothing

(* A rolling update never takes the application out of service. *)
AppsStayInService == part = "app" => RolloutKeepsServing

(* Caddy serves what the rows and the bindings say, once nothing is in progress. *)
RoutesAreServed == part = "ingress" => RoutesFollowDomains

(* A container has at most one stream that still sends, and it is the one the collector can stop; *)
(* an entry of the collector always has a goroutine left that takes it out; none sends once Close *)
(* has returned.                                                                                  *)
AgentStreamsAreOwned ==
    /\ part \in {"agent", "commands"} => AgentTypeOK
    /\ part = "agent" => StreamsAreOwned

(* A client that a hub lists has an open channel while the hub runs, and the telemetry hub's index *)
(* of topics names the sessions that asked for them and those that displaced one which did.        *)
FramesGoToOpenChannels ==
    /\ part \in {"sse", "websocket", "telemetry"} => HubsTypeOK
    /\ part = "sse" => SseChannelsOpen
    /\ part = "websocket" => WsChannelsOpen
    /\ part = "telemetry" => TopicsAreIndexed

(* A reader of the buffer gets the newest samples in the order they were pushed, and an hourly row *)
(* is what the samples come to that the buffer held of its hour when it was read.                  *)
RingKeepsNewest == part = "samples" => SamplesAreKept

(* No window holds more requests than the limit, no stretch of time more than the bucket and what  *)
(* was added, and nothing is refused before that - whatever is dropped in the background.          *)
LimitsHold ==
    /\ part = "window" => SlidingLimitHolds
    /\ part = "bucket" => BucketLimitHolds
==================================================================================
