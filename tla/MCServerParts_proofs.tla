--------------------------- MODULE MCServerParts_proofs ---------------------------
(***************************************************************************)
(* The parts of the server and of the agent together: what is proved of a  *)
(* part by itself holds of it in every behaviour of the whole, since a     *)
(* step is one of one part and the others stand still.                     *)
(***************************************************************************)
EXTENDS MCServerParts, Access_proofs, Telemetry_proofs, Delivery_proofs

\* Every step is a step of each part, or leaves it as it is.
LEMMA StepsOfParts ==
    ASSUME [Next]_vars
    PROVE  /\ [AccountsNext]_accountVars /\ [CliNext]_cliVars /\ [AgentNext]_agentVars
           /\ [SseNext]_sseVars /\ [HubNext]_hubVars /\ [TelemetryNext]_telemetryVars
           /\ [AppsNext]_appVars /\ [IngressNext]_ingressVars /\ [StacksNext]_stackVars
           /\ [SamplesNext]_sampleVars
           /\ part = "window" => [SlidingNext]_limitVars
           /\ part = "bucket" => [BucketNext]_limitVars
           /\ UNCHANGED part
<1>1. CASE UNCHANGED vars
    BY <1>1 DEF vars, controlVars, hubsVars, meterVars
<1>2. CASE Next
    BY <1>2 DEF Next, AgentNext, controlVars, hubsVars, meterVars
<1> QED
    BY <1>1, <1>2

LEMMA PartsStart ==
    Init => /\ AccountsInit /\ CliInit /\ StacksInit /\ AppsInit /\ IngressInit
            /\ AgentInit /\ SseInit /\ HubInit /\ TelemetryInit /\ SamplesInit /\ LimitsInit
BY DEF Init

(* The accounts and the client's configuration: foreign keys, admission only with a live token,  *)
(* and a whole configuration that keeps its logins - with all the other parts around them.       *)
THEOREM AccountsAreSafeHolds == Spec => []AccountsAreSafe
<1>1. Init => AccountsInv /\ CliInv
    BY PartsStart, AccountsInvInit, CliInvInit
<1>2. AccountsInv /\ CliInv /\ [Next]_vars => (AccountsInv /\ CliInv)'
    BY StepsOfParts, AccountsInvNext, CliInvNext
<1>3. AccountsInv /\ CliInv => AccountsAreSafe
    BY AdmittedByInv, CliSafeByInv DEF AccountsInv, AccountsAreSafe
<1> QED
    BY <1>1, <1>2, <1>3, PTL DEF Spec

(* The agent: each container has at most one stream that sends, and it is the one the collector   *)
(* can stop.                                                                                      *)
THEOREM AgentStreamsAreOwnedHolds == Spec => []AgentStreamsAreOwned
<1>1. Init => AgentInv
    BY PartsStart, AgentInvInit
<1>2. AgentInv /\ [Next]_vars => AgentInv'
    BY StepsOfParts, AgentInvNext
<1>3. AgentInv => AgentStreamsAreOwned
    BY OwnedByInv DEF AgentStreamsAreOwned
<1> QED
    BY <1>1, <1>2, <1>3, PTL DEF Spec

(* The hubs: a frame is only sent to an open channel, and the index of topics names the sessions  *)
(* that asked for them and those that displaced one which did.                                    *)
THEOREM FramesGoToOpenChannelsHolds == Spec => []FramesGoToOpenChannels
<1>1. Init => SseInv /\ HubInv /\ TelemetryInv
    BY PartsStart, SseInvInit, HubInvInit, TelemetryInvInit
<1>2. SseInv /\ HubInv /\ TelemetryInv /\ [Next]_vars => (SseInv /\ HubInv /\ TelemetryInv)'
    BY StepsOfParts, SseInvNext, HubInvNext, TelemetryInvNext
<1>3. SseInv /\ HubInv /\ TelemetryInv => FramesGoToOpenChannels
    BY HubsTyped, IndexedByInv
       DEF FramesGoToOpenChannels, SseInv, SseChannelsOpen, HubInv, WsChannelsOpen
<1> QED
    BY <1>1, <1>2, <1>3, PTL DEF Spec

(* A stack: a deploy that worked has replaced it as a whole, and one that failed has left it as   *)
(* it was, but for what its last Create left, unless a request met the half-done work of another. *)
THEOREM StacksAreWholeHolds == Spec => []StacksAreWhole
<1>1. Init => StackInv
    BY PartsStart, StacksStart
<1>2. StackInv /\ [Next]_vars => StackInv'
    BY StepsOfParts, StacksStep
<1>3. StackInv => StacksAreWhole
    BY StackInvImplies DEF StacksAreWhole
<1> QED
    BY <1>1, <1>2, <1>3, PTL DEF Spec

(* An application: a rolling update never takes it out of service.                                *)
THEOREM AppsStayInServiceHolds == Spec => []AppsStayInService
<1>1. Init => AppInv
    BY PartsStart, AppInvInit
<1>2. AppInv /\ [Next]_vars => AppInv'
    BY StepsOfParts, AppInvSteps
<1>3. AppInv => AppsStayInService
    BY DEF AppInv, AppsStayInService
<1> QED
    BY <1>1, <1>2, <1>3, PTL DEF Spec

(* The ingress: Caddy serves what the rows and the bindings say when nothing is in progress, also *)
(* for domains of one slug.                                                                       *)
THEOREM RoutesAreServedHolds == Spec => []RoutesAreServed
<1>1. Init => IngressInv
    BY PartsStart, IngressInvInit
<1>2. IngressInv /\ [Next]_vars => IngressInv'
    BY StepsOfParts, IngressInvSteps
<1>3. IngressInv => RoutesAreServed
    BY FollowsFromInv DEF RoutesAreServed
<1> QED
    BY <1>1, <1>2, <1>3, PTL DEF Spec

(* The samples: a reader of the buffer gets the newest in the order they were pushed, and an      *)
(* hourly row is what the samples come to that the buffer held of its hour when it was read.      *)
THEOREM RingKeepsNewestHolds == Spec => []RingKeepsNewest
<1>1. Init => SamplesInv
    BY PartsStart, SamplesInvInit
<1>2. SamplesInv /\ [Next]_vars => SamplesInv'
    BY StepsOfParts, SamplesInvNext
<1>3. SamplesInv => RingKeepsNewest
    BY SamplesInvImplies DEF RingKeepsNewest
<1> QED
    BY <1>1, <1>2, <1>3, PTL DEF Spec

\* The two limiters share the clock and what is granted: a behaviour is one of either.
LimitersInv == (part = "window" => SlidingInv) /\ (part = "bucket" => BucketInv)

(* The rate limiters: both limits are kept, and nothing is refused before they are reached.       *)
THEOREM LimitsHoldAlways == Spec => []LimitsHold
<1>1. Init => LimitersInv
    BY PartsStart, SlidingInvInit, BucketInvInit DEF LimitersInv
<1>2. LimitersInv /\ [Next]_vars => LimitersInv'
    BY StepsOfParts, SlidingInvNext, BucketInvNext DEF LimitersInv
<1>3. LimitersInv => LimitsHold
    BY BucketInvImplies DEF LimitersInv, LimitsHold, SlidingInv
<1> QED
    BY <1>1, <1>2, <1>3, PTL DEF Spec
===================================================================================
