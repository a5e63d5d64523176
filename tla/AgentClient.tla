------------------------------- MODULE AgentClient -------------------------------
(***************************************************************************)
(* The agent on a node: pkg/agent/client.go keeps one session at a time    *)
(* with the control plane, and pkg/telemetry/docker_collector.go streams   *)
(* the statistics of every running container into the channel of a         *)
(* session.  The collector is one object for all sessions.                 *)
(*                                                                         *)
(* Goroutines of session s: the reader (client = "session"), the container *)
(* loop (statsLoop[s]), and the discovery and event loops that             *)
(* StreamContainerStats starts.  A stream is a goroutine with a number.    *)
(* Docker may report any container as started or stopped at any time.      *)
(* Host metrics, what samples and frames hold, and the length of waits are  *)
(* left out.                                                               *)
(***************************************************************************)
EXTENDS Integers, Sequences, FiniteSets

CONSTANTS Containers,   \* containers of the node
          Commands,     \* goroutines that execute a command
          MaxSessions,  \* bound: sessions that are opened
          MaxStreams,   \* bound: stats streams that are started
          MaxEvents     \* bound: Docker events that one reader has not read yet

ASSUME AgentClientAssumption ==
    MaxSessions \in Nat \ {0} /\ MaxStreams \in Nat \ {0} /\ MaxEvents \in Nat \ {0}

VARIABLES client,       \* connectionLoop
          session,      \* number of the session that is or was open last
          closing,      \* Close: "no", "cancelled", "stopped", "returned"
          statsLoop,    \* containerStatsLoop of each session
          discovery,    \* discoverAndStreamActiveContainers: "none", or containers left to spawn
          listener,     \* eventsLoop: its connection and the events it has not read
          collector,    \* the collector's running, ctx and outChan
          registry,     \* d.streams: the stream of each container, 0 if none
          stream,       \* the stream goroutines
          recent,       \* containers a stream was tried for less than five seconds ago
          command       \* the session whose command each handler goroutine executes, 0 if none

agentVars == <<client, session, closing, statsLoop, discovery, listener, collector, registry,
               stream, recent, command>>
collectorVars == <<discovery, listener, collector, registry, stream, recent>>

Sessions == 1..MaxSessions
Streams  == 1..MaxStreams
NoStream == [of |-> "none", session |-> 0, cancelled |-> FALSE, out |-> 0, at |-> "none"]
Ended    == [NoStream EXCEPT !.at = "ended"]
Stopped  == [at |-> "none", events |-> <<>>]

SessionLive(s) == client = "session" /\ session = s /\ closing = "no"
\* d.ctx is a child of the context of the session that called Start.
CollectorLive  == ~collector.cancelled /\ SessionLive(collector.parent)
StreamLive(n)  ==
    stream[n].at \notin {"none", "ended"} /\ ~stream[n].cancelled /\ SessionLive(stream[n].session)
StartedStreams == {n \in Streams : stream[n].at # "none"}

AgentInit ==
    /\ client = "idle" /\ session = 0 /\ closing = "no"
    /\ statsLoop = [s \in Sessions |-> "none"]
    /\ discovery = [s \in Sessions |-> {}]
    /\ listener = [s \in Sessions |-> Stopped]
    /\ collector = [running |-> FALSE, parent |-> 0, cancelled |-> FALSE, out |-> 0]
    /\ registry = [c \in Containers |-> 0]
    /\ stream = [n \in Streams |-> NoStream]
    /\ recent = {}
    /\ command = [c \in Commands |-> 0]
--------------------------------------------------------------------------------
(* The connection: connectionLoop and runSession. *)

\* Start is called once; the loop dials at once.
StartClient ==
    /\ client = "idle" /\ closing = "no"
    /\ client' = "dialing"
    /\ UNCHANGED <<session, closing, statsLoop, collectorVars, command>>

OpenSession ==
    /\ client = "dialing" /\ closing = "no" /\ session < MaxSessions
    /\ session' = session + 1
    /\ client' = "session"
    /\ statsLoop' = [statsLoop EXCEPT ![session + 1] = "starting"]
    /\ UNCHANGED <<closing, collectorVars, command>>

\* A dial, a read (which has 25 s) or the server's close fails: back off, or end after Close.
LoseSession ==
    /\ client \in {"dialing", "session"}
    /\ client' = IF closing = "no" THEN "backoff" ELSE "ended"
    /\ UNCHANGED <<session, closing, statsLoop, collectorVars, command>>

BackOff ==
    /\ client = "backoff"
    /\ client' = IF closing = "no" THEN "dialing" ELSE "ended"
    /\ UNCHANGED <<session, closing, statsLoop, collectorVars, command>>

ReceiveCommand(c) ==
    /\ SessionLive(session) /\ command[c] = 0
    /\ command' = [command EXCEPT ![c] = session]
    /\ UNCHANGED <<client, session, closing, statsLoop, collectorVars>>

\* The handler runs under the session's context; its reply goes to the session's connection,
\* and is lost when that has been closed.
ExecuteAndReplyCommand(c) ==
    /\ command[c] # 0
    /\ command' = [command EXCEPT ![c] = 0]
    /\ UNCHANGED <<client, session, closing, statsLoop, collectorVars>>

\* containerStatsLoop: StreamContainerStats takes the channel, Start keeps a context it has.
StreamContainerStats(s) ==
    /\ statsLoop[s] = "starting"
    /\ statsLoop' = [statsLoop EXCEPT ![s] = "streaming"]
    /\ collector' = IF collector.running THEN [collector EXCEPT !.out = s]
                    ELSE [running |-> TRUE, parent |-> s, cancelled |-> FALSE, out |-> s]
    /\ discovery' = [discovery EXCEPT ![s] = {"list"}]
    /\ listener' = [listener EXCEPT ![s].at = "connecting"]
    /\ UNCHANGED <<client, session, closing, registry, stream, recent, command>>

--------------------------------------------------------------------------------
(* The collector. *)

\* Entered under d.mu; a container is passed over when it has a stream or had one just now.
SpawnStream(c) ==
    IF collector.running /\ registry[c] = 0 /\ c \notin recent
    THEN \E n \in Streams :
            /\ n = Cardinality(StartedStreams) + 1
            /\ stream' = [stream EXCEPT ![n] =
                   [of |-> c, session |-> collector.parent, cancelled |-> collector.cancelled,
                    out |-> collector.out, at |-> "running"]]
            /\ registry' = [registry EXCEPT ![c] = n]
            /\ recent' = recent \cup {c}
    ELSE UNCHANGED <<stream, registry, recent>>

CancelStream(c) ==
    /\ stream' = IF registry[c] = 0 THEN stream
                 ELSE [stream EXCEPT ![registry[c]].cancelled = TRUE]
    /\ registry' = [registry EXCEPT ![c] = 0]

\* The answer of /containers/json: a request under a dead context fails.
ListRunningContainers(s) ==
    /\ discovery[s] = {"list"}
    /\ \E found \in SUBSET Containers :
          /\ found # {} => CollectorLive
          /\ discovery' = [discovery EXCEPT ![s] = found]
    /\ UNCHANGED <<client, session, closing, statsLoop, listener, collector, registry, stream,
                   recent, command>>

SpawnDiscovered(s, c) ==
    /\ c \in discovery[s] \ {"list"}
    /\ discovery' = [discovery EXCEPT ![s] = @ \ {c}]
    /\ SpawnStream(c)
    /\ UNCHANGED <<client, session, closing, statsLoop, listener, collector, command>>

ConnectListener(s) ==
    /\ listener[s].at = "connecting" /\ CollectorLive
    /\ listener' = [listener EXCEPT ![s].at = "listening"]
    /\ UNCHANGED <<client, session, closing, statsLoop, discovery, collector, registry, stream,
                   recent, command>>

\* The connection to Docker drops; the loop connects again while its context lives.
DropListener(s) ==
    /\ listener[s].at \in {"connecting", "listening"}
    /\ listener' = [listener EXCEPT ![s] =
           [at |-> IF CollectorLive THEN "connecting" ELSE "ended", events |-> <<>>]]
    /\ UNCHANGED <<client, session, closing, statsLoop, discovery, collector, registry, stream,
                   recent, command>>

HandleEvent(s) ==
    LET event == Head(listener[s].events) IN
    /\ listener[s].events # <<>>
    /\ listener' = [listener EXCEPT ![s].events = Tail(@)]
    /\ IF event.start THEN SpawnStream(event.of) ELSE CancelStream(event.of) /\ UNCHANGED recent
    /\ UNCHANGED <<client, session, closing, statsLoop, discovery, collector, command>>

\* The response ends, the watchdog closes it, or the context is done.
EndStream(n) ==
    /\ stream[n].at = "running"
    /\ stream' = [stream EXCEPT ![n].at = "ending"]
    /\ UNCHANGED <<client, session, closing, statsLoop, discovery, listener, collector, registry,
                   recent, command>>

\* Mutant of StopEndedStream: the goroutine ends without its deferred call.
ForgetEndedStream(n) ==
    /\ stream[n].at = "ending"
    /\ stream' = [stream EXCEPT ![n] = Ended]
    /\ UNCHANGED <<client, session, closing, statsLoop, discovery, listener, collector, registry,
                   recent, command>>

\* The deferred stopContainerStream: it cancels whichever stream is entered by now.
StopEndedStream(n) ==
    /\ stream[n].at = "ending"
    /\ LET c == stream[n].of
           cancelled == IF registry[c] = 0 THEN stream
                        ELSE [stream EXCEPT ![registry[c]].cancelled = TRUE]
       IN  /\ stream' = [cancelled EXCEPT ![n] = Ended]
           /\ registry' = [registry EXCEPT ![c] = 0]
    /\ UNCHANGED <<client, session, closing, statsLoop, discovery, listener, collector, recent,
                   command>>

FiveSecondsLater(c) ==
    /\ recent' = recent \ {c} /\ c \in recent
    /\ UNCHANGED <<client, session, closing, statsLoop, discovery, listener, collector, registry,
                   stream, command>>

\* Docker tells whoever listens.
DockerEvent(c, start) ==
    /\ \A s \in Sessions : Len(listener[s].events) < MaxEvents
    /\ listener' = [s \in Sessions |->
           IF listener[s].at = "listening"
           THEN [listener[s] EXCEPT !.events = Append(@, [of |-> c, start |-> start])]
           ELSE listener[s]]
    /\ UNCHANGED <<client, session, closing, statsLoop, discovery, collector, registry, stream,
                   recent, command>>
--------------------------------------------------------------------------------
(* Close. *)

CloseConnection ==
    /\ closing = "no" /\ client # "idle"
    /\ closing' = "cancelled"
    /\ UNCHANGED <<client, session, statsLoop, collectorVars, command>>

StopCollector ==
    /\ closing = "cancelled"
    /\ closing' = "stopped"
    /\ IF collector.running
       THEN /\ collector' = [collector EXCEPT !.running = FALSE, !.cancelled = TRUE]
            /\ stream' = [n \in Streams |->
                   IF stream[n].at \in {"running", "ending"}
                   THEN [stream[n] EXCEPT !.cancelled = TRUE] ELSE stream[n]]
            /\ registry' = [c \in Containers |-> 0]
       ELSE UNCHANGED <<collector, stream, registry>>
    /\ UNCHANGED <<client, session, statsLoop, discovery, listener, recent, command>>

CloseReturned ==
    /\ closing = "stopped" /\ client = "ended"
    /\ closing' = "returned"
    /\ UNCHANGED <<client, session, statsLoop, collectorVars, command>>
--------------------------------------------------------------------------------
(* Commands and statistics have nothing in common but the session. *)
ConnectionNext ==
    \/ StartClient \/ OpenSession \/ LoseSession \/ BackOff
    \/ CloseConnection \/ StopCollector \/ CloseReturned
CommandsNext ==
    \E c \in Commands : ReceiveCommand(c) \/ ExecuteAndReplyCommand(c)
CollectorNext ==
    \/ \E s \in Sessions :
          \/ StreamContainerStats(s) \/ ListRunningContainers(s)
          \/ ConnectListener(s) \/ DropListener(s) \/ HandleEvent(s)
          \/ \E c \in Containers : SpawnDiscovered(s, c)
    \/ \E n \in Streams : EndStream(n) \/ StopEndedStream(n)
    \/ \E c \in Containers : FiveSecondsLater(c) \/ \E start \in BOOLEAN : DockerEvent(c, start)

AgentNext == ConnectionNext \/ CommandsNext \/ CollectorNext

AgentSpec == AgentInit /\ [][AgentNext]_agentVars
--------------------------------------------------------------------------------
(* Types of the agent's variables. *)
AgentTypeOK ==
    /\ client \in {"idle", "dialing", "session", "backoff", "ended"}
    /\ session \in 0..MaxSessions
    /\ closing \in {"no", "cancelled", "stopped", "returned"}
    /\ statsLoop \in [Sessions -> {"none", "starting", "streaming"}]
    /\ \A s \in Sessions : discovery[s] \subseteq Containers \cup {"list"}
    /\ collector \in [running : BOOLEAN, parent : 0..MaxSessions, cancelled : BOOLEAN,
                      out : 0..MaxSessions]
    /\ registry \in [Containers -> 0..MaxStreams]
    /\ recent \subseteq Containers

(* However discoveries, Docker events, ended streams and Close run together: a container has at  *)
(* most one stream that still sends - no sample is sent twice - and it is the one d.streams       *)
(* holds, so that a stop can reach it; an entry of d.streams always has a goroutine left that     *)
(* will take it out, or no stream of the container could ever be started again; and once Close    *)
(* has returned none is left sending.                                                            *)
StreamsAreOwned ==
    /\ \A n \in StartedStreams :
          StreamLive(n) /\ stream[n].at = "running" => registry[stream[n].of] = n
    /\ \A c \in Containers : registry[c] # 0 =>
          \E n \in StartedStreams : stream[n].of = c /\ stream[n].at \in {"running", "ending"}
    /\ closing = "returned" => \A n \in StartedStreams : ~StreamLive(n)
================================================================================
