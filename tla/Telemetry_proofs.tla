--------------------------- MODULE Telemetry_proofs ----------------------------
(***************************************************************************)
(* What happens on the nodes and how it reaches those who watch: the agent *)
(* on a node, for any number of containers, sessions and streams; the      *)
(* three hubs, for any number of connections, topics and senders; and the  *)
(* buffer of samples, for any capacity.                                    *)
(***************************************************************************)
EXTENDS AgentClient, Hubs, Samples, SequenceTheorems, FiniteSetTheorems,
        WellFoundedInduction, TLAPS

(***************************************************************************)
(* The agent.  A session that is over is never live again, so a stream     *)
(* started for it is not either; and a container has at most one stream of *)
(* the live session that runs: the one d.streams holds.                    *)
(***************************************************************************)
USE AgentClientAssumption DEF AgentClientAssumption

Places == {"none", "running", "ending", "ended"}
Event  == [of : Containers, start : BOOLEAN]
StreamState   == [of : Containers \cup {"none"}, session : 0..MaxSessions, cancelled : BOOLEAN,
                  out : 0..MaxSessions, at : Places]
ListenerState == [at : {"none", "connecting", "listening", "ended"}, events : Seq(Event)]

AgentTyped ==
    /\ AgentTypeOK
    /\ discovery \in [Sessions -> SUBSET (Containers \cup {"list"})]
    /\ listener \in [Sessions -> ListenerState]
    /\ command \in [Commands -> 0..MaxSessions]

\* Nothing works for a session that has not been opened.
SessionsOpened ==
    /\ \A s \in Sessions : statsLoop[s] # "none" => s <= session
    /\ collector.parent <= session

StreamsTyped ==
    /\ stream \in [Streams -> StreamState] /\ registry \in [Containers -> 0..MaxStreams]
    /\ \A n \in Streams : stream[n].session <= session

\* Streams are numbered as they start, and each is of a container.
StreamsInOrder ==
    /\ \A n \in Streams : \A m \in 1..n : stream[n].at # "none" => stream[m].at # "none"
    /\ \A n \in Streams : stream[n].at \in {"running", "ending"} => stream[n].of \in Containers

\* A live stream is the one entered, and an entry is a stream of its container.
OneStreamEach ==
    /\ \A n \in Streams : StreamLive(n) /\ stream[n].at = "running" => registry[stream[n].of] = n
    /\ \A c \in Containers : registry[c] # 0 =>
          stream[registry[c]].of = c /\ stream[registry[c]].at \in {"running", "ending"}

StreamsInv == StreamsTyped /\ StreamsInOrder /\ OneStreamEach
AgentInv == AgentTyped /\ SessionsOpened /\ StreamsInv
-----------------------------------------------------------------------------------
LEMMA AgentInvInit == AgentInit => AgentInv
<1> SUFFICES ASSUME AgentInit PROVE AgentInv
    OBVIOUS
<1>1. NoStream \in StreamState /\ Stopped \in ListenerState
    <2>1. <<>> \in Seq(Event)
        OBVIOUS
    <2> QED
        BY <2>1 DEF NoStream, Stopped, StreamState, ListenerState, Places
<1>2. AgentTypeOK
    BY DEF AgentInit, AgentTypeOK
<1>3. AgentTyped
    BY <1>1, <1>2 DEF AgentInit, AgentTyped
<1>4. SessionsOpened /\ StreamsInv
    BY <1>1 DEF AgentInit, SessionsOpened, StreamsInv, StreamsTyped, StreamsInOrder, OneStreamEach,
           NoStream, StreamLive, SessionLive
<1> QED
    BY <1>3, <1>4 DEF AgentInv

\* The number SpawnStream takes is free.
LEMMA NextStreamIsFree ==
    ASSUME StreamsInOrder, NEW n \in Streams, n = Cardinality(StartedStreams) + 1
    PROVE  /\ stream[n].at = "none"
           /\ \A m \in Streams : m < n => stream[m].at # "none"
<1>1. IsFiniteSet(StartedStreams) /\ Cardinality(StartedStreams) \in Nat
    <2>1. IsFiniteSet(Streams)
        BY FS_Interval DEF Streams
    <2> QED
        BY <2>1, FS_Subset, FS_CardinalityType DEF StartedStreams
<1>2. stream[n].at = "none"
    <2>1. SUFFICES ASSUME stream[n].at # "none" PROVE FALSE
        OBVIOUS
    <2>2. ASSUME NEW m \in 1..n PROVE m \in StartedStreams
        <3>1. m \in Streams
            BY DEF Streams
        <3> QED
            BY <2>1, <3>1 DEF StreamsInOrder, StartedStreams
    <2>3. Cardinality(1..n) = n /\ 1..n \subseteq StartedStreams
        BY <2>2, FS_Interval DEF Streams
    <2> QED
        BY <1>1, <2>2, <2>3, FS_Subset DEF Streams
<1>3. ASSUME NEW m \in Streams, m < n, stream[m].at = "none" PROVE FALSE
    <2>1. StartedStreams \subseteq 1..(m - 1)
        BY <1>3 DEF StreamsInOrder, StartedStreams, Streams
    <2>2. IsFiniteSet(1..(m - 1)) /\ Cardinality(1..(m - 1)) = m - 1
        <3>1. m - 1 \in Int /\ (1 > m - 1 => m - 1 = 0)
            BY DEF Streams
        <3>2. Cardinality(1..(m - 1)) = IF 1 > m - 1 THEN 0 ELSE (m - 1) - 1 + 1
            BY <3>1, FS_Interval
        <3> QED
            BY <3>1, <3>2, FS_Interval
    <2>3. Cardinality(StartedStreams) <= m - 1
        BY <2>1, <2>2, FS_Subset
    <2> QED
        BY <1>1, <1>3, <2>3 DEF Streams
<1> QED
    BY <1>2, <1>3

\* Sessions only end, but for one that was never open.
LEMMA SessionsEnd ==
    ASSUME AgentInv, [AgentNext]_agentVars
    PROVE  /\ session' \in Nat /\ session <= session'
           /\ \A s \in 0..MaxSessions : s <= session /\ SessionLive(s)' => SessionLive(s)
<1>1. session \in Nat
    BY DEF AgentInv, AgentTyped, AgentTypeOK
<1>2. CASE OpenSession
    BY <1>1, <1>2 DEF OpenSession, SessionLive
<1>3. CASE session' = session /\ (client' = "session" => client = "session")
           /\ (closing' = "no" => closing = "no")
    BY <1>1, <1>3 DEF SessionLive
<1> QED
    BY <1>2, <1>3
       DEF AgentNext, ConnectionNext, CommandsNext, CollectorNext, agentVars, collectorVars,
           StartClient, LoseSession, BackOff, ReceiveCommand, ExecuteAndReplyCommand,
           StreamContainerStats, ListRunningContainers, SpawnDiscovered, ConnectListener,
           DropListener, HandleEvent, EndStream, StopEndedStream, FiveSecondsLater, DockerEvent,
           CloseConnection, StopCollector, CloseReturned

\* A step that leaves the streams alone can only end some.
LEMMA StreamsLeftAlone ==
    ASSUME AgentInv, [AgentNext]_agentVars, UNCHANGED <<stream, registry>>
    PROVE  StreamsInv'
<1>1. \A n \in Streams : StreamLive(n)' => StreamLive(n)
    BY SessionsEnd DEF AgentInv, StreamsInv, StreamsTyped, StreamLive, StreamState
<1>2. \A n \in Streams : stream'[n].session <= session'
    BY SessionsEnd DEF AgentInv, StreamsInv, StreamsTyped, StreamState, AgentTyped, AgentTypeOK
<1> QED
    BY <1>1, <1>2 DEF AgentInv, StreamsInv, StreamsTyped, StreamsInOrder, OneStreamEach

\* SpawnStream enters the stream it starts, for a container without one.
LEMMA SpawnedStreams ==
    ASSUME AgentInv, NEW c \in Containers, SpawnStream(c),
           UNCHANGED <<client, session, closing>>
    PROVE  StreamsInv' /\ recent' \subseteq Containers
<1>1. CASE UNCHANGED <<stream, registry, recent>>
    BY <1>1 DEF AgentInv, AgentTyped, AgentTypeOK, StreamsInv, StreamsTyped, StreamsInOrder,
                OneStreamEach, StreamLive, SessionLive
<1>2. CASE ~UNCHANGED <<stream, registry, recent>>
    <2>1. PICK n \in Streams :
              /\ registry[c] = 0 /\ n = Cardinality(StartedStreams) + 1
              /\ stream' = [stream EXCEPT ![n] =
                     [of |-> c, session |-> collector.parent, cancelled |-> collector.cancelled,
                      out |-> collector.out, at |-> "running"]]
              /\ registry' = [registry EXCEPT ![c] = n]
              /\ recent' = recent \cup {c}
        BY <1>2 DEF SpawnStream
    <2>2. stream[n].at = "none" /\ \A m \in Streams : m < n => stream[m].at # "none"
        BY <2>1, NextStreamIsFree DEF AgentInv, StreamsInv
    <2>a. collector \in [running : BOOLEAN, parent : 0..MaxSessions, cancelled : BOOLEAN,
                         out : 0..MaxSessions]
        BY DEF AgentInv, AgentTyped, AgentTypeOK
    <2>b. [of |-> c, session |-> collector.parent, cancelled |-> collector.cancelled,
           out |-> collector.out, at |-> "running"] \in StreamState
        BY <2>a DEF StreamState, Places
    <2>3. PICK new \in StreamState :
              /\ new = [of |-> c, session |-> collector.parent, cancelled |-> collector.cancelled,
                        out |-> collector.out, at |-> "running"]
              /\ new.of = c /\ new.session = collector.parent /\ new.at = "running"
        BY <2>b
    <2>4. /\ stream' \in [Streams -> StreamState] /\ stream'[n] = new
          /\ \A m \in Streams : m # n => stream'[m] = stream[m]
        BY <2>1, <2>3 DEF AgentInv, StreamsInv, StreamsTyped
    <2>5. /\ registry' \in [Containers -> 0..MaxStreams] /\ registry'[c] = n
          /\ \A d \in Containers : d # c => registry'[d] = registry[d]
        BY <2>1 DEF AgentInv, StreamsInv, StreamsTyped, Streams
    <2>6. StreamsTyped'
        BY <2>3, <2>4, <2>5 DEF AgentInv, StreamsInv, StreamsTyped, SessionsOpened
    <2>7. StreamsInOrder'
        <3>1. ASSUME NEW k \in Streams, NEW m \in 1..k, stream'[k].at # "none"
              PROVE  stream'[m].at # "none"
            <4>1. m \in Streams
                BY DEF Streams
            <4>2. CASE k = n
                BY <2>2, <2>3, <2>4, <4>1, <4>2 DEF Streams
            <4>3. CASE k # n
                BY <2>3, <2>4, <3>1, <4>1, <4>3 DEF AgentInv, StreamsInv, StreamsInOrder
            <4> QED
                BY <4>2, <4>3
        <3>2. \A k \in Streams : stream'[k].at \in {"running", "ending"} => stream'[k].of \in Containers
            BY <2>3, <2>4 DEF AgentInv, StreamsInv, StreamsInOrder
        <3> QED
            BY <3>1, <3>2 DEF StreamsInOrder
    <2>8. OneStreamEach'
        <3>1. ASSUME NEW m \in Streams, StreamLive(m)', stream'[m].at = "running"
              PROVE  registry'[stream'[m].of] = m
            <4>1. CASE m = n
                BY <2>3, <2>4, <2>5, <4>1
            <4>2. CASE m # n
                <5>1. StreamLive(m) /\ stream[m].at = "running"
                    BY <2>4, <3>1, <4>2 DEF StreamLive, SessionLive
                <5>2. registry[stream[m].of] = m /\ stream[m].of \in Containers
                    BY <5>1 DEF AgentInv, StreamsInv, OneStreamEach, StreamsInOrder
                <5>3. stream[m].of # c
                    BY <2>1, <5>2 DEF Streams
                <5> QED
                    BY <2>4, <2>5, <4>2, <5>2, <5>3
            <4> QED
                BY <4>1, <4>2
        <3>2. ASSUME NEW d \in Containers, registry'[d] # 0
              PROVE  stream'[registry'[d]].of = d /\ stream'[registry'[d]].at \in {"running", "ending"}
            <4>1. CASE d = c
                BY <2>3, <2>4, <2>5, <4>1
            <4>2. CASE d # c
                <5>1. registry'[d] = registry[d] /\ registry[d] \in Streams
                    BY <2>5, <3>2, <4>2 DEF AgentInv, StreamsInv, StreamsTyped, Streams
                <5>2. stream[registry[d]].of = d /\ stream[registry[d]].at \in {"running", "ending"}
                    BY <3>2, <5>1 DEF AgentInv, StreamsInv, OneStreamEach
                <5> QED
                    BY <2>2, <2>4, <5>1, <5>2
            <4> QED
                BY <4>1, <4>2
        <3> QED
            BY <3>1, <3>2 DEF OneStreamEach
    <2> QED
        BY <2>1, <2>6, <2>7, <2>8 DEF StreamsInv, AgentInv, AgentTyped, AgentTypeOK
<1> QED
    BY <1>1, <1>2

\* Streams that are cancelled, and entries taken out: what is left is still owned.
LEMMA EndedStreams ==
    ASSUME AgentInv, stream' \in [Streams -> StreamState], registry' \in [Containers -> 0..MaxStreams],
           \A n \in Streams :
               /\ stream'[n].session <= session /\ (stream'[n].at = "none" <=> stream[n].at = "none")
               /\ stream'[n].at \in {"running", "ending"} =>
                      /\ stream[n].at \in {"running", "ending"}
                      /\ stream'[n].of = stream[n].of
               /\ stream'[n].at = "running" /\ StreamLive(n)' =>
                      /\ stream[n].at = "running" /\ StreamLive(n)
                      /\ registry'[stream[n].of] = registry[stream[n].of],
           \A c \in Containers : registry'[c] # 0 =>
               /\ registry'[c] = registry[c]
               /\ stream'[registry[c]].at \in {"running", "ending"},
           UNCHANGED session
    PROVE  StreamsInv'
<1>1. StreamsTyped'
    BY DEF StreamsTyped
<1>2. StreamsInOrder'
    <2>1. ASSUME NEW k \in Streams, NEW m \in 1..k, stream'[k].at # "none"
          PROVE  stream'[m].at # "none"
        <3>1. m \in Streams
            BY DEF Streams
        <3> QED
            BY <2>1, <3>1 DEF AgentInv, StreamsInv, StreamsInOrder
    <2>2. \A k \in Streams : stream'[k].at \in {"running", "ending"} => stream'[k].of \in Containers
        BY DEF AgentInv, StreamsInv, StreamsInOrder
    <2> QED
        BY <2>1, <2>2 DEF StreamsInOrder
<1>3. OneStreamEach'
    <2>1. \A c \in Containers : registry[c] # 0 => registry[c] \in Streams
        BY DEF AgentInv, StreamsInv, StreamsTyped, Streams
    <2> QED
        BY <2>1 DEF AgentInv, StreamsInv, OneStreamEach, StreamsInOrder
<1> QED
    BY <1>1, <1>2, <1>3 DEF StreamsInv

\* CancelStream, from Docker's stop event: the entry goes, and its stream is cancelled.
LEMMA CancelledStreams ==
    ASSUME AgentInv, NEW c \in Containers, CancelStream(c), UNCHANGED <<client, session, closing>>
    PROVE  StreamsInv'
<1>0. stream \in [Streams -> StreamState] /\ registry \in [Containers -> 0..MaxStreams]
    BY DEF AgentInv, StreamsInv, StreamsTyped
<1>1. CASE registry[c] = 0
    <2>1. UNCHANGED <<stream, registry>>
        BY <1>0, <1>1 DEF CancelStream
    <2> QED
        BY <2>1 DEF AgentInv, StreamsInv, StreamsTyped, StreamsInOrder, OneStreamEach, StreamLive,
                    SessionLive
<1>2. CASE registry[c] # 0
    <2>1. PICK m \in Streams : m = registry[c]
        BY <1>0, <1>2 DEF Streams
    <2>2. /\ stream' = [stream EXCEPT ![m].cancelled = TRUE]
          /\ registry' = [registry EXCEPT ![c] = 0]
        BY <1>2, <2>1 DEF CancelStream
    <2>3. /\ stream' \in [Streams -> StreamState] /\ stream'[m].cancelled = TRUE
          /\ \A n \in Streams : n # m => stream'[n] = stream[n]
          /\ \A n \in Streams : /\ stream'[n].at = stream[n].at /\ stream'[n].of = stream[n].of
                                /\ stream'[n].session = stream[n].session
        BY <1>0, <2>2 DEF StreamState
    <2>4. /\ registry' \in [Containers -> 0..MaxStreams] /\ registry'[c] = 0
          /\ \A d \in Containers : d # c => registry'[d] = registry[d]
        BY <1>0, <2>2
    <2>5. \A n \in Streams : stream'[n].session <= session
        BY <2>3 DEF AgentInv, StreamsInv, StreamsTyped
    <2>6. ASSUME NEW n \in Streams, stream'[n].at = "running", StreamLive(n)'
          PROVE  /\ StreamLive(n) /\ registry'[stream[n].of] = registry[stream[n].of]
        <3>1. n # m
            BY <2>3, <2>6 DEF StreamLive
        <3>2. StreamLive(n) /\ stream[n].at = "running"
            BY <2>3, <2>6, <3>1 DEF StreamLive, SessionLive
        <3>3. registry[stream[n].of] = n /\ stream[n].of \in Containers
            BY <3>2 DEF AgentInv, StreamsInv, StreamsInOrder, OneStreamEach
        <3> QED
            BY <2>1, <2>4, <3>1, <3>2, <3>3
    <2>7. ASSUME NEW d \in Containers, registry'[d] # 0
          PROVE  registry'[d] = registry[d] /\ stream'[registry[d]].at \in {"running", "ending"}
        <3>1. registry'[d] = registry[d] /\ registry[d] \in Streams
            BY <1>0, <2>4, <2>7 DEF Streams
        <3> QED
            BY <2>3, <2>7, <3>1 DEF AgentInv, StreamsInv, OneStreamEach
    <2> QED
        BY <2>3, <2>4, <2>5, <2>6, <2>7, EndedStreams
<1> QED
    BY <1>1, <1>2

\* The deferred stopContainerStream ends one stream, and cancels the one entered by then.
LEMMA StoppedStream ==
    ASSUME AgentInv, NEW n \in Streams, StopEndedStream(n) PROVE StreamsInv'
<1>0. stream \in [Streams -> StreamState] /\ registry \in [Containers -> 0..MaxStreams]
    BY DEF AgentInv, StreamsInv, StreamsTyped
<1>1. PICK c \in Containers : c = stream[n].of
    BY DEF StopEndedStream, AgentInv, StreamsInv, StreamsInOrder
<1>2. stream[n].at = "ending" /\ registry' = [registry EXCEPT ![c] = 0]
      /\ UNCHANGED <<client, session, closing>>
    BY <1>1 DEF StopEndedStream
<1>3. PICK cancelled \in [Streams -> StreamState] :
          /\ cancelled = IF registry[c] = 0 THEN stream
                         ELSE [stream EXCEPT ![registry[c]].cancelled = TRUE]
          /\ stream' = [cancelled EXCEPT ![n] = Ended]
          /\ registry[c] # 0 => cancelled[registry[c]].cancelled = TRUE
          /\ \A m \in Streams : m # registry[c] => cancelled[m] = stream[m]
          /\ \A m \in Streams : /\ cancelled[m].at = stream[m].at /\ cancelled[m].of = stream[m].of
                                /\ cancelled[m].session = stream[m].session
    <2>1. CASE registry[c] = 0
        BY <1>0, <1>1, <2>1 DEF StopEndedStream, Streams
    <2>2. CASE registry[c] # 0
        <3>1. PICK m \in Streams : m = registry[c]
            BY <1>0, <2>2 DEF Streams
        <3>2. [stream EXCEPT ![m].cancelled = TRUE] \in [Streams -> StreamState]
            BY <1>0 DEF StreamState
        <3>3. PICK other \in [Streams -> StreamState] : other = [stream EXCEPT ![m].cancelled = TRUE]
            BY <3>2
        <3>4. /\ other[m].cancelled = TRUE /\ \A k \in Streams : k # m => other[k] = stream[k]
              /\ \A k \in Streams : /\ other[k].at = stream[k].at /\ other[k].of = stream[k].of
                                    /\ other[k].session = stream[k].session
            BY <1>0, <3>3 DEF StreamState
        <3>5. stream' = [other EXCEPT ![n] = Ended]
            BY <1>1, <2>2, <3>1, <3>3 DEF StopEndedStream
        <3> QED
            BY <2>2, <3>1, <3>3, <3>4, <3>5
    <2> QED
        BY <2>1, <2>2
<1>4. Ended \in StreamState /\ Ended.at = "ended" /\ Ended.session = 0
    <2>1. NoStream \in StreamState /\ NoStream.session = 0
        BY DEF NoStream, StreamState, Places
    <2> QED
        BY <2>1 DEF Ended, StreamState, Places
<1>5. /\ stream' \in [Streams -> StreamState] /\ stream'[n] = Ended
      /\ \A m \in Streams : m # n => stream'[m] = cancelled[m]
    BY <1>3, <1>4
<1>6. /\ registry' \in [Containers -> 0..MaxStreams] /\ registry'[c] = 0
      /\ \A d \in Containers : d # c => registry'[d] = registry[d]
    BY <1>0, <1>2
<1>7. \A m \in Streams : stream'[m].session <= session
    <2>1. 0 <= session /\ \A m \in Streams : stream[m].session <= session
        BY DEF AgentInv, StreamsInv, StreamsTyped, AgentTyped, AgentTypeOK
    <2> QED
        BY <1>3, <1>4, <1>5, <2>1
<1>8. ASSUME NEW m \in Streams, stream'[m].at = "running", StreamLive(m)'
      PROVE  StreamLive(m) /\ stream[m].at = "running"
             /\ registry'[stream[m].of] = registry[stream[m].of]
    <2>1. m # n
        BY <1>4, <1>5, <1>8
    <2>2. m # registry[c]
        <3>1. stream'[m] = cancelled[m] /\ ~stream'[m].cancelled
            BY <1>5, <1>8, <2>1 DEF StreamLive
        <3> QED
            <4>1. ASSUME m = registry[c] PROVE FALSE
                <5>1. registry[c] # 0
                    BY <4>1 DEF Streams
                <5>2. cancelled[m].cancelled = TRUE
                    BY <1>3, <4>1, <5>1
                <5> QED
                    BY <3>1, <5>2
            <4> QED
                BY <4>1
    <2>3. StreamLive(m) /\ stream[m].at = "running"
        BY <1>2, <1>3, <1>5, <1>8, <2>1, <2>2 DEF StreamLive, SessionLive
    <2>4. registry[stream[m].of] = m /\ stream[m].of \in Containers
        BY <2>3 DEF AgentInv, StreamsInv, StreamsInOrder, OneStreamEach
    <2> QED
        BY <1>6, <2>2, <2>3, <2>4
<1>9. ASSUME NEW d \in Containers, registry'[d] # 0
      PROVE  registry'[d] = registry[d] /\ stream'[registry[d]].at \in {"running", "ending"}
    <2>1. d # c /\ registry'[d] = registry[d] /\ registry[d] \in Streams
        BY <1>0, <1>6, <1>9 DEF Streams
    <2>2. stream[registry[d]].of = d /\ stream[registry[d]].at \in {"running", "ending"}
        BY <1>9, <2>1 DEF AgentInv, StreamsInv, OneStreamEach
    <2> QED
        BY <1>1, <1>3, <1>5, <2>1, <2>2
<1>10. \A m \in Streams :
           /\ stream'[m].at = "none" <=> stream[m].at = "none"
           /\ stream'[m].at \in {"running", "ending"} =>
                  stream[m].at \in {"running", "ending"} /\ stream'[m].of = stream[m].of
    BY <1>2, <1>3, <1>4, <1>5
<1> QED
    BY <1>2, <1>5, <1>6, <1>7, <1>8, <1>9, <1>10, EndedStreams

\* The container of an event, and of a discovery.
LEMMA ContainerOf ==
    ASSUME AgentTyped, NEW s \in Sessions
    PROVE  /\ listener[s].events # <<>> =>
                  /\ Head(listener[s].events) \in Event
                  /\ Tail(listener[s].events) \in Seq(Event)
           /\ discovery[s] \ {"list"} \subseteq Containers
<1>1. listener[s].events \in Seq(Event)
    BY DEF AgentTyped, ListenerState
<1> QED
    BY <1>1 DEF AgentTyped

LEMMA StreamsInvNext ==
    AgentInv /\ [AgentNext]_agentVars => StreamsInv' /\ recent' \subseteq Containers
<1> SUFFICES ASSUME AgentInv, [AgentNext]_agentVars
             PROVE  StreamsInv' /\ recent' \subseteq Containers
    OBVIOUS
<1>0. recent \subseteq Containers
    BY DEF AgentInv, AgentTyped, AgentTypeOK
<1>1. CASE UNCHANGED <<stream, registry>> /\ recent' \subseteq recent
    BY <1>0, <1>1, StreamsLeftAlone
<1>2. ASSUME NEW s \in Sessions, NEW c \in Containers, SpawnDiscovered(s, c)
      PROVE  StreamsInv' /\ recent' \subseteq Containers
    BY <1>2, SpawnedStreams DEF SpawnDiscovered
<1>3. ASSUME NEW s \in Sessions, HandleEvent(s)
      PROVE  StreamsInv' /\ recent' \subseteq Containers
    <2>1. PICK event \in Event : event = Head(listener[s].events)
        BY <1>3, ContainerOf DEF HandleEvent, AgentInv
    <2>2. event.of \in Containers
        BY DEF Event
    <2>3. CASE SpawnStream(event.of)
        BY <1>3, <2>2, <2>3, SpawnedStreams DEF HandleEvent
    <2>4. CASE CancelStream(event.of) /\ UNCHANGED recent
        BY <1>0, <1>3, <2>2, <2>4, CancelledStreams DEF HandleEvent
    <2> QED
        BY <1>3, <2>1, <2>3, <2>4 DEF HandleEvent
<1>4. ASSUME NEW n \in Streams, EndStream(n) PROVE StreamsInv' /\ recent' \subseteq Containers
    <2>1. stream \in [Streams -> StreamState] /\ registry \in [Containers -> 0..MaxStreams]
          /\ \A m \in Streams : stream[m].session <= session
        BY DEF AgentInv, StreamsInv, StreamsTyped
    <2>2. /\ stream[n].at = "running" /\ stream' = [stream EXCEPT ![n].at = "ending"]
          /\ UNCHANGED <<client, session, closing, registry, recent>>
        BY <1>4 DEF EndStream
    <2>3. /\ stream' \in [Streams -> StreamState] /\ stream'[n].at = "ending"
          /\ \A m \in Streams : m # n => stream'[m] = stream[m]
          /\ \A m \in Streams : /\ stream'[m].of = stream[m].of
                                /\ stream'[m].session = stream[m].session
        BY <2>1, <2>2 DEF StreamState, Places
    <2>4. ASSUME NEW m \in Streams, stream'[m].at = "running", StreamLive(m)'
          PROVE  stream[m].at = "running" /\ StreamLive(m)
        BY <2>2, <2>3, <2>4 DEF StreamLive, SessionLive
    <2>5. \A c \in Containers : registry[c] # 0 => stream'[registry[c]].at \in {"running", "ending"}
        BY <2>1, <2>3 DEF AgentInv, StreamsInv, OneStreamEach, Streams
    <2>6. \A m \in Streams :
              /\ stream'[m].at = "none" <=> stream[m].at = "none"
              /\ stream'[m].at \in {"running", "ending"} => stream[m].at \in {"running", "ending"}
        BY <2>2, <2>3
    <2> QED
        BY <1>0, <2>1, <2>2, <2>3, <2>4, <2>5, <2>6, EndedStreams
<1>5. ASSUME NEW n \in Streams, StopEndedStream(n) PROVE StreamsInv' /\ recent' \subseteq Containers
    BY <1>0, <1>5, StoppedStream DEF StopEndedStream
<1>6. CASE StopCollector
    <2>1. CASE collector.running
        <3>1. stream \in [Streams -> StreamState] /\ \A m \in Streams : stream[m].session <= session
            BY DEF AgentInv, StreamsInv, StreamsTyped
        <3>2. /\ registry' = [c \in Containers |-> 0] /\ closing' = "stopped"
              /\ UNCHANGED <<session, recent>>
              /\ stream' = [m \in Streams |->
                     IF stream[m].at \in {"running", "ending"}
                     THEN [stream[m] EXCEPT !.cancelled = TRUE] ELSE stream[m]]
            BY <1>6, <2>1 DEF StopCollector
        <3>3. /\ stream' \in [Streams -> StreamState]
              /\ \A m \in Streams : /\ stream'[m].of = stream[m].of /\ stream'[m].at = stream[m].at
                                    /\ stream'[m].session = stream[m].session
            BY <3>1, <3>2 DEF StreamState
        <3>4. registry' \in [Containers -> 0..MaxStreams] /\ \A c \in Containers : registry'[c] = 0
            BY <3>2
        <3>5. \A m \in Streams : ~StreamLive(m)'
            BY <3>2 DEF StreamLive, SessionLive
        <3> QED
            BY <1>0, <3>1, <3>2, <3>3, <3>4, <3>5, EndedStreams
    <2>2. CASE ~collector.running
        BY <1>1, <1>6, <2>2 DEF StopCollector
    <2> QED
        BY <2>1, <2>2
<1> QED
    BY <1>1, <1>2, <1>3, <1>4, <1>5, <1>6
       DEF AgentNext, ConnectionNext, CommandsNext, CollectorNext, agentVars, collectorVars,
           StartClient, OpenSession, LoseSession, BackOff, ReceiveCommand, ExecuteAndReplyCommand,
           StreamContainerStats, ListRunningContainers, ConnectListener, DropListener,
           FiveSecondsLater, DockerEvent, CloseConnection, CloseReturned

LEMMA SessionsOpenedNext == AgentInv /\ [AgentNext]_agentVars => SessionsOpened'
<1> SUFFICES ASSUME AgentInv, [AgentNext]_agentVars PROVE SessionsOpened'
    OBVIOUS
<1>0. /\ session \in 0..MaxSessions /\ statsLoop \in [Sessions -> {"none", "starting", "streaming"}]
      /\ collector \in [running : BOOLEAN, parent : 0..MaxSessions, cancelled : BOOLEAN,
                        out : 0..MaxSessions]
      /\ \A s \in Sessions : statsLoop[s] # "none" => s <= session
      /\ collector.parent <= session
    BY DEF AgentInv, AgentTyped, AgentTypeOK, SessionsOpened
<1>1. CASE UNCHANGED <<session, statsLoop>> /\ collector'.parent = collector.parent
    BY <1>0, <1>1 DEF SessionsOpened
<1>2. CASE OpenSession
    BY <1>0, <1>2 DEF OpenSession, collectorVars, SessionsOpened, Sessions
<1>3. ASSUME NEW s \in Sessions, StreamContainerStats(s) PROVE SessionsOpened'
    <2>1. s <= session /\ session' = session /\ statsLoop' = [statsLoop EXCEPT ![s] = "streaming"]
        BY <1>0, <1>3 DEF StreamContainerStats
    <2>2. collector'.parent <= session
        BY <1>0, <1>3, <2>1 DEF StreamContainerStats
    <2> QED
        BY <1>0, <2>1, <2>2 DEF SessionsOpened
<1>4. CASE StopCollector
    <2>1. UNCHANGED <<session, statsLoop>>
        BY <1>4 DEF StopCollector
    <2>2. collector'.parent = collector.parent
        BY <1>0, <1>4 DEF StopCollector
    <2> QED
        BY <1>1, <2>1, <2>2
<1>5. CASE UNCHANGED <<session, statsLoop, collector>>
    BY <1>1, <1>5
<1> QED
    BY <1>2, <1>3, <1>4, <1>5
       DEF AgentNext, ConnectionNext, CommandsNext, CollectorNext, agentVars, collectorVars,
           StartClient, LoseSession, BackOff, ReceiveCommand, ExecuteAndReplyCommand,
           ListRunningContainers, SpawnDiscovered, ConnectListener, DropListener, HandleEvent,
           EndStream, StopEndedStream, FiveSecondsLater, DockerEvent, CloseConnection, CloseReturned

LEMMA AgentTypedNext == AgentInv /\ [AgentNext]_agentVars => AgentTyped'
<1> SUFFICES ASSUME AgentInv, [AgentNext]_agentVars PROVE AgentTyped'
    OBVIOUS
<1> DEFINE
      ConnectionTyped ==
          /\ client \in {"idle", "dialing", "session", "backoff", "ended"}
          /\ session \in 0..MaxSessions
          /\ closing \in {"no", "cancelled", "stopped", "returned"}
          /\ command \in [Commands -> 0..MaxSessions]
      LoopsTyped ==
          /\ statsLoop \in [Sessions -> {"none", "starting", "streaming"}]
          /\ collector \in [running : BOOLEAN, parent : 0..MaxSessions, cancelled : BOOLEAN,
                            out : 0..MaxSessions]
          /\ discovery \in [Sessions -> SUBSET (Containers \cup {"list"})]
          /\ listener \in [Sessions -> ListenerState]
<1>0. ConnectionTyped /\ LoopsTyped
    BY DEF AgentInv, AgentTyped, AgentTypeOK
<1>1. registry' \in [Containers -> 0..MaxStreams] /\ recent' \subseteq Containers
    BY StreamsInvNext DEF StreamsInv, StreamsTyped
<1>2. SUFFICES ConnectionTyped' /\ LoopsTyped'
    <2>1. ASSUME ConnectionTyped', LoopsTyped' PROVE AgentTypeOK'
        BY <1>1, <2>1 DEF AgentTypeOK
    <2> QED
        BY <2>1 DEF AgentTyped
<1>3. CASE UNCHANGED <<statsLoop, collector, discovery, listener>> /\ ConnectionTyped'
    BY <1>0, <1>3
<1>4. CASE UNCHANGED <<client, session, closing, command>> /\ LoopsTyped'
    BY <1>0, <1>4
<1>5. CASE \/ StartClient \/ LoseSession \/ BackOff \/ CloseConnection \/ CloseReturned
           \/ CommandsNext
    BY <1>0, <1>5 DEF StartClient, LoseSession, BackOff, CloseConnection, CloseReturned,
                      CommandsNext, ReceiveCommand, ExecuteAndReplyCommand, collectorVars
<1>6. CASE OpenSession
    <2>1. session + 1 \in 0..MaxSessions
        BY <1>0, <1>6 DEF OpenSession
    <2>2. ConnectionTyped' /\ statsLoop' \in [Sessions -> {"none", "starting", "streaming"}]
        BY <1>0, <1>6, <2>1 DEF OpenSession
    <2> QED
        BY <1>0, <1>6, <2>2 DEF OpenSession, collectorVars
<1>7. CASE StopCollector
    BY ZenonT(60), <1>0, <1>7 DEF StopCollector
<1>8. ASSUME NEW s \in Sessions, StreamContainerStats(s) PROVE ConnectionTyped' /\ LoopsTyped'
    <2>1. s \in 0..MaxSessions
        BY DEF Sessions
    <2>2. [listener EXCEPT ![s].at = "connecting"] \in [Sessions -> ListenerState]
        BY <1>0 DEF ListenerState
    <2>3. collector' \in [running : BOOLEAN, parent : 0..MaxSessions, cancelled : BOOLEAN,
                          out : 0..MaxSessions]
        BY <1>0, <1>8, <2>1 DEF StreamContainerStats
    <2> QED
        BY <1>0, <1>4, <1>8, <2>2, <2>3 DEF StreamContainerStats
<1>9. ASSUME NEW s \in Sessions, ListRunningContainers(s) PROVE ConnectionTyped' /\ LoopsTyped'
    BY <1>0, <1>9 DEF ListRunningContainers
<1>10. ASSUME NEW s \in Sessions, NEW c \in Containers, SpawnDiscovered(s, c)
       PROVE  ConnectionTyped' /\ LoopsTyped'
    BY <1>0, <1>10 DEF SpawnDiscovered
<1>11. ASSUME NEW s \in Sessions, ConnectListener(s) PROVE ConnectionTyped' /\ LoopsTyped'
    BY <1>0, <1>11 DEF ConnectListener, ListenerState
<1>12. ASSUME NEW s \in Sessions, DropListener(s) PROVE ConnectionTyped' /\ LoopsTyped'
    <2>1. <<>> \in Seq(Event)
        OBVIOUS
    <2>2. [at |-> IF CollectorLive THEN "connecting" ELSE "ended", events |-> <<>>] \in ListenerState
        BY <2>1 DEF ListenerState
    <2> QED
        BY <1>0, <1>12, <2>2 DEF DropListener
<1>13. ASSUME NEW s \in Sessions, HandleEvent(s) PROVE ConnectionTyped' /\ LoopsTyped'
    <2>1. Tail(listener[s].events) \in Seq(Event)
        BY <1>13, ContainerOf DEF HandleEvent, AgentInv
    <2>2. [listener EXCEPT ![s].events = Tail(@)] \in [Sessions -> ListenerState]
        BY <1>0, <2>1 DEF ListenerState
    <2> QED
        BY <1>0, <1>13, <2>2 DEF HandleEvent
<1>14. ASSUME NEW c \in Containers, NEW start \in BOOLEAN, DockerEvent(c, start)
       PROVE  ConnectionTyped' /\ LoopsTyped'
    <2>1. ASSUME NEW s \in Sessions
          PROVE  [listener[s] EXCEPT !.events = Append(@, [of |-> c, start |-> start])] \in ListenerState
        <3>1. [of |-> c, start |-> start] \in Event /\ listener[s].events \in Seq(Event)
            BY <1>0 DEF Event, ListenerState
        <3>2. Append(listener[s].events, [of |-> c, start |-> start]) \in Seq(Event)
            BY <3>1
        <3> QED
            BY ZenonT(60), <1>0, <3>2 DEF ListenerState
    <2>2. listener' \in [Sessions -> ListenerState]
        BY <1>0, <1>14, <2>1 DEF DockerEvent
    <2> QED
        BY <1>0, <1>14, <2>2 DEF DockerEvent
<1>15. CASE UNCHANGED <<client, session, closing, command, statsLoop, collector, discovery, listener>>
    BY <1>0, <1>15
<1> HIDE DEF ConnectionTyped, LoopsTyped
<1> QED
    BY <1>5, <1>6, <1>7, <1>8, <1>9, <1>10, <1>11, <1>12, <1>13, <1>14, <1>15
       DEF AgentNext, ConnectionNext, CollectorNext, agentVars, EndStream, StopEndedStream,
           FiveSecondsLater

LEMMA AgentInvNext == AgentInv /\ [AgentNext]_agentVars => AgentInv'
BY AgentTypedNext, SessionsOpenedNext, StreamsInvNext DEF AgentInv

LEMMA OwnedByInv == AgentInv => AgentTypeOK /\ StreamsAreOwned
<1> SUFFICES ASSUME AgentInv PROVE AgentTypeOK /\ StreamsAreOwned
    OBVIOUS
<1>1. AgentTypeOK
    BY DEF AgentInv, AgentTyped
<1>2. ASSUME NEW n \in StartedStreams, StreamLive(n), stream[n].at = "running"
      PROVE  registry[stream[n].of] = n
    BY <1>2 DEF AgentInv, StreamsInv, OneStreamEach, StartedStreams
<1>3. ASSUME NEW c \in Containers, registry[c] # 0
      PROVE  \E n \in StartedStreams : stream[n].of = c /\ stream[n].at \in {"running", "ending"}
    <2>1. PICK n \in Streams : n = registry[c]
        BY <1>3 DEF AgentInv, StreamsInv, StreamsTyped, Streams
    <2>2. stream[n].of = c /\ stream[n].at \in {"running", "ending"}
        BY <1>3, <2>1 DEF AgentInv, StreamsInv, OneStreamEach
    <2>3. n \in StartedStreams
        BY <2>2 DEF StartedStreams
    <2> QED
        BY <2>2, <2>3
<1>4. ASSUME closing = "returned", NEW n \in StartedStreams PROVE ~StreamLive(n)
    BY <1>4 DEF StreamLive, SessionLive
<1> QED
    BY <1>1, <1>2, <1>3, <1>4 DEF StreamsAreOwned

(* The inductive invariant: types, sessions opened in order, and the ownership of streams.     *)
THEOREM AgentInvHolds == AgentSpec => []AgentInv
<1>1. AgentInit => AgentInv
    BY AgentInvInit
<1>2. AgentInv /\ [AgentNext]_agentVars => AgentInv'
    BY AgentInvNext
<1> QED
    BY <1>1, <1>2, PTL DEF AgentSpec

(* However discoveries, Docker events, ended streams, lost sessions and Close run together, no   *)
(* container has two streams that send, and an entry of d.streams has a goroutine to remove it.  *)
THEOREM StreamsAreOwnedHolds == AgentSpec => [](AgentTypeOK /\ StreamsAreOwned)
BY AgentInvHolds, OwnedByInv, PTL

(***************************************************************************)
(* The three hubs, for any number of connections, topics and senders and   *)
(* any size of their channels.  Each hub is proved by itself: no state is  *)
(* shared between them.                                                    *)
(***************************************************************************)
USE HubsAssumption DEF HubsAssumption

LEMMA FramesFit == \A n \in 0..BufferSize : AddFrame(n) \in 0..BufferSize
BY DEF AddFrame
----------------------------------------------------------------------------------
(* Server-sent events: a client leaves the list before its channel is closed, and one that has  *)
(* not been registered yet has an open one.                                                     *)
SseInv ==
    /\ sseClients \subseteq Conns
    /\ sse \in [Conns -> [at : {"none", "serving", "leaving", "removed", "gone"},
                          topic : AllTopics, waiting : 0..BufferSize, closed : BOOLEAN]]
    /\ \A c \in sseClients : sse[c].at \in {"serving", "leaving"} /\ ~sse[c].closed
    /\ \A c \in Conns : sse[c].at = "none" => ~sse[c].closed

LEMMA SseInvInit == SseInit => SseInv
BY DEF SseInit, SseInv, AllTopics

LEMMA SseInvNext == SseInv /\ [SseNext]_sseVars => SseInv'
<1> SUFFICES ASSUME SseInv, [SseNext]_sseVars PROVE SseInv'
    OBVIOUS
<1>1. CASE UNCHANGED sseVars
    BY <1>1 DEF SseInv, sseVars
<1>2. CASE SseClose
    BY <1>2 DEF SseInv, SseClose
<1>3. ASSUME NEW t \in Topics, SseBroadcast(t) PROVE SseInv'
    <2>1. /\ sseClients' = sseClients
          /\ \A c \in Conns : sse'[c] = sse[c] \/ sse'[c] = [sse[c] EXCEPT !.waiting = AddFrame(sse[c].waiting)]
          /\ sse' = [c \in Conns |-> sse'[c]]
        BY <1>3 DEF SseBroadcast
    <2> QED
        BY <2>1, FramesFit DEF SseInv
<1>4. ASSUME NEW c \in Conns, NEW t \in Topics \cup {AnyTarget}, SseRegister(c, t) PROVE SseInv'
    BY ZenonT(60), <1>4 DEF SseInv, SseRegister, AllTopics
<1>5. ASSUME NEW c \in Conns, SseServe(c) PROVE SseInv'
    BY <1>5 DEF SseInv, SseServe
<1>6. ASSUME NEW c \in Conns, SseLeave(c) PROVE SseInv'
    BY <1>6 DEF SseInv, SseLeave
<1>7. ASSUME NEW c \in Conns, SseUnregister(c) PROVE SseInv'
    BY <1>7 DEF SseInv, SseUnregister
<1> QED
    BY <1>1, <1>2, <1>3, <1>4, <1>5, <1>6, <1>7 DEF SseNext

(* A broadcast never meets a closed channel: a client the broker lists has an open one, however   *)
(* handlers register, leave and unregister while frames are sent and the broker is closed.        *)
THEOREM SseChannelsOpenHolds == SseInit /\ [][SseNext]_sseVars => []SseChannelsOpen
<1>1. SseInv => SseChannelsOpen
    BY DEF SseInv, SseChannelsOpen
<1> QED
    BY <1>1, SseInvInit, SseInvNext, PTL
----------------------------------------------------------------------------------
(* WebSockets of the API: while Run is in its loop, a client that reads is in h.clients, and no  *)
(* channel of a client there has been closed.                                                    *)
HubInv ==
    /\ hubRuns \in BOOLEAN /\ hubPanic \in BOOLEAN /\ hubClients \subseteq Conns
    /\ wsClient \in [Conns -> [at : {"none", "registering", "reading", "unregistering", "gone"},
                               topics : SUBSET AllTopics, waiting : 0..BufferSize, closed : BOOLEAN]]
    /\ \A c \in hubClients : wsClient[c].at \in {"reading", "unregistering"} /\ ~wsClient[c].closed
    /\ \A c \in Conns : wsClient[c].at \in {"none", "registering"} => ~wsClient[c].closed
    /\ hubRuns => \A c \in Conns : wsClient[c].at = "reading" => c \in hubClients
    /\ hubPanic => ~hubRuns

LEMMA HubInvInit == HubInit => HubInv
<1> SUFFICES ASSUME HubInit PROVE HubInv
    OBVIOUS
<1>1. /\ \A c \in Conns : wsClient[c].at = "none" /\ wsClient[c].closed = FALSE
      /\ wsClient \in [Conns -> [at : {"none", "registering", "reading", "unregistering", "gone"},
                                 topics : SUBSET AllTopics, waiting : 0..BufferSize,
                                 closed : BOOLEAN]]
    BY DEF HubInit
<1>2. hubRuns = TRUE /\ hubPanic = FALSE /\ hubClients = {}
    BY DEF HubInit
<1> QED
    BY <1>1, <1>2 DEF HubInv

LEMMA HubInvNext == HubInv /\ [HubNext]_hubVars => HubInv'
<1> SUFFICES ASSUME HubInv, [HubNext]_hubVars PROVE HubInv'
    OBVIOUS
<1>1. CASE UNCHANGED hubVars
    BY <1>1 DEF HubInv, hubVars
<1>2. CASE BroadcastMessage
    <2>1. /\ UNCHANGED <<hubRuns, hubClients, hubPanic>>
          /\ wsClient' = [c \in Conns |-> wsClient'[c]]
          /\ \A c \in Conns : wsClient'[c] = wsClient[c]
                              \/ wsClient'[c] = [wsClient[c] EXCEPT !.waiting = AddFrame(wsClient[c].waiting)]
        BY <1>2 DEF BroadcastMessage
    <2> QED
        BY <2>1, FramesFit DEF HubInv
<1>3. CASE HubStop
    BY <1>3 DEF HubInv, HubStop
<1>4. ASSUME NEW t \in Topics, HubBroadcast(t) PROVE HubInv'
    BY <1>4 DEF HubInv, HubBroadcast
<1>5. ASSUME NEW c \in Conns, HubRegister(c) PROVE HubInv'
    BY <1>5 DEF HubInv, HubRegister
<1>6. ASSUME NEW c \in Conns, ReadPing(c) PROVE HubInv'
    <2>1. CASE wsClient[c].closed
        <3>1. c \notin hubClients /\ ~hubRuns
            BY <1>6, <2>1 DEF HubInv, ReadPing
        <3>2. UNCHANGED <<hubRuns, hubClients, wsClient>> /\ hubPanic' \in BOOLEAN
            BY <1>6, <2>1 DEF HubInv, ReadPing
        <3> QED
            BY <3>1, <3>2 DEF HubInv
    <2>2. CASE ~wsClient[c].closed
        <3>1. /\ hubPanic' = hubPanic /\ UNCHANGED <<hubRuns, hubClients>>
              /\ wsClient' = [wsClient EXCEPT ![c].waiting = AddFrame(wsClient[c].waiting)]
            BY <1>6, <2>2 DEF HubInv, ReadPing
        <3> QED
            BY <3>1, FramesFit DEF HubInv
    <2> QED
        BY <2>1, <2>2
<1>7. ASSUME NEW c \in Conns, ReadFails(c) PROVE HubInv'
    BY <1>7 DEF HubInv, ReadFails
<1>8. ASSUME NEW c \in Conns, WriteFrame(c) PROVE HubInv'
    BY <1>8 DEF HubInv, WriteFrame
<1>9. ASSUME NEW c \in Conns, HubUnregister(c) PROVE HubInv'
    <2>1. /\ UNCHANGED <<hubRuns, hubPanic>> /\ hubClients' = hubClients \ {c}
          /\ wsClient' = [wsClient EXCEPT ![c] =
                 [wsClient[c] EXCEPT !.at = "gone", !.closed = @ \/ c \in hubClients]]
        BY <1>9 DEF HubInv, HubUnregister
    <2>2. /\ \A d \in Conns : d # c => wsClient'[d] = wsClient[d]
          /\ wsClient'[c].at = "gone"
        BY <2>1 DEF HubInv
    <2>3. wsClient' \in [Conns -> [at : {"none", "registering", "reading", "unregistering", "gone"},
                                  topics : SUBSET AllTopics, waiting : 0..BufferSize,
                                  closed : BOOLEAN]]
        BY ZenonT(60), <2>1 DEF HubInv
    <2> QED
        BY <2>1, <2>2, <2>3 DEF HubInv
<1>10. ASSUME NEW c \in Conns, NEW topics \in SUBSET (Topics \cup {AnyTarget}),
              ServeWebSocket(c, topics) \/ ReadAction(c, topics)
       PROVE  HubInv'
    BY <1>10 DEF HubInv, ServeWebSocket, ReadAction, AllTopics
<1> QED
    BY <1>1, <1>2, <1>3, <1>4, <1>5, <1>6, <1>7, <1>8, <1>9, <1>10 DEF HubNext

(* A client in h.clients has an open channel, and no send to a closed one happens while Run is   *)
(* in its loop, however readers, writers, pings and Run itself are interleaved.                  *)
THEOREM WsChannelsOpenHolds == HubInit /\ [][HubNext]_hubVars => []WsChannelsOpen
<1>1. HubInv => WsChannelsOpen
    BY DEF HubInv, WsChannelsOpen
<1> QED
    BY <1>1, HubInvInit, HubInvNext, PTL
----------------------------------------------------------------------------------
(* WebSockets of the telemetry hub.  Two handlers of one address know of each other: both are in *)
(* overlapped.  And a topic that the session of an address asked for is not one it inherited.    *)
Session == [of : SUBSET Conns, subs : SUBSET AllTopics]
Socket == [at : {"none", "serving", "closed", "gone"}, reader : BOOLEAN, addr : Addresses,
           waiting : 0..BufferSize]
Sender == [kind : {"none", "metric", "log"}, to : SUBSET Conns, full : Conns \cup {AnyTarget},
           at : {"idle", "sending", "full", "warning", "again"}]

SocketsTyped == telemetry \in [Conns -> Socket]
SendersTyped ==
    /\ sender \in [Senders -> Sender]
    /\ \A s \in Senders : sender[s].at \in {"full", "warning", "again"} => sender[s].full \in Conns
ListTyped ==
    /\ listed \in [Addresses -> Session]
    /\ topicIndex \in [AllTopics -> SUBSET Addresses]
    /\ inherited \in [AllTopics -> SUBSET Addresses]
IndexIs ==
    \A t \in AllTopics, a \in Addresses :
       /\ a \in topicIndex[t] <=> t \in listed[a].subs \/ a \in inherited[t]
       /\ ~(t \in listed[a].subs /\ a \in inherited[t])
SessionsOwned ==
    /\ \A a \in Addresses : \A c \in listed[a].of : Handled(c) /\ AddressOf(c) = a
    /\ \A c \in Conns : Handled(c) /\ c \notin overlapped => listed[AddressOf(c)].of = {c}
    /\ \A c, d \in Conns : c # d /\ Handled(c) /\ Handled(d) /\ AddressOf(c) = AddressOf(d)
                              => c \in overlapped

TelemetryInv == SocketsTyped /\ SendersTyped /\ ListTyped /\ IndexIs /\ SessionsOwned

LEMMA TelemetryInvInit == TelemetryInit => TelemetryInv
<1> SUFFICES ASSUME TelemetryInit PROVE TelemetryInv
    OBVIOUS
<1>1. SomeAddress \in Addresses
    BY DEF SomeAddress
<1>2. SocketsTyped
    BY <1>1 DEF TelemetryInit, SocketsTyped, Socket
<1>3. NoFrame \in Sender /\ NoFrame.at = "idle"
    BY DEF NoFrame, Sender
<1>4. SendersTyped
    BY <1>3 DEF TelemetryInit, SendersTyped
<1>5. ListTyped
    BY DEF TelemetryInit, ListTyped, NotListed, Session
<1>6. IndexIs /\ SessionsOwned
    BY DEF TelemetryInit, IndexIs, SessionsOwned, NotListed, Handled
<1> QED
    BY <1>2, <1>4, <1>5, <1>6 DEF TelemetryInv

\* Frames pass through the channels; handlers, addresses and the list stay.
FramesOnly ==
    /\ \A c \in Conns : telemetry'[c].at = telemetry[c].at /\ telemetry'[c].addr = telemetry[c].addr
    /\ UNCHANGED <<listed, topicIndex, inherited, overlapped>>

LEMMA ListLeftAlone ==
    ASSUME ListTyped, IndexIs, SessionsOwned, FramesOnly
    PROVE  ListTyped' /\ IndexIs' /\ SessionsOwned'
<1>1. ListTyped' /\ IndexIs'
    BY DEF FramesOnly, ListTyped, IndexIs
<1>2. \A c \in Conns : Handled(c)' = Handled(c) /\ AddressOf(c)' = AddressOf(c)
    BY DEF FramesOnly, Handled, AddressOf
<1>3. listed' = listed /\ overlapped' = overlapped
    BY DEF FramesOnly
<1>4. \A a \in Addresses : listed[a].of \in SUBSET Conns
    BY DEF ListTyped, Session
<1>5. \A a \in Addresses : \A c \in listed'[a].of : Handled(c)' /\ AddressOf(c)' = a
    BY <1>2, <1>3, <1>4 DEF SessionsOwned
<1>6. \A c \in Conns : Handled(c)' /\ c \notin overlapped' => listed'[AddressOf(c)'].of = {c}
    BY <1>2, <1>3 DEF SessionsOwned
<1>7. \A c, d \in Conns : c # d /\ Handled(c)' /\ Handled(d)' /\ AddressOf(c)' = AddressOf(d)'
                              => c \in overlapped'
    BY <1>2, <1>3 DEF SessionsOwned
<1> QED
    BY <1>1, <1>5, <1>6, <1>7 DEF SessionsOwned

\* The channel of a connection holds another number of frames.
LEMMA ChannelChanges ==
    ASSUME SocketsTyped, NEW c \in Conns, NEW n \in 0..BufferSize,
           telemetry' = [telemetry EXCEPT ![c].waiting = n],
           UNCHANGED <<listed, topicIndex, inherited, overlapped>>
    PROVE  SocketsTyped' /\ FramesOnly
<1>1. PICK new \in Socket : /\ new = [telemetry[c] EXCEPT !.waiting = n]
                            /\ new.at = telemetry[c].at /\ new.addr = telemetry[c].addr
    <2>1. PICK x \in Socket : x = telemetry[c]
        BY DEF SocketsTyped
    <2>2. /\ [x EXCEPT !.waiting = n] \in Socket
          /\ [x EXCEPT !.waiting = n].at = x.at
          /\ [x EXCEPT !.waiting = n].addr = x.addr
        BY DEF Socket
    <2> QED
        BY <2>1, <2>2
<1>2. telemetry' = [telemetry EXCEPT ![c] = new]
    BY <1>1
<1> QED
    BY <1>1, <1>2 DEF SocketsTyped, FramesOnly

LEMMA OfferedFrame ==
    ASSUME SocketsTyped, NEW c \in Conns, Offer(c),
           UNCHANGED <<listed, topicIndex, inherited, overlapped>>
    PROVE  SocketsTyped' /\ FramesOnly
<1>1. PICK n \in 0..BufferSize : n = AddFrame(telemetry[c].waiting)
    BY DEF AddFrame, SocketsTyped, Socket
<1>2. CASE telemetry[c].at = "serving"
    <2>1. telemetry' = [telemetry EXCEPT ![c].waiting = n]
        BY <1>1, <1>2 DEF Offer
    <2> QED
        BY <2>1, ChannelChanges
<1>3. CASE telemetry[c].at # "serving"
    BY <1>3 DEF Offer, SocketsTyped, FramesOnly
<1> QED
    BY <1>2, <1>3

LEMMA TakenFrame ==
    ASSUME SocketsTyped, NEW c \in Conns, telemetry[c].waiting # 0,
           telemetry' = [telemetry EXCEPT ![c].waiting = @ - 1],
           UNCHANGED <<listed, topicIndex, inherited, overlapped>>
    PROVE  SocketsTyped' /\ FramesOnly
<1>1. PICK n \in 0..BufferSize : n = telemetry[c].waiting - 1
    <2>1. PICK w \in 0..BufferSize : w = telemetry[c].waiting /\ w # 0
        BY DEF SocketsTyped, Socket
    <2>2. w - 1 \in 0..BufferSize
        BY <2>1
    <2> QED
        BY <2>1, <2>2
<1>2. telemetry' = [telemetry EXCEPT ![c].waiting = n]
    BY <1>1
<1> QED
    BY <1>2, ChannelChanges

LEMMA SentToTyped ==
    ASSUME SendersTyped, NEW s \in Senders, NEW c \in Conns, SentTo(s, c)
    PROVE  SendersTyped'
<1>1. NoFrame \in Sender /\ NoFrame.at = "idle"
    BY DEF NoFrame, Sender
<1>2. CASE sender[s].to = {c}
    BY <1>1, <1>2 DEF SentTo, SendersTyped
<1>3. CASE sender[s].to # {c}
    <2>1. PICK new \in Sender :
              /\ new = [sender[s] EXCEPT !.to = sender[s].to \ {c}, !.full = AnyTarget,
                                         !.at = "sending"]
              /\ new.at = "sending"
        <3>1. PICK x \in Sender : x = sender[s]
            BY DEF SendersTyped
        <3>2. /\ [x EXCEPT !.to = x.to \ {c}, !.full = AnyTarget, !.at = "sending"] \in Sender
              /\ [x EXCEPT !.to = x.to \ {c}, !.full = AnyTarget, !.at = "sending"].at = "sending"
            BY DEF Sender
        <3> QED
            BY <3>1, <3>2
    <2>2. new.at = "sending"
        BY <2>1
    <2>3. sender' = [sender EXCEPT ![s] = new]
        BY <1>3, <2>1 DEF SentTo
    <2> QED
        BY <2>2, <2>3 DEF SendersTyped
<1> QED
    BY <1>2, <1>3

\* A handler begins at an address, whatever is listed there.
LEMMA SessionEntered ==
    ASSUME TelemetryInv, NEW c \in Conns, NEW a \in Addresses, HandleWebSocket(c, a)
    PROVE  TelemetryInv'
<1> USE DEF TelemetryInv
<1>1. PICK new \in Socket : /\ new = [telemetry[c] EXCEPT !.at = "serving", !.reader = TRUE, !.addr = a]
                            /\ new.at = "serving" /\ new.addr = a
    <2>1. PICK x \in Socket : x = telemetry[c]
        BY DEF SocketsTyped
    <2>2. /\ [x EXCEPT !.at = "serving", !.reader = TRUE, !.addr = a] \in Socket
          /\ [x EXCEPT !.at = "serving", !.reader = TRUE, !.addr = a].at = "serving"
          /\ [x EXCEPT !.at = "serving", !.reader = TRUE, !.addr = a].addr = a
        BY DEF Socket
    <2> QED
        BY <2>1, <2>2
<1>2. telemetry' = [telemetry EXCEPT ![c] = new]
    BY <1>1 DEF HandleWebSocket
<1>3. SocketsTyped'
    BY <1>2 DEF SocketsTyped
<1>4. PICK ses \in Session : ses = [of |-> {c}, subs |-> {}] /\ ses.of = {c} /\ ses.subs = {}
    <2>1. [of |-> {c}, subs |-> {}] \in Session
        BY DEF Session
    <2> QED
        BY <2>1
<1>5. listed' = [listed EXCEPT ![a] = ses]
    BY <1>4 DEF HandleWebSocket
<1>6. /\ inherited' = [t \in AllTopics |->
                         IF t \in listed[a].subs THEN inherited[t] \cup {a} ELSE inherited[t]]
      /\ topicIndex' = topicIndex /\ sender' = sender
    BY DEF HandleWebSocket
<1>7. ListTyped'
    <2>1. inherited' \in [AllTopics -> SUBSET Addresses]
        BY <1>6 DEF ListTyped
    <2> QED
        BY <1>5, <1>6, <2>1 DEF ListTyped
<1>8. IndexIs'
    <2> SUFFICES ASSUME NEW t \in AllTopics, NEW b \in Addresses
                 PROVE  /\ b \in topicIndex[t] <=> t \in listed'[b].subs \/ b \in inherited'[t]
                        /\ ~(t \in listed'[b].subs /\ b \in inherited'[t])
        BY <1>6 DEF IndexIs
    <2>1. inherited'[t] = IF t \in listed[a].subs THEN inherited[t] \cup {a} ELSE inherited[t]
        BY <1>6
    <2>2. CASE b = a
        <3>1. listed'[b].subs = {}
            BY <1>4, <1>5, <2>2 DEF ListTyped
        <3> QED
            BY <2>1, <2>2, <3>1 DEF IndexIs
    <2>3. CASE b # a
        <3>1. listed'[b] = listed[b]
            BY <1>5, <2>3 DEF ListTyped
        <3> QED
            BY <2>1, <2>3, <3>1 DEF IndexIs
    <2> QED
        BY <2>2, <2>3
\* The handlers there were, and the new one.
<1>9. /\ Handled(c)' /\ AddressOf(c)' = a /\ ~Handled(c)
      /\ \A d \in Conns \ {c} : Handled(d)' = Handled(d) /\ AddressOf(d)' = AddressOf(d)
    BY <1>1, <1>2 DEF HandleWebSocket, Handled, AddressOf, SocketsTyped
<1>10. /\ overlapped \subseteq overlapped'
       /\ \A d \in Conns \ {c} : Handled(d) /\ AddressOf(d) = a => {c, d} \subseteq overlapped'
    BY DEF HandleWebSocket
<1>11. \A b \in Addresses : listed[b].of \in SUBSET Conns
    BY DEF ListTyped, Session
<1>12. \A b \in Addresses : \A d \in listed'[b].of : Handled(d)' /\ AddressOf(d)' = b
    <2> SUFFICES ASSUME NEW b \in Addresses, NEW d \in listed'[b].of
                 PROVE  Handled(d)' /\ AddressOf(d)' = b
        OBVIOUS
    <2>1. CASE b = a
        BY <1>4, <1>5, <1>9, <2>1 DEF ListTyped
    <2>2. CASE b # a
        <3>1. d \in listed[b].of /\ d \in Conns
            BY <1>5, <1>11, <2>2 DEF ListTyped
        <3>2. Handled(d) /\ AddressOf(d) = b
            BY <3>1 DEF SessionsOwned
        <3> QED
            BY <1>9, <3>1, <3>2
    <2> QED
        BY <2>1, <2>2
<1>13. ASSUME NEW d \in Conns, Handled(d)', d \notin overlapped' PROVE listed'[AddressOf(d)'].of = {d}
    <2>1. CASE d = c
        BY <1>4, <1>5, <1>9, <2>1 DEF ListTyped
    <2>2. CASE d # c
        <3>1. Handled(d) /\ AddressOf(d)' = AddressOf(d) /\ AddressOf(d) # a /\ d \notin overlapped
            BY <1>9, <1>10, <1>13, <2>2
        <3>2. listed[AddressOf(d)].of = {d} /\ AddressOf(d) \in Addresses
            BY <3>1 DEF SessionsOwned, SocketsTyped, Socket, AddressOf
        <3> QED
            BY <1>5, <3>1, <3>2 DEF ListTyped
    <2> QED
        BY <2>1, <2>2
<1>14. ASSUME NEW d \in Conns, NEW e \in Conns, d # e, Handled(d)', Handled(e)',
              AddressOf(d)' = AddressOf(e)'
       PROVE  d \in overlapped'
    <2>1. CASE d = c
        BY <1>9, <1>10, <1>14, <2>1
    <2>2. CASE e = c
        BY <1>9, <1>10, <1>14, <2>2
    <2>3. CASE d # c /\ e # c
        BY <1>9, <1>10, <1>14, <2>3 DEF SessionsOwned
    <2> QED
        BY <2>1, <2>2, <2>3
<1>15. SessionsOwned'
    BY <1>12, <1>13, <1>14 DEF SessionsOwned
<1>16. SendersTyped'
    BY <1>6 DEF SendersTyped
<1> QED
    BY <1>3, <1>7, <1>8, <1>15, <1>16

\* A session asks for a topic or takes it back.
LEMMA TopicsChange ==
    ASSUME TelemetryInv, NEW c \in Conns, NEW t \in AllTopics, Subscribe(c, t) \/ Unsubscribe(c, t)
    PROVE  TelemetryInv'
<1> USE DEF TelemetryInv
<1>1. PICK a \in Addresses : a = AddressOf(c)
    BY DEF SocketsTyped, Socket, AddressOf
<1>2. PICK subs \in SUBSET AllTopics, index \in SUBSET Addresses :
          /\ listed' = [listed EXCEPT ![a].subs = subs]
          /\ topicIndex' = [topicIndex EXCEPT ![t] = index]
          /\ \/ subs = listed[a].subs \cup {t} /\ index = topicIndex[t] \cup {a}
             \/ subs = listed[a].subs \ {t} /\ index = topicIndex[t] \ {a}
    <2>1. /\ listed[a].subs \in SUBSET AllTopics /\ topicIndex[t] \in SUBSET Addresses
        BY DEF ListTyped, Session
    <2>2. CASE Subscribe(c, t)
        <3>1. /\ listed' = [listed EXCEPT ![a].subs = listed[a].subs \cup {t}]
              /\ topicIndex' = [topicIndex EXCEPT ![t] = topicIndex[t] \cup {a}]
            BY <1>1, <2>2 DEF Subscribe
        <3> QED
            BY <2>1, <3>1
    <2>3. CASE Unsubscribe(c, t)
        <3>1. /\ listed' = [listed EXCEPT ![a].subs = listed[a].subs \ {t}]
              /\ topicIndex' = [topicIndex EXCEPT ![t] = topicIndex[t] \ {a}]
            BY <1>1, <2>3 DEF Unsubscribe
        <3> QED
            BY <2>1, <3>1
    <2> QED
        BY <2>2, <2>3
<1>3. /\ inherited' = [inherited EXCEPT ![t] = inherited[t] \ {a}]
      /\ UNCHANGED <<telemetry, sender, overlapped>>
    BY <1>1 DEF Subscribe, Unsubscribe
<1>4. PICK ses \in Session : /\ ses = [listed[a] EXCEPT !.subs = subs]
                             /\ ses.of = listed[a].of /\ ses.subs = subs
    <2>1. PICK x \in Session : x = listed[a]
        BY DEF ListTyped
    <2>2. /\ [x EXCEPT !.subs = subs] \in Session
          /\ [x EXCEPT !.subs = subs].of = x.of /\ [x EXCEPT !.subs = subs].subs = subs
        BY DEF Session
    <2> QED
        BY <2>1, <2>2
<1>5. listed' = [listed EXCEPT ![a] = ses]
    BY <1>2, <1>4
<1>6. ListTyped'
    BY <1>2, <1>3, <1>5 DEF ListTyped
<1>7. IndexIs'
    <2> SUFFICES ASSUME NEW u \in AllTopics, NEW b \in Addresses
                 PROVE  /\ b \in topicIndex'[u] <=> u \in listed'[b].subs \/ b \in inherited'[u]
                        /\ ~(u \in listed'[b].subs /\ b \in inherited'[u])
        BY DEF IndexIs
    <2>1. listed'[b].subs = IF b = a THEN subs ELSE listed[b].subs
        BY <1>4, <1>5 DEF ListTyped
    <2>2. topicIndex'[u] = IF u = t THEN index ELSE topicIndex[u]
        BY <1>2 DEF ListTyped
    <2>3. inherited'[u] = IF u = t THEN inherited[t] \ {a} ELSE inherited[u]
        BY <1>3 DEF ListTyped
    <2>4. /\ b \in topicIndex[u] <=> u \in listed[b].subs \/ b \in inherited[u]
          /\ ~(u \in listed[b].subs /\ b \in inherited[u])
        BY DEF IndexIs
    <2> QED
        BY <1>2, <2>1, <2>2, <2>3, <2>4
<1>8. \A b \in Addresses : listed'[b].of = listed[b].of
    BY <1>4, <1>5 DEF ListTyped
<1>9. SessionsOwned'
    <2>1. \A d \in Conns : /\ Handled(d)' = Handled(d) /\ AddressOf(d)' = AddressOf(d)
                           /\ AddressOf(d) \in Addresses
        BY <1>3 DEF Handled, AddressOf, SocketsTyped, Socket
    <2>2. \A b \in Addresses : listed[b].of \in SUBSET Conns
        BY DEF ListTyped, Session
    <2>3. \A b \in Addresses : \A d \in listed'[b].of : Handled(d)' /\ AddressOf(d)' = b
        BY <1>8, <2>1, <2>2 DEF SessionsOwned
    <2>4. \A d \in Conns : Handled(d)' /\ d \notin overlapped' => listed'[AddressOf(d)'].of = {d}
        BY <1>3, <1>8, <2>1 DEF SessionsOwned
    <2>5. \A d, e \in Conns : d # e /\ Handled(d)' /\ Handled(e)' /\ AddressOf(d)' = AddressOf(e)'
                                 => d \in overlapped'
        BY <1>3, <2>1 DEF SessionsOwned
    <2> QED
        BY <2>3, <2>4, <2>5 DEF SessionsOwned
<1>10. SocketsTyped' /\ SendersTyped'
    BY <1>3 DEF SocketsTyped, SendersTyped
<1> QED
    BY <1>6, <1>7, <1>9, <1>10

\* A handler that ends takes out the session of its address, be it its own or not.
LEMMA SessionTakenOut ==
    ASSUME TelemetryInv, NEW c \in Conns, UnregisterClient(c)
    PROVE  TelemetryInv'
<1> USE DEF TelemetryInv
<1>1. PICK a \in Addresses : a = AddressOf(c)
    BY DEF SocketsTyped, Socket, AddressOf
<1>2. PICK new \in Socket : /\ new = [telemetry[c] EXCEPT !.at = "gone"]
                            /\ new.at = "gone" /\ new.addr = telemetry[c].addr
    <2>1. PICK x \in Socket : x = telemetry[c]
        BY DEF SocketsTyped
    <2>2. /\ [x EXCEPT !.at = "gone"] \in Socket
          /\ [x EXCEPT !.at = "gone"].at = "gone"
          /\ [x EXCEPT !.at = "gone"].addr = x.addr
        BY DEF Socket
    <2> QED
        BY <2>1, <2>2
<1>3. telemetry' = [telemetry EXCEPT ![c] = new]
    BY <1>2 DEF UnregisterClient
<1>4. NotListed \in Session /\ NotListed.of = {} /\ NotListed.subs = {}
    BY DEF NotListed, Session
<1>5. /\ listed' = [listed EXCEPT ![a] = NotListed]
      /\ topicIndex' = [t \in AllTopics |->
                          IF t \in listed[a].subs THEN topicIndex[t] \ {a} ELSE topicIndex[t]]
      /\ UNCHANGED <<sender, inherited, overlapped>>
    BY <1>1 DEF UnregisterClient
<1>6. ListTyped'
    <2>1. topicIndex' \in [AllTopics -> SUBSET Addresses]
        BY <1>5 DEF ListTyped
    <2> QED
        BY <1>4, <1>5, <2>1 DEF ListTyped
<1>7. IndexIs'
    <2> SUFFICES ASSUME NEW t \in AllTopics, NEW b \in Addresses
                 PROVE  /\ b \in topicIndex'[t] <=> t \in listed'[b].subs \/ b \in inherited'[t]
                        /\ ~(t \in listed'[b].subs /\ b \in inherited'[t])
        BY DEF IndexIs
    <2>1. listed'[b].subs = IF b = a THEN {} ELSE listed[b].subs
        BY <1>4, <1>5 DEF ListTyped
    <2>2. topicIndex'[t] = IF t \in listed[a].subs THEN topicIndex[t] \ {a} ELSE topicIndex[t]
        BY <1>5
    <2>3. /\ b \in topicIndex[t] <=> t \in listed[b].subs \/ b \in inherited[t]
          /\ ~(t \in listed[b].subs /\ b \in inherited[t]) /\ inherited'[t] = inherited[t]
        BY <1>5 DEF IndexIs
    <2> QED
        BY <2>1, <2>2, <2>3
<1>8. /\ ~Handled(c)' /\ Handled(c)
      /\ \A d \in Conns : AddressOf(d)' = AddressOf(d) /\ AddressOf(d) \in Addresses
      /\ \A d \in Conns \ {c} : Handled(d)' = Handled(d)
    BY <1>2, <1>3 DEF UnregisterClient, Handled, AddressOf, SocketsTyped, Socket
<1>9. \A b \in Addresses : /\ listed'[b].of = IF b = a THEN {} ELSE listed[b].of
                           /\ listed[b].of \in SUBSET Conns
    BY <1>4, <1>5 DEF ListTyped, Session
<1>10. ASSUME NEW b \in Addresses, NEW d \in listed'[b].of PROVE Handled(d)' /\ AddressOf(d)' = b
    <2>1. b # a /\ d \in listed[b].of /\ d \in Conns
        BY <1>9, <1>10
    <2>2. Handled(d) /\ AddressOf(d) = b /\ d # c
        BY <1>1, <2>1 DEF SessionsOwned
    <2> QED
        BY <1>8, <2>1, <2>2
<1>11. ASSUME NEW d \in Conns, Handled(d)', d \notin overlapped' PROVE listed'[AddressOf(d)'].of = {d}
    <2>1. d # c /\ Handled(d) /\ d \notin overlapped
        BY <1>5, <1>8, <1>11
    <2>2. AddressOf(d) # a
        BY <1>1, <1>8, <2>1 DEF SessionsOwned
    <2> QED
        BY <1>8, <1>9, <2>1, <2>2 DEF SessionsOwned
<1>12. ASSUME NEW d \in Conns, NEW e \in Conns, d # e, Handled(d)', Handled(e)',
              AddressOf(d)' = AddressOf(e)'
       PROVE  d \in overlapped'
    BY <1>5, <1>8, <1>12 DEF SessionsOwned
<1>13. SessionsOwned'
    BY <1>10, <1>11, <1>12 DEF SessionsOwned
<1>14. SocketsTyped' /\ SendersTyped'
    BY <1>3, <1>5 DEF SocketsTyped, SendersTyped
<1> QED
    BY <1>6, <1>7, <1>13, <1>14

LEMMA TelemetryInvNext == TelemetryInv /\ [TelemetryNext]_telemetryVars => TelemetryInv'
<1> SUFFICES ASSUME TelemetryInv, [TelemetryNext]_telemetryVars PROVE TelemetryInv'
    OBVIOUS
<1>0. ASSUME SocketsTyped', SendersTyped', FramesOnly PROVE TelemetryInv'
    BY <1>0, ListLeftAlone DEF TelemetryInv
<1>1. CASE UNCHANGED telemetryVars
    BY <1>0, <1>1 DEF telemetryVars, TelemetryInv, SocketsTyped, SendersTyped, FramesOnly
<1>2. ASSUME NEW c \in Conns, ReaderEnds(c) PROVE TelemetryInv'
    <2>1. PICK new \in Socket : /\ new = [telemetry[c] EXCEPT !.reader = FALSE]
                                /\ new.at = telemetry[c].at /\ new.addr = telemetry[c].addr
        <3>1. PICK x \in Socket : x = telemetry[c]
            BY DEF TelemetryInv, SocketsTyped
        <3>2. /\ [x EXCEPT !.reader = FALSE] \in Socket
              /\ [x EXCEPT !.reader = FALSE].at = x.at
              /\ [x EXCEPT !.reader = FALSE].addr = x.addr
            BY DEF Socket
        <3> QED
            BY <3>1, <3>2
    <2>2. telemetry' = [telemetry EXCEPT ![c] = new]
        BY <1>2, <2>1 DEF ReaderEnds
    <2> QED
        BY <1>0, <1>2, <2>1, <2>2 DEF ReaderEnds, TelemetryInv, SocketsTyped, SendersTyped, FramesOnly
<1>3. ASSUME NEW c \in Conns, CloseSocket(c) PROVE TelemetryInv'
    <2>1. PICK new \in Socket : /\ new = [telemetry[c] EXCEPT !.at = "closed", !.waiting = 0]
                                /\ new.at = "closed" /\ new.addr = telemetry[c].addr
        <3>1. PICK x \in Socket : x = telemetry[c]
            BY DEF TelemetryInv, SocketsTyped
        <3>0. 0 \in 0..BufferSize
            OBVIOUS
        <3>2. /\ [x EXCEPT !.at = "closed", !.waiting = 0] \in Socket
              /\ [x EXCEPT !.at = "closed", !.waiting = 0].at = "closed"
              /\ [x EXCEPT !.at = "closed", !.waiting = 0].addr = x.addr
            BY <3>0 DEF Socket
        <3> QED
            BY <3>1, <3>2
    <2>2. telemetry' = [telemetry EXCEPT ![c] = new]
        BY <1>3, <2>1 DEF CloseSocket
    <2>3. \A d \in Conns : Handled(d)' = Handled(d) /\ AddressOf(d)' = AddressOf(d)
        BY <1>3, <2>1, <2>2 DEF CloseSocket, Handled, AddressOf, TelemetryInv, SocketsTyped
    <2>4. SocketsTyped' /\ SendersTyped' /\ ListTyped' /\ IndexIs'
        <3>1. SocketsTyped'
            BY <2>2 DEF TelemetryInv, SocketsTyped
        <3>2. UNCHANGED <<listed, topicIndex, sender, inherited>>
            BY <1>3 DEF CloseSocket
        <3> QED
            BY <3>1, <3>2 DEF TelemetryInv, SendersTyped, ListTyped, IndexIs
    <2>5. /\ listed' = listed /\ overlapped' = overlapped
          /\ \A a \in Addresses : listed[a].of \in SUBSET Conns
        BY <1>3 DEF CloseSocket, TelemetryInv, ListTyped, Session
    <2>6. \A a \in Addresses : \A d \in listed'[a].of : Handled(d)' /\ AddressOf(d)' = a
        BY <2>3, <2>5 DEF TelemetryInv, SessionsOwned
    <2>7. \A d \in Conns : Handled(d)' /\ d \notin overlapped' => listed'[AddressOf(d)'].of = {d}
        BY <2>3, <2>5 DEF TelemetryInv, SessionsOwned
    <2>8. \A d, e \in Conns : d # e /\ Handled(d)' /\ Handled(e)' /\ AddressOf(d)' = AddressOf(e)'
                                 => d \in overlapped'
        BY <2>3, <2>5 DEF TelemetryInv, SessionsOwned
    <2>9. SessionsOwned'
        BY <2>6, <2>7, <2>8 DEF SessionsOwned
    <2> QED
        BY <2>4, <2>9 DEF TelemetryInv
<1>4. ASSUME NEW c \in Conns, WriteTelemetry(c) PROVE TelemetryInv'
    <2>1. telemetry[c].waiting # 0 /\ SendersTyped'
        BY <1>4 DEF WriteTelemetry, TelemetryInv, SocketsTyped, Socket, SendersTyped
    <2> QED
        BY <1>0, <1>4, <2>1, TakenFrame DEF WriteTelemetry, TelemetryInv
<1>5. ASSUME NEW s \in Senders, NEW c \in Conns, Dispatch(s, c) PROVE TelemetryInv'
    BY <1>0, <1>5, OfferedFrame, SentToTyped DEF Dispatch, TelemetryInv
<1>6. ASSUME NEW s \in Senders, NEW c \in Conns, FindFull(s, c) PROVE TelemetryInv'
    <2>1. PICK new \in Sender : /\ new = [sender[s] EXCEPT !.at = "full", !.full = c]
                                /\ new.full = c
        <3>1. PICK x \in Sender : x = sender[s]
            BY DEF TelemetryInv, SendersTyped
        <3>2. /\ [x EXCEPT !.at = "full", !.full = c] \in Sender
              /\ [x EXCEPT !.at = "full", !.full = c].full = c
            BY DEF Sender
        <3> QED
            BY <3>1, <3>2
    <2>2. sender' = [sender EXCEPT ![s] = new]
        BY <1>6, <2>1 DEF FindFull
    <2>3. SendersTyped'
        BY <2>1, <2>2 DEF TelemetryInv, SendersTyped
    <2> QED
        BY <1>0, <1>6, <2>3 DEF FindFull, TelemetryInv, SocketsTyped, FramesOnly
<1>7. ASSUME NEW s \in Senders, NEW at \in {"warning", "again"},
             sender[s].full \in Conns, sender' = [sender EXCEPT ![s].at = at]
      PROVE  SendersTyped'
    <2>1. PICK new \in Sender : new = [sender[s] EXCEPT !.at = at] /\ new.full = sender[s].full
        <3>1. PICK x \in Sender : x = sender[s]
            BY DEF TelemetryInv, SendersTyped
        <3>2. /\ [x EXCEPT !.at = at] \in Sender
              /\ [x EXCEPT !.at = at].full = x.full
            BY DEF Sender
        <3> QED
            BY <3>1, <3>2
    <2>2. sender' = [sender EXCEPT ![s] = new]
        BY <1>7, <2>1
    <2> QED
        BY <1>7, <2>1, <2>2 DEF TelemetryInv, SendersTyped
<1>8. ASSUME NEW s \in Senders, DropOldest(s) PROVE TelemetryInv'
    <2>1. PICK c \in Conns : c = sender[s].full
        BY <1>8 DEF DropOldest, TelemetryInv, SendersTyped
    <2>2. SendersTyped'
        BY <1>7, <1>8, <2>1 DEF DropOldest
    <2>3. SocketsTyped' /\ FramesOnly
        <3>1. CASE telemetry[c].waiting = 0
            BY <1>8, <2>1, <3>1 DEF DropOldest, Waiting, TelemetryInv, SocketsTyped, FramesOnly
        <3>2. CASE telemetry[c].waiting # 0
            BY <1>8, <2>1, <3>2, TakenFrame DEF DropOldest, Waiting, TelemetryInv
        <3> QED
            BY <3>1, <3>2
    <2> QED
        BY <1>0, <2>2, <2>3
<1>9. ASSUME NEW s \in Senders, Warn(s) PROVE TelemetryInv'
    <2>1. PICK c \in Conns : c = sender[s].full
        BY <1>9 DEF Warn, TelemetryInv, SendersTyped
    <2>2. SendersTyped'
        BY <1>7, <1>9, <2>1 DEF Warn
    <2> QED
        BY <1>0, <1>9, <2>1, <2>2, OfferedFrame DEF Warn, TelemetryInv
<1>10. ASSUME NEW s \in Senders, TryAgain(s) PROVE TelemetryInv'
    <2>1. PICK c \in Conns : c = sender[s].full
        BY <1>10 DEF TryAgain, TelemetryInv, SendersTyped
    <2> QED
        BY <1>0, <1>10, <2>1, OfferedFrame, SentToTyped DEF TryAgain, TelemetryInv
<1>11. ASSUME NEW s \in Senders, NEW t \in Topics, NEW kind \in {"metric", "log"},
              Broadcast(s, t, kind)
       PROVE  TelemetryInv'
    <2>1. PICK to \in SUBSET Conns :
              to = UNION {listed[a].of : a \in topicIndex[t] \cup topicIndex[AnyTarget]}
        <3>1. topicIndex[t] \in SUBSET Addresses /\ topicIndex[AnyTarget] \in SUBSET Addresses
            BY DEF TelemetryInv, ListTyped, AllTopics
        <3>2. \A a \in Addresses : listed[a].of \in SUBSET Conns
            BY DEF TelemetryInv, ListTyped, Session
        <3> QED
            BY <3>1, <3>2
    <2> DEFINE new == [NoFrame EXCEPT !.kind = kind, !.to = to,
                                      !.at = IF to = {} THEN "idle" ELSE "sending"]
    <2>2. sender' = [sender EXCEPT ![s] = new]
        BY <1>11, <2>1 DEF Broadcast
    <2>3. new \in Sender /\ new.at \in {"idle", "sending"}
        BY DEF NoFrame, Sender
    <2> HIDE DEF new
    <2>4. SendersTyped'
        BY <2>2, <2>3 DEF TelemetryInv, SendersTyped
    <2> QED
        BY <1>0, <1>11, <2>4 DEF Broadcast, TelemetryInv, SocketsTyped, FramesOnly
<1> QED
    BY <1>1, <1>2, <1>3, <1>4, <1>5, <1>6, <1>8, <1>9, <1>10, <1>11,
       SessionEntered, TopicsChange, SessionTakenOut DEF TelemetryNext

LEMMA IndexedByInv == TelemetryInv => TopicsAreIndexed
<1> SUFFICES ASSUME TelemetryInv PROVE TopicsAreIndexed
    OBVIOUS
<1>1. \A t \in AllTopics :
          topicIndex[t] = {a \in Addresses : t \in listed[a].subs} \cup inherited[t]
    BY DEF TelemetryInv, ListTyped, IndexIs
<1> QED
    BY <1>1 DEF TelemetryInv, SessionsOwned, TopicsAreIndexed

(* The index names the addresses whose session asked for a topic, and those that took one over    *)
(* from a session that did; no session outlives its handler but nobody's, and a handler that      *)
(* shared its address with no other keeps its own until it unregisters - whenever connections     *)
(* come back at an address, and whatever late readers subscribe to.                               *)
THEOREM TopicsAreIndexedHolds == TelemetryInit /\ [][TelemetryNext]_telemetryVars => []TopicsAreIndexed
BY TelemetryInvInit, TelemetryInvNext, IndexedByInv, PTL

LEMMA HubsTyped == SseInv /\ HubInv /\ TelemetryInv => HubsTypeOK
BY DEF SseInv, HubInv, TelemetryInv, SocketsTyped, Socket, ListTyped, HubsTypeOK

(***************************************************************************)
(* The buffer of samples.  Until it is full the newest point is the last   *)
(* one written; from then on it moves round the array.  Either way the     *)
(* point pushed k points ago is k places behind the head, counted round    *)
(* the array, and a point that is pushed moves every other one a place on. *)
(***************************************************************************)
Point == [at : Nat, value : Values]

\* Where the point pushed k points ago is.
Back(k) == IF ring.head >= k THEN ring.head - k ELSE ring.head - k + Capacity

RingTyped ==
    /\ history \in Seq(Point)
    /\ ring \in [data : [0..(Capacity - 1) -> Point \cup {Blank}],
                 head : 0..(Capacity - 1), size : 0..Capacity]

RingInv ==
    /\ RingTyped
    /\ ring.size = Stored
    /\ ring.size < Capacity /\ ring.size > 0 => ring.head = ring.size - 1
    /\ \A k \in 0..(Capacity - 1) : k < ring.size => ring.data[Back(k)] = history[Len(history) - k]

LEMMA CapacityIs == Capacity \in Nat /\ Capacity > 0
BY SamplesAssumption

\* A number up to twice the capacity, on the ring.
LEMMA Wraps ==
    ASSUME NEW x \in Nat, x < 2 * Capacity
    PROVE  x % Capacity = IF x < Capacity THEN x ELSE x - Capacity
<1>1. Capacity \in Nat /\ Capacity > 0
    BY CapacityIs
<1>2. CASE x < Capacity
    BY <1>1, <1>2
<1>3. CASE x >= Capacity
    <2>1. x = Capacity * 1 + (x - Capacity) /\ x - Capacity \in 0..(Capacity - 1)
        BY <1>1, <1>3
    <2> QED
        BY <1>1, <1>3, <2>1
<1> QED
    BY <1>1, <1>2, <1>3

LEMMA EmptyRingIs ==
    /\ EmptyRing \in [data : [0..(Capacity - 1) -> Point \cup {Blank}],
                      head : 0..(Capacity - 1), size : 0..Capacity]
    /\ EmptyRing.size = 0
BY CapacityIs DEF EmptyRing

LEMMA RingInvInit == SamplesInit => RingInv
<1> SUFFICES ASSUME SamplesInit PROVE RingInv
    OBVIOUS
<1>1. ring \in [data : [0..(Capacity - 1) -> Point \cup {Blank}],
                head : 0..(Capacity - 1), size : 0..Capacity] /\ ring.size = 0
    BY EmptyRingIs DEF SamplesInit
<1>2. history \in Seq(Point) /\ Len(history) = 0
    BY DEF SamplesInit
<1>3. Stored = 0
    BY <1>2, CapacityIs DEF Stored
<1> QED
    BY <1>1, <1>2, <1>3 DEF RingInv, RingTyped

LEMMA PushKeeps ==
    ASSUME RingInv, NEW at \in 0..SamplesUntil, NEW value \in Values, Push(at, value)
    PROVE  RingInv'
<1> DEFINE C == Capacity
           n == Len(history)
           z == ring.size
           h == ring.head
<1>1. C \in Nat /\ C > 0
    BY CapacityIs
<1>2. PICK p \in Point : p = [at |-> at, value |-> value]
    <2>1. at \in Nat
        BY SamplesAssumption
    <2> QED
        BY <2>1 DEF Point
<1>3. /\ history \in Seq(Point) /\ n \in Nat /\ h \in 0..(C - 1) /\ z \in 0..C
      /\ ring.data \in [0..(C - 1) -> Point \cup {Blank}]
      /\ z = IF n < C THEN n ELSE C
      /\ z < C /\ z > 0 => h = z - 1
      /\ \A k \in 0..(C - 1) : k < z => ring.data[Back(k)] = history[n - k]
    BY DEF RingInv, RingTyped, Stored
<1>4. /\ history' = Append(history, p)
      /\ ring' = IF z < C THEN [data |-> [ring.data EXCEPT ![z] = p], size |-> z + 1, head |-> z]
                 ELSE [ring EXCEPT !.data[(h + 1) % C] = p, !.head = (h + 1) % C]
    BY <1>2 DEF Push
<1>5. /\ history' \in Seq(Point) /\ Len(history') = n + 1 /\ history'[n + 1] = p
      /\ \A i \in 1..n : history'[i] = history[i]
    BY <1>3, <1>4, AppendProperties
<1> HIDE DEF C, n, z, h
\* Where the new point goes, and that the others are one step further back.
<1>6. /\ ring'.head \in 0..(C - 1) /\ ring'.size = (IF z < C THEN z + 1 ELSE C)
      /\ ring'.data = [ring.data EXCEPT ![ring'.head] = p]
      /\ ring' \in [data : [0..(C - 1) -> Point \cup {Blank}], head : 0..(C - 1), size : 0..C]
      /\ ring'.head = IF z < C THEN z ELSE IF h + 1 < C THEN h + 1 ELSE 0
    <2>1. CASE z < C
        <3> DEFINE d == [ring.data EXCEPT ![z] = p]
        <3>1. d \in [0..(C - 1) -> Point \cup {Blank}]
            BY <1>3
        <3>2. z \in 0..(C - 1) /\ z + 1 \in 0..C
            BY <1>1, <1>3, <2>1
        <3>3. ring' = [data |-> d, size |-> z + 1, head |-> z]
            BY <1>4, <2>1
        <3> HIDE DEF d
        <3>4. ring'.data = d /\ ring'.size = z + 1 /\ ring'.head = z
            BY <3>3
        <3> QED
            BY <2>1, <3>1, <3>2, <3>3, <3>4 DEF d
    <2>2. CASE ~(z < C)
        <3>1. PICK m \in 0..(C - 1) : m = (h + 1) % C /\ m = IF h + 1 < C THEN h + 1 ELSE 0
            <4>1. h + 1 \in Nat /\ h + 1 < 2 * C /\ h + 1 <= C
                BY <1>1, <1>3
            <4>2. (h + 1) % C = IF h + 1 < C THEN h + 1 ELSE (h + 1) - C
                BY <4>1, Wraps DEF C
            <4>3. (h + 1) % C = IF h + 1 < C THEN h + 1 ELSE 0
                BY <1>1, <1>3, <4>1, <4>2
            <4>4. (IF h + 1 < C THEN h + 1 ELSE 0) \in 0..(C - 1)
                BY <1>1, <1>3
            <4> QED
                BY <4>3, <4>4
        <3> DEFINE d == [ring.data EXCEPT ![m] = p]
        <3>2. d \in [0..(C - 1) -> Point \cup {Blank}]
            BY <1>3
        <3>3. ring' = [ring EXCEPT !.data = d, !.head = m]
            BY <1>4, <2>2, <3>1
        <3> HIDE DEF d
        <3>4. ring'.data = d /\ ring'.size = z /\ ring'.head = m /\ z = C
            BY <1>1, <1>3, <2>2, <3>3 DEF RingInv, RingTyped, z
        <3>5. ring' \in [data : [0..(C - 1) -> Point \cup {Blank}], head : 0..(C - 1), size : 0..C]
            BY <3>1, <3>2, <3>3 DEF RingInv, RingTyped, C
        <3> QED
            BY <2>2, <3>1, <3>4, <3>5 DEF d
    <2> QED
        BY <2>1, <2>2
<1>7. /\ Stored' = ring'.size /\ (ring'.size < C /\ ring'.size > 0 => ring'.head = ring'.size - 1)
    BY <1>1, <1>3, <1>5, <1>6 DEF Stored, C
<1>8. ASSUME NEW k \in 0..(C - 1), k < ring'.size
      PROVE  ring'.data[Back(k)'] = history'[Len(history') - k]
    <2>1. CASE k = 0
        <3>1. Back(k)' = ring'.head
            BY <1>6, <2>1 DEF Back
        <3>2. Len(history') - k = n + 1
            BY <1>3, <1>5, <2>1
        <3>3. ring'.data[ring'.head] = p
            BY <1>3, <1>6
        <3> QED
            BY <1>5, <3>1, <3>2, <3>3
    <2>2. CASE k # 0
        <3>1. PICK j \in 0..(C - 1) : k = j + 1 /\ j < z
            <4>1. C \in Nat /\ z \in 0..C /\ k \in 0..(C - 1) /\ k # 0
                BY <1>1, <1>3, <2>2
            <4>2. k < (IF z < C THEN z + 1 ELSE C)
                BY <1>6, <1>8
            <4>3. k - 1 < z
                BY <4>1, <4>2
            <4>4. k - 1 \in 0..(C - 1) /\ k = (k - 1) + 1
                BY <4>1
            <4> QED
                BY <4>3, <4>4
        <3>2. Back(k)' = Back(j) /\ Back(j) \in 0..(C - 1) /\ Back(j) # ring'.head
            <4>1. Back(k)' = IF ring'.head >= k THEN ring'.head - k ELSE ring'.head - k + C
                BY DEF Back, C
            <4>2. Back(j) = IF h >= j THEN h - j ELSE h - j + C
                BY DEF Back, C, h
            <4>5. C \in Nat /\ z \in 0..C /\ h \in 0..(C - 1) /\ (z < C /\ z > 0 => h = z - 1)
                BY <1>1, <1>3
            <4>6. ring'.head = IF z < C THEN z ELSE IF h + 1 < C THEN h + 1 ELSE 0
                BY <1>6
            <4>3. CASE z < C
                <5>1. h = z - 1 /\ ring'.head = z /\ j < z
                    BY <3>1, <4>3, <4>5, <4>6
                <5>2. Back(k)' = z - (j + 1) /\ Back(j) = (z - 1) - j
                    BY <3>1, <4>1, <4>2, <4>5, <5>1
                <5> QED
                    BY <3>1, <4>3, <4>5, <5>1, <5>2
            <4>4. CASE ~(z < C)
                BY <3>1, <4>1, <4>2, <4>4, <4>5, <4>6
            <4> QED
                BY <4>3, <4>4
        <3>3. ring'.data[Back(j)] = ring.data[Back(j)]
            BY <1>3, <1>6, <3>2
        <3>4. Len(history') - k = n - j /\ n - j \in 1..n
            <4>1. n \in Nat /\ Len(history') = n + 1 /\ j \in Nat /\ k = j + 1
                BY <1>1, <1>3, <1>5, <3>1
            <4>2. j < n
                BY <1>1, <1>3, <3>1
            <4> QED
                BY <4>1, <4>2
        <3> QED
            BY <1>3, <1>5, <3>1, <3>2, <3>3, <3>4
    <2> QED
        BY <2>1, <2>2
<1> QED
    BY <1>5, <1>6, <1>7, <1>8 DEF RingInv, RingTyped, C

LEMMA RingInvNext == RingInv /\ [SamplesNext]_sampleVars => RingInv'
<1> SUFFICES ASSUME RingInv, [SamplesNext]_sampleVars PROVE RingInv'
    OBVIOUS
<1>1. ASSUME NEW at \in 0..SamplesUntil, NEW value \in Values, Push(at, value) PROVE RingInv'
    BY <1>1, PushKeeps
<1>2. CASE Restart
    <2>1. history' = <<>> /\ Len(history') = 0 /\ ring' = EmptyRing
        BY <1>2 DEF Restart
    <2>2. Stored' = 0
        BY <2>1, CapacityIs DEF Stored
    <2> QED
        BY <2>1, <2>2, EmptyRingIs DEF RingInv, RingTyped
<1>3. CASE UNCHANGED <<ring, history>>
    BY <1>3 DEF RingInv, RingTyped, Stored, Back
<1> QED
    BY <1>1, <1>2, <1>3
       DEF SamplesNext, DownsampleAndSave, PruneExpiredMetrics, PassTime, TakeTick, sampleVars

LEMMA RingInvImplies == RingInv => NewestAreRead
<1> SUFFICES ASSUME RingInv, NEW n \in 0..(Capacity + 1)
             PROVE  GetLastN(n) = Newest(IF n > Stored THEN Stored ELSE n)
    BY DEF NewestAreRead
<1>1. Capacity \in Nat /\ Capacity > 0
    BY CapacityIs
<1>2. PICK m \in 0..Capacity : m = IF n > Stored THEN Stored ELSE n
    BY <1>1 DEF RingInv, RingTyped
<1>3. ring.size = Stored /\ m <= Stored /\ Stored <= Len(history) /\ Len(history) \in Nat
      /\ Stored \in 0..Capacity /\ ring.head \in 0..(Capacity - 1)
    BY <1>1, <1>2 DEF RingInv, RingTyped, Stored
<1>4. ASSUME NEW i \in 1..m PROVE PointAt(m, i) = history[Len(history) - m + i]
    <2>1. PICK k \in 0..(Capacity - 1) : k = m - i /\ k < Stored
        BY <1>1, <1>2, <1>3
    <2>2. (ring.head - m + i + Capacity) = ring.head - k + Capacity
        BY <1>1, <1>3, <2>1
    <2>3. ring.head - k + Capacity \in Nat /\ ring.head - k + Capacity < 2 * Capacity
        BY <1>1, <1>3, <2>1
    <2>4. (ring.head - k + Capacity) % Capacity = Back(k)
        <3>1. (ring.head - k + Capacity) % Capacity
                 = IF ring.head - k + Capacity < Capacity THEN ring.head - k + Capacity
                   ELSE (ring.head - k + Capacity) - Capacity
            BY <2>3, Wraps
        <3> QED
            BY <1>1, <1>3, <2>1, <3>1 DEF Back
    <2>5. ring.data[Back(k)] = history[Len(history) - k]
        BY <1>3, <2>1 DEF RingInv
    <2>6. Len(history) - k = Len(history) - m + i
        BY <1>3, <2>1
    <2> QED
        BY <2>2, <2>4, <2>5, <2>6 DEF PointAt
<1>5. GetLastN(n) = [i \in 1..m |-> PointAt(m, i)]
    BY <1>2, <1>3 DEF GetLastN
<1>6. Newest(m) = [i \in 1..m |-> history[Len(history) - m + i]]
    <2>1. Newest(m) = [i \in 1..(1 + Len(history) - (Len(history) - m + 1))
                          |-> history[i + (Len(history) - m + 1) - 1]]
        BY DEF Newest
    <2>2. 1 + Len(history) - (Len(history) - m + 1) = m
        BY <1>2, <1>3
    <2>3. \A i \in 1..m : i + (Len(history) - m + 1) - 1 = Len(history) - m + i
        BY <1>2, <1>3
    <2> QED
        BY <2>1, <2>2, <2>3
<1>7. [i \in 1..m |-> PointAt(m, i)] = [i \in 1..m |-> history[Len(history) - m + i]]
    BY <1>4
<1> QED
    BY <1>2, <1>5, <1>6, <1>7

(* The buffer of samples: wherever it has wrapped around, however often the process has begun     *)
(* anew and whatever timestamps the samples have, a reader of the last n points gets the newest n *)
(* in the order they were pushed.                                                                 *)
THEOREM NewestAreReadHolds == SamplesSpec => []NewestAreRead
BY RingInvInit, RingInvNext, RingInvImplies, PTL DEF SamplesSpec
--------------------------------------------------------------------------------
\* A nonempty set of numbers has a smallest one.
LEMMA LeastNumber ==
    ASSUME NEW T \in SUBSET Nat, T # {}
    PROVE  \E n \in T : \A m \in T : n <= m
<1>1. \E n \in T : \A m \in T : <<m, n>> \notin OpToRel(<, Nat)
    BY WFMin, NatLessThanWellFounded, ZenonT(30)
<1>2. PICK n \in T : \A m \in T : <<m, n>> \notin OpToRel(<, Nat)
    BY <1>1
<1>3. ASSUME NEW m \in T PROVE n <= m
    <2>1. <<m, n>> \in Nat \X Nat /\ ~(<<m, n>>[1] < <<m, n>>[2])
        BY <1>2, ZenonT(30) DEF OpToRel
    <2> QED
        BY <2>1
<1> QED
    BY <1>3

(***************************************************************************)
(* What a range reads.  The points are gone through one by one, and those  *)
(* that lie in the range are kept, in their order.                         *)
(***************************************************************************)
LiesIn(p, from, to) == p.at >= from /\ p.at <= to

\* What has been found among the first i points.
Finds(f, points, from, to) ==
    /\ f[0] = <<>>
    /\ \A i \in 1..Len(points) :
          f[i] = IF LiesIn(points[i], from, to) THEN Append(f[i - 1], points[i]) ELSE f[i - 1]

LEMMA FoundIs ==
    ASSUME NEW points \in Seq(Point), NEW from \in Int, NEW to \in Int
    PROVE  \E f : Finds(f, points, from, to) /\ PointsWithin(points, from, to) = f[Len(points)]
<1> DEFINE Is(f, n) == f = [i \in 0..n |->
                              IF i = 0 THEN <<>>
                              ELSE IF LiesIn(points[i], from, to) THEN Append(f[i - 1], points[i])
                              ELSE f[i - 1]]
<1>1. \A n \in Nat : \E f : Is(f, n)
    <2> SUFFICES ASSUME {n \in Nat : ~ \E f : Is(f, n)} # {} PROVE FALSE
        OBVIOUS
    <2>1. PICK n \in {k \in Nat : ~ \E f : Is(f, k)} : \A k \in {i \in Nat : ~ \E f : Is(f, i)} : n <= k
        <3>1. {k \in Nat : ~ \E f : Is(f, k)} \in SUBSET Nat
            OBVIOUS
        <3> HIDE DEF Is
        <3> QED
            BY <3>1, LeastNumber
    <2>2. n # 0
        <3>1. Is([i \in 0..0 |-> <<>>], 0)
            OBVIOUS
        <3> QED
            BY <2>1, <3>1
    <2>3. n - 1 \in Nat /\ ~(n <= n - 1)
        BY <2>1, <2>2
    <2>4. PICK f : Is(f, n - 1)
        BY <2>1, <2>3
    <2> DEFINE g == [i \in 0..n |-> IF i = 0 THEN <<>>
                                    ELSE IF LiesIn(points[i], from, to) THEN Append(f[i - 1], points[i])
                                    ELSE f[i - 1]]
    <2>5. ASSUME NEW i \in 0..(n - 1) PROVE g[i] = f[i]
        <3>1. i \in 0..n
            BY <2>3
        <3>2. f[i] = IF i = 0 THEN <<>>
                     ELSE IF LiesIn(points[i], from, to) THEN Append(f[i - 1], points[i])
                     ELSE f[i - 1]
            BY <2>4
        <3> QED
            BY <3>1, <3>2
    <2>6. Is(g, n)
        <3>1. ASSUME NEW i \in 0..n, i # 0 PROVE g[i - 1] = f[i - 1]
            <4>1. i - 1 \in 0..(n - 1)
                BY <2>3, <3>1
            <4> QED
                BY <2>5, <4>1
        <3> HIDE DEF g
        <3>2. g = [i \in 0..n |-> IF i = 0 THEN <<>>
                                  ELSE IF LiesIn(points[i], from, to) THEN Append(g[i - 1], points[i])
                                  ELSE g[i - 1]]
            BY <3>1 DEF g
        <3> QED
            BY <3>2
    <2> QED
        BY <2>1, <2>6
<1>2. Len(points) \in Nat
    OBVIOUS
<1> DEFINE s == CHOOSE f : f = [i \in 0..Len(points) |->
                              IF i = 0 THEN <<>>
                              ELSE IF points[i].at >= from /\ points[i].at <= to
                                   THEN Append(f[i - 1], points[i])
                                   ELSE f[i - 1]]
<1>3. PointsWithin(points, from, to) = s[Len(points)]
    BY DEF PointsWithin
<1>4. Is(s, Len(points))
    <2>1. PICK f : Is(f, Len(points))
        BY <1>1, <1>2
    <2>2. f = [i \in 0..Len(points) |->
                              IF i = 0 THEN <<>>
                              ELSE IF points[i].at >= from /\ points[i].at <= to
                                   THEN Append(f[i - 1], points[i])
                                   ELSE f[i - 1]]
        BY <2>1, Zenon DEF LiesIn
    <2>3. s = [i \in 0..Len(points) |->
                              IF i = 0 THEN <<>>
                              ELSE IF points[i].at >= from /\ points[i].at <= to
                                   THEN Append(s[i - 1], points[i])
                                   ELSE s[i - 1]]
        BY <2>2
    <2> HIDE DEF s
    <2> QED
        BY <2>3, Zenon DEF LiesIn
<1> HIDE DEF s
<1>5. Finds(s, points, from, to)
    <2>1. 0 \in 0..Len(points) /\ \A i \in 1..Len(points) : i \in 0..Len(points) /\ i # 0
        BY <1>2
    <2>2. \A i \in 0..Len(points) :
              s[i] = IF i = 0 THEN <<>>
                     ELSE IF LiesIn(points[i], from, to) THEN Append(s[i - 1], points[i])
                     ELSE s[i - 1]
        BY <1>4
    <2> QED
        BY <2>1, <2>2, Zenon DEF Finds
<1> QED
    BY <1>3, <1>5

\* Where the points of read are among the first n points, of which read is the range.
FoundAt(place, read, points, n, from, to) ==
    /\ place \in [1..Len(read) -> 1..n]
    /\ \A i \in 1..Len(read) : read[i] = points[place[i]] /\ LiesIn(points[place[i]], from, to)
    /\ \A i, j \in 1..Len(read) : i < j => place[i] < place[j]
    /\ \A k \in 1..n : LiesIn(points[k], from, to) => \E i \in 1..Len(read) : place[i] = k

\* The first n points have been gone through, and read is what was found.
Sifted(read, points, n, from, to) ==
    read \in Seq(Point) /\ \E place : FoundAt(place, read, points, n, from, to)

LEMMA SiftOne ==
    ASSUME NEW points \in Seq(Point), NEW from \in Int, NEW to \in Int,
           NEW n \in 1..Len(points), NEW found, Sifted(found, points, n - 1, from, to)
    PROVE  /\ LiesIn(points[n], from, to) => Sifted(Append(found, points[n]), points, n, from, to)
           /\ ~LiesIn(points[n], from, to) => Sifted(found, points, n, from, to)
<1>0. /\ Len(points) \in Nat /\ n - 1 \in Nat /\ \A i \in 1..n : i \in 1..(n - 1) \/ i = n
      /\ \A i \in 1..(n - 1) : i \in 1..n /\ i < n
    OBVIOUS
<1>1. PICK place : FoundAt(place, found, points, n - 1, from, to)
    BY DEF Sifted
<1>2. found \in Seq(Point) /\ Len(found) \in Nat
    BY DEF Sifted
<1>3. /\ place \in [1..Len(found) -> 1..(n - 1)]
      /\ \A i \in 1..Len(found) : found[i] = points[place[i]] /\ LiesIn(points[place[i]], from, to)
      /\ \A i, j \in 1..Len(found) : i < j => place[i] < place[j]
      /\ \A k \in 1..(n - 1) : LiesIn(points[k], from, to) => \E i \in 1..Len(found) : place[i] = k
    BY <1>1 DEF FoundAt
<1>4. CASE ~LiesIn(points[n], from, to)
    <2>1. place \in [1..Len(found) -> 1..n]
        BY <1>0, <1>3
    <2>2. \A k \in 1..n : LiesIn(points[k], from, to) => \E i \in 1..Len(found) : place[i] = k
        BY <1>0, <1>3, <1>4
    <2>3. FoundAt(place, found, points, n, from, to)
        BY <1>3, <2>1, <2>2 DEF FoundAt
    <2> QED
        BY <1>2, <1>4, <2>3 DEF Sifted
<1>5. CASE LiesIn(points[n], from, to)
    <2>1. PICK p \in Point : p = points[n]
        BY ElementOfSeq
    <2>2. PICK read \in Seq(Point) :
              /\ read = Append(found, p) /\ Len(read) = Len(found) + 1 /\ read[Len(found) + 1] = p
              /\ \A k \in 1..Len(found) : read[k] = found[k]
        <3>1. /\ Append(found, p) \in Seq(Point) /\ Len(Append(found, p)) = Len(found) + 1
              /\ Append(found, p)[Len(found) + 1] = p
              /\ \A k \in 1..Len(found) : Append(found, p)[k] = found[k]
            BY <1>2, AppendProperties
        <3> QED
            BY <3>1
    <2> DEFINE m == Len(found)
               q == [i \in 1..(m + 1) |-> IF i = m + 1 THEN n ELSE place[i]]
    <2>3. /\ m \in Nat /\ Len(read) = m + 1 /\ m + 1 \in 1..(m + 1)
          /\ \A i \in 1..(m + 1) : i \in 1..m \/ i = m + 1
          /\ \A i \in 1..m : i \in 1..(m + 1) /\ i # m + 1
        BY <1>2, <2>2
    <2>4. /\ q \in [1..(m + 1) -> 1..n] /\ q[m + 1] = n
          /\ \A i \in 1..m : q[i] = place[i] /\ place[i] \in 1..(n - 1)
        <3>1. \A i \in 1..m : place[i] \in 1..(n - 1) /\ place[i] \in 1..n
            BY <1>0, <1>3
        <3>2. n \in 1..n
            BY <1>0
        <3>3. \A i \in 1..(m + 1) : (IF i = m + 1 THEN n ELSE place[i]) \in 1..n
            BY <2>3, <3>1, <3>2
        <3> QED
            BY <2>3, <3>1, <3>3
    <2> HIDE DEF q
    <2>5. \A i \in 1..(m + 1) : read[i] = points[q[i]] /\ LiesIn(points[q[i]], from, to)
        <3> TAKE i \in 1..(m + 1)
        <3>1. CASE i \in 1..m
            BY <1>3, <2>2, <2>4, <3>1
        <3>2. CASE i = m + 1
            BY <1>5, <2>1, <2>2, <2>4, <3>2
        <3> QED
            BY <2>3, <3>1, <3>2
    <2>6. ASSUME NEW i \in 1..(m + 1), NEW j \in 1..(m + 1), i < j PROVE q[i] < q[j]
        <3>1. i \in 1..m
            BY <2>3, <2>6
        <3>2. CASE j \in 1..m
            BY <1>3, <2>4, <2>6, <3>1, <3>2
        <3>3. CASE j = m + 1
            BY <1>0, <2>4, <3>1, <3>3
        <3> QED
            BY <2>3, <3>2, <3>3
    <2>7. ASSUME NEW k \in 1..n, LiesIn(points[k], from, to)
          PROVE  \E i \in 1..(m + 1) : q[i] = k
        <3>1. CASE k \in 1..(n - 1)
            <4>1. PICK i \in 1..m : place[i] = k
                BY <1>3, <2>7, <3>1
            <4> QED
                BY <2>3, <2>4, <4>1
        <3>2. CASE k = n
            BY <2>3, <2>4, <3>2
        <3> QED
            BY <1>0, <3>1, <3>2
    <2> HIDE DEF m
    <2>8. FoundAt(q, read, points, n, from, to)
        BY <2>3, <2>4, <2>5, <2>6, <2>7 DEF FoundAt
    <2>9. Sifted(read, points, n, from, to)
        BY <2>8 DEF Sifted
    <2> QED
        BY <1>5, <2>1, <2>2, <2>9
<1> QED
    BY <1>4, <1>5

\* A range of points is the points that lie in it, each in its place.
LEMMA RangeIs ==
    ASSUME NEW points \in Seq(Point), NEW from \in Int, NEW to \in Int
    PROVE  Sifted(PointsWithin(points, from, to), points, Len(points), from, to)
<1>1. PICK f : Finds(f, points, from, to) /\ PointsWithin(points, from, to) = f[Len(points)]
    BY FoundIs
<1>2. Len(points) \in Nat
    OBVIOUS
<1> DEFINE Good(n) == Sifted(f[n], points, n, from, to)
<1>3. \A n \in 0..Len(points) : Good(n)
    <2> SUFFICES ASSUME {n \in 0..Len(points) : ~Good(n)} # {} PROVE FALSE
        OBVIOUS
    <2>1. PICK n \in {k \in 0..Len(points) : ~Good(k)} : \A k \in {i \in 0..Len(points) : ~Good(i)} : n <= k
        <3>1. {k \in 0..Len(points) : ~Good(k)} \in SUBSET Nat
            BY <1>2
        <3> HIDE DEF Good
        <3> QED
            BY <3>1, LeastNumber
    <2>2. n # 0
        <3>1. Sifted(<<>>, points, 0, from, to)
            <4> DEFINE place == [i \in 1..0 |-> i]
            <4>1. 1..0 = {} /\ Len(<<>>) = 0 /\ <<>> \in Seq(Point)
                OBVIOUS
            <4>2. place \in [1..0 -> 1..0]
                OBVIOUS
            <4> HIDE DEF place
            <4>3. FoundAt(place, <<>>, points, 0, from, to)
                BY <4>1, <4>2 DEF FoundAt
            <4> QED
                BY <4>1, <4>3 DEF Sifted
        <3> QED
            BY <1>1, <2>1, <3>1 DEF Finds
    <2>3. n \in 1..Len(points) /\ n - 1 \in 0..Len(points) /\ ~(n <= n - 1)
        BY <1>2, <2>1, <2>2
    <2>4. Good(n - 1)
        BY <2>1, <2>3
    <2>5. f[n] = IF LiesIn(points[n], from, to) THEN Append(f[n - 1], points[n]) ELSE f[n - 1]
        BY <1>1, <2>3 DEF Finds
    <2>6. Good(n)
        BY <2>3, <2>4, <2>5, SiftOne
    <2> QED
        BY <2>1, <2>6
<1> QED
    BY <1>1, <1>2, <1>3

(***************************************************************************)
(* An aggregate.  Of some points one has the greatest value; and the k-th  *)
(* of the sorted values is one of them, with so many below it and so many  *)
(* up to it.                                                               *)
(***************************************************************************)
PointsBelow(points, v) == {i \in 1..Len(points) : points[i].value < v}
PointsUpTo(points, v)  == {i \in 1..Len(points) : points[i].value <= v}

LEMMA GreatestPoint ==
    ASSUME NEW points \in Seq(Point), NEW S \in SUBSET (1..Len(points)), S # {}
    PROVE  \E i \in S : \A j \in S : points[j].value <= points[i].value
<1> DEFINE Good(n) == \A T \in SUBSET (1..n) :
                         T # {} => \E i \in T : \A j \in T : points[j].value <= points[i].value
<1>1. Len(points) \in Nat /\ \A i \in 1..Len(points) : points[i].value \in Nat
    <2>1. ASSUME NEW i \in 1..Len(points) PROVE points[i].value \in Nat
        <3>1. points[i] \in Point
            BY ElementOfSeq
        <3> QED
            BY <3>1, SamplesAssumption DEF Point
    <2> QED
        BY <2>1
<1>2. \A n \in 0..Len(points) : Good(n)
    <2> SUFFICES ASSUME {n \in 0..Len(points) : ~Good(n)} # {} PROVE FALSE
        OBVIOUS
    <2>1. PICK n \in {k \in 0..Len(points) : ~Good(k)} : \A k \in {i \in 0..Len(points) : ~Good(i)} : n <= k
        <3>1. {k \in 0..Len(points) : ~Good(k)} \in SUBSET Nat
            BY <1>1
        <3> HIDE DEF Good
        <3> QED
            BY <3>1, LeastNumber
    <2>2. n # 0
        <3>1. 1..0 = {}
            OBVIOUS
        <3> QED
            BY <2>1, <3>1
    <2>3. n \in 1..Len(points) /\ n - 1 \in 0..Len(points) /\ ~(n <= n - 1)
        BY <1>1, <2>1, <2>2
    <2>4. Good(n - 1)
        BY <2>1, <2>3
    <2>5. ASSUME NEW T \in SUBSET (1..n), T # {}
          PROVE  \E i \in T : \A j \in T : points[j].value <= points[i].value
        <3>1. T \ {n} \in SUBSET (1..(n - 1))
            <4>1. \A i \in 1..n : i # n => i \in 1..(n - 1)
                BY <1>1, <2>3
            <4> QED
                BY <4>1
        <3>2. \A j \in T : points[j].value \in Nat
            BY <1>1, <2>3
        <3>3. CASE T \ {n} = {}
            <4>1. T = {n}
                BY <2>5, <3>3
            <4> QED
                BY <3>2, <4>1
        <3>4. CASE T \ {n} # {}
            <4>1. PICK i \in T \ {n} : \A j \in T \ {n} : points[j].value <= points[i].value
                BY <2>4, <3>1, <3>4
            <4>2. CASE n \notin T
                BY <4>1, <4>2
            <4>3. CASE n \in T /\ points[n].value <= points[i].value
                BY <4>1, <4>3
            <4>4. CASE n \in T /\ ~(points[n].value <= points[i].value)
                <5>1. \A j \in T : points[j].value <= points[n].value
                    <6>1. ASSUME NEW j \in T PROVE points[j].value <= points[n].value
                        <7>1. CASE j = n
                            BY <3>2, <7>1
                        <7>2. CASE j # n
                            BY <3>2, <4>1, <4>4, <7>2
                        <7> QED
                            BY <7>1, <7>2
                    <6> QED
                        BY <6>1
                <5> QED
                    BY <4>4, <5>1
            <4> QED
                BY <4>2, <4>3, <4>4
        <3> QED
            BY <3>3, <3>4
    <2> QED
        BY <2>1, <2>5
<1>3. Good(Len(points))
    <2>1. Len(points) \in 0..Len(points)
        BY <1>1
    <2> HIDE DEF Good
    <2> QED
        BY <1>2, <2>1
<1> QED
    BY <1>3

LEMMA SortedIs ==
    ASSUME NEW points \in Seq(Point), NEW k \in 1..Len(points)
    PROVE  /\ \E i \in 1..Len(points) : SortedValues(points)[k] = points[i].value
           /\ SortedValues(points)[k] \in Nat
           /\ Cardinality(PointsBelow(points, SortedValues(points)[k])) < k
           /\ k <= Cardinality(PointsUpTo(points, SortedValues(points)[k]))
<1> DEFINE V == {points[i].value : i \in 1..Len(points)}
           Reached == {v \in V : k <= Cardinality(PointsUpTo(points, v))}
<1>1. Len(points) \in Nat /\ \A i \in 1..Len(points) : points[i].value \in Nat
    <2>1. ASSUME NEW i \in 1..Len(points) PROVE points[i].value \in Nat
        <3>1. points[i] \in Point
            BY ElementOfSeq
        <3> QED
            BY <3>1, SamplesAssumption DEF Point
    <2> QED
        BY <2>1
<1>2. IsFiniteSet(1..Len(points)) /\ Cardinality(1..Len(points)) = Len(points)
    <2>1. 1 \in Int /\ Len(points) \in Int /\ Len(points) >= 1
        BY <1>1
    <2> QED
        BY <2>1, FS_Interval
<1>3. \A T \in SUBSET (1..Len(points)) : Cardinality(T) \in Nat
    BY <1>2, FS_Subset, FS_CardinalityType
<1>4. Reached # {}
    <2>1. PICK i \in 1..Len(points) : \A j \in 1..Len(points) : points[j].value <= points[i].value
        <3>1. 1..Len(points) # {}
            OBVIOUS
        <3> QED
            BY <3>1, GreatestPoint
    <2>2. PointsUpTo(points, points[i].value) = 1..Len(points)
        BY <2>1 DEF PointsUpTo
    <2>3. points[i].value \in Reached
        BY <1>1, <1>2, <2>2
    <2> QED
        BY <2>3
<1>5. PICK v \in Reached : \A w \in Reached : v <= w
    <2>1. Reached \in SUBSET Nat
        BY <1>1
    <2> HIDE DEF Reached
    <2> QED
        BY <1>4, <2>1, LeastNumber
<1>6. Cardinality(PointsBelow(points, v)) < k
    <2> SUFFICES ASSUME ~(Cardinality(PointsBelow(points, v)) < k) PROVE FALSE
        OBVIOUS
    <2>1. PointsBelow(points, v) \in SUBSET (1..Len(points))
        BY DEF PointsBelow
    <2>2. PointsBelow(points, v) # {}
        <3>1. Cardinality({}) = 0 /\ 0 < k
            BY <1>1, FS_EmptySet
        <3> QED
            BY <3>1
    <2>3. PICK i \in PointsBelow(points, v) :
              \A j \in PointsBelow(points, v) : points[j].value <= points[i].value
        BY <2>1, <2>2, GreatestPoint
    <2>4. points[i].value < v /\ i \in 1..Len(points) /\ v \in Nat
        BY <1>1, <1>5, <2>3 DEF PointsBelow
    <2>5. PointsBelow(points, v) \subseteq PointsUpTo(points, points[i].value)
        BY <1>1, <2>3, <2>4 DEF PointsBelow, PointsUpTo
    <2>6. PointsUpTo(points, points[i].value) \in SUBSET (1..Len(points))
        BY DEF PointsUpTo
    <2>7. Cardinality(PointsBelow(points, v)) <= Cardinality(PointsUpTo(points, points[i].value))
        BY <1>2, <2>5, <2>6, FS_Subset
    <2>8. k <= Cardinality(PointsUpTo(points, points[i].value))
        BY <1>3, <2>1, <2>6, <2>7
    <2>9. points[i].value \in Reached
        BY <2>4, <2>8
    <2> QED
        BY <1>1, <1>5, <2>4, <2>9
<1>7. /\ SortedValues(points)[k] \in V
      /\ Cardinality(PointsBelow(points, SortedValues(points)[k])) < k
      /\ k <= Cardinality(PointsUpTo(points, SortedValues(points)[k]))
    <2>1. SortedValues(points)[k] = CHOOSE w \in V : /\ Cardinality(PointsBelow(points, w)) < k
                                                     /\ k <= Cardinality(PointsUpTo(points, w))
        BY DEF SortedValues, PointsBelow, PointsUpTo
    <2>2. v \in V /\ k <= Cardinality(PointsUpTo(points, v))
        BY <1>5
    <2> HIDE DEF V
    <2> QED
        BY <1>6, <2>1, <2>2
<1> QED
    BY <1>1, <1>7

\* What a row holds of its points.
RowTells(row, points) ==
    /\ row.count = Len(points) /\ row.sum = Total(points)
    /\ {row.min, row.max, row.p95} \subseteq {p.value : p \in ToSet(points)}
    /\ \A p \in ToSet(points) : row.min <= p.value /\ p.value <= row.max
    /\ 95 * (Len(points) - 1) < 100 * Cardinality({i \in 1..Len(points) : points[i].value <= row.p95})

LEMMA AggregateTells ==
    ASSUME NEW points \in Seq(Point), points # <<>>
    PROVE  RowTells(Aggregate(points), points)
<1> DEFINE n == Len(points)
           sorted == SortedValues(points)
           k == (95 * (n - 1)) \div 100 + 1
<1>0. PICK row : row = Aggregate(points)
    OBVIOUS
<1>1. n \in Nat /\ n >= 1
    BY EmptySeq
<1>2. k \in 1..n /\ 95 * (n - 1) < 100 * k
    <2>1. PICK q \in Int : q = (95 * (n - 1)) \div 100
        BY <1>1
    <2>2. 100 * q <= 95 * (n - 1) /\ 95 * (n - 1) < 100 * q + 100
        BY <1>1, <2>1
    <2> QED
        BY <1>1, <2>1, <2>2
<1>3. /\ row.count = n /\ row.sum = Total(points) /\ row.min = sorted[1]
      /\ row.max = sorted[n] /\ row.p95 = sorted[k]
    BY <1>0 DEF Aggregate
<1>4. 1 \in 1..n /\ n \in 1..n
    BY <1>1
<1> HIDE DEF k
<1>5. ASSUME NEW j \in 1..n
      PROVE  /\ sorted[j] \in {p.value : p \in ToSet(points)} /\ sorted[j] \in Nat
             /\ Cardinality(PointsBelow(points, sorted[j])) < j
             /\ j <= Cardinality(PointsUpTo(points, sorted[j]))
    <2>1. PICK i \in 1..n : sorted[j] = points[i].value
        BY SortedIs
    <2>2. points[i] \in ToSet(points)
        BY DEF ToSet
    <2> QED
        BY <2>1, <2>2, SortedIs
<1>6. IsFiniteSet(1..n) /\ Cardinality(1..n) = n
    BY <1>1, FS_Interval
<1>7. ASSUME NEW p \in ToSet(points) PROVE row.min <= p.value /\ p.value <= row.max
    <2>1. PICK i \in 1..n : p = points[i]
        BY DEF ToSet
    <2>2. p.value \in Nat /\ row.min \in Nat /\ row.max \in Nat
        <3>1. p \in Point
            BY <2>1, ElementOfSeq
        <3> QED
            BY <1>3, <1>4, <1>5, <3>1, SamplesAssumption DEF Point
    <2>3. row.min <= p.value
        <3>1. SUFFICES ASSUME ~(row.min <= p.value) PROVE FALSE
            OBVIOUS
        <3>2. i \in PointsBelow(points, sorted[1]) /\ PointsBelow(points, sorted[1]) \in SUBSET (1..n)
            BY <1>3, <2>1, <2>2, <3>1 DEF PointsBelow
        <3>3. IsFiniteSet(PointsBelow(points, sorted[1]))
            BY <1>6, <3>2, FS_Subset
        <3>4. Cardinality(PointsBelow(points, sorted[1])) \in Nat
              /\ Cardinality(PointsBelow(points, sorted[1])) < 1
            BY <1>4, <1>5, <3>3, FS_CardinalityType
        <3>5. PointsBelow(points, sorted[1]) = {}
            BY <3>3, <3>4, FS_EmptySet
        <3> QED
            BY <3>2, <3>5
    <2>4. p.value <= row.max
        <3>1. PointsUpTo(points, sorted[n]) \in SUBSET (1..n)
            BY DEF PointsUpTo
        <3>2. /\ Cardinality(PointsUpTo(points, sorted[n])) <= n
              /\ (Cardinality(PointsUpTo(points, sorted[n])) = n => PointsUpTo(points, sorted[n]) = 1..n)
              /\ Cardinality(PointsUpTo(points, sorted[n])) \in Nat
            BY <1>6, <3>1, FS_Subset, FS_CardinalityType
        <3>3. PointsUpTo(points, sorted[n]) = 1..n
            BY <1>1, <1>4, <1>5, <3>2
        <3> QED
            BY <1>3, <2>1, <3>3 DEF PointsUpTo
    <2> QED
        BY <2>3, <2>4
<1>8. 95 * (n - 1) < 100 * Cardinality({i \in 1..n : points[i].value <= row.p95})
    <2>1. {i \in 1..n : points[i].value <= row.p95} = PointsUpTo(points, sorted[k])
        BY <1>3 DEF PointsUpTo
    <2>2. PointsUpTo(points, sorted[k]) \in SUBSET (1..n)
        BY DEF PointsUpTo
    <2>3. Cardinality(PointsUpTo(points, sorted[k])) \in Nat
        BY <1>6, <2>2, FS_Subset, FS_CardinalityType
    <2>4. k <= Cardinality(PointsUpTo(points, sorted[k]))
        BY <1>2, <1>5
    <2> QED
        <3>1. PICK c \in Nat : c = Cardinality(PointsUpTo(points, sorted[k]))
            BY <2>3
        <3>2. PICK j \in 1..n : j = k
            BY <1>2
        <3>3. j <= c /\ 95 * (n - 1) < 100 * j
            BY <1>2, <2>4, <3>1, <3>2
        <3> HIDE DEF n
        <3>4. 95 * (n - 1) < 100 * c
            BY <1>1, <3>1, <3>2, <3>3
        <3> QED
            BY <2>1, <3>1, <3>4
<1>9. {row.min, row.max, row.p95} \subseteq {p.value : p \in ToSet(points)}
    BY <1>2, <1>3, <1>4, <1>5
<1> QED
    BY <1>0, <1>3, <1>7, <1>8, <1>9 DEF RowTells

(***************************************************************************)
(* The invariant of ranges and rows: a row is the aggregate of samples     *)
(* that lie in the range its hour was read with, whenever it was read.     *)
(***************************************************************************)
TickerTyped ==
    clock \in 0..SamplesUntil /\ ticker \in [at : {"waiting", "reading", "pruning"}, hour : Hours]

RowsInv ==
    /\ hourly = [h \in Hours |-> hourly[h]] /\ rolledUp \in [Hours -> Seq(Point)]
    /\ \A h \in Hours : hourly[h] # NoHour =>
          rolledUp[h] # <<>> /\ hourly[h] = Aggregate(rolledUp[h])
    /\ \A h \in Hours : \A i \in 1..Len(rolledUp[h]) :
          LiesIn(rolledUp[h][i], h * HourLength, h * HourLength + HourLength)

SamplesInv == RingInv /\ TickerTyped /\ RowsInv

\* The hour of a time that lies between an hour's first moment and that of the next.
LEMMA HourIs ==
    ASSUME NEW h \in Nat, NEW t \in Nat
    PROVE  /\ h * HourLength <= t /\ t < h * HourLength + HourLength => HourOf(t) = h
           /\ (h + 1) * HourLength = h * HourLength + HourLength
           /\ HourOf(t) \in Nat /\ h * HourLength \in Nat
<1>1. HourLength \in Nat \ {0}
    BY SamplesAssumption
<1>2. PICK a \in Nat : a = t \div HourLength /\ a * HourLength <= t /\ t < a * HourLength + HourLength
    BY <1>1
<1>3. \A b, c \in Nat : b < c => b * HourLength + HourLength <= c * HourLength
    BY <1>1
<1>4. ASSUME h * HourLength <= t, t < h * HourLength + HourLength PROVE a = h
    <2>1. h * HourLength \in Nat /\ a * HourLength \in Nat
        BY <1>1
    <2>2. ~(a < h) /\ ~(h < a)
        BY <1>1, <1>2, <1>3, <1>4, <2>1
    <2> QED
        BY <2>2
<1>5. (h + 1) * HourLength = h * HourLength + HourLength /\ h * HourLength \in Nat
    BY <1>1
<1> QED
    BY <1>2, <1>4, <1>5 DEF HourOf

LEMMA HoursAre ==
    ASSUME NEW t \in 0..SamplesUntil
    PROVE  HourOf(t) \in Hours /\ Hours \in SUBSET Nat
<1>1. /\ t \in Nat /\ SamplesUntil \in Nat /\ t <= SamplesUntil /\ HourLength \in Nat \ {0}
    BY SamplesAssumption
<1>2. \A a, b \in Nat : a < b => a * HourLength + HourLength <= b * HourLength
    BY <1>1
<1>3. PICK a \in Nat, b \in Nat : a = t \div HourLength /\ b = SamplesUntil \div HourLength
    BY <1>1
<1>4. a * HourLength <= t /\ SamplesUntil < b * HourLength + HourLength
    BY <1>1, <1>3
<1>5. a * HourLength \in Nat /\ b * HourLength \in Nat
    BY <1>1
<1>6. a <= b
    BY <1>1, <1>2, <1>4, <1>5
<1> QED
    BY <1>3, <1>6 DEF Hours, HourOf

LEMMA PointsAreTyped ==
    ASSUME NEW points \in Seq(Point), NEW i \in 1..Len(points)
    PROVE  points[i] \in Point /\ points[i].at \in Nat /\ points[i].value \in Nat
<1>1. points[i] \in Point
    BY ElementOfSeq
<1> QED
    BY <1>1, SamplesAssumption DEF Point

LEMMA SamplesInvInit == SamplesInit => SamplesInv
<1> SUFFICES ASSUME SamplesInit PROVE SamplesInv
    OBVIOUS
<1>1. TickerTyped
    <2>1. 0 \in 0..SamplesUntil /\ 0 \in Hours
        <3>1. SamplesUntil \in Nat /\ HourLength \in Nat \ {0}
            BY SamplesAssumption
        <3>2. SamplesUntil \div HourLength \in Nat
            BY <3>1
        <3> QED
            BY <3>1, <3>2 DEF Hours
    <2> QED
        BY <2>1 DEF SamplesInit, TickerTyped
<1>2. RowsInv
    <2>1. <<>> \in Seq(Point) /\ Len(<<>>) = 0 /\ 1..0 = {}
        OBVIOUS
    <2> QED
        BY <2>1 DEF SamplesInit, RowsInv
<1> QED
    BY <1>1, <1>2, RingInvInit DEF SamplesInv

\* The buffer holds the newest of what was pushed.
LEMMA StoredIs ==
    ASSUME RingInv
    PROVE  /\ GetLastN(ring.size) = Newest(Stored) /\ Newest(Stored) \in Seq(Point)
           /\ Len(Newest(Stored)) = Stored /\ Stored \in 0..Len(history) /\ Stored \in 0..Capacity
           /\ \A i \in 1..Stored : /\ Newest(Stored)[i] = history[(Len(history) - Stored) + i]
                                   /\ (Len(history) - Stored) + i \in 1..Len(history)
<1>1. Capacity \in Nat /\ history \in Seq(Point) /\ Len(history) \in Nat
    BY CapacityIs DEF RingInv, RingTyped
<1>2. PICK m \in 0..Len(history) : m = Stored /\ m \in 0..Capacity
    BY <1>1 DEF Stored
<1>3. GetLastN(ring.size) = Newest(Stored)
    <2>1. ring.size = m /\ m \in 0..(Capacity + 1)
        BY <1>1, <1>2 DEF RingInv
    <2>2. GetLastN(m) = Newest(IF m > Stored THEN Stored ELSE m)
        BY <2>1, RingInvImplies DEF NewestAreRead
    <2> QED
        BY <1>1, <1>2, <2>1, <2>2
<1>4. Newest(m) = [i \in 1..m |-> history[(Len(history) - m) + i]]
    <2>1. Newest(m) = [i \in 1..(1 + Len(history) - (Len(history) - m + 1))
                          |-> history[i + (Len(history) - m + 1) - 1]]
        BY DEF Newest
    <2>2. 1 + Len(history) - (Len(history) - m + 1) = m
        BY <1>1, <1>2
    <2>3. \A i \in 1..m : i + (Len(history) - m + 1) - 1 = (Len(history) - m) + i
        BY <1>1, <1>2
    <2> QED
        BY <2>1, <2>2, <2>3
<1>5. \A i \in 1..m : /\ (Len(history) - m) + i \in 1..Len(history)
                      /\ history[(Len(history) - m) + i] \in Point
    <2>1. \A i \in 1..m : (Len(history) - m) + i \in 1..Len(history)
        BY <1>1, <1>2
    <2> QED
        BY <1>1, <2>1, ElementOfSeq
<1>6. Newest(m) \in Seq(Point) /\ Len(Newest(m)) = m
    <2> DEFINE f == [i \in 1..m |-> history[(Len(history) - m) + i]]
    <2>1. f \in [1..m -> Point]
        BY <1>5
    <2>2. m \in Nat
        BY <1>2
    <2> HIDE DEF f
    <2>3. f \in Seq(Point) /\ Len(f) = m
        BY <2>1, <2>2, SeqDef, LenProperties
    <2> QED
        BY <1>4, <2>3 DEF f
<1> QED
    BY <1>2, <1>3, <1>4, <1>5, <1>6

LEMMA TickerStays == SamplesInv /\ [SamplesNext]_sampleVars => TickerTyped'
<1> SUFFICES ASSUME SamplesInv, [SamplesNext]_sampleVars PROVE TickerTyped'
    OBVIOUS
<1>0. clock \in 0..SamplesUntil /\ ticker \in [at : {"waiting", "reading", "pruning"}, hour : Hours]
    BY DEF SamplesInv, TickerTyped
<1>1. ASSUME NEW h \in Hours, TakeTick(h) PROVE TickerTyped'
    BY <1>0, <1>1 DEF TakeTick, TickerTyped
<1>2. CASE DownsampleAndSave
    BY <1>0, <1>2 DEF DownsampleAndSave, TickerTyped
<1>3. CASE PruneExpiredMetrics
    BY <1>0, <1>3 DEF PruneExpiredMetrics, TickerTyped
<1>4. CASE Restart
    <2>1. HourOf(clock) \in Hours
        BY <1>0, HoursAre
    <2> QED
        BY <1>0, <1>4, <2>1 DEF Restart, TickerTyped
<1>5. CASE PassTime
    <2>1. SamplesUntil \in Nat
        BY SamplesAssumption
    <2>2. clock' \in 0..SamplesUntil /\ ticker' = ticker
        BY <1>0, <1>5, <2>1 DEF PassTime
    <2> QED
        BY <1>0, <2>2 DEF TickerTyped
<1>6. ASSUME NEW at \in 0..SamplesUntil, NEW value \in Values, Push(at, value) PROVE TickerTyped'
    BY <1>0, <1>6 DEF Push, TickerTyped
<1>7. CASE UNCHANGED sampleVars
    BY <1>0, <1>7 DEF sampleVars, TickerTyped
<1> QED
    BY <1>1, <1>2, <1>3, <1>4, <1>5, <1>6, <1>7 DEF SamplesNext

\* What the goroutine reads for an hour lies in that hour's range.
LEMMA HourIsRead ==
    ASSUME SamplesInv, NEW h \in Hours,
           NEW points, points = PointsWithin(Newest(Stored), h * HourLength, h * HourLength + HourLength)
    PROVE  /\ points \in Seq(Point)
           /\ \A i \in 1..Len(points) :
                 LiesIn(points[i], h * HourLength, h * HourLength + HourLength)
           /\ DownsampleHour(h * HourLength) # NoHour =>
                 points # <<>> /\ DownsampleHour(h * HourLength) = Aggregate(points)
<1>1. PICK start \in Int, end \in Int : start = h * HourLength /\ end = h * HourLength + HourLength
    <2>1. h \in Nat /\ HourLength \in Nat
        BY HoursAre, SamplesAssumption DEF SamplesInv, TickerTyped
    <2> QED
        BY <2>1
<1>2. PICK tail \in Seq(Point) : tail = Newest(Stored)
    BY StoredIs DEF SamplesInv
<1>3. Sifted(points, tail, Len(tail), start, end)
    BY <1>1, <1>2, RangeIs
<1>4. PICK place : FoundAt(place, points, tail, Len(tail), start, end)
    BY <1>3 DEF Sifted
<1>5. \A i \in 1..Len(points) : LiesIn(points[i], start, end)
    BY <1>4 DEF FoundAt
<1>6. GetRange(start, end) = points
    BY <1>1, StoredIs DEF GetRange, SamplesInv
<1>7. DownsampleHour(start) = IF points = <<>> THEN NoHour ELSE Aggregate(points)
    BY <1>1, <1>6 DEF DownsampleHour
<1> QED
    BY <1>1, <1>3, <1>5, <1>7 DEF Sifted

LEMMA RowsStay == SamplesInv /\ [SamplesNext]_sampleVars => RowsInv'
<1> SUFFICES ASSUME SamplesInv, [SamplesNext]_sampleVars PROVE RowsInv'
    OBVIOUS
<1>0. RowsInv
    BY DEF SamplesInv
<1>1. CASE UNCHANGED <<hourly, rolledUp>>
    BY <1>0, <1>1 DEF RowsInv
<1>2. CASE DownsampleAndSave
    <2>1. PICK h \in Hours : h = ticker.hour
        BY DEF SamplesInv, TickerTyped
    <2>2. PICK row, points :
              /\ row = DownsampleHour(h * HourLength)
              /\ points = PointsWithin(Newest(Stored), h * HourLength, h * HourLength + HourLength)
        OBVIOUS
    <2>3. /\ points \in Seq(Point)
          /\ \A i \in 1..Len(points) : LiesIn(points[i], h * HourLength, h * HourLength + HourLength)
          /\ row # NoHour => points # <<>> /\ row = Aggregate(points)
        BY <2>2, HourIsRead
    <2>4. \/ UNCHANGED <<hourly, rolledUp>>
          \/ /\ row # NoHour /\ hourly' = [hourly EXCEPT ![h] = row]
             /\ rolledUp' = [rolledUp EXCEPT ![h] = points]
        BY <1>2, <2>1, <2>2 DEF DownsampleAndSave
    <2>5. ASSUME row # NoHour, hourly' = [hourly EXCEPT ![h] = row],
                 rolledUp' = [rolledUp EXCEPT ![h] = points]
          PROVE  RowsInv'
        <3>0. hourly' = [k \in Hours |-> hourly'[k]] /\ hourly'[h] = row
            <4>1. hourly' = [k \in Hours |-> IF k = h THEN row ELSE hourly[k]]
                BY <1>0, <2>5 DEF RowsInv
            <4> QED
                BY <4>1
        <3>1. rolledUp' \in [Hours -> Seq(Point)] /\ rolledUp'[h] = points
            BY <1>0, <2>3, <2>5 DEF RowsInv
        <3>2. \A k \in Hours : k # h => rolledUp'[k] = rolledUp[k]
            BY <1>0, <2>5 DEF RowsInv
        <3>3. \A k \in Hours : hourly'[k] = IF k = h THEN row ELSE hourly[k]
            <4>1. hourly' = [k \in Hours |-> IF k = h THEN row ELSE hourly[k]]
                BY <1>0, <2>5 DEF RowsInv
            <4> QED
                BY <4>1
        <3>4. ASSUME NEW k \in Hours, hourly'[k] # NoHour
              PROVE  rolledUp'[k] # <<>> /\ hourly'[k] = Aggregate(rolledUp'[k])
            <4>1. CASE k = h
                BY <2>3, <2>5, <3>1, <3>3, <3>4, <4>1
            <4>2. CASE k # h
                BY <1>0, <3>2, <3>3, <3>4, <4>2 DEF RowsInv
            <4> QED
                BY <4>1, <4>2
        <3>5. ASSUME NEW k \in Hours, NEW i \in 1..Len(rolledUp'[k])
              PROVE  LiesIn(rolledUp'[k][i], k * HourLength, k * HourLength + HourLength)
            <4>1. CASE k = h
                BY <2>3, <3>1, <4>1
            <4>2. CASE k # h
                BY <1>0, <3>2, <4>2 DEF RowsInv
            <4> QED
                BY <4>1, <4>2
        <3> QED
            BY <3>0, <3>1, <3>4, <3>5 DEF RowsInv
    <2> QED
        BY <1>1, <2>4, <2>5
<1>3. CASE PruneExpiredMetrics
    <2>1. PICK kept \in [Hours -> BOOLEAN] :
              kept = [k \in Hours |-> clock <= (k + RowsKept) * HourLength]
        <3>1. \A k \in Hours : (clock <= (k + RowsKept) * HourLength) \in BOOLEAN
            OBVIOUS
        <3> QED
            BY <3>1
    <2>2. \/ UNCHANGED <<hourly, rolledUp>>
          \/ /\ hourly' = [k \in Hours |-> IF kept[k] THEN hourly[k] ELSE NoHour]
             /\ rolledUp' = [k \in Hours |-> IF kept[k] THEN rolledUp[k] ELSE <<>>]
        BY <1>3, <2>1 DEF PruneExpiredMetrics
    <2>3. ASSUME hourly' = [k \in Hours |-> IF kept[k] THEN hourly[k] ELSE NoHour],
                 rolledUp' = [k \in Hours |-> IF kept[k] THEN rolledUp[k] ELSE <<>>]
          PROVE  RowsInv'
        <3>1. <<>> \in Seq(Point) /\ Len(<<>>) = 0 /\ 1..0 = {}
            OBVIOUS
        <3>2. hourly' = [k \in Hours |-> hourly'[k]] /\ rolledUp' \in [Hours -> Seq(Point)]
            BY <1>0, <2>3, <3>1 DEF RowsInv
        <3>3. ASSUME NEW k \in Hours
              PROVE  /\ hourly'[k] # NoHour =>
                           rolledUp'[k] # <<>> /\ hourly'[k] = Aggregate(rolledUp'[k])
                     /\ \A i \in 1..Len(rolledUp'[k]) :
                           LiesIn(rolledUp'[k][i], k * HourLength, k * HourLength + HourLength)
            <4>1. CASE kept[k]
                <5>1. hourly'[k] = hourly[k] /\ rolledUp'[k] = rolledUp[k]
                    BY <2>3, <4>1
                <5> QED
                    BY <1>0, <5>1 DEF RowsInv
            <4>2. CASE ~kept[k]
                <5>1. hourly'[k] = NoHour /\ rolledUp'[k] = <<>>
                    BY <2>3, <4>2
                <5> QED
                    BY <3>1, <5>1
            <4> QED
                BY <4>1, <4>2
        <3> QED
            BY <3>2, <3>3 DEF RowsInv
    <2> QED
        BY <1>1, <2>2, <2>3
<1> QED
    BY <1>1, <1>2, <1>3 DEF SamplesNext, Push, TakeTick, Restart, PassTime, sampleVars

LEMMA SamplesInvNext == SamplesInv /\ [SamplesNext]_sampleVars => SamplesInv'
BY RingInvNext, TickerStays, RowsStay DEF SamplesInv

LEMMA SamplesInvImplies == SamplesInv => SamplesAreKept
<1> SUFFICES ASSUME SamplesInv PROVE NewestAreRead /\ RangesAreRead /\ RowsAreOfTheirHour
    BY DEF SamplesAreKept
<1>1. NewestAreRead
    BY RingInvImplies DEF SamplesInv
<1>2. ASSUME NEW from \in 0..SamplesUntil, NEW to \in 0..SamplesUntil
      PROVE  IsRangeOf(GetRange(from, to), Newest(Stored), from, to)
    <2>1. PICK tail \in Seq(Point) : tail = Newest(Stored)
        BY StoredIs DEF SamplesInv
    <2>2. PICK read : read = GetRange(from, to)
        OBVIOUS
    <2>3. PICK place : FoundAt(place, read, tail, Len(tail), from, to)
        <3>1. from \in Int /\ to \in Int
            BY SamplesAssumption
        <3>2. read = PointsWithin(tail, from, to)
            BY <2>1, <2>2, StoredIs DEF SamplesInv, GetRange
        <3> QED
            BY <3>1, <3>2, RangeIs DEF Sifted
    <2>4. \A k \in 1..Len(tail) : LiesIn(tail[k], from, to) <=> tail[k].at \in from..to
        <3>1. \A k \in 1..Len(tail) : tail[k].at \in Nat
            BY PointsAreTyped
        <3> QED
            BY <3>1, SamplesAssumption DEF LiesIn
    <2>5. /\ place \in [1..Len(read) -> 1..Len(tail)]
          /\ \A i \in 1..Len(read) : read[i] = tail[place[i]] /\ LiesIn(tail[place[i]], from, to)
          /\ \A i, j \in 1..Len(read) : i < j => place[i] < place[j]
          /\ \A k \in 1..Len(tail) : LiesIn(tail[k], from, to) => \E i \in 1..Len(read) : place[i] = k
        BY <2>3 DEF FoundAt
    <2>6. {place[i] : i \in 1..Len(read)} = {k \in 1..Len(tail) : tail[k].at \in from..to}
        <3>1. ASSUME NEW i \in 1..Len(read)
              PROVE  place[i] \in {k \in 1..Len(tail) : tail[k].at \in from..to}
            BY <2>4, <2>5
        <3>2. ASSUME NEW k \in 1..Len(tail), tail[k].at \in from..to
              PROVE  k \in {place[i] : i \in 1..Len(read)}
            <4>1. PICK i \in 1..Len(read) : place[i] = k
                BY <2>4, <2>5, <3>2
            <4> QED
                BY <4>1
        <3> QED
            BY <3>1, <3>2
    <2> QED
        BY <2>1, <2>2, <2>5, <2>6 DEF IsRangeOf
<1>3. RowsAreOfTheirHour
    <2>1. ASSUME NEW h \in Hours, hourly[h] # NoHour
          PROVE  /\ RowTells(hourly[h], rolledUp[h])
                 /\ \A p \in ToSet(rolledUp[h]) : HourOf(p.at) = h \/ p.at = (h + 1) * HourLength
        <3>1. PICK points \in Seq(Point) : points = rolledUp[h]
            BY DEF SamplesInv, RowsInv
        <3>2. RowTells(hourly[h], points)
            BY <2>1, <3>1, AggregateTells DEF SamplesInv, RowsInv
        <3>3. h \in Nat /\ HourLength \in Nat
            BY HoursAre, SamplesAssumption DEF SamplesInv, TickerTyped
        <3>4. ASSUME NEW p \in ToSet(points)
              PROVE  HourOf(p.at) = h \/ p.at = (h + 1) * HourLength
            <4>1. PICK i \in 1..Len(points) : p = points[i]
                BY DEF ToSet
            <4>2. PICK t \in Nat : t = p.at
                BY <4>1, PointsAreTyped
            <4>3. h * HourLength <= t /\ t <= h * HourLength + HourLength
                BY <3>1, <3>3, <4>1, <4>2 DEF SamplesInv, RowsInv, LiesIn
            <4>4. /\ h * HourLength <= t /\ t < h * HourLength + HourLength => HourOf(t) = h
                  /\ (h + 1) * HourLength = h * HourLength + HourLength /\ h * HourLength \in Nat
                BY <3>3, HourIs
            <4>5. CASE t < h * HourLength + HourLength
                BY <4>2, <4>3, <4>4, <4>5
            <4>6. CASE ~(t < h * HourLength + HourLength)
                BY <3>3, <4>2, <4>3, <4>4, <4>6
            <4> QED
                BY <4>5, <4>6
        <3> QED
            BY <3>1, <3>2, <3>4
    <2> QED
        BY <2>1 DEF RowsAreOfTheirHour, RowTells
<1> QED
    BY <1>1, <1>2, <1>3 DEF RangesAreRead

(* The buffer and the hourly rows: a range is all the samples that lie in it, each once, and a    *)
(* row is what those samples come to that the buffer held of its hour when it was read - of its   *)
(* hour, or of the first moment of the next - whenever the goroutine reads, whatever timestamps   *)
(* samples have, and whether or not the process has begun anew.                                   *)
THEOREM SamplesAreKeptHolds == SamplesSpec => []SamplesAreKept
BY SamplesInvInit, SamplesInvNext, SamplesInvImplies, PTL DEF SamplesSpec
================================================================================
