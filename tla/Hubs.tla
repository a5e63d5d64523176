---------------------------------- MODULE Hubs ----------------------------------
(***************************************************************************)
(* The three hubs that pass live frames on to browsers and CLIs:           *)
(*   pkg/api/sse.go           server-sent events, one handler per client;  *)
(*   pkg/api/ws_hub.go        WebSockets, a Run goroutine owns the clients; *)
(*   pkg/telemetry/ws_hub.go  WebSockets, an index of topics under a mutex. *)
(* A frame is known by its topic; a target that a client left open is the  *)
(* topic AnyTarget.  A buffered channel is the frames waiting in it.       *)
(***************************************************************************)
EXTENDS Integers, Sequences, FiniteSets

CONSTANTS Conns,        \* connections of one hub
          Addresses,    \* remote addresses, which later connections may have again
          Topics,       \* channel and target of a frame
          AnyTarget,    \* the topic of a client that asked for every target
          Senders,      \* goroutines that broadcast
          BufferSize    \* 256 frames in the code (1024 for the hub's own queue)

ASSUME HubsAssumption == BufferSize \in Nat \ {0} /\ Addresses # {}

Subscribed(topics, topic) == topics \cap {topic, AnyTarget} # {}
AddFrame(n) == IF n < BufferSize THEN n + 1 ELSE n
--------------------------------------------------------------------------------
(* Server-sent events. *)

VARIABLES sseClients,   \* b.clients
          sse           \* of each client: its handler, topic, channel and whether that is closed

sseVars == <<sseClients, sse>>

SseInit ==
    /\ sseClients = {}
    /\ sse = [c \in Conns |-> [at |-> "none", topic |-> AnyTarget, waiting |-> 0, closed |-> FALSE]]

SseRegister(c, t) ==
    /\ sse[c].at = "none"
    /\ sse' = [sse EXCEPT ![c].at = "serving", ![c].topic = t]
    /\ sseClients' = sseClients \cup {c}

\* One frame written to the response, or the closed channel drained and the handler returning.
SseServe(c) ==
    /\ sse[c].at = "serving"
    /\ sse[c].waiting > 0 \/ sse[c].closed
    /\ sse' = IF sse[c].waiting > 0 THEN [sse EXCEPT ![c].waiting = @ - 1]
              ELSE [sse EXCEPT ![c].at = "leaving"]
    /\ UNCHANGED sseClients

\* The request's context ends, or a write fails.
SseLeave(c) ==
    /\ sse[c].at = "serving"
    /\ sse' = [sse EXCEPT ![c].at = "leaving"]
    /\ UNCHANGED sseClients

\* Mutant of SseUnregister: the channel is closed before the client is taken out.
SseCloseThenRemove(c) ==
    \/ /\ sse[c].at = "leaving"
       /\ sse' = [sse EXCEPT ![c].at = "removed", ![c].closed = TRUE]
       /\ UNCHANGED sseClients
    \/ /\ sse[c].at = "removed"
       /\ sseClients' = sseClients \ {c}
       /\ sse' = [sse EXCEPT ![c].at = "gone"]

\* The deferred Unregister: deleted under the lock, closed (once) after it.
SseUnregister(c) ==
    \/ /\ sse[c].at = "leaving"
       /\ sseClients' = sseClients \ {c}
       /\ sse' = [sse EXCEPT ![c].at = "removed"]
    \/ /\ sse[c].at = "removed"
       /\ sse' = [sse EXCEPT ![c].at = "gone", ![c].closed = TRUE]
       /\ UNCHANGED sseClients

SseClose ==
    /\ sseClients # {}
    /\ sse' = [c \in Conns |-> IF c \in sseClients THEN [sse[c] EXCEPT !.closed = TRUE] ELSE sse[c]]
    /\ sseClients' = {}

\* Under the read lock for as long as it sends; a full channel drops the frame.
SseBroadcast(topic) ==
    /\ sse' = [c \in Conns |->
          IF c \in sseClients /\ Subscribed({sse[c].topic}, topic)
          THEN [sse[c] EXCEPT !.waiting = AddFrame(@)] ELSE sse[c]]
    /\ UNCHANGED sseClients

SseNext ==
    \/ SseClose
    \/ \E t \in Topics : SseBroadcast(t)
    \/ \E c \in Conns, t \in Topics \cup {AnyTarget} : SseRegister(c, t)
    \/ \E c \in Conns : SseServe(c) \/ SseLeave(c) \/ SseUnregister(c)
--------------------------------------------------------------------------------
(* WebSockets of the API. *)

VARIABLES hubRuns,      \* Run is in its loop
          hubQueue,     \* the broadcast channel
          hubClients,   \* h.clients
          wsClient,     \* of each client: its reader, topics, channel and whether that is closed
          hubPanic      \* a frame was sent to a closed channel

hubVars == <<hubRuns, hubQueue, hubClients, wsClient, hubPanic>>

HubInit ==
    /\ hubRuns = TRUE /\ hubQueue = <<>> /\ hubClients = {} /\ hubPanic = FALSE
    /\ wsClient = [c \in Conns |-> [at |-> "none", topics |-> {}, waiting |-> 0, closed |-> FALSE]]

\* ServeWebSocket up to the send on h.register, which waits for Run.
ServeWebSocket(c, topics) ==
    /\ wsClient[c].at = "none"
    /\ wsClient' = [wsClient EXCEPT ![c].at = "registering", ![c].topics = topics]
    /\ UNCHANGED <<hubRuns, hubQueue, hubClients, hubPanic>>

HubRegister(c) ==
    /\ hubRuns /\ wsClient[c].at = "registering"
    /\ wsClient' = [wsClient EXCEPT ![c].at = "reading"]
    /\ hubClients' = hubClients \cup {c}
    /\ UNCHANGED <<hubRuns, hubQueue, hubPanic>>

\* A subscribe or unsubscribe frame.
ReadAction(c, topics) ==
    /\ wsClient[c].at = "reading"
    /\ wsClient' = [wsClient EXCEPT ![c].topics = topics]
    /\ UNCHANGED <<hubRuns, hubQueue, hubClients, hubPanic>>

\* The reader answers a ping on client.send itself.
ReadPing(c) ==
    /\ wsClient[c].at = "reading"
    /\ wsClient' = IF wsClient[c].closed THEN wsClient ELSE [wsClient EXCEPT ![c].waiting = AddFrame(@)]
    /\ hubPanic' = (hubPanic \/ wsClient[c].closed)
    /\ UNCHANGED <<hubRuns, hubQueue, hubClients>>

ReadFails(c) ==
    /\ wsClient[c].at = "reading"
    /\ wsClient' = [wsClient EXCEPT ![c].at = "unregistering"]
    /\ UNCHANGED <<hubRuns, hubQueue, hubClients, hubPanic>>

WriteFrame(c) ==
    /\ wsClient[c].waiting > 0
    /\ wsClient' = [wsClient EXCEPT ![c].waiting = @ - 1]
    /\ UNCHANGED <<hubRuns, hubQueue, hubClients, hubPanic>>

HubUnregister(c) ==
    /\ hubRuns /\ wsClient[c].at = "unregistering"
    /\ hubClients' = hubClients \ {c}
    /\ wsClient' = [wsClient EXCEPT ![c].at = "gone", ![c].closed = @ \/ c \in hubClients]
    /\ UNCHANGED <<hubRuns, hubQueue, hubPanic>>

HubBroadcast(topic) ==
    /\ hubQueue' = IF Len(hubQueue) < BufferSize THEN Append(hubQueue, topic) ELSE hubQueue
    /\ UNCHANGED <<hubRuns, hubClients, wsClient, hubPanic>>

BroadcastMessage ==
    /\ hubRuns /\ hubQueue # <<>>
    /\ hubQueue' = Tail(hubQueue)
    /\ wsClient' = [c \in Conns |->
          IF c \in hubClients /\ Subscribed(wsClient[c].topics, Head(hubQueue))
          THEN [wsClient[c] EXCEPT !.waiting = AddFrame(@)] ELSE wsClient[c]]
    /\ UNCHANGED <<hubRuns, hubClients, hubPanic>>

\* Run's context ends with the process; nobody takes what is registered or unregistered later.
HubStop ==
    /\ hubRuns /\ hubRuns' = FALSE
    /\ wsClient' = [c \in Conns |->
          IF c \in hubClients THEN [wsClient[c] EXCEPT !.closed = TRUE] ELSE wsClient[c]]
    /\ hubClients' = {}
    /\ UNCHANGED <<hubQueue, hubPanic>>

HubNext ==
    \/ BroadcastMessage \/ HubStop
    \/ \E t \in Topics : HubBroadcast(t)
    \/ \E c \in Conns :
          \/ HubRegister(c) \/ ReadPing(c) \/ ReadFails(c) \/ WriteFrame(c) \/ HubUnregister(c)
          \/ \E topics \in SUBSET (Topics \cup {AnyTarget}) :
                ServeWebSocket(c, topics) \/ ReadAction(c, topics)
--------------------------------------------------------------------------------
(* WebSockets of the telemetry hub. *)

VARIABLES telemetry,    \* of each connection: its handler, reader, address and channel
          listed,       \* h.clients by address: the connection of the session, if any, and its topics
          topicIndex,   \* h.topics: the addresses of each topic
          sender,       \* of each sender: the frame's kind, the sessions left, its place in dispatch
          inherited,    \* ghost: entries of the index that a displaced session left
          overlapped    \* ghost: connections whose handler ran beside another of their address

telemetryVars == <<telemetry, listed, topicIndex, sender, inherited, overlapped>>

AllTopics == Topics \cup {AnyTarget}
NoFrame   == [kind |-> "none", to |-> {}, full |-> AnyTarget, at |-> "idle"]
NotListed == [of |-> {}, subs |-> {}]
AddressOf(c) == telemetry[c].addr
Handled(c)   == telemetry[c].at \in {"serving", "closed"}
SomeAddress  == CHOOSE a \in Addresses : TRUE   \* of a connection that is not there yet

TelemetryInit ==
    /\ telemetry = [c \in Conns |->
          [at |-> "none", reader |-> FALSE, addr |-> SomeAddress, waiting |-> 0]]
    /\ listed = [a \in Addresses |-> NotListed]
    /\ topicIndex = [t \in AllTopics |-> {}]
    /\ sender = [s \in Senders |-> NoFrame]
    /\ inherited = [t \in AllTopics |-> {}] /\ overlapped = {}

\* The session is entered whatever is there.  An address is free for another connection once the
\* old one is gone, which its handler may not have seen yet.
HandleWebSocket(c, a) ==
    LET others == {d \in Conns : Handled(d) /\ AddressOf(d) = a}
    IN  /\ telemetry[c].at = "none"
        /\ telemetry' = [telemetry EXCEPT ![c].at = "serving", ![c].reader = TRUE, ![c].addr = a]
        /\ listed' = [listed EXCEPT ![a] = [of |-> {c}, subs |-> {}]]
        /\ inherited' = [t \in AllTopics |->
              IF t \in listed[a].subs THEN inherited[t] \cup {a} ELSE inherited[t]]
        /\ overlapped' = IF others = {} THEN overlapped ELSE overlapped \cup others \cup {c}
        /\ UNCHANGED <<topicIndex, sender>>

\* The reader knows the session by its address.  It may still handle a frame when the handler has
\* unregistered: Subscribe then makes a session that has nobody's channel.
Subscribe(c, t) ==
    /\ telemetry[c].reader
    /\ listed' = [listed EXCEPT ![AddressOf(c)].subs = @ \cup {t}]
    /\ topicIndex' = [topicIndex EXCEPT ![t] = @ \cup {AddressOf(c)}]
    /\ inherited' = [inherited EXCEPT ![t] = @ \ {AddressOf(c)}]
    /\ UNCHANGED <<telemetry, sender, overlapped>>

Unsubscribe(c, t) ==
    /\ telemetry[c].reader
    /\ listed' = [listed EXCEPT ![AddressOf(c)].subs = @ \ {t}]
    /\ topicIndex' = [topicIndex EXCEPT ![t] = @ \ {AddressOf(c)}]
    /\ inherited' = [inherited EXCEPT ![t] = @ \ {AddressOf(c)}]
    /\ UNCHANGED <<telemetry, sender, overlapped>>

ReaderEnds(c) ==
    /\ telemetry[c].reader
    /\ telemetry' = [telemetry EXCEPT ![c].reader = FALSE]
    /\ UNCHANGED <<listed, topicIndex, sender, inherited, overlapped>>

\* Reader, writer or context ended: the connection is closed.  What waits is left out.
CloseSocket(c) ==
    /\ telemetry[c].at = "serving"
    /\ telemetry' = [telemetry EXCEPT ![c].at = "closed", ![c].waiting = 0]
    /\ UNCHANGED <<listed, topicIndex, sender, inherited, overlapped>>

\* The deferred call takes out whatever session the address has by then.
UnregisterClient(c) ==
    LET a == AddressOf(c)
    IN  /\ telemetry[c].at = "closed"
        /\ telemetry' = [telemetry EXCEPT ![c].at = "gone"]
        /\ topicIndex' = [t \in AllTopics |->
              IF t \in listed[a].subs THEN topicIndex[t] \ {a} ELSE topicIndex[t]]
        /\ listed' = [listed EXCEPT ![a] = NotListed]
        /\ UNCHANGED <<sender, inherited, overlapped>>

WriteTelemetry(c) ==
    /\ telemetry[c].waiting > 0
    /\ telemetry' = [telemetry EXCEPT ![c].waiting = @ - 1]
    /\ UNCHANGED <<listed, topicIndex, sender, inherited, overlapped>>

\* Broadcast collects the sessions under the read lock and sends after it.  Those of a late
\* Subscribe are left out: nobody reads their channels.
Broadcast(s, topic, kind) ==
    /\ sender[s].at = "idle"
    /\ LET to == UNION {listed[a].of : a \in topicIndex[topic] \cup topicIndex[AnyTarget]} IN
          sender' = [sender EXCEPT ![s] = [NoFrame EXCEPT !.kind = kind, !.to = to,
                         !.at = IF to = {} THEN "idle" ELSE "sending"]]
    /\ UNCHANGED <<telemetry, listed, topicIndex, inherited, overlapped>>

Waiting(c) == telemetry[c].waiting
Offer(c) ==
    telemetry' = IF telemetry[c].at = "serving" THEN [telemetry EXCEPT ![c].waiting = AddFrame(@)]
                 ELSE telemetry
SentTo(s, c) ==
    sender' = [sender EXCEPT ![s] =
        IF sender[s].to = {c} THEN NoFrame
        ELSE [sender[s] EXCEPT !.to = @ \ {c}, !.full = AnyTarget, !.at = "sending"]]

\* dispatchToSession: sent at once, or a metric dropped.
Dispatch(s, c) ==
    /\ sender[s].at = "sending" /\ c \in sender[s].to
    /\ Waiting(c) < BufferSize \/ sender[s].kind = "metric"
    /\ Offer(c)
    /\ SentTo(s, c)
    /\ UNCHANGED <<listed, topicIndex, inherited, overlapped>>

\* A full channel and a log frame: the oldest frame goes, a warning is put in, and the frame is
\* tried again - four operations on the channel between those of its writer and other senders.
FindFull(s, c) ==
    /\ sender[s].at = "sending" /\ c \in sender[s].to
    /\ Waiting(c) = BufferSize /\ sender[s].kind # "metric"
    /\ sender' = [sender EXCEPT ![s].at = "full", ![s].full = c]
    /\ UNCHANGED <<telemetry, listed, topicIndex, inherited, overlapped>>

DropOldest(s) ==
    /\ sender[s].at = "full"
    /\ telemetry' = IF Waiting(sender[s].full) = 0 THEN telemetry
                    ELSE [telemetry EXCEPT ![sender[s].full].waiting = @ - 1]
    /\ sender' = [sender EXCEPT ![s].at = "warning"]
    /\ UNCHANGED <<listed, topicIndex, inherited, overlapped>>

Warn(s) ==
    /\ sender[s].at = "warning"
    /\ Offer(sender[s].full)
    /\ sender' = [sender EXCEPT ![s].at = "again"]
    /\ UNCHANGED <<listed, topicIndex, inherited, overlapped>>

TryAgain(s) ==
    /\ sender[s].at = "again"
    /\ Offer(sender[s].full)
    /\ SentTo(s, sender[s].full)
    /\ UNCHANGED <<listed, topicIndex, inherited, overlapped>>

TelemetryNext ==
    \/ \E c \in Conns :
          \/ ReaderEnds(c) \/ CloseSocket(c) \/ UnregisterClient(c) \/ WriteTelemetry(c)
          \/ \E a \in Addresses : HandleWebSocket(c, a)
          \/ \E t \in AllTopics : Subscribe(c, t) \/ Unsubscribe(c, t)
          \/ \E s \in Senders : Dispatch(s, c) \/ FindFull(s, c)
    \/ \E s \in Senders :
          \/ DropOldest(s) \/ Warn(s) \/ TryAgain(s)
          \/ \E t \in Topics, kind \in {"metric", "log"} : Broadcast(s, t, kind)
--------------------------------------------------------------------------------
(* Types of the hubs' variables. *)
HubsTypeOK ==
    /\ \A c \in Conns : {sse[c].waiting, wsClient[c].waiting, telemetry[c].waiting}
                          \subseteq 0..BufferSize
    /\ topicIndex \in [AllTopics -> SUBSET Addresses]

(* A send on a closed channel would end the process, and a frame put into the channel of nobody   *)
(* stays there.  However clients come and go while frames are broadcast: a client that a hub      *)
(* still lists has an open channel; only after Run has stopped, which is at the end of the        *)
(* process, can an answer to a ping meet a closed one.                                            *)
SseChannelsOpen == \A c \in sseClients : ~sse[c].closed
WsChannelsOpen ==
    /\ \A c \in hubClients : ~wsClient[c].closed
    /\ hubPanic => ~hubRuns

(* The index of the telemetry hub names, for each topic, exactly the addresses whose session      *)
(* asked for it, and those that a connection has taken over from a session that did - it gets     *)
(* frames it did not ask for.  A session in the list is that of a handler which has not           *)
(* unregistered, or nobody's; and a handler that shared its address with no other finds its own   *)
(* session there until it unregisters, whatever late readers left.                                *)
TopicsAreIndexed ==
    /\ \A t \in AllTopics : topicIndex[t] = {a \in Addresses : t \in listed[a].subs} \cup inherited[t]
    /\ \A a \in Addresses : \A c \in listed[a].of : Handled(c) /\ AddressOf(c) = a
    /\ \A c \in Conns : Handled(c) /\ c \notin overlapped => listed[AddressOf(c)].of = {c}
================================================================================
