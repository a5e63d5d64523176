-------------------------- MODULE AgentServer_proofs --------------------------
(***************************************************************************)
(* Safety of the agent server, for any nodes, connections and calls.       *)
(*                                                                         *)
(* After the types, two layers: Registry relates the sessions map to the   *)
(* handlers, the connections and the machine rows; Dispatches, on top of   *)
(* it, says who still has to answer each command.                          *)
(***************************************************************************)
EXTENDS AgentServer, TLAPS

USE AgentServerAssumption DEF AgentServerAssumption

\* The types hold in every reachable state.
LEMMA TypedInit == Init => TypeOK
BY DEF Init, TypeOK, Actors, Unregisterers, Handler, Reading, Unregistering, JoinSteps,
       InDispatch, Status, Result

LEMMA TypedNext == TypeOK /\ [Next]_vars => TypeOK'
<1> SUFFICES ASSUME TypeOK, [Next]_vars PROVE TypeOK'
    OBVIOUS
<1> USE DEF TypeOK, Actors, Unregisterers, Handler, Reading, Unregistering, JoinSteps,
            InDispatch, Status, Result, goto, handlerVars, dispatchVars, mapVars, rowVars
<1>1. ASSUME NEW c \in Conns, Accept(c) PROVE TypeOK'
    BY <1>1 DEF Accept
<1>2. ASSUME NEW c \in Conns, Upsert(c) PROVE TypeOK'
    BY <1>2 DEF Upsert
<1>3. ASSUME NEW c \in Conns, RegisterNode(c) PROVE TypeOK'
    BY <1>3 DEF RegisterNode, FailPending
<1>4. ASSUME NEW c \in Conns, ReadMetric(c) PROVE TypeOK'
    BY <1>4 DEF ReadMetric
<1>5. ASSUME NEW c \in Conns, StoreMetric(c) PROVE TypeOK'
    BY <1>5 DEF StoreMetric, UpdateStatus
<1>6. ASSUME NEW c \in Conns, ReadReply(c) PROVE TypeOK'
    BY <1>6 DEF ReadReply
<1>7. ASSUME NEW c \in Conns, HandleCommandResponse(c) PROVE TypeOK'
    BY <1>7 DEF HandleCommandResponse
<1>8. ASSUME NEW c \in Conns, ReadFails(c) PROVE TypeOK'
    BY <1>8 DEF ReadFails
<1>9. ASSUME NEW c \in Conns, ConnEnds(c) PROVE TypeOK'
    BY <1>9 DEF ConnEnds
<1>10. ASSUME NEW p \in Unregisterers, TakeSession(p) PROVE TypeOK'
    BY <1>10 DEF TakeSession
<1>11. ASSUME NEW p \in Unregisterers, MarkOffline(p) PROVE TypeOK'
    BY <1>11 DEF MarkOffline, UpdateStatus, afterMarking
<1>12. ASSUME NEW p \in Unregisterers, Sweep(p) PROVE TypeOK'
    BY <1>12 DEF Sweep, FailPending
<1>13. ASSUME NEW d \in Deletes, DeleteRow(d) PROVE TypeOK'
    BY <1>13 DEF DeleteRow
<1>14. ASSUME NEW j \in Joins, GetMachine(j) PROVE TypeOK'
    BY <1>14 DEF GetMachine
<1>15. ASSUME NEW j \in Joins, LookUpSession(j) PROVE TypeOK'
    BY <1>15 DEF LookUpSession
<1>16. ASSUME NEW j \in Joins, AddPending(j) PROVE TypeOK'
    BY <1>16 DEF AddPending
<1>17. ASSUME NEW j \in Joins, SafeWrite(j) PROVE TypeOK'
    BY <1>17 DEF SafeWrite
<1>18. ASSUME NEW j \in Joins, TakeResult(j) \/ RequestEnds(j) PROVE TypeOK'
    BY SMTT(30), <1>18 DEF TakeResult, RequestEnds
<1>19. ASSUME NEW j \in Joins, RemovePending(j) PROVE TypeOK'
    BY <1>19 DEF RemovePending
<1>20. ASSUME NEW j \in Joins, JoinRow(j) PROVE TypeOK'
    BY <1>20 DEF JoinRow
<1>21. CASE UNCHANGED vars
    BY <1>21 DEF vars
<1> QED
    BY <1>1, <1>2, <1>3, <1>4, <1>5, <1>6, <1>7, <1>8, <1>9, <1>10, <1>11, <1>12, <1>13,
       <1>14, <1>15, <1>16, <1>17, <1>18, <1>19, <1>20, <1>21
    DEF Next, Serve, UnregisterNode, DispatchCommand

\* Type correctness of the agent server for every instance.
THEOREM TypeCorrect == SafetySpec => []TypeOK
<1> QED
    BY TypedInit, TypedNext, PTL DEF SafetySpec
-----------------------------------------------------------------------------
\* An open connection is set up or read from: reading ends with the connection closed.
OpenIsSetUp ==
    \A c \in open : pc[c] \in {"accepted", "stored"} \cup Reading

\* An "online" row has a handler that has yet to write "offline", unless it was
\* JoinSwarmCluster that wrote it.
OnlineHasHandler ==
    \A n \in Nodes : machine[n] = "online" /\ n \notin joined =>
        \E c \in Conns : NodeOf[c] = n /\ pc[c] \in {"stored", "leaving", "marking"} \cup Reading

Registry == /\ MapHoldsLiveHandlers
            /\ OpenIsSetUp
            /\ OpenIsRegisteredOrEvicted
            /\ OnlineHasHandler

LEMMA RegistryInit == Init => Registry
BY DEF Init, Registry, MapHoldsLiveHandlers, OpenIsSetUp, OpenIsRegisteredOrEvicted,
       OnlineHasHandler

\* A step that moves no connection's handler and leaves the map, the connections and
\* the rows alone preserves the registry: the frame of the dispatching steps.
LEMMA RegistryFrame ==
    ASSUME Registry, UNCHANGED <<sessions, evicted>>, open' \subseteq open,
           \A c \in Conns : pc'[c] = pc[c],
           TypeOK, TypeOK',
           \A n \in Nodes : machine'[n] = "online" /\ n \notin joined'
                               => machine[n] = "online" /\ n \notin joined
    PROVE  Registry'
<1> USE DEF Registry, TypeOK
<1>1. MapHoldsLiveHandlers'
    BY DEF MapHoldsLiveHandlers
<1>2. OpenIsSetUp'
    BY DEF OpenIsSetUp
<1>3. OpenIsRegisteredOrEvicted'
    BY DEF OpenIsRegisteredOrEvicted
<1>4. OnlineHasHandler'
    BY DEF OnlineHasHandler
<1> QED
    BY <1>1, <1>2, <1>3, <1>4

\* Serving a connection preserves the registry.
LEMMA RegistryServe ==
    ASSUME TypeOK, Registry, NEW c \in Conns, Serve(c)
    PROVE  Registry'
<1> USE DEF Registry, TypeOK, Actors, Unregisterers, Reading, goto, handlerVars, dispatchVars,
            mapVars, rowVars
<1>1. CASE Accept(c)
    <2>1. MapHoldsLiveHandlers'
        BY <1>1 DEF Accept, MapHoldsLiveHandlers
    <2>2. OpenIsSetUp' /\ OpenIsRegisteredOrEvicted'
        BY <1>1 DEF Accept, OpenIsSetUp, OpenIsRegisteredOrEvicted
    <2>3. OnlineHasHandler'
        BY <1>1 DEF Accept, OnlineHasHandler
    <2> QED
        BY <2>1, <2>2, <2>3
<1>2. CASE Upsert(c)
    <2>1. MapHoldsLiveHandlers'
        BY <1>2 DEF Upsert, MapHoldsLiveHandlers
    <2>2. OpenIsSetUp' /\ OpenIsRegisteredOrEvicted'
        BY <1>2 DEF Upsert, OpenIsSetUp, OpenIsRegisteredOrEvicted
    <2>3. OnlineHasHandler'
        <3> SUFFICES ASSUME NEW n \in Nodes, machine'[n] = "online", n \notin joined'
                     PROVE  \E d \in Conns : /\ NodeOf[d] = n
                                             /\ pc'[d] \in {"stored", "leaving", "marking"} \cup Reading
            BY DEF OnlineHasHandler
        <3>1. CASE n = NodeOf[c]
            BY <1>2, <3>1 DEF Upsert
        <3>2. CASE n # NodeOf[c]
            BY <1>2, <3>2 DEF Upsert, OnlineHasHandler
        <3> QED
            BY <3>1, <3>2
    <2> QED
        BY <2>1, <2>2, <2>3
<1>3. CASE RegisterNode(c)
    <2>1. MapHoldsLiveHandlers'
        BY <1>3 DEF RegisterNode, MapHoldsLiveHandlers
    <2>2. OpenIsSetUp' /\ OpenIsRegisteredOrEvicted'
        BY <1>3 DEF RegisterNode, OpenIsSetUp, OpenIsRegisteredOrEvicted
    <2>3. OnlineHasHandler'
        BY <1>3 DEF RegisterNode, OnlineHasHandler
    <2> QED
        BY <2>1, <2>2, <2>3
<1>4. CASE \/ ReadMetric(c) \/ ReadReply(c) \/ HandleCommandResponse(c)
    <2>1. MapHoldsLiveHandlers'
        BY <1>4 DEF ReadMetric, ReadReply, HandleCommandResponse, MapHoldsLiveHandlers
    <2>2. OpenIsSetUp' /\ OpenIsRegisteredOrEvicted'
        BY <1>4 DEF ReadMetric, ReadReply, HandleCommandResponse, OpenIsSetUp,
                    OpenIsRegisteredOrEvicted
    <2>3. OnlineHasHandler'
        BY <1>4 DEF ReadMetric, ReadReply, HandleCommandResponse, OnlineHasHandler
    <2> QED
        BY <2>1, <2>2, <2>3
<1>5. CASE StoreMetric(c)
    <2>1. MapHoldsLiveHandlers'
        BY <1>5 DEF StoreMetric, MapHoldsLiveHandlers
    <2>2. OpenIsSetUp' /\ OpenIsRegisteredOrEvicted'
        BY <1>5 DEF StoreMetric, OpenIsSetUp, OpenIsRegisteredOrEvicted
    <2>3. OnlineHasHandler'
        <3> SUFFICES ASSUME NEW n \in Nodes, machine'[n] = "online", n \notin joined'
                     PROVE  \E d \in Conns : /\ NodeOf[d] = n
                                             /\ pc'[d] \in {"stored", "leaving", "marking"} \cup Reading
            BY DEF OnlineHasHandler
        <3>1. CASE n = NodeOf[c]
            BY <1>5, <3>1 DEF StoreMetric
        <3>2. CASE n # NodeOf[c]
            BY <1>5, <3>2 DEF StoreMetric, UpdateStatus, OnlineHasHandler
        <3> QED
            BY <3>1, <3>2
    <2> QED
        BY <2>1, <2>2, <2>3
<1>6. CASE ReadFails(c)
    <2>1. MapHoldsLiveHandlers'
        BY <1>6 DEF ReadFails, MapHoldsLiveHandlers
    <2>2. OpenIsSetUp' /\ OpenIsRegisteredOrEvicted'
        BY <1>6 DEF ReadFails, OpenIsSetUp, OpenIsRegisteredOrEvicted
    <2>3. OnlineHasHandler'
        BY <1>6 DEF ReadFails, OnlineHasHandler
    <2> QED
        BY <2>1, <2>2, <2>3
<1> QED
    BY <1>1, <1>2, <1>3, <1>4, <1>5, <1>6 DEF Serve

\* So does unregistering a node, by whichever call.
LEMMA RegistryUnregister ==
    ASSUME TypeOK, Registry, NEW p \in Unregisterers, UnregisterNode(p)
    PROVE  Registry'
<1> USE DEF Registry, TypeOK, Actors, Unregisterers, Reading, goto, handlerVars, dispatchVars,
            mapVars, rowVars
<1>1. CASE TakeSession(p)
    <2>1. MapHoldsLiveHandlers'
        BY <1>1 DEF TakeSession, MapHoldsLiveHandlers
    <2>2. OpenIsSetUp' /\ OpenIsRegisteredOrEvicted'
        BY <1>1 DEF TakeSession, OpenIsSetUp, OpenIsRegisteredOrEvicted
    <2>3. OnlineHasHandler'
        BY <1>1 DEF TakeSession, OnlineHasHandler
    <2> QED
        BY <2>1, <2>2, <2>3
<1>2. CASE MarkOffline(p)
    <2>1. MapHoldsLiveHandlers'
        BY <1>2 DEF MarkOffline, MapHoldsLiveHandlers
    <2>2. OpenIsSetUp' /\ OpenIsRegisteredOrEvicted'
        BY <1>2 DEF MarkOffline, OpenIsSetUp, OpenIsRegisteredOrEvicted
    <2>3. OnlineHasHandler'
        <3> SUFFICES ASSUME NEW n \in Nodes, machine'[n] = "online", n \notin joined'
                     PROVE  \E d \in Conns : /\ NodeOf[d] = n
                                             /\ pc'[d] \in {"stored", "leaving", "marking"} \cup Reading
            BY DEF OnlineHasHandler
        <3>1. n # NodeOf[p]
            BY <1>2 DEF MarkOffline, UpdateStatus
        <3>2. machine[n] = "online" /\ n \notin joined
            BY <1>2, <3>1 DEF MarkOffline, UpdateStatus
        <3>3. PICK d \in Conns : /\ NodeOf[d] = n
                                 /\ pc[d] \in {"stored", "leaving", "marking"} \cup Reading
            BY <3>2 DEF OnlineHasHandler
        <3>4. d # p
            BY <3>1, <3>3
        <3> QED
            BY <1>2, <3>3, <3>4 DEF MarkOffline
    <2> QED
        BY <2>1, <2>2, <2>3
<1>3. CASE Sweep(p)
    <2>1. MapHoldsLiveHandlers'
        BY <1>3 DEF Sweep, MapHoldsLiveHandlers
    <2>2. OpenIsSetUp' /\ OpenIsRegisteredOrEvicted'
        BY <1>3 DEF Sweep, OpenIsSetUp, OpenIsRegisteredOrEvicted
    <2>3. OnlineHasHandler'
        BY <1>3 DEF Sweep, OnlineHasHandler
    <2> QED
        BY <2>1, <2>2, <2>3
<1> QED
    BY <1>1, <1>2, <1>3 DEF UnregisterNode

LEMMA RegistryNext == TypeOK /\ TypeOK' /\ Registry /\ [Next]_vars => Registry'
<1> SUFFICES ASSUME TypeOK, TypeOK', Registry, [Next]_vars PROVE Registry'
    OBVIOUS
<1> USE DEF goto, handlerVars, dispatchVars, mapVars, rowVars, Actors, Unregisterers
<1>1. ASSUME NEW c \in Conns, Serve(c) PROVE Registry'
    BY <1>1, RegistryServe
<1>2. ASSUME NEW p \in Unregisterers, UnregisterNode(p) PROVE Registry'
    BY <1>2, RegistryUnregister
<1>3. ASSUME NEW c \in Conns, ConnEnds(c) PROVE Registry'
    BY <1>3, RegistryFrame DEF ConnEnds
<1>4. ASSUME NEW d \in Deletes, DeleteRow(d) PROVE Registry'
    <2>1. \A n \in Nodes : machine'[n] = "online" /\ n \notin joined'
                              => machine[n] = "online" /\ n \notin joined
        BY <1>4 DEF DeleteRow, TypeOK
    <2>2. \A c \in Conns : pc'[c] = pc[c]
        BY <1>4 DEF DeleteRow, TypeOK
    <2> QED
        BY <1>4, <2>1, <2>2, RegistryFrame DEF DeleteRow
<1>5. ASSUME NEW j \in Joins, JoinRow(j) PROVE Registry'
    <2>1. \A n \in Nodes : machine'[n] = "online" /\ n \notin joined'
                              => machine[n] = "online" /\ n \notin joined
        BY <1>5 DEF JoinRow, TypeOK
    <2>2. \A c \in Conns : pc'[c] = pc[c]
        BY <1>5 DEF JoinRow, TypeOK
    <2> QED
        BY <1>5, <2>1, <2>2, RegistryFrame DEF JoinRow
<1>6. ASSUME NEW j \in Joins, GetMachine(j) \/ DispatchCommand(j) PROVE Registry'
    <2>1. /\ UNCHANGED <<sessions, evicted, machine, joined>>
          /\ open' \subseteq open
        BY <1>6 DEF GetMachine, DispatchCommand, LookUpSession, AddPending, SafeWrite,
                    TakeResult, RequestEnds, RemovePending
    <2>2. \A c \in Conns : pc'[c] = pc[c]
        BY <1>6 DEF GetMachine, DispatchCommand, LookUpSession, AddPending, SafeWrite,
                    TakeResult, RequestEnds, RemovePending, TypeOK
    <2> QED
        BY <2>1, <2>2, RegistryFrame
<1>7. CASE UNCHANGED vars
    BY <1>7, RegistryFrame DEF vars
<1> QED
    BY <1>1, <1>2, <1>3, <1>4, <1>5, <1>6, <1>7 DEF Next

LEMMA RegistryHolds == SafetySpec => [](TypeOK /\ Registry)
<1>1. Init => TypeOK /\ Registry
    BY TypedInit, RegistryInit
<1>2. TypeOK /\ Registry /\ [Next]_vars => TypeOK' /\ Registry'
    BY TypedNext, RegistryNext
<1> QED
    BY <1>1, <1>2, PTL DEF SafetySpec

\* No ghost sessions, whatever order connections and calls come in.
THEOREM MapHoldsLiveHandlersHolds == SafetySpec => []MapHoldsLiveHandlers
<1>1. Registry => MapHoldsLiveHandlers
    BY DEF Registry
<1> QED
    BY <1>1, RegistryHolds, PTL

\* A connected, registered session is in the map or was evicted.
THEOREM OpenIsRegisteredOrEvictedHolds == SafetySpec => []OpenIsRegisteredOrEvicted
<1>1. Registry => OpenIsRegisteredOrEvicted
    BY DEF Registry
<1> QED
    BY <1>1, RegistryHolds, PTL

\* A node all of whose handlers are through is not left "online" by them.
THEOREM OfflineWhenAllGoneHolds == SafetySpec => []OfflineWhenAllGone
<1>1. TypeOK /\ Registry => OfflineWhenAllGone
    BY DEF TypeOK, Registry, OnlineHasHandler, OfflineWhenAllGone, Reading
<1> QED
    BY <1>1, RegistryHolds, PTL
-----------------------------------------------------------------------------
\* A dispatch that is under way is entered in the session it chose.
DispatchIsPending ==
    \A j \in Joins : pc[j] \in InDispatch => j \in pending[target[j]]

\* A session that was found in the map is past its registration.
TargetWasRegistered ==
    \A j \in Joins : target[j] # NoConn =>
        pc[target[j]] \notin {"new", "accepted", "stored"}

\* The session is in the map, so whoever removes or displaces it answers its commands,
\* or its own handler has taken it and will.
WillSweep(c) ==
    \/ sessions[NodeOf[c]] = c
    \/ taken[c] = c /\ pc[c] \in {"marking", "sweeping"}

WaitingIsWatched ==
    \A j \in Joins :
        pc[j] = "waiting" /\ mailbox[j] = "empty" /\ target[j] \notin evicted
            => WillSweep(target[j])

Dispatches == /\ PendingIsInProgress
              /\ DispatchIsPending
              /\ TargetWasRegistered
              /\ WaitingIsWatched

LEMMA DispatchesInit == Init => Dispatches
BY DEF Init, Dispatches, PendingIsInProgress, DispatchIsPending, TargetWasRegistered,
       WaitingIsWatched, InDispatch, Actors

\* Handlers and calls that leave the dispatches alone preserve what is pending.
LEMMA PendingFrame ==
    ASSUME TypeOK, PendingIsInProgress, DispatchIsPending,
           UNCHANGED <<target, pending>>,
           \A j \in Joins : pc'[j] = pc[j]
    PROVE  PendingIsInProgress' /\ DispatchIsPending'
BY DEF TypeOK, PendingIsInProgress, DispatchIsPending, InDispatch

\* Serving a connection: a session that is displaced has its commands answered.
LEMMA DispatchesServe ==
    ASSUME TypeOK, Registry, Dispatches, NEW c \in Conns, Serve(c)
    PROVE  TargetWasRegistered' /\ WaitingIsWatched'
<1> USE DEF TypeOK, Dispatches, Actors, Unregisterers, goto, handlerVars, dispatchVars,
            mapVars, rowVars
<1>1. CASE Accept(c)
    <2>1. TargetWasRegistered'
        BY <1>1 DEF Accept, TargetWasRegistered
    <2>2. WaitingIsWatched'
        BY <1>1 DEF Accept, WaitingIsWatched, WillSweep
    <2> QED
        BY <2>1, <2>2
<1>2. CASE Upsert(c)
    <2>1. TargetWasRegistered'
        BY <1>2 DEF Upsert, TargetWasRegistered
    <2>2. WaitingIsWatched'
        BY <1>2 DEF Upsert, WaitingIsWatched, WillSweep
    <2> QED
        BY <2>1, <2>2
<1>3. CASE RegisterNode(c)
    <2>1. TargetWasRegistered'
        BY <1>3 DEF RegisterNode, TargetWasRegistered
    <2>2. WaitingIsWatched'
        <3> SUFFICES ASSUME NEW j \in Joins, pc'[j] = "waiting", mailbox'[j] = "empty",
                            target'[j] \notin evicted'
                     PROVE  WillSweep(target[j])'
            BY <1>3 DEF WaitingIsWatched, RegisterNode
        <3> DEFINE t == target[j]
        <3>1. pc[j] = "waiting" /\ mailbox[j] = "empty" /\ t \notin evicted /\ t \in Conns
            BY <1>3 DEF RegisterNode, FailPending, InDispatch
        <3>2. WillSweep(t)
            BY <3>1 DEF WaitingIsWatched
        <3>3. j \in pending[t]
            BY <3>1 DEF DispatchIsPending, InDispatch
        <3>4. sessions[NodeOf[t]] = t => NodeOf[t] # NodeOf[c]
            BY <1>3, <3>1, <3>3 DEF RegisterNode, FailPending
        <3>5. t # c
            BY <1>3, <3>1 DEF RegisterNode, TargetWasRegistered
        <3>6. UNCHANGED taken /\ sessions' = [sessions EXCEPT ![NodeOf[c]] = c]
            BY <1>3 DEF RegisterNode
        <3>7. pc'[t] = pc[t] /\ UNCHANGED target
            BY <1>3, <3>1, <3>5 DEF RegisterNode
        <3> QED
            BY <3>1, <3>2, <3>4, <3>6, <3>7 DEF WillSweep
    <2> QED
        BY <2>1, <2>2
<1>4. CASE ReadMetric(c) \/ ReadReply(c)
    <2>1. TargetWasRegistered'
        BY <1>4 DEF ReadMetric, ReadReply, TargetWasRegistered
    <2>2. CASE ReadMetric(c)
        BY <2>1, <2>2 DEF ReadMetric, WaitingIsWatched, WillSweep, InDispatch
    <2>3. CASE ReadReply(c)
        BY <2>1, <2>3 DEF ReadReply, WaitingIsWatched, WillSweep, InDispatch
    <2> QED
        BY <1>4, <2>2, <2>3
<1>5. CASE StoreMetric(c)
    <2>1. TargetWasRegistered'
        BY <1>5 DEF StoreMetric, TargetWasRegistered
    <2>2. WaitingIsWatched'
        BY <1>5 DEF StoreMetric, WaitingIsWatched, WillSweep
    <2> QED
        BY <2>1, <2>2
<1>6. CASE HandleCommandResponse(c)
    <2>1. TargetWasRegistered'
        BY <1>6 DEF HandleCommandResponse, TargetWasRegistered
    <2>2. WaitingIsWatched'
        BY <1>6 DEF HandleCommandResponse, WaitingIsWatched, WillSweep
    <2> QED
        BY <2>1, <2>2
<1>7. CASE ReadFails(c)
    <2>1. TargetWasRegistered'
        BY <1>7 DEF ReadFails, TargetWasRegistered
    <2>2. WaitingIsWatched'
        BY <1>7 DEF ReadFails, WaitingIsWatched, WillSweep
    <2> QED
        BY <2>1, <2>2
<1> QED
    BY <1>1, <1>2, <1>3, <1>4, <1>5, <1>6, <1>7 DEF Serve

\* Unregistering: a session that is removed is evicted, or its own handler sweeps it.
LEMMA DispatchesUnregister ==
    ASSUME TypeOK, Registry, Dispatches, NEW p \in Unregisterers, UnregisterNode(p)
    PROVE  TargetWasRegistered' /\ WaitingIsWatched'
<1> USE DEF TypeOK, Dispatches, Actors, Unregisterers, goto, handlerVars, dispatchVars,
            mapVars, rowVars
<1>1. CASE TakeSession(p)
    <2>1. TargetWasRegistered'
        BY <1>1 DEF TakeSession, TargetWasRegistered
    <2>2. WaitingIsWatched'
        <3> SUFFICES ASSUME NEW j \in Joins, pc'[j] = "waiting", mailbox'[j] = "empty",
                            target'[j] \notin evicted'
                     PROVE  WillSweep(target[j])'
            BY <1>1 DEF WaitingIsWatched, TakeSession
        <3> DEFINE t == target[j]
        <3>1. pc[j] = "waiting" /\ mailbox[j] = "empty" /\ t \notin evicted /\ t \in Conns
            BY <1>1 DEF TakeSession, InDispatch
        <3>2. WillSweep(t)
            BY <3>1 DEF WaitingIsWatched
        <3>3. CASE sessions[NodeOf[t]] = t /\ NodeOf[t] = NodeOf[p]
            <4>1. t = p
                BY <1>1, <3>1, <3>3 DEF TakeSession
            <4> QED
                BY <1>1, <3>1, <3>3, <4>1 DEF TakeSession, WillSweep
        <3>4. CASE sessions[NodeOf[t]] = t /\ NodeOf[t] # NodeOf[p]
            BY <1>1, <3>1, <3>4 DEF TakeSession, WillSweep
        <3>5. CASE taken[t] = t /\ pc[t] \in {"marking", "sweeping"}
            <4>1. t # p
                BY <1>1, <3>5 DEF TakeSession
            <4> QED
                BY <1>1, <3>1, <3>5, <4>1 DEF TakeSession, WillSweep
        <3> QED
            BY <3>2, <3>3, <3>4, <3>5 DEF WillSweep
    <2> QED
        BY <2>1, <2>2
<1>2. CASE MarkOffline(p)
    <2>1. TargetWasRegistered'
        BY <1>2 DEF MarkOffline, afterMarking, TargetWasRegistered
    <2>2. WaitingIsWatched'
        BY <1>2 DEF MarkOffline, afterMarking, WaitingIsWatched, WillSweep, InDispatch
    <2> QED
        BY <2>1, <2>2
<1>3. CASE Sweep(p)
    <2>1. TargetWasRegistered'
        BY <1>3 DEF Sweep, TargetWasRegistered
    <2>2. WaitingIsWatched'
        <3> SUFFICES ASSUME NEW j \in Joins, pc'[j] = "waiting", mailbox'[j] = "empty",
                            target'[j] \notin evicted'
                     PROVE  WillSweep(target[j])'
            BY <1>3 DEF WaitingIsWatched, Sweep
        <3> DEFINE t == target[j]
        <3>1. pc[j] = "waiting" /\ mailbox[j] = "empty" /\ t \notin evicted /\ t \in Conns
            BY <1>3 DEF Sweep, FailPending, InDispatch
        <3>2. WillSweep(t) /\ j \in pending[t]
            BY <3>1 DEF WaitingIsWatched, DispatchIsPending, InDispatch
        <3>3. taken[p] # t
            BY <1>3, <3>1, <3>2 DEF Sweep, FailPending
        <3>4. CASE t = p
            BY <1>3, <3>1, <3>2, <3>3, <3>4 DEF Sweep, WillSweep
        <3>5. CASE t # p
            BY <1>3, <3>1, <3>2, <3>5 DEF Sweep, WillSweep
        <3> QED
            BY <3>4, <3>5
    <2> QED
        BY <2>1, <2>2
<1> QED
    BY <1>1, <1>2, <1>3 DEF UnregisterNode

\* Dispatching: a command that is written goes over an open connection, whose session
\* is in the map or was evicted.
LEMMA DispatchesJoin ==
    ASSUME TypeOK, TypeOK', Registry, Dispatches, NEW j \in Joins,
           GetMachine(j) \/ DispatchCommand(j) \/ JoinRow(j)
    PROVE  Dispatches'
<1> USE DEF TypeOK, Dispatches, Actors, Unregisterers, goto, handlerVars, dispatchVars,
            mapVars, rowVars
<1>1. CASE GetMachine(j) \/ JoinRow(j)
    <2>1. PendingIsInProgress' /\ DispatchIsPending'
        BY <1>1 DEF GetMachine, JoinRow, PendingIsInProgress, DispatchIsPending, InDispatch
    <2>2. TargetWasRegistered'
        BY <1>1 DEF GetMachine, JoinRow, TargetWasRegistered
    <2>3. WaitingIsWatched'
        BY <1>1 DEF GetMachine, JoinRow, WaitingIsWatched, WillSweep, InDispatch
    <2> QED
        BY <2>1, <2>2, <2>3
<1>2. CASE LookUpSession(j)
    <2>1. PendingIsInProgress' /\ DispatchIsPending'
        BY <1>2 DEF LookUpSession, PendingIsInProgress, DispatchIsPending, InDispatch
    <2>2. TargetWasRegistered'
        BY <1>2 DEF LookUpSession, TargetWasRegistered, Registry, MapHoldsLiveHandlers, Reading
    <2>3. WaitingIsWatched'
        BY <1>2 DEF LookUpSession, WaitingIsWatched, WillSweep, InDispatch
    <2> QED
        BY <2>1, <2>2, <2>3
<1>3. CASE AddPending(j)
    <2>1. PendingIsInProgress' /\ DispatchIsPending'
        BY <1>3 DEF AddPending, PendingIsInProgress, DispatchIsPending, InDispatch
    <2>2. TargetWasRegistered'
        BY <1>3 DEF AddPending, TargetWasRegistered
    <2>3. WaitingIsWatched'
        BY <1>3 DEF AddPending, WaitingIsWatched, WillSweep, InDispatch
    <2> QED
        BY <2>1, <2>2, <2>3
<1>4. CASE SafeWrite(j)
    <2>1. PendingIsInProgress' /\ DispatchIsPending'
        BY SMTT(30), <1>4 DEF SafeWrite, PendingIsInProgress, DispatchIsPending, InDispatch
    <2>2. TargetWasRegistered'
        BY <1>4 DEF SafeWrite, TargetWasRegistered
    <2>3. target[j] \in Conns
        BY <1>4 DEF SafeWrite, InDispatch
    <2>4. target[j] \in open => WillSweep(target[j]) \/ target[j] \in evicted
        BY <2>3 DEF TargetWasRegistered, Registry, OpenIsSetUp, OpenIsRegisteredOrEvicted,
                    WillSweep
    <2>5. WaitingIsWatched'
        BY <1>4, <2>3, <2>4 DEF SafeWrite, WaitingIsWatched, WillSweep, InDispatch
    <2> QED
        BY <2>1, <2>2, <2>5
<1>5. CASE TakeResult(j) \/ RequestEnds(j)
    <2>1. PendingIsInProgress' /\ DispatchIsPending'
        BY SMTT(30), <1>5 DEF TakeResult, RequestEnds, PendingIsInProgress, DispatchIsPending, InDispatch
    <2>2. TargetWasRegistered'
        BY <1>5 DEF TakeResult, RequestEnds, TargetWasRegistered
    <2>3. WaitingIsWatched'
        BY <1>5 DEF TakeResult, RequestEnds, WaitingIsWatched, WillSweep, InDispatch
    <2> QED
        BY <2>1, <2>2, <2>3
<1>6. CASE RemovePending(j)
    <2>1. PendingIsInProgress' /\ DispatchIsPending'
        BY <1>6 DEF RemovePending, PendingIsInProgress, DispatchIsPending, InDispatch
    <2>2. TargetWasRegistered'
        BY <1>6 DEF RemovePending, TargetWasRegistered
    <2>3. WaitingIsWatched'
        BY <1>6 DEF RemovePending, WaitingIsWatched, WillSweep, InDispatch
    <2> QED
        BY <2>1, <2>2, <2>3
<1> QED
    BY <1>1, <1>2, <1>3, <1>4, <1>5, <1>6 DEF DispatchCommand

LEMMA DispatchesNext ==
    TypeOK /\ TypeOK' /\ Registry /\ Dispatches /\ [Next]_vars => Dispatches'
<1> SUFFICES ASSUME TypeOK, TypeOK', Registry, Dispatches, [Next]_vars PROVE Dispatches'
    OBVIOUS
<1> USE DEF Dispatches
<1>1. ASSUME NEW c \in Conns, Serve(c) PROVE Dispatches'
    <2>1. /\ UNCHANGED <<target, pending>>
          /\ \A j \in Joins : pc'[j] = pc[j]
        BY <1>1 DEF Serve, Accept, Upsert, RegisterNode, ReadMetric, StoreMetric, ReadReply,
                    HandleCommandResponse, ReadFails, goto, dispatchVars, TypeOK, Actors,
                    Unregisterers
    <2> QED
        BY <1>1, <2>1, PendingFrame, DispatchesServe
<1>2. ASSUME NEW p \in Unregisterers, UnregisterNode(p) PROVE Dispatches'
    <2>1. /\ UNCHANGED <<target, pending>>
          /\ \A j \in Joins : pc'[j] = pc[j]
        BY <1>2 DEF UnregisterNode, TakeSession, MarkOffline, Sweep, goto, dispatchVars,
                    TypeOK, Actors, Unregisterers
    <2> QED
        BY <1>2, <2>1, PendingFrame, DispatchesUnregister
<1>3. ASSUME NEW j \in Joins, GetMachine(j) \/ DispatchCommand(j) \/ JoinRow(j)
      PROVE  Dispatches'
    BY <1>3, DispatchesJoin
<1>4. ASSUME NEW d \in Deletes, DeleteRow(d) PROVE Dispatches'
    <2>1. UNCHANGED <<sessions, taken, evicted, target, pending, mailbox>>
        BY <1>4 DEF DeleteRow, mapVars, dispatchVars
    <2>2. \A q \in Conns \cup Joins : pc'[q] = pc[q]
        BY <1>4 DEF DeleteRow, goto, TypeOK, Actors, Unregisterers
    <2>3. TargetWasRegistered' /\ WaitingIsWatched'
        BY <2>1, <2>2 DEF TargetWasRegistered, WaitingIsWatched, WillSweep, TypeOK, InDispatch
    <2> QED
        BY <2>1, <2>2, <2>3, PendingFrame
<1>5. ASSUME NEW c \in Conns, ConnEnds(c) PROVE Dispatches'
    BY <1>5 DEF ConnEnds, mapVars, dispatchVars, PendingIsInProgress, DispatchIsPending,
                TargetWasRegistered, WaitingIsWatched, WillSweep
<1>6. CASE UNCHANGED vars
    BY <1>6 DEF vars, PendingIsInProgress, DispatchIsPending, TargetWasRegistered,
                WaitingIsWatched, WillSweep
<1> QED
    BY <1>1, <1>2, <1>3, <1>4, <1>5, <1>6 DEF Next

LEMMA DispatchesHold == SafetySpec => [](TypeOK /\ Registry /\ Dispatches)
<1>1. Init => TypeOK /\ Registry /\ Dispatches
    BY TypedInit, RegistryInit, DispatchesInit
<1>2. TypeOK /\ Registry /\ Dispatches /\ [Next]_vars => TypeOK' /\ Registry' /\ Dispatches'
    BY TypedNext, RegistryNext, DispatchesNext
<1> QED
    BY <1>1, <1>2, PTL DEF SafetySpec

\* No command is left in a session's table by a dispatch that returned.
THEOREM PendingIsInProgressHolds == SafetySpec => []PendingIsInProgress
<1>1. Dispatches => PendingIsInProgress
    BY DEF Dispatches
<1> QED
    BY <1>1, DispatchesHold, PTL

\* Every command waiting on a session whose handler is through has its answer, unless
\* the session was evicted.
THEOREM NobodyWaitsOnDeadSessionHolds == SafetySpec => []NobodyWaitsOnDeadSession
<1>1. TypeOK /\ Registry /\ Dispatches => NobodyWaitsOnDeadSession
    <2> SUFFICES ASSUME TypeOK, Registry, Dispatches, NEW j \in Joins,
                        pc[j] = "waiting", pc[target[j]] = "done",
                        mailbox[j] = "empty", target[j] \notin evicted
                 PROVE  FALSE
        BY DEF NobodyWaitsOnDeadSession
    <2>1. target[j] \in Conns /\ NodeOf[target[j]] \in Nodes
        BY DEF TypeOK, InDispatch, Actors, Unregisterers
    <2>2. WillSweep(target[j])
        BY DEF Dispatches, WaitingIsWatched
    <2>3. sessions[NodeOf[target[j]]] # target[j]
        BY <2>1 DEF Registry, MapHoldsLiveHandlers, Reading
    <2> QED
        BY <2>2, <2>3 DEF WillSweep
<1> QED
    BY <1>1, DispatchesHold, PTL
=============================================================================
