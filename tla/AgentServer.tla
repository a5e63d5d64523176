------------------------------ MODULE AgentServer ------------------------------
(***************************************************************************)
(* The agent server of pkg/agent/server.go.  Worker nodes connect over     *)
(* WebSockets; every connection is served by a handler (HandleHTTP) that   *)
(* upserts the machine row, puts its session into the sessions map, reads  *)
(* until the connection ends and unregisters the node.  The controller     *)
(* uses the map: JoinSwarmCluster dispatches a command over a node's       *)
(* session and waits for the agent's reply, DeleteMachine deletes the row  *)
(* and unregisters the node.                                               *)
(*                                                                         *)
(* Critical sections of s.mu, statements on the machines table, reads and  *)
(* writes of a connection are steps of their own.  A connection is open    *)
(* until the server's end of it is closed; every failed read closes it.    *)
(***************************************************************************)
EXTENDS Naturals, FiniteSets

CONSTANTS Nodes,    \* worker nodes
          Conns,    \* authenticated connections, each with a session and a handler
          Joins,    \* calls of JoinSwarmCluster, each dispatching one command
          Deletes,  \* calls of DeleteMachine
          NodeOf,   \* the node a connection or call is for
          NoConn,   \* no session
          NoJoin    \* no command

Unregisterers == Conns \cup Deletes
Actors        == Unregisterers \cup Joins

ASSUME AgentServerAssumption ==
    /\ NodeOf \in [Actors -> Nodes]
    /\ NoConn \notin Conns
    /\ NoJoin \notin Joins
    /\ Conns \cap Deletes = {} /\ Conns \cap Joins = {} /\ Deletes \cap Joins = {}

VARIABLES
    sessions,   \* s.sessions: the session registered for each node
    open,       \* connections whose server end is open
    machine,    \* status column of each node's row in managed_machines
    pc,         \* what each handler or call does next
    hand,       \* the command whose reply a handler has read
    taken,      \* the session an UnregisterNode call removed from the map
    target,     \* the session each command is dispatched over
    pending,    \* PendingCommands of each session
    mailbox,    \* the one-element result channel of each command
    received,   \* commands written to each connection
    evicted,    \* history: sessions removed from the map by a call not their own handler's
    joined      \* history: nodes whose status was last written by JoinSwarmCluster

handlerVars  == <<hand, open>>
dispatchVars == <<target, pending, received>>
mapVars      == <<sessions, taken, evicted>>
rowVars      == <<machine, joined>>
vars == <<sessions, open, machine, pc, hand, taken, target, pending, mailbox,
          received, evicted, joined>>

\* "accepted" to "reading" set a session up; "metric" and "reply" process a message read.
Reading == {"reading", "metric", "reply"}
Handler == {"new", "accepted", "stored"} \cup Reading
\* The three parts of UnregisterNode.
Unregistering == {"leaving", "marking", "sweeping"}
InDispatch == {"pending", "waiting", "cleaning"}
JoinSteps  == {"new", "found", "looked", "joining", "done"} \cup InDispatch
Status     == {"absent", "online", "offline"}
Result     == {"empty", "failed", "answered"}

goto(p, step) == pc' = [pc EXCEPT ![p] = step]

\* UPDATE ... WHERE id = n: no row is created.
UpdateStatus(n, status) ==
    /\ machine' = [machine EXCEPT ![n] = IF @ = "absent" THEN @ ELSE status]
    /\ joined' = joined \ {n}

\* A non-blocking send of a failed result to every command pending on session c.
FailPending(c) ==
    mailbox' = [j \in Joins |->
                   IF c # NoConn /\ j \in pending[c] /\ mailbox[j] = "empty"
                   THEN "failed" ELSE mailbox[j]]

Init ==
    /\ sessions = [n \in Nodes |-> NoConn]
    /\ open = {}
    /\ machine = [n \in Nodes |-> "absent"]
    /\ pc = [p \in Actors |-> "new"]
    /\ hand = [c \in Conns |-> NoJoin]
    /\ taken = [p \in Unregisterers |-> NoConn]
    /\ target = [j \in Joins |-> NoConn]
    /\ pending = [c \in Conns |-> {}]
    /\ mailbox = [j \in Joins |-> "empty"]
    /\ received = [c \in Conns |-> {}]
    /\ evicted = {}
    /\ joined = {}
-----------------------------------------------------------------------------
(* HandleHTTP: a connection's handler *)

\* The upgrade of an authenticated request.
Accept(c) ==
    /\ pc[c] = "new"
    /\ open' = open \cup {c}
    /\ goto(c, "accepted")
    /\ UNCHANGED <<hand, mailbox, dispatchVars, mapVars, rowVars>>

\* The row is created or set "online", before the session is in the map.
Upsert(c) ==
    /\ pc[c] = "accepted"
    /\ machine' = [machine EXCEPT ![NodeOf[c]] = "online"]
    /\ joined' = joined \ {NodeOf[c]}
    /\ goto(c, "stored")
    /\ UNCHANGED <<handlerVars, mailbox, dispatchVars, mapVars>>

\* Mutant of RegisterNode: the displaced session keeps its connection.
RegisterNodeKeepsConn(c) ==
    /\ pc[c] = "stored"
    /\ sessions' = [sessions EXCEPT ![NodeOf[c]] = c]
    /\ FailPending(sessions[NodeOf[c]])
    /\ goto(c, "reading")
    /\ UNCHANGED <<handlerVars, dispatchVars, rowVars, taken, evicted>>

\* Mutant of RegisterNode: the commands of the displaced session are not answered.
RegisterNodeForgets(c) ==
    /\ pc[c] = "stored"
    /\ sessions' = [sessions EXCEPT ![NodeOf[c]] = c]
    /\ open' = open \ {sessions[NodeOf[c]]}
    /\ goto(c, "reading")
    /\ UNCHANGED <<hand, mailbox, dispatchVars, rowVars, taken, evicted>>

\* One critical section: a session already registered for the node is closed, its
\* pending commands fail, and the new session takes its place.
RegisterNode(c) ==
    /\ pc[c] = "stored"
    /\ sessions' = [sessions EXCEPT ![NodeOf[c]] = c]
    /\ open' = open \ {sessions[NodeOf[c]]}
    /\ FailPending(sessions[NodeOf[c]])
    /\ goto(c, "reading")
    /\ UNCHANGED <<hand, dispatchVars, rowVars, taken, evicted>>

ReadMetric(c) ==
    /\ pc[c] = "reading"
    /\ c \in open
    /\ goto(c, "metric")
    /\ UNCHANGED <<handlerVars, mailbox, dispatchVars, mapVars, rowVars>>

\* Mutant of StoreMetric: only the registered session may report the node online.
StoreMetricIfRegistered(c) ==
    /\ pc[c] = "metric"
    /\ IF sessions[NodeOf[c]] = c THEN UpdateStatus(NodeOf[c], "online") ELSE UNCHANGED rowVars
    /\ goto(c, "reading")
    /\ UNCHANGED <<handlerVars, mailbox, dispatchVars, mapVars>>

\* Every metric message sets the row "online", whichever session the map holds.
StoreMetric(c) ==
    /\ pc[c] = "metric"
    /\ UpdateStatus(NodeOf[c], "online")
    /\ goto(c, "reading")
    /\ UNCHANGED <<handlerVars, mailbox, dispatchVars, mapVars>>

\* The agent answers a command on the connection the command came over.
ReadReply(c) ==
    /\ pc[c] = "reading"
    /\ c \in open
    /\ \E j \in received[c] : hand' = [hand EXCEPT ![c] = j]
    /\ goto(c, "reply")
    /\ UNCHANGED <<open, mailbox, dispatchVars, mapVars, rowVars>>

\* A reply to a command that is no longer pending, or already has a result, is dropped.
HandleCommandResponse(c) ==
    /\ pc[c] = "reply"
    /\ mailbox' = [mailbox EXCEPT ![hand[c]] =
                      IF hand[c] \in pending[c] /\ @ = "empty" THEN "answered" ELSE @]
    /\ hand' = [hand EXCEPT ![c] = NoJoin]
    /\ goto(c, "reading")
    /\ UNCHANGED <<open, dispatchVars, mapVars, rowVars>>

\* The agent or the network ends the connection, a read or a ping exceeds its
\* deadline, or heartbeatLoop sees no message for 25 seconds.
ConnEnds(c) ==
    /\ c \in open
    /\ open' = open \ {c}
    /\ UNCHANGED <<pc, hand, mailbox, dispatchVars, mapVars, rowVars>>

ReadFails(c) ==
    /\ pc[c] = "reading"
    /\ c \notin open
    /\ goto(c, "leaving")
    /\ UNCHANGED <<handlerVars, mailbox, dispatchVars, mapVars, rowVars>>
-----------------------------------------------------------------------------
(* UnregisterNode: the deferred call of a handler, or a call of DeleteMachine *)

\* Mutant of TakeSession: the entry is read and not deleted.
TakeSessionKeeps(p) ==
    /\ pc[p] = "leaving"
    /\ taken' = [taken EXCEPT ![p] = sessions[NodeOf[p]]]
    /\ goto(p, "marking")
    /\ UNCHANGED <<handlerVars, mailbox, dispatchVars, rowVars, sessions, evicted>>

\* First critical section: whatever session the map holds for the node is removed.
TakeSession(p) ==
    LET found == sessions[NodeOf[p]] IN
    /\ pc[p] = "leaving"
    /\ taken' = [taken EXCEPT ![p] = found]
    /\ sessions' = [sessions EXCEPT ![NodeOf[p]] = NoConn]
    /\ evicted' = evicted \cup ({found} \ {NoConn, p})
    /\ goto(p, "marking")
    /\ UNCHANGED <<handlerVars, mailbox, dispatchVars, rowVars>>

afterMarking(p) == IF taken[p] = NoConn THEN "done" ELSE "sweeping"

\* Mutant of MarkOffline: the row is only written when a session was found.
MarkOfflineIfTaken(p) ==
    /\ pc[p] = "marking"
    /\ IF taken[p] # NoConn THEN UpdateStatus(NodeOf[p], "offline") ELSE UNCHANGED rowVars
    /\ goto(p, afterMarking(p))
    /\ UNCHANGED <<handlerVars, mailbox, dispatchVars, mapVars>>

\* Between the critical sections, found or not, the row becomes "offline".
MarkOffline(p) ==
    /\ pc[p] = "marking"
    /\ UpdateStatus(NodeOf[p], "offline")
    /\ goto(p, afterMarking(p))
    /\ UNCHANGED <<handlerVars, mailbox, dispatchVars, mapVars>>

\* Mutant of Sweep: a removed session's commands are left to their callers.
SweepForgets(p) ==
    /\ pc[p] = "sweeping"
    /\ goto(p, "done")
    /\ UNCHANGED <<handlerVars, mailbox, dispatchVars, mapVars, rowVars>>

\* Second critical section: the commands pending on the removed session fail.
Sweep(p) ==
    /\ pc[p] = "sweeping"
    /\ FailPending(taken[p])
    /\ goto(p, "done")
    /\ UNCHANGED <<handlerVars, dispatchVars, mapVars, rowVars>>

\* DeleteMachine deletes the row first; without a row it returns an error.
DeleteRow(d) ==
    LET n == NodeOf[d] IN
    /\ pc[d] = "new"
    /\ machine' = [machine EXCEPT ![n] = "absent"]
    /\ joined' = joined \ {n}
    /\ goto(d, IF machine[n] = "absent" THEN "done" ELSE "leaving")
    /\ UNCHANGED <<handlerVars, mailbox, dispatchVars, mapVars>>
-----------------------------------------------------------------------------
(* JoinSwarmCluster and DispatchCommand *)

GetMachine(j) ==
    /\ pc[j] = "new"
    /\ goto(j, IF machine[NodeOf[j]] = "absent" THEN "done" ELSE "found")
    /\ UNCHANGED <<handlerVars, mailbox, dispatchVars, mapVars, rowVars>>

\* Mutant of LookUpSession: the session is used without asking whether there is one.
LookUpSessionUnchecked(j) ==
    /\ pc[j] = "found"
    /\ target' = [target EXCEPT ![j] = sessions[NodeOf[j]]]
    /\ goto(j, "looked")
    /\ UNCHANGED <<handlerVars, mailbox, pending, received, mapVars, rowVars>>

\* The session is read under the read lock; without one the node is offline, an
\* error JoinSwarmCluster ignores.
LookUpSession(j) ==
    LET found == sessions[NodeOf[j]] IN
    /\ pc[j] = "found"
    /\ target' = [target EXCEPT ![j] = found]
    /\ goto(j, IF found = NoConn THEN "joining" ELSE "looked")
    /\ UNCHANGED <<handlerVars, mailbox, pending, received, mapVars, rowVars>>

AddPending(j) ==
    /\ pc[j] = "looked"
    /\ pending' = [pending EXCEPT ![target[j]] = @ \cup {j}]
    /\ goto(j, "pending")
    /\ UNCHANGED <<handlerVars, mailbox, target, received, mapVars, rowVars>>

\* The write fails on a closed connection, and when its context ends, which may
\* close the connection.
SafeWrite(j) ==
    /\ pc[j] = "pending"
    /\ \/ /\ target[j] \in open
          /\ received' = [received EXCEPT ![target[j]] = @ \cup {j}]
          /\ goto(j, "waiting")
          /\ UNCHANGED open
       \/ /\ open' \in {open, open \ {target[j]}}
          /\ goto(j, "cleaning")
          /\ UNCHANGED received
    /\ UNCHANGED <<hand, mailbox, target, pending, mapVars, rowVars>>

TakeResult(j) ==
    /\ pc[j] = "waiting"
    /\ mailbox[j] # "empty"
    /\ goto(j, "cleaning")
    /\ UNCHANGED <<handlerVars, mailbox, dispatchVars, mapVars, rowVars>>

\* The HTTP request's context is done.
RequestEnds(j) ==
    /\ pc[j] = "waiting"
    /\ goto(j, "cleaning")
    /\ UNCHANGED <<handlerVars, mailbox, dispatchVars, mapVars, rowVars>>

\* Mutant of RemovePending: the entry is only removed once an answer came.
RemovePendingIfAnswered(j) ==
    /\ pc[j] = "cleaning"
    /\ pending' = [pending EXCEPT ![target[j]] =
                      IF mailbox[j] = "empty" THEN @ ELSE @ \ {j}]
    /\ goto(j, "joining")
    /\ UNCHANGED <<handlerVars, mailbox, target, received, mapVars, rowVars>>

\* The deferred removal, on every path out of DispatchCommand.
RemovePending(j) ==
    /\ pc[j] = "cleaning"
    /\ pending' = [pending EXCEPT ![target[j]] = @ \ {j}]
    /\ goto(j, "joining")
    /\ UNCHANGED <<handlerVars, mailbox, target, received, mapVars, rowVars>>

\* However the dispatch ended, the row, if there is one, is set "online"; the
\* statements fail when the request's context has ended.
JoinRow(j) ==
    LET n == NodeOf[j] IN
    /\ pc[j] = "joining"
    /\ \/ /\ machine[n] # "absent"
          /\ machine' = [machine EXCEPT ![n] = "online"]
          /\ joined' = joined \cup {n}
       \/ UNCHANGED rowVars
    /\ goto(j, "done")
    /\ UNCHANGED <<handlerVars, mailbox, dispatchVars, mapVars>>
-----------------------------------------------------------------------------
Serve(c) == \/ Accept(c) \/ Upsert(c) \/ RegisterNode(c)
            \/ ReadMetric(c) \/ StoreMetric(c)
            \/ ReadReply(c) \/ HandleCommandResponse(c)
            \/ ReadFails(c)

UnregisterNode(p) == TakeSession(p) \/ MarkOffline(p) \/ Sweep(p)

DispatchCommand(j) == \/ LookUpSession(j) \/ AddPending(j) \/ SafeWrite(j)
                      \/ TakeResult(j) \/ RequestEnds(j) \/ RemovePending(j)

Next ==
    \/ \E c \in Conns : Serve(c) \/ ConnEnds(c)
    \/ \E p \in Unregisterers : UnregisterNode(p)
    \/ \E d \in Deletes : DeleteRow(d)
    \/ \E j \in Joins : GetMachine(j) \/ DispatchCommand(j) \/ JoinRow(j)

SafetySpec == Init /\ [][Next]_vars

\* A handler that has work of its own continues, and one that waits for messages
\* keeps seeing the metrics an agent sends every few seconds.  Nothing is assumed of
\* replies, of the end of a request or of new connections and calls.
Fairness ==
    /\ \A c \in Conns :
          /\ WF_vars(Upsert(c) \/ RegisterNode(c))
          /\ WF_vars(StoreMetric(c) \/ HandleCommandResponse(c) \/ ReadFails(c))
          /\ SF_vars(ReadMetric(c))
    /\ \A p \in Unregisterers : WF_vars(UnregisterNode(p))
    /\ \A j \in Joins : /\ WF_vars(LookUpSession(j) \/ AddPending(j) \/ SafeWrite(j))
                        /\ WF_vars(TakeResult(j) \/ RemovePending(j) \/ JoinRow(j))

Spec == SafetySpec /\ Fairness
-----------------------------------------------------------------------------
(* Properties *)

TypeOK ==
    /\ sessions \in [Nodes -> Conns \cup {NoConn}]
    /\ open \in SUBSET Conns
    /\ machine \in [Nodes -> Status]
    /\ pc \in [Actors -> Handler \cup Unregistering \cup JoinSteps]
    /\ hand \in [Conns -> Joins \cup {NoJoin}]
    /\ taken \in [Unregisterers -> Conns \cup {NoConn}]
    /\ target \in [Joins -> Conns \cup {NoConn}]
    /\ pending \in [Conns -> SUBSET Joins]
    /\ mailbox \in [Joins -> Result]
    /\ received \in [Conns -> SUBSET Joins]
    /\ evicted \in SUBSET Conns
    /\ joined \in SUBSET Nodes
    /\ \A c \in Conns : pc[c] \in Handler \cup Unregistering \cup {"done"}
    /\ \A d \in Deletes : pc[d] \in {"new", "done"} \cup Unregistering
    /\ \A j \in Joins : pc[j] \in JoinSteps
    /\ \A c \in Conns : pc[c] = "reply" => hand[c] \in Joins
    /\ \A j \in Joins : pc[j] \in {"looked"} \cup InDispatch => target[j] \in Conns

\* No ghost sessions: a session in the map belongs to the node it is filed under and
\* its handler has yet to run the deferred UnregisterNode, so the entry is removed by
\* somebody, whatever order connections of the node come and go in
\* (RegisterNode at server.go:113, UnregisterNode at 123, the defer at 284).
MapHoldsLiveHandlers ==
    \A n \in Nodes : sessions[n] # NoConn =>
        /\ NodeOf[sessions[n]] = n
        /\ pc[sessions[n]] \in Reading \cup {"leaving"}

\* A registered node that is still connected is the one the map knows, unless some
\* other call removed it: a second connection of a node displaces and closes the first
\* one, it never leaves two open ones behind (server.go:100-113).
OpenIsRegisteredOrEvicted ==
    \A c \in open : pc[c] \in Reading => sessions[NodeOf[c]] = c \/ c \in evicted

\* When the last handler of a node is through, its machine row is not left "online",
\* although handlers of the same node write the row in any order, before they register
\* and after they unregistered (server.go:268, 361, 127); only JoinSwarmCluster, which
\* ignores that the dispatch failed, can write "online" then (controller.go:2296).
OfflineWhenAllGone ==
    \A n \in Nodes :
        (\A c \in Conns : NodeOf[c] = n => pc[c] \in {"new", "accepted", "done"})
            => machine[n] # "online" \/ n \in joined

\* PendingCommands holds only commands whose DispatchCommand call is still running and
\* chose that session: neither a failed write nor an ended request leaks an entry
\* (server.go:490, 493-497).
PendingIsInProgress ==
    \A c \in Conns : \A j \in pending[c] : target[j] = c /\ pc[j] \in InDispatch

\* Nobody waits for a reply over a connection whose handler is through: the sweeps of
\* RegisterNode and UnregisterNode reach every command that was written, also one that
\* became pending while they ran, unless the session was removed by a call that was not
\* its own handler's (server.go:104-111, 130-143 against 489-501).
NobodyWaitsOnDeadSession ==
    \A j \in Joins : pc[j] = "waiting" /\ pc[target[j]] = "done" =>
        mailbox[j] # "empty" \/ target[j] \in evicted

\* A command waiting on a connection that has ended is given up without its caller's
\* help, unless the session was evicted (server.go:503-505).
DispatchEnds ==
    \A j \in Joins :
        (pc[j] = "waiting" /\ target[j] \notin open)
            ~> (pc[j] # "waiting" \/ target[j] \in evicted)

\* A node whose agent stays connected and reports metrics does not stay "offline": the
\* late write of another handler is overwritten (server.go:127 against 361).
StatusRecovers ==
    \A c \in Conns :
        (pc[c] = "reading") ~> (machine[NodeOf[c]] # "offline" \/ c \notin open)

\* "UnregisterNode removes disconnected worker node sessions." (server.go:119).  It
\* removes connected ones: the deferred call of a displaced handler deletes the entry
\* of the session that displaced it.
RemovesDisconnected ==
    [][\A n \in Nodes : (sessions[n] # NoConn /\ sessions'[n] = NoConn)
            => sessions[n] \notin open]_vars
=============================================================================
