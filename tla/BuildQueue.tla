------------------------------ MODULE BuildQueue ------------------------------
(***************************************************************************)
(* What the build manager of pkg/build promises its callers, whatever the  *)
(* database rows say: builds it accepts are started in the order in which  *)
(* they were accepted, each at most once, by a bounded number of workers;  *)
(* while it is open every accepted build is started and every started      *)
(* build ends; shutting down completes only when nothing is running.       *)
(***************************************************************************)
EXTENDS Naturals, Sequences, FiniteSets

CONSTANTS Builds,          \* build jobs
          Slots,           \* how many builds run at once
          QueueCapacity    \* how many accepted builds may wait

VARIABLES stage,   \* what became of each build
          line,    \* accepted builds that were not started, oldest first
          gate     \* "open", "closing" once a shutdown began, "shut" after it

vars == <<stage, line, gate>>

Running == {b \in Builds : stage[b] = "running"}

Init == /\ stage = [b \in Builds |-> "outside"]
        /\ line = <<>>
        /\ gate = "open"

Accept(b) == /\ gate = "open"
             /\ stage[b] = "outside"
             /\ Len(line) < QueueCapacity
             /\ stage' = [stage EXCEPT ![b] = "waiting"]
             /\ line' = Append(line, b)
             /\ UNCHANGED gate

\* The oldest waiting build gets a slot; a shutdown under way does not forbid it.
Start == /\ gate # "shut"
         /\ line # <<>>
         /\ Cardinality(Running) < Slots
         /\ stage' = [stage EXCEPT ![Head(line)] = "running"]
         /\ line' = Tail(line)
         /\ UNCHANGED gate

End(b) == /\ stage[b] = "running"
          /\ stage' = [stage EXCEPT ![b] = "over"]
          /\ UNCHANGED <<line, gate>>

BeginShut == /\ gate = "open"
             /\ gate' = "closing"
             /\ UNCHANGED <<stage, line>>

Shut == /\ gate = "closing"
        /\ Running = {}
        /\ gate' = "shut"
        /\ UNCHANGED <<stage, line>>

Next == \/ \E b \in Builds : Accept(b) \/ End(b)
        \/ Start
        \/ BeginShut
        \/ Shut

Fairness == /\ WF_vars(gate = "open" /\ Start)
            /\ \A b \in Builds : WF_vars(End(b))
            /\ WF_vars(Shut)

SafetySpec == Init /\ [][Next]_vars
Spec == SafetySpec /\ Fairness
=============================================================================
