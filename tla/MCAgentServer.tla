---------------------------- MODULE MCAgentServer ----------------------------
(* Instances of AgentServer for TLC: one node, whose connections and calls race. *)
EXTENDS AgentServer, TLC

CONSTANT Node

MCNodes  == {Node}
MCNodeOf == [p \in Actors |-> Node]
Symmetry == Permutations(Conns)
=============================================================================
