---------------------------- MODULE MCBuildManager ----------------------------
(***************************************************************************)
(* Instances of BuildManager for TLC.  Every build is for the same service *)
(* so that builds meet on one service row.                                 *)
(***************************************************************************)
EXTENDS BuildManager, TLC

CONSTANTS App

MCApps  == {App}
MCAppOf == [b \in Builds |-> App]

\* Builds, workers and callers of Cancel are interchangeable.
Symmetry == Permutations(Builds) \cup Permutations(Workers) \cup Permutations(Cancellers)
=============================================================================
