--------------------------- MODULE MCCronScheduler ---------------------------
(* An instance of CronScheduler for TLC. *)
EXTENDS CronScheduler, TLC

CONSTANTS Often,  \* at every tick
          Rare,   \* at the third tick, and after the horizon
          Never,  \* 30 February
          Bad     \* does not parse

MCParsable  == Crons \ {Bad}
MCNextMatch ==
    [c \in MCParsable |-> [t \in Times |->
        CASE c = Often -> t + 1
          [] c = Rare  -> IF t < 3 THEN 3 ELSE Horizon + 2
          [] c = Never -> Zero]]
Symmetry    == Permutations(Loops)
==============================================================================
