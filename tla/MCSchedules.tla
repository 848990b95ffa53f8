----------------------------- MODULE MCSchedules -----------------------------
(* Instances of Schedules for TLC. *)
EXTENDS Schedules, TLC

CONSTANTS often, seldom

(* One expression that fires at every tick, and one at every third. *)
Cron == often :> [t \in 0..MaxTime + 1 |-> t]
        @@ seldom :> [t \in 0..MaxTime + 1 |-> 3 * ((t + 2) \div 3)]

Symmetry == Permutations(Workers)
=============================================================================
