---------------------------- MODULE MCGoogleLogin ---------------------------
(* Instances of GoogleLogin for TLC. *)
EXTENDS GoogleLogin, TLC

CONSTANTS t1, t2, x1, x2, y, g1, g2, e1, e2

Symmetry == Permutations({t1, t2}) \cup Permutations({x1, x2}) \cup Permutations({g1, g2})
                \cup Permutations({e1, e2})

(* The directory lists everybody at first; a person leaves when the address*)
(* is given to another.                                                    *)
ListedInit == GoogleInit /\ \A g \in Subjects : mail[g] # None
ListedSpec == ListedInit /\ [][GoogleNext]_googleVars
=============================================================================
