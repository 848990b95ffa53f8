----------------------------- MODULE MCFindings -----------------------------
(* Instances of Findings for TLC. *)
EXTENDS Findings, TLC

CONSTANTS a, b, c,       \* records
          s1, s2, s3,    \* sources
          g,             \* the group they share
          p1, p2,        \* passwords
          t1             \* the scan that runs while retention is on

(* One leaked identity in three dated releases of one source; the first    *)
(* and the last carry the same password.                                   *)
ThreeRecords == {a, b, c}
ThreeSources == {s1, s2, s3}
ThreeSourceOf == (a :> s1) @@ (b :> s2) @@ (c :> s3)
ThreeGroupOf == (a :> g) @@ (b :> g) @@ (c :> g)
ThreePasswordOf == (a :> p1) @@ (b :> p2) @@ (c :> p1)

(* The two bounds that share a run.  While findings are kept for good,     *)
(* several scans see three records; no password is viewed.                 *)
KeptForGood ==
    /\ policy = "indefinite"
    /\ \A f \in Ids : state[f] # "deleted" /\ Count(f, "password_viewed") = 0
    /\ \A p \in Purgers : stage[p] = "idle"

(* While they are deleted, one scan sees two of the records, again and     *)
(* again.                                                                  *)
Deleting ==
    /\ policy # "indefinite"
    /\ \A t \in Scans \ {t1} : sources[t] = {}
    /\ \A t \in Scans : \A f \in inserted[t] : f[1] # c
    /\ \A f \in Ids : f[1] = c => state[f] = "absent"

(* Leaving a bound is not a step of the specification; the steps that are  *)
(* fair never leave one.                                                   *)
BoundedSpec ==
    /\ Init
    /\ [][Next /\ (KeptForGood' \/ Deleting')]_vars
    /\ Fairness
=============================================================================
