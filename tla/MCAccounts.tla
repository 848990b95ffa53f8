----------------------------- MODULE MCAccounts -----------------------------
(* Instances of Accounts for TLC. *)
EXTENDS Accounts, TLC

CONSTANTS root, ann, bob, t1, t2, q1, q2

TwoUsers == {root, ann}
ThreeUsers == {root, ann, bob}
TwoRoles == {"user", "super_admin"}

(* A directory that lists ann, suspended or not, or nobody. *)
AnnListings == {ann :> FALSE, ann :> TRUE, << >>}

Symmetry == Permutations(Tokens) \cup Permutations(Requests)
=============================================================================
