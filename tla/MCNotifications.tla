--------------------------- MODULE MCNotifications ---------------------------
(* Instances of Notifications for TLC. *)
EXTENDS Notifications, TLC

CONSTANTS ann, bob, k1, k2

(* Two notifications for one user, or one each for two. *)
OneUser == k1 :> ann @@ k2 :> ann
TwoUsers == k1 :> ann @@ k2 :> bob

Symmetry == Permutations(Workers)
=============================================================================
