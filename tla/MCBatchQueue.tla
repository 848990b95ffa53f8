---------------------------- MODULE MCBatchQueue ----------------------------
(* Instances of BatchQueue for TLC. *)
EXTENDS BatchQueue, TLC

TwoBatches == 1 .. 2
OneBatch == {1}
TwoSubjects == 1 .. 2

(* Three accounts, two of which fold to one subject. *)
CONSTANTS ann, bob, bobAlias
ThreeUsers == {ann, bob, bobAlias}
AliasedSubjects == (ann :> 1) @@ (bob :> 2) @@ (bobAlias :> 2)
TwoUsers == {ann, bob}
PlainSubjects == (ann :> 1) @@ (bob :> 2)
=============================================================================
