------------------------------ MODULE MCScans -------------------------------
(***************************************************************************)
(* Instances of Scans for TLC.                                             *)
(***************************************************************************)
EXTENDS Scans, TLC

CONSTANTS t1, r1, r2, d1, d2, wazuh, none

TwoScans == 1..2
OneTest == {t1}
TwoRequests == {r1, r2}
TwoDispatchers == {d1, d2}
OneSink == {wazuh}
ThreeClients == 1..3
BrokenVersions == {2}

=============================================================================
