-------------------------- MODULE MCLeakCheckClient --------------------------
(* Instances of LeakCheckClient for TLC. *)
EXTENDS LeakCheckClient

(* An event loop without latency: no time passes between a task's turn at  *)
(* the semaphore and its request.                                          *)
Prompt == Clock => ~(Room /\ \E t \in Tasks : step[t] = "queued")
PromptSpec == ClientInit /\ [][ClientNext /\ Prompt]_clientVars
=============================================================================
