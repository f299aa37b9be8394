---------------------------- MODULE MCOrchestrator ----------------------------
(* Instances of Orchestrator for TLC: the first step uses a tool of high risk. *)
EXTENDS Orchestrator

MCMaxAttempts == [i \in Step |-> IF i = 2 THEN 2 ELSE 1]
MCRiskOf == [i \in Step |-> IF i = 1 THEN {"low", "high"} ELSE {}]
=============================================================================
