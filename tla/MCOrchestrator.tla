--------------------------- MODULE MCOrchestrator ---------------------------
(***************************************************************************)
(* Orchestrator for TLC: two jobs under each of the five policies.         *)
(***************************************************************************)
EXTENDS Orchestrator

CONSTANTS a, b
MCJobIds == {a, b}

(* A transient, a permanent, and a message that has words of two classes. *)
MCErrors == {{}, {"404"}, {"dns", "404"}}

(* Worse than every saturation point of calculate_delay. *)
MCConditions == {<<8, 10>>}
=============================================================================
