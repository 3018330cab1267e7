--------------------------- MODULE MCOrchestrator ---------------------------
(***************************************************************************)
(* TLC instance of Orchestrator: a provider without tickers or with one of *)
(* two sets of them, and the number of calls of Start that may overlap (in *)
(* the configuration).                                                     *)
(***************************************************************************)
EXTENDS Orchestrator

CONSTANTS a, b

MCIDSets == {{}, {a}, {b}}
=============================================================================
