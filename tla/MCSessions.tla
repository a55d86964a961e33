----------------------------- MODULE MCSessions -----------------------------
(* The instance of KeyDBRefinement for TLC. *)
EXTENDS MCKeyDB, KeyDBRefinement

\* What the theorem about sessions supposes.
ASSUME OneProgram
=============================================================================
