---------------------------- MODULE MCLlmPipeline ----------------------------
(***************************************************************************)
(* Lengths of the classes for LlmPipeline: one field has classes shorter   *)
(* and longer than "unknown", so that a string under copy can grow, shrink *)
(* to what the copy has passed, and show what was below.                   *)
(***************************************************************************)
EXTENDS LlmPipeline

SomeLengths == [f \in Field |-> IF f = "wind" THEN {1, 5} ELSE {1}]

=============================================================================
