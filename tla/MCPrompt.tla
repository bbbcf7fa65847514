------------------------------ MODULE MCPrompt ------------------------------
(***************************************************************************)
(* PromptSelect for TLC: the specification has no parameters, every        *)
(* behaviour of one selection is explored.                                 *)
(***************************************************************************)
EXTENDS PromptSelect
=============================================================================
