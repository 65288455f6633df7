------------------------------- MODULE Request -------------------------------
(***************************************************************************)
(* A part of the repository that decides without keeping state is asked     *)
(* once: the request is there from the start, and one step answers it.      *)
(***************************************************************************)
VARIABLES request, answer

vars == <<request, answer>>

None == [to |-> "none"]

Answered(kind) == answer.to = kind

=============================================================================
