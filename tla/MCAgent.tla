------------------------------- MODULE MCAgent -------------------------------
(***************************************************************************)
(* Two Tools: one costs more than the cap, the other is under embargo, so  *)
(* that it has subscriptions but gets no invocations.                      *)
(***************************************************************************)
EXTENDS Agent

MCTools == {"weather", "spam"}

=============================================================================
