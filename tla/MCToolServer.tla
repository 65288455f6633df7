---------------------------- MODULE MCToolServer ----------------------------
(***************************************************************************)
(* Two principals and two actions, one limited to two invocations a        *)
(* minute, the other not at all.                                           *)
(***************************************************************************)
EXTENDS ToolServer, TLC

MCRpm == [echo |-> 2, compute_hash |-> 0]

Symmetry == Permutations(Principals)

=============================================================================
