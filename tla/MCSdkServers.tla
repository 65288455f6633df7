---------------------------- MODULE MCSdkServers ----------------------------
(***************************************************************************)
(* Two principals and one action, limited to one invocation a minute.       *)
(***************************************************************************)
EXTENDS SdkServers, TLC

MCRpm    == [a \in Actions |-> 1]
Symmetry == Permutations(Principals)

=============================================================================
