--------------------------- MODULE MCConformance ---------------------------
(***************************************************************************)
(* The reference server, which founded the network; an upstart whose       *)
(* server claims L4 by itself, and which prepares a file that does; and a  *)
(* newcomer.                                                               *)
(***************************************************************************)
EXTENDS Conformance, TLC

CONSTANTS reference, upstart, newcomer, holding

MCQuota          == [L4 |-> 2]
MCRequired       == [L1 |-> {"lifecycle"}, L4 |-> {"peer-witness-min-1"}]
MCAppliesTo      == "peer-witness-min-1" :> {"L4"}
MCMinWitnesses   == ("lifecycle" :> 0) @@ ("peer-witness-min-1" :> 1)
MCFileResults    == {{"passed"}, {"passed", "failed"}, {"not_applicable"}}
MCSelfClaims     == (reference :> {"L1"}) @@ (upstart :> {"L4"}) @@ (newcomer :> {"L1"})
MCPrepared       == (reference :> {}) @@ (newcomer :> {})
                    @@ (upstart :> {[levels |-> {"L4"}, witnesses |-> 1]})
MCRuntimeVersion == (reference :> "1.0.0") @@ (upstart :> "0.1.0") @@ (newcomer :> "0.1.0")

=============================================================================
