---------------------------- MODULE MCCoordinator ---------------------------
(***************************************************************************)
(* A small manifest for the coordinator: a finance role and a land role,   *)
(* both required, with the constraint that the amount approved covers the  *)
(* price, that all segments agree on the jurisdiction, and that all are for*)
(* the one who had the workflow opened; a third, optional role may         *)
(* contribute a segment, too.                                              *)
(***************************************************************************)
EXTENDS Coordinator

MCRoles ==
    << [role_id |-> "finance", broker_category |-> "finance", required |-> TRUE,
        min_conformance |-> 2],
       [role_id |-> "land", broker_category |-> "real_estate", required |-> TRUE,
        min_conformance |-> 1] >>

MCConstraints ==
    { [fn |-> "at_least", lhs |-> <<"seg", "finance", "amount">>,
       rhs |-> <<"seg", "land", "amount">>],
      [fn |-> "equals", lhs |-> <<"all", "where">>, rhs |-> <<"lit", Str("DE")>>],
      [fn |-> "equals", lhs |-> <<"all", "principal">>, rhs |-> <<"initiator">>] }

MCInitiatorDid == Str("buyer")

MCSegment(role, broker, hash, expires, amount, where, principal) ==
    [role_id |-> role, broker_did |-> broker, match_receipt_hash |-> hash,
     expires_at |-> expires, prev_segment_hash |-> null,
     payload |-> [amount |-> Num(amount), where |-> Str(where),
                 principal |-> Str(principal)], attestations |-> {}]

\* Enough and too little money, an early and a late expiry, a foreign lawyer
\* who works for somebody else.
MCSegmentInputs ==
    { MCSegment("finance", "bank", "m1", 2, 8, "DE", "buyer"),
      MCSegment("finance", "bank", "m2", 2, 5, "DE", "buyer"),
      MCSegment("land", "registry", "m3", 1, 7, "DE", "buyer"),
      MCSegment("legal", "bank", "m4", 2, 0, "AT", "tenant") }

MCProfiles ==
    { [broker_category |-> "finance", declared_conformance |-> 2],
      [broker_category |-> "finance", declared_conformance |-> 1],
      [broker_category |-> "real_estate", declared_conformance |-> 1] }

\* The bank may still publish one profile, and cannot be selected with profit
\* before it raises its level; the land registry is at the bound.
MCInitialProfiles ==
    [bank     |-> << [broker_category |-> "finance", declared_conformance |-> 1] >>,
     registry |-> << [broker_category |-> "finance", declared_conformance |-> 1],
                     [broker_category |-> "real_estate", declared_conformance |-> 1] >>]

=============================================================================
