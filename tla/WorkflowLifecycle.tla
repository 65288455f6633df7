-------------------------- MODULE WorkflowLifecycle -------------------------
(***************************************************************************)
(* What the coordinator promises of a workflow's life, whatever the        *)
(* segments, the receipts, the clock and the interleaving of calls:        *)
(*   - a workflow opens once, and becomes active at most once;             *)
(*   - at most one attempt to close it is ever made, from Active;          *)
(*   - its receipt is sealed (anchored in the meta registry) at most once, *)
(*     and only after that attempt began;                                  *)
(*   - it is Closed only after it was sealed;                              *)
(*   - any live workflow may be invalidated or expire, and the close then  *)
(*     in flight may still end it Closed: nothing else revives it.         *)
(* The last is weaker than RFC 0035, whose terminal states are final: it   *)
(* is what reference/coordinator/coordinator.js does.                      *)
(***************************************************************************)
CONSTANT Workflows

VARIABLES phase,      \* the state of each workflow
          attempted,  \* the workflows of which a close was attempted
          sealed      \* the workflows whose final receipt is anchored

vars == <<phase, attempted, sealed>>

Live    == {"Opening", "Active", "Closing"}
Stopped == {"Invalidated", "Expired"}

Init == /\ phase = [w \in Workflows |-> "NotOpened"]
        /\ attempted = {}
        /\ sealed = {}

Open(w) == /\ phase[w] = "NotOpened"
           /\ phase' = [phase EXCEPT ![w] = "Opening"]
           /\ UNCHANGED <<attempted, sealed>>

Activate(w) == /\ phase[w] = "Opening"
               /\ phase' = [phase EXCEPT ![w] = "Active"]
               /\ UNCHANGED <<attempted, sealed>>

AttemptClose(w) == /\ phase[w] = "Active"
                   /\ w \notin attempted
                   /\ phase' = [phase EXCEPT ![w] = "Closing"]
                   /\ attempted' = attempted \cup {w}
                   /\ UNCHANGED sealed

\* The registry may answer when the workflow has been stopped meanwhile.
Seal(w) == /\ w \in attempted \ sealed
           /\ phase[w] \in Stopped \cup {"Closing"}
           /\ sealed' = sealed \cup {w}
           /\ UNCHANGED <<phase, attempted>>

Finish(w) == /\ w \in sealed
             /\ phase[w] \in Stopped \cup {"Closing"}
             /\ phase' = [phase EXCEPT ![w] = "Closed"]
             /\ UNCHANGED <<attempted, sealed>>

\* Expiry stops several workflows at once, a revocation a single one.
Stop(W, end) == /\ \A w \in W : phase[w] \in Live
                /\ phase' = [w \in Workflows |-> IF w \in W THEN end ELSE phase[w]]
                /\ UNCHANGED <<attempted, sealed>>

Next == \/ \E w \in Workflows : Open(w) \/ Activate(w) \/ AttemptClose(w)
                                \/ Seal(w) \/ Finish(w)
        \/ \E W \in SUBSET Workflows : \E end \in Stopped : Stop(W, end)

Spec == Init /\ [][Next]_vars

=============================================================================
