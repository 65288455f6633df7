----------------------------- MODULE Algorithms -----------------------------
(***************************************************************************)
(* The parts of the repository that decide without keeping state.  A        *)
(* request is there from the start; one step answers it, or a search of     *)
(* many, and the properties compare the answer with what it should be.      *)
(***************************************************************************)
EXTENDS Agreement, Market, Query, RingDetection

Requests == HandshakeRequests \cup MarketRequests \cup QueryRequests \cup RingRequests

Init == request \in Requests /\ answer = None /\ SearchInit

Next ==
    \/ Agree /\ UNCHANGED searchVars
    \/ Resolve /\ UNCHANGED searchVars
    \/ Rank /\ UNCHANGED searchVars
    \/ DetectRings

Spec == Init /\ [][Next]_<<vars, searchVars>>

=============================================================================
