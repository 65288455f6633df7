-------------------------- MODULE CoordinatorProofs -------------------------
(***************************************************************************)
(* Theorems about the workflow coordinator for every manifest, every set   *)
(* of segments and every number of workflows and clients, with proofs that *)
(* TLAPS checks: what it closes and vets, the lifecycle it implements, and *)
(* the receipts, each of which in circulation is a snapshot of the         *)
(* workflow's segments, passes the chain and envelope checks of            *)
(* verifyCrossMatchReceipt, and is only replaced by one with an envelope   *)
(* that is no later.                                                       *)
(***************************************************************************)
EXTENDS Coordinator, WellFoundedInduction, TLAPS

-----------------------------------------------------------------------------
(* Lemmas about the operators of the model *)

\* A nonempty set of natural numbers has a least element.
LEMMA LeastExists ==
    ASSUME NEW T, T \subseteq Nat, T # {}
    PROVE  \E t \in T : \A u \in T : t =< u
<1> DEFINE R == OpToRel(<, Nat)
<1>1. IsWellFoundedOn(R, Nat)
  BY NatLessThanWellFounded
<1>2. PICK t \in T : \A u \in T : ~ (<<u, t>> \in R)
  <2> HIDE DEF R
  <2> QED BY <1>1, WFMin
<1>3. \A u \in T : ~ (u < t)
  BY <1>2 DEF OpToRel
<1> QED BY <1>3

\* The envelope of a nonempty sequence of segments is the earliest expiry among
\* them.
LEMMA EffectiveIsEarliest ==
    ASSUME NEW segs, DOMAIN segs # {},
           \A i \in DOMAIN segs : segs[i].expires_at \in Nat
    PROVE  /\ Effective(segs) \in Nat
           /\ \E i \in DOMAIN segs : Effective(segs) = segs[i].expires_at
           /\ \A i \in DOMAIN segs : Effective(segs) =< segs[i].expires_at
<1> DEFINE T == {segs[i].expires_at : i \in DOMAIN segs}
<1>1. T \subseteq Nat /\ T # {}
  OBVIOUS
<1>2. \E t \in T : \A u \in T : t =< u
  BY <1>1, LeastExists
<1>3. \E t \in T : \A i \in DOMAIN segs : t =< segs[i].expires_at
  BY <1>2
<1>4. Effective(segs) \in T /\ \A i \in DOMAIN segs : Effective(segs) =< segs[i].expires_at
  BY <1>3 DEF Effective
<1> QED BY <1>1, <1>4

\* A verdict is a truth value, whatever the predicate.
LEMMA VerdictIsBoolean ==
    ASSUME NEW c, NEW context
    PROVE  evaluatePredicate(c, context) \in BOOLEAN
BY DEF evaluatePredicate

LEMMA ExtendType ==
    ASSUME NEW segs \in Seq(Segment), NEW s \in SegmentInputs
    PROVE  /\ Extend(segs, s) \in Seq(Segment)
           /\ Len(Extend(segs, s)) = Len(segs) + 1
           /\ \A i \in 1 .. Len(segs) : Extend(segs, s)[i] = segs[i]
<1> DEFINE h == IF segs = <<>> THEN null ELSE segmentHash(segs[Len(segs)])
           e == [s EXCEPT !.prev_segment_hash = h]
<1>1. h \in Hash \cup {null}
  <2>1. CASE segs = <<>>
    BY <2>1
  <2>2. CASE segs # <<>>
    <3>1. segs[Len(segs)] \in Segment
      BY <2>2
    <3>2. segmentHash(segs[Len(segs)]) \in Hash
      BY <3>1 DEF segmentHash, Segment, Hash
    <3> QED BY <2>2, <3>2
  <2> QED BY <2>1, <2>2
<1>2. e \in Segment
  <2> HIDE DEF h
  <2> QED BY <1>1, SegmentAssumption DEF Segment
<1>3. Extend(segs, s) = Append(segs, e)
  BY DEF Extend
<1> HIDE DEF e
<1> QED BY <1>2, <1>3

\* A receipt is well-formed if it is made of at least one segment.
LEMMA ReceiptType ==
    ASSUME NEW segs \in Seq(Segment), segs # <<>>
    PROVE  ReceiptOf(segs) \in Receipt
<1>0. \A i \in DOMAIN segs : segs[i] \in Segment
  OBVIOUS
<1>1. [i \in DOMAIN segs |-> Wire(segs[i])] \in Seq(WireSegment)
  <2>1. \A i \in DOMAIN segs : Wire(segs[i]) \in WireSegment
    BY <1>0 DEF Wire, WireSegment, Segment
  <2> QED BY <2>1
<1>2. Effective(segs) \in Nat
  <2>1. 1 \in DOMAIN segs
    OBVIOUS
  <2>2. \A i \in DOMAIN segs : segs[i].expires_at \in Nat
    BY <1>0 DEF Segment
  <2> QED BY <2>1, <2>2, EffectiveIsEarliest
<1>3. [c \in Constraints |-> evaluatePredicate(c, evalContext(segs))]
        \in [Constraints -> BOOLEAN]
  BY VerdictIsBoolean
<1> QED BY <1>1, <1>2, <1>3 DEF ReceiptOf, Receipt

\* What op says of the other fields of a call.
LEMMA CallShape ==
    ASSUME NEW k \in Call
    PROVE  /\ k.op \in {"fetch", "answer"} =>
                 k.sel \in Selection /\ k.i \in DOMAIN ManifestRoles
           /\ k.op = "answer" => k.profile \in Profiles \cup {null}
           /\ k.op \in {"anchor", "anchored"} =>
                 /\ k.w \in Workflows /\ k.receipt \in Receipt
                 /\ [k EXCEPT !.op = "anchored"]
                       = [op |-> "anchored", w |-> k.w, receipt |-> k.receipt]
<1>1. CASE k = Idle
  BY <1>1 DEF Idle
<1>2. CASE k \in [op : {"fetch"}, sel : Selection, i : DOMAIN ManifestRoles]
  BY <1>2
<1>3. CASE k \in [op : {"answer"}, sel : Selection, i : DOMAIN ManifestRoles,
                  profile : Profiles \cup {null}]
  BY <1>3
<1>4. CASE k \in [op : {"anchor", "anchored"}, w : Workflows, receipt : Receipt]
  BY <1>4
<1> QED BY <1>1, <1>2, <1>3, <1>4 DEF Call

-----------------------------------------------------------------------------
(* Type correctness *)

\* A call only ever waits for the profile of a broker that was selected.
AsksABroker ==
    \A c \in Callers : call[c].op \in {"fetch", "answer"} =>
        call[c].sel[ManifestRoles[call[c].i].role_id] \in Brokers
TypeInv == TypeOK /\ AsksABroker

LEMMA TypeInit == Init => TypeInv
<1> SUFFICES ASSUME Init PROVE TypeInv
  OBVIOUS
<1>1. TypeOK
  BY ProfileAssumption DEF Init, TypeOK, Call, Idle, Selection
<1>2. AsksABroker
  BY DEF Init, AsksABroker, Idle
<1> QED BY <1>1, <1>2 DEF TypeInv

\* The loop of openWorkflow keeps the calls and the workflows well-formed.
LEMMA OpenFromType ==
    ASSUME TypeInv, NEW c \in Callers, NEW sel \in Selection, NEW i \in Nat, i >= 1,
           OpenFrom(c, sel, i)
    PROVE  /\ call' \in [Callers -> Call]
           /\ state' \in [Workflows -> {"NotOpened"} \cup LIVE_STATES \cup TERMINAL_STATES]
           /\ selectedBrokers' \in [Workflows -> Selection]
           /\ AsksABroker'
<1>1. CASE i > Len(ManifestRoles) /\ Create(c, sel)
  BY <1>1 DEF Create, UnusedIds, TypeInv, TypeOK, AsksABroker, Call, Idle, LIVE_STATES
<1>2. CASE /\ i =< Len(ManifestRoles)
           /\ sel[ManifestRoles[i].role_id] = null
           /\ call' = [call EXCEPT ![c] = Idle]
           /\ UNCHANGED <<state, selectedBrokers>>
  BY <1>2 DEF TypeInv, TypeOK, AsksABroker, Call, Idle
<1>3. CASE /\ i =< Len(ManifestRoles)
           /\ sel[ManifestRoles[i].role_id] # null
           /\ call' = [call EXCEPT ![c] = [op |-> "fetch", sel |-> sel, i |-> i]]
           /\ UNCHANGED <<state, selectedBrokers>>
  <2>1. i \in DOMAIN ManifestRoles
    BY <1>3, ManifestAssumption
  <2>2. sel[ManifestRoles[i].role_id] \in Brokers
    BY <2>1, <1>3 DEF Selection, RoleIds
  <2>3. [op |-> "fetch", sel |-> sel, i |-> i] \in Call
    BY <2>1 DEF Call
  <2> QED BY <1>3, <2>2, <2>3 DEF TypeInv, TypeOK, AsksABroker
<1> QED BY <1>1, <1>2, <1>3 DEF OpenFrom

\* One step per action; under each, the conjuncts of TypeOK it can disturb.
LEMMA TypeNext == TypeInv /\ [Next]_vars => TypeInv'
<1> SUFFICES ASSUME TypeInv, [Next]_vars PROVE TypeInv'
  OBVIOUS
<1> USE DEF TypeInv
<1>1. ASSUME NEW c \in Callers, NEW sel \in [RoleIds -> Brokers \cup {null}],
             openWorkflow(c, sel)
      PROVE  TypeInv'
  <2>1. OpenFrom(c, sel, 1) /\ sel \in Selection
    BY <1>1 DEF openWorkflow, Selection
  <2> QED BY <2>1, <1>1, OpenFromType DEF openWorkflow, TypeOK
<1>2. ASSUME NEW c \in Callers, BrokerAnswers(c) PROVE TypeInv'
  <2> DEFINE b == call[c].sel[ManifestRoles[call[c].i].role_id]
             a == [op |-> "answer", sel |-> call[c].sel, i |-> call[c].i,
                   profile |-> CurrentProfile(b)]
  <2>1. b \in Brokers
    BY <1>2 DEF BrokerAnswers, AsksABroker
  <2>2. CurrentProfile(b) \in Profiles \cup {null}
    <3> HIDE DEF b
    <3>1. profiles[b] \in Seq(Profiles)
      BY <2>1 DEF TypeOK
    <3>2. profiles[b] # <<>> => Len(profiles[b]) \in DOMAIN profiles[b]
      BY <3>1
    <3> QED BY <3>1, <3>2 DEF CurrentProfile
  <2>3. call[c].sel \in Selection /\ call[c].i \in DOMAIN ManifestRoles
    BY <1>2, CallShape DEF BrokerAnswers, TypeOK
  <2>4. a \in Call
    BY <2>2, <2>3 DEF Call
  <2>5. call' = [call EXCEPT ![c] = a]
    BY <1>2 DEF BrokerAnswers
  <2>6. TypeOK'
    <3> HIDE DEF a
    <3> QED BY <2>4, <2>5, <1>2 DEF BrokerAnswers, TypeOK
  <2>7. AsksABroker'
    BY <2>1, <2>5 DEF AsksABroker, TypeOK
  <2> QED BY <2>6, <2>7
<1>3. ASSUME NEW c \in Callers, openWorkflowResumes(c) PROVE TypeInv'
  <2>1. call[c].sel \in Selection /\ call[c].i \in DOMAIN ManifestRoles
    BY <1>3, CallShape DEF openWorkflowResumes, TypeOK
  <2>2. CASE OpenFrom(c, call[c].sel, call[c].i + 1)
    <3>1. call[c].i + 1 \in Nat /\ call[c].i + 1 >= 1
      BY <2>1, ManifestAssumption
    <3> QED BY <2>1, <2>2, <3>1, <1>3, OpenFromType DEF openWorkflowResumes, TypeOK
  <2>3. CASE call' = [call EXCEPT ![c] = Idle] /\ UNCHANGED <<state, selectedBrokers>>
    BY <2>3, <1>3 DEF openWorkflowResumes, TypeOK, AsksABroker, Call, Idle
  <2> QED BY <1>3, <2>2, <2>3 DEF openWorkflowResumes
<1>4. ASSUME NEW b \in Brokers, NEW p \in Profiles, BrokerPublishes(b, p) PROVE TypeInv'
  BY <1>4 DEF BrokerPublishes, TypeOK, AsksABroker
<1>5. ASSUME NEW w \in Workflows, NEW s \in SegmentInputs, ingestSegment(w, s)
      PROVE  TypeInv'
  <2>1. segments' \in [Workflows -> Seq(Segment)]
    BY <1>5, ExtendType DEF ingestSegment, Activates, TypeOK
  <2>2. /\ state' \in [Workflows -> {"NotOpened"} \cup LIVE_STATES \cup TERMINAL_STATES]
        /\ auditLog' \in [Workflows -> Seq(LIVE_STATES \cup TERMINAL_STATES)]
    <3>1. CASE /\ state' = [state EXCEPT ![w] = "Active"]
               /\ auditLog' = [auditLog EXCEPT ![w] = Append(@, "Active")]
      BY <3>1 DEF TypeOK, LIVE_STATES
    <3>2. CASE UNCHANGED <<state, auditLog>>
      BY <3>2 DEF TypeOK
    <3> QED BY <1>5, <3>1, <3>2 DEF ingestSegment, Activates
  <2> QED BY <1>5, <2>1, <2>2 DEF ingestSegment, Activates, TypeOK, AsksABroker
<1>6. ASSUME NEW w \in Workflows, buildCrossMatchReceipt(w) PROVE TypeInv'
  <2>1. ReceiptOf(segments[w]) \in Receipt
    <3>1. segments[w] \in Seq(Segment) /\ segments[w] # <<>>
      BY <1>6 DEF buildCrossMatchReceipt, TypeOK
    <3> QED BY <3>1, ReceiptType
  <2> QED BY <1>6, <2>1 DEF buildCrossMatchReceipt, TypeOK, AsksABroker
<1>7. ASSUME NEW w \in Workflows, handleRevocation(w) PROVE TypeInv'
  BY <1>7 DEF handleRevocation, AfterRevocation, TypeOK, AsksABroker, TERMINAL_STATES
<1>8. ASSUME NEW c \in Callers, NEW w \in Workflows, closeWorkflow(c, w) PROVE TypeInv'
  <2>1. lastReceipt[w] \in Receipt
    BY <1>8 DEF closeWorkflow, CanClose, AllTrue, TypeOK
  <2>2. [op |-> "anchor", w |-> w, receipt |-> lastReceipt[w]] \in Call
    BY <2>1 DEF Call
  <2> QED BY <1>8, <2>2 DEF closeWorkflow, TypeOK, AsksABroker, LIVE_STATES
<1>9. ASSUME NEW c \in Callers, RegistryAnchors(c) PROVE TypeInv'
  <2>1. call[c].w \in Workflows /\ call[c].receipt \in Receipt
    BY <1>9, CallShape DEF RegistryAnchors, TypeOK
  <2>2. [call[c] EXCEPT !.op = "anchored"]
          = [op |-> "anchored", w |-> call[c].w, receipt |-> call[c].receipt]
    BY <1>9, CallShape DEF RegistryAnchors, TypeOK
  <2>3. call' = [call EXCEPT ![c] =
                   [op |-> "anchored", w |-> call[c].w, receipt |-> call[c].receipt]]
    BY <1>9, <2>2 DEF RegistryAnchors, TypeOK
  <2>4. [op |-> "anchored", w |-> call[c].w, receipt |-> call[c].receipt] \in Call
    BY <2>1 DEF Call
  <2>5. anchored' \in [Workflows -> Seq(Receipt)]
    BY <1>9, <2>1 DEF RegistryAnchors, TypeOK
  <2>6. AsksABroker'
    BY <2>3 DEF AsksABroker, TypeOK
  <2>7. call' \in [Callers -> Call]
    BY <2>3, <2>4 DEF TypeOK
  <2> QED BY <1>9, <2>5, <2>6, <2>7 DEF RegistryAnchors, TypeOK
<1>10. ASSUME NEW c \in Callers, AnchorRejected(c) PROVE TypeInv'
  BY <1>10 DEF AnchorRejected, TypeOK, AsksABroker, Call, Idle
<1>11. ASSUME NEW c \in Callers, closeWorkflowResumes(c) PROVE TypeInv'
  <2>1. call[c].w \in Workflows
    BY <1>11, CallShape DEF closeWorkflowResumes, AnchorAnswered, TypeOK
  <2>2. call' \in [Callers -> Call] /\ AsksABroker'
    BY <1>11 DEF closeWorkflowResumes, TypeOK, AsksABroker, Call, Idle
  <2> QED BY <1>11, <2>1, <2>2 DEF closeWorkflowResumes, TypeOK, TERMINAL_STATES
<1>12. ASSUME tickExpiry PROVE TypeInv'
  BY <1>12 DEF tickExpiry, TypeOK, AsksABroker, TERMINAL_STATES
<1>13. ASSUME publishHeartbeat PROVE TypeInv'
  BY <1>13 DEF publishHeartbeat, NextCounter, TypeOK, AsksABroker
<1>14. ASSUME AdvanceClock PROVE TypeInv'
  BY <1>14 DEF AdvanceClock, TypeOK, AsksABroker
<1>15. ASSUME UNCHANGED vars PROVE TypeInv'
  BY <1>15 DEF vars, TypeOK, AsksABroker
<1> QED
  BY <1>1, <1>2, <1>3, <1>4, <1>5, <1>6, <1>7, <1>8, <1>9, <1>10, <1>11, <1>12,
     <1>13, <1>14, <1>15 DEF Next

\* In every execution, for every manifest, every variable keeps its type: no
\* handler leaves a workflow in a transitional state or a malformed receipt.
THEOREM TypeCorrect == Spec => []TypeOK
<1>1. Spec => []TypeInv
  BY TypeInit, TypeNext, PTL DEF Spec
<1> QED BY <1>1, PTL DEF TypeInv

-----------------------------------------------------------------------------
(* The closing of a workflow *)

\* The call of c is a close of w that waits for the registry.
Closes(c, w) == call[c].op \in {"anchor", "anchored"} /\ call[c].w = w

\* Before a close is attempted nothing is anchored; what is anchored is a single
\* satisfied receipt; and a workflow that was active has its required roles.
CloseOfWorkflow(w) ==
    /\ state[w] \in {"NotOpened", "Opening", "Active"} =>
          anchored[w] = <<>> /\ w \notin Attempted
    /\ state[w] = "Closed" => anchored[w] # <<>>
    /\ anchored[w] # <<>> =>
          Len(anchored[w]) = 1 /\ AllTrue(anchored[w][1]) /\ w \in Attempted
    /\ state[w] \in {"Active", "Closing"} \/ w \in Attempted =>
          RequiredPresent(segments[w])

\* A close in flight is the only one of its workflow, holds a satisfied receipt,
\* and knows whether the registry has recorded it; the workflow is closing, or
\* was stopped meanwhile.
CloseInFlight(c, w) ==
    /\ state[w] \in {"Closing", "Invalidated", "Expired"}
    /\ w \in Attempted
    /\ AllTrue(call[c].receipt)
    /\ call[c].op = "anchor" => anchored[w] = <<>>
    /\ call[c].op = "anchored" => anchored[w] # <<>>
    /\ \A d \in Callers : Closes(d, w) => d = c

CloseInv ==
    /\ \A w \in Workflows : CloseOfWorkflow(w)
    /\ \A c \in Callers, w \in Workflows : Closes(c, w) => CloseInFlight(c, w)

\* Ingesting a segment takes no role away.
LEMMA RolesGrow ==
    ASSUME NEW segs \in Seq(Segment), NEW s \in SegmentInputs, RequiredPresent(segs)
    PROVE  RequiredPresent(Extend(segs, s))
<1> DEFINE more == Extend(segs, s)
<1>0. /\ more \in Seq(Segment)
      /\ Len(more) = Len(segs) + 1
      /\ \A i \in 1 .. Len(segs) : more[i] = segs[i]
  BY ExtendType
<1> HIDE DEF more
<1>1. /\ DOMAIN segs = 1 .. Len(segs)
      /\ DOMAIN more = 1 .. Len(segs) + 1
      /\ Len(segs) \in Nat
      /\ \A i \in 1 .. Len(segs) : more[i] = segs[i]
  BY <1>0
<1> USE DEF more
<1>2. \A i \in DOMAIN segs :
          i \in DOMAIN Extend(segs, s) /\ Extend(segs, s)[i].role_id = segs[i].role_id
  BY <1>1
<1>3. PresentRoles(segs) \subseteq PresentRoles(Extend(segs, s))
  BY <1>2 DEF PresentRoles
<1> QED BY <1>3 DEF RequiredPresent

\* A close shows in the audit log, and nothing else does as one.
LEMMA AuditAppend ==
    ASSUME NEW S, NEW log \in Seq(S), NEW x \in S
    PROVE  (\E i \in DOMAIN Append(log, x) : Append(log, x)[i] = "Closing")
             <=> x = "Closing" \/ \E i \in DOMAIN log : log[i] = "Closing"
<1>1. /\ Len(Append(log, x)) = Len(log) + 1
      /\ Append(log, x)[Len(log) + 1] = x
      /\ \A i \in 1 .. Len(log) : Append(log, x)[i] = log[i]
      /\ DOMAIN Append(log, x) = 1 .. Len(log) + 1
      /\ DOMAIN log = 1 .. Len(log)
      /\ Len(log) \in Nat
  OBVIOUS
<1>2. ASSUME NEW i \in DOMAIN Append(log, x), Append(log, x)[i] = "Closing"
      PROVE  x = "Closing" \/ \E j \in DOMAIN log : log[j] = "Closing"
  BY <1>1, <1>2
<1>3. ASSUME NEW i \in DOMAIN log, log[i] = "Closing"
      PROVE  \E j \in DOMAIN Append(log, x) : Append(log, x)[j] = "Closing"
  BY <1>1, <1>3
<1>4. ASSUME x = "Closing"
      PROVE  \E j \in DOMAIN Append(log, x) : Append(log, x)[j] = "Closing"
  BY <1>1, <1>4
<1> QED BY <1>2, <1>3, <1>4

\* What the loop of openWorkflow does to the calls and the states.
LEMMA OpenFromEffect ==
    ASSUME TypeOK, NEW c \in Callers, NEW sel, NEW i, OpenFrom(c, sel, i)
    PROVE  /\ \A d \in Callers \ {c} : call'[d] = call[d]
           /\ call'[c].op \in {"idle", "fetch"}
           /\ \A w \in Workflows :
                 \/ state'[w] = state[w]
                 \/ state[w] = "NotOpened" /\ state'[w] = "Opening"
BY DEF OpenFrom, Create, UnusedIds, TypeOK, Idle

\* Steps that leave the closing alone preserve CloseInv.
LEMMA CloseFrame ==
    ASSUME TypeOK, CloseInv, UNCHANGED <<anchored, auditLog>>,
           \A w \in Workflows : \/ state'[w] = state[w]
                                \/ state[w] = "NotOpened" /\ state'[w] = "Opening",
           \A c \in Callers : \/ call'[c] = call[c]
                              \/ call'[c].op \notin {"anchor", "anchored"},
           \A w \in Workflows : RequiredPresent(segments[w]) => RequiredPresent(segments'[w])
    PROVE  CloseInv'
<1>0. Attempted' = Attempted
  BY DEF Attempted
<1>1. ASSUME NEW w \in Workflows PROVE CloseOfWorkflow(w)'
  <2>1. CloseOfWorkflow(w)
    BY DEF CloseInv
  <2>2. state'[w] \in {"Active", "Closing"} => state[w] = state'[w]
    OBVIOUS
  <2>3. RequiredPresent(segments[w]) => RequiredPresent(segments'[w])
    OBVIOUS
  <2>4. (state'[w] \in {"Active", "Closing"} \/ w \in Attempted') =>
           RequiredPresent(segments'[w])
    BY <1>0, <2>1, <2>2, <2>3 DEF CloseOfWorkflow
  <2>5. anchored'[w] = anchored[w]
    OBVIOUS
  <2> QED BY <1>0, <2>1, <2>4, <2>5 DEF CloseOfWorkflow, AllTrue
<1>2. ASSUME NEW c \in Callers, NEW w \in Workflows, Closes(c, w)'
      PROVE  CloseInFlight(c, w)'
  <2>1. call'[c] = call[c] /\ Closes(c, w) /\ CloseInFlight(c, w)
    BY <1>2 DEF CloseInv, Closes
  <2>2. \A d \in Callers : Closes(d, w)' => Closes(d, w)
    BY DEF Closes
  <2> QED BY <1>0, <2>1, <2>2 DEF CloseInFlight, AllTrue
<1> QED BY <1>1, <1>2 DEF CloseInv

\* Steps that stop live workflows, and note it in the audit log.
LEMMA CloseStop ==
    ASSUME TypeOK, CloseInv, UNCHANGED <<anchored, call, segments>>,
           NEW W \in SUBSET Workflows, NEW end \in {"Invalidated", "Expired"},
           \A w \in W : state[w] \in LIVE_STATES,
           state' = [w \in Workflows |-> IF w \in W THEN end ELSE state[w]],
           auditLog' = [w \in Workflows |->
                           IF w \in W THEN Append(auditLog[w], end) ELSE auditLog[w]]
    PROVE  CloseInv' /\ Attempted' = Attempted
<1>0. Attempted' = Attempted
  <2>1. ASSUME NEW w \in Workflows PROVE w \in Attempted' <=> w \in Attempted
    <3>1. CASE w \in W
      <4>1. auditLog'[w] = Append(auditLog[w], end)
        BY <3>1
      <4>2. auditLog[w] \in Seq(LIVE_STATES \cup TERMINAL_STATES)
        BY DEF TypeOK
      <4>3. end \in LIVE_STATES \cup TERMINAL_STATES
        BY DEF TERMINAL_STATES
      <4>4. (\E i \in DOMAIN auditLog'[w] : auditLog'[w][i] = "Closing")
              <=> \E i \in DOMAIN auditLog[w] : auditLog[w][i] = "Closing"
        <5> DEFINE S   == LIVE_STATES \cup TERMINAL_STATES
                   log == auditLog[w]
        <5>1. log \in Seq(S) /\ end \in S /\ end # "Closing"
          BY <4>2, <4>3
        <5> HIDE DEF S, log
        <5>2. (\E i \in DOMAIN Append(log, end) : Append(log, end)[i] = "Closing")
                <=> \E i \in DOMAIN log : log[i] = "Closing"
          BY <5>1, AuditAppend
        <5> QED BY <4>1, <5>2 DEF log
      <4> QED BY <4>4 DEF Attempted
    <3>2. CASE w \notin W
      BY <3>2 DEF Attempted
    <3> QED BY <3>1, <3>2
  <2> QED BY <2>1 DEF Attempted
<1>1. ASSUME NEW w \in Workflows PROVE CloseOfWorkflow(w)'
  <2>1. CloseOfWorkflow(w)
    BY DEF CloseInv
  <2>2. state'[w] = state[w] \/ state'[w] = end
    OBVIOUS
  <2> QED BY <1>0, <2>1, <2>2 DEF CloseOfWorkflow, AllTrue, RequiredPresent, PresentRoles
<1>2. ASSUME NEW c \in Callers, NEW w \in Workflows, Closes(c, w)'
      PROVE  CloseInFlight(c, w)'
  <2>1. Closes(c, w) /\ CloseInFlight(c, w)
    BY <1>2 DEF CloseInv, Closes
  <2>2. \A d \in Callers : Closes(d, w)' => Closes(d, w)
    BY DEF Closes
  <2>3. state'[w] = state[w] \/ state'[w] = end
    OBVIOUS
  <2> QED BY <1>0, <2>1, <2>2, <2>3 DEF CloseInFlight, AllTrue
<1> QED BY <1>0, <1>1, <1>2 DEF CloseInv

LEMMA CloseInit == Init => CloseInv
BY DEF Init, CloseInv, CloseOfWorkflow, Closes, Idle, Attempted

LEMMA CloseNext == TypeInv /\ CloseInv /\ [Next]_vars => CloseInv'
<1> SUFFICES ASSUME TypeInv, CloseInv, [Next]_vars PROVE CloseInv'
  OBVIOUS
<1> USE DEF TypeInv
<1>1. ASSUME NEW c \in Callers, NEW sel \in [RoleIds -> Brokers \cup {null}],
             openWorkflow(c, sel)
      PROVE  CloseInv'
  <2>1. OpenFrom(c, sel, 1)
    BY <1>1 DEF openWorkflow
  <2>2. UNCHANGED <<anchored, auditLog, segments>>
    BY <1>1 DEF openWorkflow
  <2> QED BY <2>1, <2>2, OpenFromEffect, CloseFrame
<1>2. ASSUME NEW c \in Callers, BrokerAnswers(c) PROVE CloseInv'
  <2>1. UNCHANGED <<anchored, auditLog, segments, state>>
    BY <1>2 DEF BrokerAnswers
  <2>2. \A d \in Callers : call'[d] = call[d] \/ call'[d].op \notin {"anchor", "anchored"}
    BY <1>2 DEF BrokerAnswers, TypeOK
  <2> QED BY <2>1, <2>2, CloseFrame
<1>3. ASSUME NEW c \in Callers, openWorkflowResumes(c) PROVE CloseInv'
  <2>1. UNCHANGED <<anchored, auditLog, segments>>
    BY <1>3 DEF openWorkflowResumes
  <2>2. CASE OpenFrom(c, call[c].sel, call[c].i + 1)
    BY <2>1, <2>2, OpenFromEffect, CloseFrame
  <2>3. CASE call' = [call EXCEPT ![c] = Idle] /\ UNCHANGED <<state, selectedBrokers>>
    <3>1. \A d \in Callers : call'[d] = call[d] \/ call'[d].op \notin {"anchor", "anchored"}
      BY <2>3 DEF Idle, TypeOK
    <3> QED BY <2>1, <2>3, <3>1, CloseFrame
  <2> QED BY <1>3, <2>2, <2>3 DEF openWorkflowResumes
<1>4. ASSUME NEW b \in Brokers, NEW p \in Profiles, BrokerPublishes(b, p) PROVE CloseInv'
  BY <1>4, CloseFrame DEF BrokerPublishes
<1>5. ASSUME NEW w \in Workflows, NEW s \in SegmentInputs, ingestSegment(w, s)
      PROVE  CloseInv'
  <2>0. \A v \in Workflows : RequiredPresent(segments[v]) => RequiredPresent(segments'[v])
    <3>1. segments[w] \in Seq(Segment)
      BY DEF TypeOK
    <3>2. segments'[w] = Extend(segments[w], s)
      BY <1>5 DEF ingestSegment, Activates, TypeOK
    <3>3. \A v \in Workflows \ {w} : segments'[v] = segments[v]
      BY <1>5 DEF ingestSegment, Activates, TypeOK
    <3>4. RequiredPresent(segments[w]) => RequiredPresent(segments'[w])
      BY <3>1, <3>2, RolesGrow
    <3> QED BY <3>3, <3>4
  <2>1. CASE UNCHANGED <<state, auditLog>>
    BY <2>0, <2>1, <1>5, CloseFrame DEF ingestSegment, Activates
  <2>2. CASE /\ state[w] = "Opening" /\ RequiredPresent(segments'[w])
             /\ state' = [state EXCEPT ![w] = "Active"]
             /\ auditLog' = [auditLog EXCEPT ![w] = Append(@, "Active")]
    <3>0. Attempted' = Attempted
      <4>1. auditLog[w] \in Seq(LIVE_STATES \cup TERMINAL_STATES)
        BY DEF TypeOK
      <4>2. auditLog'[w] = Append(auditLog[w], "Active")
        BY <2>2 DEF TypeOK
      <4>3. (\E i \in DOMAIN auditLog'[w] : auditLog'[w][i] = "Closing")
              <=> \E i \in DOMAIN auditLog[w] : auditLog[w][i] = "Closing"
        <5>1. "Active" \in LIVE_STATES \cup TERMINAL_STATES
          BY DEF LIVE_STATES
        <5> QED BY <4>1, <4>2, <5>1, AuditAppend
      <4>4. \A v \in Workflows \ {w} : auditLog'[v] = auditLog[v]
        BY <2>2 DEF TypeOK
      <4>5. \A v \in Workflows : v \in Attempted' <=> v \in Attempted
        BY <4>3, <4>4 DEF Attempted
      <4> QED BY <4>5 DEF Attempted
    <3>1. ASSUME NEW v \in Workflows PROVE CloseOfWorkflow(v)'
      <4>1. CloseOfWorkflow(v)
        BY DEF CloseInv
      <4>2. anchored' = anchored
        BY <1>5 DEF ingestSegment, Activates
      <4>3. CASE v = w
        BY <2>2, <3>0, <4>1, <4>2, <4>3 DEF CloseOfWorkflow, TypeOK
      <4>4. CASE v # w
        <5>1. state'[v] = state[v]
          BY <2>2, <4>4 DEF TypeOK
        <5> QED BY <2>0, <3>0, <4>1, <4>2, <5>1 DEF CloseOfWorkflow, AllTrue
      <4> QED BY <4>3, <4>4
    <3>2. ASSUME NEW c \in Callers, NEW v \in Workflows, Closes(c, v)'
          PROVE  CloseInFlight(c, v)'
      <4>1. call' = call /\ anchored' = anchored
        BY <1>5 DEF ingestSegment, Activates
      <4>2. Closes(c, v) /\ CloseInFlight(c, v)
        BY <3>2, <4>1 DEF CloseInv, Closes
      <4>3. v # w
        BY <2>2, <4>2 DEF CloseInFlight
      <4>4. state'[v] = state[v]
        BY <2>2, <4>3 DEF TypeOK
      <4> QED BY <3>0, <4>1, <4>2, <4>4 DEF CloseInFlight, AllTrue, Closes
    <3> QED BY <3>1, <3>2 DEF CloseInv
  <2> QED BY <1>5, <2>1, <2>2 DEF ingestSegment, Activates
<1>6. ASSUME NEW w \in Workflows, buildCrossMatchReceipt(w) PROVE CloseInv'
  BY <1>6, CloseFrame DEF buildCrossMatchReceipt
<1>7. ASSUME NEW w \in Workflows, handleRevocation(w) PROVE CloseInv'
  <2>1. state' = [v \in Workflows |-> IF v \in {w} THEN "Invalidated" ELSE state[v]]
    BY <1>7 DEF handleRevocation, AfterRevocation, TypeOK
  <2>2. auditLog' = [v \in Workflows |-> IF v \in {w} THEN Append(auditLog[v], "Invalidated")
                                        ELSE auditLog[v]]
    BY <1>7 DEF handleRevocation, AfterRevocation, TypeOK
  <2>3. \A v \in {w} : state[v] \in LIVE_STATES
    BY <1>7 DEF handleRevocation
  <2>4. UNCHANGED <<anchored, call, segments>>
    BY <1>7 DEF handleRevocation
  <2>5. {w} \in SUBSET Workflows
    OBVIOUS
  <2> DEFINE W == {w}
  <2> HIDE DEF W
  <2> QED BY <2>1, <2>2, <2>3, <2>4, <2>5, CloseStop DEF W
<1>8. ASSUME NEW c \in Callers, NEW w \in Workflows, closeWorkflow(c, w) PROVE CloseInv'
  <2>1. /\ state[w] = "Active" /\ AllTrue(lastReceipt[w])
        /\ call[c] = Idle
        /\ state' = [state EXCEPT ![w] = "Closing"]
        /\ call' = [call EXCEPT ![c] = [op |-> "anchor", w |-> w, receipt |-> lastReceipt[w]]]
        /\ UNCHANGED <<anchored, segments>>
    BY <1>8 DEF closeWorkflow, CanClose
  <2>2. Attempted' = Attempted \cup {w}
    <3>1. auditLog[w] \in Seq(LIVE_STATES \cup TERMINAL_STATES)
      BY DEF TypeOK
    <3>2. auditLog'[w] = Append(auditLog[w], "Closing")
      BY <1>8 DEF closeWorkflow, TypeOK
    <3>3. \E i \in DOMAIN auditLog'[w] : auditLog'[w][i] = "Closing"
      <4>1. "Closing" \in LIVE_STATES \cup TERMINAL_STATES
        BY DEF LIVE_STATES
      <4> QED BY <3>1, <3>2, <4>1, AuditAppend
    <3>4. \A v \in Workflows \ {w} : auditLog'[v] = auditLog[v]
      BY <1>8 DEF closeWorkflow, TypeOK
    <3>5. \A v \in Workflows : v \in Attempted' <=> v \in Attempted \/ v = w
      BY <3>3, <3>4 DEF Attempted
    <3> QED BY <3>5 DEF Attempted
  <2>3. ASSUME NEW d \in Callers PROVE ~ Closes(d, w)
    BY <2>1 DEF CloseInv, CloseInFlight
  <2>4. ASSUME NEW v \in Workflows PROVE CloseOfWorkflow(v)'
    <3>1. CloseOfWorkflow(v)
      BY DEF CloseInv
    <3>2. state'[v] = IF v = w THEN "Closing" ELSE state[v]
      BY <2>1 DEF TypeOK
    <3>3. anchored'[v] = anchored[v] /\ segments'[v] = segments[v]
      BY <2>1
    <3> QED BY <2>1, <2>2, <3>1, <3>2, <3>3 DEF CloseOfWorkflow, AllTrue
  <2>5. ASSUME NEW d \in Callers, NEW v \in Workflows, Closes(d, v)'
        PROVE  CloseInFlight(d, v)'
    <3>1. state'[v] = IF v = w THEN "Closing" ELSE state[v]
      BY <2>1 DEF TypeOK
    <3>2. CASE d = c
      <4>1. v = w /\ call'[c].op = "anchor" /\ call'[c].receipt = lastReceipt[w]
        BY <2>1, <2>5, <3>2 DEF Closes, TypeOK
      <4>2. anchored'[w] = <<>>
        BY <2>1 DEF CloseInv, CloseOfWorkflow
      <4>3. \A e \in Callers : Closes(e, w)' => e = c
        BY <2>1, <2>3 DEF Closes, TypeOK
      <4>4. AllTrue(call'[c].receipt) /\ w \in Attempted'
        BY <2>1, <2>2, <4>1
      <4> QED BY <3>1, <3>2, <4>1, <4>2, <4>3, <4>4 DEF CloseInFlight, AllTrue
    <3>3. CASE d # c
      <4>1. call'[d] = call[d]
        BY <2>1, <3>3 DEF TypeOK
      <4>2. Closes(d, v) /\ CloseInFlight(d, v) /\ v # w
        BY <2>3, <2>5, <4>1 DEF Closes, CloseInv
      <4>3. \A e \in Callers : Closes(e, v)' => Closes(e, v)
        BY <2>1, <4>2 DEF Closes, TypeOK
      <4> QED BY <2>1, <2>2, <3>1, <4>1, <4>2, <4>3 DEF CloseInFlight, AllTrue
    <3> QED BY <3>2, <3>3
  <2> QED BY <2>4, <2>5 DEF CloseInv
<1>9. ASSUME NEW c \in Callers, RegistryAnchors(c) PROVE CloseInv'
  <2> DEFINE w == call[c].w
             k == [op |-> "anchored", w |-> call[c].w, receipt |-> call[c].receipt]
  <2>1. w \in Workflows /\ Closes(c, w) /\ call[c].op = "anchor"
    BY <1>9, CallShape DEF RegistryAnchors, TypeOK, Closes
  <2>2. CloseInFlight(c, w)
    BY <2>1 DEF CloseInv
  <2>3. call' = [call EXCEPT ![c] = k]
    <3>1. [call[c] EXCEPT !.op = "anchored"] = k
      BY <2>1, CallShape DEF TypeOK
    <3> QED BY <1>9, <3>1 DEF RegistryAnchors
  <2>4. anchored' = [anchored EXCEPT ![w] = <<call[c].receipt>>]
    <3>1. anchored[w] = <<>>
      BY <2>1, <2>2 DEF CloseInFlight
    <3>2. Append(anchored[w], call[c].receipt) = <<call[c].receipt>>
      BY <3>1
    <3> QED BY <1>9, <3>2 DEF RegistryAnchors
  <2>5. UNCHANGED <<state, auditLog, segments>> /\ Attempted' = Attempted
    BY <1>9 DEF RegistryAnchors, Attempted
  <2>6. ASSUME NEW v \in Workflows PROVE CloseOfWorkflow(v)'
    <3>1. CloseOfWorkflow(v)
      BY DEF CloseInv
    <3>2. CASE v = w
      <4>1. anchored'[v] = <<call[c].receipt>>
        BY <2>1, <2>4, <3>2 DEF TypeOK
      <4>2. anchored'[v] # <<>> /\ Len(anchored'[v]) = 1 /\ anchored'[v][1] = call[c].receipt
        BY <4>1
      <4> QED BY <2>2, <2>5, <3>1, <3>2, <4>2 DEF CloseOfWorkflow, CloseInFlight, AllTrue
    <3>3. CASE v # w
      <4>1. anchored'[v] = anchored[v]
        BY <2>4, <3>3 DEF TypeOK
      <4> QED BY <2>5, <3>1, <4>1 DEF CloseOfWorkflow, AllTrue
    <3> QED BY <3>2, <3>3
  <2>7. ASSUME NEW d \in Callers, NEW v \in Workflows, Closes(d, v)'
        PROVE  CloseInFlight(d, v)'
    <3>0. \A e \in Callers : Closes(e, v)' => Closes(e, v)
      BY <2>1, <2>3 DEF Closes, TypeOK
    <3>1. Closes(d, v) /\ CloseInFlight(d, v)
      BY <2>7, <3>0 DEF CloseInv
    <3>2. CASE d = c
      <4>1. v = w
        BY <3>1, <3>2 DEF Closes
      <4>2. call'[d].op = "anchored" /\ call'[d].receipt = call[d].receipt
        BY <2>3, <3>2 DEF TypeOK
      <4>3. anchored'[v] # <<>>
        BY <2>1, <2>4, <4>1 DEF TypeOK
      <4> QED BY <2>5, <3>0, <3>1, <4>2, <4>3 DEF CloseInFlight, AllTrue
    <3>3. CASE d # c
      <4>1. v # w
        BY <2>2, <3>1, <3>3 DEF CloseInFlight
      <4>2. anchored'[v] = anchored[v] /\ call'[d] = call[d]
        BY <2>3, <2>4, <3>3, <4>1 DEF TypeOK
      <4> QED BY <2>5, <3>0, <3>1, <4>2 DEF CloseInFlight, AllTrue
    <3> QED BY <3>2, <3>3
  <2> QED BY <2>6, <2>7 DEF CloseInv
<1>10. ASSUME NEW c \in Callers, AnchorRejected(c) PROVE CloseInv'
  <2>1. \A d \in Callers : call'[d] = call[d] \/ call'[d].op \notin {"anchor", "anchored"}
    BY <1>10 DEF AnchorRejected, Idle, TypeOK
  <2> QED BY <1>10, <2>1, CloseFrame DEF AnchorRejected
<1>11. ASSUME NEW c \in Callers, closeWorkflowResumes(c) PROVE CloseInv'
  <2> DEFINE w == call[c].w
  <2>1. w \in Workflows /\ Closes(c, w) /\ call[c].op = "anchored"
    BY <1>11, CallShape DEF closeWorkflowResumes, AnchorAnswered, TypeOK, Closes
  <2>2. CloseInFlight(c, w)
    BY <2>1 DEF CloseInv
  <2>3. /\ state' = [state EXCEPT ![w] = "Closed"]
        /\ call' = [call EXCEPT ![c] = Idle]
        /\ UNCHANGED <<anchored, segments>>
    BY <1>11 DEF closeWorkflowResumes
  <2>4. Attempted' = Attempted
    <3>1. auditLog[w] \in Seq(LIVE_STATES \cup TERMINAL_STATES)
      BY <2>1 DEF TypeOK
    <3>2. auditLog'[w] = Append(auditLog[w], "Closed")
      BY <1>11, <2>1 DEF closeWorkflowResumes, TypeOK
    <3>3. \A v \in Workflows \ {w} : auditLog'[v] = auditLog[v]
      BY <1>11 DEF closeWorkflowResumes, TypeOK
    <3> HIDE DEF w
    <3>4. (\E i \in DOMAIN auditLog'[w] : auditLog'[w][i] = "Closing")
            <=> \E i \in DOMAIN auditLog[w] : auditLog[w][i] = "Closing"
      <4>1. "Closed" \in LIVE_STATES \cup TERMINAL_STATES
        BY DEF TERMINAL_STATES
      <4> QED BY <3>1, <3>2, <4>1, AuditAppend
    <3>5. \A v \in Workflows : v \in Attempted' <=> v \in Attempted
      BY <3>3, <3>4 DEF Attempted
    <3> QED BY <3>5 DEF Attempted
  <2>5. ASSUME NEW v \in Workflows PROVE CloseOfWorkflow(v)'
    <3>1. CloseOfWorkflow(v)
      BY DEF CloseInv
    <3>2. state'[v] = IF v = w THEN "Closed" ELSE state[v]
      BY <2>1, <2>3 DEF TypeOK
    <3> QED BY <2>1, <2>2, <2>3, <2>4, <3>1, <3>2 DEF CloseOfWorkflow, CloseInFlight, AllTrue
  <2>6. ASSUME NEW d \in Callers, NEW v \in Workflows, Closes(d, v)'
        PROVE  CloseInFlight(d, v)'
    <3>1. d # c
      BY <2>3, <2>6 DEF Closes, Idle, TypeOK
    <3>2. call'[d] = call[d]
      BY <2>3, <3>1 DEF TypeOK
    <3>3. Closes(d, v) /\ CloseInFlight(d, v)
      BY <2>6, <3>2 DEF Closes, CloseInv
    <3>4. v # w
      BY <2>2, <3>1, <3>3 DEF CloseInFlight
    <3>5. state'[v] = state[v]
      BY <2>3, <3>4 DEF TypeOK
    <3>6. \A e \in Callers : Closes(e, v)' => Closes(e, v)
      BY <2>3 DEF Closes, Idle, TypeOK
    <3> QED BY <2>3, <2>4, <3>2, <3>3, <3>5, <3>6 DEF CloseInFlight, AllTrue
  <2> QED BY <2>5, <2>6 DEF CloseInv
<1>12. ASSUME tickExpiry PROVE CloseInv'
  <2> DEFINE W == {w \in Workflows : Overdue(w)}
  <2>1. state' = [w \in Workflows |-> IF w \in W THEN "Expired" ELSE state[w]]
    BY <1>12 DEF tickExpiry
  <2>2. auditLog' = [w \in Workflows |-> IF w \in W THEN Append(auditLog[w], "Expired")
                                        ELSE auditLog[w]]
    BY <1>12 DEF tickExpiry
  <2>3. UNCHANGED <<anchored, call, segments>>
    BY <1>12 DEF tickExpiry
  <2>4. W \in SUBSET Workflows /\ \A w \in W : state[w] \in LIVE_STATES
    BY DEF Overdue
  <2> HIDE DEF W
  <2> QED BY <2>1, <2>2, <2>3, <2>4, CloseStop
<1>13. ASSUME publishHeartbeat PROVE CloseInv'
  BY <1>13, CloseFrame DEF publishHeartbeat
<1>14. ASSUME AdvanceClock PROVE CloseInv'
  BY <1>14, CloseFrame DEF AdvanceClock
<1>15. ASSUME UNCHANGED vars PROVE CloseInv'
  BY <1>15, CloseFrame DEF vars
<1> QED
  BY <1>1, <1>2, <1>3, <1>4, <1>5, <1>6, <1>7, <1>8, <1>9, <1>10, <1>11, <1>12,
     <1>13, <1>14, <1>15 DEF Next

\* The invariants hold in every reachable state.
LEMMA InvariantsHold == Spec => [](TypeInv /\ CloseInv)
<1>1. Init => TypeInv /\ CloseInv
  BY TypeInit, CloseInit
<1>2. TypeInv /\ CloseInv /\ [Next]_vars => (TypeInv /\ CloseInv)'
  BY TypeNext, CloseNext
<1> QED BY <1>1, <1>2, PTL DEF Spec

\* A closed workflow has an anchored receipt in which every constraint is
\* satisfied, whatever revocations, expiries and rebuilt receipts interleave
\* with the wait for the registry (closeWorkflow).
THEOREM ClosedCertified == Spec => []ClosedIsCertified
<1>1. TypeInv /\ CloseInv => ClosedIsCertified
  <2> SUFFICES ASSUME TypeInv, CloseInv, NEW w \in Workflows, state[w] = "Closed"
               PROVE  \E i \in DOMAIN anchored[w] : AllTrue(anchored[w][i])
    BY DEF ClosedIsCertified
  <2>1. anchored[w] \in Seq(Receipt)
    BY DEF TypeInv, TypeOK
  <2>2. Len(anchored[w]) = 1 /\ AllTrue(anchored[w][1])
    BY DEF CloseInv, CloseOfWorkflow
  <2>3. 1 \in DOMAIN anchored[w]
    BY <2>1, <2>2
  <2> QED BY <2>2, <2>3
<1> QED BY <1>1, InvariantsHold, PTL

\* No workflow ever has two receipts anchored, however many clients ask to close
\* it and whenever the registry answers (closeWorkflow).
THEOREM NeverAnchoredTwice == Spec => []AnchoredOnce
<1>1. TypeInv /\ CloseInv => AnchoredOnce
  <2> SUFFICES ASSUME TypeInv, CloseInv, NEW w \in Workflows
               PROVE  Len(anchored[w]) =< 1
    BY DEF AnchoredOnce
  <2>1. anchored[w] = <<>> \/ Len(anchored[w]) = 1
    BY DEF CloseInv, CloseOfWorkflow
  <2>2. CASE anchored[w] = <<>>
    <3>1. Len(anchored[w]) = 0
      BY <2>2
    <3> QED BY <3>1
  <2>3. CASE Len(anchored[w]) = 1
    BY <2>3
  <2> QED BY <2>1, <2>2, <2>3
<1> QED BY <1>1, InvariantsHold, PTL

\* What closes a workflow is certified, and the only certificate, whatever interleaves
\* with the wait for the registry (closeWorkflow).
THEOREM ClosesSoundly == Spec => []ClosureSound
BY ClosedCertified, NeverAnchoredTwice, PTL DEF ClosureSound

\* An active, closing or closed workflow has a segment for every required role
\* (ingestSegment, closeWorkflow).
THEOREM EngagedComplete == Spec => []EngagedHasRequired
<1>1. CloseInv => EngagedHasRequired
  BY DEF CloseInv, CloseOfWorkflow, EngagedHasRequired
<1> QED BY <1>1, InvariantsHold, PTL

-----------------------------------------------------------------------------
(* The coordinator implements the lifecycle it promises *)

LEMMA LifecycleInit == Init => Lifecycle!Init
BY DEF Init, Lifecycle!Init, Attempted, Sealed

\* Each action maps to an action of the lifecycle, or to a stutter.
LEMMA LifecycleNext ==
    TypeInv /\ CloseInv /\ [Next]_vars => [Lifecycle!Next]_(Lifecycle!vars)
<1> SUFFICES ASSUME TypeInv, CloseInv, [Next]_vars
             PROVE  Lifecycle!Next \/ UNCHANGED Lifecycle!vars
  OBVIOUS
<1> USE DEF TypeInv
<1>0. ASSUME UNCHANGED <<anchored, auditLog>>
      PROVE  UNCHANGED <<Attempted, Sealed>>
  BY <1>0 DEF Attempted, Sealed
<1>1. ASSUME UNCHANGED <<state, anchored, auditLog>> PROVE UNCHANGED Lifecycle!vars
  BY <1>0, <1>1 DEF Lifecycle!vars
<1>2. ASSUME NEW c \in Callers, NEW sel, NEW i, OpenFrom(c, sel, i),
             UNCHANGED <<anchored, auditLog>>
      PROVE  Lifecycle!Next \/ UNCHANGED Lifecycle!vars
  <2>1. CASE UNCHANGED state
    BY <1>1, <1>2, <2>1
  <2>2. CASE Create(c, sel)
    <3>1. PICK w \in UnusedIds : state' = [state EXCEPT ![w] = "Opening"]
      BY <2>2 DEF Create
    <3>2. Lifecycle!Open(w)
      BY <1>0, <1>2, <3>1 DEF Lifecycle!Open, UnusedIds
    <3> QED BY <3>1, <3>2 DEF Lifecycle!Next, UnusedIds
  <2> QED BY <1>2, <2>1, <2>2 DEF OpenFrom
<1>3. ASSUME NEW c \in Callers, NEW sel, openWorkflow(c, sel)
      PROVE  Lifecycle!Next \/ UNCHANGED Lifecycle!vars
  BY <1>2, <1>3 DEF openWorkflow
<1>4. ASSUME NEW c \in Callers, openWorkflowResumes(c)
      PROVE  Lifecycle!Next \/ UNCHANGED Lifecycle!vars
  BY <1>1, <1>2, <1>4 DEF openWorkflowResumes
<1>5. ASSUME NEW w \in Workflows, NEW s \in SegmentInputs, ingestSegment(w, s)
      PROVE  Lifecycle!Next \/ UNCHANGED Lifecycle!vars
  <2>1. CASE UNCHANGED <<state, auditLog>>
    BY <1>1, <1>5, <2>1 DEF ingestSegment, Activates
  <2>2. CASE /\ state[w] = "Opening" /\ RequiredPresent(segments'[w])
             /\ state' = [state EXCEPT ![w] = "Active"]
             /\ auditLog' = [auditLog EXCEPT ![w] = Append(@, "Active")]
    <3>1. UNCHANGED <<Attempted, Sealed>>
      <4>1. auditLog[w] \in Seq(LIVE_STATES \cup TERMINAL_STATES)
        BY DEF TypeOK
      <4>2. auditLog'[w] = Append(auditLog[w], "Active")
        BY <2>2 DEF TypeOK
      <4>3. "Active" \in LIVE_STATES \cup TERMINAL_STATES
        BY DEF LIVE_STATES
      <4>4. (\E i \in DOMAIN auditLog'[w] : auditLog'[w][i] = "Closing")
              <=> \E i \in DOMAIN auditLog[w] : auditLog[w][i] = "Closing"
        BY <4>1, <4>2, <4>3, AuditAppend
      <4>5. \A v \in Workflows \ {w} : auditLog'[v] = auditLog[v]
        BY <2>2 DEF TypeOK
      <4>6. Attempted' = Attempted
        BY <4>4, <4>5 DEF Attempted
      <4> QED BY <1>5, <4>6 DEF ingestSegment, Activates, Sealed
    <3>2. Lifecycle!Activate(w)
      BY <2>2, <3>1 DEF Lifecycle!Activate
    <3> QED BY <3>2 DEF Lifecycle!Next
  <2> QED BY <1>5, <2>1, <2>2 DEF ingestSegment, Activates
<1>6. ASSUME NEW w \in Workflows, handleRevocation(w)
      PROVE  Lifecycle!Next \/ UNCHANGED Lifecycle!vars
  <2> DEFINE W == {w}
  <2>1. /\ state' = [v \in Workflows |-> IF v \in W THEN "Invalidated" ELSE state[v]]
        /\ auditLog' = [v \in Workflows |-> IF v \in W THEN Append(auditLog[v], "Invalidated")
                                           ELSE auditLog[v]]
        /\ \A v \in W : state[v] \in LIVE_STATES
        /\ UNCHANGED <<anchored, call, segments>>
    BY <1>6 DEF handleRevocation, AfterRevocation, TypeOK
  <2>2. W \in SUBSET Workflows
    OBVIOUS
  <2> HIDE DEF W
  <2>3. Attempted' = Attempted /\ Sealed' = Sealed
    BY <2>1, <2>2, CloseStop DEF Sealed
  <2>4. Lifecycle!Stop(W, "Invalidated")
    BY <2>1, <2>3 DEF Lifecycle!Stop, Lifecycle!Live, LIVE_STATES
  <2> QED BY <2>2, <2>4 DEF Lifecycle!Next, Lifecycle!Stopped
<1>7. ASSUME tickExpiry PROVE Lifecycle!Next \/ UNCHANGED Lifecycle!vars
  <2> DEFINE W == {w \in Workflows : Overdue(w)}
  <2>1. /\ state' = [v \in Workflows |-> IF v \in W THEN "Expired" ELSE state[v]]
        /\ auditLog' = [v \in Workflows |-> IF v \in W THEN Append(auditLog[v], "Expired")
                                           ELSE auditLog[v]]
        /\ UNCHANGED <<anchored, call, segments>>
    BY <1>7 DEF tickExpiry
  <2>2. W \in SUBSET Workflows /\ \A v \in W : state[v] \in LIVE_STATES
    BY DEF Overdue
  <2> HIDE DEF W
  <2>3. Attempted' = Attempted /\ Sealed' = Sealed
    BY <2>1, <2>2, CloseStop DEF Sealed
  <2>4. Lifecycle!Stop(W, "Expired")
    BY <2>1, <2>2, <2>3 DEF Lifecycle!Stop, Lifecycle!Live, LIVE_STATES
  <2> QED BY <2>2, <2>4 DEF Lifecycle!Next, Lifecycle!Stopped
<1>8. ASSUME NEW c \in Callers, NEW w \in Workflows, closeWorkflow(c, w)
      PROVE  Lifecycle!Next \/ UNCHANGED Lifecycle!vars
  <2>1. state[w] = "Active" /\ state' = [state EXCEPT ![w] = "Closing"] /\ anchored' = anchored
    BY <1>8 DEF closeWorkflow, CanClose
  <2>2. w \notin Attempted
    BY <2>1 DEF CloseInv, CloseOfWorkflow
  <2>3. Attempted' = Attempted \cup {w}
    <3>1. auditLog[w] \in Seq(LIVE_STATES \cup TERMINAL_STATES)
      BY DEF TypeOK
    <3>2. auditLog'[w] = Append(auditLog[w], "Closing")
      BY <1>8 DEF closeWorkflow, TypeOK
    <3>3. \E i \in DOMAIN auditLog'[w] : auditLog'[w][i] = "Closing"
      <4>1. "Closing" \in LIVE_STATES \cup TERMINAL_STATES
        BY DEF LIVE_STATES
      <4> QED BY <3>1, <3>2, <4>1, AuditAppend
    <3>4. \A v \in Workflows \ {w} : auditLog'[v] = auditLog[v]
      BY <1>8 DEF closeWorkflow, TypeOK
    <3> QED BY <3>3, <3>4 DEF Attempted
  <2>4. Sealed' = Sealed
    BY <2>1 DEF Sealed
  <2>5. Lifecycle!AttemptClose(w)
    BY <2>1, <2>2, <2>3, <2>4 DEF Lifecycle!AttemptClose
  <2> QED BY <2>5 DEF Lifecycle!Next
<1>9. ASSUME NEW c \in Callers, RegistryAnchors(c)
      PROVE  Lifecycle!Next \/ UNCHANGED Lifecycle!vars
  <2> DEFINE w == call[c].w
  <2>1. w \in Workflows /\ Closes(c, w) /\ call[c].op = "anchor"
    BY <1>9, CallShape DEF RegistryAnchors, TypeOK, Closes
  <2>2. CloseInFlight(c, w)
    BY <2>1 DEF CloseInv
  <2>3. state' = state /\ Attempted' = Attempted
    BY <1>9 DEF RegistryAnchors, Attempted
  <2>4. anchored' = [anchored EXCEPT ![w] = Append(anchored[w], call[c].receipt)]
    BY <1>9 DEF RegistryAnchors
  <2>5. Sealed' = Sealed \cup {w}
    <3>0. anchored[w] \in Seq(Receipt) /\ call[c].receipt \in Receipt
      BY <2>1, CallShape DEF TypeOK
    <3>1. anchored'[w] # <<>>
      <4>1. anchored'[w] = Append(anchored[w], call[c].receipt)
        BY <2>1, <2>4 DEF TypeOK
      <4> HIDE DEF w
      <4> QED BY <3>0, <4>1
    <3>2. \A v \in Workflows \ {w} : anchored'[v] = anchored[v]
      BY <2>4 DEF TypeOK
    <3> QED BY <2>1, <3>1, <3>2 DEF Sealed
  <2>6. w \in Attempted \ Sealed /\ state[w] \in {"Invalidated", "Expired"} \cup {"Closing"}
    BY <2>1, <2>2 DEF CloseInFlight, Sealed
  <2>7. Lifecycle!Seal(w)
    BY <2>3, <2>5, <2>6 DEF Lifecycle!Seal, Lifecycle!Stopped
  <2> QED BY <2>1, <2>7 DEF Lifecycle!Next
<1>10. ASSUME NEW c \in Callers, closeWorkflowResumes(c)
       PROVE  Lifecycle!Next \/ UNCHANGED Lifecycle!vars
  <2> DEFINE w == call[c].w
  <2>1. w \in Workflows /\ Closes(c, w) /\ call[c].op = "anchored"
    BY <1>10, CallShape DEF closeWorkflowResumes, AnchorAnswered, TypeOK, Closes
  <2>2. CloseInFlight(c, w)
    BY <2>1 DEF CloseInv
  <2>3. state' = [state EXCEPT ![w] = "Closed"] /\ anchored' = anchored
    BY <1>10 DEF closeWorkflowResumes
  <2>4. Attempted' = Attempted
    <3>1. auditLog[w] \in Seq(LIVE_STATES \cup TERMINAL_STATES)
      BY <2>1 DEF TypeOK
    <3>2. auditLog'[w] = Append(auditLog[w], "Closed")
      BY <1>10, <2>1 DEF closeWorkflowResumes, TypeOK
    <3>3. \A v \in Workflows \ {w} : auditLog'[v] = auditLog[v]
      BY <1>10 DEF closeWorkflowResumes, TypeOK
    <3>4. "Closed" \in LIVE_STATES \cup TERMINAL_STATES
      BY DEF TERMINAL_STATES
    <3> HIDE DEF w
    <3>5. (\E i \in DOMAIN auditLog'[w] : auditLog'[w][i] = "Closing")
            <=> \E i \in DOMAIN auditLog[w] : auditLog[w][i] = "Closing"
      BY <3>1, <3>2, <3>4, AuditAppend
    <3> QED BY <3>3, <3>5 DEF Attempted
  <2>5. w \in Sealed /\ Sealed' = Sealed
    BY <2>1, <2>2, <2>3 DEF CloseInFlight, Sealed
  <2>6. Lifecycle!Finish(w)
    BY <2>2, <2>3, <2>4, <2>5 DEF CloseInFlight, Lifecycle!Finish, Lifecycle!Stopped
  <2> QED BY <2>1, <2>6 DEF Lifecycle!Next
<1>11. ASSUME NEW c \in Callers, BrokerAnswers(c) PROVE UNCHANGED Lifecycle!vars
  BY <1>1, <1>11 DEF BrokerAnswers
<1>12. ASSUME NEW b \in Brokers, NEW p \in Profiles, BrokerPublishes(b, p)
       PROVE  UNCHANGED Lifecycle!vars
  BY <1>1, <1>12 DEF BrokerPublishes
<1>13. ASSUME NEW w \in Workflows, buildCrossMatchReceipt(w) PROVE UNCHANGED Lifecycle!vars
  BY <1>1, <1>13 DEF buildCrossMatchReceipt
<1>14. ASSUME NEW c \in Callers, AnchorRejected(c) PROVE UNCHANGED Lifecycle!vars
  BY <1>1, <1>14 DEF AnchorRejected
<1>15. ASSUME publishHeartbeat PROVE UNCHANGED Lifecycle!vars
  BY <1>1, <1>15 DEF publishHeartbeat
<1>16. ASSUME AdvanceClock PROVE UNCHANGED Lifecycle!vars
  BY <1>1, <1>16 DEF AdvanceClock
<1>17. ASSUME UNCHANGED vars PROVE UNCHANGED Lifecycle!vars
  BY <1>1, <1>17 DEF vars
<1> QED
  BY <1>3, <1>4, <1>5, <1>6, <1>7, <1>8, <1>9, <1>10, <1>11, <1>12, <1>13, <1>14,
     <1>15, <1>16, <1>17 DEF Next

\* The coordinator implements the abstract lifecycle: one close at most, sealed
\* before it is closed, and no way back to life but the close in flight.
THEOREM Implements == Spec => ImplementsLifecycle
<1>1. Spec => [](TypeInv /\ CloseInv)
  BY InvariantsHold
<1>2. Spec => Lifecycle!Spec
  BY <1>1, LifecycleInit, LifecycleNext, PTL DEF Spec, Lifecycle!Spec
<1> QED BY <1>2 DEF ImplementsLifecycle

-----------------------------------------------------------------------------
(* The vetting of the brokers *)

\* Of what has been published, the broker selected for the j-th role has a profile
\* the role admits.
Vetted(published, sel, j) ==
    LET b == sel[ManifestRoles[j].role_id]
    IN  /\ b \in Brokers
        /\ \E k \in DOMAIN published[b] : Admits(ManifestRoles[j], published[b][k])

\* A call in the loop has vetted the roles it has passed, the profile it was given
\* was published, and only an open workflow is ever closed.
CallVetted(published, st, k) ==
    /\ k.op \in {"fetch", "answer"} =>
           \A j \in DOMAIN ManifestRoles : j < k.i => Vetted(published, k.sel, j)
    /\ k.op = "answer" /\ k.profile # null =>
           LET b == k.sel[ManifestRoles[k.i].role_id]
           IN  \E n \in DOMAIN published[b] : published[b][n] = k.profile
    /\ k.op \in {"anchor", "anchored"} => st[k.w] # "NotOpened"

VettingInv ==
    /\ \A c \in Callers : CallVetted(profiles, state, call[c])
    /\ \A w \in Workflows : state[w] # "NotOpened" =>
           \A j \in DOMAIN ManifestRoles : Vetted(profiles, selectedBrokers[w], j)

LEMMA VettingInit == Init => VettingInv
BY DEF Init, VettingInv, CallVetted, Idle

\* What was published stays published.
LEMMA ProfilesGrow ==
    ASSUME TypeInv, [Next]_vars
    PROVE  \A b \in Brokers : \A k \in DOMAIN profiles[b] :
               k \in DOMAIN profiles'[b] /\ profiles'[b][k] = profiles[b][k]
<1>1. ASSUME NEW a \in Brokers, NEW p \in Profiles, BrokerPublishes(a, p),
             NEW b \in Brokers, NEW k \in DOMAIN profiles[b]
      PROVE  k \in DOMAIN profiles'[b] /\ profiles'[b][k] = profiles[b][k]
  <2>1. profiles[b] \in Seq(Profiles)
    BY DEF TypeInv, TypeOK
  <2>2. profiles'[b] = profiles[b] \/ profiles'[b] = Append(profiles[b], p)
    BY <1>1, <2>1 DEF BrokerPublishes, TypeInv, TypeOK
  <2> QED BY <2>1, <2>2
<1> QED
  BY <1>1 DEF Next, vars, openWorkflow, BrokerAnswers, openWorkflowResumes, ingestSegment,
     buildCrossMatchReceipt, handleRevocation, closeWorkflow, RegistryAnchors, AnchorRejected,
     closeWorkflowResumes, tickExpiry, publishHeartbeat, AdvanceClock

LEMMA VettedStays ==
    ASSUME TypeInv, [Next]_vars
    PROVE  \A sel : \A j : Vetted(profiles, sel, j) => Vetted(profiles', sel, j)
BY ProfilesGrow DEF Vetted

\* A call that waits on stays vetted while workflows are opened.
LEMMA CallVettedStays ==
    ASSUME TypeInv, VettingInv, [Next]_vars, NEW c \in Callers,
           \A w \in Workflows : state[w] # "NotOpened" => state'[w] # "NotOpened"
    PROVE  CallVetted(profiles', state', call[c])
<1> DEFINE k == call[c]
           b == k.sel[ManifestRoles[k.i].role_id]
<1>1. CallVetted(profiles, state, k) /\ k \in Call
  BY DEF VettingInv, TypeInv, TypeOK
<1>2. k.op \in {"anchor", "anchored"} => k.w \in Workflows
  BY <1>1, CallShape
<1>3. k.op = "answer" => b \in Brokers
  BY DEF TypeInv, AsksABroker
<1> HIDE DEF k, b
<1>4. k.op = "answer" /\ k.profile # null =>
          \E n \in DOMAIN profiles'[b] : profiles'[b][n] = k.profile
  BY <1>1, <1>3, ProfilesGrow DEF CallVetted, b
<1>5. CallVetted(profiles', state', k)
  BY <1>1, <1>2, <1>4, VettedStays DEF CallVetted, b
<1> QED BY <1>5 DEF k

\* So of the calls only those that change, and of the workflows only those that are
\* opened, have to be looked at.
LEMMA VettingFrame ==
    ASSUME TypeInv, VettingInv, [Next]_vars,
           \A c \in Callers : call'[c] = call[c] \/ CallVetted(profiles', state', call'[c]),
           \A w \in Workflows : state[w] # "NotOpened" => state'[w] # "NotOpened",
           \A w \in Workflows :
               \/ state[w] # "NotOpened" /\ selectedBrokers'[w] = selectedBrokers[w]
               \/ state'[w] = "NotOpened"
               \/ \A j \in DOMAIN ManifestRoles : Vetted(profiles', selectedBrokers'[w], j)
    PROVE  VettingInv'
<1>1. ASSUME NEW c \in Callers PROVE CallVetted(profiles', state', call'[c])
  <2>1. CASE call'[c] = call[c]
    BY <2>1, CallVettedStays
  <2> QED BY <2>1
<1>2. ASSUME NEW w \in Workflows, state'[w] # "NotOpened", NEW j \in DOMAIN ManifestRoles
      PROVE  Vetted(profiles', selectedBrokers'[w], j)
  BY <1>2, VettedStays DEF VettingInv
<1> QED BY <1>1, <1>2 DEF VettingInv

\* The loop goes on with a selection it has vetted so far.
LEMMA OpenFromVetted ==
    ASSUME TypeInv, VettingInv, [Next]_vars, UNCHANGED profiles,
           NEW c \in Callers, NEW sel \in Selection, NEW i \in Nat,
           \A j \in DOMAIN ManifestRoles : j < i => Vetted(profiles, sel, j),
           OpenFrom(c, sel, i)
    PROVE  VettingInv'
<1>0. call \in [Callers -> Call] /\ DOMAIN ManifestRoles = 1 .. Len(ManifestRoles)
      /\ Len(ManifestRoles) \in Nat
  BY ManifestAssumption DEF TypeInv, TypeOK
<1>1. CASE i > Len(ManifestRoles) /\ Create(c, sel)
  <2>1. PICK w \in UnusedIds : /\ state' = [state EXCEPT ![w] = "Opening"]
                               /\ selectedBrokers' = [selectedBrokers EXCEPT ![w] = sel]
                               /\ call' = [call EXCEPT ![c] = Idle]
    BY <1>1 DEF Create
  <2>2. CallVetted(profiles', state', Idle)
    BY DEF CallVetted, Idle
  <2>3. \A j \in DOMAIN ManifestRoles : Vetted(profiles', sel, j)
    BY <1>0, <1>1
  <2> QED BY <1>0, <2>1, <2>2, <2>3, VettingFrame DEF UnusedIds, TypeInv, TypeOK
<1>2. CASE /\ call' = [call EXCEPT ![c] = IF sel[ManifestRoles[i].role_id] = null THEN Idle
                                          ELSE [op |-> "fetch", sel |-> sel, i |-> i]]
           /\ UNCHANGED <<state, selectedBrokers>>
  <2>1. CallVetted(profiles', state', Idle)
    BY DEF CallVetted, Idle
  <2>2. CallVetted(profiles', state', [op |-> "fetch", sel |-> sel, i |-> i])
    BY DEF CallVetted
  <2>3. CallVetted(profiles', state', call'[c])
    BY <1>0, <1>2, <2>1, <2>2
  <2>4. \A d \in Callers : call'[d] = call[d] \/ CallVetted(profiles', state', call'[d])
    BY <1>0, <1>2, <2>3
  <2>5. \A w \in Workflows : \/ state[w] # "NotOpened" /\ selectedBrokers'[w] = selectedBrokers[w]
                             \/ state'[w] = "NotOpened"
    BY <1>2
  <2> QED BY <1>2, <2>4, <2>5, VettingFrame
<1> QED BY <1>1, <1>2 DEF OpenFrom

LEMMA VettingNext == TypeInv /\ VettingInv /\ [Next]_vars => VettingInv'
<1> SUFFICES ASSUME TypeInv, VettingInv, [Next]_vars PROVE VettingInv'
  OBVIOUS
<1>0. call \in [Callers -> Call] /\ state \in [Workflows -> {"NotOpened"} \cup LIVE_STATES \cup TERMINAL_STATES]
  BY DEF TypeInv, TypeOK
<1>1. ASSUME NEW c \in Callers, NEW sel \in [RoleIds -> Brokers \cup {null}],
             openWorkflow(c, sel)
      PROVE  VettingInv'
  <2>1. \A j \in DOMAIN ManifestRoles : j < 1 => Vetted(profiles, sel, j)
    BY ManifestAssumption
  <2> QED BY <1>1, <2>1, OpenFromVetted DEF openWorkflow, Selection
<1>2. ASSUME NEW c \in Callers, BrokerAnswers(c) PROVE VettingInv'
  <2> DEFINE b == call[c].sel[ManifestRoles[call[c].i].role_id]
             a == [op |-> "answer", sel |-> call[c].sel, i |-> call[c].i,
                   profile |-> CurrentProfile(b)]
  <2>1. b \in Brokers /\ profiles[b] \in Seq(Profiles)
    BY <1>2 DEF BrokerAnswers, TypeInv, TypeOK, AsksABroker
  <2>2. CurrentProfile(b) # null =>
            \E n \in DOMAIN profiles[b] : profiles[b][n] = CurrentProfile(b)
    <3> HIDE DEF b
    <3>1. profiles[b] # <<>> => Len(profiles[b]) \in DOMAIN profiles[b]
      BY <2>1
    <3> QED BY <3>1 DEF CurrentProfile
  <2>3. CallVetted(profiles, state, call[c])
    BY DEF VettingInv
  <2>4. CallVetted(profiles, state, a)
    BY <1>2, <2>2, <2>3 DEF BrokerAnswers, CallVetted
  <2>5. call' = [call EXCEPT ![c] = a] /\ UNCHANGED <<profiles, state, selectedBrokers>>
    BY <1>2 DEF BrokerAnswers
  <2> HIDE DEF a
  <2> QED BY <1>0, <2>4, <2>5, VettingFrame
<1>3. ASSUME NEW c \in Callers, openWorkflowResumes(c) PROVE VettingInv'
  <2> DEFINE k == call[c]
  <2>1. k.sel \in Selection /\ k.i \in DOMAIN ManifestRoles /\ k.op = "answer"
        /\ CallVetted(profiles, state, k)
    <3>1. call[c] \in Call /\ call[c].op = "answer" /\ CallVetted(profiles, state, call[c])
      BY <1>0, <1>3 DEF openWorkflowResumes, VettingInv
    <3> QED BY <3>1, CallShape
  <2>2. CASE Admits(ManifestRoles[k.i], k.profile) /\ OpenFrom(c, k.sel, k.i + 1)
    <3>1. Vetted(profiles, k.sel, k.i)
      <4>1. k.profile # null /\ k.sel[ManifestRoles[k.i].role_id] \in Brokers
        BY <2>1, <2>2 DEF Admits, TypeInv, AsksABroker
      <4> HIDE DEF k
      <4> QED BY <2>1, <2>2, <4>1 DEF Vetted, CallVetted
    <3>2. k.i \in Nat /\ \A j \in DOMAIN ManifestRoles : j < k.i + 1 => j < k.i \/ j = k.i
      BY <2>1, ManifestAssumption
    <3>3. \A j \in DOMAIN ManifestRoles : j < k.i + 1 => Vetted(profiles, k.sel, j)
      BY <2>1, <3>1, <3>2 DEF CallVetted
    <3> QED BY <1>3, <2>1, <2>2, <3>2, <3>3, OpenFromVetted DEF openWorkflowResumes
  <2>3. CASE call' = [call EXCEPT ![c] = Idle] /\ UNCHANGED <<state, selectedBrokers>>
    <3>1. CallVetted(profiles', state', Idle)
      BY DEF CallVetted, Idle
    <3> QED BY <1>0, <1>3, <2>3, <3>1, VettingFrame DEF openWorkflowResumes
  <2> QED BY <1>3, <2>2, <2>3 DEF openWorkflowResumes
<1>4. ASSUME UNCHANGED <<call, selectedBrokers>>,
             \A w \in Workflows : state'[w] = "NotOpened" <=> state[w] = "NotOpened"
      PROVE  VettingInv'
  BY <1>4, VettingFrame
<1>6. ASSUME NEW w \in Workflows,
             (\E s \in SegmentInputs : ingestSegment(w, s)) \/ handleRevocation(w)
      PROVE  VettingInv'
  <2>1. UNCHANGED <<call, selectedBrokers>> /\ state[w] \in LIVE_STATES
    BY <1>6 DEF ingestSegment, AcceptsSegments, handleRevocation
  <2>2. \/ state' = state
        \/ \E x \in {"Active", "Invalidated"} : state' = [state EXCEPT ![w] = x]
    BY <1>6 DEF ingestSegment, handleRevocation, AfterRevocation
  <2> QED BY <1>0, <1>4, <2>1, <2>2 DEF LIVE_STATES
<1>7. ASSUME NEW c \in Callers, NEW w \in Workflows, closeWorkflow(c, w) PROVE VettingInv'
  <2> DEFINE k == [op |-> "anchor", w |-> w, receipt |-> lastReceipt[w]]
  <2>1. CallVetted(profiles', state', k)
    BY <1>0, <1>7 DEF closeWorkflow, CallVetted
  <2>2. call' = [call EXCEPT ![c] = k]
        /\ state' = [state EXCEPT ![w] = "Closing"] /\ state[w] = "Active"
        /\ UNCHANGED selectedBrokers
    BY <1>7 DEF closeWorkflow, CanClose
  <2>3. CallVetted(profiles', state', call'[c])
    <3> HIDE DEF k
    <3>1. call'[c] = k
      BY <1>0, <2>2
    <3> QED BY <2>1, <3>1
  <2> QED BY <1>0, <2>2, <2>3, VettingFrame
<1>8. ASSUME NEW c \in Callers, RegistryAnchors(c) PROVE VettingInv'
  <2>1. /\ call' = [call EXCEPT ![c].op = "anchored"]
        /\ UNCHANGED <<profiles, state, selectedBrokers>> /\ call[c].op = "anchor"
        /\ CallVetted(profiles, state, call[c])
    BY <1>8 DEF RegistryAnchors, VettingInv
  <2>2. call'[c] = [op |-> "anchored", w |-> call[c].w, receipt |-> call[c].receipt]
    BY <1>0, <2>1, CallShape
  <2>3. CallVetted(profiles', state', call'[c])
    BY <2>1, <2>2 DEF CallVetted
  <2> QED BY <1>0, <2>1, <2>3, VettingFrame
<1>9. ASSUME NEW c \in Callers, AnchorRejected(c) PROVE VettingInv'
  <2>1. CallVetted(profiles', state', Idle)
    BY DEF CallVetted, Idle
  <2> QED BY <1>0, <1>9, <2>1, VettingFrame DEF AnchorRejected
<1>10. ASSUME NEW c \in Callers, closeWorkflowResumes(c) PROVE VettingInv'
  <2>1. call[c].w \in Workflows /\ state[call[c].w] # "NotOpened"
    BY <1>0, <1>10, CallShape DEF closeWorkflowResumes, AnchorAnswered, VettingInv, CallVetted
  <2>2. CallVetted(profiles', state', Idle)
    BY DEF CallVetted, Idle
  <2>3. call'[c] = Idle /\ \A d \in Callers : call'[d] = call[d] \/ call'[d] = Idle
    BY <1>0, <1>10 DEF closeWorkflowResumes
  <2>4. state' = [state EXCEPT ![call[c].w] = "Closed"] /\ UNCHANGED selectedBrokers
    BY <1>10 DEF closeWorkflowResumes
  <2>5. \A w \in Workflows : state'[w] = "NotOpened" <=> state[w] = "NotOpened"
    BY <1>0, <2>1, <2>4
  <2> QED BY <2>2, <2>3, <2>4, <2>5, VettingFrame
<1>11. ASSUME tickExpiry PROVE VettingInv'
  BY <1>0, <1>4, <1>11 DEF tickExpiry, Overdue, LIVE_STATES
<1>12. ASSUME \/ \E w \in Workflows : buildCrossMatchReceipt(w)
              \/ \E b \in Brokers, p \in Profiles : BrokerPublishes(b, p)
              \/ publishHeartbeat \/ AdvanceClock \/ UNCHANGED vars
       PROVE  VettingInv'
  BY <1>4, <1>12 DEF buildCrossMatchReceipt, BrokerPublishes, publishHeartbeat, AdvanceClock, vars
<1> QED BY <1>1, <1>2, <1>3, <1>6, <1>7, <1>8, <1>9, <1>10, <1>11, <1>12 DEF Next

\* A workflow is open only with brokers that were vetted for each of its roles,
\* although their profiles change while openWorkflow waits (openWorkflow).
THEOREM OpensVetted == Spec => []OpenedVetted
<1>1. TypeInv /\ VettingInv => OpenedVetted
  BY DEF VettingInv, Vetted, OpenedVetted
<1>2. TypeInv /\ VettingInv /\ [Next]_vars => (TypeInv /\ VettingInv)'
  BY TypeNext, VettingNext
<1> QED BY TypeInit, VettingInit, <1>1, <1>2, PTL DEF Spec

-----------------------------------------------------------------------------
(* The receipts *)

\* segs is more with nothing of it changed.
Grows(segs, more) == /\ Len(segs) =< Len(more)
                     /\ \A i \in 1 .. Len(segs) : more[i] = segs[i]

Chained(segs) ==
    \A i \in DOMAIN segs : i > 1 => segs[i].prev_segment_hash = segmentHash(segs[i - 1])

IsSnapshot(r, w) == \E n \in 2 .. Len(segments[w]) : r = ReceiptOf(Prefix(segments[w], n))

SnapshotInv ==
    \A w \in Workflows : /\ Chained(segments[w])
                         /\ \A r \in Circulating(w) : IsSnapshot(r, w)

-----------------------------------------------------------------------------
(* Lemmas about prefixes and chains *)

LEMMA PrefixType ==
    ASSUME NEW segs \in Seq(Segment), NEW n \in 1 .. Len(segs)
    PROVE  /\ Prefix(segs, n) \in Seq(Segment)
           /\ Prefix(segs, n) # <<>>
           /\ Len(Prefix(segs, n)) = n
           /\ DOMAIN Prefix(segs, n) = 1 .. n
           /\ \A i \in 1 .. n : Prefix(segs, n)[i] = segs[i]
<1>1. \A i \in 1 .. n : segs[i] \in Segment
  OBVIOUS
<1>2. Prefix(segs, n) \in Seq(Segment) /\ Len(Prefix(segs, n)) = n
  BY <1>1 DEF Prefix
<1> QED BY <1>2 DEF Prefix

LEMMA PrefixOfAll ==
    ASSUME NEW segs \in Seq(Segment)
    PROVE  Prefix(segs, Len(segs)) = segs
BY DEF Prefix

LEMMA PrefixGrows ==
    ASSUME NEW segs \in Seq(Segment), NEW more \in Seq(Segment), Grows(segs, more),
           NEW n \in 1 .. Len(segs)
    PROVE  Prefix(more, n) = Prefix(segs, n)
BY DEF Prefix, Grows

LEMMA ExtendChained ==
    ASSUME NEW segs \in Seq(Segment), NEW s \in SegmentInputs, Chained(segs)
    PROVE  Chained(Extend(segs, s)) /\ Grows(segs, Extend(segs, s))
<1> DEFINE n == Len(segs)
           e == [s EXCEPT !.prev_segment_hash =
                     IF segs = <<>> THEN null ELSE segmentHash(segs[Len(segs)])]
<1>1. Extend(segs, s) = Append(segs, e)
  BY DEF Extend
<1>2. /\ DOMAIN Extend(segs, s) = 1 .. n + 1
      /\ Extend(segs, s)[n + 1] = e
      /\ n \in Nat
      /\ \A i \in 1 .. n : Extend(segs, s)[i] = segs[i]
      /\ Len(Extend(segs, s)) = n + 1
  <2> HIDE DEF e
  <2> QED BY <1>1, ExtendType
<1>3. segs # <<>> => e.prev_segment_hash = segmentHash(segs[n])
  BY SegmentAssumption
<1>4. ASSUME NEW i \in 1 .. n + 1, i > 1
      PROVE  Extend(segs, s)[i].prev_segment_hash = segmentHash(Extend(segs, s)[i - 1])
  <2>1. CASE i \in 1 .. n
    <3>1. i - 1 \in 1 .. n
      BY <1>2, <1>4, <2>1
    <3>2. Extend(segs, s)[i] = segs[i] /\ Extend(segs, s)[i - 1] = segs[i - 1]
      BY <1>2, <2>1, <3>1
    <3>3. i \in DOMAIN segs
      BY <2>1
    <3> QED BY <1>4, <3>2, <3>3 DEF Chained
  <2>2. CASE i = n + 1
    <3> HIDE DEF e
    <3>1. n \in 1 .. n /\ segs # <<>>
      BY <1>2, <1>4, <2>2
    <3>2. Extend(segs, s)[i - 1] = segs[n]
      BY <1>2, <2>2, <3>1
    <3>3. Extend(segs, s)[i] = e
      BY <1>2, <2>2
    <3> QED BY <1>3, <3>1, <3>2, <3>3
  <2> QED BY <1>2, <2>1, <2>2
<1>5. Chained(Extend(segs, s))
  BY <1>2, <1>4 DEF Chained
<1>6. Grows(segs, Extend(segs, s))
  BY <1>2 DEF Grows
<1> QED BY <1>5, <1>6

\* A longer prefix has an envelope that is no later.
LEMMA EnvelopeOfMore ==
    ASSUME NEW segs \in Seq(Segment), NEW m \in 1 .. Len(segs), NEW n \in 1 .. m
    PROVE  Effective(Prefix(segs, m)) =< Effective(Prefix(segs, n))
<1> DEFINE M == Prefix(segs, m)
           N == Prefix(segs, n)
<1>1. n \in 1 .. Len(segs)
  OBVIOUS
<1>2. /\ DOMAIN M = 1 .. m /\ DOMAIN N = 1 .. n
      /\ \A i \in 1 .. n : M[i] = segs[i] /\ N[i] = segs[i]
      /\ \A i \in 1 .. m : M[i] = segs[i]
  BY <1>1, PrefixType
<1>3. \A i \in 1 .. m : segs[i].expires_at \in Nat
  <2>1. \A i \in 1 .. m : segs[i] \in Segment
    OBVIOUS
  <2> QED BY <2>1 DEF Segment
<1> HIDE DEF M, N
<1>4. DOMAIN M # {} /\ DOMAIN N # {}
  <2>1. n \in 1 .. m /\ n \in 1 .. n
    OBVIOUS
  <2> QED BY <1>2, <2>1
<1>5. /\ \A i \in DOMAIN M : M[i].expires_at \in Nat
      /\ \A i \in DOMAIN N : N[i].expires_at \in Nat
  BY <1>2, <1>3
<1>6. PICK i \in DOMAIN N : Effective(N) = N[i].expires_at
  BY <1>4, <1>5, EffectiveIsEarliest
<1>7. i \in DOMAIN M /\ M[i].expires_at = Effective(N)
  BY <1>2, <1>6
<1>8. Effective(M) =< M[i].expires_at
  BY <1>4, <1>5, <1>7, EffectiveIsEarliest
<1> QED BY <1>7, <1>8 DEF M, N

\* The receipt of chained segments passes the first two checks of the verifier.
LEMMA ReceiptVerifies ==
    ASSUME NEW segs \in Seq(Segment), segs # <<>>, Chained(segs)
    PROVE  ChainHolds(ReceiptOf(segs)) /\ EnvelopeHolds(ReceiptOf(segs))
<1> DEFINE ws == [i \in DOMAIN segs |-> Wire(segs[i])]
<1>1. /\ ReceiptOf(segs).segments = ws
      /\ ReceiptOf(segs).effective_expires_at = Effective(segs)
  BY DEF ReceiptOf
<1>2. \A i \in DOMAIN segs : segs[i] \in Segment
  OBVIOUS
<1>3. \A i \in DOMAIN segs :
          /\ ws[i].prev_segment_hash = segs[i].prev_segment_hash
          /\ ws[i].expires_at = segs[i].expires_at
          /\ segmentHash(ws[i]) = segmentHash(segs[i])
  BY DEF Wire, segmentHash
<1>4. DOMAIN ws = DOMAIN segs /\ DOMAIN segs = 1 .. Len(segs) /\ Len(segs) \in Nat
  OBVIOUS
<1>5. 1 \in DOMAIN segs
  BY <1>4
<1>6. \A i \in DOMAIN segs : segs[i].expires_at \in Nat
  BY <1>2 DEF Segment
<1> HIDE DEF ws
<1>7. \A i \in DOMAIN ws : i > 1 => ws[i].prev_segment_hash = segmentHash(ws[i - 1])
  <2> SUFFICES ASSUME NEW i \in DOMAIN ws, i > 1
               PROVE  ws[i].prev_segment_hash = segmentHash(ws[i - 1])
    OBVIOUS
  <2>1. i \in DOMAIN segs /\ i - 1 \in DOMAIN segs
    BY <1>4
  <2> QED BY <1>3, <2>1 DEF Chained
<1>8. Effective(ws) = Effective(segs)
  <2>1. /\ Effective(segs) \in Nat
        /\ \E i \in DOMAIN segs : Effective(segs) = segs[i].expires_at
        /\ \A i \in DOMAIN segs : Effective(segs) =< segs[i].expires_at
    BY <1>5, <1>6, EffectiveIsEarliest
  <2>2. DOMAIN ws # {} /\ \A i \in DOMAIN ws : ws[i].expires_at \in Nat
    BY <1>3, <1>4, <1>5, <1>6
  <2>3. /\ Effective(ws) \in Nat
        /\ \E i \in DOMAIN ws : Effective(ws) = ws[i].expires_at
        /\ \A i \in DOMAIN ws : Effective(ws) =< ws[i].expires_at
    BY <2>2, EffectiveIsEarliest
  <2>4. Effective(ws) =< Effective(segs) /\ Effective(segs) =< Effective(ws)
    BY <1>3, <1>4, <2>1, <2>3
  <2> QED BY <2>1, <2>3, <2>4
<1> QED BY <1>1, <1>7, <1>8 DEF ChainHolds, EnvelopeHolds

-----------------------------------------------------------------------------
(* The receipts in circulation *)

LEMMA SnapshotInit == Init => SnapshotInv
BY DEF Init, SnapshotInv, Chained, Circulating, Idle

\* Segments only grow by chained segments, and a receipt that comes into
\* circulation was there before or is the receipt of all segments.
LEMMA SnapshotStep ==
    ASSUME TypeInv, TypeInv', SnapshotInv,
           \A w \in Workflows :
               \/ segments'[w] = segments[w]
               \/ \E s \in SegmentInputs : segments'[w] = Extend(segments[w], s),
           \A w \in Workflows : \A r \in Circulating(w)' :
               \/ r \in Circulating(w)
               \/ Len(segments[w]) >= 2 /\ r = ReceiptOf(segments[w])
    PROVE  SnapshotInv'
<1> SUFFICES ASSUME NEW w \in Workflows
             PROVE  /\ Chained(segments'[w])
                    /\ \A r \in Circulating(w)' : IsSnapshot(r, w)'
  BY DEF SnapshotInv
<1>1. segments[w] \in Seq(Segment) /\ segments'[w] \in Seq(Segment)
  BY DEF TypeInv, TypeOK
<1>2. Chained(segments[w]) /\ \A r \in Circulating(w) : IsSnapshot(r, w)
  BY DEF SnapshotInv
<1>3. Chained(segments'[w]) /\ Grows(segments[w], segments'[w])
  <2>1. CASE segments'[w] = segments[w]
    BY <1>1, <1>2, <2>1 DEF Grows
  <2>2. CASE \E s \in SegmentInputs : segments'[w] = Extend(segments[w], s)
    BY <1>1, <1>2, <2>2, ExtendChained
  <2> QED BY <2>1, <2>2
<1>4. Len(segments[w]) \in Nat /\ Len(segments'[w]) \in Nat
  BY <1>1
<1>5. ASSUME NEW r \in Circulating(w)' PROVE IsSnapshot(r, w)'
  <2>1. PICK n \in 2 .. Len(segments[w]) : r = ReceiptOf(Prefix(segments[w], n))
    <3>1. CASE r \in Circulating(w)
      BY <1>2, <3>1 DEF IsSnapshot
    <3>2. CASE Len(segments[w]) >= 2 /\ r = ReceiptOf(segments[w])
      <4>1. Len(segments[w]) \in 2 .. Len(segments[w])
        BY <1>4, <3>2
      <4>2. r = ReceiptOf(Prefix(segments[w], Len(segments[w])))
        BY <1>1, <3>2, PrefixOfAll
      <4> QED BY <4>1, <4>2
    <3> QED BY <3>1, <3>2
  <2>2. n \in 1 .. Len(segments[w]) /\ n \in 2 .. Len(segments'[w])
    BY <1>3, <1>4, <2>1 DEF Grows
  <2>3. Prefix(segments'[w], n) = Prefix(segments[w], n)
    BY <1>1, <1>3, <2>2, PrefixGrows
  <2> QED BY <2>1, <2>2, <2>3 DEF IsSnapshot
<1> QED BY <1>3, <1>5

LEMMA SnapshotNext == TypeInv /\ TypeInv' /\ SnapshotInv /\ [Next]_vars => SnapshotInv'
<1> SUFFICES ASSUME TypeInv, TypeInv', SnapshotInv, [Next]_vars PROVE SnapshotInv'
  OBVIOUS
<1> DEFINE Kept == \A w \in Workflows : segments'[w] = segments[w]
           None == \A w \in Workflows : Circulating(w)' \subseteq Circulating(w)
<1>0. ASSUME Kept, None PROVE SnapshotInv'
  BY <1>0, SnapshotStep
\* Calls that do not wait for the registry carry no receipt.
<1>1. ASSUME UNCHANGED <<segments, lastReceipt, anchored, heartbeatStore>>,
             \A c \in Callers : call'[c] = call[c] \/ call'[c].op \notin {"anchor", "anchored"}
      PROVE  SnapshotInv'
  <2>1. None
    BY <1>1 DEF Circulating
  <2> QED BY <1>0, <1>1, <2>1
<1>2. ASSUME NEW c \in Callers, NEW sel, NEW i, OpenFrom(c, sel, i),
             UNCHANGED <<segments, lastReceipt, anchored, heartbeatStore>>
      PROVE  SnapshotInv'
  <2>1. \A d \in Callers : call'[d] = call[d] \/ call'[d].op \notin {"anchor", "anchored"}
    BY <1>2, OpenFromEffect DEF TypeInv
  <2> QED BY <1>1, <1>2, <2>1
<1>3. ASSUME NEW c \in Callers, NEW sel, openWorkflow(c, sel) PROVE SnapshotInv'
  BY <1>2, <1>3 DEF openWorkflow
<1>4. ASSUME NEW c \in Callers, BrokerAnswers(c) PROVE SnapshotInv'
  <2>1. \A d \in Callers : call'[d] = call[d] \/ call'[d].op \notin {"anchor", "anchored"}
    BY <1>4 DEF BrokerAnswers, TypeInv, TypeOK
  <2> QED BY <1>1, <1>4, <2>1 DEF BrokerAnswers
<1>5. ASSUME NEW c \in Callers, openWorkflowResumes(c) PROVE SnapshotInv'
  <2>1. CASE call' = [call EXCEPT ![c] = Idle]
    <3>1. \A d \in Callers : call'[d] = call[d] \/ call'[d].op \notin {"anchor", "anchored"}
      BY <2>1 DEF Idle, TypeInv, TypeOK
    <3> QED BY <1>1, <1>5, <3>1 DEF openWorkflowResumes
  <2> QED BY <1>2, <1>5, <2>1 DEF openWorkflowResumes
<1>6. ASSUME NEW b \in Brokers, NEW p \in Profiles, BrokerPublishes(b, p)
      PROVE  SnapshotInv'
  BY <1>1, <1>6 DEF BrokerPublishes
<1>7. ASSUME NEW w \in Workflows, NEW s \in SegmentInputs, ingestSegment(w, s)
      PROVE  SnapshotInv'
  <2>1. None
    BY <1>7 DEF ingestSegment, Circulating
  <2>2. \A v \in Workflows :
            \/ segments'[v] = segments[v]
            \/ \E t \in SegmentInputs : segments'[v] = Extend(segments[v], t)
    BY <1>7 DEF ingestSegment, TypeInv, TypeOK
  <2> QED BY <2>1, <2>2, SnapshotStep
<1>8. ASSUME NEW w \in Workflows, buildCrossMatchReceipt(w) PROVE SnapshotInv'
  <2>1. /\ Len(segments[w]) >= 2
        /\ lastReceipt' = [lastReceipt EXCEPT ![w] = ReceiptOf(segments[w])]
        /\ UNCHANGED <<call, segments, anchored, heartbeatStore>>
    BY <1>8 DEF buildCrossMatchReceipt
  <2>2. \A v \in Workflows : lastReceipt'[v] = IF v = w THEN ReceiptOf(segments[w])
                                              ELSE lastReceipt[v]
    BY <2>1 DEF TypeInv, TypeOK
  <2>3. ASSUME NEW v \in Workflows, NEW r \in Circulating(v)'
        PROVE  r \in Circulating(v) \/ (Len(segments[v]) >= 2 /\ r = ReceiptOf(segments[v]))
    BY <2>1, <2>2 DEF Circulating
  <2> QED BY <2>1, <2>3, SnapshotStep
<1>9. ASSUME NEW w \in Workflows, handleRevocation(w) PROVE SnapshotInv'
  BY <1>1, <1>9 DEF handleRevocation
<1>10. ASSUME NEW c \in Callers, NEW w \in Workflows, closeWorkflow(c, w)
       PROVE  SnapshotInv'
  <2>1. /\ call' = [call EXCEPT ![c] =
                      [op |-> "anchor", w |-> w, receipt |-> lastReceipt[w]]]
        /\ UNCHANGED <<segments, lastReceipt, anchored, heartbeatStore>>
    BY <1>10 DEF closeWorkflow
  <2>2. \A d \in Callers : call'[d] = IF d = c
                THEN [op |-> "anchor", w |-> w, receipt |-> lastReceipt[w]] ELSE call[d]
    BY <2>1 DEF TypeInv, TypeOK
  <2>3. None
    BY <2>1, <2>2 DEF Circulating
  <2> QED BY <1>0, <2>1, <2>3
<1>11. ASSUME NEW c \in Callers, RegistryAnchors(c) PROVE SnapshotInv'
  <2> DEFINE w == call[c].w
             k == [op |-> "anchored", w |-> call[c].w, receipt |-> call[c].receipt]
  <2>1. call[c].op = "anchor" /\ w \in Workflows
    BY <1>11, CallShape DEF RegistryAnchors, TypeInv, TypeOK
  <2>2. [call[c] EXCEPT !.op = "anchored"] = k
    BY <2>1, CallShape DEF TypeInv, TypeOK
  <2>3. \A d \in Callers : call'[d] = IF d = c THEN k ELSE call[d]
    BY <1>11, <2>2 DEF RegistryAnchors, TypeInv, TypeOK
  <2>4. \A v \in Workflows : anchored'[v] = IF v = w THEN Append(anchored[w], call[c].receipt)
                                           ELSE anchored[v]
    BY <1>11 DEF RegistryAnchors, TypeInv, TypeOK
  <2>5. UNCHANGED <<segments, lastReceipt, heartbeatStore>>
    BY <1>11 DEF RegistryAnchors
  <2>6. ASSUME NEW v \in Workflows, NEW i \in DOMAIN anchored'[v]
        PROVE  anchored'[v][i] \in {anchored[v][j] : j \in DOMAIN anchored[v]}
                   \/ (v = w /\ anchored'[v][i] = call[c].receipt)
    <3>1. anchored[w] \in Seq(Receipt)
      BY <2>1 DEF TypeInv, TypeOK
    <3> HIDE DEF w
    <3>2. CASE v = w
      <4>1. anchored'[v] = Append(anchored[w], call[c].receipt)
        BY <2>4, <3>2
      <4>2. i \in 1 .. Len(anchored[w]) + 1
        BY <2>6, <3>1, <4>1
      <4>3. \/ anchored'[v][i] = anchored[w][i] /\ i \in DOMAIN anchored[w]
            \/ anchored'[v][i] = call[c].receipt
        BY <3>1, <4>1, <4>2
      <4> QED BY <3>2, <4>3
    <3>3. CASE v # w
      BY <2>4, <2>6, <3>3
    <3> QED BY <3>2, <3>3
  <2>7. ASSUME NEW v \in Workflows, NEW r \in Circulating(v)' PROVE r \in Circulating(v)
    <3>1. CASE \E i \in DOMAIN anchored'[v] : r = anchored'[v][i]
      BY <2>1, <2>6, <2>7, <3>1 DEF Circulating
    <3>2. CASE \E d \in Callers : /\ call'[d].op \in {"anchor", "anchored"}
                                 /\ call'[d].w = v /\ r = call'[d].receipt
      BY <2>1, <2>3, <2>7, <3>2 DEF Circulating
    <3> QED BY <2>5, <2>7, <3>1, <3>2 DEF Circulating
  <2> QED BY <1>0, <2>5, <2>7
<1>12. ASSUME NEW c \in Callers, AnchorRejected(c) PROVE SnapshotInv'
  <2>1. \A d \in Callers : call'[d] = call[d] \/ call'[d].op \notin {"anchor", "anchored"}
    BY <1>12 DEF AnchorRejected, Idle, TypeInv, TypeOK
  <2> QED BY <1>1, <1>12, <2>1 DEF AnchorRejected
<1>13. ASSUME NEW c \in Callers, closeWorkflowResumes(c) PROVE SnapshotInv'
  <2>1. \A d \in Callers : call'[d] = call[d] \/ call'[d].op \notin {"anchor", "anchored"}
    BY <1>13 DEF closeWorkflowResumes, Idle, TypeInv, TypeOK
  <2> QED BY <1>1, <1>13, <2>1 DEF closeWorkflowResumes
<1>14. ASSUME tickExpiry PROVE SnapshotInv'
  BY <1>1, <1>14 DEF tickExpiry
<1>15. ASSUME publishHeartbeat PROVE SnapshotInv'
  <2>1. UNCHANGED <<call, segments, lastReceipt, anchored>>
    BY <1>15 DEF publishHeartbeat
  <2>2. \A w \in Workflows : \/ heartbeatStore'[w] = heartbeatStore[w]
                            \/ heartbeatStore'[w].latest_receipt = lastReceipt[w]
    <3> SUFFICES ASSUME NEW w \in Workflows
                 PROVE  \/ heartbeatStore'[w] = heartbeatStore[w]
                        \/ heartbeatStore'[w].latest_receipt = lastReceipt[w]
      OBVIOUS
    <3>1. CASE state[w] \in LIVE_STATES
      <4>1. \E k : heartbeatStore'[w] = [counter |-> k, latest_receipt |-> lastReceipt[w]]
        BY <1>15, <3>1 DEF publishHeartbeat
      <4> QED BY <4>1
    <3>2. CASE state[w] \notin LIVE_STATES
      BY <1>15, <3>2 DEF publishHeartbeat
    <3> QED BY <3>1, <3>2
  <2>3. None
    BY <2>1, <2>2 DEF Circulating
  <2> QED BY <1>0, <2>1, <2>3
<1>16. ASSUME AdvanceClock PROVE SnapshotInv'
  BY <1>1, <1>16 DEF AdvanceClock
<1>17. ASSUME UNCHANGED vars PROVE SnapshotInv'
  BY <1>1, <1>17 DEF vars
<1> QED
  BY <1>3, <1>4, <1>5, <1>6, <1>7, <1>8, <1>9, <1>10, <1>11, <1>12, <1>13, <1>14,
     <1>15, <1>16, <1>17 DEF Next

\* The invariants hold in every reachable state.
LEMMA SnapshotsHold == Spec => [](TypeInv /\ SnapshotInv)
<1>1. Init => TypeInv /\ SnapshotInv
  BY TypeInit, SnapshotInit
<1>2. TypeInv /\ SnapshotInv /\ [Next]_vars => (TypeInv /\ SnapshotInv)'
  BY TypeNext, SnapshotNext
<1> QED BY <1>1, <1>2, PTL DEF Spec

\* Every receipt in circulation is the receipt of an initial part of the
\* workflow's segments, at least two (ingestSegment, buildCrossMatchReceipt).
THEOREM SnapshotsOnly == Spec => []ReceiptsAreSnapshots
<1>1. TypeInv /\ SnapshotInv => ReceiptsAreSnapshots
  <2> SUFFICES ASSUME TypeInv, SnapshotInv, NEW w \in Workflows, NEW r \in Circulating(w)
               PROVE  /\ Len(r.segments) \in 2 .. Len(segments[w])
                      /\ r = ReceiptOf(Prefix(segments[w], Len(r.segments)))
    BY DEF ReceiptsAreSnapshots
  <2>1. segments[w] \in Seq(Segment)
    BY DEF TypeInv, TypeOK
  <2>2. PICK n \in 2 .. Len(segments[w]) : r = ReceiptOf(Prefix(segments[w], n))
    BY DEF SnapshotInv, IsSnapshot
  <2>3. DOMAIN Prefix(segments[w], n) = 1 .. n
    BY DEF Prefix
  <2>4. r.segments = [i \in 1 .. n |-> Wire(Prefix(segments[w], n)[i])]
    BY <2>2, <2>3 DEF ReceiptOf
  <2>5. Len(r.segments) = n
    BY <2>1, <2>2, <2>4
  <2> QED BY <2>2, <2>5
<1> QED BY <1>1, SnapshotsHold, PTL

\* verifyCrossMatchReceipt finds no break of the chain and no mismatch of the
\* envelope in any receipt the coordinator ever lets out, wherever between two
\* ingested segments it was built (ingestSegment, buildCrossMatchReceipt).
THEOREM ReceiptsPass == Spec => []ReceiptsVerify
<1>1. TypeInv /\ SnapshotInv => ReceiptsVerify
  <2> SUFFICES ASSUME TypeInv, SnapshotInv, NEW w \in Workflows, NEW r \in Circulating(w)
               PROVE  ChainHolds(r) /\ EnvelopeHolds(r)
    BY DEF ReceiptsVerify
  <2>1. segments[w] \in Seq(Segment) /\ Chained(segments[w])
    BY DEF TypeInv, TypeOK, SnapshotInv
  <2>2. PICK n \in 2 .. Len(segments[w]) : r = ReceiptOf(Prefix(segments[w], n))
    BY DEF SnapshotInv, IsSnapshot
  <2>3. n \in 1 .. Len(segments[w]) /\ Len(segments[w]) \in Nat
    BY <2>1, <2>2
  <2> DEFINE p == Prefix(segments[w], n)
  <2>4. /\ p \in Seq(Segment) /\ p # <<>> /\ DOMAIN p = 1 .. n
        /\ \A i \in 1 .. n : p[i] = segments[w][i]
    BY <2>1, <2>3, PrefixType
  <2> HIDE DEF p
  <2>5. Chained(p)
    <3> SUFFICES ASSUME NEW i \in 1 .. n, i > 1
                 PROVE  p[i].prev_segment_hash = segmentHash(p[i - 1])
      BY <2>4 DEF Chained
    <3>1. i \in DOMAIN segments[w] /\ i - 1 \in 1 .. n
      BY <2>1, <2>3
    <3>2. segments[w][i].prev_segment_hash = segmentHash(segments[w][i - 1])
      BY <2>1, <3>1 DEF Chained
    <3> QED BY <2>4, <3>1, <3>2
  <2>6. r = ReceiptOf(p)
    BY <2>2 DEF p
  <2> QED BY <2>4, <2>5, <2>6, ReceiptVerifies
<1> QED BY <1>1, SnapshotsHold, PTL

\* Whatever the coordinator lets out is a snapshot of the segments it kept, and verifies.
THEOREM ReceiptsHold == Spec => []ReceiptsSound
BY SnapshotsOnly, ReceiptsPass, PTL DEF ReceiptsSound

-----------------------------------------------------------------------------
(* The envelope of the last receipt *)

\* Only buildCrossMatchReceipt replaces the last receipt.
LEMMA ReceiptReplaced ==
    ASSUME TypeInv, [Next]_vars, NEW w \in Workflows
    PROVE  \/ lastReceipt'[w] = lastReceipt[w]
           \/ /\ Len(segments[w]) >= 2
              /\ lastReceipt'[w] = ReceiptOf(segments[w])
              /\ UNCHANGED <<clock, state>>
<1> DEFINE Same == lastReceipt' = lastReceipt
<1>1. ASSUME NEW v \in Workflows, buildCrossMatchReceipt(v)
      PROVE  \/ lastReceipt'[w] = lastReceipt[w]
             \/ /\ Len(segments[w]) >= 2
                /\ lastReceipt'[w] = ReceiptOf(segments[w])
                /\ UNCHANGED <<clock, state>>
  BY <1>1 DEF buildCrossMatchReceipt, TypeInv, TypeOK
<1>2. CASE UNCHANGED vars
  BY <1>2 DEF vars
<1>3. CASE \E c \in Callers : \/ \E sel \in [RoleIds -> Brokers \cup {null}] : openWorkflow(c, sel)
                              \/ BrokerAnswers(c) \/ openWorkflowResumes(c)
                              \/ RegistryAnchors(c) \/ AnchorRejected(c)
                              \/ closeWorkflowResumes(c)
                              \/ \E v \in Workflows : closeWorkflow(c, v)
  BY <1>3 DEF openWorkflow, BrokerAnswers, openWorkflowResumes, RegistryAnchors,
              AnchorRejected, closeWorkflowResumes, closeWorkflow
<1>4. CASE \E v \in Workflows : handleRevocation(v) \/ \E s \in SegmentInputs : ingestSegment(v, s)
  BY <1>4 DEF handleRevocation, ingestSegment
<1>5. CASE \/ tickExpiry \/ publishHeartbeat \/ AdvanceClock
           \/ \E b \in Brokers : \E p \in Profiles : BrokerPublishes(b, p)
  BY <1>5 DEF tickExpiry, publishHeartbeat, AdvanceClock, BrokerPublishes
<1> QED BY <1>1, <1>2, <1>3, <1>4, <1>5 DEF Next

\* A rebuilt receipt covers at least the segments of the one it replaces and
\* has an envelope that is no later.
LEMMA RebuiltShrinks ==
    ASSUME TypeInv, SnapshotInv, NEW w \in Workflows, lastReceipt[w] # null,
           Len(segments[w]) >= 2
    PROVE  LET new == ReceiptOf(segments[w])
           IN  /\ new # null
               /\ Len(new.segments) >= Len(lastReceipt[w].segments)
               /\ new.effective_expires_at =< lastReceipt[w].effective_expires_at
<1> DEFINE segs == segments[w]
           m    == Len(segs)
<1>1. segs \in Seq(Segment) /\ m \in Nat /\ segs # <<>>
  <2>1. segs \in Seq(Segment) /\ m \in Nat
    BY DEF TypeInv, TypeOK
  <2>2. segs # <<>>
    OBVIOUS
  <2> QED BY <2>1, <2>2
<1>2. PICK n \in 2 .. m : lastReceipt[w] = ReceiptOf(Prefix(segs, n))
  <2>1. lastReceipt[w] \in Circulating(w)
    BY DEF Circulating
  <2> QED BY <2>1 DEF SnapshotInv, IsSnapshot
<1> HIDE DEF segs
<1>3. ReceiptOf(segs) # null
  BY <1>1, ReceiptType, NullAssumption
<1>4. n \in 1 .. m /\ m \in 1 .. m /\ n =< m
  BY <1>1, <1>2
<1>5. Prefix(segs, m) = segs /\ DOMAIN segs = 1 .. m
  BY <1>1, PrefixOfAll
<1>6. Effective(segs) =< Effective(Prefix(segs, n))
  BY <1>1, <1>4, <1>5, EnvelopeOfMore
<1>7. DOMAIN Prefix(segs, n) = 1 .. n
  BY DEF Prefix
<1>8. /\ ReceiptOf(segs).segments = [i \in 1 .. m |-> Wire(segs[i])]
      /\ ReceiptOf(Prefix(segs, n)).segments = [i \in 1 .. n |-> Wire(Prefix(segs, n)[i])]
      /\ ReceiptOf(segs).effective_expires_at = Effective(segs)
      /\ ReceiptOf(Prefix(segs, n)).effective_expires_at = Effective(Prefix(segs, n))
  BY <1>5, <1>7 DEF ReceiptOf
<1>9. Len(ReceiptOf(segs).segments) = m /\ Len(lastReceipt[w].segments) = n
  BY <1>1, <1>2, <1>4, <1>8
<1>10. ReceiptOf(segs).effective_expires_at =< lastReceipt[w].effective_expires_at
  BY <1>2, <1>6, <1>8
<1>11. Len(ReceiptOf(segs).segments) >= Len(lastReceipt[w].segments)
  BY <1>1, <1>4, <1>9
<1> QED BY <1>3, <1>10, <1>11 DEF segs

\* A receipt that replaces another covers at least its segments and does not
\* extend its envelope (buildCrossMatchReceipt).
THEOREM NoRevival == Spec => EnvelopeShrinks
<1>1. TypeInv /\ TypeInv' /\ SnapshotInv /\ [Next]_vars =>
        [\A w \in Workflows : lastReceipt[w] # null =>
            /\ lastReceipt'[w] # null
            /\ Len(lastReceipt'[w].segments) >= Len(lastReceipt[w].segments)
            /\ lastReceipt'[w].effective_expires_at =< lastReceipt[w].effective_expires_at]_vars
  <2> SUFFICES ASSUME TypeInv, TypeInv', SnapshotInv, [Next]_vars,
                      NEW w \in Workflows, lastReceipt[w] # null
               PROVE  /\ lastReceipt'[w] # null
                      /\ Len(lastReceipt'[w].segments) >= Len(lastReceipt[w].segments)
                      /\ lastReceipt'[w].effective_expires_at
                            =< lastReceipt[w].effective_expires_at
    OBVIOUS
  <2>1. CASE lastReceipt'[w] = lastReceipt[w]
    <3>1. lastReceipt[w] \in Receipt
      BY DEF TypeInv, TypeOK
    <3>2. /\ Len(lastReceipt[w].segments) \in Nat
          /\ lastReceipt[w].effective_expires_at \in Nat
      BY <3>1 DEF Receipt
    <3> QED BY <2>1, <3>2
  <2>2. CASE Len(segments[w]) >= 2 /\ lastReceipt'[w] = ReceiptOf(segments[w])
    BY <2>2, RebuiltShrinks
  <2> QED BY <2>1, <2>2, ReceiptReplaced
<1> QED BY <1>1, SnapshotsHold, PTL DEF EnvelopeShrinks, Spec

\* An expired workflow has a receipt whose envelope lies in the past, although
\* the receipt may have been rebuilt since (tickExpiry).
THEOREM ExpiredIsOverdue == Spec => []ExpirySound
<1>1. Init => ExpirySound
  BY DEF Init, ExpirySound
<1>2. TypeInv /\ TypeInv' /\ SnapshotInv /\ ExpirySound /\ [Next]_vars => ExpirySound'
  <2> SUFFICES ASSUME TypeInv, TypeInv', SnapshotInv, ExpirySound, [Next]_vars,
                      NEW w \in Workflows, state'[w] = "Expired"
               PROVE  /\ lastReceipt'[w] # null
                      /\ lastReceipt'[w].effective_expires_at < clock'
    BY DEF ExpirySound
  <2>1. clock \in Nat /\ clock' \in Nat /\ clock' >= clock
    <3>1. clock' = clock \/ clock' = clock + 1
      BY DEF Next, vars, openWorkflow, BrokerAnswers, openWorkflowResumes, BrokerPublishes,
             ingestSegment, buildCrossMatchReceipt, handleRevocation, closeWorkflow,
             RegistryAnchors, AnchorRejected, closeWorkflowResumes, tickExpiry,
             publishHeartbeat, AdvanceClock
    <3> QED BY <3>1 DEF TypeInv, TypeOK
  <2>2. CASE state[w] = "Expired"
    <3>1. lastReceipt[w] # null /\ lastReceipt[w].effective_expires_at < clock
      BY <2>2 DEF ExpirySound
    <3>2. lastReceipt[w].effective_expires_at \in Nat
      BY <3>1 DEF TypeInv, TypeOK, Receipt
    <3>3. CASE lastReceipt'[w] = lastReceipt[w]
      BY <2>1, <3>1, <3>2, <3>3
    <3>4. CASE Len(segments[w]) >= 2 /\ lastReceipt'[w] = ReceiptOf(segments[w])
      <4>1. /\ lastReceipt'[w] # null
            /\ lastReceipt'[w].effective_expires_at =< lastReceipt[w].effective_expires_at
        BY <3>1, <3>4, RebuiltShrinks
      <4>2. lastReceipt'[w].effective_expires_at \in Nat
        BY <4>1 DEF TypeInv, TypeOK, Receipt
      <4> QED BY <2>1, <3>1, <3>2, <4>1, <4>2
    <3> QED BY <3>3, <3>4, ReceiptReplaced
  <2>3. CASE state[w] # "Expired"
    <3>1. tickExpiry
      <4>1. /\ \A c \in Callers : \A sel : ~openWorkflow(c, sel)
            /\ \A c \in Callers : ~openWorkflowResumes(c)
        BY <2>3 DEF openWorkflow, openWorkflowResumes, OpenFrom, Create, TypeInv, TypeOK
      <4>2. /\ \A v \in Workflows : ~handleRevocation(v)
            /\ \A c \in Callers, v \in Workflows : ~closeWorkflow(c, v)
            /\ \A c \in Callers : ~closeWorkflowResumes(c)
        BY <2>3 DEF handleRevocation, AfterRevocation, closeWorkflow, closeWorkflowResumes,
               TypeInv, TypeOK
      <4>3. /\ \A v \in Workflows : \A s : ~ingestSegment(v, s)
            /\ \A v \in Workflows : ~buildCrossMatchReceipt(v)
        BY <2>3 DEF ingestSegment, buildCrossMatchReceipt, TypeInv, TypeOK
      <4>4. state' # state
        BY <2>3
      <4> QED BY <4>1, <4>2, <4>3, <4>4
              DEF Next, vars, BrokerAnswers, BrokerPublishes, RegistryAnchors, AnchorRejected,
                  publishHeartbeat, AdvanceClock
    <3>2. Overdue(w) /\ lastReceipt' = lastReceipt /\ clock' = clock
      BY <2>3, <3>1 DEF tickExpiry
    <3> QED BY <3>2 DEF Overdue
  <2> QED BY <2>2, <2>3
<1> QED BY <1>1, <1>2, SnapshotsHold, PTL DEF Spec

=============================================================================
