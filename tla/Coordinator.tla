---------------------------- MODULE Coordinator -----------------------------
(***************************************************************************)
(* The workflow coordinator of reference/coordinator (RFC 0035): it opens  *)
(* cross broker workflows, ingests the segments the brokers contribute,    *)
(* signs Cross Match Receipts over them, and closes, invalidates or        *)
(* expires the workflow.                                                   *)
(*                                                                         *)
(* The code runs on one event loop, so a stretch of it between two awaits  *)
(* is one action.  openWorkflow awaits the Broker Category Profile of each *)
(* role in turn and closeWorkflow awaits the registry's anchor; every call *)
(* suspended at such an await is kept in `call', and every other operation *)
(* may run before it resumes.  The brokers' registry of profiles and the   *)
(* meta registry that anchors receipts are external: they are modelled by  *)
(* the answers the code waits for.                                         *)
(***************************************************************************)
EXTENDS Naturals, Sequences, FiniteSets, Predicates

CONSTANTS
    Workflows,        \* the workflow ids the run may hand out
    Callers,          \* the clients of openWorkflow and closeWorkflow
    Brokers,          \* broker DIDs
    ManifestRoles,    \* manifest.roles, a sequence of records
    InitiatorDid,     \* who has the workflows opened, as a value of Predicates
    Constraints,      \* manifest.consistency_constraints: predicate records
    SegmentInputs,    \* the segments that may be handed to ingestSegment
    Profiles,         \* the Broker Category Profiles a broker may publish
    InitialProfiles,  \* the profiles each broker has published at the start
    MaxClock,         \* bound on the clock
    MaxSegments,      \* bound on the segments of a workflow
    MaxHeartbeats,    \* bound on the rounds of heartbeats
    MaxProfiles,      \* bound on the profiles a broker publishes
    null              \* no broker, profile, receipt, hash or heartbeat

Role    == [role_id : STRING, broker_category : STRING,
            required : BOOLEAN, min_conformance : Nat]
Profile == [broker_category : STRING, declared_conformance : Nat]

ASSUME ManifestAssumption == ManifestRoles \in Seq(Role)
ASSUME ProfileAssumption ==
    /\ Profiles \subseteq Profile
    /\ InitialProfiles \in [Brokers -> Seq(Profiles)]
    /\ null \notin Brokers
    /\ null \notin Profiles
ASSUME SegmentAssumption ==
    SegmentInputs \subseteq [role_id            : STRING,
                             broker_did         : Brokers,
                             match_receipt_hash : STRING,
                             expires_at         : Nat,
                             prev_segment_hash  : {null},
                             payload            : {s.payload : s \in SegmentInputs},
                             attestations       : {s.attestations : s \in SegmentInputs}]
ASSUME BoundAssumption ==
    {MaxClock, MaxSegments, MaxHeartbeats, MaxProfiles} \subseteq Nat

VARIABLES
    clock,            \* the time of day
    profiles,         \* external: the profiles each broker has published
    call,             \* the asynchronous call each client is waiting for
    state,            \* w.state; "NotOpened" while the id has no workflow
    selectedBrokers,  \* w.selectedBrokers
    segments,         \* w.segments
    lastReceipt,      \* w.lastReceipt
    auditLog,         \* the StateTransition entries of w.auditLog
    heartbeatCounter,
    heartbeatStore,
    anchored          \* external: the receipts the meta registry recorded

vars == <<clock, profiles, call, state, selectedBrokers, segments, lastReceipt,
          auditLog, heartbeatCounter, heartbeatStore, anchored>>

TERMINAL_STATES == {"Invalidated", "Closed", "Expired"}
LIVE_STATES     == {"Opening", "Active", "Closing"}   \* between two actions

RoleIds == {ManifestRoles[i].role_id : i \in DOMAIN ManifestRoles}
Idle    == [op |-> "idle"]

-----------------------------------------------------------------------------
(* Segments and receipts *)

\* The fields of a segment that travel: the payload and the attestations stay.
Wire(s) == [role_id            |-> s.role_id,
            broker_did         |-> s.broker_did,
            match_receipt_hash |-> s.match_receipt_hash,
            expires_at         |-> s.expires_at,
            prev_segment_hash  |-> s.prev_segment_hash]

\* The hash leaves out prev_segment_hash, too; it is injective on the rest.
segmentHash(s) == [role_id            |-> s.role_id,
                   broker_did         |-> s.broker_did,
                   match_receipt_hash |-> s.match_receipt_hash,
                   expires_at         |-> s.expires_at]

\* The role under which each segment was sent; of two the later one counts.
LastOf(segs, r) ==
    CHOOSE i \in DOMAIN segs :
        /\ segs[i].role_id = r
        /\ \A j \in DOMAIN segs : segs[j].role_id = r => j =< i
segMap(segs) ==
    [r \in {segs[i].role_id : i \in DOMAIN segs} |-> segs[LastOf(segs, r)]]
evalContext(segs) == [segments |-> segMap(segs), initiator |-> InitiatorDid]

Effective_Latest(segs) ==                                          \* a mutant
    CHOOSE t \in {segs[i].expires_at : i \in DOMAIN segs} :
        \A i \in DOMAIN segs : segs[i].expires_at =< t
Effective(segs) ==
    CHOOSE t \in {segs[i].expires_at : i \in DOMAIN segs} :
        \A i \in DOMAIN segs : t =< segs[i].expires_at

ReceiptOf(segs) ==
    [segments                |-> [i \in DOMAIN segs |-> Wire(segs[i])],
     consistency_evaluations |->
         [c \in Constraints |-> evaluatePredicate(c, evalContext(segs))],
     effective_expires_at    |-> Effective(segs)]

AllTrue(r) == r # null /\ \A c \in Constraints : r.consistency_evaluations[c]

\* What verifyCrossMatchReceipt checks: CMR.1, the equality of CMR.2, the age
\* of CMR.2, and CMR.3.
ChainHolds(r) ==
    \A i \in DOMAIN r.segments :
        i > 1 => r.segments[i].prev_segment_hash = segmentHash(r.segments[i - 1])
EnvelopeHolds(r) == r.effective_expires_at = Effective(r.segments)
verifyCrossMatchReceipt(r, now) ==
    /\ ChainHolds(r)
    /\ EnvelopeHolds(r)
    /\ now =< r.effective_expires_at
    /\ AllTrue(r)

-----------------------------------------------------------------------------
(* The opening of a workflow *)

Admits(role, p) == /\ p # null
                   /\ p.broker_category = role.broker_category
                   /\ p.declared_conformance >= role.min_conformance

\* A bound of the run: calls do not open more workflows than there are ids.
InFlightOpens == {c \in Callers : call[c].op \in {"fetch", "answer"}}
UnusedIds     == {w \in Workflows : state[w] = "NotOpened"}

Create(c, sel) ==
    \E w \in UnusedIds :
        /\ state' = [state EXCEPT ![w] = "Opening"]
        /\ selectedBrokers' = [selectedBrokers EXCEPT ![w] = sel]
        /\ call' = [call EXCEPT ![c] = Idle]

OpenFrom_ButLast(c, sel, i) ==                                     \* a mutant
    \/ /\ i >= Len(ManifestRoles)
       /\ Create(c, sel)
    \/ /\ i < Len(ManifestRoles)
       /\ call' = [call EXCEPT ![c] =
              IF sel[ManifestRoles[i].role_id] = null THEN Idle
              ELSE [op |-> "fetch", sel |-> sel, i |-> i]]
       /\ UNCHANGED <<state, selectedBrokers>>
\* The loop over the roles from the i-th on, up to its next await or its end.
\* A role nobody staffs makes the call throw.
OpenFrom(c, sel, i) ==
    \/ /\ i > Len(ManifestRoles)
       /\ Create(c, sel)
    \/ /\ i =< Len(ManifestRoles)
       /\ call' = [call EXCEPT ![c] =
              IF sel[ManifestRoles[i].role_id] = null THEN Idle
              ELSE [op |-> "fetch", sel |-> sel, i |-> i]]
       /\ UNCHANGED <<state, selectedBrokers>>

openWorkflow(c, sel) ==
    /\ call[c] = Idle
    /\ Cardinality(UnusedIds) > Cardinality(InFlightOpens)
    /\ OpenFrom(c, sel, 1)
    /\ UNCHANGED <<clock, profiles, segments, lastReceipt, auditLog,
                   heartbeatCounter, heartbeatStore, anchored>>

CurrentProfile(b) ==
    IF profiles[b] = <<>> THEN null ELSE profiles[b][Len(profiles[b])]

\* fetchCategoryProfile answers with the profile as it is at that moment ...
BrokerAnswers(c) ==
    /\ call[c].op = "fetch"
    /\ call' = [call EXCEPT ![c] =
           [op |-> "answer", sel |-> call[c].sel, i |-> call[c].i,
            profile |-> CurrentProfile(call[c].sel[ManifestRoles[call[c].i].role_id])]]
    /\ UNCHANGED <<clock, profiles, state, selectedBrokers, segments, lastReceipt,
                   auditLog, heartbeatCounter, heartbeatStore, anchored>>

\* ... and the call judges that answer when it resumes, or throws.
openWorkflowResumes(c) ==
    /\ call[c].op = "answer"
    /\ \/ /\ Admits(ManifestRoles[call[c].i], call[c].profile)
          /\ OpenFrom(c, call[c].sel, call[c].i + 1)
       \/ /\ ~ Admits(ManifestRoles[call[c].i], call[c].profile)
          /\ call' = [call EXCEPT ![c] = Idle]
          /\ UNCHANGED <<state, selectedBrokers>>
    /\ UNCHANGED <<clock, profiles, segments, lastReceipt, auditLog,
                   heartbeatCounter, heartbeatStore, anchored>>

\* External: a broker replaces its Broker Category Profile.
BrokerPublishes(b, p) ==
    /\ Len(profiles[b]) < MaxProfiles
    /\ profiles' = [profiles EXCEPT ![b] = Append(@, p)]
    /\ UNCHANGED <<clock, call, state, selectedBrokers, segments, lastReceipt,
                   auditLog, heartbeatCounter, heartbeatStore, anchored>>

-----------------------------------------------------------------------------
(* The life of an open workflow *)

PresentRoles(segs)  == {segs[i].role_id : i \in DOMAIN segs}
RequiredPresent(segs) ==
    \A i \in DOMAIN ManifestRoles :
        ManifestRoles[i].required => ManifestRoles[i].role_id \in PresentRoles(segs)

Extend_Unchained(segs, s) == Append(segs, s)                       \* a mutant
Extend(segs, s) ==
    Append(segs, [s EXCEPT !.prev_segment_hash =
                     IF segs = <<>> THEN null ELSE segmentHash(segs[Len(segs)])])

Activates_Partly(w, segs) ==                                       \* a mutant
    /\ state[w] = "Opening"
    /\ \E i \in DOMAIN ManifestRoles :
           ManifestRoles[i].required /\ ManifestRoles[i].role_id \in PresentRoles(segs)
Activates(w, segs) == state[w] = "Opening" /\ RequiredPresent(segs)

AcceptsSegments(w) == state[w] \in LIVE_STATES

\* The segment is chained to its predecessor, and the last required role
\* activates a workflow that is still opening.  Neither the role nor the broker
\* is compared with the manifest or the selection.
ingestSegment(w, s) ==
    /\ AcceptsSegments(w)
    /\ Len(segments[w]) < MaxSegments
    /\ segments' = [segments EXCEPT ![w] = Extend(@, s)]
    /\ IF Activates(w, segments'[w])
       THEN /\ state' = [state EXCEPT ![w] = "Active"]
            /\ auditLog' = [auditLog EXCEPT ![w] = Append(@, "Active")]
       ELSE UNCHANGED <<state, auditLog>>
    /\ UNCHANGED <<clock, profiles, call, selectedBrokers, lastReceipt,
                   heartbeatCounter, heartbeatStore, anchored>>

\* The state is not consulted.  A constraint that throws leaves the workflow
\* without the receipt.
buildCrossMatchReceipt(w) ==
    /\ state[w] # "NotOpened"
    /\ Len(segments[w]) >= 2
    /\ \A c \in Constraints : ~ Throws(c, evalContext(segments[w]))
    /\ lastReceipt' = [lastReceipt EXCEPT ![w] = ReceiptOf(segments[w])]
    /\ UNCHANGED <<clock, profiles, call, state, selectedBrokers, segments,
                   auditLog, heartbeatCounter, heartbeatStore, anchored>>

AfterRevocation_Half == "Invalidating"                             \* a mutant
AfterRevocation      == "Invalidated"

\* Of the revocations only a workflow_invalidating one changes the state; it
\* passes through Invalidating without leaving the handler.
handleRevocation(w) ==
    /\ state[w] \in LIVE_STATES
    /\ state' = [state EXCEPT ![w] = AfterRevocation]
    /\ auditLog' = [auditLog EXCEPT ![w] = Append(@, AfterRevocation)]
    /\ UNCHANGED <<clock, profiles, call, selectedBrokers, segments, lastReceipt,
                   heartbeatCounter, heartbeatStore, anchored>>

CanClose_Again(w) == state[w] \in {"Active", "Closing"} /\ AllTrue(lastReceipt[w]) \* a mutant
CanClose(w) == state[w] = "Active" /\ AllTrue(lastReceipt[w])

\* Up to the await: the receipt the registry is asked to anchor is the one that
\* is the last at this moment.
closeWorkflow(c, w) ==
    /\ call[c] = Idle
    /\ CanClose(w)
    /\ state' = [state EXCEPT ![w] = "Closing"]
    /\ auditLog' = [auditLog EXCEPT ![w] = Append(@, "Closing")]
    /\ call' = [call EXCEPT ![c] = [op |-> "anchor", w |-> w, receipt |-> lastReceipt[w]]]
    /\ UNCHANGED <<clock, profiles, selectedBrokers, segments, lastReceipt,
                   heartbeatCounter, heartbeatStore, anchored>>

\* External: the meta registry records the receipt, and its answer is on its way.
RegistryAnchors(c) ==
    /\ call[c].op = "anchor"
    /\ anchored' = [anchored EXCEPT ![call[c].w] = Append(@, call[c].receipt)]
    /\ call' = [call EXCEPT ![c].op = "anchored"]
    /\ UNCHANGED <<clock, profiles, state, selectedBrokers, segments, lastReceipt,
                   auditLog, heartbeatCounter, heartbeatStore>>

\* The anchor's promise is rejected, before or after the registry recorded the
\* receipt: closeWorkflow throws and the workflow stays as it is.
AnchorRejected(c) ==
    /\ call[c].op \in {"anchor", "anchored"}
    /\ call' = [call EXCEPT ![c] = Idle]
    /\ UNCHANGED <<clock, profiles, state, selectedBrokers, segments, lastReceipt,
                   auditLog, heartbeatCounter, heartbeatStore, anchored>>

AnchorAnswered_NoAwait(c) == call[c].op \in {"anchor", "anchored"} \* a mutant
AnchorAnswered(c)         == call[c].op = "anchored"

\* The rest of closeWorkflow sets the state without looking at it again.
closeWorkflowResumes(c) ==
    /\ AnchorAnswered(c)
    /\ state' = [state EXCEPT ![call[c].w] = "Closed"]
    /\ auditLog' = [auditLog EXCEPT ![call[c].w] = Append(@, "Closed")]
    /\ call' = [call EXCEPT ![c] = Idle]
    /\ UNCHANGED <<clock, profiles, selectedBrokers, segments, lastReceipt,
                   heartbeatCounter, heartbeatStore, anchored>>

Overdue_Inclusive(w) == /\ state[w] \in LIVE_STATES                \* a mutant
                        /\ lastReceipt[w] # null
                        /\ lastReceipt[w].effective_expires_at =< clock
Overdue_ActiveOnly(w) == /\ state[w] = "Active"                    \* a mutant
                         /\ lastReceipt[w] # null
                         /\ lastReceipt[w].effective_expires_at < clock
Overdue(w) == /\ state[w] \in LIVE_STATES
              /\ lastReceipt[w] # null
              /\ lastReceipt[w].effective_expires_at < clock

tickExpiry ==
    /\ state' = [w \in Workflows |-> IF Overdue(w) THEN "Expired" ELSE state[w]]
    /\ auditLog' = [w \in Workflows |->
           IF Overdue(w) THEN Append(auditLog[w], "Expired") ELSE auditLog[w]]
    /\ UNCHANGED <<clock, profiles, call, selectedBrokers, segments, lastReceipt,
                   heartbeatCounter, heartbeatStore, anchored>>

NextCounter == heartbeatCounter + 1

\* A heartbeat carries the hash of the last receipt: here, the receipt itself.
publishHeartbeat ==
    /\ heartbeatCounter < MaxHeartbeats
    /\ heartbeatCounter' = NextCounter
    /\ heartbeatStore' = [w \in Workflows |->
           IF state[w] \in LIVE_STATES
           THEN [counter |-> heartbeatCounter', latest_receipt |-> lastReceipt[w]]
           ELSE heartbeatStore[w]]
    /\ UNCHANGED <<clock, profiles, call, state, selectedBrokers, segments,
                   lastReceipt, auditLog, anchored>>

AdvanceClock ==
    /\ clock < MaxClock
    /\ clock' = clock + 1
    /\ UNCHANGED <<profiles, call, state, selectedBrokers, segments, lastReceipt,
                   auditLog, heartbeatCounter, heartbeatStore, anchored>>

-----------------------------------------------------------------------------
Init ==
    /\ clock = 0
    /\ profiles = InitialProfiles
    /\ call = [c \in Callers |-> Idle]
    /\ state = [w \in Workflows |-> "NotOpened"]
    /\ selectedBrokers = [w \in Workflows |-> [r \in RoleIds |-> null]]
    /\ segments = [w \in Workflows |-> <<>>]
    /\ lastReceipt = [w \in Workflows |-> null]
    /\ auditLog = [w \in Workflows |-> <<>>]
    /\ heartbeatCounter = 0
    /\ heartbeatStore = [w \in Workflows |-> null]
    /\ anchored = [w \in Workflows |-> <<>>]

Next ==
    \/ \E c \in Callers : \E sel \in [RoleIds -> Brokers \cup {null}] :
           openWorkflow(c, sel)
    \/ \E c \in Callers : BrokerAnswers(c)
    \/ \E c \in Callers : openWorkflowResumes(c)
    \/ \E b \in Brokers : \E p \in Profiles : BrokerPublishes(b, p)
    \/ \E w \in Workflows : \E s \in SegmentInputs : ingestSegment(w, s)
    \/ \E w \in Workflows : buildCrossMatchReceipt(w)
    \/ \E w \in Workflows : handleRevocation(w)
    \/ \E c \in Callers : \E w \in Workflows : closeWorkflow(c, w)
    \/ \E c \in Callers : RegistryAnchors(c)
    \/ \E c \in Callers : AnchorRejected(c)
    \/ \E c \in Callers : closeWorkflowResumes(c)
    \/ tickExpiry
    \/ publishHeartbeat
    \/ AdvanceClock

Spec == Init /\ [][Next]_vars

\* Time passes, and the host of the coordinator keeps calling tickExpiry.
\* Nothing is asked of the brokers or of the meta registry.
Fairness == WF_vars(AdvanceClock) /\ WF_vars(tickExpiry)
FairSpec == Spec /\ Fairness

-----------------------------------------------------------------------------
(* Properties *)

\* The receipts in circulation for w: the last one, the one a close waits on,
\* the anchored ones and the one the stored heartbeat names.
Circulating(w) ==
    ({lastReceipt[w]} \cup {anchored[w][i] : i \in DOMAIN anchored[w]}
       \cup {call[c].receipt : c \in {d \in Callers : /\ call[d].op \in {"anchor", "anchored"}
                                                    /\ call[d].w = w}}
       \cup (IF heartbeatStore[w] = null THEN {} ELSE {heartbeatStore[w].latest_receipt}))
    \ {null}

Selection == [RoleIds -> Brokers \cup {null}]
Hash      == [role_id : STRING, broker_did : Brokers, match_receipt_hash : STRING,
              expires_at : Nat]
Segment   == [role_id : STRING, broker_did : Brokers, match_receipt_hash : STRING,
              expires_at : Nat, prev_segment_hash : Hash \cup {null},
              payload : {s.payload : s \in SegmentInputs},
              attestations : {s.attestations : s \in SegmentInputs}]
WireSegment == [role_id : STRING, broker_did : Brokers, match_receipt_hash : STRING,
                expires_at : Nat, prev_segment_hash : Hash \cup {null}]
Receipt   == [segments : Seq(WireSegment),
              consistency_evaluations : [Constraints -> BOOLEAN],
              effective_expires_at : Nat]
Call      == {Idle}
             \cup [op : {"fetch"}, sel : Selection, i : DOMAIN ManifestRoles]
             \cup [op : {"answer"}, sel : Selection, i : DOMAIN ManifestRoles,
                   profile : Profiles \cup {null}]
             \cup [op : {"anchor", "anchored"}, w : Workflows, receipt : Receipt]

ASSUME NullAssumption == null \notin Receipt

\* Every variable has its type; in particular no workflow rests in Invalidating
\* or Expiring between two handlers, whatever handler ran last.
TypeOK ==
    /\ clock \in Nat
    /\ profiles \in [Brokers -> Seq(Profiles)]
    /\ call \in [Callers -> Call]
    /\ state \in [Workflows -> {"NotOpened"} \cup LIVE_STATES \cup TERMINAL_STATES]
    /\ selectedBrokers \in [Workflows -> Selection]
    /\ segments \in [Workflows -> Seq(Segment)]
    /\ lastReceipt \in [Workflows -> Receipt \cup {null}]
    /\ auditLog \in [Workflows -> Seq(LIVE_STATES \cup TERMINAL_STATES)]
    /\ heartbeatCounter \in Nat
    /\ heartbeatStore \in [Workflows ->
           [counter : Nat, latest_receipt : Receipt \cup {null}] \cup {null}]
    /\ anchored \in [Workflows -> Seq(Receipt)]

\* A workflow exists only if, for each of its roles, a broker was selected that
\* has published a profile admissible for the role - although the profiles may
\* change while openWorkflow waits for the next role's (openWorkflow).
OpenedVetted ==
    \A w \in Workflows : state[w] # "NotOpened" =>
        \A i \in DOMAIN ManifestRoles :
            LET b == selectedBrokers[w][ManifestRoles[i].role_id]
            IN  /\ b \in Brokers
                /\ \E k \in DOMAIN profiles[b] : Admits(ManifestRoles[i], profiles[b][k])

\* Every receipt in circulation is the receipt of an initial part of the
\* workflow's segments, at least two: whatever is ingested, rebuilt or anchored
\* later, the coordinator never signed for segments it did not keep in that
\* order (ingestSegment, buildCrossMatchReceipt).
Prefix(s, n) == [i \in 1 .. n |-> s[i]]
ReceiptsAreSnapshots ==
    \A w \in Workflows : \A r \in Circulating(w) :
        /\ Len(r.segments) \in 2 .. Len(segments[w])
        /\ r = ReceiptOf(Prefix(segments[w], Len(r.segments)))

\* A third party's verifyCrossMatchReceipt finds no break of CMR.1 and no
\* mismatch of CMR.2 in any receipt in circulation.
ReceiptsVerify ==
    \A w \in Workflows : \A r \in Circulating(w) : ChainHolds(r) /\ EnvelopeHolds(r)

\* Both of every receipt in circulation: that it is a snapshot, and that it verifies.
ReceiptsSound == ReceiptsAreSnapshots /\ ReceiptsVerify

\* A workflow that is or was active and is not stopped has a segment for every
\* required role (RFC 0035, Opening -> Active), also when a close that began
\* earlier ends it after it was stopped.
EngagedHasRequired ==
    \A w \in Workflows :
        state[w] \in {"Active", "Closing", "Closed"} => RequiredPresent(segments[w])

\* A closed workflow has an anchored receipt in which every constraint is
\* satisfied (closeWorkflow), ...
ClosedIsCertified ==
    \A w \in Workflows :
        state[w] = "Closed" => \E i \in DOMAIN anchored[w] : AllTrue(anchored[w][i])

\* ... no workflow has two anchored receipts, whoever else asked to close it meanwhile, ...
AnchoredOnce == \A w \in Workflows : Len(anchored[w]) =< 1

\* ... so that what ends a workflow is the one certificate it has.
ClosureSound == ClosedIsCertified /\ AnchoredOnce

\* An expired workflow has a receipt whose envelope lies in the past, even if
\* the receipt was rebuilt since (tickExpiry).
ExpirySound ==
    \A w \in Workflows : state[w] = "Expired" =>
        lastReceipt[w] # null /\ lastReceipt[w].effective_expires_at < clock

\* A receipt that replaces another covers at least its segments and does not
\* extend its envelope: a composite that a verifier saw expire cannot come back.
EnvelopeShrinks ==
    [][\A w \in Workflows : lastReceipt[w] # null =>
          /\ lastReceipt'[w] # null
          /\ Len(lastReceipt'[w].segments) >= Len(lastReceipt[w].segments)
          /\ lastReceipt'[w].effective_expires_at =< lastReceipt[w].effective_expires_at]_vars

\* A workflow does not stay in Closing for ever, even if the registry never
\* answers or its rejection has ended the close (closeWorkflow, tickExpiry).
ClosingResolves ==
    \A w \in Workflows : state[w] = "Closing" ~> state[w] \in TERMINAL_STATES

\* The coordinator implements the lifecycle it promises.
Attempted == {w \in Workflows : \E i \in DOMAIN auditLog[w] : auditLog[w][i] = "Closing"}
Sealed    == {w \in Workflows : anchored[w] # <<>>}
Lifecycle == INSTANCE WorkflowLifecycle
                 WITH phase <- state, attempted <- Attempted, sealed <- Sealed
ImplementsLifecycle == Lifecycle!Spec

-----------------------------------------------------------------------------
(* What RFC 0035 says and the code does not do *)

\* "The states Invalidated, Closed, and Expired are terminal."
TerminalIsFinal ==
    [][\A w \in Workflows :
          state[w] \in TERMINAL_STATES => state'[w] = state[w]]_vars

\* An active workflow starts to close when "all workflow consistency
\* constraints are satisfied", "by the current segment payloads".
CloseOnlyWhenSatisfied ==
    [][\A w \in Workflows :
          state[w] = "Active" /\ state'[w] = "Closing" =>
              \A c \in Constraints : evaluatePredicate(c, evalContext(segments[w]))]_vars

=============================================================================
