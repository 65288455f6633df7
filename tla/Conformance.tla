----------------------------- MODULE Conformance -----------------------------
(***************************************************************************)
(* The life of a conformance receipt: an implementation runs the suite     *)
(* against its server and signs what it has passed (test-suite/runner.js,  *)
(* attest.js), or takes the receipt that the server signs for itself;      *)
(* others witness it (attest.js --peer-witness); it is put where the tests *)
(* look for it and where its manifest says it is, listed in the registry   *)
(* and anchored; and an agent that wants to engage the implementation      *)
(* verifies it (agent/conformance-verifier.js).                            *)
(*                                                                         *)
(* Programs of several parties run at any time and hand files on, so each  *)
(* run of attest.js is an action, and so is each stretch of the verifier   *)
(* between two fetches whose answers may change meanwhile.  A hash is the  *)
(* term that is hashed, a signature the term that is signed.               *)
(***************************************************************************)
EXTENDS Naturals, Sequences, FiniteSets, Functions

CONSTANTS
    Implementations, \* those who are tested, witness and are verified
    Founders,        \* those with a receipt from the start (RFC 0026, section 10)
    Levels,          \* the levels of levels.json in the profile of the run
    Quota,           \* of the levels that start with L4 or L5: the witnesses they take
    Files,           \* the test files
    Required,        \* the files that a level requires (levels.json)
    AppliesTo,       \* of the files that ask for a claim first: the levels claimed
    MinWitnesses,    \* the witnesses a file wants to see
    FileResults,     \* what a file may report, as the set of its results
    FoundingClaims,  \* the levels of the founders' first receipts
    SelfClaims,      \* the levels the server of an implementation claims by itself, ...
    RuntimeVersion,  \* ... and the version of the suite that it names for them
    Organisations,   \* those that witnesses may say control them
    Prepared,        \* what an operator may let the tests find without a receipt
    ValidFor,        \* how long a receipt is valid
    MaxClock,        \* bound on the time
    MaxWitnesses,    \* bound on the witnesses of a receipt
    MaxListings,     \* bound on the listings
    MaxRuns,         \* bound on the runs of attest.js
    null

Cooperative == DOMAIN Quota
Gated       == DOMAIN AppliesTo
Outcomes    == {"passed", "failed", "not_applicable"}

\* The version attest.js names, and those verifyConformance trusts by default.
SuiteVersion         == "1.1.0"
trustedSuiteVersions == {"1.0.0", "1.1.0"}

ASSUME PartiesAssumption == Founders \subseteq Implementations
ASSUME LevelsAssumption  == /\ Cooperative \subseteq Levels /\ Quota \in [Cooperative -> Nat \ {0}]
                            /\ SelfClaims \in [Implementations -> SUBSET Levels]
                            /\ RuntimeVersion \in [Implementations -> {"1.0.0", "0.1.0"}]
                            /\ Prepared \in [Implementations ->
                                                SUBSET [levels : SUBSET Levels, witnesses : Nat]]
                            /\ FoundingClaims \subseteq {l \in Levels : Required[l] # {}}
ASSUME SuiteAssumption   == /\ Required \in [Levels -> SUBSET Files]
                            /\ Gated \subseteq Files /\ AppliesTo \in [Gated -> SUBSET Levels]
                            /\ MinWitnesses \in [Files -> Nat]
                            /\ FileResults \subseteq SUBSET Outcomes
ASSUME BoundsAssumption  == {ValidFor, MaxClock, MaxWitnesses, MaxListings, MaxRuns} \subseteq Nat

\* In levels.json a level that starts with L4 or L5 requires peer-witness-min-1 or
\* peer-witness-min-3, which apply to receipts that claim L4 or L5 already.
ASSUME CooperativeAssumption ==
    \A l \in Cooperative : \E f \in Required[l] \cap Gated :
        AppliesTo[f] \subseteq Cooperative /\ MinWitnesses[f] > 0

VARIABLES
    clock,
    draft,        \* the receipt in the file of an implementation
    served,       \* what its /oap-conformance-receipt.json says: levels, number of witnesses
    hosted,       \* the receipt that its manifest refers to
    registry,     \* the listings by commit, each with the receipt whose hash it has, or none
    verification, \* the run of verifyConformance
    accepted,     \* history: the receipt it accepted last
    runs          \* the runs of attest.js so far

vars == <<clock, draft, served, hosted, registry, verification, accepted, runs>>

Idle == [at |-> "idle"]

\* A receipt without its signatures and witnesses; what is signed has no anchor.
Core(p, version, claimed, results) ==
    [implementation |-> p, suite_version |-> version, claimed_levels |-> claimed,
     results_hash |-> results, not_after |-> clock + ValidFor, registry_anchor |-> null]
Signed(core) == [body |-> core, signature |-> core, peer_witnesses |-> <<>>]

-----------------------------------------------------------------------------
(* The suite *)

\* What the tests read of a receipt.
Says(r) == [levels |-> r.body.claimed_levels, witnesses |-> Len(r.peer_witnesses)]

\* What a test finds: the file at the path it knows, or else what the endpoint in the manifest
\* answers, which the server signs for itself without witnesses or the operator points at
\* what is hosted; or nothing.  Any fetch may fail.
Found(p) ==
    {[levels |-> {}, witnesses |-> 0], [levels |-> SelfClaims[p], witnesses |-> 0]}
    \cup ({served[p]} \ {null})
    \cup {Says(r) : r \in {hosted[p]} \ {null}}

\* External: the operator of p lets the tests find its receipt, or what it has prepared.
Serve(p) ==
    /\ \/ /\ draft[p] # null
          /\ served' = [served EXCEPT ![p] = Says(draft[p])]
       \/ \E file \in Prepared[p] : served' = [served EXCEPT ![p] = file]
    /\ UNCHANGED <<clock, draft, hosted, registry, verification, accepted, runs>>

\* A file that asks for a claim reports only that it does not apply if there is none,
\* and a failure if there is one with too few witnesses; nothing without a manifest.
Reports(p) ==
    {results \in [Files -> FileResults] :
        \A f \in Gated :
            \/ results[f] = {}
            \/ \E found \in Found(p) :
                   IF found.levels \cap AppliesTo[f] = {} THEN results[f] = {"not_applicable"}
                   ELSE found.witnesses < MinWitnesses[f] => "failed" \in results[f]}

\* The exit status of the runner, without which attest.js has no report.
Succeeds_SomePassed(results) == \E f \in Files : "passed" \in results[f]     \* a mutant
Succeeds(results)            == \A f \in Files : "failed" \notin results[f]

\* Of the results of a file one that passed and says more than `not applicable' counts.
Passed_NotApplicable(reported) == reported \cap {"passed", "not_applicable"} # {}  \* a mutant
Passed(reported)               == "passed" \in reported

levelsFromResults(results) ==
    {l \in Levels : Required[l] # {} /\ \A f \in Required[l] : Passed(results[f])}

\* attest.js: no receipt is written without a level.
attest(p) ==
    /\ runs < MaxRuns /\ runs' = runs + 1
    /\ \E results \in Reports(p) :
           /\ Succeeds(results)
           /\ levelsFromResults(results) # {}
           /\ draft' = [draft EXCEPT ![p] =
                            Signed(Core(p, SuiteVersion, levelsFromResults(results), results))]
    /\ UNCHANGED <<clock, served, hosted, registry, verification, accepted>>

\* GET /oap/conformance-receipt, which the operator saves: no test was run.
conformanceReceipt(p) ==
    /\ runs < MaxRuns /\ runs' = runs + 1
    /\ draft' = [draft EXCEPT ![p] =
                     Signed(Core(p, RuntimeVersion[p], SelfClaims[p], [f \in Files |-> {}]))]
    /\ UNCHANGED <<clock, served, hosted, registry, verification, accepted>>

-----------------------------------------------------------------------------
(* Witnesses and anchors *)

\* What a witness signs.
Stripped(r) == [body |-> r.body, signature |-> r.signature]

\* w adds its signature to the receipt of p, which it does not check, and names a receipt
\* to show that it may and perhaps an organisation.
Witnessed(w, p, receipt, organisation) ==
    /\ runs < MaxRuns /\ runs' = runs + 1
    /\ draft[p] # null
    /\ Len(draft[p].peer_witnesses) < MaxWitnesses
    /\ draft' = [draft EXCEPT ![p].peer_witnesses =
                     Append(@, [witness_did |-> w, controller_org |-> organisation,
                                witness_receipt_uri |-> receipt, signature |-> Stripped(draft[p])])]
    /\ UNCHANGED <<clock, served, hosted, registry, verification, accepted>>

\* attest.js --peer-witness, with what some manifest refers to.
peerWitness(w, p) == \E q \in Implementations : Witnessed(w, p, q, null)

\* External: a program of its own may leave the receipt out and name an organisation.
WitnessOtherwise(w, p) ==
    \E organisation \in Organisations \cup {null} : Witnessed(w, p, null, organisation)

\* External: the operator of p puts the file where the manifest says it is.
Host(p) ==
    /\ draft[p] # null
    /\ hosted' = [hosted EXCEPT ![p] = draft[p]]
    /\ UNCHANGED <<clock, draft, served, registry, verification, accepted, runs>>

\* External: the registry merges a listing, with the hash of the receipt that is hosted
\* (RFC 0026, section 6) or, as far as the verifier minds, with none, ...
List(p) ==
    /\ hosted[p] # null
    /\ Len(registry) < MaxListings
    /\ \E hashed \in {hosted[p], null} :
           registry' = Append(registry, [slug |-> p, conformance_receipt_sha256 |-> hashed])
    /\ UNCHANGED <<clock, draft, served, hosted, verification, accepted, runs>>

\* ... and the operator adds the commit to the receipt.
Anchor(p, commit) ==
    /\ draft[p] # null
    /\ registry[commit].slug = p
    /\ draft' = [draft EXCEPT ![p].body.registry_anchor = commit]
    /\ UNCHANGED <<clock, served, hosted, registry, verification, accepted, runs>>

\* External: the operator signs the receipt again with what was added to it, which attest.js
\* never does.
SignAgain(p) ==
    /\ draft[p] # null /\ draft[p].signature # draft[p].body
    /\ draft' = [draft EXCEPT ![p] = Signed(draft[p].body)]
    /\ UNCHANGED <<clock, served, hosted, registry, verification, accepted, runs>>

-----------------------------------------------------------------------------
(* verifyConformance *)

Claimed(r)         == r.body.claimed_levels
Current(r)         == clock =< r.body.not_after
CountSuffices(r)   == \A l \in Claimed(r) \cap Cooperative : Len(r.peer_witnesses) >= Quota[l]

\* A witness counts by the organisation it declares, or else by itself.
Party(w)       == IF w.controller_org = null THEN w.witness_did ELSE w.controller_org
Independent(r) == \A i, j \in DOMAIN r.peer_witnesses :
                      Party(r.peer_witnesses[i]) = Party(r.peer_witnesses[j]) => i = j

\* The signature is of all but the signatures and the witnesses.
SignatureHolds_AnchorAside(r) ==                                             \* a mutant
    r.signature = [r.body EXCEPT !.registry_anchor = null]
SignatureHolds(r) == r.signature = r.body

\* Manifest, receipt, suite, validity and signature; of a receipt that claims L4 or L5 also the
\* number and the independence of its witnesses.
verifyConformance(p) ==
    /\ verification = Idle
    /\ hosted[p] # null
    /\ hosted[p].body.suite_version \in trustedSuiteVersions
    /\ Current(hosted[p])
    /\ SignatureHolds(hosted[p])
    /\ \/ /\ Claimed(hosted[p]) \cap Cooperative = {}
          /\ verification' = [at |-> "reverify", receipt |-> hosted[p]]
       \/ /\ Claimed(hosted[p]) \cap Cooperative # {}
          /\ CountSuffices(hosted[p]) /\ Independent(hosted[p])
          /\ verification' = [at |-> "witness", receipt |-> hosted[p], next |-> 1]
    /\ UNCHANGED <<clock, draft, served, hosted, registry, accepted, runs>>

\* One witness is checked, and the receipt that it names is fetched, if it names one.
Vouches(w, r) ==
    /\ w.signature = Stripped(r)
    /\ w.witness_receipt_uri # null =>
           /\ hosted[w.witness_receipt_uri] # null
           /\ Current(hosted[w.witness_receipt_uri])
           /\ Claimed(hosted[w.witness_receipt_uri]) \cap Cooperative # {}

LastWitness_Next(r, next) == next > Len(r.peer_witnesses)                    \* a mutant
LastWitness(r, next)      == next = Len(r.peer_witnesses)

verifyPeerWitnesses ==
    /\ verification.at = "witness"
    /\ LET r == verification.receipt
       IN  verification' =
               IF ~Vouches(r.peer_witnesses[verification.next], r) THEN Idle
               ELSE IF LastWitness(r, verification.next)
                    THEN [at |-> "anchor", receipt |-> r]
                    ELSE [verification EXCEPT !.next = @ + 1]
    /\ UNCHANGED <<clock, draft, served, hosted, registry, accepted, runs>>

\* The listing at the commit has the hash of the receipt, or none.
Listed(r) ==
    /\ r.body.registry_anchor # null
    /\ registry[r.body.registry_anchor].conformance_receipt_sha256 \in {r, null}

verifyRegistryAnchor ==
    /\ verification.at = "anchor"
    /\ verification' = IF Listed(verification.receipt)
                       THEN [at |-> "reverify", receipt |-> verification.receipt] ELSE Idle
    /\ UNCHANGED <<clock, draft, served, hosted, registry, accepted, runs>>

\* A DID document, the receipt of a witness or a listing cannot be fetched.
FetchFails ==
    /\ verification.at \in {"witness", "anchor"}
    /\ verification' = Idle
    /\ UNCHANGED <<clock, draft, served, hosted, registry, accepted, runs>>

\* The sample tests run against the live target, which passes them now or not.
reverify ==
    /\ verification.at = "reverify"
    /\ \/ accepted' = verification.receipt
       \/ accepted' = accepted
    /\ verification' = Idle
    /\ UNCHANGED <<clock, draft, served, hosted, registry, runs>>

-----------------------------------------------------------------------------
AdvanceClock ==
    /\ clock < MaxClock
    /\ clock' = clock + 1
    /\ UNCHANGED <<draft, served, hosted, registry, verification, accepted, runs>>

\* External: the first receipts of the founders are signed by hand.
Founding(p) ==
    Signed([implementation |-> p, suite_version |-> SuiteVersion, claimed_levels |-> FoundingClaims,
            results_hash |-> [f \in Files |-> {"passed"}], not_after |-> ValidFor,
            registry_anchor |-> null])

Init ==
    /\ clock = 0
    /\ draft = [p \in Implementations |-> IF p \in Founders THEN Founding(p) ELSE null]
    /\ served = [p \in Implementations |-> null]
    /\ hosted = draft
    /\ registry = <<>>
    /\ verification = Idle
    /\ accepted = null
    /\ runs = 0

Next ==
    \/ \E p \in Implementations : \/ attest(p)
                                  \/ conformanceReceipt(p)
                                  \/ Serve(p)
                                  \/ Host(p)
                                  \/ List(p)
                                  \/ SignAgain(p)
                                  \/ verifyConformance(p)
                                  \/ \E w \in Implementations : \/ peerWitness(w, p)
                                                               \/ WitnessOtherwise(w, p)
                                  \/ \E commit \in DOMAIN registry : Anchor(p, commit)
    \/ verifyPeerWitnesses
    \/ verifyRegistryAnchor
    \/ FetchFails
    \/ reverify
    \/ AdvanceClock

Spec == Init /\ [][Next]_vars

-----------------------------------------------------------------------------
(* Properties *)

Body     == [implementation : Implementations, suite_version : {"0.1.0", "1.0.0", "1.1.0"},
             claimed_levels : SUBSET Levels, results_hash : [Files -> SUBSET Outcomes], not_after : Nat,
             registry_anchor : Nat \cup {null}]
Witness  == [witness_did : Implementations, controller_org : Organisations \cup {null},
             witness_receipt_uri : Implementations \cup {null},
             signature : [body : Body, signature : Body]]
Receipt  == [body : Body, signature : Body, peer_witnesses : Seq(Witness)]
Listing  == [slug : Implementations, conformance_receipt_sha256 : Receipt \cup {null}]
Verification == {Idle}
                \cup [at : {"anchor", "reverify"}, receipt : Receipt]
                \cup [at : {"witness"}, receipt : Receipt, next : Nat]

\* Every variable has its type; the verifier never looks for a witness that is not there,
\* nor for a listing that is not.
TypeOK ==
    /\ clock \in Nat
    /\ draft \in [Implementations -> Receipt \cup {null}]
    /\ hosted \in [Implementations -> Receipt \cup {null}]
    /\ served \in [Implementations -> [levels : SUBSET Levels, witnesses : Nat] \cup {null}]
    /\ registry \in Seq(Listing)
    /\ verification \in Verification
    /\ verification.at = "witness" => verification.next \in DOMAIN verification.receipt.peer_witnesses
    /\ accepted \in Receipt \cup {null}
    /\ runs \in Nat
    /\ \A p \in Implementations : \A r \in {draft[p], hosted[p]} \ {null} :
           r.body.registry_anchor \in DOMAIN registry \cup {null}

\* The receipts of p.
ReceiptsOf(p) == {draft[p], hosted[p]} \ {null}

\* Every level was earned in the one run whose results the receipt pins: each file the level
\* requires has passed, and none of its results has failed, although a file counts as soon
\* as one of its results passed (levelsFromResults, runSuite).
Earned(body) ==
    \A l \in body.claimed_levels :
        /\ Required[l] # {}
        /\ \A f \in Required[l] :
               "passed" \in body.results_hash[f] /\ "failed" \notin body.results_hash[f]

\* A receipt that names the suite has earned its levels; one that names the runtime claims
\* what the server claims by itself.
Justified(body) ==
    IF body.suite_version = SuiteVersion THEN Earned(body)
    ELSE body.claimed_levels = SelfClaims[body.implementation]

\* Whatever is in the file of an implementation or hosted for it is justified, whoever signed
\* it again, witnessed, listed or anchored it, and however often the suite was run meanwhile.
ClaimsEarned ==
    \A p \in Implementations : \A r \in ReceiptsOf(p) : Justified(r.body)

\* Who neither founded the network nor lets its server or a file that it has prepared claim L4
\* or L5 beforehand has no receipt that claims them, not for all the receipts that others have,
\* witness and serve: the tests of these levels want to find a claim with witnesses, and they,
\* and what `not applicable' counts for, let no first one through.
Insiders ==
    Founders \cup {p \in Implementations :
                      \E levels \in {SelfClaims[p]} \cup {file.levels : file \in Prepared[p]} :
                          levels \cap Cooperative # {}}
OnlyInsidersCooperate ==
    \A p \in Implementations \ Insiders : \A r \in ReceiptsOf(p) :
        Claimed(r) \cap Cooperative = {}

\* What the verifier accepts is what the implementation signed, with nothing added but
\* witnesses, and justified.  If it claims L4 or L5, witnesses that count as so many different
\* parties as the levels take have signed it with its anchor; and the listing there has no
\* hash, because a hash is of a receipt that could not yet have that anchor.
AcceptedAsSigned ==
    accepted # null =>
        /\ accepted.signature = accepted.body /\ Justified(accepted.body)
        /\ \A l \in Claimed(accepted) \cap Cooperative :
               /\ registry[accepted.body.registry_anchor].conformance_receipt_sha256 = null
               /\ LET signed  == {w \in Range(accepted.peer_witnesses) :
                                    w.signature = Stripped(accepted)}
                      parties == {Party(w) : w \in signed}
                  IN  Cardinality(parties) >= Quota[l]

=============================================================================
