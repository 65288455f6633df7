-------------------------- MODULE ConformanceProofs --------------------------
(***************************************************************************)
(* Theorems about the life of a conformance receipt, for any number of     *)
(* implementations, levels, files, witnesses and listings.                 *)
(***************************************************************************)
EXTENDS Conformance, FiniteSetTheorems, TLAPS

-----------------------------------------------------------------------------
(* Types *)

LEMMA SignedType ==
    ASSUME NEW core \in Body
    PROVE  Signed(core) \in Receipt
BY DEF Signed, Receipt

LEMMA SelfReceiptType ==
    ASSUME TypeOK, NEW p \in Implementations
    PROVE  Signed(Core(p, RuntimeVersion[p], SelfClaims[p], [f \in Files |-> {}])) \in Receipt
<1>1. Core(p, RuntimeVersion[p], SelfClaims[p], [f \in Files |-> {}]) \in Body
  BY LevelsAssumption, BoundsAssumption DEF Core, Body, TypeOK
<1> QED BY <1>1, SignedType

LEMMA AttestedType ==
    ASSUME TypeOK, NEW p \in Implementations, NEW results \in Reports(p)
    PROVE  Signed(Core(p, SuiteVersion, levelsFromResults(results), results)) \in Receipt
<1>1. results \in [Files -> SUBSET Outcomes]
  BY SuiteAssumption DEF Reports
<1>2. levelsFromResults(results) \in SUBSET Levels
  BY DEF levelsFromResults
<1>3. Core(p, SuiteVersion, levelsFromResults(results), results) \in Body
  BY <1>1, <1>2, BoundsAssumption DEF Core, Body, TypeOK, SuiteVersion
<1> QED BY <1>3, SignedType

LEMMA FoundingType ==
    ASSUME NEW p \in Implementations
    PROVE  Founding(p) \in Receipt
<1>1. [implementation |-> p, suite_version |-> SuiteVersion, claimed_levels |-> FoundingClaims,
       results_hash |-> [f \in Files |-> {"passed"}], not_after |-> ValidFor,
       registry_anchor |-> null] \in Body
  BY LevelsAssumption, BoundsAssumption DEF Body, Outcomes, SuiteVersion
<1> QED BY <1>1, SignedType DEF Founding

\* A witness is added to a receipt, and an anchor.
LEMMA WitnessedType ==
    ASSUME NEW r \in Receipt, NEW w \in Implementations, NEW uri \in Implementations \cup {null},
           NEW org \in Organisations \cup {null}
    PROVE  [r EXCEPT !.peer_witnesses =
                Append(@, [witness_did |-> w, controller_org |-> org, witness_receipt_uri |-> uri,
                           signature |-> Stripped(r)])] \in Receipt
<1> DEFINE one == [witness_did |-> w, controller_org |-> org, witness_receipt_uri |-> uri,
                   signature |-> Stripped(r)]
<1>1. one \in Witness
  BY DEF Witness, Stripped, Receipt
<1>2. Append(r.peer_witnesses, one) \in Seq(Witness)
  BY <1>1 DEF Receipt
<1> QED BY <1>2 DEF Receipt

LEMMA AnchoredType ==
    ASSUME NEW r \in Receipt, NEW commit \in Nat
    PROVE  [r EXCEPT !.body.registry_anchor = commit] \in Receipt
<1>1. [r.body EXCEPT !.registry_anchor = commit] \in Body
  BY DEF Receipt, Body
<1> QED BY <1>1 DEF Receipt

LEMMA TypeInit == Init => TypeOK
<1> SUFFICES ASSUME Init PROVE TypeOK
  OBVIOUS
<1>1. draft \in [Implementations -> Receipt \cup {null}]
  BY FoundingType DEF Init
<1>2. \A p \in Implementations : \A r \in {draft[p], hosted[p]} \ {null} :
          r.body.registry_anchor \in DOMAIN registry \cup {null}
  BY <1>1 DEF Init, Founding, Signed
<1>3. served \in [Implementations -> [levels : SUBSET Levels, witnesses : Nat] \cup {null}]
  BY DEF Init
<1> QED BY <1>1, <1>2, <1>3 DEF Init, TypeOK, Verification, Idle

\* What a verification that goes on looks like.
LEMMA VerificationAt ==
    ASSUME TypeOK
    PROVE  /\ verification.at \in {"witness", "anchor", "reverify"} => verification.receipt \in Receipt
           /\ verification.at = "witness" =>
                  verification \in [at : {"witness"}, receipt : Receipt, next : Nat]
BY DEF TypeOK, Verification, Idle

\* The actions that replace the receipt in the file of an implementation.
LEMMA DraftType ==
    ASSUME TypeOK, NEW p \in Implementations, NEW r \in Receipt,
           draft' = [draft EXCEPT ![p] = r],
           r.body.registry_anchor \in DOMAIN registry \cup {null},
           runs' \in Nat, UNCHANGED <<clock, served, hosted, registry, verification, accepted>>
    PROVE  TypeOK'
<1>1. draft' \in [Implementations -> Receipt \cup {null}]
  BY DEF TypeOK
<1>2. \A q \in Implementations : \A s \in {draft'[q], hosted'[q]} \ {null} :
          s.body.registry_anchor \in DOMAIN registry' \cup {null}
  BY DEF TypeOK
<1> QED BY <1>1, <1>2 DEF TypeOK

\* The steps of the verifier.
LEMMA VerificationType ==
    ASSUME TypeOK, verification' \in Verification,
           verification'.at = "witness" =>
               verification'.next \in DOMAIN verification'.receipt.peer_witnesses,
           accepted' \in Receipt \cup {null},
           UNCHANGED <<clock, draft, served, hosted, registry, runs>>
    PROVE  TypeOK'
BY DEF TypeOK

LEMMA TypeNext == TypeOK /\ [Next]_vars => TypeOK'
<1> SUFFICES ASSUME TypeOK, [Next]_vars PROVE TypeOK'
  OBVIOUS
<1>1. ASSUME NEW p \in Implementations, attest(p) PROVE TypeOK'
  <2>1. PICK results \in Reports(p) :
            draft' = [draft EXCEPT ![p] =
                          Signed(Core(p, SuiteVersion, levelsFromResults(results), results))]
    BY <1>1 DEF attest
  <2>2. Signed(Core(p, SuiteVersion, levelsFromResults(results), results)).body.registry_anchor = null
    BY DEF Signed, Core
  <2>3. runs' \in Nat /\ UNCHANGED <<clock, served, hosted, registry, verification, accepted>>
    BY <1>1 DEF attest, TypeOK
  <2> QED BY <2>1, <2>2, <2>3, AttestedType, DraftType
<1>2. ASSUME NEW p \in Implementations, conformanceReceipt(p) PROVE TypeOK'
  <2>1. Signed(Core(p, RuntimeVersion[p], SelfClaims[p], [f \in Files |-> {}])).body.registry_anchor = null
    BY DEF Signed, Core
  <2>2. runs' \in Nat /\ UNCHANGED <<clock, served, hosted, registry, verification, accepted>>
    BY <1>2 DEF conformanceReceipt, TypeOK
  <2> QED BY <1>2, <2>1, <2>2, SelfReceiptType, DraftType DEF conformanceReceipt
<1>3. ASSUME NEW p \in Implementations, NEW w \in Implementations,
             NEW uri \in Implementations \cup {null},
             NEW org \in Organisations \cup {null}, Witnessed(w, p, uri, org)
      PROVE  TypeOK'
  <2> DEFINE r == [draft[p] EXCEPT !.peer_witnesses =
                       Append(@, [witness_did |-> w, controller_org |-> org, witness_receipt_uri |-> uri,
                                  signature |-> Stripped(draft[p])])]
  <2>1. draft[p] \in Receipt /\ draft[p] # null
    BY <1>3 DEF Witnessed, TypeOK
  <2>2. r \in Receipt
    BY <2>1, WitnessedType
  <2>3. r.body.registry_anchor \in DOMAIN registry \cup {null}
    BY <2>1 DEF TypeOK, Receipt
  <2>4. draft' = [draft EXCEPT ![p] = r]
    BY <1>3 DEF Witnessed, TypeOK
  <2>5. runs' \in Nat /\ UNCHANGED <<clock, served, hosted, registry, verification, accepted>>
    BY <1>3 DEF Witnessed, TypeOK
  <2> QED BY <2>2, <2>3, <2>4, <2>5, DraftType
<1>4. ASSUME NEW p \in Implementations, NEW commit \in DOMAIN registry, Anchor(p, commit) PROVE TypeOK'
  <2> DEFINE r == [draft[p] EXCEPT !.body.registry_anchor = commit]
  <2>1. draft[p] \in Receipt /\ commit \in Nat
    BY <1>4 DEF Anchor, TypeOK
  <2>2. r \in Receipt
    BY <2>1, AnchoredType
  <2>3. r.body.registry_anchor \in DOMAIN registry \cup {null}
    BY <2>1 DEF Receipt, Body
  <2>4. draft' = [draft EXCEPT ![p] = r]
    BY <1>4 DEF Anchor, TypeOK
  <2>5. runs' \in Nat /\ UNCHANGED <<clock, served, hosted, registry, verification, accepted>>
    BY <1>4 DEF Anchor, TypeOK
  <2> QED BY <2>2, <2>3, <2>4, <2>5, DraftType
<1>5. ASSUME NEW p \in Implementations, Host(p) PROVE TypeOK'
  <2>1. hosted' \in [Implementations -> Receipt \cup {null}]
    BY <1>5 DEF Host, TypeOK
  <2>2. \A q \in Implementations : \A r \in {draft'[q], hosted'[q]} \ {null} :
            r.body.registry_anchor \in DOMAIN registry' \cup {null}
    BY <1>5 DEF Host, TypeOK
  <2> QED BY <1>5, <2>1, <2>2 DEF Host, TypeOK
<1>6. ASSUME NEW p \in Implementations, List(p) PROVE TypeOK'
  <2>1. registry' \in Seq(Listing) /\ DOMAIN registry \subseteq DOMAIN registry'
    <3>1. PICK hashed \in {hosted[p], null} :
              registry' = Append(registry, [slug |-> p, conformance_receipt_sha256 |-> hashed])
      BY <1>6 DEF List
    <3>2. [slug |-> p, conformance_receipt_sha256 |-> hashed] \in Listing
      BY DEF TypeOK, Listing
    <3> QED BY <3>1, <3>2 DEF TypeOK
  <2>2. UNCHANGED <<clock, draft, served, hosted, verification, accepted, runs>>
    BY <1>6 DEF List
  <2>3. \A q \in Implementations : \A r \in {draft[q], hosted[q]} \ {null} :
            r.body.registry_anchor \in DOMAIN registry' \cup {null}
    BY <2>1 DEF TypeOK
  <2> QED BY <2>1, <2>2, <2>3 DEF TypeOK
<1>7. ASSUME NEW p \in Implementations, verifyConformance(p) PROVE TypeOK'
  <2>1. hosted[p] \in Receipt
    BY <1>7 DEF verifyConformance, TypeOK
  <2>2. CASE verification' = [at |-> "reverify", receipt |-> hosted[p]]
    <3>1. verification' \in Verification /\ verification'.at # "witness"
      BY <2>1, <2>2 DEF Verification
    <3> QED BY <1>7, <3>1, VerificationType DEF verifyConformance, TypeOK
  <2>3. CASE /\ Claimed(hosted[p]) \cap Cooperative # {} /\ CountSuffices(hosted[p])
             /\ verification' = [at |-> "witness", receipt |-> hosted[p], next |-> 1]
    <3>1. PICK l \in Claimed(hosted[p]) \cap Cooperative : Len(hosted[p].peer_witnesses) >= Quota[l]
      BY <2>3 DEF CountSuffices
    <3>2. Quota[l] \in Nat \ {0} /\ hosted[p].peer_witnesses \in Seq(Witness)
      BY <2>1, LevelsAssumption DEF Receipt
    <3>3. 1 \in DOMAIN hosted[p].peer_witnesses
      BY <3>1, <3>2
    <3>4. verification' \in Verification
      BY <2>1, <2>3 DEF Verification
    <3> QED BY <1>7, <2>3, <3>3, <3>4, VerificationType DEF verifyConformance, TypeOK
  <2> QED BY <1>7, <2>2, <2>3 DEF verifyConformance
<1>8. CASE verifyPeerWitnesses
  <2> DEFINE r    == verification.receipt
             next == verification.next
  <2>1. /\ verification \in [at : {"witness"}, receipt : Receipt, next : Nat]
        /\ next \in DOMAIN r.peer_witnesses /\ r.peer_witnesses \in Seq(Witness)
    BY <1>8, VerificationAt DEF verifyPeerWitnesses, TypeOK, Receipt
  <2>2. UNCHANGED <<clock, draft, served, hosted, registry, accepted, runs>>
    BY <1>8 DEF verifyPeerWitnesses
  <2>3. \/ verification' = Idle
        \/ verification' = [at |-> "anchor", receipt |-> r]
        \/ /\ next # Len(r.peer_witnesses)
           /\ verification' = [verification EXCEPT !.next = @ + 1]
    BY <1>8 DEF verifyPeerWitnesses, LastWitness
  <2>4. /\ verification' \in Verification
        /\ verification'.at = "witness" => verification'.next \in DOMAIN verification'.receipt.peer_witnesses
    BY <2>1, <2>3 DEF Verification, Idle
  <2> QED BY <2>2, <2>4, VerificationType DEF TypeOK
<1>9. CASE verifyRegistryAnchor
  <2>1. verification.receipt \in Receipt
    BY <1>9, VerificationAt DEF verifyRegistryAnchor
  <2>2. verification' \in Verification /\ verification'.at # "witness"
    BY <1>9, <2>1 DEF verifyRegistryAnchor, Verification, Idle
  <2> QED BY <1>9, <2>2, VerificationType DEF verifyRegistryAnchor, TypeOK
<1>10. CASE FetchFails \/ reverify
  <2>1. verification' \in Verification /\ verification'.at # "witness"
    BY <1>10 DEF FetchFails, reverify, Verification, Idle
  <2>2. accepted' \in Receipt \cup {null}
    BY <1>10, VerificationAt DEF FetchFails, reverify, TypeOK
  <2> QED BY <1>10, <2>1, <2>2, VerificationType DEF FetchFails, reverify
<1>11. CASE AdvanceClock
  BY <1>11 DEF AdvanceClock, TypeOK
<1>12. CASE UNCHANGED vars
  BY <1>12 DEF vars, TypeOK
<1>13. ASSUME NEW p \in Implementations, Serve(p) PROVE TypeOK'
  <2>1. served' \in [Implementations -> [levels : SUBSET Levels, witnesses : Nat] \cup {null}]
    <3>1. CASE draft[p] # null /\ served' = [served EXCEPT ![p] = Says(draft[p])]
      <4>1. Says(draft[p]) \in [levels : SUBSET Levels, witnesses : Nat]
        BY <3>1 DEF TypeOK, Says, Receipt, Body
      <4> QED BY <3>1, <4>1 DEF TypeOK
    <3>2. ASSUME NEW file \in Prepared[p], served' = [served EXCEPT ![p] = file]
          PROVE  served' \in [Implementations -> [levels : SUBSET Levels, witnesses : Nat] \cup {null}]
      BY <3>2, LevelsAssumption DEF TypeOK
    <3> QED BY <1>13, <3>1, <3>2 DEF Serve
  <2>2. UNCHANGED <<clock, draft, hosted, registry, verification, accepted, runs>>
    BY <1>13 DEF Serve
  <2> QED BY <2>1, <2>2 DEF TypeOK
<1>14. ASSUME NEW p \in Implementations, SignAgain(p) PROVE TypeOK'
  <2>1. draft[p] \in Receipt /\ draft[p] # null
    BY <1>14 DEF SignAgain, TypeOK
  <2>2. draft[p].body \in Body /\ draft[p].body.registry_anchor \in DOMAIN registry \cup {null}
    BY <2>1 DEF TypeOK, Receipt
  <2>3. /\ Signed(draft[p].body).body.registry_anchor \in DOMAIN registry \cup {null}
        /\ runs' \in Nat /\ UNCHANGED <<clock, served, hosted, registry, verification, accepted>>
    BY <1>14, <2>2 DEF SignAgain, Signed, TypeOK
  <2> QED BY <1>14, <2>2, <2>3, SignedType, DraftType DEF SignAgain
<1>15. ASSUME NEW p \in Implementations, NEW w \in Implementations,
              peerWitness(w, p) \/ WitnessOtherwise(w, p)
       PROVE  TypeOK'
  BY <1>3, <1>15 DEF peerWitness, WitnessOtherwise
<1> QED BY <1>1, <1>2, <1>4, <1>5, <1>6, <1>7, <1>8, <1>9, <1>10, <1>11, <1>12, <1>13, <1>14, <1>15
        DEF Next

\* Type correctness for all values of the constants; the verifier asks only for witnesses
\* and listings that exist (verifyPeerWitnesses, verifyRegistryAnchor).
THEOREM TypeCorrect == Spec => []TypeOK
BY TypeInit, TypeNext, PTL DEF Spec


-----------------------------------------------------------------------------
(* What is claimed, and what is accepted *)

\* A receipt as it was signed, but perhaps for its anchor and witnesses.
Genuine(r) ==
    /\ r.body = [r.signature EXCEPT !.registry_anchor = r.body.registry_anchor]
    /\ Justified(r.signature)

\* Enough different witnesses are named, and the first n of them have signed.
Vouched(r, n) ==
    /\ CountSuffices(r) /\ Independent(r)
    /\ \A k \in 1..n : r.peer_witnesses[k].signature = Stripped(r)

\* What verifyConformance demands of a receipt, the listings being those.
Approved(r, listings) ==
    /\ SignatureHolds(r) /\ Justified(r.body)
    /\ Claimed(r) \cap Cooperative # {} =>
           /\ r.body.registry_anchor \in DOMAIN listings
           /\ listings[r.body.registry_anchor].conformance_receipt_sha256 = null
           /\ Vouched(r, Len(r.peer_witnesses))

\* A listing with a hash was merged after the receipt had its anchor.
HashesPrecede(listings) ==
    \A k \in DOMAIN listings :
        listings[k].conformance_receipt_sha256 # null =>
            listings[k].conformance_receipt_sha256.body.registry_anchor \in (1..(k-1)) \cup {null}

\* How far a verification has come.
VerifiedSoFar ==
    /\ verification # Idle =>
           /\ Genuine(verification.receipt) /\ SignatureHolds(verification.receipt)
           /\ verification.receipt.body.registry_anchor \in DOMAIN registry \cup {null}
    /\ verification.at = "witness"  => Vouched(verification.receipt, verification.next - 1)
    /\ verification.at = "anchor"   => Vouched(verification.receipt,
                                               Len(verification.receipt.peer_witnesses))
    /\ verification.at = "reverify" => Approved(verification.receipt, registry)

\* Every receipt is genuine, and what is verified or accepted was checked.
GenuineInv ==
    /\ \A p \in Implementations : \A r \in ReceiptsOf(p) : Genuine(r)
    /\ HashesPrecede(registry)
    /\ VerifiedSoFar
    /\ accepted # null => Approved(accepted, registry)

LEMMA SignedGenuine ==
    ASSUME NEW core \in Body, Justified(core)
    PROVE  Genuine(Signed(core))
BY DEF Genuine, Signed, Body

\* The levels of a report are earned, since a failure anywhere leaves no report.
LEMMA AttestedJustified ==
    ASSUME NEW p \in Implementations, NEW results \in Reports(p), Succeeds(results)
    PROVE  Justified(Core(p, SuiteVersion, levelsFromResults(results), results))
<1> SUFFICES ASSUME NEW l \in levelsFromResults(results)
             PROVE  /\ Required[l] # {}
                    /\ \A f \in Required[l] : "passed" \in results[f] /\ "failed" \notin results[f]
  BY DEF Justified, Earned, Core
<1>1. Required[l] \subseteq Files
  BY SuiteAssumption DEF levelsFromResults
<1> QED BY <1>1 DEF levelsFromResults, Passed, Succeeds

LEMMA AttestedGenuine ==
    ASSUME TypeOK, NEW p \in Implementations, NEW results \in Reports(p), Succeeds(results)
    PROVE  Genuine(Signed(Core(p, SuiteVersion, levelsFromResults(results), results)))
<1> DEFINE core == Core(p, SuiteVersion, levelsFromResults(results), results)
<1>1. core \in Body
  BY AttestedType DEF Signed, Receipt
<1>2. Justified(core)
  BY AttestedJustified
<1> QED BY <1>1, <1>2, SignedGenuine

LEMMA SelfReceiptGenuine ==
    ASSUME TypeOK, NEW p \in Implementations
    PROVE  Genuine(Signed(Core(p, RuntimeVersion[p], SelfClaims[p], [f \in Files |-> {}])))
<1> DEFINE core == Core(p, RuntimeVersion[p], SelfClaims[p], [f \in Files |-> {}])
<1>1. core \in Body
  BY SelfReceiptType DEF Signed, Receipt
<1>2. RuntimeVersion[p] # SuiteVersion
  BY LevelsAssumption DEF SuiteVersion
<1>3. Justified(core)
  BY <1>2 DEF Justified, Core
<1> QED BY <1>1, <1>3, SignedGenuine

LEMMA FoundingGenuine ==
    ASSUME NEW p \in Implementations
    PROVE  Genuine(Founding(p))
<1> DEFINE core == [implementation |-> p, suite_version |-> SuiteVersion,
                    claimed_levels |-> FoundingClaims, results_hash |-> [f \in Files |-> {"passed"}],
                    not_after |-> ValidFor, registry_anchor |-> null]
<1>1. core \in Body
  BY FoundingType DEF Founding, Signed, Receipt
<1>2. Justified(core)
  BY LevelsAssumption, SuiteAssumption DEF Justified, Earned
<1>3. Founding(p) = Signed(core)
  BY DEF Founding
<1> HIDE DEF core
<1> QED BY <1>1, <1>2, <1>3, SignedGenuine

LEMMA GenuineInit == Init => GenuineInv
<1> SUFFICES ASSUME Init PROVE GenuineInv
  OBVIOUS
<1>1. \A p \in Implementations : \A r \in ReceiptsOf(p) : Genuine(r)
  BY FoundingGenuine DEF Init, ReceiptsOf
<1> QED BY <1>1 DEF Init, GenuineInv, HashesPrecede, VerifiedSoFar, Idle

\* What was signed of a genuine receipt stays as it is when it is witnessed or anchored.
LEMMA WitnessedGenuine ==
    ASSUME NEW r \in Receipt, Genuine(r), NEW ws
    PROVE  Genuine([r EXCEPT !.peer_witnesses = ws])
BY DEF Genuine, Receipt

LEMMA AnchoredGenuine ==
    ASSUME NEW r \in Receipt, Genuine(r), NEW commit
    PROVE  Genuine([r EXCEPT !.body.registry_anchor = commit])
<1> DEFINE s == [r EXCEPT !.body.registry_anchor = commit]
<1>1. s.signature = r.signature /\ s.body = [r.body EXCEPT !.registry_anchor = commit]
  BY DEF Receipt
<1>2. s.body = [r.signature EXCEPT !.registry_anchor = s.body.registry_anchor]
  BY <1>1 DEF Genuine, Receipt, Body
<1> QED BY <1>1, <1>2 DEF Genuine

\* An anchor justifies nothing and puts nothing in doubt.
LEMMA GenuineJustified ==
    ASSUME NEW r \in Receipt, Genuine(r)
    PROVE  Justified(r.body)
<1>1. /\ r.body.implementation = r.signature.implementation
      /\ r.body.suite_version = r.signature.suite_version
      /\ r.body.claimed_levels = r.signature.claimed_levels
      /\ r.body.results_hash = r.signature.results_hash
  BY DEF Genuine, Receipt, Body
<1> QED BY <1>1 DEF Genuine, Justified, Earned

LEMMA SignedAgainGenuine ==
    ASSUME NEW r \in Receipt, Genuine(r)
    PROVE  Genuine(Signed(r.body))
BY GenuineJustified, SignedGenuine DEF Receipt

\* The receipt in the file of an implementation is replaced by a genuine one.
LEMMA DraftGenuine ==
    ASSUME TypeOK, GenuineInv, NEW p \in Implementations, NEW r, Genuine(r),
           draft' = [draft EXCEPT ![p] = r], UNCHANGED <<hosted, registry, verification, accepted>>
    PROVE  GenuineInv'
<1>1. \A q \in Implementations : \A s \in {draft'[q], hosted'[q]} \ {null} : Genuine(s)
  BY DEF TypeOK, GenuineInv, ReceiptsOf
<1>2. VerifiedSoFar'
  BY DEF GenuineInv, VerifiedSoFar, Idle
<1> QED BY <1>1, <1>2 DEF GenuineInv, ReceiptsOf

\* The steps of the verifier up to the tests.
LEMMA VerificationGenuine ==
    ASSUME GenuineInv, UNCHANGED <<draft, hosted, registry, accepted>>, VerifiedSoFar'
    PROVE  GenuineInv'
BY DEF GenuineInv, ReceiptsOf

LEMMA IdleVerified == verification' = Idle => VerifiedSoFar'
BY DEF VerifiedSoFar, Idle


\* A receipt that claims L4 or L5 and whose witnesses have all signed it, with a listing at
\* its anchor that has its hash or none: it has none.
LEMMA ListedApproved ==
    ASSUME NEW r \in Receipt, HashesPrecede(registry), Genuine(r), SignatureHolds(r),
           r.body.registry_anchor \in DOMAIN registry \cup {null},
           Vouched(r, Len(r.peer_witnesses)), Listed(r), registry \in Seq(Listing)
    PROVE  Approved(r, registry)
<1> DEFINE k == r.body.registry_anchor
<1>1. k \in DOMAIN registry /\ k # null /\ DOMAIN registry = 1..Len(registry)
  BY DEF Listed
<1>2. registry[k].conformance_receipt_sha256 = null
  <2> SUFFICES ASSUME registry[k].conformance_receipt_sha256 # null PROVE FALSE
    OBVIOUS
  <2>1. registry[k].conformance_receipt_sha256 = r
    BY DEF Listed
  <2>2. k \in 1..(k-1)
    BY <1>1, <2>1 DEF HashesPrecede
  <2> QED BY <1>1, <2>2
<1> QED BY <1>1, <1>2, GenuineJustified DEF Approved

LEMMA GenuineNext == TypeOK /\ GenuineInv /\ [Next]_vars => GenuineInv'
<1> SUFFICES ASSUME TypeOK, GenuineInv, [Next]_vars PROVE GenuineInv'
  OBVIOUS
<1>1. ASSUME NEW p \in Implementations, attest(p) PROVE GenuineInv'
  BY <1>1, AttestedGenuine, DraftGenuine DEF attest
<1>2. ASSUME NEW p \in Implementations, conformanceReceipt(p) PROVE GenuineInv'
  BY <1>2, SelfReceiptGenuine, DraftGenuine DEF conformanceReceipt
<1>3. ASSUME NEW p \in Implementations, NEW w \in Implementations,
             NEW uri \in Implementations \cup {null},
             NEW org \in Organisations \cup {null}, Witnessed(w, p, uri, org)
      PROVE  GenuineInv'
  <2>1. draft[p] \in Receipt /\ Genuine(draft[p])
    BY <1>3 DEF Witnessed, TypeOK, GenuineInv, ReceiptsOf
  <2> DEFINE r == [draft[p] EXCEPT !.peer_witnesses =
                       Append(@, [witness_did |-> w, controller_org |-> org, witness_receipt_uri |-> uri,
                                  signature |-> Stripped(draft[p])])]
  <2>2. Genuine(r)
    BY <2>1, WitnessedGenuine
  <2>3. draft' = [draft EXCEPT ![p] = r]
    BY <1>3 DEF Witnessed, TypeOK
  <2> QED BY <1>3, <2>2, <2>3, DraftGenuine DEF Witnessed
<1>4. ASSUME NEW p \in Implementations, NEW commit \in DOMAIN registry, Anchor(p, commit) PROVE GenuineInv'
  <2>1. draft[p] \in Receipt /\ Genuine(draft[p])
    BY <1>4 DEF Anchor, TypeOK, GenuineInv, ReceiptsOf
  <2> DEFINE r == [draft[p] EXCEPT !.body.registry_anchor = commit]
  <2>2. Genuine(r)
    BY <2>1, AnchoredGenuine
  <2>3. draft' = [draft EXCEPT ![p] = r]
    BY <1>4 DEF Anchor, TypeOK
  <2> QED BY <1>4, <2>2, <2>3, DraftGenuine DEF Anchor
<1>5. ASSUME NEW p \in Implementations, SignAgain(p) PROVE GenuineInv'
  <2>1. draft[p] \in Receipt /\ Genuine(draft[p])
    BY <1>5 DEF SignAgain, TypeOK, GenuineInv, ReceiptsOf
  <2> QED BY <1>5, <2>1, SignedAgainGenuine, DraftGenuine DEF SignAgain
<1>6. ASSUME NEW p \in Implementations, Host(p) PROVE GenuineInv'
  <2>1. Genuine(draft[p])
    BY <1>6 DEF Host, GenuineInv, ReceiptsOf
  <2>2. \A q \in Implementations : \A s \in {draft'[q], hosted'[q]} \ {null} : Genuine(s)
    BY <1>6, <2>1 DEF Host, TypeOK, GenuineInv, ReceiptsOf
  <2>3. UNCHANGED <<registry, verification, accepted>>
    BY <1>6 DEF Host
  <2>4. VerifiedSoFar'
    BY <2>3 DEF GenuineInv, VerifiedSoFar, Idle
  <2> QED BY <2>2, <2>3, <2>4 DEF GenuineInv, ReceiptsOf
<1>7. ASSUME NEW p \in Implementations, List(p) PROVE GenuineInv'
  <2>1. PICK hashed \in {hosted[p], null} :
            registry' = Append(registry, [slug |-> p, conformance_receipt_sha256 |-> hashed])
    BY <1>7 DEF List
  <2>2. UNCHANGED <<draft, hosted, verification, accepted>>
    BY <1>7 DEF List
  <2>3. /\ DOMAIN registry = 1..Len(registry) /\ DOMAIN registry' = 1..(Len(registry) + 1)
        /\ Len(registry) \in Nat
        /\ \A k \in DOMAIN registry : registry'[k] = registry[k]
        /\ registry'[Len(registry) + 1].conformance_receipt_sha256 = hashed
    BY <2>1 DEF TypeOK
  <2>4. hashed # null => hashed.body.registry_anchor \in (1..Len(registry)) \cup {null}
    BY <2>3 DEF TypeOK
  <2>5. HashesPrecede(registry')
    <3> SUFFICES ASSUME NEW k \in DOMAIN registry', registry'[k].conformance_receipt_sha256 # null
                 PROVE  registry'[k].conformance_receipt_sha256.body.registry_anchor
                            \in (1..(k-1)) \cup {null}
      BY DEF HashesPrecede
    <3>1. CASE k = Len(registry) + 1
      BY <2>3, <2>4, <3>1
    <3>2. CASE k \in DOMAIN registry
      BY <2>3, <3>2 DEF GenuineInv, HashesPrecede
    <3> QED BY <2>3, <3>1, <3>2
  <2>6. \A r : Approved(r, registry) => Approved(r, registry')
    BY <2>3 DEF Approved
  <2>7. DOMAIN registry \subseteq DOMAIN registry'
    BY <2>3
  <2>8. VerifiedSoFar'
    BY <2>2, <2>6, <2>7 DEF GenuineInv, VerifiedSoFar, Idle
  <2> QED BY <2>2, <2>5, <2>6, <2>8 DEF GenuineInv, ReceiptsOf
<1>8. ASSUME NEW p \in Implementations, verifyConformance(p) PROVE GenuineInv'
  <2> DEFINE r == hosted[p]
  <2>1. /\ r \in Receipt /\ Genuine(r) /\ SignatureHolds(r)
        /\ r.body.registry_anchor \in DOMAIN registry \cup {null}
    BY <1>8 DEF verifyConformance, TypeOK, GenuineInv, ReceiptsOf
  <2>2. UNCHANGED <<draft, hosted, registry, accepted>>
    BY <1>8 DEF verifyConformance
  <2>3. CASE Claimed(r) \cap Cooperative = {} /\ verification' = [at |-> "reverify", receipt |-> r]
    <3>1. Approved(r, registry)
      BY <2>1, <2>3, GenuineJustified DEF Approved
    <3>2. VerifiedSoFar'
      BY <2>1, <2>2, <2>3, <3>1 DEF VerifiedSoFar
    <3> QED BY <2>2, <3>2, VerificationGenuine
  <2>4. CASE /\ CountSuffices(r) /\ Independent(r)
             /\ verification' = [at |-> "witness", receipt |-> r, next |-> 1]
    <3>1. Vouched(r, 0)
      BY <2>4 DEF Vouched
    <3>2. VerifiedSoFar'
      BY <2>1, <2>2, <2>4, <3>1 DEF VerifiedSoFar
    <3> QED BY <2>2, <3>2, VerificationGenuine
  <2> QED BY <1>8, <2>3, <2>4 DEF verifyConformance
<1>9. CASE verifyPeerWitnesses
  <2> DEFINE r    == verification.receipt
             next == verification.next
  <2>1. /\ verification \in [at : {"witness"}, receipt : Receipt, next : Nat]
        /\ next \in DOMAIN r.peer_witnesses /\ r.peer_witnesses \in Seq(Witness)
    BY <1>9, VerificationAt DEF verifyPeerWitnesses, TypeOK, Receipt
  <2>2. UNCHANGED <<draft, hosted, registry, accepted>>
    BY <1>9 DEF verifyPeerWitnesses
  <2>3. /\ Genuine(r) /\ SignatureHolds(r) /\ r.body.registry_anchor \in DOMAIN registry \cup {null}
        /\ Vouched(r, next - 1)
    BY <1>9 DEF verifyPeerWitnesses, GenuineInv, VerifiedSoFar, Idle
  <2>4. CASE ~Vouches(r.peer_witnesses[next], r)
    BY <1>9, <2>2, <2>4, IdleVerified, VerificationGenuine DEF verifyPeerWitnesses
  <2>5. CASE Vouches(r.peer_witnesses[next], r)
    <3>1. Vouched(r, next)
      BY <2>1, <2>3, <2>5 DEF Vouched, Vouches
    <3>2. CASE next = Len(r.peer_witnesses)
      <4>1. verification' = [at |-> "anchor", receipt |-> r]
        BY <1>9, <2>5, <3>2 DEF verifyPeerWitnesses, LastWitness
      <4>2. VerifiedSoFar'
        BY <2>2, <2>3, <3>1, <3>2, <4>1 DEF VerifiedSoFar
      <4> QED BY <2>2, <4>2, VerificationGenuine
    <3>3. CASE next # Len(r.peer_witnesses)
      <4>1. verification' = [verification EXCEPT !.next = @ + 1]
        BY <1>9, <2>5, <3>3 DEF verifyPeerWitnesses, LastWitness
      <4>2. /\ verification'.receipt = r /\ verification'.at = "witness"
            /\ verification'.next - 1 = next
        BY <2>1, <4>1
      <4>3. VerifiedSoFar'
        BY <2>2, <2>3, <3>1, <4>2 DEF VerifiedSoFar
      <4> QED BY <2>2, <4>3, VerificationGenuine
    <3> QED BY <3>2, <3>3
  <2> QED BY <2>4, <2>5
<1>10. CASE verifyRegistryAnchor
  <2> DEFINE r == verification.receipt
  <2>1. /\ r \in Receipt /\ Genuine(r) /\ SignatureHolds(r)
        /\ r.body.registry_anchor \in DOMAIN registry \cup {null}
        /\ Vouched(r, Len(r.peer_witnesses))
    BY <1>10, VerificationAt DEF verifyRegistryAnchor, GenuineInv, VerifiedSoFar, Idle
  <2>2. UNCHANGED <<draft, hosted, registry, accepted>>
    BY <1>10 DEF verifyRegistryAnchor
  <2>3. CASE Listed(r)
    <3>1. Approved(r, registry)
      BY <2>1, <2>3, ListedApproved DEF GenuineInv, TypeOK
    <3>2. verification' = [at |-> "reverify", receipt |-> r]
      BY <1>10, <2>3 DEF verifyRegistryAnchor
    <3>3. VerifiedSoFar'
      BY <2>1, <2>2, <3>1, <3>2 DEF VerifiedSoFar
    <3> QED BY <2>2, <3>3, VerificationGenuine
  <2>4. CASE ~Listed(r)
    BY <1>10, <2>2, <2>4, IdleVerified, VerificationGenuine DEF verifyRegistryAnchor
  <2> QED BY <2>3, <2>4
<1>11. CASE reverify
  <2>1. Approved(verification.receipt, registry)
    BY <1>11 DEF reverify, GenuineInv, VerifiedSoFar
  <2>2. VerifiedSoFar' /\ UNCHANGED <<draft, hosted, registry>>
    BY <1>11, IdleVerified DEF reverify
  <2>3. accepted' # null => Approved(accepted', registry)
    BY <1>11, <2>1 DEF reverify, GenuineInv
  <2> QED BY <2>2, <2>3 DEF GenuineInv, ReceiptsOf
<1>12. CASE FetchFails
  BY <1>12, IdleVerified, VerificationGenuine DEF FetchFails
<1>13. CASE UNCHANGED <<draft, hosted, registry, verification, accepted>>
  BY <1>13 DEF GenuineInv, ReceiptsOf, VerifiedSoFar, Idle
<1>14. ASSUME NEW p \in Implementations, Serve(p) PROVE GenuineInv'
  BY <1>13, <1>14 DEF Serve
<1>15. CASE AdvanceClock \/ UNCHANGED vars
  BY <1>13, <1>15 DEF AdvanceClock, vars
<1>16. ASSUME NEW p \in Implementations, NEW w \in Implementations,
              peerWitness(w, p) \/ WitnessOtherwise(w, p)
       PROVE  GenuineInv'
  BY <1>3, <1>16 DEF peerWitness, WitnessOtherwise
<1> QED BY <1>1, <1>2, <1>4, <1>5, <1>6, <1>7, <1>8, <1>9, <1>10, <1>11, <1>12, <1>14, <1>15, <1>16
        DEF Next

\* Every level a receipt claims was earned in the run it pins, or is what the server claims
\* by itself and says so, whoever hands it on (attest.js, GET /oap/conformance-receipt).
THEOREM AllEarned == Spec => []ClaimsEarned
<1>1. TypeOK /\ GenuineInv => ClaimsEarned
  BY GenuineJustified DEF ClaimsEarned, GenuineInv, TypeOK, ReceiptsOf
<1> QED BY <1>1, TypeInit, TypeNext, GenuineInit, GenuineNext, PTL DEF Spec

\* Witnesses that count as pairwise different are as many parties as there are entries.
LEMMA IndependentParties ==
    ASSUME NEW r \in Receipt, Independent(r)
    PROVE  Cardinality({Party(w) : w \in Range(r.peer_witnesses)}) = Len(r.peer_witnesses)
<1> DEFINE ws      == r.peer_witnesses
           parties == {Party(w) : w \in Range(ws)}
           party   == [k \in DOMAIN ws |-> Party(ws[k])]
<1>1. ws \in Seq(Witness) /\ DOMAIN ws = 1..Len(ws) /\ Len(ws) \in Nat
  BY DEF Receipt
<1>2. party \in Bijection(DOMAIN ws, parties)
  <2>1. \A k \in DOMAIN ws : party[k] = Party(ws[k]) /\ party[k] \in parties
    BY DEF Range
  <2>2. \A i, j \in DOMAIN ws : party[i] = party[j] => i = j
    BY <2>1 DEF Independent
  <2>3. \A x \in parties : \E k \in DOMAIN ws : party[k] = x
    <3>1. \A w \in Range(ws) : \E k \in DOMAIN ws : ws[k] = w
      BY DEF Range
    <3> QED BY <2>1, <3>1
  <2>4. party \in [DOMAIN ws -> parties]
    <3>1. party = [k \in DOMAIN ws |-> party[k]]
      OBVIOUS
    <3> HIDE DEF party
    <3> QED BY <2>1, <3>1
  <2> HIDE DEF party, parties
  <2> QED BY <2>2, <2>3, <2>4 DEF Bijection, Injection, IsInjective, Surjection
<1>3. ExistsBijection(DOMAIN ws, parties)
  BY <1>2 DEF ExistsBijection
<1>4. IsFiniteSet(1..Len(ws)) /\ Cardinality(1..Len(ws)) = Len(ws)
  BY <1>1, FS_Interval
<1> HIDE DEF parties, party
<1>5. Cardinality(parties) = Len(ws)
  BY <1>1, <1>3, <1>4, FS_Bijection
<1> QED BY <1>5 DEF parties

\* The verifier accepts only what was signed as it stands.  What it accepts with a claim of L4
\* or L5 was signed by as many parties as the levels take, and has its anchor at a listing
\* without a hash (verifyConformance, verifyPeerWitnesses, verifyRegistryAnchor).
THEOREM AcceptsAsSigned == Spec => []AcceptedAsSigned
<1>1. TypeOK /\ GenuineInv => AcceptedAsSigned
  <2> SUFFICES ASSUME TypeOK, Approved(accepted, registry), accepted # null
               PROVE  AcceptedAsSigned
    BY DEF GenuineInv, AcceptedAsSigned
  <2> DEFINE r       == accepted
             signed  == {w \in Range(r.peer_witnesses) : w.signature = Stripped(r)}
             parties == {Party(w) : w \in signed}
  <2>1. r \in Receipt /\ r.peer_witnesses \in Seq(Witness)
    BY DEF TypeOK, Receipt
  <2>2. r.signature = r.body /\ Justified(r.body)
    BY DEF Approved, SignatureHolds
  <2>3. ASSUME NEW l \in Claimed(r) \cap Cooperative
        PROVE  /\ registry[r.body.registry_anchor].conformance_receipt_sha256 = null
               /\ Cardinality(parties) >= Quota[l]
    <3>1. /\ registry[r.body.registry_anchor].conformance_receipt_sha256 = null
          /\ Vouched(r, Len(r.peer_witnesses))
      BY <2>3 DEF Approved
    <3>2. signed = Range(r.peer_witnesses)
      BY <2>1, <3>1 DEF Vouched, Range
    <3>3. Cardinality(parties) = Len(r.peer_witnesses)
      BY <2>1, <3>1, <3>2, IndependentParties DEF Vouched
    <3>4. Len(r.peer_witnesses) >= Quota[l]
      BY <3>1 DEF Vouched, CountSuffices
    <3> QED BY <3>1, <3>3, <3>4
  <2> QED BY <2>2, <2>3 DEF AcceptedAsSigned
<1> QED BY <1>1, TypeInit, TypeNext, GenuineInit, GenuineNext, PTL DEF Spec


-----------------------------------------------------------------------------
(* Who can claim L4 *)

\* p has not claimed L4 or L5, nor let the tests find that it does.
ClaimsNeither(p) ==
    /\ served[p] # null => served[p].levels \cap Cooperative = {}
    /\ draft[p] # null => Claimed(draft[p]) \cap Cooperative = {}
    /\ hosted[p] # null => Claimed(hosted[p]) \cap Cooperative = {}

OutsidersInv == \A p \in Implementations \ Insiders : ClaimsNeither(p)

\* Where nothing that the tests find claims L4 or L5 the suite gives neither: some file of such
\* a level asks for a claim that has a witness.
LEMMA NoFirstClaim ==
    ASSUME NEW p \in Implementations, NEW results \in Reports(p), Succeeds(results),
           SelfClaims[p] \cap Cooperative = {}, ClaimsNeither(p)
    PROVE  levelsFromResults(results) \cap Cooperative = {}
<1> SUFFICES ASSUME NEW l \in levelsFromResults(results), l \in Cooperative
             PROVE  FALSE
  OBVIOUS
<1>1. PICK f \in Required[l] \cap Gated : AppliesTo[f] \subseteq Cooperative /\ MinWitnesses[f] > 0
  BY CooperativeAssumption
<1>2. "passed" \in results[f]
  BY <1>1 DEF levelsFromResults, Passed
<1>3. PICK found \in Found(p) :
          IF found.levels \cap AppliesTo[f] = {} THEN results[f] = {"not_applicable"}
          ELSE found.witnesses < MinWitnesses[f] => "failed" \in results[f]
  BY <1>1, <1>2 DEF Reports
<1>4. found.levels \cap Cooperative = {}
  BY <1>3 DEF Found, Claimed, ClaimsNeither, Says
<1> QED BY <1>1, <1>2, <1>3, <1>4

LEMMA OutsidersInit == Init => OutsidersInv
BY DEF Init, OutsidersInv, ClaimsNeither, Insiders

\* The receipt in the file of an implementation is replaced, by one that claims neither if the
\* implementation claimed neither.
LEMMA DraftClaims ==
    ASSUME TypeOK, OutsidersInv, NEW q \in Implementations, NEW r,
           draft' = [draft EXCEPT ![q] = r], UNCHANGED <<served, hosted>>,
           q \notin Insiders => Claimed(r) \cap Cooperative = {}
    PROVE  OutsidersInv'
<1> SUFFICES ASSUME NEW p \in Implementations \ Insiders PROVE ClaimsNeither(p)'
  BY DEF OutsidersInv, Insiders
<1>1. ClaimsNeither(p)
  BY DEF OutsidersInv
<1>2. draft'[p] = IF p = q THEN r ELSE draft[p]
  BY DEF TypeOK
<1> QED BY <1>1, <1>2 DEF ClaimsNeither, Claimed

LEMMA OutsidersNext == TypeOK /\ OutsidersInv /\ [Next]_vars => OutsidersInv'
<1> SUFFICES ASSUME TypeOK, OutsidersInv, [Next]_vars PROVE OutsidersInv'
  OBVIOUS
<1>0. \A p \in Implementations : p \notin Insiders =>
          /\ ClaimsNeither(p) /\ SelfClaims[p] \cap Cooperative = {}
          /\ \A file \in Prepared[p] : file.levels \cap Cooperative = {}
  BY DEF OutsidersInv, Insiders
<1>1. CASE UNCHANGED <<draft, served, hosted>>
  BY <1>1 DEF OutsidersInv, ClaimsNeither, Claimed
<1>2. ASSUME NEW q \in Implementations, attest(q) PROVE OutsidersInv'
  <2>1. PICK results \in Reports(q) :
            /\ Succeeds(results)
            /\ draft' = [draft EXCEPT ![q] =
                            Signed(Core(q, SuiteVersion, levelsFromResults(results), results))]
    BY <1>2 DEF attest
  <2>2. Claimed(Signed(Core(q, SuiteVersion, levelsFromResults(results), results)))
            = levelsFromResults(results)
    BY DEF Claimed, Signed, Core
  <2>3. q \notin Insiders => levelsFromResults(results) \cap Cooperative = {}
    BY <1>0, <2>1, NoFirstClaim
  <2> QED BY <1>2, <2>1, <2>2, <2>3, DraftClaims DEF attest
<1>3. ASSUME NEW q \in Implementations, conformanceReceipt(q) PROVE OutsidersInv'
  <2>1. Claimed(Signed(Core(q, RuntimeVersion[q], SelfClaims[q], [f \in Files |-> {}]))) = SelfClaims[q]
    BY DEF Claimed, Signed, Core
  <2> QED BY <1>0, <1>3, <2>1, DraftClaims DEF conformanceReceipt
<1>4. ASSUME NEW q \in Implementations, NEW w \in Implementations,
             NEW uri \in Implementations \cup {null},
             NEW org \in Organisations \cup {null}, Witnessed(w, q, uri, org)
      PROVE  OutsidersInv'
  <2> DEFINE r == [draft[q] EXCEPT !.peer_witnesses =
                       Append(@, [witness_did |-> w, controller_org |-> org, witness_receipt_uri |-> uri,
                                  signature |-> Stripped(draft[q])])]
  <2>1. draft[q] \in Receipt /\ draft[q] # null
    BY <1>4 DEF Witnessed, TypeOK
  <2>2. draft' = [draft EXCEPT ![q] = r]
    BY <1>4 DEF Witnessed, TypeOK
  <2>3. Claimed(r) = Claimed(draft[q])
    BY <2>1 DEF Claimed, Receipt
  <2>4. q \notin Insiders => Claimed(r) \cap Cooperative = {}
    BY <1>0, <2>1, <2>3 DEF ClaimsNeither
  <2> QED BY <1>4, <2>2, <2>4, DraftClaims DEF Witnessed
<1>5. ASSUME NEW q \in Implementations, NEW commit \in DOMAIN registry, Anchor(q, commit)
      PROVE  OutsidersInv'
  <2> DEFINE r == [draft[q] EXCEPT !.body.registry_anchor = commit]
  <2>1. draft[q] \in Receipt /\ draft[q] # null
    BY <1>5 DEF Anchor, TypeOK
  <2>2. draft' = [draft EXCEPT ![q] = r]
    BY <1>5 DEF Anchor, TypeOK
  <2>3. Claimed(r) = Claimed(draft[q])
    BY <2>1 DEF Claimed, Receipt, Body
  <2>4. q \notin Insiders => Claimed(r) \cap Cooperative = {}
    BY <1>0, <2>1, <2>3 DEF ClaimsNeither
  <2> QED BY <1>5, <2>2, <2>4, DraftClaims DEF Anchor
<1>6. ASSUME NEW q \in Implementations, SignAgain(q) PROVE OutsidersInv'
  <2>1. Claimed(Signed(draft[q].body)) = Claimed(draft[q]) /\ draft[q] # null
    BY <1>6 DEF SignAgain, Claimed, Signed
  <2>2. q \notin Insiders => Claimed(Signed(draft[q].body)) \cap Cooperative = {}
    BY <1>0, <2>1 DEF ClaimsNeither
  <2> QED BY <1>6, <2>2, DraftClaims DEF SignAgain
<1>7. ASSUME NEW q \in Implementations, Serve(q) PROVE OutsidersInv'
  <2> SUFFICES ASSUME NEW p \in Implementations, p \notin Insiders PROVE ClaimsNeither(p)'
    BY DEF OutsidersInv, Insiders
  <2>1. served'[p] # null => served'[p].levels \cap Cooperative = {}
    <3>1. CASE q # p
      BY <1>0, <1>7, <3>1 DEF Serve, TypeOK, ClaimsNeither
    <3>2. CASE q = p /\ draft[p] # null /\ served' = [served EXCEPT ![p] = Says(draft[p])]
      BY <1>0, <3>2 DEF TypeOK, ClaimsNeither, Says, Claimed
    <3>3. ASSUME q = p, NEW file \in Prepared[p], served' = [served EXCEPT ![p] = file]
          PROVE  served'[p] # null => served'[p].levels \cap Cooperative = {}
      BY <1>0, <3>3 DEF TypeOK
    <3> QED BY <1>7, <3>1, <3>2, <3>3 DEF Serve
  <2> QED BY <1>0, <1>7, <2>1 DEF Serve, ClaimsNeither, Claimed
<1>8. ASSUME NEW q \in Implementations, Host(q) PROVE OutsidersInv'
  <2> SUFFICES ASSUME NEW p \in Implementations, p \notin Insiders PROVE ClaimsNeither(p)'
    BY DEF OutsidersInv, Insiders
  <2>1. hosted'[p] \in {hosted[p], draft[p]} /\ UNCHANGED <<draft, served>>
    BY <1>8 DEF Host, TypeOK
  <2> QED BY <1>0, <2>1 DEF ClaimsNeither, Claimed
<1>9. ASSUME NEW q \in Implementations, List(q) \/ verifyConformance(q) PROVE OutsidersInv'
  BY <1>1, <1>9 DEF List, verifyConformance
<1>10. CASE verifyPeerWitnesses \/ verifyRegistryAnchor \/ FetchFails \/ reverify
  BY <1>1, <1>10 DEF verifyPeerWitnesses, verifyRegistryAnchor, FetchFails, reverify
<1>11. CASE AdvanceClock \/ UNCHANGED vars
  BY <1>1, <1>11 DEF AdvanceClock, vars
<1>12. ASSUME NEW q \in Implementations, NEW w \in Implementations,
              peerWitness(w, q) \/ WitnessOtherwise(w, q)
       PROVE  OutsidersInv'
  BY <1>4, <1>12 DEF peerWitness, WitnessOtherwise
<1> QED BY <1>2, <1>3, <1>5, <1>6, <1>7, <1>8, <1>9, <1>10, <1>11, <1>12 DEF Next

\* Nobody who starts without a claim of L4 or L5, by founding, by its server or by a file it has
\* prepared, ever comes to have one, whatever is tested, witnessed, served, hosted, signed again
\* and anchored (attest.js, levelsFromResults).
THEOREM OutsidersStayOut == Spec => []OnlyInsidersCooperate
<1>1. OutsidersInv => OnlyInsidersCooperate
  BY DEF OutsidersInv, ClaimsNeither, OnlyInsidersCooperate, ReceiptsOf
<1> QED BY <1>1, TypeInit, TypeNext, OutsidersInit, OutsidersNext, PTL DEF Spec

=============================================================================
