----------------------------- MODULE MatchBroker -----------------------------
(***************************************************************************)
(* The reference match broker (reference/match-broker): providers register *)
(* manifests, the broker publishes the Merkle root of all of them, and     *)
(* answers agents with candidates and with proofs about its index.         *)
(*                                                                         *)
(* Handlers are synchronous.  POST /oap/manifests writes three tables in   *)
(* three SQL statements that commit on their own: it is one action for each*)
(* and the process may die in between.  The manifests, the corpus and the  *)
(* published roots stay, indexCache is lost, and the next boot publishes   *)
(* an index again.  The handler may also throw in between: the provider is *)
(* answered with an error, the row stays, and so do the process, its cache *)
(* and the last root, although they do not know of the row.                *)
(*                                                                         *)
(* The hash of a manifest is the manifest.  A root is represented by the   *)
(* leaves it was computed from; Root gives the hash.  The scores of the    *)
(* ranking are floating point: the order of the candidates, and with it the*)
(* choice of the top_k, is left open.                                      *)
(***************************************************************************)
EXTENDS Naturals, Sequences, FiniteSets, MerkleTree

CONSTANTS
    Providers,   \* provider DIDs
    Manifests,   \* the manifests they may register
    Intents,     \* the Intents agents may send
    MaxRoots,    \* bound on the roots registrations publish
    MaxFaults,   \* bound on the crashes and the registrations that fail
    Names,       \* the names of jurisdictions and categories
    Pieces,      \* what a category is split into at its commas
    text,        \* a value that is not a number, where one is expected
    null         \* an absent field, row or answer

riskOrder == [low |-> 1, medium |-> 2, high |-> 3]
riskClass == DOMAIN riskOrder \cup {"unknown"}

\* Nothing checks what a manifest or a filter says.
Manifest == [conformance_level : Nat \cup {text, null}, risk_class : riskClass \cup {null},
             avg_cost_usd : Nat \cup {text, null}, jurisdictions : SUBSET Names,
             categories : SUBSET Names]

Filter   == [jurisdictions : SUBSET Names, risk_class : riskClass \cup {null},
             min_conformance_level : Nat \cup {text, null},
             max_cost_usd : Nat \cup {text, null}, categories : SUBSET Names]

ASSUME ManifestsAssumption == Manifests \subseteq Manifest
ASSUME IntentsAssumption   == Intents \subseteq [top_k : Nat, filters : Filter]
ASSUME PiecesAssumption    == Pieces \in [Names -> SUBSET Names]
ASSUME BoundsAssumption    == MaxRoots \in Nat /\ MaxFaults \in Nat
ASSUME NullAssumption      == null \notin Manifests \cup Nat \cup riskClass
                              /\ text \notin Nat \cup {null}

VARIABLES
    manifests,    \* the table manifests, in the order of rowid
    bm25_corpus,  \* the table bm25_corpus: the manifest whose terms it holds
    index_roots,  \* the table index_roots: the leaves of every published root
    indexCache,   \* in memory, by indexed provider
    handler,      \* what the process writes next
    answer,       \* the last answer an agent got
    registered,   \* history: the manifests each provider ever sent
    failed,       \* history: the providers answered with an error since the last root
    faults        \* their number

vars == <<manifests, bm25_corpus, index_roots, indexCache, handler, answer,
          registered, failed, faults>>

Idle == [at |-> "idle"]
Down == [at |-> "down"]

-----------------------------------------------------------------------------
(* POST /oap/manifests *)

Default_None(value, default) == value                              \* a mutant
Default(value, default) == IF value = null THEN default ELSE value

\* A row has the manifest and, in columns of their own, what the filter reads.  The
\* text of the categories is represented by the set of those that are joined.
Row(p, m) ==
    [provider_did      |-> p,
     manifest_json     |-> m,
     conformance_level |-> Default(m.conformance_level, 0),
     risk_class        |-> Default(m.risk_class, "low"),
     avg_cost_usd      |-> IF m.avg_cost_usd = 0 THEN null ELSE m.avg_cost_usd,
     jurisdictions     |-> m.jurisdictions,
     categories_text   |-> m.categories]

Registered(p) == \E i \in DOMAIN manifests : manifests[i].provider_did = p

Upsert_NewRow(p, m) ==                                             \* a mutant
    Append(SelectSeq(manifests, LAMBDA row : row.provider_did # p), Row(p, m))
Upsert_OldColumns(p, m) ==                                         \* a mutant
    IF Registered(p)
    THEN [i \in DOMAIN manifests |->
             IF manifests[i].provider_did = p THEN [manifests[i] EXCEPT !.manifest_json = m]
             ELSE manifests[i]]
    ELSE Append(manifests, Row(p, m))
\* ON CONFLICT(provider_did) DO UPDATE: the row keeps its place.
Upsert(p, m) ==
    IF Registered(p)
    THEN [i \in DOMAIN manifests |->
             IF manifests[i].provider_did = p THEN Row(p, m) ELSE manifests[i]]
    ELSE Append(manifests, Row(p, m))

\* The first write: the row ...
registerManifest_Overlapping(p, m) ==                              \* a mutant
    /\ handler # Down
    /\ Len(index_roots) < MaxRoots
    /\ manifests' = Upsert(p, m)
    /\ handler' = [at |-> "corpus", provider |-> p, manifest |-> m]
    /\ registered' = [registered EXCEPT ![p] = @ \cup {m}]
    /\ UNCHANGED <<bm25_corpus, index_roots, indexCache, answer, failed, faults>>
registerManifest(p, m) ==
    /\ handler = Idle
    /\ Len(index_roots) < MaxRoots
    /\ manifests' = Upsert(p, m)
    /\ handler' = [at |-> "corpus", provider |-> p, manifest |-> m]
    /\ registered' = [registered EXCEPT ![p] = @ \cup {m}]
    /\ UNCHANGED <<bm25_corpus, index_roots, indexCache, answer, failed, faults>>

\* ... the second: the frequencies of its terms ...
indexManifestBm25 ==
    /\ handler.at = "corpus"
    /\ bm25_corpus' = [bm25_corpus EXCEPT ![handler.provider] = handler.manifest]
    /\ handler' = [at |-> "publish", provider |-> handler.provider]
    /\ UNCHANGED <<manifests, index_roots, indexCache, answer, registered, failed, faults>>

\* ... either of which may be the last: indexManifestBm25 throws if an action of the
\* manifest is null, and any statement may.  The provider gets a status of 500.
registrationFails ==
    /\ handler.at \in {"corpus", "publish"}
    /\ faults < MaxFaults
    /\ faults' = faults + 1
    /\ failed' = failed \cup {handler.provider}
    /\ handler' = Idle
    /\ UNCHANGED <<manifests, bm25_corpus, index_roots, indexCache, answer, registered>>

LeavesOf(rows) == [i \in DOMAIN rows |-> rows[i].manifest_json]

\* The cache after a rebuild.  The positions are counted from 0.
CacheOf(rows) ==
    [p \in {rows[i].provider_did : i \in DOMAIN rows} |->
        LET i == CHOOSE j \in DOMAIN rows : rows[j].provider_did = p
        IN  [leaf_index |-> i - 1,
             leaf_hash  |-> rows[i].manifest_json,
             proof      |-> Proof(LeavesOf(rows), i - 1)]]

\* ... the third: the root, and with it the cache of the proofs.
rebuildAndPublishIndex ==
    /\ index_roots' = Append(index_roots, LeavesOf(manifests))
    /\ indexCache' = CacheOf(manifests)
    /\ handler' = Idle
    /\ failed' = {}
    /\ UNCHANGED <<manifests, bm25_corpus, answer, registered, faults>>

publishIndex == handler.at = "publish" /\ rebuildAndPublishIndex

-----------------------------------------------------------------------------
(* The process dies, whatever it was doing, and boots again. *)

Crash ==
    /\ handler # Down
    /\ faults < MaxFaults
    /\ faults' = faults + 1
    /\ handler' = Down
    /\ indexCache' = <<>>
    /\ UNCHANGED <<manifests, bm25_corpus, index_roots, answer, registered, failed>>

Boot_NoIndex ==                                                    \* a mutant
    IF index_roots = <<>> THEN rebuildAndPublishIndex
    ELSE /\ handler' = Idle
         /\ UNCHANGED <<manifests, bm25_corpus, index_roots, indexCache, answer, registered,
                        failed, faults>>
Boot == rebuildAndPublishIndex

boot == handler = Down /\ Boot

-----------------------------------------------------------------------------
(* POST /oap/resolve *)

\* The names the filter finds in the text: what is joined with commas is split at
\* every comma, and an empty text into one empty name.
Categories(row) ==
    IF row.categories_text = {} THEN {""} ELSE UNION {Pieces[c] : c \in row.categories_text}

\* No comparison with what is not a number is true.
Less(x, y) == x \in Nat /\ y \in Nat /\ x < y

\* A class the order does not have: the lowest if a row is of it, no limit in a filter.
Risk(class, unknown) == IF class \in DOMAIN riskOrder THEN riskOrder[class] ELSE unknown

passesConstraints(row, f) ==
    /\ (f.jurisdictions # {} /\ row.jurisdictions # {}) =>
           row.jurisdictions \cap (f.jurisdictions \cup {"*"}) # {}
    /\ f.risk_class # null => Risk(row.risk_class, 1) =< Risk(f.risk_class, 3)
    /\ f.min_conformance_level # null =>
           ~ Less(row.conformance_level, f.min_conformance_level)
    /\ (f.max_cost_usd # null /\ row.avg_cost_usd # null) =>
           ~ Less(f.max_cost_usd, row.avg_cost_usd)
    /\ f.categories # {} => Categories(row) \cap f.categories # {}

Filtered(f) == {i \in DOMAIN manifests : passesConstraints(manifests[i], f)}

\* A candidate that is not in the cache would be shown without a proof.
Candidate(i) ==
    LET p       == manifests[i].provider_did
        indexed == p \in DOMAIN indexCache
    IN  [provider_did |-> p,
         manifest     |-> manifests[i].manifest_json,
         leaf_hash    |-> IF indexed THEN indexCache[p].leaf_hash ELSE null,
         proof_path   |-> IF indexed THEN indexCache[p].proof ELSE <<>>]

\* The latest root is named by its number.  The failed registrations are history.
resolve(intent) ==
    /\ handler = Idle
    /\ \E top \in SUBSET Filtered(intent.filters) :
           /\ Cardinality(top) = IF intent.top_k < Cardinality(Filtered(intent.filters))
                                 THEN intent.top_k ELSE Cardinality(Filtered(intent.filters))
           /\ answer' = [type       |-> "candidates",
                         intent     |-> intent,
                         root       |-> Len(index_roots),
                         failed     |-> failed,
                         candidates |-> {Candidate(i) : i \in top}]
    /\ UNCHANGED <<manifests, bm25_corpus, index_roots, indexCache, handler, registered,
                   failed, faults>>

\* GET /oap/index/proof
indexProof(p) ==
    /\ handler = Idle
    /\ answer' = IF p \notin DOMAIN indexCache
                 THEN [type |-> "negative_inclusion_proof", root |-> Len(index_roots),
                       provider_did |-> p]
                 ELSE [type |-> "inclusion_proof", root |-> Len(index_roots),
                       provider_did |-> p, leaf_hash |-> indexCache[p].leaf_hash,
                       proof_path |-> indexCache[p].proof]
    /\ UNCHANGED <<manifests, bm25_corpus, index_roots, indexCache, handler, registered,
                   failed, faults>>

-----------------------------------------------------------------------------
Init ==
    /\ manifests = <<>>
    /\ bm25_corpus = [p \in Providers |-> null]
    /\ index_roots = <<>>
    /\ indexCache = <<>>
    /\ handler = Down
    /\ answer = null
    /\ registered = [p \in Providers |-> {}]
    /\ failed = {}
    /\ faults = 0

Next ==
    \/ \E p \in Providers : \E m \in Manifests : registerManifest(p, m)
    \/ indexManifestBm25
    \/ registrationFails
    \/ publishIndex
    \/ Crash
    \/ boot
    \/ \E intent \in Intents : resolve(intent)
    \/ \E p \in Providers : indexProof(p)

Spec == Init /\ [][Next]_vars

-----------------------------------------------------------------------------
(* Properties *)

ManifestRow == [provider_did : Providers, manifest_json : Manifests,
                conformance_level : Nat \cup {text}, risk_class : riskClass,
                avg_cost_usd : Nat \cup {text, null}, jurisdictions : SUBSET Names,
                categories_text : SUBSET Names]
Handler     == {Idle, Down} \cup [at : {"publish"}, provider : Providers]
               \cup [at : {"corpus"}, provider : Providers, manifest : Manifests]

\* Every variable has its type.
TypeOK ==
    /\ manifests \in Seq(ManifestRow)
    /\ bm25_corpus \in [Providers -> Manifests \cup {null}]
    /\ index_roots \in Seq(Seq(Manifests))
    /\ DOMAIN indexCache \subseteq Providers
    /\ \A p \in DOMAIN indexCache :
           indexCache[p].leaf_index \in Nat /\ indexCache[p].leaf_hash \in Manifests
    /\ handler \in Handler
    /\ answer # null => answer.root \in DOMAIN index_roots
    /\ registered \in [Providers -> SUBSET Manifests]
    /\ failed \subseteq Providers
    /\ faults \in Nat

Provable(leaf_hash, proof_path) ==
    verifyInclusionProof(leaf_hash, proof_path, Root(index_roots[answer.root]))

\* What an agent was shown is proved by the root it was given, though manifests
\* are registered, fail to be, and the broker restarts before and after: each leaf
\* named with a candidate or by an inclusion proof, and it is the leaf of the manifest
\* that is shown with it, unless a registration of the provider had failed since that
\* root was published.
AnswersProvable ==
    answer # null =>
        CASE answer.type = "candidates" ->
                \A c \in answer.candidates :
                    /\ c.leaf_hash # null => Provable(c.leaf_hash, c.proof_path)
                    /\ c.leaf_hash # c.manifest => c.provider_did \in answer.failed
          [] answer.type = "inclusion_proof" ->
                Provable(answer.leaf_hash, answer.proof_path)
          [] answer.type = "negative_inclusion_proof" -> TRUE

\* A provider the broker denies to know has no leaf under the root of the denial,
\* now or after it is registered: not even where the process died before it had
\* published the provider's manifest.
DenialsTrue ==
    (answer # null /\ answer.type = "negative_inclusion_proof") =>
        \A i \in DOMAIN manifests :
            manifests[i].provider_did = answer.provider_did =>
                i > Len(index_roots[answer.root])

\* What a filter asks of a manifest.  Neither a field that is left out is held against
\* it, except for the conformance level and the categories, nor one that says something
\* the code has no order for.  A category is as many as it has parts.
Satisfies(m, f) ==
    /\ (f.risk_class \in DOMAIN riskOrder /\ m.risk_class \in DOMAIN riskOrder) =>
           riskOrder[m.risk_class] =< riskOrder[f.risk_class]
    /\ f.min_conformance_level \in Nat =>
           /\ m.conformance_level \in Nat => m.conformance_level >= f.min_conformance_level
           /\ m.conformance_level = null => f.min_conformance_level = 0
    /\ (f.max_cost_usd \in Nat /\ m.avg_cost_usd \in Nat) => m.avg_cost_usd =< f.max_cost_usd
    /\ (f.jurisdictions # {} /\ m.jurisdictions # {}) =>
           m.jurisdictions \cap (f.jurisdictions \cup {"*"}) # {}
    /\ f.categories # {} =>
           \/ \E c \in m.categories : Pieces[c] \cap f.categories # {}
           \/ m.categories = {} /\ "" \in f.categories

\* The filters are evaluated on columns, but the manifest that is shown satisfies
\* them, however often it was replaced.
CandidatesMeetFilters ==
    (answer # null /\ answer.type = "candidates") =>
        \A c \in answer.candidates : Satisfies(c.manifest, answer.intent.filters)

\* A provider keeps its leaf index for good: in every root ever published the leaf
\* at that index is a manifest of the provider that has the index today.
IndexesKept ==
    \A n \in DOMAIN index_roots : \A i \in DOMAIN index_roots[n] :
        /\ i \in DOMAIN manifests
        /\ index_roots[n][i] \in registered[manifests[i].provider_did]

\* The published roots are those of a verifiable index: each is of all that was accepted
\* before it, one entry is accepted from one root to the next unless the provider of
\* another was told that it failed or the process died, and none moves or is dropped.
Index == INSTANCE VerifiableIndex WITH Leaves    <- Manifests,
                                       entries   <- LeavesOf(manifests),
                                       accepting <- handler.at \in {"corpus", "publish"},
                                       published <- index_roots
ImplementsIndex == Index!Spec

-----------------------------------------------------------------------------
(* What the head of broker.js says, and a crash or an error breaks *)

\* "BM25 Sparse Retrieval - over manifest text": a candidate is ranked by the
\* terms of the manifest that is shown with it.
CorpusFollowsManifests ==
    handler = Idle =>
        \A i \in DOMAIN manifests :
            bm25_corpus[manifests[i].provider_did] = manifests[i].manifest_json

=============================================================================
