# OAP: specifications of the reference implementation

TLA+ specifications of the reference components of the Open Agent Protocol, the
configurations with which TLC checks them on small instances, and proofs of their
main properties that TLAPS checks for every instance.

- To check a model: `tlc -workers 2 -config MCCoordinator.cfg MCCoordinator`
- To check proofs: `tlapm CoordinatorProofs.tla`

Paths below are relative to `src/`.

## 1. The system

An *agent* acts for a *principal*. It finds *Tools* through a *match broker*,
subscribes to them, invokes their actions on the *Tool servers* and collects signed
*receipts*. A *coordinator* composes the offers of several brokers into a *workflow*
and signs *Cross Match Receipts* over the brokers' segments; a *meta registry* anchors
the final one. SDKs in TypeScript and Python give Tool authors a server of their own,
and a set of pure algorithms (handshake, query language, ring detection, a threshold
signature stub) stands beside them.

```
 agent --invoke/subscribe/delete--> Tool server (reference/server, or an SDK server)
   |                                   |  SQLite: receipts, chain_state, rate_buckets, ...
   +---resolve/proof--> match broker <-+-- POST /oap/manifests
                            |             SQLite: manifests, bm25_corpus, index_roots
                 category profiles
                            v
 clients --open/segment/close--> coordinator --anchor--> meta registry
```

The JavaScript and TypeScript parts run on one event loop: there are no data races, and
interleaving happens only at an `await`. The Python server runs on an event loop, too, but
FastAPI runs the handlers that are declared `def` on a pool of threads. What is persistent is
SQLite; each statement commits on its own, no handler opens a transaction.

### Inventory

**Workflow coordinator**, `reference/coordinator/coordinator.js` (RFC 0035).
*State*: per workflow its state, selected brokers, segments, last receipt and audit
log; one heartbeat counter and the last heartbeat of each workflow; all in memory.
*Operations*: `openWorkflow` (one await per role, for the broker's profile),
`ingestSegment`, `buildCrossMatchReceipt`, `handleRevocation`, `closeWorkflow` (awaits
the anchor), `tickExpiry`, `publishHeartbeat`, `assumeFromFailover`, and for third
parties `verifyCrossMatchReceipt`. *Hard*: what happens during an await; a receipt
that is older than the segments; revocation and expiry against a close in flight; a
rejected anchor. *Correct when*: a workflow that is closed has one anchored receipt,
which was good; every receipt handed out can be verified and is a snapshot of what
was ingested; a workflow does not stay in `Closing`.

**Tool server**, `reference/server/server.js`. *State*: the tables `receipts`,
`chain_state`, `rate_buckets`, `subscriptions`; in memory `NOTES` and the admission
counter. *Operations*: invoke, audit, export, receipt verification, subscribe and
unsubscribe, deletion of a principal's data, late join, and the convention and drift
endpoints. All are synchronous. *Hard*: a crash between two statements of a handler;
the boundary of a minute; erasure out of the middle of a chain. *Correct when*: a limit
is never exceeded, what was acknowledged stays on the chain, erasure touches nothing
of others.

**Match broker**, `reference/match-broker/broker.js`. *State*: the tables `manifests`,
`bm25_corpus`, `index_roots`; in memory `indexCache` with a Merkle proof for each
provider. *Operations*: register, resolve, index root, index proof, agent index, boot.
*Hard*: three writes and a cache that must agree, in spite of crashes and of a registration
that throws after its first write; updates in place; odd layers of the tree; manifests whose
columns say less than they do. *Correct when*: each leaf it names is provable by the root
it names, what it denies was not in the index, filters hold of what is shown, a leaf
index belongs to one provider.

**Reference agent**, `reference/agent/agent.js`. *State*: manifests, subscriptions (by
Tool), receipts and the hash of the last one, in memory. *Operations*: discover,
`invoke` (awaits consent, then the answer), `subscribe`, audit, deletion, `killSwitch`,
chain verification. *Hard*: the kill switch awaits one request per subscription while
it iterates over the live map, swallows failures and clears the map; a subscribe in
flight survives it. *Correct when*: receipts form a chain in the order in which they
were completed; a kill switch misses no subscription the agent holds, and it returns.

**SDK servers**, `sdks/typescript/src/server.ts`, `sdks/python/src/oap_sdk/server.py`,
with their storage. *State*: receipts, chain tip, rate buckets, subscriptions and
incidents, in memory. *Operations*: those of the Tool server, but invoke awaits a policy hook
and the action's handler; in Python a billing request is answered on a thread. *Hard*:
invocations overlap; a limit is counted before an await, a receipt is chained after it; the
receipt of an output or of a subscription may be impossible to write; a dict changes while a
thread iterates over it. *Correct when*: the limit holds, no call or subscription has a receipt
but that of its outcome, the chain has no branches, erasure is exact and billing answers are
true, however calls overlap.

**Algorithms**: the three-tier handshake (`reference/aht/three-tier.js` and a port in each SDK),
the query language AQL (`reference/aql`), ring detection, the ranking of the match broker. No
state. *Hard*: three implementations, in languages that write and order the same conventions
differently, that must choose the same one; the bound of 3t+1; three functions that follow
pointers with wildcards; an aggregation followed by a recursion over a graph; scores that are
relative to other candidates. *Correct when*: followers commit to the same convention, as far as
their languages read alike, whatever adversaries do, components are complete, answers are what
the query denotes, and a higher cost does not move a candidate up.

**Conformance**: `test-suite/runner.js` and `test-suite/attest.js`, which turn a run of the
suite into a signed receipt or add a witness to one, and `reference/agent/conformance-verifier.js`
(RFC 0019, RFC 0026). *State*: none of their own; receipts in files, on the implementations'
servers and in the registry. *Operations*: attest, witness, serve, host, list, anchor, sign again,
verify. *Hard*:
programs of several parties hand a file on and each signs or hashes what is there at its time;
some tests look at a file that an earlier run has led to, or that an operator has put there; a
verification fetches one thing after another. *Correct when*: a level that is claimed was earned,
and what is accepted is what was signed.

**Not considered**: see section 8.

`PROJECT.json` has the same list with the status of each part, and the hazards with
the line at which each one bites.

## 2. Plan

| Step | Modules | Status |
|---|---|---|
| 1 | `WorkflowLifecycle` (abstract), `Predicates`, `Coordinator`, proofs | done |
| 2 | `ReceiptChain` (abstract), `ToolServer`, proofs | done |
| 3 | `VerifiableIndex` (abstract), `MerkleTree`, `MatchBroker`, proofs | done |
| 4 | `Agent`: invoke, subscribe and kill switch with calls in flight and answers lost, together with the subscriptions the Tools keep; proofs | done |
| 5 | `SdkServer`, `TypeScriptServer`, `PythonServer`, `SdkServers`: invoke with its awaits, threads, implementing `ReceiptChain`, which is shared with `ToolServer`; proofs | done |
| 6 | `Handshake`, `Aql`, `Ranking`, asked by `Agreement`, `Query` and `Market`; `RingDetection`; composed by `Algorithms`: each checked against a reference definition in one run; proofs about all four | done |
| 7 | `Conformance`: from the run of the suite to the acceptance of its receipt; proofs | done |
| 8 | failover of a coordinator (`assumeFromFailover`) | not modelled: section 8 |

## 3. The modules

A module per component, an abstract module per promise, an `MC` module and a `.cfg` per
instance, and proofs in modules of their own. Definitions that end in a comment
`a mutant` are wrong on purpose: each is a plausible slip in the definition that
follows it, no specification uses it, and `PROJECT.json` says which property it breaks.

### Coordinator

A stretch of code between two awaits is one action, with the name of the function;
the rest of an `async` function is an action `...Resumes`. A suspended call is a record
in `call`, with the local variables the code still needs: the selection and the index
of the role in `openWorkflow`, the receipt in `closeWorkflow`.

| Specification | Code |
|---|---|
| `state`, `segments`, `lastReceipt`, `selectedBrokers`, `auditLog` | fields of the objects in `this.workflows`; `auditLog` keeps only the state transitions |
| `openWorkflow`, `BrokerAnswers`, `openWorkflowResumes`, `OpenFrom` | the loop over the roles with its await in the middle |
| `ingestSegment`, `Extend`, `Activates` | `ingestSegment` |
| `buildCrossMatchReceipt`, `ReceiptOf`, `Effective`, `segMap`, `evalContext` | `buildCrossMatchReceipt`; the workflows are opened for one initiator, `InitiatorDid` |
| `closeWorkflow`, `RegistryAnchors`, `AnchorRejected`, `closeWorkflowResumes` | `closeWorkflow` before the await, the registry (external), the promise rejected, and the rest |
| `handleRevocation`, `tickExpiry`, `publishHeartbeat` | the functions of these names |
| `verifyCrossMatchReceipt`, `ChainHolds`, `EnvelopeHolds` | the verifier's checks CMR.1 to CMR.3 |
| `evaluatePredicate`, `resolvePath` in `Predicates` | the same, with JavaScript's values tagged by type, `Undef` for a path that leads nowhere, `Mismatch` for the Symbol |
| `profiles`, `BrokerPublishes`, `anchored` | external: the brokers' profiles and the registry's records |

The hash of a segment is the record of what is hashed, so it is injective. Signatures
are left out: the model has no forger. The identifier of a workflow is chosen at the end
of `openWorkflow`, as in the code. Manifests are a constant, and a revocation that is not
`workflow_invalidating` changes nothing but the audit log and is left out.

`WorkflowLifecycle` is what the coordinator promises: it opens, becomes active,
attempts to close at most once, is sealed at most once, and is closed only when
sealed. It allows a stopped workflow to become `Closed` by the close in flight,
because the code does.

Beside the findings below, the code has some habits the model reproduces:
`equals` of two paths that both lead nowhere is true; a numeric comparison with a
mismatched `all_segments` field throws and no receipt is built; predicates of RFC 0035
§4.5 that the evaluator does not know are false; neither the role nor the broker of a
segment is compared with the manifest or the selection; a workflow without a receipt
never expires; and a rejected anchor leaves the workflow in `Closing`, to be
closed by nothing but its expiry.

### ToolServer

Handlers run one at a time, but each SQL statement is an action, `handler` says which
comes next, and `Crash` may come between any two. The database survives a crash and
the admission counter does not.

| Specification | Code |
|---|---|
| `invoke`, `Count`, `Upsert`, `Collected` | `POST /oap/invoke`, `checkRpm`, `rateBucketIncrement` with its chance of deleting expired rows |
| `invokeUnlimited` | `POST /oap/invoke` of an action without a limit, or with one of 0, which `checkRpm` does not count |
| `insertReceipt`, `setChainTip` | the two writes of `persistReceipt` |
| `subscribe`, `unsubscribe` | `POST /oap/subscribe`, `DELETE /oap/subscribe/:id` |
| `deleteData` | `POST /oap/data/delete` |
| `lateJoin` | the late join endpoint; the other unstored receipts cite the tip in the same way |
| `minute`, `tick` | `Date.now()` |

A receipt is its number, which stands for its hash. The history variables `signed`,
`acknowledged`, `dispatched`, `erased` and `joins` record what happened and are never read by an
action, except that `signed` numbers the receipts. `ReceiptChain` is the abstract chain: a new
receipt cites the head. The refinement takes as the chain the receipts that citations from the
tip lead to (`OnChain`): a receipt left behind by a crash was never on it.

Not in the model, since they change no state: the audit, export and verification
endpoints. (The export selects a column `body` that the table does not have,
`server.js:657`, and verification reads a field that the unstored receipts do not have,
`server.js:633`.)

### MatchBroker

Again one action per SQL statement. The handler of a registration may throw after its first
write, since `indexManifestBm25` does for a manifest with a null action: the process goes on,
with a row that neither its cache nor the last root knows of (`registrationFails`). `boot`
republishes the Merkle index and leaves the corpus as it is. A manifest stands for its hash, and
a published root for the leaves it was computed from; `MerkleTree` computes roots, proofs and the
client's check of a proof by terms, so two hashes are equal only if what was hashed is. Its loops
are recursive functions: `Layers` of the number of the layer, `Places` of the level at which the
proof of a leaf has arrived. The order of the candidates is left open here: `resolve` may choose
any `top_k` of those that pass the filter, and every choice is checked. The order is the subject
of `Ranking`, below.

| Specification | Code |
|---|---|
| `registerManifest`, `Row`, `Upsert` | the upsert of `POST /oap/manifests`, with `\|\|` defaults: 0 becomes null for a price |
| `registrationFails` | an exception in `indexManifestBm25` or in a later statement, which Express answers with a 500 |
| `indexManifestBm25` | the second write |
| `rebuildAndPublishIndex`, `CacheOf`, `boot` | the third, and the boot |
| `passesConstraints`, `Categories`, `Risk`, `Less`, `Filtered`, `Candidate`, `resolve` | `POST /oap/resolve` |
| `indexProof` | `GET /oap/index/proof` |

What a manifest says is converted twice, into columns and by the filter. Categories are joined
with commas and split at every comma: a name stands for a category, and `Pieces` says which names
it falls into. A risk class the order does not have is a value of its own, and so is a level or a
cost that is no number (`text`), with which no comparison is true. Left out are jurisdictions
that are given as one string instead of an array, and a `max_cost_usd` of JSON null in a filter.

`VerifiableIndex` is the promise to those who follow the roots: each is of all that was
accepted before, one entry is accepted from root to root unless another registration failed or died
in between, and none moves or is dropped. An entry may be replaced: an update overwrites a leaf,
though RFC 0021 §3.1 calls the index append-only (finding 6).

### Agent

A stretch of code between two awaits is one action here, too, and `call` has the calls
that wait, each with the local variables it still needs. Calls overlap because the host
of the agent need not wait for one before it starts another. A fetch may fail before the
Tool has handled the request (`CallFails` and `DeleteFails` of a call that is `sent`) or
after (of one that is `answered`).

| Specification | Code |
|---|---|
| `manifests`, `receipts`, `previousReceiptHash` | the fields of these names; `manifests` keeps the keys of the Map |
| `subscriptions` | the Map, slot by slot: `set` of a known key keeps its slot, `clear` empties the slots, and an iterator goes on from the slot it has reached, as in ECMAScript |
| `discover`, `evaluatePolicy`, `invoke`, `invokeResumes` | the functions of these names, `invoke` before and after its fetch |
| `subscribe`, `subscribeResumes`, `Set` | `subscribe` before and after its fetch |
| `killSwitch`, `killSwitchResumes`, `DeleteFails`, `KillFrom` | the loop of `killSwitch` from one await to the next, with its `catch`, and what follows the loop |
| `createLocalReceipt`, `verifyReceiptChain` | `_createLocalReceipt`, `verifyReceiptChain` |
| `granted`, `ToolGrants`, `ToolCancels` | the subscription endpoints of `reference/server/server.js` |
| `served`, `ToolServes` | external: the endpoint of the Tool that is invoked |

Receipts and subscriptions are numbered by their places. The token of a subscription is
left out: it travels with the invocations, and no server reads it. `obtained`, `lost` and
`unanswered` are history; that `killSwitch` reads `obtained` into `due` is history as well,
and no other action looks at `due`.

The model reproduces some habits of the code: `subscribe` stores the body of any answer,
an error's too, without a look at its status; the kill switch passes over a Tool whose
manifest the agent has not discovered itself, and reports
`all_subscriptions_revoked` all the same; the consent that the fourth policy layer
asks for is not waited for. What it abstracts: the cost of an action is over the
spending cap or not, and a cap of 0 is no cap (the test is for truth).

### SdkServer, TypeScriptServer, PythonServer, SdkServers

The two SDK servers keep the same state and have the same store, which is `SdkServer`; each
has a module of handlers, and `SdkServers` is the specification of a Tool that is built with
one or the other (`runtime`), with a policy hook or without (`policy`). A stretch between two
awaits is one action; an invocation is a record in `calls` that says where it is. In Python the
answer to a billing request is found on a thread, one step of the dict's iterator at a time,
and if the dict has grown the iterator raises (`NextStep`). The other handlers that run on
threads read a list that others only append to or replace, and change nothing, or write one
entry of a dict (`unsubscribe`), which is one action.

| Specification | Code |
|---|---|
| `buckets`, `receipts`, `chainTip`, `subscriptions`, `incidents` | the fields of the `MemoryStore`; of the incidents, their number |
| `rateBucketIncrement`, `Swept`, `NextCount` | `rateBucketIncrement`, with the sweep of one new bucket in a hundred |
| `persistReceipt`, `Cited`, `NewTip` | `persistReceipt`: cites the tip at that time, not at the time of the call |
| `handleInvoke`, `handle_invoke` | invoke up to its first await, or its refusal by the limit |
| `policyAnswers`, `policy_answers` | from the answer of the hook to the call of the handler, or the denial |
| `handlerAnswers`, `handler_answers`, `handlerUnserialisable` | from the handler's result or exception to the answer |
| `handleDelete`, `handleSubscribe`, `handleUnsubscribe`, `handleBilling`, `handleIncidentCreate` and their Python names | the endpoints of these names |
| `get_billing`, `active_subscription` | the billing endpoint and the generator of the storage |
| `BillingSent`, `AdvanceClock` | external: the framework's answer, the time |

`signed`, `admitted` and `erased` are history, and so is whether a subscription was `granted`.
The servers differ in what becomes of what cannot be written. If it is the receipt (a bigint or a
cycle in an output, a request nested too deep, in Python a lone surrogate), an invocation is a
500 in Python and ends the process in Node, because the rejection of the handler's promise is not
handled; neither leaves a receipt. If it is only the answer, as with a NaN in Python, the receipt
is there and the caller gets a 500 (`unsent`). A subscription is stored before its receipt is
written, so it stays without one. A policy hook that throws leaves no receipt either.

### Handshake, RingDetection, Aql, Ranking, and who asks them

These keep no state between requests. A request is there from the start (`Request`), and an
invariant compares the answer with what it should be, by a definition that does not follow the
code. Three are functions of their request, so they are operators, and one step answers:
`Agreement` (`Agree`) asks the followers of a group, `Query` (`Resolve`) a Tool for an Intent,
`Market` (`Rank`) the broker for two rankings. `RingDetection` is a search that assigns as it
goes, so it is modelled step by step: a participant entered, a neighbour looked at, a call
returned. Each of the four is a specification of its own (`AgreementSpec`, `QuerySpec`,
`MarketSpec`, `RingsSpec`) with properties that are proved, and `Algorithms` is their
composition, which is checked.

| Specification | Code |
|---|---|
| `intersectConventionSpaces`, `Posterior`, `expectedRegretUnderPosterior`, `Feasible`, `Trimmed`, `Best` | the tiers of `runHandshake` (`three-tier.js`) |
| `runHandshake`, `runThreeTierHandshake`, `run_three_tier_handshake` | the function and its ports; they differ in which of several best conventions is taken |
| `propose` | `POST /oap/aht/convention/propose` of the Tool server |
| `quantile`, `PairScore`, `Mutual`, `Adjacency` | the first part of `detectRings` (`ring-detection.js`): thresholds, pairs, the adjacency sets |
| `index`, `lowlink`, `counter`, `stack`, `sccs`, `adj` | the variables of the same names; a participant not yet visited has no index |
| `calls` | the calls of `strongconnect` under way, each with what its loop has still to look at |
| `Begin`, `Descend` (both `Enter`), `Meet`, `Leave` | the loop over the participants calls `strongconnect`; its loop calls it for a neighbour, or finds it visited; it returns, and the root of a component takes it off the stack |
| `IsRing`, `Flag` | the last part of `detectRings`: which components are flagged |
| `resolvePath`, `compareLeaf`, `evalNode`, `evaluate` | `aql/src/evaluator.js` |
| `validateConstraintTree`, `parseIntent` | `aql/src/parser.js` |
| `collect`, `matchSeg`, `excluded`, `Fragments`, `project` | `aql/src/projection.js` |
| `Outcome`, `Score`, `Ranked`, `resolveIntent` | `aql/src/index.js` |
| `computeCostScore`, `finalScore`, `rankCandidates` and the other scores | `rankCandidates` of `match-broker/broker.js` |

Probabilities, regrets and scores are in fixed point. A convention that is published has a
canonical form in each language, which is its place in the order of the forms there (`Form`):
JavaScript writes 1.0 as 1 and compares UTF-16 units, Python keeps 1.0 and 1 apart and compares
code points. A handshake sees the forms only (`canonicalize`). A record is a tree whose nodes are
named by their paths. The key with which a pointer enters an array is made a number by the code,
so an element is at several paths: under the plain numeral of its index, and under others of the
same value (`01`, the empty key), of which `Numeral` says which element they name; `excluded`
compares them as they are written. The constraints of an Intent are a tree of the same kind. What
the code does by recursion on a pointer or a tree is a recursive function of how far it has come.
Neighbours are looked at in the order of the edges that name them, which is that of the Sets and
Maps in the code. The operators that compare a value with an expected one are represented by the
set of the values that fit; the three that want no value to fit (`ne`, `not_in`, `outside`) are
told from the others, as they quantify differently. The BM25 score of a candidate is an input.
Costs, scores, quality signals and floors may be undeclared, or no numbers. Left out are keys
that contain a slash or are empty below an object (so that an exclusion of `/` is not modelled),
the names of an object's prototype, and values before they are serialised.

### Conformance

Each run of `attest.js` is one action, and so is each stretch of `verifyConformance` between two
fetches whose answers may change: the receipt of the target is fetched once, each witness's own
when its turn comes, the listing at the end. Whatever others do comes in between.

| Specification | Code |
|---|---|
| `draft`, `served`, `hosted`, `registry` | the receipt in the file that `attest.js` writes, what `/oap-conformance-receipt.json` says of a receipt, the one the manifest refers to, the listings by commit |
| `Found`, `Says` | what the tests' `loadReceipt` may find (`_helpers.js`): the file at its own path, which need be no receipt at all (`Prepared`), or else the endpoint of the manifest, or nothing |
| `Reports` | what the suite may report: each file any of the results it is given, but for the tests that ask for a claim first (`claimsAny`) |
| `Succeeds` | the exit status of the runner, without which `execSync` throws and no receipt is written |
| `levelsFromResults`, `attest`, `peerWitness` | `attest.js` with and without `--peer-witness` |
| `conformanceReceipt` | the receipt that a server signs for itself, saved and used as a file |
| `verifyConformance`, `verifyPeerWitnesses`, `verifyRegistryAnchor`, `reverify` | the functions, and the last part of `verifyConformance`, which runs sample tests |
| `Vouches`, `Party`, `Listed` | a witness that names no receipt is not asked for one; it counts by the organisation it declares; a listing without a hash passes for any receipt |
| `Serve`, `Host`, `SignAgain`, `WitnessOtherwise`, `List`, `Anchor`, `Founding`, `AdvanceClock` | external: operators, witnesses with programs of their own, the registry, the first receipts, the time |

The hash of a receipt is the receipt, a signature is what was signed, and a signer is who it says
it is: keys, placeholders and forgers are left out, and so is the schema check, which takes place
only if the caller passes a validator. `verification` is the run of the verifier, one at a
time, as runs share nothing; `accepted` is history.

Three consequences of the code are worth knowing. The test that L4 requires asks for a receipt
that claims L4 and has a witness; so a first claim comes from a receipt that is signed by hand,
from a server that claims L4 for itself, or from a file that an operator prepares for the test to
find (`OnlyInsidersCooperate`). `attest.js` signs a receipt that has no `registry_anchor`, while
the verifier includes the anchor in what it takes to be signed, and demands one of L4 and L5: an
operator must sign the receipt again once it is anchored, with a program of its own
(`SignAgain`). And the listing was merged before the anchor existed, so a listing with a hash is
never of the receipt that names its commit: what is accepted with L4 has a listing without one
(`AcceptedAsSigned`).

## 4. The runs

| Run | Question | Result |
|---|---|---|
| `coordinator` | do receipts, close, expiry and heartbeats stay sound at every interleaving of awaits? does every close end? | holds, 286,464 states |
| `terminal_is_final` | is a terminal state final, as RFC 0035 says? | no: see finding 1 |
| `close_only_when_satisfied` | does a close wait for the constraints to hold of the current segments? | no: finding 2 |
| `tool_server` | do the limit, the chain and erasure survive a crash between any two statements? | holds, 1,914,260 states |
| `cites_preceding` | does each receipt cite the one before? | no: finding 3 |
| `match_broker` | is every leaf that is named provable, every denial true, every candidate within its filter, though registrations fail and the process dies? | holds, 884,778 states |
| `corpus_follows_manifests` | are candidates ranked by the manifest they show? | not after a crash or an error: finding 4 |
| `agent` | do the local receipts match what the Tools did? does the kill switch miss nothing, and return? | holds, 1,113,206 states |
| `kill_switch_revokes_all` | does the kill switch revoke all active subscriptions? | no: finding 5 |
| `sdk_servers` | do the limit, the receipts, the chain, erasure and billing survive overlapping calls, in either SDK? | holds, 2,999,652 states |
| `algorithms` | are the answers of the stateless parts those of independent definitions? | holds, 276,103 states |
| `conformance` | is every claim earned, and everything that is accepted as it was signed, whoever hands it on? | holds, 2,100,000 states |

### What the passing runs check

*coordinator*: `ReceiptsSound` speaks of all receipts in circulation, those of a close that waits
and of a heartbeat included: they are snapshots of the segments (`ReceiptsAreSnapshots`) and
verify (`ReceiptsVerify`); `EngagedHasRequired` and `ClosureSound` (`ClosedIsCertified`,
`AnchoredOnce`) of two clients who close the same workflow; `ExpirySound` and `EnvelopeShrinks`
of the boundary of an envelope; `OpenedVetted` of profiles that change while the workflow opens;
`ClosingResolves` of liveness; and `ImplementsLifecycle` is the refinement, which also says what
may happen to a workflow after its end.

*tool_server*: `RateLimited` compares the invocations that were carried out with the limit;
`AcknowledgedOnChain` says that a crash loses only receipts nobody has seen;
`DanglingOnlyErased` and `ErasureIsPrivate` bound what erasure does; `ImplementsChain` is
the refinement.

*match_broker*: `AnswersProvable` evaluates the client's check on each leaf that is named against
the root it is named with, and says whose leaf may be missing or stale: a provider's whose
registration failed since that root. `DenialsTrue` compares denials with that root;
`CandidatesMeetFilters` states the filters on the manifest that is shown, not on the columns the
code reads, as far as what it says can be compared; `IndexesKept` and `ImplementsIndex` are about
all roots ever published.

*agent*: of `LocalChainSound`, `ChainVerifies` evaluates the agent's own verifier; `Accounted`
relates receipts to what the Tools answered, so that an invocation has one receipt, and only one,
unless its answer was lost; `KillSwitchRevokes` compares, when a kill switch returns, what was
due when it began with what the Tools know of it; `ActiveUntilKilled` says that overlapping kill
switches and subscribes leave no canceled subscription behind for later use; `KillSwitchReturns`
is liveness: other calls set entries in the Map the loop iterates over.

*sdk_servers*: `RateLimited` counts the invocations that got past the limit, which is evaluated
long before they end, and those that were refused; of `ReceiptsKept`, `EachHasItsReceipt` relates
the outcome of each call to its one receipt, and `StoredUnlessErased` compares the store with all
that was ever signed. `EachHasItsReceipt` also says which outcomes have none: OAP-CORE wants one
of every invocation and subscription (finding 9). `BillingTruthful` is about the moment at which
a thread gives an answer that it looked for in several steps; `ImplementsChain` is the refinement
of the same `ReceiptChain` as that of the Tool server.

*algorithms*: `FollowersAgree` says that the first convention all followers publish, if
tolerable, is what every follower commits to: across languages where these tell the published
conventions apart and order them alike (`ReadAlike`), else in each language for itself; and that
they abort together. The instance has groups of both kinds. `AdversariesPowerless` compares a
handshake with the same one without its adversaries; `RingsExact` compares the components of the
search with the classes of mutual reachability, and asks, where the last edge of a report is a
low score, whether it took anybody out of a component; `AnswersDenoted` states what a pointer and
a constraint denote and compares evaluator, projection and exclusion with it; `RankingSound` says
that nobody who is as good in everything is ranked below, unless the scores are equal, and that a
higher cost moves nobody up.

*conformance*: `ClaimsEarned` compares each claim with the results the receipt pins, although a
file counts as passed as soon as one of its results did; `OnlyInsidersCooperate` says who can
come to claim L4 or L5, through any number of runs that build on each other's receipts;
`AcceptedAsSigned` compares what is accepted with what was signed, by the implementation, by as
many parties as the level takes, and by the registry, long before and with other things in mind.

### Bounds

The bounds are constants named `Max...`, in the guard of the action they bound.

- *coordinator*: one workflow (workflows share nothing but the clock, the heartbeat
  counter and `tickExpiry`, and the proofs are for any number), two clients, so that one
  acts while the other waits; two required roles and one optional; four segments, so that
  each required role has one, one is sent twice, and one arrives after a receipt; times
  0 to 3 with envelopes at 1 and 2, so that an envelope is live, at its boundary and past;
  two heartbeats, so that one replaces another; a profile that is replaced once; a segment
  of which the principal is not the initiator.
- *tool_server*: two principals, one of whom may erase what the other's receipts cite; one action
  with a limit of two, one without, and three receipts, so that the limit is reached; two minutes
  of two ticks, so that a bucket's expiry falls inside the next minute; one crash: nothing
  follows a crash but the next request, so there is no recovery that another could interrupt, and
  the proofs are for any number.
- *match_broker*: three providers, the smallest tree with an odd layer; four roots,
  one of the boot and three of registrations, so that all register or one replaces what it
  had; two crashes or failed registrations, so that one meets what another
  left behind. Providers are symmetric, as are the principals
  of the Tool server; neither run checks liveness.
- *agent*: two calls in flight, since a third adds only more of the same pairs (the proofs
  are for any number); three subscription requests, so that an entry is overwritten while
  another request waits; two local receipts, so that a kill switch overlaps a second one
  or an invocation; one failure; one Tool that is over the cap and one under embargo.
- *sdk_servers*: two invocations, and a subscription or an incident, for two principals, so
  that two calls overlap and a subscription comes between them, before, or while a thread
  iterates; a limit of one, so that it is reached; a minute of two ticks and the beginning of
  the next, so that a bucket expires within a call. The proofs are for any numbers.
- *algorithms*: groups of up to four members, two types and four conventions, of which
  JavaScript takes two for the same and orders two the other way round than Python: four is the
  least group that tolerates an adversary, and a second adversary breaks the bound; all
  relations among four participants of which a pair has none, one, a low or a high mutual
  score, so that there are components of three and of four, with and without cross edges, each
  also with one of three later edges, two of them of a low score; the quantile of the scores is a
  half, not the default of 0.9, which makes the greatest of few scores the threshold, so that rings
  would be rare; all pointers of up to three segments over records three levels deep, arrays
  with an index written in two ways included,
  every operator and combinator on two candidates, and Intents with faults two levels deep;
  pairs of offers over all combinations of extreme scores, and three offers with up to four
  costs, so that a cost may be missing, equal, the least or the greatest.
- *conformance*: a founder, an implementation that claims L4 by its server and by a file, and one
  that does not; two levels, of which one asks for a witness in its test and for two when it is
  verified; two runs of `attest.js` or of a witness, the least in which the founder's receipt
  gets both witnesses, or one builds on what another run has left; two witnesses, who may count
  as one or as two parties by an organisation they declare; one listing; receipts that expire
  after one tick. The proofs are for any numbers.

The deadlock check is on in every run but two: in *sdk_servers* the Node process may end for
good, and in *algorithms* nothing follows the answer. It says little of the
agent, whose host can always discover a Tool again; that its calls come to an end is
`KillSwitchReturns`.

### Fairness

*coordinator*: `Fairness` is weak fairness of the clock and of `tickExpiry`. That time passes
needs no justification. That `tickExpiry` is called again and again is an assumption about the
host of the coordinator: RFC 0035 makes expiry a transition of its own, but no file of the
repository calls the function on a timer. Nothing is assumed of the brokers or the registry:
`ClosingResolves` holds even when the registry never answers, by expiry, since a workflow can
only be closing when it has a receipt.

*agent*: weak fairness of `ToolCancels` and `killSwitchResumes` for each call: a DELETE is
answered or fails, and the event loop runs what an answer has made ready. The code
sets no timeout of its own, so this is an assumption about the HTTP client: with Node's
`fetch` a request that is not answered fails after five minutes. Without it a Tool that
keeps a connection open stops the kill switch before it reaches the others. Nothing is
assumed of the Tools' answers to other requests, or that nothing is subscribed meanwhile.

## 5. Findings

1. `closeWorkflow` writes `Closed` after its await without looking at the state, so a
   workflow revoked or expired meanwhile becomes `Closed`.
   RFC 0035: "The states `Invalidated`, `Closed`, and `Expired` are terminal."
2. `closeWorkflow` consults the evaluations in the last receipt, which segments ingested
   since may have made false. RFC 0035 speaks of the current segment payloads.
3. A crash between the two writes of `persistReceipt` leaves a stored receipt that the next
   one does not cite. OAP-CORE §19.2: "Each Receipt cites the SHA 256 hash of the
   immediately preceding Receipt."
4. A crash, or an exception, after the first write of a registration leaves `bm25_corpus` with
   the terms of the old manifest or of none; the boot does not repair it.
5. The second subscription to a Tool takes the place of the first in the agent's Map, so the
   kill switch cancels only the second, and so does an error in the answer to a second
   request. The agent's README: "Kill switch (revokes all active subscriptions)."

Each of these is the counterexample of a run; the passing runs check what does hold in its place
(`ImplementsLifecycle`, `ClosureSound`, `AcknowledgedOnChain`, `IndexesKept`,
`KillSwitchRevokes`). In those that follow, the code departs from what is said of it in a way
that a property of a passing run takes into account: the property states what does hold, and the
run has the cases in which it is less than what is said.

6. *A registered manifest takes the place of its predecessor* among the leaves
   (`ImplementsIndex`). `broker.js:135`: "append-only log, RFC 0021 §3.1".
7. *A registration that throws leaves its row committed*, and `resolve` shows the manifest with the
   proof of the old one or with none (`AnswersProvable`). RFC 0021: an Inclusion
   Proof for "every candidate returned".
8. *A candidate may fail a predicate of the filter*: an unknown risk class counts as low, a level
   or a cost that is no number passes every bound, an unknown class in a filter is no limit, a
   category is split at its commas (`CandidatesMeetFilters`). RFC 0021: "a Manifest that fails
   any predicate is excluded".
9. *Not everything has a receipt* in the SDK servers: no invocation that is refused by the limit,
   whose hook throws, whose receipt cannot be written or that was in flight when Node ends, and
   no subscription whose receipt cannot be written, though it stays (`ReceiptsKept`). OAP-CORE:
   "Every Invocation, Subscription event, ... produces a Receipt."
10. *Python and JavaScript order conventions differently*, and write some alike that the other
    tells apart (`FollowersAgree`, `ReadAlike`). RFC 0027 has one order, UTF-8 on the form of RFC
    8785; neither is it in all cases.
11. *What is excluded may be inside of something included*, or be named by another numeral of
    its index (`AnswersDenoted`). RFC 0020: what "the response MUST NOT contain".
12. *The negative operators are universal* in the code (`AnswersDenoted`); RFC 0020 has "at least
    one resolved value".
13. *A candidate that does not declare its quality passes every floor*, and so does a signal that
    is no number (`AnswersDenoted`). RFC 0020: one that fails a floor "MUST be rejected".
14. *The first L4 or L5 receipt cannot come from a run of the suite* alone, since the test wants
    the claim and its witnesses first (`OnlyInsidersCooperate`). `attest.js:235` and RFC 0026 §9
    have them collected afterwards.
15. *A listing with a hash never matches* a receipt that is anchored at it, and one without
    matches any (`AcceptedAsSigned`). RFC 0026: "body SHA-256 matches".
16. *A witness that names no receipt is not asked for its level*, another's receipt will do, and
    an organisation that nobody signed makes one witness two (`AcceptedAsSigned`). The verifier's
    header: "each whose witness_did's own Receipt is currently L4+".

## 6. The proofs

Theorems are for every value of the constants, under the named assumptions of the module
that declares them. These say that constants have their types, that `null` is none of
the values it is told from, and that bounds are numbers; TLC evaluates them in every
run.

**`CoordinatorProofs`**. `TypeCorrect`; then `ClosedCertified`, `NeverAnchoredTwice` and
`EngagedComplete`, which need the invariant `CloseInv`: that a call which waits for the
registry belongs to a workflow of which a close was attempted, that at most one call of a
workflow does, that its receipt is all true, and that the audit log records the attempt.
None of the three is inductive alone, as the anchor is answered long after the guard was
evaluated. `Implements` is the refinement of `WorkflowLifecycle`: one step for each action,
with `CloseInv` to tell that an anchor comes after the attempt, and only once.

`OpensVetted` from `VettingInv`: a call that waits for a profile has selected admissible
brokers for all the roles before, and profiles are only ever added.

About the receipts, `SnapshotInv` says that every receipt in circulation is the
receipt of a prefix of the segments, and that these are chained. `SnapshotsOnly` and
`ReceiptsPass` follow, and with the lemma that a longer sequence has no later envelope,
`NoRevival` (`EnvelopeShrinks`) and `ExpiredIsOverdue` (`ExpirySound`).

**`ToolServerProofs`**. `WithinLimit` from `RateInv`: the row of the current minute has
counted all that was dispatched in it and expires no earlier than the minute ends, so
that neither the reader nor the collector loses it. `AnsweredIsChained`, `Implements` and
`DanglesByErasure` from `ChainInv` and `StoredOrErased`: the tip and every citation made
since are at or beyond each acknowledged receipt, and the receipt between its two writes is
the last. `ErasesOwnOnly` is an action property.

**`MatchBrokerProofs`**. `RowInv`: one row for each provider, with columns that follow from its
manifest; hence `FiltersHold`, by what the conversions leave of a comparison (`FilterSound`).
`Implements` is the refinement, with `OneChange` for the upsert: a registration whose later
writes fail is an entry that is accepted and in no root before the next. `KeptInv`: rows are
never reordered; hence `PlacesKept` and `DenialsHold`. `ProofsHold` from `IndexInv`: the last
root and the cache are of the same former rows, in the places they still have, and a row that has
changed since is of a provider whose registration failed or is under way (`Uncovered`); that the
proof of a leaf is accepted is `InclusionComplete`. `NothingElseProvable` is the converse, by
`InclusionSound`: every leaf of a root ever published is what a provider registered.

The first part of the module is about Merkle trees with any number of leaves. An inclusion proof
goes up through the tree from its leaf, whose place halves from layer to layer.
`InclusionComplete`: at each level the verifier has computed the node at that place, also at the
end of an odd layer, where the node is its own sibling. `InclusionSound`: whatever is accepted is
a leaf, however long the proof and whoever made it. The argument goes down from the root: hashes
are injective, so what was hashed into a node of the tree are its children, and a leaf's hash is
none of a node's, as the prefixes differ. `RootBinds`: two trees with the same root and equally
many leaves have the same leaves. Without the number it is false, as a last node of an odd layer
may be repeated; the broker signs `leaf_count` with the root.

**`AgentProofs`**. `TypeCorrect` with `Refs`: what calls and entries refer to was served or
granted. `ChainAlwaysVerifies` follows from the types alone, since a receipt and the new
head are written in one stretch. `AlwaysAccounted` from `AccountInv`: answers in flight
stand for invocations without a receipt, and for different ones.

About the subscriptions, `ReturnsRevoked` from `KillInv`: what is due in a slot the loop
has passed is dealt with, and the subscription in the slot it waits at, if it is due, is the
one it sent the DELETE for. To keep that when entries change under the loop takes `EntryInv`:
a subscription on its way to the agent is new, hence not due, and an entry is of the Tool it is
stored under, so that a slot the loop passes over is not due either. `NoneCanceledHeld` from
`ActiveInv` and the last part of `EntryInv`, that only what was obtained is ever canceled.

**`SdkServersProofs`**. Both servers' handlers reduce to a few kinds of step (lemma `Kinds`: an
invocation begins, goes on, ends with a receipt, ends without one, ...), so that each invariant
is shown once for both. `WithinLimit` from `RateInv`: the row of the current minute has counted
the admitted invocations, all of them if there is a limit, and does not expire before the minute
does. `Receipted` from `ReceiptInv`: receipts and what they are the receipts of, granted
subscriptions among them, are matched one to one, and only a call that has ended with one has
one. `StoredOrErased` is inductive. `Implements` needs `BoundInv`: there are no more receipts
than calls and subscriptions, so that the abstract chain has one left to append; it counts by
injecting the receipts into what they are about. `BillsTruthfully` from `BillingInv`: the
iterator has passed, so far as subscriptions were not added since, only entries that are not
active for the principal, and once canceled an entry stays so.

**`GroupProofs`**. About handshakes, in groups of any size. `ExpectedRegret`: the regret expected
of an observed member lies between 0 and `One`, since no type has probability zero and a mean
lies between what it is the mean of. `TrimsAdversaries`: above the greatest honest regret there
are at most the adversaries, and at or above it at least one more, which holds of no other
regret; so it is what trimming leaves. Hence `AdversariesDoNotCount`: the worst case of a
convention is the greatest of the honest regrets. `FollowersCommit` is about one language at a
time, whatever its canonical forms: it assumes that the first common convention is tolerable to
the follower, as the property does. With `AbortTogether`, and that the first common one is the
same in languages that read alike (`FirstAlike`), it gives `AgreementReached` (`FollowersAgree`).
For `AdversariesDoNotSway` (`AdversariesPowerless`) the group without adversaries mirrors the
honest members of the group (`Mirrors`): followers publish the same spaces, hence the same
provisional and feasible conventions, of the same worst cases, so that the same are best and the
same is first.

About rings, in reports of any length: `RingsFound` (`RingsExact`) says that the search finds the
classes of mutual reachability, from the inductive `SearchInv`. Tarjan's algorithm is simpler
here than in general, since pairs rate each other: whoever is called by another will look at its
caller and lower its link to it (`CallsInv`), so that only a root finds its link equal to its
index (`RootInv`), and takes off the whole stack, which is what it reaches; nothing leads from
there to those taken off before (`VisitedInv`), and what was found are the classes of these
(`FoundInv`). There is one lemma for each kind of step (`EnterInv`, `MeetInv`, `LeaveInv`,
`FlagExact`). `RingsUndiluted` is the other part of `RingsExact`: one more value that is not
above any other does not raise a quantile (`QuantileFalls`), so the pairs stay pairs
(`MutualKept`), and who was reached still is. `RingsFound` is about what is answered;
`SearchEnds` adds that the search cannot go on for ever: the participants to visit, the calls to
return from and the neighbours to look at are finitely many, and each step leaves fewer of one of
them and no more of the others, since nobody is called twice at a time (`CallsApart`).

**`SelectionProofs`**. About the query language, for records and constraints of any shape,
pointers of any length and any number of candidates. A pointer is followed in three ways in the
code, and each is compared with one notion: that a path can be cut into the parts for its
segments (`Follows`). `ResolvesDenoted`: going through the pointer from its start, the evaluator
has after k segments what the first k denote. `CollectsTops`: going down from a node, the
projection gathers what the segments that are left lead to from there; a final descendant
operator is one node, its top. `MatchesFollows`: the pattern of an exclusion matches the paths
that follow it. `AcceptedMeaningful` and `EvaluatesSatisfies` go up the tree of the constraints
from its leaves; the meaning of the latter is a set of nodes that hold, each by those below it,
and for the evaluator's answer that set is exhibited. With `ProjectsShown`, and that the places
of the ranking are taken by each kept candidate once, although scores are fractions
(`FractionsOrdered`, `KeptOrdered`, `RankedRows`), this gives `QueriesDenoted`
(`AnswersDenoted`). What is assumed is that records and constraints are finite trees, as JSON is,
and that a budget is a number (`QueriesAssumption`); costs, scores and signals may be anything.

About the rankings of the broker, of any number of candidates. `RankingOrder`: who comes before
whom is a strict total order, so every place is taken by exactly one candidate (`PlaceOrder`,
`PlacesTaken`). `AsGoodScores`: each of the five scores is monotone. `OthersGain` and
`RaiserLoses`: when one asks more, the least and the greatest cost move up or stay, and with them
the share of the range that a cost takes moves down for the others and up for the one that asks;
a range of zero and a single cost are cases of their own. `RankingFair` (`RankingSound`) puts
these together.

**`ConformanceProofs`**, about any number of implementations, levels, files, witnesses and
listings. `GenuineInv`: every receipt that is filed or hosted (`Genuine`) differs from what its
implementation signed in nothing but the anchor, and what was signed was earned, or is what the
server claims by itself; a listing with a hash is of a receipt that was anchored earlier or not
at all (`HashesPrecede`); and the receipt under verification has passed what the verifier has
come to (`VerifiedSoFar`: the signature, then each of its witnesses, then the listing). Hence
`AllEarned` (`ClaimsEarned`) and, as independent witnesses are as many parties
(`IndependentParties`), `AcceptsAsSigned` (`AcceptedAsSigned`). `OutsidersStayOut`
(`OnlyInsidersCooperate`) from `OutsidersInv`: nothing of an outsider's that a test may find
claims L4 or L5. It rests on `CooperativeAssumption`, which TLC evaluates for the instance and
which is read off `levels.json`: each level that starts with L4 or L5 requires a test that
applies only to receipts that claim such a level and that wants a witness. An operator may put a
file with such a claim where the test looks: who does is an insider.

An inductive argument about data is given by the least counterexample (lemma `LeastExists`): the
library's induction theorems take an operator, which the provers cannot instantiate. That a
recursive function exists is shown by its approximations up to n (`SomeLayers`, `SomePlaces`,
`SomeClimb`, `SomePosteriors`, `SomeSums`, `SomeFlatten`), for any order by `MeasureRecursion`,
of which `TreeRecursion` is the case of a tree, and the argument of such a recursion by
`MeasureInduction`: these take sets and functions for what would be operators.

Every invariant and action property of the passing runs, and each refinement, is stated by a
theorem. Only checked by TLC are `ClosingResolves` and `KillSwitchReturns`, as liveness is beyond
the provers.

## 7. What is abstracted

Cryptography (hashes are injective terms, signatures are left out), the wording of answers, HTTP
and the shape of JSON, logging, authorisation headers and input validation (requests that a
handler refuses before its first write change nothing; where one fails after a write, as `POST
/oap/manifests` and the SDKs' subscribe may, the model has it). Floating point is fixed point,
coarse enough for TLC: what depends on rounding is not seen. Crashes are modelled where something
persists; the coordinator and the SDK servers keep everything in memory, so a crash is the start
of a new one, and it is modelled for the SDK server only because a call in flight may cause it.

## 8. Not modelled

- *Failover* (`assumeFromFailover`): a static function that checks three arguments and signs a
  record. It changes no coordinator, and no coordinator reads the record, so there are no two
  parties in the code whose steps could interleave.
- *The threshold signature stub*, *fallback policies*: a loop over a list, fixed choices.
- *The validator*, *the command line tools*, *the adapters*, *the tests themselves and
  benchmarks*: passes over documents, lists of HTTP probes, translations from
  one format into another. They hold no state that several operations share.
- *The other files of the SDKs*: builders of manifests, memory contracts, organization and
  model risk documents, signatures: functions of their arguments.
- `canonical.js`, `detectDrift`, `parseResponse`: see the components in `PROJECT.json`.

What was seen while reading, and no run shows:

- `FrostStub` counts the entries of `participatingIndices`, so a share that is listed twice
  counts twice (`threshold-signing.js:40`).
- The export of receipts selects a column `body` that the table does not have
  (`server.js:657`), and so does the export of the command line tool.
- `tools/oap-receipt-chain/cli.js` reads `prev_receipt_hash` where the servers write
  `previous_receipt_hash`, and the validator hashes the receipts as they are serialised where
  the server hashes their canonical form: both report a break in an unbroken chain.
- An over-budget candidate may be ranked above others and be the single best of an answer.
- A ring can lose its flag, though not its component, when a member reports edges of high value,
  since the mean value decides (`ring-detection.js:98`).
- A conformance level of 5 scores 1.25, although the scores are said to be between 0 and 1, and
  withholding the cost (0.5) beats being the dearest (0): `RankingSound` compares costs only
  where both are known.
- The attestation tool counts a file as passed when any of its results did; that nothing unearned
  is claimed is due to the exit status of the runner (`ClaimsEarned`). It registers the first of
  the claimed levels.
- The verifier trusts by default the suite version 1.0.0, which is the version that the
  reference server names in the receipt it signs for itself: such a receipt is accepted though no
  test was run, unless the caller passes a schema validator.
- `buildCrossMatchReceipt` does not look at the state of the workflow, and signs and stores
  receipts after its end; RFC 0035 says "A Coordinator MUST NOT issue further Cross Match
  Receipts ... after a terminal transition." What they may be is bounded by `ReceiptsSound` and
  `ExpirySound`.
