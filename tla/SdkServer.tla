----------------------------- MODULE SdkServer ------------------------------
(***************************************************************************)
(* What the two SDK servers have in common: what they keep, the MemoryStore *)
(* (sdks/typescript/src/storage.ts, to which storage.py is equal but for    *)
(* activeSubscription), and persistReceipt.  TypeScriptServer and           *)
(* PythonServer have the handlers, SdkServers the specification.            *)
(*                                                                          *)
(* A receipt is numbered by its place in `signed', and the number stands    *)
(* for its hash; calls and subscriptions are numbered likewise.             *)
(***************************************************************************)
EXTENDS Naturals, Sequences, FiniteSets

CONSTANTS
    Principals,       \* the principals on whose behalf agents call
    Actions,          \* the ids of the registered actions
    Rpm,              \* action.rateLimit.rpm, 0 where there is none
    Ticks,            \* the ticks of a minute
    MaxClock,         \* bound on the time
    MaxCalls,         \* bound on the invocations
    MaxRecords,       \* bound on the subscriptions and the incidents together
    null              \* no row, no subscription

ASSUME RpmAssumption    == Rpm \in [Actions -> Nat]
ASSUME TicksAssumption  == Ticks \in Nat \ {0}
ASSUME BoundsAssumption == {MaxClock, MaxCalls, MaxRecords} \subseteq Nat
ASSUME NullAssumption   == null \notin Nat /\ null \notin [count : Nat, expiresAt : Nat]

VARIABLES
    runtime,        \* "node" or "python"
    policy,         \* the host passed a policy hook
    up,             \* the process lives
    clock,          \* Date.now()
    calls,          \* the invocations that passed validation, each with where it is
    billing,        \* a request for the billing information
    buckets, receipts, chainTip, subscriptions, incidents, \* the MemoryStore
    signed,         \* history: all receipts persistReceipt ever signed
    admitted,       \* history: the invocations within the limit, by bucket
    erased          \* history: the receipts a principal had asked to be erased

config  == <<runtime, policy>>
store   == <<buckets, receipts, chainTip, subscriptions, incidents>>
history == <<signed, admitted, erased>>
vars    == <<config, up, clock, calls, billing, store, history>>

genesis == 0
minute  == clock \div Ticks
Keys    == Principals \X Actions \X (0 .. MaxClock \div Ticks)
Idle    == [at |-> "idle"]

-----------------------------------------------------------------------------
(* rateBucketIncrement *)

Live(key) == buckets[key] # null /\ buckets[key].expiresAt > clock

\* The count it returns, which includes this request.
NextCount_Before(key) == IF Live(key) THEN buckets[key].count ELSE 1  \* a mutant
NextCount(key)        == IF Live(key) THEN buckets[key].count + 1 ELSE 1

Increment(key) ==
    [buckets EXCEPT ![key] =
        [count     |-> IF Live(key) THEN buckets[key].count + 1 ELSE 1,
         expiresAt |-> IF Live(key) THEN buckets[key].expiresAt ELSE clock + Ticks]]

\* One new bucket in a hundred also sweeps the expired ones out.
Swept(rows) ==
    [k \in Keys |-> IF rows[k] # null /\ rows[k].expiresAt =< clock THEN null ELSE rows[k]]

rateBucketIncrement(key, sweep) ==
    buckets' = IF sweep /\ ~Live(key) THEN Swept(Increment(key)) ELSE Increment(key)

-----------------------------------------------------------------------------
(* persistReceipt, which reads the tip, inserts and moves the tip at a stretch *)

Cited_Arrival(since) == since                                        \* a mutant
Cited(since)         == chainTip

NewTip_Rehashed(i) == i + 1                                          \* a mutant
NewTip(i)          == i

\* `since' is the number of the receipts that were signed when the call came in.
persistReceipt(type, p, subject, since) ==
    /\ signed' = Append(signed, [type |-> type, principal |-> p, subject |-> subject,
                                 previous |-> Cited(since)])
    /\ receipts' = receipts \cup {Len(signed')}
    /\ chainTip' = NewTip(Len(signed'))

Erasable(p) == {i \in receipts : signed[i].principal = p}

deleteByPrincipal(p) ==
    /\ receipts' = receipts \ Erasable(p)
    /\ erased' = erased \cup {i \in DOMAIN signed : signed[i].principal = p}

-----------------------------------------------------------------------------
(* Subscriptions *)

\* The token of one that is not granted never got to who asked for it (history).
insertSubscription(p, granted) ==
    subscriptions' = Append(subscriptions, [principal |-> p, status |-> "active",
                                            granted |-> granted])

cancelSubscription(s) == subscriptions' = [subscriptions EXCEPT ![s].status = "canceled"]

IsActive_Any(s, p) == subscriptions[s].principal = p                 \* a mutant
IsActive(s, p) == subscriptions[s].principal = p /\ subscriptions[s].status = "active"

=============================================================================
