----------------------------- MODULE ToolServer -----------------------------
(***************************************************************************)
(* The reference Tool server (reference/server): it limits the rate of     *)
(* invocations, chains the receipts it signs, keeps subscriptions, erases  *)
(* the receipts of a principal, and admits late joiners.                   *)
(*                                                                         *)
(* All handlers are synchronous, so one runs at a time; each SQL statement *)
(* commits on its own, so the process may die between any two of them.     *)
(* Hence a handler is one action for each statement that writes, `handler' *)
(* says which one is next, and Crash may come in between.  After a crash   *)
(* the server is started again: the database stays, the memory is new.     *)
(*                                                                         *)
(* A receipt is numbered by its place in `signed', and the number stands   *)
(* for its hash.  Time is a minute and a tick within it.                   *)
(***************************************************************************)
EXTENDS Naturals, Sequences, FiniteSets

CONSTANTS
    Principals,       \* the principals on whose behalf agents call
    Actions,          \* the ids of the actions
    Rpm,              \* action.rate_limit.rpm, 0 if there is none
    Ticks,            \* the ticks of a minute
    MaxMinutes,       \* bound on the minutes
    MaxReceipts,      \* bound on the receipts
    MaxSubscriptions, \* bound on the subscriptions
    MaxJoins,         \* bound on the late joins
    MaxCrashes,       \* bound on the crashes
    null              \* no row

ASSUME RpmAssumption   == Rpm \in [Actions -> Nat]
ASSUME TicksAssumption == Ticks \in Nat \ {0}
ASSUME BoundsAssumption ==
    {MaxMinutes, MaxReceipts, MaxSubscriptions, MaxJoins, MaxCrashes} \subseteq Nat

VARIABLES
    minute, tick,        \* the time of day
    handler,             \* the handler at work: what it writes next
    buckets,             \* the table rate_buckets
    receipts,            \* the table receipts: the numbers of its rows
    chainTip,            \* the table chain_state
    subscriptions,       \* the table subscriptions: the statuses, by number
    ahtAdmissionCounter, \* in memory
    signed,              \* history: all receipts persistReceipt ever signed
    acknowledged,        \* history: those the caller got an answer for
    dispatched,          \* history: the limited invocations carried out, by bucket
    erased,              \* history: the principals who had their data deleted
    joins,               \* history: the late join receipts handed out
    crashes

database == <<buckets, receipts, chainTip, subscriptions>>
history  == <<signed, acknowledged, dispatched, erased, joins, crashes>>
vars     == <<minute, tick, handler, database, ahtAdmissionCounter, history>>

genesis == 0
Types   == {"invocation", "subscription"}
Keys    == Principals \X Actions \X (0 .. MaxMinutes)
Idle    == [at |-> "idle"]

\* persistReceipt is called; the bound keeps the run finite.
Persists(type, p) ==
    /\ Len(signed) < MaxReceipts
    /\ handler' = [at |-> "insert", type |-> type, principal |-> p]

-----------------------------------------------------------------------------
(* Invocations *)

\* A row outlives the minute it counts for.
ExpiresAt_Now == [minute |-> minute, tick |-> tick]                \* a mutant
ExpiresAt     == [minute |-> minute + 1, tick |-> tick]

Later(t, m, k)   == t.minute > m \/ (t.minute = m /\ t.tick > k)
Earlier(t, m, k) == t.minute < m \/ (t.minute = m /\ t.tick < k)

\* What SELECT finds: the count of a row that has not expired.
Count(key) ==
    IF buckets[key] # null /\ Later(buckets[key].expires_at, minute, tick)
    THEN buckets[key].count ELSE 0

Upsert(key) ==
    IF buckets[key] = null THEN [count |-> 1, expires_at |-> ExpiresAt]
    ELSE [buckets[key] EXCEPT !.count = @ + 1]

\* One call in a hundred also deletes the expired rows.
Collected(rows) ==
    [k \in Keys |-> IF rows[k] # null /\ Earlier(rows[k].expires_at, minute, tick)
                    THEN null ELSE rows[k]]

\* The request is well formed and authorised; an action that throws is receipted
\* by the same writes.  A request beyond the limit is answered without a change.
invoke(p, a, gc) ==
    LET key  == <<p, a, minute>>
        rows == [buckets EXCEPT ![key] = Upsert(key)]
    IN  /\ handler = Idle
        /\ Count(key) + 1 =< Rpm[a]
        /\ buckets' = IF gc THEN Collected(rows) ELSE rows
        /\ dispatched' = [dispatched EXCEPT ![key] = @ + 1]
        /\ Persists("invocation", p)
        /\ UNCHANGED <<minute, tick, receipts, chainTip, subscriptions,
                       ahtAdmissionCounter, signed, acknowledged, erased, joins, crashes>>

\* No limit, or one of zero, lets everything through, uncounted.
invokeUnlimited(p, a) ==
    /\ handler = Idle
    /\ Rpm[a] = 0
    /\ Persists("invocation", p)
    /\ UNCHANGED <<minute, tick, database, ahtAdmissionCounter, history>>

-----------------------------------------------------------------------------
(* The receipt chain *)

Cited_LastRow ==                                                   \* a mutant
    IF receipts = {} THEN genesis ELSE CHOOSE i \in receipts : \A j \in receipts : j =< i
Cited == chainTip

\* The first write of persistReceipt: the receipt cites the tip.
Inserted_Next(i)    == receipts \cup {i + 1}                       \* a mutant
Inserted(i)         == receipts \cup {i}

insertReceipt ==
    /\ handler.at = "insert"
    /\ signed' = Append(signed, [type      |-> handler.type,
                                 principal |-> handler.principal,
                                 previous  |-> Cited])
    /\ receipts' = Inserted(Len(signed'))
    /\ handler' = [at |-> "tip"]
    /\ UNCHANGED <<minute, tick, buckets, chainTip, subscriptions, ahtAdmissionCounter,
                   acknowledged, dispatched, erased, joins, crashes>>

NewTip_Forgotten ==                                                \* a mutant
    IF signed[Len(signed)].type = "subscription" THEN chainTip ELSE Len(signed)
NewTip == Len(signed)

\* The second write; then the handler answers.
setChainTip ==
    /\ handler.at = "tip"
    /\ chainTip' = NewTip
    /\ acknowledged' = acknowledged \cup {Len(signed)}
    /\ handler' = Idle
    /\ UNCHANGED <<minute, tick, buckets, receipts, subscriptions, ahtAdmissionCounter,
                   signed, dispatched, erased, joins, crashes>>

Erasable_FromFirst(p) ==                                           \* a mutant
    {i \in receipts : \E j \in receipts : j =< i /\ signed[j].principal = p}
Erasable(p) == {i \in receipts : signed[i].principal = p}

\* The signed Deletion Receipt is neither stored nor chained.
deleteData(p) ==
    /\ handler = Idle
    /\ receipts' = receipts \ Erasable(p)
    /\ erased' = erased \cup {p}
    /\ UNCHANGED <<minute, tick, handler, buckets, chainTip, subscriptions,
                   ahtAdmissionCounter, signed, acknowledged, dispatched, joins, crashes>>

\* The other receipts - late join, convention, drift - cite the tip and are not
\* stored; the first also count the admissions.
lateJoin ==
    /\ handler = Idle
    /\ Len(joins) < MaxJoins
    /\ ahtAdmissionCounter' = ahtAdmissionCounter + 1
    /\ joins' = Append(joins, [index |-> ahtAdmissionCounter', previous |-> chainTip])
    /\ UNCHANGED <<minute, tick, handler, database, signed, acknowledged, dispatched,
                   erased, crashes>>

-----------------------------------------------------------------------------
(* Subscriptions *)

subscribe(p) ==
    /\ handler = Idle
    /\ Len(subscriptions) < MaxSubscriptions
    /\ subscriptions' = Append(subscriptions, [principal |-> p, status |-> "active"])
    /\ Persists("subscription", p)
    /\ UNCHANGED <<minute, tick, buckets, receipts, chainTip, ahtAdmissionCounter, history>>

\* DELETE /oap/subscribe/:id leaves no receipt, and succeeds again and again.
unsubscribe(s) ==
    /\ handler = Idle
    /\ subscriptions' = [subscriptions EXCEPT ![s].status = "canceled"]
    /\ UNCHANGED <<minute, tick, handler, buckets, receipts, chainTip,
                   ahtAdmissionCounter, history>>

-----------------------------------------------------------------------------
\* The process dies, whatever it was doing, and is started again.
Crash ==
    /\ crashes < MaxCrashes
    /\ crashes' = crashes + 1
    /\ handler' = Idle
    /\ ahtAdmissionCounter' = 0
    /\ UNCHANGED <<minute, tick, database, signed, acknowledged, dispatched, erased, joins>>

AdvanceClock ==
    /\ \/ /\ tick + 1 < Ticks
          /\ tick' = tick + 1
          /\ minute' = minute
       \/ /\ tick + 1 = Ticks
          /\ minute < MaxMinutes
          /\ tick' = 0
          /\ minute' = minute + 1
    /\ UNCHANGED <<handler, database, ahtAdmissionCounter, history>>

Init ==
    /\ minute = 0 /\ tick = 0
    /\ handler = Idle
    /\ buckets = [k \in Keys |-> null]
    /\ receipts = {}
    /\ chainTip = genesis
    /\ subscriptions = <<>>
    /\ ahtAdmissionCounter = 0
    /\ signed = <<>>
    /\ acknowledged = {}
    /\ dispatched = [k \in Keys |-> 0]
    /\ erased = {}
    /\ joins = <<>>
    /\ crashes = 0

Next ==
    \/ \E p \in Principals : \E a \in Actions :
           \/ \E gc \in BOOLEAN : invoke(p, a, gc)
           \/ invokeUnlimited(p, a)
    \/ insertReceipt
    \/ setChainTip
    \/ \E p \in Principals : deleteData(p)
    \/ lateJoin
    \/ \E p \in Principals : subscribe(p)
    \/ \E s \in DOMAIN subscriptions : unsubscribe(s)
    \/ Crash
    \/ AdvanceClock

Spec == Init /\ [][Next]_vars

-----------------------------------------------------------------------------
(* Properties *)

Receipt == [type : Types, principal : Principals, previous : Nat]
Row     == [count : Nat, expires_at : [minute : Nat, tick : Nat]]
Handler == {Idle, [at |-> "tip"]}
           \cup [at : {"insert"}, type : Types, principal : Principals]

ASSUME NullAssumption == null \notin Row

\* Every variable has its type.
TypeOK ==
    /\ minute \in 0 .. MaxMinutes /\ tick \in 0 .. Ticks - 1
    /\ handler \in Handler
    /\ buckets \in [Keys -> Row \cup {null}]
    /\ signed \in Seq(Receipt)
    /\ receipts \subseteq DOMAIN signed
    /\ chainTip \in {genesis} \cup DOMAIN signed
    /\ subscriptions \in Seq([principal : Principals, status : {"active", "canceled"}])
    /\ ahtAdmissionCounter \in Nat
    /\ acknowledged \subseteq DOMAIN signed
    /\ dispatched \in [Keys -> Nat]
    /\ erased \subseteq Principals
    /\ joins \in Seq([index : Nat, previous : Nat])
    /\ crashes \in Nat

\* Within a minute no action with a limit is carried out more often than that for a
\* principal, wherever crashes and deletions of expired rows fall (checkRpm).
RateLimited == \A k \in Keys : dispatched[k] =< Rpm[k[2]]

\* The receipts on the chain: following the citations from the tip, or from any
\* receipt signed later, one comes across them.  A receipt cites an earlier one,
\* so that only a citation that reaches beyond i can pass it over.
OnChain == {i \in DOMAIN signed :
                /\ i =< chainTip
                /\ \A j \in DOMAIN signed : j > i => signed[j].previous >= i}

\* A crash between the two writes of persistReceipt may leave a receipt that
\* the chain passes over, but never one whose caller got an answer, nor one that
\* a late join receipt cites.
AcknowledgedOnChain ==
    /\ acknowledged \subseteq OnChain
    /\ \A j \in DOMAIN joins : joins[j].previous \in OnChain \cup {genesis}

\* A stored receipt cites a stored one, except where a principal's data were
\* deleted: no crash leaves a citation of a receipt that was never stored.
DanglingOnlyErased ==
    \A i \in receipts :
        LET k == signed[i].previous
        IN  k # genesis => k \in receipts \/ signed[k].principal \in erased

\* A receipt disappears only by the deletion of its own principal's data, which
\* leaves the tip of the chain where it is.
ErasureIsPrivate ==
    [][\A i \in receipts \ receipts' :
          /\ signed[i].principal \in erased'
          /\ \A j \in receipts' : signed'[j].principal # signed[i].principal
          /\ \A j \in receipts \ receipts' : signed[j].principal = signed[i].principal
          /\ chainTip' = chainTip]_vars

\* In spite of crashes between its writes, the server maintains a receipt chain.
Links == {<<i, signed[i].previous>> : i \in OnChain}
Chain == INSTANCE ReceiptChain
             WITH Receipts <- 1 .. MaxReceipts, links <- Links, head <- chainTip
ImplementsChain == Chain!Spec

-----------------------------------------------------------------------------
(* What OAP-CORE section 19.2 says and the code does not do *)

\* "Each Receipt cites the SHA 256 hash of the immediately preceding Receipt."
CitesPreceding == \A i \in DOMAIN signed : signed[i].previous = i - 1

=============================================================================
