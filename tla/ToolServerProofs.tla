-------------------------- MODULE ToolServerProofs --------------------------
(***************************************************************************)
(* Theorems about the reference Tool server: type correctness, the limit   *)
(* of a minute, and the receipt chain, for all principals and limits and   *)
(* however often the process dies.                                         *)
(***************************************************************************)
EXTENDS ToolServer, TLAPS

-----------------------------------------------------------------------------
(* Type correctness *)

\* A handler between its writes has room for its receipt, or has stored it.
Pending == /\ Len(signed) =< MaxReceipts
           /\ handler.at = "insert" => Len(signed) < MaxReceipts
           /\ handler.at = "tip" => Len(signed) \in receipts

TypeInv == TypeOK /\ Pending

LEMMA TypeInit == Init => TypeInv
BY TicksAssumption, BoundsAssumption DEF Init, TypeInv, TypeOK, Pending, Handler, Idle, Keys, genesis

LEMMA UpsertType ==
    ASSUME TypeOK, NEW key \in Keys
    PROVE  Upsert(key) \in Row
<1>1. CASE buckets[key] = null
  BY <1>1 DEF Upsert, ExpiresAt, Row, TypeOK
<1>2. CASE buckets[key] # null
  <2>1. buckets[key] \in Row
    BY <1>2 DEF TypeOK
  <2> QED BY <1>2, <2>1 DEF Upsert, Row
<1> QED BY <1>1, <1>2

\* What the first write of persistReceipt appends.
LEMMA InsertEffect ==
    ASSUME TypeOK, insertReceipt
    PROVE  /\ Len(signed) \in Nat
           /\ Len(signed') = Len(signed) + 1
           /\ DOMAIN signed = 1 .. Len(signed)
           /\ DOMAIN signed' = 1 .. Len(signed) + 1
           /\ signed' \in Seq(Receipt)
           /\ \A i \in DOMAIN signed : signed'[i] = signed[i]
           /\ signed'[Len(signed) + 1].previous = chainTip
           /\ receipts' = receipts \cup {Len(signed) + 1}
<1> DEFINE r == [type |-> handler.type, principal |-> handler.principal, previous |-> Cited]
<1>1. r \in Receipt
  BY DEF insertReceipt, Receipt, TypeOK, Handler, Idle, Cited, genesis
<1>2. signed' = Append(signed, r) /\ receipts' = receipts \cup {Len(signed')}
  BY DEF insertReceipt, Inserted
<1>3. signed \in Seq(Receipt)
  BY DEF TypeOK
<1>4. r.previous = chainTip
  BY DEF Cited
<1> HIDE DEF r
<1> QED BY <1>1, <1>2, <1>3, <1>4

LEMMA TypeNext == TypeInv /\ [Next]_vars => TypeInv'
<1> SUFFICES ASSUME TypeInv, [Next]_vars PROVE TypeInv'
  OBVIOUS
<1> USE DEF TypeInv
<1>1. ASSUME NEW p \in Principals, NEW a \in Actions, NEW gc \in BOOLEAN, invoke(p, a, gc)
      PROVE  TypeInv'
  <2> DEFINE key  == <<p, a, minute>>
             rows == [buckets EXCEPT ![key] = Upsert(key)]
  <2>1. key \in Keys
    BY DEF Keys, TypeOK
  <2>2. rows \in [Keys -> Row \cup {null}]
    <3>1. Upsert(key) \in Row
      BY <2>1, UpsertType
    <3> HIDE DEF key
    <3> QED BY <2>1, <3>1 DEF TypeOK
  <2>3. buckets' \in [Keys -> Row \cup {null}]
    <3>1. buckets' = IF gc THEN Collected(rows) ELSE rows
      BY <1>1 DEF invoke
    <3> HIDE DEF rows
    <3> QED BY <2>2, <3>1 DEF Collected
  <2>4. dispatched' \in [Keys -> Nat]
    <3>1. dispatched' = [dispatched EXCEPT ![key] = @ + 1]
      BY <1>1 DEF invoke
    <3> HIDE DEF key
    <3> QED BY <2>1, <3>1 DEF TypeOK
  <2>5. handler' \in Handler
    BY <1>1 DEF invoke, Persists, Handler, Types
  <2>6. Pending'
    BY <1>1 DEF invoke, Persists, Pending
  <2> QED BY <1>1, <2>3, <2>4, <2>5, <2>6 DEF invoke, TypeOK
<1>2. ASSUME insertReceipt PROVE TypeInv'
  <2> DEFINE n == Len(signed) + 1
  <2>1. /\ Len(signed) \in Nat /\ Len(signed') = n
        /\ DOMAIN signed = 1 .. Len(signed) /\ DOMAIN signed' = 1 .. n
        /\ signed' \in Seq(Receipt)
        /\ receipts' = receipts \cup {n}
    BY <1>2, InsertEffect
  <2>2. n \in DOMAIN signed' /\ DOMAIN signed \subseteq DOMAIN signed'
    BY <2>1
  <2>3. handler' \in Handler
    BY <1>2 DEF insertReceipt, Handler
  <2>4. Pending'
    BY <1>2, <2>1, BoundsAssumption DEF insertReceipt, Pending
  <2> HIDE DEF n
  <2>5. receipts' \subseteq DOMAIN signed'
    BY <2>1, <2>2 DEF TypeOK
  <2>6. chainTip' \in {genesis} \cup DOMAIN signed' /\ acknowledged' \subseteq DOMAIN signed'
    BY <1>2, <2>2 DEF insertReceipt, TypeOK
  <2> QED BY <1>2, <2>1, <2>3, <2>4, <2>5, <2>6 DEF insertReceipt, TypeOK
<1>3. ASSUME setChainTip PROVE TypeInv'
  <2>1. Len(signed) \in DOMAIN signed
    BY <1>3 DEF setChainTip, TypeOK, Pending
  <2> QED BY <1>3, <2>1 DEF setChainTip, NewTip, TypeOK, Handler, Pending, Idle
<1>4. ASSUME NEW p \in Principals, deleteData(p) PROVE TypeInv'
  BY <1>4 DEF deleteData, TypeOK, Pending, Idle
<1>5. ASSUME lateJoin PROVE TypeInv'
  <2>1. [index |-> ahtAdmissionCounter', previous |-> chainTip]
           \in [index : Nat, previous : Nat]
    BY <1>5 DEF lateJoin, TypeOK, genesis
  <2>2. joins' \in Seq([index : Nat, previous : Nat])
    BY <1>5, <2>1 DEF lateJoin, TypeOK
  <2> QED BY <1>5, <2>2 DEF lateJoin, database, TypeOK, Pending
<1>6. ASSUME NEW p \in Principals, subscribe(p) PROVE TypeInv'
  <2>1. subscriptions' \in Seq([principal : Principals, status : {"active", "canceled"}])
    BY <1>6 DEF subscribe, TypeOK
  <2>2. handler' \in Handler
    BY <1>6 DEF subscribe, Persists, Handler, Types
  <2> QED BY <1>6, <2>1, <2>2 DEF subscribe, Persists, history, TypeOK, Pending
<1>7. ASSUME NEW s \in DOMAIN subscriptions, unsubscribe(s) PROVE TypeInv'
  <2> DEFINE Sub == [principal : Principals, status : {"active", "canceled"}]
  <2>1. subscriptions \in Seq(Sub)
    BY DEF TypeOK
  <2>2. [subscriptions[s] EXCEPT !.status = "canceled"] \in Sub
    <3>1. subscriptions[s] \in Sub
      <4> HIDE DEF Sub
      <4> QED BY <2>1
    <3> QED BY <3>1
  <2>3. subscriptions' = [subscriptions EXCEPT ![s] =
                             [subscriptions[s] EXCEPT !.status = "canceled"]]
    BY <1>7 DEF unsubscribe
  <2> HIDE DEF Sub
  <2>4. subscriptions' \in Seq(Sub)
    BY <2>1, <2>2, <2>3
  <2> QED BY <1>7, <2>4 DEF unsubscribe, history, TypeOK, Pending, Sub
<1>8. ASSUME Crash PROVE TypeInv'
  BY <1>8 DEF Crash, database, TypeOK, Handler, Pending, Idle
<1>9. ASSUME AdvanceClock PROVE TypeInv'
  <2>1. minute' \in 0 .. MaxMinutes /\ tick' \in 0 .. Ticks - 1
    BY <1>9, TicksAssumption, BoundsAssumption DEF AdvanceClock, TypeOK
  <2> QED BY <1>9, <2>1 DEF AdvanceClock, database, history, TypeOK, Pending
<1>10. ASSUME UNCHANGED vars PROVE TypeInv'
  BY <1>10 DEF vars, database, history, TypeOK, Pending
<1>11. ASSUME NEW p \in Principals, NEW a \in Actions, invokeUnlimited(p, a) PROVE TypeInv'
  <2>1. handler' \in Handler
    BY <1>11 DEF invokeUnlimited, Persists, Handler, Types
  <2> QED BY <1>11, <2>1 DEF invokeUnlimited, Persists, database, history, TypeOK, Pending
<1> QED
  BY <1>1, <1>2, <1>3, <1>4, <1>5, <1>6, <1>7, <1>8, <1>9, <1>10, <1>11 DEF Next

\* Every variable keeps its type, also across crashes.
THEOREM TypeCorrect == Spec => []TypeOK
<1>1. Spec => []TypeInv
  BY TypeInit, TypeNext, PTL DEF Spec
<1> QED BY <1>1, PTL DEF TypeInv

-----------------------------------------------------------------------------
(* The limit of a minute *)

\* The row of the current minute counts all that was carried out, and lives
\* until the minute has passed; later minutes have no row.
RateOf(k) ==
    /\ dispatched[k] =< Rpm[k[2]]
    /\ k[3] > minute => buckets[k] = null /\ dispatched[k] = 0
    /\ k[3] = minute => IF buckets[k] = null THEN dispatched[k] = 0
                        ELSE /\ buckets[k].count = dispatched[k]
                             /\ buckets[k].expires_at.minute = minute + 1

RateInv == \A k \in Keys : RateOf(k)

LEMMA RateInit == Init => RateInv
BY RpmAssumption DEF Init, RateInv, RateOf, Keys

LEMMA RateNext == TypeInv /\ RateInv /\ [Next]_vars => RateInv'
<1> SUFFICES ASSUME TypeInv, RateInv, [Next]_vars, NEW k \in Keys PROVE RateOf(k)'
  BY DEF RateInv, Keys
<1> USE DEF TypeInv
<1>0. RateOf(k) /\ minute \in Nat /\ k[3] \in Nat
      /\ (buckets[k] = null \/ buckets[k] \in Row)
  BY BoundsAssumption DEF RateInv, Keys, TypeOK
<1>1. ASSUME NEW p \in Principals, NEW a \in Actions, NEW gc \in BOOLEAN, invoke(p, a, gc)
      PROVE  RateOf(k)'
  <2> DEFINE key  == <<p, a, minute>>
             rows == [buckets EXCEPT ![key] = Upsert(key)]
  <2>1. key \in Keys /\ key[2] = a /\ key[3] = minute
    BY DEF Keys, TypeOK
  <2>2. /\ Count(key) + 1 =< Rpm[a] /\ minute' = minute
        /\ buckets' = IF gc THEN Collected(rows) ELSE rows
        /\ dispatched' = [dispatched EXCEPT ![key] = @ + 1]
    BY <1>1 DEF invoke
  <2>3. Upsert(key) \in Row
    BY <2>1, UpsertType
  <2> HIDE DEF key
  \* A row of this minute survives the collection.
  <2>4. k[3] = minute /\ rows[k] # null /\ rows[k].expires_at.minute = minute + 1
           => buckets'[k] = rows[k]
    BY <1>0, <2>2 DEF Collected, Earlier
  <2>5. rows[k] = null => buckets'[k] = null
    BY <2>2 DEF Collected
  <2>6. CASE k = key
    <3>1. rows[k] = Upsert(key) /\ dispatched'[k] = dispatched[key] + 1
      BY <2>1, <2>2, <2>6 DEF TypeOK
    <3>2. dispatched[key] \in Nat /\ RateOf(key) /\ (buckets[key] = null \/ buckets[key] \in Row)
      BY <2>1 DEF TypeOK, RateInv
    <3>3. Count(key) = dispatched[key]
      BY <1>0, <2>1, <3>2 DEF Count, RateOf, Later
    <3>4. /\ Upsert(key).count = dispatched[key] + 1
          /\ Upsert(key).expires_at.minute = minute + 1
      <4>1. CASE buckets[key] = null
        BY <2>1, <3>2, <4>1 DEF Upsert, RateOf, ExpiresAt
      <4>2. CASE buckets[key] # null
        BY <2>1, <3>2, <4>2 DEF Upsert, RateOf, Row
      <4> QED BY <4>1, <4>2
    <3>5. rows[k] # null
      BY <2>3, <3>1, NullAssumption
    <3>6. buckets'[k] = Upsert(key)
      BY <2>1, <2>4, <2>6, <3>1, <3>4, <3>5
    <3>7. dispatched'[k] =< Rpm[k[2]]
      BY <2>1, <2>2, <2>6, <3>1, <3>3
    <3>8. k[3] = minute' /\ ~ (k[3] > minute') /\ buckets'[k] # null
      BY <1>0, <2>1, <2>2, <2>6, <3>1, <3>5, <3>6
    <3> QED BY <2>2, <3>1, <3>4, <3>6, <3>7, <3>8 DEF RateOf
  <2>7. CASE k # key
    <3>1. rows[k] = buckets[k] /\ dispatched'[k] = dispatched[k]
      BY <2>2, <2>7 DEF TypeOK
    <3> HIDE DEF rows
    <3> QED BY <1>0, <2>2, <2>4, <2>5, <3>1 DEF RateOf
  <2> QED BY <2>6, <2>7
<1>2. CASE UNCHANGED <<buckets, dispatched, minute>>
  BY <1>0, <1>2 DEF RateOf
<1>3. ASSUME AdvanceClock PROVE RateOf(k)'
  <2>1. minute' = minute \/ minute' = minute + 1
    BY <1>3 DEF AdvanceClock
  <2>2. UNCHANGED <<buckets, dispatched>>
    BY <1>3 DEF AdvanceClock, database, history
  <2> QED BY <1>0, <2>1, <2>2 DEF RateOf
<1> QED
  BY <1>1, <1>2, <1>3 DEF Next, vars, database, history, invokeUnlimited, insertReceipt,
     setChainTip, deleteData, lateJoin, subscribe, unsubscribe, Crash

\* No principal has an action carried out more often in a minute than its limit
\* allows, also when the process dies after counting it (checkRpm).
THEOREM WithinLimit == Spec => []RateLimited
<1>1. RateInv => RateLimited
  BY DEF RateInv, RateOf, RateLimited
<1>2. Init => TypeInv /\ RateInv
  BY TypeInit, RateInit
<1>3. TypeInv /\ RateInv /\ [Next]_vars => (TypeInv /\ RateInv)'
  BY TypeNext, RateNext
<1> QED BY <1>1, <1>2, <1>3, PTL DEF Spec

-----------------------------------------------------------------------------
(* The receipt chain *)

\* Receipts cite earlier ones, the one in the making cites the tip, and the tip,
\* the answered receipts and those cited by late joins are on the chain.
ChainInv ==
    /\ \A i \in DOMAIN signed : signed[i].previous < i
    /\ handler.at = "tip" => /\ signed[Len(signed)].previous = chainTip
                             /\ chainTip < Len(signed)
    /\ chainTip # genesis => chainTip \in OnChain
    /\ AcknowledgedOnChain

LEMMA ChainInit == Init => ChainInv
BY DEF Init, ChainInv, AcknowledgedOnChain, Idle

\* A stored but unlinked receipt is not on the chain.
LEMMA InsertKeepsChain ==
    ASSUME TypeInv, ChainInv, insertReceipt
    PROVE  OnChain' = OnChain /\ Links' = Links
<1> DEFINE n == Len(signed) + 1
<1>1. /\ Len(signed) \in Nat
      /\ DOMAIN signed = 1 .. Len(signed) /\ DOMAIN signed' = 1 .. n
      /\ \A i \in DOMAIN signed : signed'[i] = signed[i]
      /\ signed'[n].previous = chainTip
  BY InsertEffect DEF TypeInv
<1>2. chainTip' = chainTip /\ chainTip \in Nat /\ chainTip < n
  BY <1>1 DEF insertReceipt, TypeInv, TypeOK, genesis
<1>3. \A i \in DOMAIN signed : signed[i].previous \in Nat
  <2>1. \A i \in DOMAIN signed : signed[i] \in Receipt
    BY DEF TypeInv, TypeOK
  <2> QED BY <2>1 DEF Receipt
<1>4. ASSUME NEW i PROVE i \in OnChain' <=> i \in OnChain
  <2>1. i \in OnChain => i \in OnChain'
    BY <1>1, <1>2, <1>3 DEF OnChain
  <2>2. i \in OnChain' => i \in OnChain
    BY <1>1, <1>2, <1>3 DEF OnChain
  <2> QED BY <2>1, <2>2
<1>5. OnChain' = OnChain
  BY <1>4
<1>6. \A i \in OnChain : signed'[i] = signed[i]
  BY <1>1 DEF OnChain
<1> QED BY <1>5, <1>6 DEF Links

\* Moving the tip puts exactly the receipt in the making on the chain.
LEMMA TipExtendsChain ==
    ASSUME TypeInv, ChainInv, setChainTip
    PROVE  /\ Len(signed) \in DOMAIN signed /\ Len(signed) \notin OnChain
           /\ OnChain' = OnChain \cup {Len(signed)}
           /\ Links' = Links \cup {<<Len(signed), chainTip>>}
<1> DEFINE n == Len(signed)
<1>1. n \in Nat /\ n > 0 /\ DOMAIN signed = 1 .. n /\ n \in DOMAIN signed
  BY DEF setChainTip, TypeInv, TypeOK, Pending
<1>2. signed[n].previous = chainTip /\ chainTip < n /\ chainTip \in Nat
  BY DEF setChainTip, ChainInv, TypeInv, TypeOK, genesis
<1>3. chainTip' = n /\ signed' = signed
  BY DEF setChainTip, NewTip
<1>4. \A i \in DOMAIN signed : signed[i].previous \in Nat
  <2>1. \A i \in DOMAIN signed : signed[i] \in Receipt
    BY DEF TypeInv, TypeOK
  <2> QED BY <2>1 DEF Receipt
<1>5. n \notin OnChain
  BY <1>1, <1>2 DEF OnChain
<1> HIDE DEF n
<1>6. ASSUME NEW i PROVE i \in OnChain' <=> i \in OnChain \cup {n}
  <2>1. i \in OnChain => i \in OnChain'
    BY <1>1, <1>2, <1>3, <1>4 DEF OnChain
  <2>2. n \in OnChain'
    BY <1>1, <1>3, <1>4 DEF OnChain
  <2>3. i \in OnChain' /\ i # n => i \in OnChain
    <3> SUFFICES ASSUME i \in OnChain', i # n PROVE i \in OnChain
      OBVIOUS
    <3>1. /\ i \in 1 .. n /\ i < n
          /\ \A j \in DOMAIN signed : j > i => signed[j].previous >= i
      BY <1>1, <1>3 DEF OnChain
    <3>2. chainTip >= i
      BY <1>1, <1>2, <3>1
    <3> QED BY <1>1, <1>2, <3>1, <3>2 DEF OnChain
  <2> QED BY <2>1, <2>2, <2>3
<1>7. OnChain' = OnChain \cup {n}
  BY <1>6
<1>8. Links' = Links \cup {<<n, chainTip>>}
  BY <1>2, <1>3, <1>7 DEF Links
<1> QED BY <1>1, <1>5, <1>7, <1>8 DEF n

LEMMA ChainNext == TypeInv /\ ChainInv /\ [Next]_vars => ChainInv'
<1> SUFFICES ASSUME TypeInv, ChainInv, [Next]_vars PROVE ChainInv'
  OBVIOUS
<1>1. ASSUME UNCHANGED <<signed, chainTip, acknowledged, joins>>, handler'.at # "tip"
      PROVE  ChainInv'
  <2>1. OnChain' = OnChain
    BY <1>1 DEF OnChain
  <2> QED BY <1>1, <2>1 DEF ChainInv, AcknowledgedOnChain
<1>2. ASSUME insertReceipt PROVE ChainInv'
  <2>1. /\ Len(signed) \in Nat /\ Len(signed') = Len(signed) + 1
        /\ DOMAIN signed = 1 .. Len(signed) /\ DOMAIN signed' = 1 .. Len(signed) + 1
        /\ \A i \in DOMAIN signed : signed'[i] = signed[i]
        /\ signed'[Len(signed) + 1].previous = chainTip
    BY <1>2, InsertEffect DEF TypeInv
  <2>2. chainTip' = chainTip /\ chainTip \in Nat /\ chainTip < Len(signed')
    BY <1>2, <2>1 DEF insertReceipt, TypeInv, TypeOK, genesis
  <2>3. \A i \in DOMAIN signed' : signed'[i].previous < i
    BY <2>1, <2>2 DEF ChainInv
  <2>4. OnChain' = OnChain
    BY <1>2, InsertKeepsChain
  <2>5. UNCHANGED <<acknowledged, joins>>
    BY <1>2 DEF insertReceipt
  <2> QED BY <2>1, <2>2, <2>3, <2>4, <2>5 DEF ChainInv, AcknowledgedOnChain
<1>3. ASSUME setChainTip PROVE ChainInv'
  <2>1. /\ OnChain' = OnChain \cup {Len(signed)}
        /\ chainTip' = Len(signed) /\ signed' = signed /\ joins' = joins
        /\ acknowledged' = acknowledged \cup {Len(signed)}
        /\ handler' = Idle
    BY <1>3, TipExtendsChain DEF setChainTip, NewTip
  <2> QED BY <2>1 DEF ChainInv, AcknowledgedOnChain, Idle
<1>4. ASSUME lateJoin PROVE ChainInv'
  <2> DEFINE j == [index |-> ahtAdmissionCounter', previous |-> chainTip]
  <2>1. /\ UNCHANGED <<signed, chainTip, acknowledged, handler>>
        /\ joins' = Append(joins, j)
    BY <1>4 DEF lateJoin, database
  <2>2. OnChain' = OnChain
    BY <2>1 DEF OnChain
  <2>3. joins \in Seq([index : Nat, previous : Nat])
    BY DEF TypeInv, TypeOK
  <2>4. j.previous \in OnChain \cup {genesis}
    BY DEF ChainInv
  <2> HIDE DEF j
  <2>5. /\ DOMAIN joins' = 1 .. Len(joins) + 1 /\ DOMAIN joins = 1 .. Len(joins)
        /\ Len(joins) \in Nat
        /\ \A k \in 1 .. Len(joins) : joins'[k] = joins[k]
        /\ joins'[Len(joins) + 1] = j
    BY <2>1, <2>3
  <2>6. \A k \in DOMAIN joins' : joins'[k].previous \in OnChain \cup {genesis}
    BY <2>4, <2>5 DEF ChainInv, AcknowledgedOnChain
  <2> QED BY <2>1, <2>2, <2>6 DEF ChainInv, AcknowledgedOnChain
<1>5. ASSUME NEW p \in Principals, NEW a \in Actions, NEW gc \in BOOLEAN, invoke(p, a, gc)
      PROVE  ChainInv'
  BY <1>1, <1>5 DEF invoke, Persists
<1>6. ASSUME NEW p \in Principals, deleteData(p) PROVE ChainInv'
  BY <1>1, <1>6 DEF deleteData, Idle
<1>7. ASSUME NEW p \in Principals, subscribe(p) PROVE ChainInv'
  BY <1>1, <1>7 DEF subscribe, Persists, history
<1>8. ASSUME NEW s \in DOMAIN subscriptions, unsubscribe(s) PROVE ChainInv'
  BY <1>1, <1>8 DEF unsubscribe, history, Idle
<1>9. ASSUME Crash PROVE ChainInv'
  BY <1>1, <1>9 DEF Crash, database, Idle
<1>10. ASSUME UNCHANGED <<signed, chainTip, acknowledged, joins, handler>> PROVE ChainInv'
  <2>1. OnChain' = OnChain
    BY <1>10 DEF OnChain
  <2> QED BY <1>10, <2>1 DEF ChainInv, AcknowledgedOnChain
<1>11. ASSUME NEW p \in Principals, NEW a \in Actions, invokeUnlimited(p, a) PROVE ChainInv'
  BY <1>1, <1>11 DEF invokeUnlimited, Persists, database, history
<1> QED
  BY <1>2, <1>3, <1>4, <1>5, <1>6, <1>7, <1>8, <1>9, <1>10, <1>11
     DEF Next, AdvanceClock, vars, database, history

LEMMA ChainHoldsAlways == Spec => [](TypeInv /\ ChainInv)
<1>1. Init => TypeInv /\ ChainInv
  BY TypeInit, ChainInit
<1>2. TypeInv /\ ChainInv /\ [Next]_vars => (TypeInv /\ ChainInv)'
  BY TypeNext, ChainNext
<1> QED BY <1>1, <1>2, PTL DEF Spec

\* A receipt whose caller got an answer stays on the chain, whatever crashes
\* leave beside it (persistReceipt).
THEOREM AnsweredIsChained == Spec => []AcknowledgedOnChain
<1>1. ChainInv => AcknowledgedOnChain
  BY DEF ChainInv
<1> QED BY <1>1, ChainHoldsAlways, PTL

\* The server implements a receipt chain that only grows at its head.
THEOREM Implements == Spec => ImplementsChain
<1>1. Init => Chain!Init
  BY DEF Init, Chain!Init, Links, OnChain
<1>2. TypeInv /\ ChainInv /\ [Next]_vars => [Chain!Next]_(Chain!vars)
  <2> SUFFICES ASSUME TypeInv, ChainInv, [Next]_vars
               PROVE  Chain!Next \/ UNCHANGED Chain!vars
    OBVIOUS
  <2>1. CASE UNCHANGED <<signed, chainTip>>
    BY <2>1 DEF Chain!vars, Links, OnChain
  <2>2. CASE insertReceipt
    BY <2>2, InsertKeepsChain DEF Chain!vars, insertReceipt
  <2>3. CASE setChainTip
    <3>1. /\ Len(signed) \in DOMAIN signed /\ Len(signed) \notin OnChain
          /\ Links' = Links \cup {<<Len(signed), chainTip>>}
          /\ chainTip' = Len(signed)
      BY <2>3, TipExtendsChain DEF setChainTip, NewTip
    <3>2. \A l \in Links : l[1] # Len(signed)
      BY <3>1 DEF Links
    <3>3. Chain!Append(Len(signed))
      BY <3>1, <3>2 DEF Chain!Append
    <3>4. Len(signed) \in 1 .. MaxReceipts
      BY <3>1, BoundsAssumption DEF TypeInv, TypeOK, Pending
    <3> QED BY <3>3, <3>4 DEF Chain!Next
  <2> QED
    BY <2>1, <2>2, <2>3 DEF Next, vars, database, history, invoke,
       invokeUnlimited, deleteData, lateJoin, subscribe, unsubscribe, Crash, AdvanceClock
<1>3. Spec => Chain!Spec
  BY <1>1, <1>2, ChainHoldsAlways, PTL DEF Spec, Chain!Spec
<1> QED BY <1>3 DEF ImplementsChain

-----------------------------------------------------------------------------
(* Erasure *)

\* A receipt that was signed is stored, or its principal's data were deleted.
StoredOrErased == \A i \in DOMAIN signed : i \in receipts \/ signed[i].principal \in erased

LEMMA StoredNext == TypeInv /\ StoredOrErased /\ [Next]_vars => StoredOrErased'
<1> SUFFICES ASSUME TypeInv, StoredOrErased, [Next]_vars PROVE StoredOrErased'
  OBVIOUS
<1>1. CASE insertReceipt
  <2>1. /\ DOMAIN signed' = DOMAIN signed \cup {Len(signed) + 1}
        /\ \A i \in DOMAIN signed : signed'[i] = signed[i]
        /\ receipts' = receipts \cup {Len(signed) + 1}
        /\ erased' = erased
    BY <1>1, InsertEffect DEF TypeInv, insertReceipt
  <2> QED BY <2>1 DEF StoredOrErased
<1>2. ASSUME NEW p \in Principals, deleteData(p) PROVE StoredOrErased'
  BY <1>2 DEF deleteData, Erasable, StoredOrErased
<1>3. CASE UNCHANGED <<signed, receipts, erased>>
  BY <1>3 DEF StoredOrErased
<1> QED
  BY <1>1, <1>2, <1>3 DEF Next, vars, database, history, invoke, invokeUnlimited,
     setChainTip, lateJoin, subscribe, unsubscribe, Crash, AdvanceClock

\* A citation dangles only where a principal's data were deleted, never because
\* of a crash between two writes (persistReceipt, data/delete).
THEOREM DanglesByErasure == Spec => []DanglingOnlyErased
<1>1. Init => StoredOrErased
  BY DEF Init, StoredOrErased
<1>2. TypeInv /\ ChainInv /\ StoredOrErased => DanglingOnlyErased
  <2> SUFFICES ASSUME TypeInv, ChainInv, StoredOrErased, NEW i \in receipts,
                      signed[i].previous # genesis
               PROVE  LET k == signed[i].previous
                      IN  k \in receipts \/ signed[k].principal \in erased
    BY DEF DanglingOnlyErased
  <2>1. i \in DOMAIN signed /\ DOMAIN signed = 1 .. Len(signed) /\ Len(signed) \in Nat
    BY DEF TypeInv, TypeOK
  <2>2. signed[i] \in Receipt
    BY <2>1 DEF TypeInv, TypeOK
  <2>3. signed[i].previous \in Nat /\ signed[i].previous < i
    BY <2>1, <2>2 DEF Receipt, ChainInv
  <2>4. signed[i].previous \in DOMAIN signed
    BY <2>1, <2>3 DEF genesis
  <2> QED BY <2>4 DEF StoredOrErased
<1> QED BY <1>1, <1>2, StoredNext, ChainHoldsAlways, PTL DEF Spec

\* Only the deletion of their own principal's data removes receipts, and it
\* leaves the chain's tip alone (data/delete).
THEOREM ErasesOwnOnly == Spec => ErasureIsPrivate
<1>1. TypeInv /\ [Next]_vars =>
        [\A i \in receipts \ receipts' :
            /\ signed[i].principal \in erased'
            /\ \A j \in receipts' : signed'[j].principal # signed[i].principal
            /\ \A j \in receipts \ receipts' : signed[j].principal = signed[i].principal
            /\ chainTip' = chainTip]_vars
  <2> SUFFICES ASSUME TypeInv, [Next]_vars, NEW i \in receipts \ receipts'
               PROVE  /\ signed[i].principal \in erased'
                      /\ \A j \in receipts' : signed'[j].principal # signed[i].principal
                      /\ \A j \in receipts \ receipts' :
                             signed[j].principal = signed[i].principal
                      /\ chainTip' = chainTip
    OBVIOUS
  <2>1. PICK p \in Principals : deleteData(p)
    BY DEF Next, vars, database, history, invoke, invokeUnlimited,
           insertReceipt, Inserted, setChainTip, lateJoin, subscribe, unsubscribe, Crash, AdvanceClock
  <2> QED BY <2>1 DEF deleteData, Erasable
<1>2. Spec => []TypeInv
  BY TypeInit, TypeNext, PTL DEF Spec
<1> QED BY <1>1, <1>2, PTL DEF ErasureIsPrivate, Spec

=============================================================================
