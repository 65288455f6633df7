-------------------------- MODULE SdkServersProofs --------------------------
(***************************************************************************)
(* Theorems about the SDK servers, for both runtimes, with a policy hook or *)
(* without, for any number of overlapping calls and all limits.             *)
(***************************************************************************)
EXTENDS SdkServers, FiniteSetTheorems, TLAPS

-----------------------------------------------------------------------------
(* The kinds of steps: the handlers of both servers make the same ones.     *)

Arrives(p, a, sweep) ==
    LET key   == <<p, a, minute>>
        limit == Rpm[a] > 0 /\ NextCount(key) > Rpm[a]
        at    == IF limit THEN "rate_limited" ELSE IF policy THEN "policy" ELSE "handler"
    IN  /\ Len(calls) < MaxCalls
        /\ IF Rpm[a] > 0 THEN rateBucketIncrement(key, sweep) ELSE UNCHANGED buckets
        /\ calls' = Append(calls, [principal |-> p, action |-> a, minute |-> minute,
                                   since |-> Len(signed), at |-> at, ran |-> at = "handler"])
        /\ admitted' = IF limit THEN admitted ELSE [admitted EXCEPT ![key] = @ + 1]
        /\ UNCHANGED <<up, clock, billing, receipts, chainTip, subscriptions, signed, erased>>

\* A call goes on, or ends, without a receipt.
GoesOn(c, at, ran) ==
    /\ \/ calls[c].at = "policy" /\ at = "handler" /\ ran = TRUE
       \/ calls[c].at = "policy" /\ at \in {"policy_error", "failed"} /\ ran = calls[c].ran
       \/ calls[c].at = "handler" /\ at = "failed" /\ ran = calls[c].ran
    /\ calls' = [calls EXCEPT ![c] = [calls[c] EXCEPT !.at = at, !.ran = ran]]
    /\ UNCHANGED <<up, clock, billing, buckets, receipts, chainTip, subscriptions, signed,
                   admitted, erased>>

\* A call ends with a receipt.
Completes(c, at) ==
    /\ \/ calls[c].at = "policy" /\ at = "denied"
       \/ calls[c].at = "handler" /\ at \in {"success", "error", "unsent"}
    /\ calls' = [calls EXCEPT ![c] = [calls[c] EXCEPT !.at = at]]
    /\ persistReceipt(ReceiptType[at], calls[c].principal, c, calls[c].since)
    /\ UNCHANGED <<up, clock, billing, buckets, subscriptions, admitted, erased>>

Dies ==
    /\ calls' = [d \in DOMAIN calls |->
                    IF calls[d].at \in {"policy", "handler"}
                    THEN [calls[d] EXCEPT !.at = "lost"] ELSE calls[d]]
    /\ up' = FALSE
    /\ UNCHANGED <<clock, billing, store, history>>

Deletes(p) ==
    /\ deleteByPrincipal(p)
    /\ UNCHANGED <<up, clock, calls, billing, buckets, chainTip, subscriptions, signed, admitted>>

\* With a receipt or, where that cannot be written, without.
Subscribes(p, granted) ==
    /\ Len(subscriptions) + incidents < MaxRecords
    /\ insertSubscription(p, granted)
    /\ IF granted THEN persistReceipt("subscription", p, Len(subscriptions'), Len(signed))
       ELSE UNCHANGED <<signed, receipts, chainTip>>
    /\ UNCHANGED <<up, clock, calls, billing, buckets, admitted, erased>>

Cancels(s) ==
    /\ cancelSubscription(s)
    /\ UNCHANGED <<up, clock, calls, billing, buckets, receipts, chainTip, signed, admitted, erased>>

\* Billing requests, incidents and the clock.
Others == /\ clock' \in {clock, clock + 1}
          /\ UNCHANGED <<up, calls, buckets, receipts, chainTip, subscriptions, signed, admitted, erased>>

Kind == \/ \E p \in Principals, a \in Actions, sweep \in BOOLEAN : Arrives(p, a, sweep)
        \/ \E c \in DOMAIN calls : \/ \E at \in Places, ran \in BOOLEAN : GoesOn(c, at, ran)
                                   \/ \E at \in DOMAIN ReceiptType : Completes(c, at)
        \/ Dies
        \/ \E p \in Principals : Deletes(p) \/ \E granted \in BOOLEAN : Subscribes(p, granted)
        \/ \E s \in DOMAIN subscriptions : Cancels(s)
        \/ Others

LEMMA Kinds == TypeOK /\ [Next]_vars => Kind
<1> SUFFICES ASSUME TypeOK, [Next]_vars PROVE Kind
  OBVIOUS
<1> USE DEF Kind
<1>1. ASSUME NEW p \in Principals, NEW a \in Actions, NEW sweep \in BOOLEAN,
             handleInvoke(p, a, sweep) \/ handle_invoke(p, a, sweep)
      PROVE  Arrives(p, a, sweep)
  BY <1>1 DEF handleInvoke, handle_invoke, rate_bucket_increment, Arrives
<1>2. ASSUME NEW c \in DOMAIN calls
      PROVE  calls[c] \in Call
  BY <1>2 DEF TypeOK
<1>3. ASSUME NEW c \in DOMAIN calls, NEW d,
             policyAnswers(c, d) \/ policy_answers(c, d)
      PROVE  \/ \E at \in Places, ran \in BOOLEAN : GoesOn(c, at, ran)
             \/ \E at \in DOMAIN ReceiptType : Completes(c, at)
  <2>0. calls[c] \in Call
    BY <1>2
  <2>1. CASE d = "allow"
    <3>1. GoesOn(c, "handler", TRUE)
      BY <1>3, <2>0, <2>1 DEF policyAnswers, policy_answers, GoesOn, Call
    <3> QED BY <3>1 DEF Places
  <2>2. CASE d = "deny"
    <3>1. Completes(c, "denied")
      BY <1>3, <2>2 DEF policyAnswers, policy_answers, persist_receipt, Denied, Completes, ReceiptType
    <3> QED BY <3>1 DEF ReceiptType
  <2>3. CASE d = "throw"
    <3>1. GoesOn(c, "policy_error", calls[c].ran) /\ calls[c].ran \in BOOLEAN
      BY <1>3, <2>0, <2>3 DEF policyAnswers, policy_answers, GoesOn, Call
    <3> QED BY <3>1 DEF Places
  <2>4. CASE d = "unwritable"
    <3>1. GoesOn(c, "failed", calls[c].ran) /\ calls[c].ran \in BOOLEAN
      BY <1>3, <2>0, <2>4 DEF policyAnswers, policy_answers, GoesOn, Call
    <3> QED BY <3>1 DEF Places
  <2> QED BY <1>3, <2>1, <2>2, <2>3, <2>4 DEF policyAnswers, policy_answers
<1>4. ASSUME NEW c \in DOMAIN calls, NEW o,
             handlerAnswers(c, o) \/ handler_answers(c, o)
      PROVE  \/ \E at \in Places, ran \in BOOLEAN : GoesOn(c, at, ran)
             \/ \E at \in DOMAIN ReceiptType : Completes(c, at)
  <2>1. CASE o = "value"
    <3>1. Completes(c, "success")
      BY <1>4, <2>1 DEF handlerAnswers, handler_answers, persist_receipt, Completes, ReceiptType
    <3> QED BY <3>1 DEF ReceiptType
  <2>2. CASE o = "throw"
    <3>1. Completes(c, "error")
      BY <1>4, <2>2 DEF handlerAnswers, handler_answers, persist_receipt, Completes, ReceiptType
    <3> QED BY <3>1 DEF ReceiptType
  <2>3. CASE o = "unwritable"
    <3>1. GoesOn(c, "failed", calls[c].ran) /\ calls[c].ran \in BOOLEAN
      BY <1>2, <1>4, <2>3 DEF handlerAnswers, handler_answers, GoesOn, Call
    <3> QED BY <3>1 DEF Places
  <2>4. CASE o = "unsendable"
    <3>1. Completes(c, "unsent")
      BY <1>4, <2>4 DEF handlerAnswers, handler_answers, persist_receipt, Completes, ReceiptType
    <3> QED BY <3>1 DEF ReceiptType
  <2> QED BY <1>4, <2>1, <2>2, <2>3, <2>4 DEF handlerAnswers, handler_answers
<1>5. ASSUME NEW c \in DOMAIN calls, handlerUnserialisable(c) PROVE Dies
  BY <1>5 DEF handlerUnserialisable, Dies
<1>6. ASSUME NEW p \in Principals, handleDelete(p) \/ delete(p) PROVE Deletes(p)
  BY <1>6 DEF handleDelete, delete, Deletes
<1>7. ASSUME NEW p \in Principals, NEW granted \in BOOLEAN,
             handleSubscribe(p, granted) \/ subscribe(p, granted)
      PROVE  Subscribes(p, granted)
  BY <1>7 DEF handleSubscribe, subscribe, Subscribes
<1>8. ASSUME NEW s \in DOMAIN subscriptions, handleUnsubscribe(s) \/ unsubscribe(s)
      PROVE  Cancels(s)
  BY <1>8 DEF handleUnsubscribe, unsubscribe, Cancels, history
<1>9. ASSUME \/ \E p \in Principals : handleBilling(p) \/ get_billing(p)
             \/ active_subscription \/ handleIncidentCreate \/ incident_create
             \/ BillingSent \/ AdvanceClock \/ UNCHANGED vars
      PROVE  Others
  BY <1>9 DEF handleBilling, get_billing, active_subscription, handleIncidentCreate,
     incident_create, BillingSent, AdvanceClock, vars, store, history, Others
<1>10. CASE TypeScriptNext
  BY <1>1, <1>3, <1>4, <1>5, <1>6, <1>7, <1>8, <1>9, <1>10 DEF TypeScriptNext
<1>11. CASE PythonNext
  BY <1>1, <1>3, <1>4, <1>6, <1>7, <1>8, <1>9, <1>11 DEF PythonNext
<1> QED BY <1>9, <1>10, <1>11 DEF Next

-----------------------------------------------------------------------------
(* Type correctness *)

LEMMA TypeInit == Init => TypeOK
BY TicksAssumption, BoundsAssumption
   DEF Init, TypeOK, Keys, Billing, Idle, genesis

\* What persistReceipt appends, and where.
LEMMA PersistEffect ==
    ASSUME TypeOK, NEW type \in {"invocation", "invocation_error", "invocation_denied",
                                 "subscription"},
           NEW p \in Principals, NEW subject \in Nat, NEW since,
           persistReceipt(type, p, subject, since)
    PROVE  /\ Len(signed) \in Nat /\ Len(signed') = Len(signed) + 1
           /\ DOMAIN signed = 1 .. Len(signed) /\ DOMAIN signed' = 1 .. Len(signed) + 1
           /\ signed' \in Seq(Receipt)
           /\ \A i \in DOMAIN signed : signed'[i] = signed[i]
           /\ signed'[Len(signed) + 1] = [type |-> type, principal |-> p,
                                          subject |-> subject, previous |-> chainTip]
           /\ receipts' = receipts \cup {Len(signed) + 1}
           /\ chainTip' = Len(signed) + 1
<1> DEFINE r == [type |-> type, principal |-> p, subject |-> subject, previous |-> Cited(since)]
<1>1. r \in Receipt
  BY DEF Receipt, ReceiptType, TypeOK, Cited, genesis
<1>2. /\ signed' = Append(signed, r) /\ receipts' = receipts \cup {Len(signed')}
      /\ chainTip' = Len(signed')
  BY DEF persistReceipt, NewTip
<1>3. signed \in Seq(Receipt) /\ r = [type |-> type, principal |-> p,
                                      subject |-> subject, previous |-> chainTip]
  BY DEF TypeOK, Cited
<1> HIDE DEF r
<1> QED BY <1>1, <1>2, <1>3

LEMMA KeyMinute == TypeOK => minute \in 0 .. MaxClock \div Ticks
<1> SUFFICES ASSUME TypeOK PROVE minute \in 0 .. MaxClock \div Ticks
  OBVIOUS
<1>1. clock \in 0 .. MaxClock /\ MaxClock \in Nat /\ Ticks \in Nat /\ Ticks > 0
  BY TicksAssumption, BoundsAssumption DEF TypeOK
<1> HIDE DEF TypeOK
<1>2. \A a, b, t \in Nat : t > 0 /\ a =< b => a \div t \in Nat /\ a \div t =< b \div t
  OBVIOUS
<1> QED BY <1>1, <1>2 DEF minute

\* The variables that Others may change.
LEMMA OthersType == TypeOK /\ [Next]_vars => /\ runtime' \in {"node", "python"}
                                            /\ policy' \in BOOLEAN /\ clock' \in 0 .. MaxClock
                                            /\ billing' \in Billing /\ incidents' \in Nat
<1> SUFFICES ASSUME TypeOK, [Next]_vars
             PROVE  /\ runtime' \in {"node", "python"}
                    /\ policy' \in BOOLEAN /\ clock' \in 0 .. MaxClock
                    /\ billing' \in Billing /\ incidents' \in Nat
  OBVIOUS
<1>1. UNCHANGED config
  BY DEF Next, TypeScriptNext, PythonNext, vars, config, handleInvoke, handle_invoke,
     policyAnswers, policy_answers, handlerAnswers, handler_answers, handlerUnserialisable,
     handleDelete, delete, handleSubscribe, subscribe, handleUnsubscribe, unsubscribe,
     handleBilling, get_billing, active_subscription, handleIncidentCreate, incident_create,
     BillingSent, AdvanceClock
<1>2. clock' \in 0 .. MaxClock
  <2>1. CASE AdvanceClock
    BY <2>1, BoundsAssumption DEF AdvanceClock, TypeOK
  <2>2. CASE UNCHANGED clock
    BY <2>2 DEF TypeOK
  <2> QED
    BY <2>1, <2>2 DEF Next, TypeScriptNext, PythonNext, vars, handleInvoke, handle_invoke,
       policyAnswers, policy_answers, handlerAnswers, handler_answers, handlerUnserialisable,
       handleDelete, delete, handleSubscribe, subscribe, handleUnsubscribe, unsubscribe,
       handleBilling, get_billing, active_subscription, handleIncidentCreate, incident_create,
       BillingSent
<1>3. incidents' \in Nat
  <2>1. CASE handleIncidentCreate \/ incident_create
    BY <2>1 DEF handleIncidentCreate, incident_create, TypeOK
  <2>2. CASE UNCHANGED incidents
    BY <2>2 DEF TypeOK
  <2> QED
    BY <2>1, <2>2 DEF Next, TypeScriptNext, PythonNext, vars, store, handleInvoke, handle_invoke,
       policyAnswers, policy_answers, handlerAnswers, handler_answers, handlerUnserialisable,
       handleDelete, delete, handleSubscribe, subscribe, handleUnsubscribe, unsubscribe,
       handleBilling, get_billing, active_subscription, BillingSent, AdvanceClock
<1>4. billing' \in Billing
  <2>0. Len(subscriptions) \in Nat /\ DOMAIN subscriptions = 1 .. Len(subscriptions)
    BY DEF TypeOK
  <2>1. ASSUME NEW p \in Principals, handleBilling(p) PROVE billing' \in Billing
    BY <2>0, <2>1 DEF handleBilling, Billing
  <2>2. ASSUME NEW p \in Principals, get_billing(p) PROVE billing' \in Billing
    BY <2>0, <2>2 DEF get_billing, Billing
  <2>3. CASE active_subscription
    <3>1. billing \in [at : {"iterating"}, principal : Principals, next : Nat, size : Nat]
      BY <2>3 DEF active_subscription, TypeOK, Billing, Idle
    <3>2. CASE NextStep = "raise"
      BY <2>3, <3>2 DEF active_subscription, Billing
    <3>3. CASE NextStep = "exhausted"
      BY <2>3, <3>1, <3>3 DEF active_subscription, Billing
    <3>4. CASE NextStep = "visit"
      BY <2>3, <3>1, <3>4 DEF active_subscription, Billing
    <3> QED BY <3>2, <3>3, <3>4 DEF NextStep
  <2>4. CASE BillingSent
    BY <2>4 DEF BillingSent, Billing
  <2>5. CASE UNCHANGED billing
    BY <2>5 DEF TypeOK
  <2> QED
    BY <2>1, <2>2, <2>3, <2>4, <2>5 DEF Next, TypeScriptNext, PythonNext, vars, handleInvoke,
       handle_invoke, policyAnswers, policy_answers, handlerAnswers, handler_answers,
       handlerUnserialisable, handleDelete, delete, handleSubscribe, subscribe,
       handleUnsubscribe, unsubscribe, handleIncidentCreate, incident_create, AdvanceClock
<1> QED BY <1>1, <1>2, <1>3, <1>4 DEF config, TypeOK

\* A row that was counted, or swept, is a row.
LEMMA IncrementType ==
    ASSUME TypeOK, NEW key \in Keys, NEW sweep \in BOOLEAN, rateBucketIncrement(key, sweep)
    PROVE  buckets' \in [Keys -> [count : Nat, expiresAt : Nat] \cup {null}]
<1> DEFINE Row == [count : Nat, expiresAt : Nat]
           new == [count     |-> IF Live(key) THEN buckets[key].count + 1 ELSE 1,
                   expiresAt |-> IF Live(key) THEN buckets[key].expiresAt ELSE clock + Ticks]
<1>1. new \in Row
  <2>1. clock \in Nat /\ Ticks \in Nat
    BY TicksAssumption DEF TypeOK
  <2>2. Live(key) => buckets[key] \in Row
    BY DEF Live, TypeOK
  <2> QED BY <2>1, <2>2
<1>2. Increment(key) = [buckets EXCEPT ![key] = new]
  BY DEF Increment
<1> HIDE DEF new
<1>3. Increment(key) \in [Keys -> Row \cup {null}]
  BY <1>1, <1>2 DEF TypeOK
<1> HIDE DEF Row
<1>4. Swept(Increment(key)) \in [Keys -> Row \cup {null}]
  BY <1>3 DEF Swept
<1>5. buckets' \in [Keys -> Row \cup {null}]
  BY <1>3, <1>4 DEF rateBucketIncrement
<1> QED BY <1>5 DEF Row

LEMMA TypeNext == TypeOK /\ [Next]_vars => TypeOK'
<1> SUFFICES ASSUME TypeOK, [Next]_vars PROVE TypeOK'
  OBVIOUS
<1> DEFINE Sub == Subscription
           T == /\ up' \in BOOLEAN
                /\ calls' \in Seq(Call)
                /\ buckets' \in [Keys -> [count : Nat, expiresAt : Nat] \cup {null}]
                /\ signed' \in Seq(Receipt)
                /\ receipts' \subseteq DOMAIN signed'
                /\ chainTip' \in {genesis} \cup DOMAIN signed'
                /\ subscriptions' \in Seq(Sub)
                /\ admitted' \in [Keys -> Nat]
                /\ erased' \subseteq DOMAIN signed'
<1>0. T => TypeOK'
  BY OthersType DEF TypeOK, Keys, Receipt, Call
<1>1. ASSUME NEW p \in Principals, NEW a \in Actions, NEW sweep \in BOOLEAN,
             Arrives(p, a, sweep)
      PROVE  T
  <2> DEFINE key == <<p, a, minute>>
             limit == Rpm[a] > 0 /\ NextCount(key) > Rpm[a]
             at == IF limit THEN "rate_limited" ELSE IF policy THEN "policy" ELSE "handler"
             call == [principal |-> p, action |-> a, minute |-> minute,
                      since |-> Len(signed), at |-> at, ran |-> at = "handler"]
  <2>1. key \in Keys
    BY KeyMinute DEF Keys
  <2>2. call \in Call
    BY KeyMinute DEF Call, Places, TypeOK
  <2>3. calls' \in Seq(Call)
    <3>1. calls' = Append(calls, call) /\ calls \in Seq(Call)
      BY <1>1 DEF Arrives, TypeOK
    <3> HIDE DEF call
    <3> QED BY <2>2, <3>1
  <2>4. buckets' \in [Keys -> [count : Nat, expiresAt : Nat] \cup {null}]
    <3>1. rateBucketIncrement(key, sweep) \/ UNCHANGED buckets
      BY <1>1 DEF Arrives
    <3> HIDE DEF key
    <3> QED BY <2>1, <3>1, IncrementType DEF TypeOK
  <2>5. admitted' \in [Keys -> Nat]
    <3>1. admitted' = admitted \/ admitted' = [admitted EXCEPT ![key] = admitted[key] + 1]
      BY <1>1 DEF Arrives
    <3>2. admitted \in [Keys -> Nat]
      BY DEF TypeOK
    <3> HIDE DEF key, limit, at, call
    <3>3. [admitted EXCEPT ![key] = admitted[key] + 1] \in [Keys -> Nat]
      BY <2>1, <3>2
    <3> QED BY <3>1, <3>2, <3>3
  <2> QED BY <1>1, <2>3, <2>4, <2>5 DEF Arrives, TypeOK
<1>2. ASSUME NEW c \in DOMAIN calls, NEW at \in Places, NEW ran \in BOOLEAN,
             GoesOn(c, at, ran)
      PROVE  T
  <2> DEFINE call == [calls[c] EXCEPT !.at = at, !.ran = ran]
  <2>1. calls \in Seq(Call) /\ calls[c] \in Call
    BY DEF TypeOK
  <2>2. call \in Call
    BY <2>1 DEF Call
  <2>3. calls' \in Seq(Call)
    <3>1. calls' = [calls EXCEPT ![c] = call]
      BY <1>2 DEF GoesOn
    <3> HIDE DEF call
    <3> QED BY <2>1, <2>2, <3>1
  <2> QED BY <1>2, <2>3 DEF GoesOn, TypeOK
<1>3. ASSUME NEW c \in DOMAIN calls, NEW at \in DOMAIN ReceiptType, Completes(c, at)
      PROVE  T
  <2> DEFINE call == [calls[c] EXCEPT !.at = at]
  <2>1. calls \in Seq(Call) /\ calls[c] \in Call /\ c \in Nat
    BY DEF TypeOK
  <2>2. call \in Call /\ calls[c].principal \in Principals
    BY <2>1 DEF Call, Places
  <2>3. calls' \in Seq(Call)
    <3>1. calls' = [calls EXCEPT ![c] = call]
      BY <1>3 DEF Completes
    <3> HIDE DEF call
    <3> QED BY <2>1, <2>2, <3>1
  <2>4. ReceiptType[at] \in {"invocation", "invocation_error", "invocation_denied",
                             "subscription"}
    BY DEF ReceiptType
  <2>5. persistReceipt(ReceiptType[at], calls[c].principal, c, calls[c].since)
    BY <1>3 DEF Completes
  <2>6. /\ signed' \in Seq(Receipt) /\ Len(signed) \in Nat
        /\ DOMAIN signed = 1 .. Len(signed) /\ DOMAIN signed' = 1 .. Len(signed) + 1
        /\ receipts' = receipts \cup {Len(signed) + 1} /\ chainTip' = Len(signed) + 1
    BY <2>1, <2>2, <2>4, <2>5, PersistEffect
  <2> QED BY <1>3, <2>3, <2>6 DEF Completes, TypeOK
<1>4. ASSUME Dies PROVE T
  <2>1. calls \in Seq(Call) /\ Len(calls) \in Nat
    BY DEF TypeOK
  <2>2. \A d \in DOMAIN calls : [calls[d] EXCEPT !.at = "lost"] \in Call
    <3> TAKE d \in DOMAIN calls
    <3>1. calls[d] \in Call
      BY <2>1
    <3> QED BY <3>1 DEF Call, Places
  <2>3. calls' \in Seq(Call)
    <3>1. DOMAIN calls = 1 .. Len(calls) /\ \A d \in DOMAIN calls : calls[d] \in Call
      BY <2>1
    <3>2. calls' \in [1 .. Len(calls) -> Call]
      BY <1>4, <2>2, <3>1 DEF Dies
    <3> QED BY <2>1, <3>2
  <2> QED BY <1>4, <2>3 DEF Dies, store, history, TypeOK
<1>5. ASSUME NEW p \in Principals, Deletes(p) PROVE T
  BY <1>5 DEF Deletes, deleteByPrincipal, TypeOK
<1>6. ASSUME NEW p \in Principals, NEW granted \in BOOLEAN, Subscribes(p, granted) PROVE T
  <2> DEFINE sub == [principal |-> p, status |-> "active", granted |-> granted]
  <2>1. subscriptions' = Append(subscriptions, sub) /\ subscriptions \in Seq(Sub) /\ sub \in Sub
    BY <1>6 DEF Subscribes, insertSubscription, TypeOK, Subscription
  <2> HIDE DEF Sub, sub
  <2>2. subscriptions' \in Seq(Sub) /\ Len(subscriptions') \in Nat
    BY <2>1
  <2>3. CASE granted
    <3>1. persistReceipt("subscription", p, Len(subscriptions'), Len(signed))
      BY <1>6, <2>3 DEF Subscribes
    <3>2. /\ signed' \in Seq(Receipt) /\ Len(signed) \in Nat
          /\ DOMAIN signed = 1 .. Len(signed) /\ DOMAIN signed' = 1 .. Len(signed) + 1
          /\ receipts' = receipts \cup {Len(signed) + 1} /\ chainTip' = Len(signed) + 1
      BY <2>2, <3>1, PersistEffect
    <3> QED BY <1>6, <2>2, <3>2 DEF Subscribes, TypeOK
  <2>4. CASE ~ granted
    BY <1>6, <2>2, <2>4 DEF Subscribes, TypeOK
  <2> QED BY <2>3, <2>4
<1>7. ASSUME NEW s \in DOMAIN subscriptions, Cancels(s) PROVE T
  <2>1. subscriptions \in Seq(Sub)
    BY DEF TypeOK
  <2>2. [subscriptions[s] EXCEPT !.status = "canceled"] \in Sub
    <3>1. subscriptions[s] \in Sub
      <4> HIDE DEF Sub
      <4> QED BY <2>1
    <3> QED BY <3>1 DEF Subscription
  <2>3. subscriptions' = [subscriptions EXCEPT ![s] =
                             [subscriptions[s] EXCEPT !.status = "canceled"]]
    BY <1>7 DEF Cancels, cancelSubscription
  <2> HIDE DEF Sub
  <2>4. subscriptions' \in Seq(Sub)
    BY <2>1, <2>2, <2>3
  <2> QED BY <1>7, <2>4 DEF Cancels, TypeOK
<1>8. ASSUME Others PROVE T
  BY <1>8 DEF Others, TypeOK
<1> HIDE DEF T
<1>9. Kind
  BY Kinds
<1> QED BY <1>0, <1>1, <1>2, <1>3, <1>4, <1>5, <1>6, <1>7, <1>8, <1>9 DEF Kind

\* Every variable keeps its type.
THEOREM TypeCorrect == Spec => []TypeOK
BY TypeInit, TypeNext, PTL DEF Spec

-----------------------------------------------------------------------------
(* The limit of a minute *)

LEMMA Minutes ==
    ASSUME NEW t \in Nat, t > 0, NEW a \in Nat, NEW b \in Nat
    PROVE  /\ a \div t \in Nat
           /\ (a + t) \div t = a \div t + 1
           /\ (a + 1) \div t \in {a \div t, a \div t + 1}
           /\ b \div t > a \div t => b > a
OBVIOUS

\* The row of the current minute counts what was admitted, and beyond the limit
\* what was refused; it lives until the minute has passed; later minutes have none.
RateOf(k) ==
    Rpm[k[2]] > 0 =>
        /\ admitted[k] =< Rpm[k[2]]
        /\ k[3] > minute => buckets[k] = null /\ admitted[k] = 0
        /\ k[3] = minute =>
               IF buckets[k] = null THEN admitted[k] = 0
               ELSE /\ admitted[k] = IF buckets[k].count < Rpm[k[2]]
                                     THEN buckets[k].count ELSE Rpm[k[2]]
                    /\ buckets[k].expiresAt \div Ticks = minute + 1

KeyOf(c) == <<calls[c].principal, calls[c].action, calls[c].minute>>

RefusedOf(c) ==
    calls[c].at = "rate_limited" =>
        /\ calls[c].minute =< minute
        /\ Rpm[calls[c].action] > 0
        /\ admitted[KeyOf(c)] = Rpm[calls[c].action]

RateInv == (\A k \in Keys : RateOf(k)) /\ (\A c \in DOMAIN calls : RefusedOf(c))

LEMMA RateInit == Init => RateInv
BY RpmAssumption DEF Init, RateInv, RateOf, Keys

\* What a request of this minute finds, and leaves.
LEMMA Counted ==
    ASSUME TypeOK, RateInv, NEW p \in Principals, NEW a \in Actions, NEW sweep \in BOOLEAN,
           Rpm[a] > 0, rateBucketIncrement(<<p, a, minute>>, sweep)
    PROVE  LET key == <<p, a, minute>>
           IN  /\ key \in Keys
               /\ NextCount(key) = IF buckets[key] = null THEN 1 ELSE buckets[key].count + 1
               /\ NextCount(key) \in Nat
               /\ buckets'[key] # null
               /\ buckets'[key].count = NextCount(key)
               /\ buckets'[key].expiresAt \div Ticks = minute + 1
               /\ \A k \in Keys : k # key =>
                     \/ buckets'[k] = buckets[k]
                     \/ /\ buckets'[k] = null /\ buckets[k] # null
                        /\ buckets[k].expiresAt =< clock
<1> DEFINE key == <<p, a, minute>>
           Row == [count : Nat, expiresAt : Nat]
           new == [count     |-> IF Live(key) THEN buckets[key].count + 1 ELSE 1,
                   expiresAt |-> IF Live(key) THEN buckets[key].expiresAt ELSE clock + Ticks]
<1>1. key \in Keys /\ key[2] = a /\ key[3] = minute
  BY KeyMinute DEF Keys
<1>2. clock \in Nat /\ Ticks \in Nat /\ Ticks > 0 /\ minute \in Nat
  BY TicksAssumption, KeyMinute DEF TypeOK
<1>3. buckets[key] = null \/ buckets[key] \in Row
  BY <1>1 DEF TypeOK
<1>4. RateOf(key)
  BY <1>1 DEF RateInv
<1>5. Live(key) <=> buckets[key] # null
  <2>1. CASE buckets[key] = null
    BY <2>1 DEF Live
  <2>2. CASE buckets[key] # null
    <3>1. buckets[key].expiresAt \div Ticks = minute + 1 /\ buckets[key].expiresAt \in Nat
      BY <1>1, <1>3, <1>4, <2>2 DEF RateOf
    <3>2. buckets[key].expiresAt > clock
      BY <1>2, <3>1, Minutes DEF minute
    <3> QED BY <2>2, <3>2 DEF Live
  <2> QED BY <2>1, <2>2
<1>6. new \in Row /\ new.expiresAt \div Ticks = minute + 1 /\ new.count = NextCount(key)
  <2>1. CASE Live(key)
    BY <1>1, <1>3, <1>4, <1>5, <2>1 DEF RateOf, NextCount
  <2>2. CASE ~Live(key)
    <3>1. new = [count |-> 1, expiresAt |-> clock + Ticks] /\ NextCount(key) = 1
      BY <2>2 DEF NextCount
    <3>2. (clock + Ticks) \div Ticks = minute + 1 /\ clock + Ticks \in Nat
      BY <1>2, Minutes DEF minute
    <3> HIDE DEF new
    <3> QED BY <3>1, <3>2
  <2> QED BY <2>1, <2>2
<1>7. new # null /\ new.expiresAt > clock
  BY <1>2, <1>6, Minutes, NullAssumption DEF minute
<1>8. buckets \in [Keys -> Row \cup {null}]
  BY DEF TypeOK
<1>9. Increment(key) = [buckets EXCEPT ![key] = new]
  BY DEF Increment
<1>10. NextCount(key) = IF buckets[key] = null THEN 1 ELSE buckets[key].count + 1
  BY <1>5 DEF NextCount
<1>11. NextCount(key) \in Nat
  BY <1>6
<1> HIDE DEF new, key
<1>12. Increment(key) \in [Keys -> Row \cup {null}] /\ Increment(key)[key] = new
       /\ \A k \in Keys : k # key => Increment(key)[k] = buckets[k]
  BY <1>1, <1>6, <1>8, <1>9
<1>13. Swept(Increment(key))[key] = new
  <2>1. ~(new # null /\ new.expiresAt =< clock)
    BY <1>2, <1>6, <1>7
  <2> QED BY <1>1, <1>12, <2>1 DEF Swept
<1>14. buckets' = Increment(key) \/ buckets' = Swept(Increment(key))
  BY DEF rateBucketIncrement, key
<1>15. buckets'[key] = new
  BY <1>12, <1>13, <1>14
<1>16. ASSUME NEW k \in Keys, k # key
       PROVE  \/ buckets'[k] = buckets[k]
              \/ buckets'[k] = null /\ buckets[k] # null /\ buckets[k].expiresAt =< clock
  BY <1>12, <1>14, <1>16 DEF Swept
<1>17. /\ key \in Keys
       /\ NextCount(key) = IF buckets[key] = null THEN 1 ELSE buckets[key].count + 1
       /\ NextCount(key) \in Nat
       /\ buckets'[key] # null
       /\ buckets'[key].count = NextCount(key)
       /\ buckets'[key].expiresAt \div Ticks = minute + 1
       /\ \A k \in Keys : k # key =>
             \/ buckets'[k] = buckets[k]
             \/ buckets'[k] = null /\ buckets[k] # null /\ buckets[k].expiresAt =< clock
  BY <1>1, <1>6, <1>7, <1>10, <1>11, <1>15, <1>16
<1> QED BY <1>17 DEF key

LEMMA RateNext == TypeOK /\ RateInv /\ [Next]_vars => RateInv'
<1> SUFFICES ASSUME TypeOK, RateInv, [Next]_vars PROVE RateInv'
  OBVIOUS
<1>0. clock \in Nat /\ Ticks \in Nat /\ Ticks > 0 /\ minute \in Nat
      /\ \A a \in Actions : Rpm[a] \in Nat
  BY TicksAssumption, RpmAssumption, KeyMinute DEF TypeOK
<1>1. ASSUME NEW p \in Principals, NEW a \in Actions, NEW sweep \in BOOLEAN,
             Arrives(p, a, sweep)
      PROVE  RateInv'
  <2> DEFINE key == <<p, a, minute>>
             limit == Rpm[a] > 0 /\ NextCount(key) > Rpm[a]
             at == IF limit THEN "rate_limited" ELSE IF policy THEN "policy" ELSE "handler"
             call == [principal |-> p, action |-> a, minute |-> minute,
                      since |-> Len(signed), at |-> at, ran |-> at = "handler"]
  <2>1. key \in Keys /\ key[2] = a /\ key[3] = minute
    BY KeyMinute DEF Keys
  <2>2. /\ clock' = clock /\ minute' = minute
        /\ calls' = Append(calls, call)
        /\ admitted' = IF limit THEN admitted ELSE [admitted EXCEPT ![key] = admitted[key] + 1]
        /\ Rpm[a] > 0 => rateBucketIncrement(key, sweep)
        /\ Rpm[a] = 0 => buckets' = buckets
    BY <1>0, <1>1 DEF Arrives, minute
  <2>3. admitted \in [Keys -> Nat] /\ calls \in Seq(Call) /\ RateOf(key)
    BY <2>1 DEF TypeOK, RateInv
  <2>4. call.at = at /\ call.action = a /\ call.minute = minute
        /\ <<call.principal, call.action, call.minute>> = key
    OBVIOUS
  <2>5. at = "rate_limited" <=> limit
    OBVIOUS
  <2>6. Rpm[a] > 0 =>
            /\ NextCount(key) = IF buckets[key] = null THEN 1 ELSE buckets[key].count + 1
            /\ NextCount(key) \in Nat
            /\ buckets'[key] # null /\ buckets'[key].count = NextCount(key)
            /\ buckets'[key].expiresAt \div Ticks = minute + 1
            /\ \A k \in Keys : k # key =>
                  \/ buckets'[k] = buckets[k]
                  \/ buckets'[k] = null /\ buckets[k] # null /\ buckets[k].expiresAt =< clock
    BY <2>2, Counted
  <2>7. limit <=> Rpm[a] > 0 /\ NextCount(key) > Rpm[a]
    OBVIOUS
  <2> HIDE DEF limit, at, call, key
  <2>8. buckets[key] = null \/ (buckets[key].count \in Nat)
    BY <2>1 DEF TypeOK
  <2>9. /\ DOMAIN calls' = DOMAIN calls \cup {Len(calls) + 1}
        /\ \A c \in DOMAIN calls : calls'[c] = calls[c]
        /\ calls'[Len(calls) + 1] = call
    BY <2>2, <2>3
  \* What becomes of the admitted of a bucket that has a limit.
  <2>10. Rpm[a] > 0 =>
            /\ admitted'[key] =< Rpm[a]
            /\ admitted'[key] = IF NextCount(key) < Rpm[a] THEN NextCount(key) ELSE Rpm[a]
            /\ limit => admitted'[key] = Rpm[a] /\ admitted[key] = Rpm[a]
            /\ admitted[key] = Rpm[a] => limit
    <3> SUFFICES ASSUME Rpm[a] > 0
                 PROVE  /\ admitted'[key] =< Rpm[a]
                        /\ admitted'[key] = IF NextCount(key) < Rpm[a] THEN NextCount(key)
                                            ELSE Rpm[a]
                        /\ limit => admitted'[key] = Rpm[a] /\ admitted[key] = Rpm[a]
                        /\ admitted[key] = Rpm[a] => limit
      OBVIOUS
    <3>1. admitted[key] \in Nat /\ Rpm[a] \in Nat
      BY <1>0, <2>1, <2>3
    <3>2. admitted[key] = IF buckets[key] = null THEN 0
                          ELSE IF buckets[key].count < Rpm[a] THEN buckets[key].count ELSE Rpm[a]
      BY <2>1, <2>3 DEF RateOf
    <3>3. admitted'[key] = IF limit THEN admitted[key] ELSE admitted[key] + 1
      BY <2>1, <2>2, <2>3
    <3> QED BY <2>6, <2>7, <2>8, <3>1, <3>2, <3>3
  <2>11. \A k \in Keys : k # key => admitted'[k] = admitted[k]
    BY <2>1, <2>2, <2>3
  <2>12. ASSUME NEW k \in Keys PROVE RateOf(k)'
    <3>1. CASE k = key
      BY <2>1, <2>2, <2>6, <2>10, <3>1, <1>0 DEF RateOf
    <3>2. CASE k # key
      <4>1. RateOf(k) /\ admitted'[k] = admitted[k] /\ k[3] \in Nat
        BY <2>11, <3>2, BoundsAssumption, <1>0 DEF RateInv, Keys
      <4>2. \/ buckets'[k] = buckets[k]
            \/ buckets'[k] = null /\ buckets[k] # null /\ buckets[k].expiresAt =< clock
        BY <1>0, <2>1, <2>2, <2>6, <3>2
      <4>3. CASE buckets'[k] = buckets[k]
        BY <2>2, <4>1, <4>3 DEF RateOf
      <4>4. CASE buckets'[k] = null /\ buckets[k] # null /\ buckets[k].expiresAt =< clock
        <5>1. buckets[k].expiresAt \in Nat
          BY <4>4 DEF TypeOK
        <5>2. ~(buckets[k].expiresAt \div Ticks = minute + 1)
          BY <1>0, <4>4, <5>1, Minutes DEF minute
        <5> QED BY <2>2, <4>1, <4>4, <5>2 DEF RateOf
      <4> QED BY <4>2, <4>3, <4>4
    <3> QED BY <3>1, <3>2
  <2>13. ASSUME NEW c \in DOMAIN calls' PROVE RefusedOf(c)'
    <3>1. CASE c \in DOMAIN calls
      <4>1. calls'[c] = calls[c] /\ RefusedOf(c) /\ calls[c] \in Call
        BY <2>3, <2>9, <3>1 DEF RateInv
      <4>2. KeyOf(c) \in Keys /\ KeyOf(c)' = KeyOf(c) /\ KeyOf(c)[2] = calls[c].action
        BY <4>1 DEF KeyOf, Keys, Call
      <4>3. CASE KeyOf(c) = key
        <5>1. calls[c].action = a
          BY <2>1, <4>2, <4>3
        <5> QED BY <2>2, <2>10, <4>1, <4>2, <4>3, <5>1 DEF RefusedOf
      <4>4. CASE KeyOf(c) # key
        BY <2>2, <2>11, <4>1, <4>2, <4>4 DEF RefusedOf
      <4> QED BY <4>3, <4>4
    <3>2. CASE c = Len(calls) + 1
      <4>1. KeyOf(c)' = key /\ calls'[c] = call
        BY <2>4, <2>9, <3>2 DEF KeyOf
      <4> QED BY <1>0, <2>2, <2>4, <2>5, <2>7, <2>10, <4>1 DEF RefusedOf
    <3> QED BY <2>9, <3>1, <3>2
  <2> QED BY <2>12, <2>13 DEF RateInv, Keys
<1>2. ASSUME NEW c \in DOMAIN calls, UNCHANGED <<clock, buckets, admitted>>,
             NEW call, call.at # "rate_limited", calls' = [calls EXCEPT ![c] = call]
      PROVE  RateInv'
  <2>1. minute' = minute
    BY <1>2 DEF minute
  <2>2. \A k \in Keys : RateOf(k)'
    BY <1>2, <2>1 DEF RateInv, RateOf
  <2>3. ASSUME NEW d \in DOMAIN calls' PROVE RefusedOf(d)'
    <3>0. d \in DOMAIN calls /\ calls \in Seq(Call)
      BY <1>2 DEF TypeOK
    <3>1. CASE d = c
      BY <1>2, <3>0, <3>1 DEF RefusedOf
    <3>2. CASE d # c
      <4>1. calls'[d] = calls[d] /\ RefusedOf(d)
        BY <1>2, <3>0, <3>2 DEF RateInv
      <4> QED BY <1>2, <2>1, <4>1 DEF RefusedOf, KeyOf
    <3> QED BY <3>1, <3>2
  <2> QED BY <2>2, <2>3 DEF RateInv, Keys
<1>3. ASSUME NEW c \in DOMAIN calls, NEW at \in Places, NEW ran \in BOOLEAN,
             GoesOn(c, at, ran)
      PROVE  RateInv'
  <2>1. [calls[c] EXCEPT !.at = at, !.ran = ran].at # "rate_limited"
    <3>1. calls[c] \in Call
      BY DEF TypeOK
    <3> QED BY <1>3, <3>1 DEF GoesOn, Call
  <2> QED BY <1>2, <1>3, <2>1 DEF GoesOn
<1>4. ASSUME NEW c \in DOMAIN calls, NEW at \in DOMAIN ReceiptType, Completes(c, at)
      PROVE  RateInv'
  <2>1. [calls[c] EXCEPT !.at = at].at # "rate_limited"
    <3>1. calls[c] \in Call
      BY DEF TypeOK
    <3> QED BY <1>4, <3>1 DEF Completes, Call
  <2> QED BY <1>2, <1>4, <2>1 DEF Completes
<1>5. ASSUME Dies PROVE RateInv'
  <2>1. minute' = minute /\ UNCHANGED <<buckets, admitted>>
    BY <1>5 DEF Dies, minute, store, history
  <2>2. \A k \in Keys : RateOf(k)'
    BY <2>1 DEF RateInv, RateOf
  <2>3. ASSUME NEW d \in DOMAIN calls' PROVE RefusedOf(d)'
    <3>1. d \in DOMAIN calls /\ calls[d] \in Call
      BY <1>5 DEF Dies, TypeOK
    <3>2. calls'[d] = calls[d] \/ calls'[d] = [calls[d] EXCEPT !.at = "lost"]
      BY <1>5, <3>1 DEF Dies
    <3>3. CASE calls'[d] = [calls[d] EXCEPT !.at = "lost"]
      BY <3>1, <3>3 DEF RefusedOf, Call
    <3>4. CASE calls'[d] = calls[d]
      BY <2>1, <3>1, <3>4 DEF RateInv, RefusedOf, KeyOf
    <3> QED BY <3>2, <3>3, <3>4
  <2> QED BY <2>2, <2>3 DEF RateInv, Keys
<1>6. ASSUME UNCHANGED <<calls, buckets, admitted>>, clock' \in {clock, clock + 1}
      PROVE  RateInv'
  <2>1. minute' \in {minute, minute + 1}
    BY <1>0, <1>6, Minutes DEF minute
  <2>2. ASSUME NEW k \in Keys PROVE RateOf(k)'
    <3>1. k[3] \in Nat /\ RateOf(k)
      BY BoundsAssumption, <1>0 DEF RateInv, Keys
    <3> QED BY <1>0, <1>6, <2>1, <3>1 DEF RateOf
  <2>3. ASSUME NEW d \in DOMAIN calls' PROVE RefusedOf(d)'
    <3>1. d \in DOMAIN calls /\ calls[d] \in Call /\ RefusedOf(d)
      BY <1>6 DEF RateInv, TypeOK
    <3>2. calls[d].minute \in Nat
      BY <3>1, <1>0, BoundsAssumption DEF Call
    <3> QED BY <1>0, <1>6, <2>1, <3>1, <3>2 DEF RefusedOf, KeyOf
  <2> QED BY <2>2, <2>3 DEF RateInv, Keys
<1>7. Kind
  BY Kinds
<1> QED BY <1>1, <1>3, <1>4, <1>5, <1>6, <1>7 DEF Kind, Deletes, Subscribes, Cancels, Others

\* No more invocations of a minute get past the limit than it allows, and none is
\* refused before (handleInvoke, rateBucketIncrement).
THEOREM WithinLimit == Spec => []RateLimited
<1>1. RateInv /\ TypeOK => RateLimited
  BY DEF RateInv, RateOf, RefusedOf, KeyOf, RateLimited
<1>2. TypeOK /\ RateInv /\ [Next]_vars => (TypeOK /\ RateInv)'
  BY TypeNext, RateNext
<1> QED BY TypeInit, RateInit, <1>1, <1>2, PTL DEF Spec

-----------------------------------------------------------------------------
(* Each call and its receipt *)

IsSub(r) == r.type = "subscription"

SameSubject(r, q) == (IsSub(r) <=> IsSub(q)) /\ r.subject = q.subject

\* The receipts sg, the calls cs and the subscriptions of gs match: nothing has two
\* receipts, a receipt is that of a call that ended so or of one of gs, and every call
\* that ended so and every one of gs has one.
Unique(sg) == \A i, j \in DOMAIN sg : SameSubject(sg[i], sg[j]) => i = j

Fits(r, cs, gs) == IF IsSub(r) THEN r.subject \in gs
                   ELSE LET c == r.subject
                       IN  /\ c \in DOMAIN cs /\ cs[c].at \in DOMAIN ReceiptType
                           /\ r.type = ReceiptType[cs[c].at]
                           /\ r.principal = cs[c].principal

CallHasOne(sg, c) == \E i \in DOMAIN sg : ~IsSub(sg[i]) /\ sg[i].subject = c
SubHasOne(sg, s)  == \E i \in DOMAIN sg : IsSub(sg[i]) /\ sg[i].subject = s

Matched(sg, cs, gs) ==
    /\ Unique(sg)
    /\ \A i \in DOMAIN sg : Fits(sg[i], cs, gs)
    /\ \A c \in DOMAIN cs : cs[c].at \in DOMAIN ReceiptType => CallHasOne(sg, c)
    /\ \A s \in gs : SubHasOne(sg, s)

Granted == {s \in DOMAIN subscriptions : subscriptions[s].granted}

\* Whether the handler of a call has run.
RanOf(k) == /\ k.at \in {"success", "error", "unsent", "handler"} => k.ran
            /\ k.at \in {"policy", "denied", "policy_error", "rate_limited"} => ~k.ran

ReceiptInv == /\ Matched(signed, calls, Granted)
              /\ \A c \in DOMAIN calls : RanOf(calls[c])

LEMMA ReceiptInit == Init => ReceiptInv
BY DEF Init, ReceiptInv, Matched, Unique, Granted

\* Calls that have no receipt may come, and go on without one.
LEMMA MatchedCalls ==
    ASSUME NEW sg, NEW cs, NEW new, NEW gs, Matched(sg, cs, gs),
           DOMAIN cs \subseteq DOMAIN new,
           \A c \in DOMAIN new : \/ c \in DOMAIN cs /\ new[c] = cs[c]
                                 \/ /\ new[c].at \notin DOMAIN ReceiptType
                                    /\ c \in DOMAIN cs => cs[c].at \notin DOMAIN ReceiptType
    PROVE  Matched(sg, new, gs)
BY DEF Matched, Unique, Fits, CallHasOne, SubHasOne

\* A call ends with a receipt.
LEMMA MatchedCompletes ==
    ASSUME NEW sg \in Seq(Receipt), NEW cs \in Seq(Call), NEW gs, Matched(sg, cs, gs),
           NEW c \in DOMAIN cs, cs[c].at \notin DOMAIN ReceiptType,
           NEW k \in Call, k.at \in DOMAIN ReceiptType,
           NEW r \in Receipt, r.subject = c, r.principal = k.principal,
           r.type = ReceiptType[k.at]
    PROVE  Matched(Append(sg, r), [cs EXCEPT ![c] = k], gs)
<1> DEFINE m == Len(sg)
           new == Append(sg, r)
           ends == [cs EXCEPT ![c] = k]
<1>0. /\ m \in Nat /\ DOMAIN sg = 1 .. m /\ DOMAIN new = 1 .. m + 1
      /\ \A i \in 1 .. m : new[i] = sg[i]
      /\ DOMAIN ends = DOMAIN cs /\ \A d \in DOMAIN cs : d # c => ends[d] = cs[d]
      /\ ends[c] = k /\ new[m + 1] = r
  OBVIOUS
<1> HIDE DEF m, new, ends
<1>1. \A i \in 1 .. m + 1 : i \in 1 .. m \/ i = m + 1
  BY <1>0
<1>2. ~IsSub(new[m + 1])
  BY <1>0 DEF IsSub, ReceiptType
<1>3. \A i \in 1 .. m : ~IsSub(sg[i]) => sg[i].subject # c
  BY <1>0 DEF Matched, Fits
<1>4. ASSUME NEW i \in 1 .. m + 1
      PROVE  Fits(new[i], ends, gs)
  <2>1. CASE i = m + 1
    BY <1>0, <1>2, <2>1 DEF Fits
  <2>2. CASE i \in 1 .. m
    BY <1>0, <1>3, <2>2 DEF Matched, Fits
  <2> QED BY <1>1, <2>1, <2>2
<1>5. ASSUME NEW d \in DOMAIN ends, ends[d].at \in DOMAIN ReceiptType
      PROVE  CallHasOne(new, d)
  <2>1. CASE d = c
    BY <1>0, <1>2, <2>1 DEF CallHasOne
  <2>2. CASE d # c
    <3>1. PICK i \in 1 .. m : ~IsSub(sg[i]) /\ sg[i].subject = d
      BY <1>0, <1>5, <2>2 DEF Matched, CallHasOne
    <3> QED BY <1>0, <3>1 DEF CallHasOne
  <2> QED BY <2>1, <2>2
<1>6. ASSUME NEW s \in gs
      PROVE  SubHasOne(new, s)
  <2>1. PICK i \in 1 .. m : IsSub(sg[i]) /\ sg[i].subject = s
    BY <1>0 DEF Matched, SubHasOne
  <2> QED BY <1>0, <2>1 DEF SubHasOne
<1>7. ASSUME NEW i \in 1 .. m + 1, NEW j \in 1 .. m + 1,
             SameSubject(new[i], new[j])
      PROVE  i = j
  <2>1. CASE i \in 1 .. m /\ j \in 1 .. m
    BY <1>0, <1>7, <2>1 DEF Matched, Unique
  <2>2. CASE i \in 1 .. m /\ j = m + 1
    BY <1>0, <1>2, <1>3, <1>7, <2>2 DEF SameSubject, IsSub
  <2>3. CASE i = m + 1 /\ j \in 1 .. m
    BY <1>0, <1>2, <1>3, <1>7, <2>3 DEF SameSubject, IsSub
  <2> QED BY <1>1, <2>1, <2>2, <2>3
<1>8. Matched(new, ends, gs)
  BY <1>0, <1>4, <1>5, <1>6, <1>7 DEF Matched, Unique
<1> QED BY <1>8 DEF new, ends

\* A subscription is granted.
LEMMA MatchedSubscribes ==
    ASSUME NEW sg \in Seq(Receipt), NEW cs, NEW gs, Matched(sg, cs, gs),
           NEW r \in Receipt, r.type = "subscription", r.subject \notin gs
    PROVE  Matched(Append(sg, r), cs, gs \cup {r.subject})
<1> DEFINE m == Len(sg)
           new == Append(sg, r)
<1>0. /\ m \in Nat /\ DOMAIN sg = 1 .. m /\ DOMAIN new = 1 .. m + 1
      /\ \A i \in 1 .. m : new[i] = sg[i]
      /\ new[m + 1] = r
  OBVIOUS
<1> HIDE DEF m, new
<1>1. \A i \in 1 .. m + 1 : i \in 1 .. m \/ i = m + 1
  BY <1>0
<1>2. IsSub(new[m + 1])
  BY <1>0 DEF IsSub
<1>3. \A i \in 1 .. m : IsSub(sg[i]) => sg[i].subject # r.subject /\ sg[i].subject \in gs
  BY <1>0 DEF Matched, Fits
<1>4. ASSUME NEW i \in 1 .. m + 1
      PROVE  Fits(new[i], cs, gs \cup {r.subject})
  <2>1. CASE i = m + 1
    BY <1>0, <1>2, <2>1 DEF Fits
  <2>2. CASE i \in 1 .. m
    BY <1>0, <1>3, <2>2 DEF Matched, Fits
  <2> QED BY <1>1, <2>1, <2>2
<1>5. ASSUME NEW d \in DOMAIN cs, cs[d].at \in DOMAIN ReceiptType
      PROVE  CallHasOne(new, d)
  <2>1. PICK i \in 1 .. m : ~IsSub(sg[i]) /\ sg[i].subject = d
    BY <1>0, <1>5 DEF Matched, CallHasOne
  <2> QED BY <1>0, <2>1 DEF CallHasOne
<1>6. ASSUME NEW s \in gs \cup {r.subject}
      PROVE  SubHasOne(new, s)
  <2>1. CASE s = r.subject
    BY <1>0, <1>2, <2>1 DEF SubHasOne
  <2>2. CASE s \in gs
    <3>1. PICK i \in 1 .. m : IsSub(sg[i]) /\ sg[i].subject = s
      BY <1>0, <2>2 DEF Matched, SubHasOne
    <3> QED BY <1>0, <3>1 DEF SubHasOne
  <2> QED BY <2>1, <2>2
<1>7. ASSUME NEW i \in 1 .. m + 1, NEW j \in 1 .. m + 1,
             SameSubject(new[i], new[j])
      PROVE  i = j
  <2>1. CASE i \in 1 .. m /\ j \in 1 .. m
    BY <1>0, <1>7, <2>1 DEF Matched, Unique
  <2>2. CASE i \in 1 .. m /\ j = m + 1
    BY <1>0, <1>2, <1>3, <1>7, <2>2 DEF SameSubject, IsSub
  <2>3. CASE i = m + 1 /\ j \in 1 .. m
    BY <1>0, <1>2, <1>3, <1>7, <2>3 DEF SameSubject, IsSub
  <2> QED BY <1>1, <2>1, <2>2, <2>3
<1>8. Matched(new, cs, gs \cup {r.subject})
  BY <1>0, <1>4, <1>5, <1>6, <1>7 DEF Matched, Unique
<1> QED BY <1>8 DEF new

\* A subscription is new, and the others stay.
LEMMA SubscribeEffect ==
    ASSUME TypeOK, NEW p \in Principals, NEW granted \in BOOLEAN, Subscribes(p, granted)
    PROVE  /\ UNCHANGED calls /\ Len(subscriptions') = Len(subscriptions) + 1
           /\ Granted' = IF granted THEN Granted \cup {Len(subscriptions) + 1} ELSE Granted
           /\ Len(subscriptions) + 1 \notin Granted
<1> DEFINE n == Len(subscriptions)
           sub == [principal |-> p, status |-> "active", granted |-> granted]
<1>1. subscriptions \in Seq(Subscription) /\ subscriptions' = Append(subscriptions, sub)
      /\ UNCHANGED calls
  BY DEF Subscribes, insertSubscription, TypeOK
<1>2. sub.granted = granted
  OBVIOUS
<1> HIDE DEF sub
<1>3. /\ n \in Nat /\ DOMAIN subscriptions = 1 .. n /\ DOMAIN subscriptions' = 1 .. n + 1
      /\ Len(subscriptions') = n + 1
      /\ \A t \in 1 .. n : subscriptions'[t] = subscriptions[t]
      /\ subscriptions'[n + 1] = sub
  BY <1>1
<1> HIDE DEF n
<1>4. n + 1 \notin 1 .. n /\ 1 .. n + 1 = (1 .. n) \cup {n + 1}
  BY <1>3
<1>5. Granted = {t \in 1 .. n : subscriptions[t].granted}
      /\ Granted' = {t \in (1 .. n) \cup {n + 1} : subscriptions'[t].granted}
  BY <1>3, <1>4 DEF Granted
<1> QED BY <1>1, <1>2, <1>3, <1>4, <1>5 DEF n

LEMMA CancelEffect ==
    ASSUME TypeOK, NEW s \in DOMAIN subscriptions, Cancels(s)
    PROVE  Granted' = Granted
<1>1. subscriptions \in Seq(Subscription)
  BY DEF TypeOK
<1>2. subscriptions[s] \in Subscription
  BY <1>1
<1>3. [subscriptions[s] EXCEPT !.status = "canceled"].granted = subscriptions[s].granted
  BY <1>2 DEF Subscription
<1>4. subscriptions' = [subscriptions EXCEPT ![s] =
                           [subscriptions[s] EXCEPT !.status = "canceled"]]
  BY DEF Cancels, cancelSubscription
<1>5. DOMAIN subscriptions' = DOMAIN subscriptions
      /\ \A t \in DOMAIN subscriptions : subscriptions'[t].granted = subscriptions[t].granted
  BY <1>3, <1>4
<1> QED BY <1>5 DEF Granted

LEMMA ReceiptNext == TypeOK /\ ReceiptInv /\ [Next]_vars => ReceiptInv'
<1> SUFFICES ASSUME TypeOK, ReceiptInv, [Next]_vars PROVE ReceiptInv'
  OBVIOUS
<1>0. /\ Matched(signed, calls, Granted) /\ \A c \in DOMAIN calls : RanOf(calls[c])
      /\ Len(subscriptions) \in Nat /\ calls \in Seq(Call)
      /\ \A c \in DOMAIN calls : calls[c] \in Call /\ c \in Nat
  BY DEF TypeOK, ReceiptInv
<1>1. ASSUME UNCHANGED <<signed, subscriptions>>, DOMAIN calls \subseteq DOMAIN calls',
             \A c \in DOMAIN calls' :
                 \/ c \in DOMAIN calls /\ calls'[c] = calls[c]
                 \/ /\ calls'[c].at \notin DOMAIN ReceiptType /\ RanOf(calls'[c])
                    /\ c \in DOMAIN calls => calls[c].at \notin DOMAIN ReceiptType
      PROVE  ReceiptInv'
  <2>1. Matched(signed, calls', Granted)
    BY <1>0, <1>1, MatchedCalls
  <2>2. \A c \in DOMAIN calls' : RanOf(calls'[c])
    BY <1>0, <1>1
  <2> QED BY <1>1, <2>1, <2>2 DEF ReceiptInv, Granted
<1>2. ASSUME NEW p \in Principals, NEW a \in Actions, NEW sweep \in BOOLEAN,
             Arrives(p, a, sweep)
      PROVE  ReceiptInv'
  <2> DEFINE limit == Rpm[a] > 0 /\ NextCount(<<p, a, minute>>) > Rpm[a]
             at == IF limit THEN "rate_limited" ELSE IF policy THEN "policy" ELSE "handler"
             call == [principal |-> p, action |-> a, minute |-> minute,
                      since |-> Len(signed), at |-> at, ran |-> at = "handler"]
  <2>1. call.at \notin DOMAIN ReceiptType /\ RanOf(call)
    BY DEF ReceiptType, RanOf
  <2>2. calls' = Append(calls, call) /\ UNCHANGED <<signed, subscriptions>>
    BY <1>2 DEF Arrives
  <2> HIDE DEF call
  <2> QED BY <1>0, <1>1, <2>1, <2>2
<1>3. ASSUME NEW c \in DOMAIN calls, NEW at \in Places, NEW ran \in BOOLEAN, GoesOn(c, at, ran)
      PROVE  ReceiptInv'
  <2> DEFINE call == [calls[c] EXCEPT !.at = at, !.ran = ran]
  <2>1. call.at \notin DOMAIN ReceiptType /\ RanOf(call) /\ calls[c].at \notin DOMAIN ReceiptType
    <3>1. calls[c] \in Call /\ RanOf(calls[c])
      BY <1>0
    <3>2. call.at = at /\ call.ran = ran
      BY <3>1 DEF Call
    <3> QED BY <1>3, <3>1, <3>2 DEF GoesOn, ReceiptType, RanOf
  <2>2. calls' = [calls EXCEPT ![c] = call] /\ UNCHANGED <<signed, subscriptions>>
    BY <1>3 DEF GoesOn
  <2> HIDE DEF call
  <2> QED BY <1>0, <1>1, <2>1, <2>2
<1>4. ASSUME NEW c \in DOMAIN calls, NEW at \in DOMAIN ReceiptType, Completes(c, at)
      PROVE  ReceiptInv'
  <2> DEFINE call == [calls[c] EXCEPT !.at = at]
  <2>1. /\ call.at = at /\ RanOf(call) /\ calls[c].at \notin DOMAIN ReceiptType
        /\ call.principal = calls[c].principal /\ calls[c].principal \in Principals
    <3>1. calls[c] \in Call /\ RanOf(calls[c])
      BY <1>0
    <3> QED BY <1>4, <3>1 DEF Completes, ReceiptType, RanOf, Call
  <2>2. calls' = [calls EXCEPT ![c] = call] /\ UNCHANGED subscriptions
    BY <1>4 DEF Completes
  <2>3. call \in Call /\ c \in Nat /\ signed \in Seq(Receipt) /\ ReceiptType[at] = ReceiptType[call.at]
    <3>1. calls[c] \in Call /\ at \in Places /\ signed \in Seq(Receipt) /\ c \in Nat
      BY <1>0 DEF Places, TypeOK
    <3>2. call \in Call
      BY <3>1 DEF Call
    <3> QED BY <2>1, <3>1, <3>2
  <2> DEFINE r == [type |-> ReceiptType[at], principal |-> calls[c].principal,
                   subject |-> c, previous |-> chainTip]
  <2>4. r \in Receipt /\ r.subject = c /\ r.principal = call.principal /\ r.type = ReceiptType[call.at]
    BY <2>1, <2>3 DEF Receipt, TypeOK, genesis, ReceiptType
  <2>5. signed' = Append(signed, r)
    BY <1>4 DEF Completes, persistReceipt, Cited
  <2> HIDE DEF call, r
  <2>6. Matched(Append(signed, r), [calls EXCEPT ![c] = call], Granted)
    BY <1>0, <2>1, <2>3, <2>4, MatchedCompletes
  <2>7. \A d \in DOMAIN calls' : RanOf(calls'[d])
    BY <1>0, <2>1, <2>2
  <2> QED BY <2>2, <2>5, <2>6, <2>7 DEF ReceiptInv, Granted
<1>5. ASSUME Dies PROVE ReceiptInv'
  <2>1. ASSUME NEW c \in DOMAIN calls'
        PROVE  \/ c \in DOMAIN calls /\ calls'[c] = calls[c]
               \/ /\ calls'[c].at \notin DOMAIN ReceiptType /\ RanOf(calls'[c])
                  /\ c \in DOMAIN calls => calls[c].at \notin DOMAIN ReceiptType
    <3>1. c \in DOMAIN calls /\ calls[c] \in Call
      BY <1>0, <1>5 DEF Dies
    <3>2. [calls[c] EXCEPT !.at = "lost"].at = "lost"
      BY <3>1 DEF Call
    <3> QED BY <1>5, <3>1, <3>2 DEF Dies, ReceiptType, RanOf
  <2>2. UNCHANGED <<signed, subscriptions>> /\ DOMAIN calls' = DOMAIN calls
    BY <1>5 DEF Dies, store, history
  <2> QED BY <1>1, <2>1, <2>2
<1>6. ASSUME NEW p \in Principals, NEW granted \in BOOLEAN, Subscribes(p, granted)
      PROVE  ReceiptInv'
  <2> DEFINE s == Len(subscriptions) + 1
             r == [type |-> "subscription", principal |-> p, subject |-> s, previous |-> chainTip]
  <2>1. /\ UNCHANGED calls /\ Len(subscriptions') = s
        /\ Granted' = IF granted THEN Granted \cup {s} ELSE Granted
        /\ s \notin Granted
    BY <1>6, SubscribeEffect
  <2>2. CASE ~ granted
    BY <1>0, <1>6, <2>1, <2>2 DEF ReceiptInv, Subscribes
  <2>3. CASE granted
    <3>1. /\ r \in Receipt /\ r.type = "subscription" /\ r.subject = s
          /\ signed \in Seq(Receipt)
      BY <1>0 DEF Receipt, TypeOK, genesis
    <3>2. signed' = Append(signed, r)
      BY <1>6, <2>1, <2>3 DEF Subscribes, persistReceipt, Cited
    <3> HIDE DEF r, s
    <3>3. Matched(Append(signed, r), calls, Granted \cup {s})
      BY <1>0, <2>1, <3>1, MatchedSubscribes
    <3> QED BY <1>0, <2>1, <2>3, <3>2, <3>3 DEF ReceiptInv
  <2> QED BY <2>2, <2>3
<1>7. ASSUME NEW s \in DOMAIN subscriptions, Cancels(s) PROVE ReceiptInv'
  <2>1. UNCHANGED <<signed, calls>> /\ Granted' = Granted
    BY <1>7, CancelEffect DEF Cancels
  <2> QED BY <1>0, <2>1 DEF ReceiptInv
<1>8. Kind
  BY Kinds
<1> QED BY <1>1, <1>2, <1>3, <1>4, <1>5, <1>6, <1>7, <1>8 DEF Kind, Deletes, Others

\* Each call has the one receipt its outcome calls for, or none, and each subscription
\* that was granted has one, however the calls overlap (handleInvoke, handleSubscribe).
THEOREM Receipted == Spec => []EachHasItsReceipt
<1>1. TypeOK /\ ReceiptInv => EachHasItsReceipt
  <2> SUFFICES ASSUME TypeOK, ReceiptInv PROVE EachHasItsReceipt
    OBVIOUS
  <2>0. Matched(signed, calls, Granted)
    BY DEF ReceiptInv
  <2>1. ASSUME NEW c \in DOMAIN calls, calls[c].at \in DOMAIN ReceiptType
        PROVE  \E i \in DOMAIN signed : /\ ReceiptsOf(c) = {i}
                                        /\ signed[i].type = ReceiptType[calls[c].at]
                                        /\ signed[i].principal = calls[c].principal
    <3>1. PICK i \in DOMAIN signed : ~IsSub(signed[i]) /\ signed[i].subject = c
      BY <2>0, <2>1 DEF Matched, CallHasOne
    <3>2. ReceiptsOf(c) = {i}
      BY <2>0, <3>1 DEF Matched, Unique, ReceiptsOf, IsSub, SameSubject
    <3> QED BY <2>0, <3>1, <3>2 DEF Matched, Fits
  <2>2. ASSUME NEW c \in DOMAIN calls, calls[c].at \notin DOMAIN ReceiptType
        PROVE  ReceiptsOf(c) = {}
    BY <2>0, <2>2 DEF Matched, Fits, ReceiptsOf, IsSub
  <2>3. ASSUME NEW s \in DOMAIN subscriptions, subscriptions[s].granted
        PROVE  \E i \in DOMAIN signed :
                   {j \in DOMAIN signed : signed[j].type = "subscription"
                                          /\ signed[j].subject = s} = {i}
    <3>1. PICK i \in DOMAIN signed : IsSub(signed[i]) /\ signed[i].subject = s
      BY <2>0, <2>3 DEF Matched, SubHasOne, Granted
    <3>2. {j \in DOMAIN signed : signed[j].type = "subscription" /\ signed[j].subject = s} = {i}
      BY <2>0, <3>1 DEF Matched, Unique, IsSub, SameSubject
    <3> QED BY <3>2
  <2>4. ASSUME NEW s \in DOMAIN subscriptions, ~ subscriptions[s].granted
        PROVE  {j \in DOMAIN signed : signed[j].type = "subscription"
                                      /\ signed[j].subject = s} = {}
    BY <2>0, <2>4 DEF Matched, Fits, IsSub, Granted
  <2>5. \A c \in DOMAIN calls : RanOf(calls[c])
    BY DEF ReceiptInv
  <2> QED BY <2>1, <2>2, <2>3, <2>4, <2>5 DEF EachHasItsReceipt, RanOf
<1>2. TypeOK /\ ReceiptInv /\ [Next]_vars => (TypeOK /\ ReceiptInv)'
  BY TypeNext, ReceiptNext
<1> QED BY TypeInit, ReceiptInit, <1>1, <1>2, PTL DEF Spec

-----------------------------------------------------------------------------
(* The store *)

\* The steps that sign, delete or change subscriptions.
LEMMA Signers ==
    ASSUME Kind
    PROVE  /\ \/ \E c \in DOMAIN calls, at \in DOMAIN ReceiptType : Completes(c, at)
              \/ \E p \in Principals : Deletes(p) \/ Subscribes(p, TRUE)
              \/ UNCHANGED <<signed, receipts, chainTip, erased>>
           /\ \/ \E p \in Principals, granted \in BOOLEAN : Subscribes(p, granted)
              \/ \E s \in DOMAIN subscriptions : Cancels(s)
              \/ UNCHANGED subscriptions
<1>1. ASSUME NEW p \in Principals, NEW a \in Actions, NEW sweep \in BOOLEAN, Arrives(p, a, sweep)
      PROVE  UNCHANGED <<signed, receipts, chainTip, erased, subscriptions>>
  BY <1>1 DEF Arrives
<1>2. ASSUME NEW c, NEW at, NEW ran, GoesOn(c, at, ran)
      PROVE  UNCHANGED <<signed, receipts, chainTip, erased, subscriptions>>
  BY <1>2 DEF GoesOn
<1>3. ASSUME NEW c, NEW at, Completes(c, at) PROVE UNCHANGED subscriptions
  BY <1>3 DEF Completes
<1>4. ASSUME Dies PROVE UNCHANGED <<signed, receipts, chainTip, erased, subscriptions>>
  BY <1>4 DEF Dies, store, history
<1>5. ASSUME NEW p, Deletes(p) PROVE UNCHANGED subscriptions
  BY <1>5 DEF Deletes
<1>6. ASSUME NEW s, Cancels(s) PROVE UNCHANGED <<signed, receipts, chainTip, erased>>
  BY <1>6 DEF Cancels
<1>7. ASSUME Others PROVE UNCHANGED <<signed, receipts, chainTip, erased, subscriptions>>
  BY <1>7 DEF Others
<1>8. ASSUME NEW p \in Principals, NEW granted \in BOOLEAN, Subscribes(p, granted)
      PROVE  Subscribes(p, TRUE) \/ UNCHANGED <<signed, receipts, chainTip, erased>>
  BY <1>8 DEF Subscribes
<1> QED BY <1>1, <1>2, <1>3, <1>4, <1>5, <1>6, <1>7, <1>8 DEF Kind

\* What is stored is what was signed, but for what principals had erased, whatever
\* was in flight when they did (deleteByPrincipal).
THEOREM StoredOrErased == Spec => []StoredUnlessErased
<1>1. Init => StoredUnlessErased
  BY DEF Init, StoredUnlessErased
<1>2. TypeOK /\ StoredUnlessErased /\ [Next]_vars => StoredUnlessErased'
  <2> SUFFICES ASSUME TypeOK, StoredUnlessErased, [Next]_vars PROVE StoredUnlessErased'
    OBVIOUS
  <2>1. ASSUME NEW type \in {"invocation", "invocation_error", "invocation_denied", "subscription"},
               NEW p \in Principals, NEW subject \in Nat, NEW since,
               persistReceipt(type, p, subject, since), UNCHANGED erased
        PROVE  StoredUnlessErased'
    <3>1. /\ Len(signed) \in Nat /\ DOMAIN signed = 1 .. Len(signed)
          /\ DOMAIN signed' = 1 .. Len(signed) + 1
          /\ receipts' = receipts \cup {Len(signed) + 1}
      BY <2>1, PersistEffect
    <3>2. 1 .. Len(signed) + 1 = (1 .. Len(signed)) \cup {Len(signed) + 1}
      BY <3>1
    <3>3. Len(signed) + 1 \notin erased
      BY <3>1 DEF TypeOK
    <3> QED BY <2>1, <3>1, <3>2, <3>3 DEF StoredUnlessErased
  <2>2. ASSUME NEW c \in DOMAIN calls, NEW at \in DOMAIN ReceiptType, Completes(c, at)
        PROVE  StoredUnlessErased'
    <3>1. calls[c].principal \in Principals /\ c \in Nat
      <4>1. calls \in Seq(Call)
        BY DEF TypeOK
      <4>2. calls[c] \in Call /\ c \in Nat
        BY <4>1
      <4> QED BY <4>2 DEF Call
    <3>2. ReceiptType[at] \in {"invocation", "invocation_error", "invocation_denied"}
      BY DEF ReceiptType
    <3> QED BY <2>1, <2>2, <3>1, <3>2 DEF Completes
  <2>3. ASSUME NEW p \in Principals, Subscribes(p, TRUE) PROVE StoredUnlessErased'
    <3>1. Len(subscriptions') \in Nat
      BY <2>3 DEF Subscribes, insertSubscription, TypeOK
    <3> QED BY <2>1, <2>3, <3>1 DEF Subscribes
  <2>4. ASSUME NEW p \in Principals, Deletes(p) PROVE StoredUnlessErased'
    BY <2>4 DEF Deletes, deleteByPrincipal, Erasable, StoredUnlessErased
  <2>5. ASSUME UNCHANGED <<signed, receipts, erased>> PROVE StoredUnlessErased'
    BY <2>5 DEF StoredUnlessErased
  <2> QED BY <2>2, <2>3, <2>4, <2>5, Kinds, Signers
<1> QED BY TypeInit, TypeNext, <1>1, <1>2, PTL DEF Spec

\* Each call has the one receipt its outcome calls for, or none, and what was signed is in
\* the store unless it was erased.
THEOREM KeepsReceipts == Spec => []ReceiptsKept
BY Receipted, StoredOrErased, PTL DEF ReceiptsKept

-----------------------------------------------------------------------------
(* The chain *)

BoundInv == Len(calls) =< MaxCalls /\ Len(subscriptions) =< MaxRecords

LEMMA BoundInit == Init => BoundInv
BY BoundsAssumption DEF Init, BoundInv

LEMMA BoundNext == TypeOK /\ BoundInv /\ [Next]_vars => BoundInv'
<1> SUFFICES ASSUME TypeOK, BoundInv, [Next]_vars PROVE BoundInv'
  OBVIOUS
<1>0. /\ calls \in Seq(Call) /\ subscriptions \in Seq(Subscription)
      /\ incidents \in Nat
      /\ MaxCalls \in Nat /\ MaxRecords \in Nat
  BY BoundsAssumption DEF TypeOK
<1>1. ASSUME NEW p \in Principals, NEW a \in Actions, NEW sweep \in BOOLEAN, Arrives(p, a, sweep)
      PROVE  BoundInv'
  <2>1. Len(calls') = Len(calls) + 1 /\ Len(calls) < MaxCalls /\ UNCHANGED subscriptions
    BY <1>0, <1>1 DEF Arrives
  <2> QED BY <1>0, <2>1 DEF BoundInv
<1>2. ASSUME DOMAIN calls' = DOMAIN calls, calls' \in Seq(Call), UNCHANGED subscriptions
      PROVE  BoundInv'
  <2>1. Len(calls') = Len(calls)
    BY <1>0, <1>2
  <2> QED BY <1>2, <2>1 DEF BoundInv
<1>3. calls' \in Seq(Call)
  BY TypeNext DEF TypeOK
<1>4. ASSUME NEW c \in DOMAIN calls, \/ \E at \in Places, ran \in BOOLEAN : GoesOn(c, at, ran)
                                     \/ \E at \in DOMAIN ReceiptType : Completes(c, at)
      PROVE  BoundInv'
  <2>1. ASSUME NEW at, NEW ran, GoesOn(c, at, ran)
        PROVE  DOMAIN calls' = DOMAIN calls /\ UNCHANGED subscriptions
    BY <1>0, <2>1 DEF GoesOn
  <2>2. ASSUME NEW at, Completes(c, at)
        PROVE  DOMAIN calls' = DOMAIN calls /\ UNCHANGED subscriptions
    BY <1>0, <2>2 DEF Completes
  <2> QED BY <1>2, <1>3, <1>4, <2>1, <2>2
<1>5. ASSUME Dies PROVE BoundInv'
  <2>1. DOMAIN calls' = DOMAIN calls /\ UNCHANGED subscriptions
    BY <1>5 DEF Dies, store, history
  <2> QED BY <1>2, <1>3, <2>1
<1>6. ASSUME NEW p \in Principals, NEW granted \in BOOLEAN, Subscribes(p, granted)
      PROVE  BoundInv'
  <2>1. /\ Len(subscriptions') = Len(subscriptions) + 1 /\ Len(subscriptions) + incidents < MaxRecords
        /\ UNCHANGED calls
    BY <1>6, SubscribeEffect DEF Subscribes
  <2> QED BY <1>0, <2>1 DEF BoundInv
<1>7. ASSUME NEW s \in DOMAIN subscriptions, Cancels(s) PROVE BoundInv'
  <2>1. Len(subscriptions') = Len(subscriptions) /\ UNCHANGED calls
    BY <1>0, <1>7 DEF Cancels, cancelSubscription
  <2> QED BY <2>1 DEF BoundInv
<1>8. ASSUME UNCHANGED <<calls, subscriptions>> PROVE BoundInv'
  BY <1>8 DEF BoundInv
<1>9. Kind
  BY Kinds
<1> QED BY <1>1, <1>4, <1>5, <1>6, <1>7, <1>8, <1>9 DEF Kind, Deletes, Others

\* There are no more receipts than calls and subscriptions.
LEMMA FewReceipts ==
    ASSUME NEW sg \in Seq(Receipt), NEW cs \in Seq(Call), NEW gs, Matched(sg, cs, gs),
           NEW a \in Nat, NEW b \in Nat, Len(cs) =< a, gs \subseteq 1 .. b
    PROVE  Len(sg) =< a + b
<1> DEFINE m == Len(sg)
           f == [i \in 1 .. m |-> IF IsSub(sg[i]) THEN a + sg[i].subject ELSE sg[i].subject]
<1>0. m \in Nat /\ DOMAIN sg = 1 .. m /\ DOMAIN cs = 1 .. Len(cs) /\ Len(cs) \in Nat
  OBVIOUS
<1>1. ASSUME NEW i \in 1 .. m
      PROVE  IF IsSub(sg[i]) THEN sg[i].subject \in 1 .. b ELSE sg[i].subject \in 1 .. a
  <2>1. Fits(sg[i], cs, gs)
    BY <1>0 DEF Matched
  <2> QED BY <1>0, <2>1 DEF Fits
<1>2. f \in [1 .. m -> 1 .. a + b]
  BY <1>1
<1>3. ASSUME NEW i \in 1 .. m, NEW j \in 1 .. m, f[i] = f[j]
      PROVE  i = j
  <2>1. CASE IsSub(sg[i]) /\ IsSub(sg[j])
    <3>1. sg[i].subject = sg[j].subject
      BY <1>1, <1>3, <2>1
    <3>2. SameSubject(sg[i], sg[j])
      BY <2>1, <3>1 DEF SameSubject
    <3> QED BY <1>0, <3>2 DEF Matched, Unique
  <2>2. CASE ~IsSub(sg[i]) /\ ~IsSub(sg[j])
    <3>1. sg[i].subject = sg[j].subject
      <4>1. f[i] = sg[i].subject /\ f[j] = sg[j].subject
        BY <2>2, Zenon
      <4> QED BY <1>3, <4>1
    <3>2. SameSubject(sg[i], sg[j])
      BY <2>2, <3>1 DEF SameSubject
    <3> QED BY <1>0, <3>2 DEF Matched, Unique
  <2>3. CASE IsSub(sg[i]) /\ ~IsSub(sg[j])
    BY <1>1, <1>3, <2>3
  <2>4. CASE ~IsSub(sg[i]) /\ IsSub(sg[j])
    BY <1>1, <1>3, <2>4
  <2> QED BY <2>1, <2>2, <2>3, <2>4
<1> HIDE DEF f, m
<1>4. f \in Injection(1 .. m, 1 .. a + b)
  BY <1>2, <1>3 DEF Injection, IsInjective
<1>5. IsFiniteSet(1 .. a + b) /\ Cardinality(1 .. a + b) = a + b
  <2>1. a + b \in Int /\ 1 \in Int
    OBVIOUS
  <2> QED BY <2>1, FS_Interval
<1>6. Cardinality(1 .. m) = m
  <2>1. m \in Int /\ 1 \in Int
    BY <1>0
  <2> QED BY <1>0, <2>1, FS_Interval
<1>7. Cardinality(1 .. m) =< Cardinality(1 .. a + b)
  BY <1>4, <1>5, FS_Injection
<1> QED BY <1>5, <1>6, <1>7 DEF m

\* The receipts of both servers form a chain without branches, in the order in which
\* calls complete (persistReceipt).
THEOREM Implements == Spec => ImplementsChain
<1> DEFINE IInv == TypeOK /\ ReceiptInv /\ BoundInv
<1>1. Init => Chain!Init
  BY DEF Init, Chain!Init, Links
<1>2. IInv /\ [Next]_vars => IInv'
  BY TypeNext, ReceiptNext, BoundNext
<1>3. IInv /\ IInv' /\ [Next]_vars => [Chain!Next]_(Chain!vars)
  <2> SUFFICES ASSUME IInv, IInv', [Next]_vars PROVE [Chain!Next]_(Chain!vars)
    OBVIOUS
  <2>0. Len(signed') =< MaxCalls + MaxRecords
    <3>1. /\ signed' \in Seq(Receipt) /\ calls' \in Seq(Call) /\ Len(subscriptions') \in Nat
          /\ Matched(signed', calls', Granted') /\ Granted' \subseteq 1 .. Len(subscriptions')
          /\ Len(calls') =< MaxCalls /\ Len(subscriptions') =< MaxRecords
      BY DEF TypeOK, ReceiptInv, BoundInv, Granted
    <3>2. Granted' \subseteq 1 .. MaxRecords
      BY <3>1, BoundsAssumption
    <3> QED BY <3>1, <3>2, FewReceipts, BoundsAssumption
  <2>1. ASSUME NEW type \in {"invocation", "invocation_error", "invocation_denied", "subscription"},
               NEW p \in Principals, NEW subject \in Nat, NEW since,
               persistReceipt(type, p, subject, since)
        PROVE  Chain!Next
    <3> DEFINE r == Len(signed) + 1
    <3>1. /\ Len(signed) \in Nat /\ Len(signed') = r
          /\ DOMAIN signed = 1 .. Len(signed) /\ DOMAIN signed' = 1 .. r
          /\ \A i \in DOMAIN signed : signed'[i] = signed[i]
          /\ signed'[r].previous = chainTip
          /\ chainTip' = r
      <4>1. /\ Len(signed) \in Nat /\ Len(signed') = Len(signed) + 1
            /\ DOMAIN signed = 1 .. Len(signed) /\ DOMAIN signed' = 1 .. Len(signed) + 1
            /\ \A i \in DOMAIN signed : signed'[i] = signed[i]
            /\ signed'[Len(signed) + 1] = [type |-> type, principal |-> p,
                                           subject |-> subject, previous |-> chainTip]
            /\ chainTip' = Len(signed) + 1
        BY <2>1, PersistEffect
      <4> QED BY <4>1
    <3>2. Links' = Links \cup {<<r, chainTip>>}
      <4>1. Links' = {<<i, signed'[i].previous>> : i \in 1 .. r}
        BY <3>1 DEF Links
      <4>2. 1 .. r = DOMAIN signed \cup {r}
        BY <3>1
      <4> QED BY <3>1, <4>1, <4>2 DEF Links
    <3>3. \A l \in Links : l[1] # r
      BY <3>1 DEF Links
    <3>4. Chain!Append(r)
      BY <3>1, <3>2, <3>3 DEF Chain!Append
    <3>5. r \in 1 .. MaxCalls + MaxRecords
      BY <2>0, <3>1, BoundsAssumption
    <3> QED BY <3>4, <3>5 DEF Chain!Next
  <2>2. ASSUME NEW c \in DOMAIN calls, NEW at \in DOMAIN ReceiptType, Completes(c, at)
        PROVE  Chain!Next
    <3>1. calls[c].principal \in Principals /\ c \in Nat
      <4>1. calls \in Seq(Call)
        BY DEF TypeOK
      <4>2. calls[c] \in Call /\ c \in Nat
        BY <4>1
      <4> QED BY <4>2 DEF Call
    <3>2. ReceiptType[at] \in {"invocation", "invocation_error", "invocation_denied"}
      BY DEF ReceiptType
    <3> QED BY <2>1, <2>2, <3>1, <3>2 DEF Completes
  <2>3. ASSUME NEW p \in Principals, Subscribes(p, TRUE) PROVE Chain!Next
    <3>1. Len(subscriptions') \in Nat
      BY DEF TypeOK
    <3> QED BY <2>1, <2>3, <3>1 DEF Subscribes
  <2>4. ASSUME UNCHANGED <<signed, chainTip>> PROVE UNCHANGED Chain!vars
    BY <2>4 DEF Chain!vars, Links
  <2>5. ASSUME NEW p \in Principals, Deletes(p) PROVE UNCHANGED <<signed, chainTip>>
    BY <2>5 DEF Deletes
  <2> QED BY <2>2, <2>3, <2>4, <2>5, Kinds, Signers
<1>4. Init => IInv
  BY TypeInit, ReceiptInit, BoundInit
<1> HIDE DEF IInv
<1>5. Spec => Chain!Spec
  BY <1>1, <1>2, <1>3, <1>4, PTL DEF Spec, Chain!Spec
<1> QED BY <1>5 DEF ImplementsChain

-----------------------------------------------------------------------------
(* Billing *)

\* While the thread's iterator has not noticed that the dict has grown, no
\* subscription it has passed is active.
BillingInv ==
    billing.at = "iterating" =>
        /\ billing.size =< Len(subscriptions) /\ billing.next >= 1
        /\ billing.size = Len(subscriptions) =>
               \A s \in DOMAIN subscriptions : s < billing.next => ~IsActive(s, billing.principal)

LEMMA BillingSteps ==
    ASSUME [Next]_vars
    PROVE  \/ UNCHANGED billing \/ BillingSent \/ active_subscription
           \/ \E p \in Principals : handleBilling(p) \/ get_billing(p)
BY DEF Next, TypeScriptNext, PythonNext, vars, handleInvoke, handle_invoke, policyAnswers,
   policy_answers, handlerAnswers, handler_answers, handlerUnserialisable, handleDelete, delete,
   handleSubscribe, subscribe, handleUnsubscribe, unsubscribe, handleIncidentCreate,
   incident_create, AdvanceClock

LEMMA BillingInit == Init => BillingInv
BY DEF Init, BillingInv, Idle

LEMMA BillingNext == TypeOK /\ BillingInv /\ [Next]_vars => BillingInv'
<1> SUFFICES ASSUME TypeOK, BillingInv, [Next]_vars PROVE BillingInv'
  OBVIOUS
<1> DEFINE Sub == Subscription
<1>0. subscriptions \in Seq(Sub) /\ Len(subscriptions) \in Nat
      /\ DOMAIN subscriptions = 1 .. Len(subscriptions)
  BY DEF TypeOK
<1>1. ASSUME NEW p \in Principals, get_billing(p) PROVE BillingInv'
  BY <1>0, <1>1 DEF get_billing, BillingInv, store
<1>2. CASE active_subscription
  <2>1. billing \in [at : {"iterating"}, principal : Principals, next : Nat, size : Nat]
    BY <1>2 DEF active_subscription, TypeOK, Billing, Idle
  <2>2. UNCHANGED subscriptions
    BY <1>2 DEF active_subscription, store
  <2>3. CASE billing' = [billing EXCEPT !.next = billing.next + 1]
             /\ ~IsActive(billing.next, billing.principal)
    <3>1. /\ billing'.at = "iterating" /\ billing'.size = billing.size
          /\ billing'.principal = billing.principal /\ billing'.next = billing.next + 1
      BY <2>1, <2>3
    <3>2. \A s \in DOMAIN subscriptions : s < billing.next + 1 => s < billing.next \/ s = billing.next
      BY <1>0, <2>1
    <3>3. /\ billing.size =< Len(subscriptions) /\ billing.next >= 1 /\ billing.next \in Nat
          /\ billing.size = Len(subscriptions) =>
                \A s \in DOMAIN subscriptions : s < billing.next => ~IsActive(s, billing.principal)
      BY <2>1 DEF BillingInv
    <3>4. billing.size = Len(subscriptions) =>
             \A s \in DOMAIN subscriptions : s < billing.next + 1 => ~IsActive(s, billing.principal)
      BY <2>3, <3>2, <3>3
    <3>5. billing.next + 1 >= 1
      BY <3>3
    <3> QED BY <2>2, <3>1, <3>3, <3>4, <3>5 DEF BillingInv, IsActive
  <2>4. CASE billing'.at # "iterating"
    BY <2>4 DEF BillingInv
  <2>5. NextStep = "visit" /\ ~IsActive(billing.next, billing.principal) =>
            billing' = [billing EXCEPT !.next = billing.next + 1]
    BY <1>2 DEF active_subscription
  <2>6. ~(NextStep = "visit" /\ ~IsActive(billing.next, billing.principal)) => billing'.at # "iterating"
    BY <1>2 DEF active_subscription, NextStep
  <2> QED BY <2>3, <2>4, <2>5, <2>6
<1>3. ASSUME NEW p \in Principals, NEW granted \in BOOLEAN, Subscribes(p, granted)
      PROVE  BillingInv'
  <2>1. Len(subscriptions') = Len(subscriptions) + 1 /\ UNCHANGED billing
    BY <1>3, SubscribeEffect DEF Subscribes
  <2>2. billing.at = "iterating" => billing.size \in Nat
    BY DEF TypeOK, Billing, Idle
  <2> QED BY <1>0, <2>1, <2>2 DEF BillingInv
<1>4. ASSUME NEW s \in DOMAIN subscriptions, Cancels(s) PROVE BillingInv'
  <2>1. /\ DOMAIN subscriptions' = DOMAIN subscriptions /\ Len(subscriptions') = Len(subscriptions)
        /\ \A t \in DOMAIN subscriptions : \/ subscriptions'[t] = subscriptions[t]
                                           \/ subscriptions'[t].status = "canceled"
        /\ UNCHANGED billing
    <3>1. subscriptions[s] \in Sub
      <4> HIDE DEF Sub
      <4> QED BY <1>0
    <3>2. [subscriptions[s] EXCEPT !.status = "canceled"].status = "canceled"
      BY <3>1 DEF Subscription
    <3>3. subscriptions' = [subscriptions EXCEPT ![s] = [subscriptions[s] EXCEPT !.status = "canceled"]]
          /\ UNCHANGED billing
      BY <1>4 DEF Cancels, cancelSubscription
    <3> QED BY <1>0, <3>2, <3>3
  <2> QED BY <2>1 DEF BillingInv, IsActive
<1>5. ASSUME UNCHANGED <<billing, subscriptions>> PROVE BillingInv'
  BY <1>5 DEF BillingInv, IsActive
<1>6. ASSUME UNCHANGED subscriptions, billing'.at # "iterating" PROVE BillingInv'
  BY <1>6 DEF BillingInv
<1>7. ASSUME NEW p \in Principals, handleBilling(p) PROVE BillingInv'
  BY <1>6, <1>7 DEF handleBilling, store
<1>8. CASE BillingSent
  BY <1>6, <1>8 DEF BillingSent, Idle, store
<1>9. (\E p \in Principals, granted \in BOOLEAN : Subscribes(p, granted)) \/ (\E s \in DOMAIN subscriptions : Cancels(s))
      \/ UNCHANGED subscriptions
  BY Kinds, Signers
<1> QED BY <1>1, <1>2, <1>3, <1>4, <1>5, <1>7, <1>8, <1>9, BillingSteps

\* An answer about billing is true when it is given, though the thread looks for it
\* while others subscribe and cancel (handleBilling, active_subscription).
THEOREM BillsTruthfully == Spec => BillingTruthful
<1> DEFINE True ==
        IF billing'.subscription = null
        THEN \A s \in DOMAIN subscriptions :
                 ~(subscriptions[s].principal = billing'.principal
                   /\ subscriptions[s].status = "active")
        ELSE /\ billing'.subscription \in DOMAIN subscriptions
             /\ subscriptions[billing'.subscription].principal = billing'.principal
             /\ subscriptions[billing'.subscription].status = "active"
           Truthful == billing.at # "answered" /\ billing'.at = "answered" => True
<1>1. TypeOK /\ BillingInv /\ [Next]_vars => [Truthful]_vars
  <2> SUFFICES ASSUME TypeOK, BillingInv, [Next]_vars,
                      billing.at # "answered", billing'.at = "answered"
               PROVE  True
    OBVIOUS
  <2>0. /\ DOMAIN subscriptions = 1 .. Len(subscriptions) /\ Len(subscriptions) \in Nat
    <3>1. subscriptions \in Seq(Subscription)
      BY DEF TypeOK
    <3> QED BY <3>1
  <2>1. \A s \in DOMAIN subscriptions : \A p : IsActive(s, p) =>
            subscriptions[s].principal = p /\ subscriptions[s].status = "active" /\ s # null
    BY <2>0, NullAssumption DEF IsActive
  <2>2. ASSUME NEW p \in Principals, handleBilling(p) PROVE True
    <3>1. PICK sub \in DOMAIN subscriptions \cup {null} :
              /\ IF sub = null THEN \A s \in DOMAIN subscriptions : ~IsActive(s, p)
                 ELSE IsActive(sub, p) /\ \A s \in 1 .. sub - 1 : ~IsActive(s, p)
              /\ billing' = [at |-> "answered", principal |-> p, subscription |-> sub]
      BY <2>2 DEF handleBilling
    <3> QED BY <2>1, <3>1 DEF IsActive
  <2>3. CASE active_subscription
    <3>1. billing.at = "iterating" /\ NextStep \in {"exhausted", "visit"}
          /\ billing \in [at : {"iterating"}, principal : Principals, next : Nat, size : Nat]
      BY <2>3 DEF active_subscription, NextStep, TypeOK, Billing, Idle
    <3>2. CASE NextStep = "exhausted"
      <4>1. billing' = [at |-> "answered", principal |-> billing.principal, subscription |-> null]
        BY <2>3, <3>2 DEF active_subscription
      <4>2. billing.size = Len(subscriptions) /\ billing.next > billing.size
        BY <3>2 DEF NextStep
      <4>3. \A s \in DOMAIN subscriptions : s < billing.next
        BY <2>0, <3>1, <4>2
      <4> QED BY <3>1, <4>1, <4>2, <4>3 DEF BillingInv, IsActive
    <3>3. CASE NextStep = "visit"
      <4>1. IsActive(billing.next, billing.principal)
            /\ billing.next >= 1
            /\ billing' = [at |-> "answered", principal |-> billing.principal,
                           subscription |-> billing.next]
        BY <2>3, <3>1, <3>3 DEF active_subscription, BillingInv
      <4>2. billing.size = Len(subscriptions) /\ ~(billing.next > billing.size)
        BY <3>3 DEF NextStep
      <4>3. billing.next \in DOMAIN subscriptions
        <5>1. Len(subscriptions) \in Nat /\ billing.next \in Nat
          BY <2>0, <3>1
        <5> QED BY <2>0, <4>1, <4>2, <5>1
      <4> QED BY <2>1, <4>1, <4>3
    <3> QED BY <3>1, <3>2, <3>3
  <2>4. \/ active_subscription \/ \E p \in Principals : handleBilling(p)
    <3>1. ~UNCHANGED billing
      OBVIOUS
    <3>2. ~BillingSent
      BY DEF BillingSent, Idle
    <3>3. ~ \E p \in Principals : get_billing(p)
      BY DEF get_billing
    <3> QED BY <3>1, <3>2, <3>3, BillingSteps
  <2> QED BY <2>2, <2>3, <2>4
<1> HIDE DEF True, Truthful
<1>2. TypeOK /\ BillingInv /\ [Next]_vars => (TypeOK /\ BillingInv)'
  BY TypeNext, BillingNext
<1>3. Spec => [][Truthful]_vars
  BY TypeInit, BillingInit, <1>1, <1>2, PTL DEF Spec
<1> QED BY <1>3 DEF True, Truthful, BillingTruthful

=============================================================================
