-------------------------- MODULE TypeScriptServer --------------------------
(***************************************************************************)
(* The handlers of sdks/typescript/src/server.ts.  They run on one event    *)
(* loop: a stretch between two awaits is an action, and only an invocation  *)
(* has awaits, of the policy hook and of the action's handler.              *)
(***************************************************************************)
EXTENDS SdkServer

\* The request is well formed and authorised; other requests are answered
\* without a change.  One beyond the limit is counted all the same.
handleInvoke(p, a, sweep) ==
    LET key   == <<p, a, minute>>
        limit == Rpm[a] > 0 /\ NextCount(key) > Rpm[a]
        at    == IF limit THEN "rate_limited" ELSE IF policy THEN "policy" ELSE "handler"
    IN  /\ runtime = "node" /\ up
        /\ Len(calls) < MaxCalls
        /\ IF Rpm[a] > 0 THEN rateBucketIncrement(key, sweep) ELSE UNCHANGED buckets
        /\ calls' = Append(calls, [principal |-> p, action |-> a, minute |-> minute,
                                   since |-> Len(signed), at |-> at, ran |-> at = "handler"])
        /\ admitted' = IF limit THEN admitted ELSE [admitted EXCEPT ![key] = @ + 1]
        /\ UNCHANGED <<config, up, clock, billing, receipts, chainTip, subscriptions,
                       incidents, signed, erased>>

Denied_GoesOn(c) == [calls EXCEPT ![c].at = "handler", ![c].ran = TRUE] \* a mutant
Denied(c)        == [calls EXCEPT ![c].at = "denied"]

\* The policy hook answers, or throws; then the handler of the action is called.  The
\* receipt of a denial is written where the exceptions of the hook are caught: one that
\* cannot be, because the input is nested too deep for canonicalize, ends likewise.
policyAnswers(c, decision) ==
    /\ runtime = "node" /\ up
    /\ calls[c].at = "policy"
    /\ \/ /\ decision = "allow"
          /\ calls' = [calls EXCEPT ![c].at = "handler", ![c].ran = TRUE]
          /\ UNCHANGED <<signed, receipts, chainTip>>
       \/ /\ decision = "deny"
          /\ calls' = Denied(c)
          /\ persistReceipt("invocation_denied", calls[c].principal, c, calls[c].since)
       \/ /\ decision = "throw"
          /\ calls' = [calls EXCEPT ![c].at = "policy_error"]
          /\ UNCHANGED <<signed, receipts, chainTip>>
    /\ UNCHANGED <<config, up, clock, billing, buckets, subscriptions, incidents,
                   admitted, erased>>

\* The handler of the action resolves or rejects.
handlerAnswers(c, outcome) ==
    /\ runtime = "node" /\ up
    /\ calls[c].at = "handler"
    /\ \/ /\ outcome = "value"
          /\ calls' = [calls EXCEPT ![c].at = "success"]
          /\ persistReceipt("invocation", calls[c].principal, c, calls[c].since)
       \/ /\ outcome = "throw"
          /\ calls' = [calls EXCEPT ![c].at = "error"]
          /\ persistReceipt("invocation_error", calls[c].principal, c, calls[c].since)
    /\ UNCHANGED <<config, up, clock, billing, buckets, subscriptions, incidents,
                   admitted, erased>>

\* It resolves to what canonicalize cannot write (a bigint, a cycle), or the input is
\* nested too deep for it: persistReceipt throws, nothing catches that, and the
\* unhandled rejection ends the process.
handlerUnserialisable(c) ==
    /\ runtime = "node" /\ up
    /\ calls[c].at = "handler"
    /\ up' = FALSE
    /\ calls' = [d \in DOMAIN calls |->
                    IF calls[d].at \in {"policy", "handler"}
                    THEN [calls[d] EXCEPT !.at = "lost"] ELSE calls[d]]
    /\ UNCHANGED <<config, clock, billing, store, history>>

\* The signed Deletion Receipt is neither stored nor chained.
handleDelete(p) ==
    /\ runtime = "node" /\ up
    /\ deleteByPrincipal(p)
    /\ UNCHANGED <<config, up, clock, calls, billing, buckets, chainTip, subscriptions,
                   incidents, signed, admitted>>

\* The subscription is stored before persistReceipt, which throws if the body is nested
\* too deep: the answer is a status of 500, and the subscription stays.
handleSubscribe(p, writable) ==
    /\ runtime = "node" /\ up
    /\ Len(subscriptions) + incidents < MaxRecords
    /\ insertSubscription(p, writable)
    /\ IF writable THEN persistReceipt("subscription", p, Len(subscriptions'), Len(signed))
       ELSE UNCHANGED <<signed, receipts, chainTip>>
    /\ UNCHANGED <<config, up, clock, calls, billing, buckets, incidents, admitted, erased>>

handleUnsubscribe(s) ==
    /\ runtime = "node" /\ up
    /\ cancelSubscription(s)
    /\ UNCHANGED <<config, up, clock, calls, billing, buckets, receipts, chainTip,
                   incidents, history>>

\* activeSubscription returns the first in the order of the Map.
handleBilling(p) ==
    /\ runtime = "node" /\ up
    /\ billing = Idle
    /\ \E sub \in DOMAIN subscriptions \cup {null} :
           /\ IF sub = null THEN \A s \in DOMAIN subscriptions : ~IsActive(s, p)
              ELSE IsActive(sub, p) /\ \A s \in 1 .. sub - 1 : ~IsActive(s, p)
           /\ billing' = [at |-> "answered", principal |-> p, subscription |-> sub]
    /\ UNCHANGED <<config, up, clock, calls, store, history>>

\* With the admin token, where one is configured.
handleIncidentCreate ==
    /\ runtime = "node" /\ up
    /\ Len(subscriptions) + incidents < MaxRecords
    /\ incidents' = incidents + 1
    /\ UNCHANGED <<config, up, clock, calls, billing, buckets, receipts, chainTip,
                   subscriptions, history>>

TypeScriptNext ==
    \/ \E p \in Principals, a \in Actions, sweep \in BOOLEAN : handleInvoke(p, a, sweep)
    \/ \E c \in DOMAIN calls : \/ \E d \in {"allow", "deny", "throw"} : policyAnswers(c, d)
                               \/ \E o \in {"value", "throw"} : handlerAnswers(c, o)
                               \/ handlerUnserialisable(c)
    \/ \E p \in Principals : \/ handleDelete(p) \/ handleBilling(p)
                             \/ \E writable \in BOOLEAN : handleSubscribe(p, writable)
    \/ \E s \in DOMAIN subscriptions : handleUnsubscribe(s)
    \/ handleIncidentCreate

=============================================================================
