---------------------------- MODULE PythonServer ----------------------------
(***************************************************************************)
(* The handlers of sdks/python/src/oap_sdk/server.py.  Those declared       *)
(* `async def' run on the event loop, from await to await.  FastAPI runs    *)
(* those declared `def' on threads of a pool, at the same time: of these,   *)
(* unsubscribe writes and billing iterates over a dict that may change.     *)
(***************************************************************************)
EXTENDS SdkServer

\* The MemoryStore of storage.py counts and sweeps as that of storage.ts.
rate_bucket_increment(key, sweep) == rateBucketIncrement(key, sweep)

\* As in TypeScript.
handle_invoke(p, a, sweep) ==
    LET key   == <<p, a, minute>>
        limit == Rpm[a] > 0 /\ NextCount(key) > Rpm[a]
        at    == IF limit THEN "rate_limited" ELSE IF policy THEN "policy" ELSE "handler"
    IN  /\ runtime = "python"
        /\ Len(calls) < MaxCalls
        /\ IF Rpm[a] > 0 THEN rate_bucket_increment(key, sweep) ELSE UNCHANGED buckets
        /\ calls' = Append(calls, [principal |-> p, action |-> a, minute |-> minute,
                                   since |-> Len(signed), at |-> at, ran |-> at = "handler"])
        /\ admitted' = IF limit THEN admitted ELSE [admitted EXCEPT ![key] = @ + 1]
        /\ UNCHANGED <<config, up, clock, billing, receipts, chainTip, subscriptions,
                       incidents, signed, erased>>

persist_receipt(type, c) == persistReceipt(type, calls[c].principal, c, calls[c].since)

\* A hook that is no coroutine answers before anything else happens.  The receipt of a
\* denial cannot be written if a string of the input has no UTF-8 (a lone surrogate): the
\* framework answers with a 500.
policy_answers(c, decision) ==
    /\ runtime = "python"
    /\ calls[c].at = "policy"
    /\ \/ /\ decision = "allow"
          /\ calls' = [calls EXCEPT ![c].at = "handler", ![c].ran = TRUE]
          /\ UNCHANGED <<signed, receipts, chainTip>>
       \/ /\ decision = "deny"
          /\ calls' = [calls EXCEPT ![c].at = "denied"]
          /\ persist_receipt("invocation_denied", c)
       \/ /\ decision = "unwritable"
          /\ calls' = [calls EXCEPT ![c].at = "failed"]
          /\ UNCHANGED <<signed, receipts, chainTip>>
       \/ /\ decision = "throw"
          /\ calls' = [calls EXCEPT ![c].at = "policy_error"]
          /\ UNCHANGED <<signed, receipts, chainTip>>
    /\ UNCHANGED <<config, up, clock, billing, buckets, subscriptions, incidents,
                   admitted, erased>>

\* What the receipt cannot be made of - an output json.dumps cannot write, an input
\* without UTF-8 - is answered with a 500 by the framework: the handler has run, and
\* there is no receipt.  A NaN can be written there, but not into the answer: the same
\* status, with a receipt.
handler_answers(c, outcome) ==
    /\ runtime = "python"
    /\ calls[c].at = "handler"
    /\ \/ /\ outcome = "value"
          /\ calls' = [calls EXCEPT ![c].at = "success"]
          /\ persist_receipt("invocation", c)
       \/ /\ outcome = "throw"
          /\ calls' = [calls EXCEPT ![c].at = "error"]
          /\ persist_receipt("invocation_error", c)
       \/ /\ outcome = "unsendable"
          /\ calls' = [calls EXCEPT ![c].at = "unsent"]
          /\ persist_receipt("invocation", c)
       \/ /\ outcome = "unwritable"
          /\ calls' = [calls EXCEPT ![c].at = "failed"]
          /\ UNCHANGED <<signed, receipts, chainTip>>
    /\ UNCHANGED <<config, up, clock, billing, buckets, subscriptions, incidents,
                   admitted, erased>>

delete(p) ==
    /\ runtime = "python"
    /\ deleteByPrincipal(p)
    /\ UNCHANGED <<config, up, clock, calls, billing, buckets, chainTip, subscriptions,
                   incidents, signed, admitted>>

\* As in TypeScript, where the body has no UTF-8.
subscribe(p, writable) ==
    /\ runtime = "python"
    /\ Len(subscriptions) + incidents < MaxRecords
    /\ insertSubscription(p, writable)
    /\ IF writable THEN persistReceipt("subscription", p, Len(subscriptions'), Len(signed))
       ELSE UNCHANGED <<signed, receipts, chainTip>>
    /\ UNCHANGED <<config, up, clock, calls, billing, buckets, incidents, admitted, erased>>

\* On a thread.
unsubscribe(s) ==
    /\ runtime = "python"
    /\ cancelSubscription(s)
    /\ UNCHANGED <<config, up, clock, calls, billing, buckets, receipts, chainTip,
                   incidents, history>>

\* On a thread: active_subscription makes an iterator over the dict.
get_billing(p) ==
    /\ runtime = "python"
    /\ billing = Idle
    /\ billing' = [at |-> "iterating", principal |-> p, next |-> 1,
                   size |-> Len(subscriptions)]
    /\ UNCHANGED <<config, up, clock, calls, store, history>>

\* What the iterator does next: a dict that has grown makes it raise.
NextStep ==
    IF billing.size # Len(subscriptions) THEN "raise"
    ELSE IF billing.next > billing.size THEN "exhausted" ELSE "visit"

active_subscription ==
    /\ runtime = "python"
    /\ billing.at = "iterating"
    /\ LET answer(s) == [at |-> "answered", principal |-> billing.principal,
                         subscription |-> s]
       IN  billing' = CASE NextStep = "raise"     -> [at |-> "failed"]
                        [] NextStep = "exhausted" -> answer(null)
                        [] NextStep = "visit"     ->
                              IF IsActive(billing.next, billing.principal)
                              THEN answer(billing.next)
                              ELSE [billing EXCEPT !.next = @ + 1]
    /\ UNCHANGED <<config, up, clock, calls, store, history>>

incident_create ==
    /\ runtime = "python"
    /\ Len(subscriptions) + incidents < MaxRecords
    /\ incidents' = incidents + 1
    /\ UNCHANGED <<config, up, clock, calls, billing, buckets, receipts, chainTip,
                   subscriptions, history>>

PythonNext ==
    \/ \E p \in Principals, a \in Actions, sweep \in BOOLEAN : handle_invoke(p, a, sweep)
    \/ \E c \in DOMAIN calls :
           \/ \E d \in {"allow", "deny", "unwritable", "throw"} : policy_answers(c, d)
           \/ \E o \in {"value", "throw", "unsendable", "unwritable"} : handler_answers(c, o)
    \/ \E p \in Principals : \/ delete(p) \/ get_billing(p)
                             \/ \E writable \in BOOLEAN : subscribe(p, writable)
    \/ \E s \in DOMAIN subscriptions : unsubscribe(s)
    \/ active_subscription
    \/ incident_create

=============================================================================
