----------------------------- MODULE SdkServers -----------------------------
(***************************************************************************)
(* A Tool built with one of the two SDKs: the runtime and whether there is  *)
(* a policy hook are chosen once, and what the server promises does not     *)
(* depend on either.                                                        *)
(***************************************************************************)
EXTENDS TypeScriptServer, PythonServer

\* The answer is sent.
BillingSent ==
    /\ billing.at \in {"answered", "failed"}
    /\ billing' = Idle
    /\ UNCHANGED <<config, up, clock, calls, store, history>>

AdvanceClock ==
    /\ clock < MaxClock
    /\ clock' = clock + 1
    /\ UNCHANGED <<config, up, calls, billing, store, history>>

Init ==
    /\ runtime \in {"node", "python"} /\ policy \in BOOLEAN
    /\ up = TRUE
    /\ clock = 0
    /\ calls = <<>>
    /\ billing = Idle
    /\ buckets = [k \in Keys |-> null]
    /\ receipts = {} /\ chainTip = genesis
    /\ subscriptions = <<>> /\ incidents = 0
    /\ signed = <<>>
    /\ admitted = [k \in Keys |-> 0]
    /\ erased = {}

Next == TypeScriptNext \/ PythonNext \/ BillingSent \/ AdvanceClock

Spec == Init /\ [][Next]_vars

-----------------------------------------------------------------------------
(* Properties *)

\* The type of the receipt of a call that ended with one.
ReceiptType == [success |-> "invocation", error |-> "invocation_error",
                denied |-> "invocation_denied", unsent |-> "invocation"]
Places == DOMAIN ReceiptType \cup
          {"policy", "handler", "rate_limited", "policy_error", "failed", "lost"}

Call    == [principal : Principals, action : Actions, minute : 0 .. MaxClock \div Ticks,
            since : Nat, at : Places, ran : BOOLEAN]
Receipt == [type : {ReceiptType[at] : at \in DOMAIN ReceiptType} \cup {"subscription"},
            principal : Principals, subject : Nat, previous : Nat]
Subscription == [principal : Principals, status : {"active", "canceled"}, granted : BOOLEAN]
Billing == {Idle, [at |-> "failed"]}
           \cup [at : {"iterating"}, principal : Principals, next : Nat, size : Nat]
           \cup [at : {"answered"}, principal : Principals, subscription : Nat \cup {null}]

\* Every variable has its type.
TypeOK ==
    /\ runtime \in {"node", "python"} /\ policy \in BOOLEAN /\ up \in BOOLEAN
    /\ clock \in 0 .. MaxClock
    /\ calls \in Seq(Call)
    /\ billing \in Billing
    /\ buckets \in [Keys -> [count : Nat, expiresAt : Nat] \cup {null}]
    /\ signed \in Seq(Receipt)
    /\ receipts \subseteq DOMAIN signed
    /\ chainTip \in {genesis} \cup DOMAIN signed
    /\ subscriptions \in Seq(Subscription)
    /\ incidents \in Nat
    /\ admitted \in [Keys -> Nat]
    /\ erased \subseteq DOMAIN signed

\* The limit of a minute holds of the invocations that get past it, though their
\* hooks are awaited long after the count, and none is refused before the limit
\* is used up (handleInvoke, rateBucketIncrement).
RateLimited ==
    /\ \A k \in Keys : Rpm[k[2]] > 0 => admitted[k] =< Rpm[k[2]]
    /\ \A c \in DOMAIN calls :
           calls[c].at = "rate_limited" =>
               admitted[<<calls[c].principal, calls[c].action, calls[c].minute>>]
                   = Rpm[calls[c].action]

\* However calls overlap, each has at most one receipt, of its outcome, and a call that is
\* denied never ran.  One that is answered with its outcome has the receipt; there is none
\* for a call that is refused by the limit, whose policy hook failed, whose receipt cannot
\* be written or that died with the process.  Only a subscription that was granted has one:
\* without its receipt it stays, but who asked for it is told of an error.
ReceiptsOf(c) == {i \in DOMAIN signed : signed[i].type # "subscription"
                                        /\ signed[i].subject = c}
EachHasItsReceipt ==
    /\ \A c \in DOMAIN calls :
           /\ calls[c].at \in DOMAIN ReceiptType =>
                  \E i \in DOMAIN signed :
                      /\ ReceiptsOf(c) = {i}
                      /\ signed[i].type = ReceiptType[calls[c].at]
                      /\ signed[i].principal = calls[c].principal
           /\ calls[c].at \notin DOMAIN ReceiptType => ReceiptsOf(c) = {}
           /\ calls[c].at \in {"success", "error", "unsent", "handler"} => calls[c].ran
           /\ calls[c].at \in {"policy", "denied", "policy_error", "rate_limited"} =>
                  ~calls[c].ran
    /\ \A s \in DOMAIN subscriptions :
           LET own == {i \in DOMAIN signed : signed[i].type = "subscription"
                                             /\ signed[i].subject = s}
           IN  IF subscriptions[s].granted THEN \E i \in DOMAIN signed : own = {i}
               ELSE own = {}

\* What is stored is what was signed, but for what a principal had signed until it
\* last had its data deleted: a call in flight then still adds its receipt, and
\* nobody else's receipts go (handleDelete).
StoredUnlessErased == receipts = DOMAIN signed \ erased

\* Every outcome has its own receipt or none, and the store has them unless their principal
\* had them erased.
ReceiptsKept == EachHasItsReceipt /\ StoredUnlessErased

\* An answer to a billing request is true when it is given: it names a subscription
\* that is active, and none only if there is none, though in Python a thread
\* looks for it while others subscribe and cancel (handleBilling, _billing).
BillingTruthful ==
    [][billing.at # "answered" /\ billing'.at = "answered" =>
          IF billing'.subscription = null
          THEN \A s \in DOMAIN subscriptions :
                   ~(subscriptions[s].principal = billing'.principal
                     /\ subscriptions[s].status = "active")
          ELSE /\ billing'.subscription \in DOMAIN subscriptions
               /\ subscriptions[billing'.subscription].principal = billing'.principal
               /\ subscriptions[billing'.subscription].status = "active"]_vars

\* Receipts are chained in the order in which calls complete, and however calls
\* overlap the chain has no branches.
Links == {<<i, signed[i].previous>> : i \in DOMAIN signed}
Chain == INSTANCE ReceiptChain
             WITH Receipts <- 1 .. MaxCalls + MaxRecords,
                  links <- Links, head <- chainTip
ImplementsChain == Chain!Spec

=============================================================================
