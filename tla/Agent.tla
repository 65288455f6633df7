-------------------------------- MODULE Agent --------------------------------
(***************************************************************************)
(* The reference agent (reference/agent/agent.js) and the Tools it talks   *)
(* to: it discovers their manifests, subscribes, invokes actions under its *)
(* policy, keeps a chain of local receipts, and has a kill switch that     *)
(* cancels its subscriptions.                                              *)
(*                                                                         *)
(* The host of the agent may start a call while others wait for an answer. *)
(* A stretch of code between two awaits is one action; a call that waits   *)
(* is kept in `call'.  A fetch may fail before the Tool has handled the    *)
(* request or after; a request that is handled after its fetch has failed  *)
(* is among the latter, as the agent cannot tell them apart.               *)
(*                                                                         *)
(* A receipt is numbered by its place, and the number stands for its hash. *)
(* A subscription is numbered by its place in `granted'.  Its token is     *)
(* left out: it travels with the invocations and no server reads it.       *)
(***************************************************************************)
EXTENDS Naturals, Sequences, FiniteSets

CONSTANTS
    Tools,         \* the DIDs of the Tools
    Callers,       \* the host's calls that may be in flight at a time
    ServesUser,    \* the Tools whose manifest lists the user's jurisdiction
    embargo_list,  \* ccc.embargo_list
    OverCap,       \* the Tools that cost more than the personal spending cap
    MaxReceipts,   \* bound on the local receipts
    MaxRequests,   \* bound on the subscription requests Tools answer
    MaxFailures,   \* bound on the fetches that fail
    empty          \* a slot of the Map whose entry was cleared

ASSUME ToolsAssumption  ==
    ServesUser \subseteq Tools /\ embargo_list \subseteq Tools /\ OverCap \subseteq Tools
ASSUME BoundsAssumption == {MaxReceipts, MaxRequests, MaxFailures} \subseteq Nat

VARIABLES
    manifests,            \* the keys of this.manifests
    subscriptions,        \* this.subscriptions: its slots in the order of insertion
    receipts,             \* this.receipts
    previousReceiptHash,
    call,                 \* the calls in flight
    granted,              \* external: the subscription requests the Tools answered
    served,               \* external: the Tools of the invocations that were answered
    obtained,             \* history: the subscriptions that were ever stored
    lost,                 \* history: the invocations whose answer did not arrive
    unanswered,           \* history: the subscriptions whose DELETE failed
    failures

tools   == <<granted, served>>
history == <<obtained, lost, unanswered, failures>>
vars    == <<manifests, subscriptions, receipts, previousReceiptHash, call, tools, history>>

genesis == 0
Idle    == [op |-> "idle"]

-----------------------------------------------------------------------------
(* The local receipts *)

NewHead == Len(receipts) + 1

createLocalReceipt(r) ==
    /\ receipts' = Append(receipts, [type    |-> r.type, tool |-> r.tool, of |-> r.of,
                                     outcome |-> r.outcome,
                                     previous_receipt_hash |-> previousReceiptHash])
    /\ previousReceiptHash' = NewHead

\* What verifyReceiptChain finds.
Preceding(i) == IF i = 1 THEN genesis ELSE i - 1
verifyReceiptChain ==
    \A i \in DOMAIN receipts : receipts[i].previous_receipt_hash = Preceding(i)

\* A bound of the run: no call is started whose receipt would be one too many.
Receipted   == {c \in Callers : call[c].op \in {"invoke", "kill"}}
RoomToStart == Len(receipts) + Cardinality(Receipted) < MaxReceipts

-----------------------------------------------------------------------------
(* Discovery, policy and invocation *)

\* The answer of the well known URL arrives; a failure changes nothing.
discover(t) ==
    /\ manifests' = manifests \cup {t}
    /\ UNCHANGED <<subscriptions, receipts, previousReceiptHash, call, tools, history>>

\* The outcome of the four layers.  The consent that the last asks for is not
\* waited for.
evaluatePolicy(t) ==
    IF t \notin ServesUser \/ t \in embargo_list THEN "block"
    ELSE IF t \in OverCap THEN "require_consent" ELSE "allow"

Permitted_Always(t) == TRUE                                        \* a mutant
Permitted(t)        == evaluatePolicy(t) # "block"

invoke(c, t) ==
    /\ call[c] = Idle
    /\ RoomToStart
    /\ Permitted(t)
    /\ call' = [call EXCEPT ![c] = [op |-> "invoke", at |-> "sent", tool |-> t,
                                    outcome |-> evaluatePolicy(t), of |-> 0]]
    /\ UNCHANGED <<manifests, subscriptions, receipts, previousReceiptHash, tools, history>>

\* The Tool carries the invocation out, or answers that it does not.
ToolServes(c) ==
    /\ call[c].op = "invoke" /\ call[c].at = "sent"
    /\ served' = Append(served, call[c].tool)
    /\ call' = [call EXCEPT ![c] = [@ EXCEPT !.at = "answered", !.of = Len(served) + 1]]
    /\ UNCHANGED <<manifests, subscriptions, receipts, previousReceiptHash, granted, history>>

Resumes_NoAwait(c) == call[c].at \in {"sent", "answered"}          \* a mutant
Resumes(c)         == call[c].at = "answered"

\* Whatever the answer is, it gets a receipt.
invokeResumes(c) ==
    /\ call[c].op = "invoke" /\ Resumes(c)
    /\ createLocalReceipt([type |-> "invocation", tool |-> call[c].tool, of |-> call[c].of,
                           outcome |-> call[c].outcome])
    /\ call' = [call EXCEPT ![c] = Idle]
    /\ UNCHANGED <<manifests, subscriptions, tools, history>>

-----------------------------------------------------------------------------
(* Subscriptions *)

\* The manifest need not be one the agent discovered itself.
subscribe(c, t) ==
    /\ call[c] = Idle
    /\ Len(granted) + Cardinality({d \in Callers : call[d].op = "subscribe"}) < MaxRequests
    /\ call' = [call EXCEPT ![c] = [op |-> "subscribe", at |-> "sent", tool |-> t, sub |-> 0]]
    /\ UNCHANGED <<manifests, subscriptions, receipts, previousReceiptHash, tools, history>>

\* The Tool creates a subscription, or refuses with an error.
ToolGrants(c) ==
    /\ call[c].op = "subscribe" /\ call[c].at = "sent"
    /\ \E status \in {"active", "refused"} :
           granted' = Append(granted, [tool |-> call[c].tool, status |-> status])
    /\ call' = [call EXCEPT ![c] = [@ EXCEPT !.at = "answered", !.sub = Len(granted) + 1]]
    /\ UNCHANGED <<manifests, subscriptions, receipts, previousReceiptHash, served, history>>

\* Map.set: the entry of a key keeps its slot, a new one comes last.
Set(t, s) ==
    IF \E i \in DOMAIN subscriptions : subscriptions[i] # empty /\ subscriptions[i].tool = t
    THEN [i \in DOMAIN subscriptions |->
             IF subscriptions[i] # empty /\ subscriptions[i].tool = t
             THEN [tool |-> t, sub |-> s] ELSE subscriptions[i]]
    ELSE Append(subscriptions, [tool |-> t, sub |-> s])

\* The answer is stored unseen: an error, too, takes the place of a subscription.
subscribeResumes(c) ==
    /\ call[c].op = "subscribe" /\ Resumes(c)
    /\ subscriptions' = Set(call[c].tool, call[c].sub)
    /\ obtained' = obtained \cup {call[c].sub}
    /\ call' = [call EXCEPT ![c] = Idle]
    /\ UNCHANGED <<manifests, receipts, previousReceiptHash, tools, lost, unanswered, failures>>

-----------------------------------------------------------------------------
(* The kill switch *)

\* The slots from i on that the loop sends a DELETE for.
Ahead(i) ==
    {j \in DOMAIN subscriptions : /\ j >= i
                                  /\ subscriptions[j] # empty
                                  /\ subscriptions[j].tool \in manifests}

Cleared_Kept == subscriptions                                      \* a mutant
Cleared      == [i \in DOMAIN subscriptions |-> empty]

\* The loop over the live Map from slot i on, up to its next await, or its end
\* and what follows it.
KillFrom(c, i, due) ==
    \/ /\ Ahead(i) # {}
       /\ \E j \in Ahead(i) :
              /\ \A k \in Ahead(i) : j =< k
              /\ call' = [call EXCEPT ![c] =
                     [op |-> "kill", at |-> "sent", slot |-> j,
                      sub |-> subscriptions[j].sub, due |-> due]]
       /\ UNCHANGED <<subscriptions, receipts, previousReceiptHash>>
    \/ /\ Ahead(i) = {}
       /\ subscriptions' = Cleared
       /\ createLocalReceipt([type |-> "kill_switch", tool |-> "self", of |-> 0,
                              outcome |-> "none"])
       /\ call' = [call EXCEPT ![c] = Idle]

\* `due' records the subscriptions at known Tools that the agent has obtained.
killSwitch(c) ==
    /\ call[c] = Idle
    /\ RoomToStart
    /\ KillFrom(c, 1, {s \in obtained : granted[s].tool \in manifests})
    /\ UNCHANGED <<manifests, tools, history>>

\* DELETE /oap/subscribe/:id; an error that was stored has no id.
ToolCancels(c) ==
    /\ call[c].op = "kill" /\ call[c].at = "sent"
    /\ granted' = [granted EXCEPT ![call[c].sub].status =
                      IF @ = "refused" THEN @ ELSE "canceled"]
    /\ call' = [call EXCEPT ![c].at = "answered"]
    /\ UNCHANGED <<manifests, subscriptions, receipts, previousReceiptHash, served, history>>

Following_Same(i) == i                                             \* a mutant
Following_Skip(i) == i + 2                                         \* a mutant
Following(i)      == i + 1

killSwitchResumes(c) ==
    /\ call[c].op = "kill" /\ Resumes(c)
    /\ KillFrom(c, Following(call[c].slot), call[c].due)
    /\ UNCHANGED <<manifests, tools, history>>

-----------------------------------------------------------------------------
(* A fetch rejects, before or after the Tool handled the request, or its body *)
(* cannot be read.                                                            *)

\* invoke and subscribe throw ...
CallFails(c) ==
    /\ call[c].op \in {"invoke", "subscribe"}
    /\ failures < MaxFailures
    /\ failures' = failures + 1
    /\ lost' = IF call[c].op = "invoke" /\ call[c].at = "answered"
               THEN lost \cup {call[c].of} ELSE lost
    /\ call' = [call EXCEPT ![c] = Idle]
    /\ UNCHANGED <<manifests, subscriptions, receipts, previousReceiptHash, tools,
                   obtained, unanswered>>

\* ... and killSwitch goes on.
DeleteFails(c) ==
    /\ call[c].op = "kill"
    /\ failures < MaxFailures
    /\ failures' = failures + 1
    /\ unanswered' = unanswered \cup {call[c].sub}
    /\ KillFrom(c, Following(call[c].slot), call[c].due)
    /\ UNCHANGED <<manifests, tools, obtained, lost>>

-----------------------------------------------------------------------------
Init ==
    /\ manifests = {}
    /\ subscriptions = <<>>
    /\ receipts = <<>>
    /\ previousReceiptHash = genesis
    /\ call = [c \in Callers |-> Idle]
    /\ granted = <<>>
    /\ served = <<>>
    /\ obtained = {}
    /\ lost = {}
    /\ unanswered = {}
    /\ failures = 0

Next ==
    \/ \E t \in Tools : discover(t)
    \/ \E c \in Callers : \E t \in Tools : invoke(c, t)
    \/ \E c \in Callers : ToolServes(c)
    \/ \E c \in Callers : invokeResumes(c)
    \/ \E c \in Callers : \E t \in Tools : subscribe(c, t)
    \/ \E c \in Callers : ToolGrants(c)
    \/ \E c \in Callers : subscribeResumes(c)
    \/ \E c \in Callers : killSwitch(c)
    \/ \E c \in Callers : ToolCancels(c)
    \/ \E c \in Callers : killSwitchResumes(c)
    \/ \E c \in Callers : CallFails(c)
    \/ \E c \in Callers : DeleteFails(c)

Spec == Init /\ [][Next]_vars

\* Every DELETE is answered or fails, and a call whose answer has come goes on.
Fairness == \A c \in Callers : WF_vars(ToolCancels(c)) /\ WF_vars(killSwitchResumes(c))
FairSpec == Spec /\ Fairness

-----------------------------------------------------------------------------
(* Properties *)

Outcomes  == {"allow", "require_consent"}
Entry     == [tool : Tools, sub : Nat]
Receipt   == [type : {"invocation", "kill_switch"}, tool : Tools \cup {"self"}, of : Nat,
              outcome : Outcomes \cup {"none"}, previous_receipt_hash : Nat]
Call      == {Idle}
             \cup [op : {"invoke"}, at : {"sent", "answered"}, tool : Tools,
                   outcome : Outcomes, of : Nat]
             \cup [op : {"subscribe"}, at : {"sent", "answered"}, tool : Tools, sub : Nat]
             \cup [op : {"kill"}, at : {"sent", "answered"}, slot : Nat, sub : Nat,
                   due : SUBSET Nat]

ASSUME EmptyAssumption == empty \notin Entry

\* Every variable has its type; an invocation that policy blocks is never sent.
TypeOK ==
    /\ manifests \subseteq Tools
    /\ subscriptions \in Seq(Entry \cup {empty})
    /\ receipts \in Seq(Receipt)
    /\ previousReceiptHash \in Nat
    /\ call \in [Callers -> Call]
    /\ granted \in Seq([tool : Tools, status : {"active", "refused", "canceled"}])
    /\ served \in Seq(Tools)
    /\ obtained \subseteq DOMAIN granted
    /\ lost \subseteq DOMAIN served
    /\ unanswered \subseteq DOMAIN granted
    /\ failures \in Nat

\* However calls overlap, verifyReceiptChain finds the local chain valid, and the
\* head the agent reports is its last receipt (getReceiptChain).
ChainVerifies == verifyReceiptChain /\ previousReceiptHash = Len(receipts)

\* Local receipts and answered invocations match one to one: each receipt is of
\* an invocation the named Tool answered, and each such invocation has a receipt
\* unless its answer is on the way or did not arrive (invoke).
Accounted ==
    LET invocations == {i \in DOMAIN receipts : receipts[i].type = "invocation"}
    IN  /\ \A i \in invocations :
               /\ receipts[i].of \in DOMAIN served \ lost
               /\ served[receipts[i].of] = receipts[i].tool
        /\ \A i, j \in invocations : receipts[i].of = receipts[j].of => i = j
        /\ \A n \in DOMAIN served :
               \/ n \in lost
               \/ \E i \in invocations : receipts[i].of = n
               \/ \E c \in Callers : /\ call[c].op = "invoke" /\ call[c].at = "answered"
                                     /\ call[c].of = n

\* The local chain is whole, and accounts for what the Tools answered.
LocalChainSound == ChainVerifies /\ Accounted

\* The subscriptions the agent holds.
Held == {subscriptions[i].sub : i \in {j \in DOMAIN subscriptions : subscriptions[j] # empty}}

\* While no kill switch is at work the agent holds no canceled subscription, so
\* that no invocation starts on one: not even after two kill switches and a
\* subscribe overlapped.
ActiveUntilKilled ==
    (\A c \in Callers : call[c].op # "kill") =>
        \A s \in Held : granted[s].status # "canceled"

\* When a kill switch returns, no subscription that was obtained before it began,
\* at a Tool then known, is both held and active, except where a DELETE failed:
\* the live iteration over the Map misses none, whatever is set and cleared.
Returns(c) == call[c].op = "kill" /\ call'[c] = Idle
KillSwitchRevokes ==
    [][\A c \in Callers : Returns(c) =>
          \A s \in call[c].due \cap Held :
              granted[s].status # "active" \/ s \in unanswered']_vars

\* A kill switch returns, although others set entries in the Map it iterates over.
KillSwitchReturns ==
    \A c \in Callers : call[c].op = "kill" ~> call[c].op # "kill"

-----------------------------------------------------------------------------
(* What the agent's README says and the code does not do *)

\* "Kill switch (revokes all active subscriptions)."
KillSwitchRevokesAll ==
    [][\A c \in Callers : Returns(c) /\ failures' = 0 =>
          \A s \in call[c].due : granted[s].status # "active"]_vars

=============================================================================
