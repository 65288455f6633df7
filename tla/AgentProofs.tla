----------------------------- MODULE AgentProofs -----------------------------
(***************************************************************************)
(* Theorems about the reference agent, for all Tools and however many calls*)
(* overlap or fail: the types of its variables, its local receipts, the    *)
(* subscriptions it holds, and what its kill switch revokes.               *)
(***************************************************************************)
EXTENDS Agent, TLAPS

-----------------------------------------------------------------------------
(* The invariants *)

Answered(c, op) == call[c].op = op /\ call[c].at = "answered"
Holds(i)        == i \in DOMAIN subscriptions /\ subscriptions[i] # empty

\* What calls and entries refer to was granted or served.
Refs ==
    /\ \A c \in Callers :
           /\ Answered(c, "invoke") => call[c].of \in DOMAIN served
           /\ Answered(c, "subscribe") => call[c].sub \in DOMAIN granted
           /\ call[c].op = "kill" => /\ call[c].sub \in obtained
                                     /\ call[c].due \subseteq obtained
    /\ \A i \in DOMAIN subscriptions : Holds(i) => subscriptions[i].sub \in obtained

TypeInv == TypeOK /\ Refs

\* Accounted, and what is in flight: receipts and answers in flight stand for
\* different invocations.
InvocationAt(i) == i \in DOMAIN receipts /\ receipts[i].type = "invocation"
AccountInv ==
    /\ \A i \in DOMAIN receipts : InvocationAt(i) =>
           /\ receipts[i].of \in DOMAIN served \ lost
           /\ served[receipts[i].of] = receipts[i].tool
    /\ \A i, j \in DOMAIN receipts :
           InvocationAt(i) /\ InvocationAt(j) /\ receipts[i].of = receipts[j].of => i = j
    /\ \A n \in DOMAIN served :
           \/ n \in lost
           \/ \E i \in DOMAIN receipts : InvocationAt(i) /\ receipts[i].of = n
           \/ \E c \in Callers : Answered(c, "invoke") /\ call[c].of = n
    /\ \A c \in Callers : Answered(c, "invoke") =>
           /\ call[c].of \notin lost
           /\ served[call[c].of] = call[c].tool
           /\ \A i \in DOMAIN receipts : InvocationAt(i) => receipts[i].of # call[c].of
           /\ \A d \in Callers :
                  Answered(d, "invoke") /\ call[d].of = call[c].of => d = c

-----------------------------------------------------------------------------
(* Calls and entries *)

\* A call has the fields of its kind.
LEMMA CallShape ==
    ASSUME TypeOK, NEW c \in Callers
    PROVE  /\ call[c].op \in {"idle", "invoke", "subscribe", "kill"}
           /\ call[c].op = "idle" <=> call[c] = Idle
           /\ call[c].op = "invoke" =>
                 call[c] \in [op : {"invoke"}, at : {"sent", "answered"}, tool : Tools,
                              outcome : Outcomes, of : Nat]
           /\ call[c].op = "subscribe" =>
                 call[c] \in [op : {"subscribe"}, at : {"sent", "answered"}, tool : Tools,
                              sub : Nat]
           /\ call[c].op = "kill" =>
                 call[c] \in [op : {"kill"}, at : {"sent", "answered"}, slot : Nat,
                              sub : Nat, due : SUBSET Nat]
<1>1. call[c] \in Call
  BY DEF TypeOK
<1> QED BY <1>1 DEF Call, Idle

\* A slot that is not empty has an entry.
LEMMA EntryShape ==
    ASSUME TypeOK, NEW i \in DOMAIN subscriptions, subscriptions[i] # empty
    PROVE  subscriptions[i] \in Entry /\ i \in Nat \ {0}
BY DEF TypeOK

\* What createLocalReceipt appends.
LEMMA ReceiptEffect ==
    ASSUME TypeOK, NEW r, createLocalReceipt(r),
           r.type \in {"invocation", "kill_switch"}, r.tool \in Tools \cup {"self"},
           r.of \in Nat, r.outcome \in Outcomes \cup {"none"}
    PROVE  /\ receipts' \in Seq(Receipt)
           /\ previousReceiptHash' = Len(receipts) + 1
           /\ Len(receipts) \in Nat
           /\ Len(receipts') = Len(receipts) + 1
           /\ DOMAIN receipts = 1 .. Len(receipts)
           /\ DOMAIN receipts' = 1 .. Len(receipts) + 1
           /\ \A i \in DOMAIN receipts : receipts'[i] = receipts[i]
           /\ receipts'[Len(receipts) + 1] =
                 [type |-> r.type, tool |-> r.tool, of |-> r.of, outcome |-> r.outcome,
                  previous_receipt_hash |-> previousReceiptHash]
<1> DEFINE e == [type |-> r.type, tool |-> r.tool, of |-> r.of, outcome |-> r.outcome,
                 previous_receipt_hash |-> previousReceiptHash]
<1>1. e \in Receipt
  BY DEF Receipt, TypeOK
<1>2. receipts' = Append(receipts, e) /\ previousReceiptHash' = Len(receipts) + 1
  BY DEF createLocalReceipt, NewHead
<1>3. receipts \in Seq(Receipt)
  BY DEF TypeOK
<1> HIDE DEF e
<1>4. /\ receipts' \in Seq(Receipt)
      /\ Len(receipts) \in Nat
      /\ Len(receipts') = Len(receipts) + 1
      /\ DOMAIN receipts = 1 .. Len(receipts)
      /\ DOMAIN receipts' = 1 .. Len(receipts) + 1
      /\ \A i \in DOMAIN receipts : receipts'[i] = receipts[i]
      /\ receipts'[Len(receipts) + 1] = e
  BY <1>1, <1>2, <1>3
<1> QED BY <1>2, <1>4 DEF e

\* What a stretch of the kill switch does: it moves on to a slot, or it ends.
Moves(c, i, due) ==
    \E j \in DOMAIN subscriptions :
        /\ j >= i
        /\ subscriptions[j] # empty
        /\ \A k \in Ahead(i) : j =< k
        /\ call' = [call EXCEPT ![c] = [op |-> "kill", at |-> "sent", slot |-> j,
                                        sub |-> subscriptions[j].sub, due |-> due]]
        /\ UNCHANGED <<subscriptions, receipts, previousReceiptHash>>

Ends(c, i) ==
    /\ Ahead(i) = {}
    /\ subscriptions' = [k \in DOMAIN subscriptions |-> empty]
    /\ createLocalReceipt([type |-> "kill_switch", tool |-> "self", of |-> 0,
                           outcome |-> "none"])
    /\ call' = [call EXCEPT ![c] = Idle]

LEMMA KillFromCases ==
    ASSUME NEW c, NEW i, NEW due, KillFrom(c, i, due)
    PROVE  Moves(c, i, due) \/ Ends(c, i)
<1>1. Ahead(i) \subseteq {j \in DOMAIN subscriptions : j >= i /\ subscriptions[j] # empty}
  BY DEF Ahead
<1> QED BY <1>1 DEF KillFrom, Moves, Ends, Cleared

\* Map.set puts the subscription into one slot and leaves the others.
LEMMA SetEffect ==
    ASSUME TypeOK, NEW t \in Tools, NEW s \in Nat
    PROVE  /\ Set(t, s) \in Seq(Entry \cup {empty})
           /\ \A i \in DOMAIN Set(t, s) :
                 \/ Set(t, s)[i] = [tool |-> t, sub |-> s]
                 \/ i \in DOMAIN subscriptions /\ Set(t, s)[i] = subscriptions[i]
<1> DEFINE e == [tool |-> t, sub |-> s]
           same == \E i \in DOMAIN subscriptions :
                       subscriptions[i] # empty /\ subscriptions[i].tool = t
<1>1. e \in Entry \cup {empty}
  BY DEF Entry
<1>2. subscriptions \in Seq(Entry \cup {empty})
  BY DEF TypeOK
<1>3. CASE same
  <2>1. Set(t, s) = [i \in DOMAIN subscriptions |->
                       IF subscriptions[i] # empty /\ subscriptions[i].tool = t
                       THEN e ELSE subscriptions[i]]
    BY <1>3 DEF Set
  <2> HIDE DEF e
  <2>2. DOMAIN subscriptions = 1 .. Len(subscriptions) /\ Len(subscriptions) \in Nat
    BY <1>2
  <2>3. \A i \in DOMAIN subscriptions : subscriptions[i] \in Entry \cup {empty}
    BY <1>2
  <2>4. Set(t, s) \in [1 .. Len(subscriptions) -> Entry \cup {empty}]
    BY <1>1, <2>1, <2>2, <2>3
  <2>5. Set(t, s) \in Seq(Entry \cup {empty})
    BY <2>2, <2>4
  <2>6. \A i \in DOMAIN Set(t, s) : Set(t, s)[i] = e \/ Set(t, s)[i] = subscriptions[i]
    BY <2>1
  <2>7. DOMAIN Set(t, s) = DOMAIN subscriptions
    BY <2>1
  <2> QED BY <2>5, <2>6, <2>7 DEF e
<1>4. CASE ~ same
  <2>1. Set(t, s) = Append(subscriptions, e)
    BY <1>4 DEF Set
  <2> HIDE DEF e
  <2>2. /\ DOMAIN subscriptions = 1 .. Len(subscriptions)
        /\ Len(subscriptions) \in Nat
        /\ DOMAIN Append(subscriptions, e) = 1 .. Len(subscriptions) + 1
        /\ Append(subscriptions, e)[Len(subscriptions) + 1] = e
        /\ \A i \in 1 .. Len(subscriptions) : Append(subscriptions, e)[i] = subscriptions[i]
    BY <1>2
  <2>3. Append(subscriptions, e) \in Seq(Entry \cup {empty})
    BY <1>1, <1>2
  <2> QED BY <2>1, <2>2, <2>3 DEF e
<1> QED BY <1>3, <1>4

\* What a Tool that answers appends.
LEMMA AppendEffect ==
    ASSUME NEW S, NEW seq \in Seq(S), NEW e \in S
    PROVE  /\ Append(seq, e) \in Seq(S)
           /\ Len(seq) \in Nat
           /\ DOMAIN seq = 1 .. Len(seq)
           /\ DOMAIN Append(seq, e) = 1 .. Len(seq) + 1
           /\ Len(seq) + 1 \notin DOMAIN seq
           /\ \A i \in DOMAIN seq : Append(seq, e)[i] = seq[i]
           /\ Append(seq, e)[Len(seq) + 1] = e
OBVIOUS

-----------------------------------------------------------------------------
(* Type correctness *)

LEMMA TypeInit == Init => TypeInv
BY BoundsAssumption DEF Init, TypeInv, TypeOK, Refs, Holds, Answered, Call, Idle, genesis

\* A stretch of the kill switch keeps the types, whatever was due.
LEMMA KillType ==
    ASSUME TypeInv, NEW c \in Callers, NEW i \in Nat, NEW due \in SUBSET obtained,
           KillFrom(c, i, due), UNCHANGED <<manifests, tools, obtained, lost>>,
           unanswered' \subseteq DOMAIN granted, failures' \in Nat
    PROVE  TypeInv'
<1> USE DEF TypeInv
<1>1. obtained \subseteq Nat /\ DOMAIN granted = 1 .. Len(granted)
  BY DEF TypeOK
<1>2. CASE Moves(c, i, due)
  <2>1. PICK j \in DOMAIN subscriptions :
           /\ subscriptions[j] # empty
           /\ call' = [call EXCEPT ![c] = [op |-> "kill", at |-> "sent", slot |-> j,
                                           sub |-> subscriptions[j].sub, due |-> due]]
    BY <1>2 DEF Moves
  <2>2. subscriptions[j] \in Entry /\ j \in Nat
    BY <2>1, EntryShape
  <2>3. [op |-> "kill", at |-> "sent", slot |-> j, sub |-> subscriptions[j].sub,
         due |-> due] \in Call
    BY <1>1, <2>2 DEF Call, Entry
  <2>4. TypeOK'
    BY <1>2, <2>1, <2>3 DEF Moves, TypeOK, tools
  <2>5. subscriptions[j].sub \in obtained
    BY <2>1 DEF Refs, Holds
  <2>6. Refs'
    BY <1>2, <2>1, <2>5 DEF Moves, Refs, Holds, Answered, TypeOK, tools
  <2> QED BY <2>4, <2>6
<1>3. CASE Ends(c, i)
  <2>1. receipts' \in Seq(Receipt) /\ previousReceiptHash' \in Nat
    <3> DEFINE r == [type |-> "kill_switch", tool |-> "self", of |-> 0, outcome |-> "none"]
    <3>1. /\ r.type \in {"invocation", "kill_switch"} /\ r.tool \in Tools \cup {"self"}
          /\ r.of \in Nat /\ r.outcome \in Outcomes \cup {"none"}
          /\ createLocalReceipt(r)
      BY <1>3 DEF Ends
    <3> HIDE DEF r
    <3>2. /\ receipts' \in Seq(Receipt)
          /\ previousReceiptHash' = Len(receipts) + 1
          /\ Len(receipts) \in Nat
      BY <3>1, ReceiptEffect
    <3> QED BY <3>2
  <2>2. subscriptions' \in Seq(Entry \cup {empty})
    <3>1. DOMAIN subscriptions = 1 .. Len(subscriptions) /\ Len(subscriptions) \in Nat
      BY DEF TypeOK
    <3> QED BY <1>3, <3>1 DEF Ends
  <2>3. call' \in [Callers -> Call]
    BY <1>3 DEF Ends, TypeOK, Call
  <2>4. TypeOK'
    BY <2>1, <2>2, <2>3 DEF TypeOK, tools
  <2>5. Refs'
    BY <1>3 DEF Ends, Refs, Holds, Answered, Idle, TypeOK, tools
  <2> QED BY <2>4, <2>5
<1> QED BY <1>2, <1>3, KillFromCases

LEMMA TypeNext == TypeInv /\ [Next]_vars => TypeInv'
<1> SUFFICES ASSUME TypeInv, [Next]_vars PROVE TypeInv'
  OBVIOUS
<1> USE DEF TypeInv, tools, history
<1>1. ASSUME NEW t \in Tools, discover(t) PROVE TypeInv'
  BY <1>1 DEF discover, TypeOK, Refs, Holds, Answered
<1>2. ASSUME NEW c \in Callers, NEW t \in Tools, invoke(c, t) PROVE TypeInv'
  <2>1. evaluatePolicy(t) \in Outcomes
    BY <1>2 DEF invoke, Permitted, evaluatePolicy, Outcomes
  <2>2. [op |-> "invoke", at |-> "sent", tool |-> t, outcome |-> evaluatePolicy(t),
         of |-> 0] \in Call
    BY <2>1 DEF Call
  <2> QED BY <1>2, <2>2 DEF invoke, TypeOK, Refs, Holds, Answered
<1>3. ASSUME NEW c \in Callers, ToolServes(c) PROVE TypeInv'
  <2>1. call[c].tool \in Tools /\ call[c].outcome \in Outcomes
    BY <1>3, CallShape DEF ToolServes
  <2>2. served \in Seq(Tools)
    BY DEF TypeOK
  <2>3. /\ served' \in Seq(Tools)
        /\ DOMAIN served' = 1 .. Len(served) + 1
        /\ DOMAIN served = 1 .. Len(served)
        /\ Len(served) \in Nat
    BY <1>3, <2>1, <2>2 DEF ToolServes
  <2>4. PICK e \in [op : {"invoke"}, at : {"sent", "answered"}, tool : Tools,
                    outcome : Outcomes, of : Nat] :
           /\ call' = [call EXCEPT ![c] = e]
           /\ e.op = "invoke" /\ e.of = Len(served) + 1
    <3> DEFINE n == Len(served) + 1
               e == [call[c] EXCEPT !.at = "answered", !.of = n]
    <3>1. call' = [call EXCEPT ![c] = e]
      BY <1>3 DEF ToolServes
    <3>2. call[c] \in [op : {"invoke"}, at : {"sent", "answered"}, tool : Tools,
                       outcome : Outcomes, of : Nat]
      BY <1>3, CallShape DEF ToolServes
    <3>3. n \in Nat
      BY <2>3
    <3> HIDE DEF n
    <3>4. /\ e \in [op : {"invoke"}, at : {"sent", "answered"}, tool : Tools,
                    outcome : Outcomes, of : Nat]
          /\ e.op = "invoke" /\ e.of = n
      BY <3>2, <3>3
    <3> QED BY <3>1, <3>4 DEF n
  <2>5. e \in Call
    BY DEF Call
  <2>6. TypeOK'
    BY <1>3, <2>3, <2>4, <2>5 DEF ToolServes, TypeOK
  <2>7. Refs'
    BY <1>3, <2>3, <2>4 DEF ToolServes, TypeOK, Refs, Holds, Answered
  <2> QED BY <2>6, <2>7
<1>4. ASSUME NEW c \in Callers, invokeResumes(c) PROVE TypeInv'
  <2>1. receipts' \in Seq(Receipt) /\ previousReceiptHash' \in Nat
    <3> DEFINE r == [type |-> "invocation", tool |-> call[c].tool, of |-> call[c].of,
                     outcome |-> call[c].outcome]
    <3>1. r.tool \in Tools /\ r.of \in Nat /\ r.outcome \in Outcomes
      BY <1>4, CallShape DEF invokeResumes
    <3>2. createLocalReceipt(r) /\ r.type = "invocation"
      BY <1>4 DEF invokeResumes
    <3> HIDE DEF r
    <3>3. /\ receipts' \in Seq(Receipt)
          /\ previousReceiptHash' = Len(receipts) + 1
          /\ Len(receipts) \in Nat
      BY <3>1, <3>2, ReceiptEffect
    <3> QED BY <3>3
  <2>2. call' \in [Callers -> Call]
    BY <1>4 DEF invokeResumes, TypeOK, Call
  <2> QED BY <1>4, <2>1, <2>2 DEF invokeResumes, TypeOK, Refs, Holds, Answered, Idle
<1>5. ASSUME NEW c \in Callers, NEW t \in Tools, subscribe(c, t) PROVE TypeInv'
  <2>1. [op |-> "subscribe", at |-> "sent", tool |-> t, sub |-> 0] \in Call
    BY DEF Call
  <2> QED BY <1>5, <2>1 DEF subscribe, TypeOK, Refs, Holds, Answered
<1>6. ASSUME NEW c \in Callers, ToolGrants(c) PROVE TypeInv'
  <2> DEFINE Grant == [tool : Tools, status : {"active", "refused", "canceled"}]
  <2>1. PICK g \in Grant : granted' = Append(granted, g)
    BY <1>6, CallShape DEF ToolGrants
  <2>2. granted \in Seq(Grant)
    BY DEF TypeOK
  <2> HIDE DEF Grant
  <2>3. /\ granted' \in Seq(Grant)
        /\ DOMAIN granted' = 1 .. Len(granted) + 1
        /\ DOMAIN granted = 1 .. Len(granted)
        /\ Len(granted) \in Nat
    BY <2>1, <2>2
  <2> USE DEF Grant
  <2>4. PICK e \in [op : {"subscribe"}, at : {"sent", "answered"}, tool : Tools,
                    sub : Nat] :
           /\ call' = [call EXCEPT ![c] = e]
           /\ e.op = "subscribe" /\ e.sub = Len(granted) + 1
    <3> DEFINE n == Len(granted) + 1
               e == [call[c] EXCEPT !.at = "answered", !.sub = n]
    <3>1. call' = [call EXCEPT ![c] = e]
      BY <1>6 DEF ToolGrants
    <3>2. call[c] \in [op : {"subscribe"}, at : {"sent", "answered"}, tool : Tools,
                       sub : Nat]
      BY <1>6, CallShape DEF ToolGrants
    <3>3. n \in Nat
      BY <2>3
    <3> HIDE DEF n
    <3>4. /\ e \in [op : {"subscribe"}, at : {"sent", "answered"}, tool : Tools,
                    sub : Nat]
          /\ e.op = "subscribe" /\ e.sub = n
      BY <3>2, <3>3
    <3> QED BY <3>1, <3>4 DEF n
  <2>5. e \in Call
    BY DEF Call
  <2>6. TypeOK'
    BY <1>6, <2>3, <2>4, <2>5 DEF ToolGrants, TypeOK
  <2>7. Refs'
    BY <1>6, <2>3, <2>4 DEF ToolGrants, TypeOK, Refs, Holds, Answered
  <2> QED BY <2>6, <2>7
<1>7. ASSUME NEW c \in Callers, subscribeResumes(c) PROVE TypeInv'
  <2>1. call[c].tool \in Tools /\ call[c].sub \in Nat /\ call[c].sub \in DOMAIN granted
    BY <1>7, CallShape DEF subscribeResumes, Resumes, Refs, Answered
  <2>2. /\ subscriptions' \in Seq(Entry \cup {empty})
        /\ \A i \in DOMAIN subscriptions' :
              \/ subscriptions'[i] = [tool |-> call[c].tool, sub |-> call[c].sub]
              \/ i \in DOMAIN subscriptions /\ subscriptions'[i] = subscriptions[i]
    BY <1>7, <2>1, SetEffect DEF subscribeResumes
  <2>3. call' \in [Callers -> Call]
    BY <1>7 DEF subscribeResumes, TypeOK, Call
  <2>4. TypeOK'
    BY <1>7, <2>1, <2>2, <2>3 DEF subscribeResumes, TypeOK
  <2>5. \A i \in DOMAIN subscriptions' : Holds(i)' => subscriptions'[i].sub \in obtained'
    BY <1>7, <2>2 DEF subscribeResumes, Refs, Holds
  <2>6. Refs'
    BY <1>7, <2>5 DEF subscribeResumes, Refs, Holds, Answered, Idle, TypeOK
  <2> QED BY <2>4, <2>6
<1>8. ASSUME NEW c \in Callers, killSwitch(c) PROVE TypeInv'
  <2> DEFINE due == {s \in obtained : granted[s].tool \in manifests}
  <2>1. due \in SUBSET obtained /\ KillFrom(c, 1, due)
    BY <1>8 DEF killSwitch
  <2> HIDE DEF due
  <2> QED BY <1>8, <2>1, KillType DEF killSwitch, TypeOK
<1>9. ASSUME NEW c \in Callers, ToolCancels(c) PROVE TypeInv'
  <2>1. call' = [call EXCEPT ![c] =
                   [op |-> "kill", at |-> "answered", slot |-> call[c].slot,
                    sub |-> call[c].sub, due |-> call[c].due]]
    <3> DEFINE e == [call[c] EXCEPT !.at = "answered"]
    <3>1. call' = [call EXCEPT ![c] = e]
      BY <1>9 DEF ToolCancels, TypeOK
    <3>2. call[c] \in [op : {"kill"}, at : {"sent", "answered"}, slot : Nat, sub : Nat,
                       due : SUBSET Nat]
      BY <1>9, CallShape DEF ToolCancels
    <3>3. e = [op |-> "kill", at |-> "answered", slot |-> call[c].slot,
               sub |-> call[c].sub, due |-> call[c].due]
      BY <3>2
    <3> QED BY <3>1, <3>3
  <2>2. [op |-> "kill", at |-> "answered", slot |-> call[c].slot, sub |-> call[c].sub,
         due |-> call[c].due] \in Call
    BY <1>9, CallShape DEF Call, ToolCancels
  <2>3. /\ granted' \in Seq([tool : Tools, status : {"active", "refused", "canceled"}])
        /\ DOMAIN granted' = DOMAIN granted
    <3> DEFINE Grant == [tool : Tools, status : {"active", "refused", "canceled"}]
               n     == call[c].sub
               g     == [granted[n] EXCEPT !.status =
                            IF @ = "refused" THEN @ ELSE "canceled"]
    <3>1. granted \in Seq(Grant) /\ n \in DOMAIN granted
      BY <1>9 DEF ToolCancels, TypeOK, Refs
    <3> HIDE DEF Grant
    <3>2. granted[n] \in Grant
      BY <3>1
    <3> USE DEF Grant
    <3>3. g \in Grant
      BY <3>2
    <3>4. granted' = [granted EXCEPT ![n] = g]
      BY <1>9 DEF ToolCancels
    <3> HIDE DEF Grant, n, g
    <3>5. granted' \in Seq(Grant) /\ DOMAIN granted' = DOMAIN granted
      BY <3>1, <3>3, <3>4
    <3> QED BY <3>5 DEF Grant
  <2>4. TypeOK'
    BY <1>9, <2>1, <2>2, <2>3 DEF ToolCancels, TypeOK
  <2>5. ASSUME NEW d \in Callers
        PROVE  /\ call'[d].op = call[d].op
               /\ d # c => call'[d] = call[d]
               /\ call'[c].sub = call[c].sub /\ call'[c].due = call[c].due
               /\ call[c].op = "kill"
    BY <1>9, <2>1 DEF ToolCancels, TypeOK
  <2>6. Refs'
    BY <1>9, <2>3, <2>5 DEF ToolCancels, Refs, Holds, Answered
  <2> QED BY <2>4, <2>6
<1>10. ASSUME NEW c \in Callers, killSwitchResumes(c) PROVE TypeInv'
  <2>1. call[c].slot + 1 \in Nat /\ call[c].due \in SUBSET obtained
    BY <1>10, CallShape DEF killSwitchResumes, Refs
  <2> QED BY <1>10, <2>1, KillType DEF killSwitchResumes, Following, TypeOK
<1>11. ASSUME NEW c \in Callers, CallFails(c) PROVE TypeInv'
  <2>1. lost' \subseteq DOMAIN served
    BY <1>11 DEF CallFails, TypeOK, Refs, Answered
  <2>2. call' \in [Callers -> Call]
    BY <1>11 DEF CallFails, TypeOK, Call
  <2> QED BY <1>11, <2>1, <2>2 DEF CallFails, TypeOK, Refs, Holds, Answered, Idle
<1>12. ASSUME NEW c \in Callers, DeleteFails(c) PROVE TypeInv'
  <2>1. call[c].slot + 1 \in Nat /\ call[c].due \in SUBSET obtained
    BY <1>12, CallShape DEF DeleteFails, Refs
  <2>2. unanswered' \subseteq DOMAIN granted /\ failures' \in Nat
    BY <1>12 DEF DeleteFails, TypeOK, Refs
  <2> QED BY <1>12, <2>1, <2>2, KillType DEF DeleteFails, Following
<1>13. ASSUME UNCHANGED vars PROVE TypeInv'
  BY <1>13 DEF vars, TypeOK, Refs, Holds, Answered
<1> QED
  BY <1>1, <1>2, <1>3, <1>4, <1>5, <1>6, <1>7, <1>8, <1>9, <1>10, <1>11, <1>12, <1>13
  DEF Next

\* Every variable keeps its type, for all Tools and calls; in particular no blocked
\* invocation is ever in flight.
THEOREM TypeCorrect == Spec => []TypeOK
<1>1. Spec => []TypeInv
  BY TypeInit, TypeNext, PTL DEF Spec
<1> QED BY <1>1, PTL DEF TypeInv

-----------------------------------------------------------------------------
(* The local receipts *)

\* A stretch of the kill switch of c leaves the receipts and the calls of others,
\* or appends a receipt that is not of an invocation.
LEMMA KillReceipt ==
    ASSUME TypeInv, NEW c \in Callers, NEW i, NEW due, KillFrom(c, i, due)
    PROVE  /\ ChainVerifies => ChainVerifies'
           /\ \A k : InvocationAt(k)' <=> InvocationAt(k)
           /\ \A k \in DOMAIN receipts : k \in DOMAIN receipts' /\ receipts'[k] = receipts[k]
           /\ \A d \in Callers \ {c} : call'[d] = call[d]
           /\ call'[c].op \in {"idle", "kill"}
<1>1. CASE Moves(c, i, due)
  BY <1>1 DEF Moves, ChainVerifies, verifyReceiptChain, InvocationAt, TypeInv, TypeOK
<1>2. CASE Ends(c, i)
  <2> DEFINE r == [type |-> "kill_switch", tool |-> "self", of |-> 0, outcome |-> "none"]
  <2>1. /\ r.type = "kill_switch" /\ r.type \in {"invocation", "kill_switch"}
        /\ r.tool \in Tools \cup {"self"}
        /\ r.of \in Nat /\ r.outcome \in Outcomes \cup {"none"}
        /\ createLocalReceipt(r)
    BY <1>2 DEF Ends
  <2> HIDE DEF r
  <2>2. /\ previousReceiptHash' = Len(receipts) + 1
        /\ Len(receipts) \in Nat
        /\ Len(receipts') = Len(receipts) + 1
        /\ DOMAIN receipts = 1 .. Len(receipts)
        /\ DOMAIN receipts' = 1 .. Len(receipts) + 1
        /\ \A k \in DOMAIN receipts : receipts'[k] = receipts[k]
        /\ receipts'[Len(receipts) + 1] =
              [type |-> r.type, tool |-> r.tool, of |-> r.of, outcome |-> r.outcome,
               previous_receipt_hash |-> previousReceiptHash]
    BY <2>1, ReceiptEffect DEF TypeInv
  <2>3. /\ receipts'[Len(receipts) + 1].type = "kill_switch"
        /\ receipts'[Len(receipts) + 1].previous_receipt_hash = previousReceiptHash
    BY <2>1, <2>2
  <2>4. ChainVerifies => ChainVerifies'
    BY <2>2, <2>3 DEF ChainVerifies, verifyReceiptChain, Preceding, genesis
  <2>5. \A k : InvocationAt(k)' <=> InvocationAt(k)
    BY <2>2, <2>3 DEF InvocationAt
  <2>6. /\ \A d \in Callers \ {c} : call'[d] = call[d]
        /\ call'[c].op = "idle"
    BY <1>2 DEF Ends, TypeInv, TypeOK, Idle
  <2> QED BY <2>2, <2>4, <2>5, <2>6
<1> QED BY <1>1, <1>2, KillFromCases

LEMMA ChainNext == TypeInv /\ ChainVerifies /\ [Next]_vars => ChainVerifies'
<1> SUFFICES ASSUME TypeInv, ChainVerifies, [Next]_vars PROVE ChainVerifies'
  OBVIOUS
<1>1. ASSUME UNCHANGED <<receipts, previousReceiptHash>> PROVE ChainVerifies'
  BY <1>1 DEF ChainVerifies, verifyReceiptChain
<1>2. ASSUME NEW c \in Callers, NEW i, NEW due, KillFrom(c, i, due) PROVE ChainVerifies'
  BY <1>2, KillReceipt
<1>3. ASSUME NEW c \in Callers, invokeResumes(c) PROVE ChainVerifies'
  <2> DEFINE r == [type |-> "invocation", tool |-> call[c].tool, of |-> call[c].of,
                   outcome |-> call[c].outcome]
  <2>1. /\ r.type \in {"invocation", "kill_switch"}
        /\ r.tool \in Tools \cup {"self"}
        /\ r.of \in Nat /\ r.outcome \in Outcomes \cup {"none"}
        /\ createLocalReceipt(r)
    BY <1>3, CallShape DEF invokeResumes, TypeInv
  <2> HIDE DEF r
  <2>2. /\ previousReceiptHash' = Len(receipts) + 1
        /\ Len(receipts) \in Nat
        /\ Len(receipts') = Len(receipts) + 1
        /\ DOMAIN receipts = 1 .. Len(receipts)
        /\ DOMAIN receipts' = 1 .. Len(receipts) + 1
        /\ \A k \in DOMAIN receipts : receipts'[k] = receipts[k]
        /\ receipts'[Len(receipts) + 1] =
              [type |-> r.type, tool |-> r.tool, of |-> r.of, outcome |-> r.outcome,
               previous_receipt_hash |-> previousReceiptHash]
    BY <2>1, ReceiptEffect DEF TypeInv
  <2>3. receipts'[Len(receipts) + 1].previous_receipt_hash = previousReceiptHash
    BY <2>2
  <2> QED BY <2>2, <2>3 DEF ChainVerifies, verifyReceiptChain, Preceding, genesis
<1> QED
  BY <1>1, <1>2, <1>3
  DEF Next, vars, discover, invoke, ToolServes, subscribe, ToolGrants, subscribeResumes,
      killSwitch, ToolCancels, killSwitchResumes, CallFails, DeleteFails

\* However calls overlap or fail, verifyReceiptChain accepts the local chain.
THEOREM ChainAlwaysVerifies == Spec => []ChainVerifies
<1>1. Init => TypeInv /\ ChainVerifies
  BY TypeInit DEF Init, ChainVerifies, verifyReceiptChain, genesis
<1>2. TypeInv /\ ChainVerifies /\ [Next]_vars => TypeInv' /\ ChainVerifies'
  BY TypeNext, ChainNext
<1> QED BY <1>1, <1>2, PTL DEF Spec

-----------------------------------------------------------------------------
(* Receipts and answered invocations *)

\* A step that leaves the invocations of the receipts, the answers in flight and
\* the Tools' side as they are keeps AccountInv.
LEMMA AccountFrame ==
    ASSUME AccountInv, UNCHANGED <<served, lost>>,
           \A k : InvocationAt(k)' <=> InvocationAt(k),
           \A k \in DOMAIN receipts : k \in DOMAIN receipts' /\ receipts'[k] = receipts[k],
           \A d \in Callers : Answered(d, "invoke")' <=> Answered(d, "invoke"),
           \A d \in Callers : Answered(d, "invoke") => call'[d] = call[d]
    PROVE  AccountInv'
<1>1. \A k : InvocationAt(k) => k \in DOMAIN receipts /\ receipts'[k] = receipts[k]
  BY DEF InvocationAt
<1>2. \A k \in DOMAIN receipts' : InvocationAt(k)' =>
         /\ receipts'[k].of \in DOMAIN served' \ lost'
         /\ served'[receipts'[k].of] = receipts'[k].tool
  BY <1>1 DEF AccountInv
<1>3. \A k, l \in DOMAIN receipts' :
         InvocationAt(k)' /\ InvocationAt(l)' /\ receipts'[k].of = receipts'[l].of => k = l
  BY <1>1 DEF AccountInv
<1>4. ASSUME NEW n \in DOMAIN served'
      PROVE  \/ n \in lost'
             \/ \E k \in DOMAIN receipts' : InvocationAt(k)' /\ receipts'[k].of = n
             \/ \E d \in Callers : Answered(d, "invoke")' /\ call'[d].of = n
  BY <1>1 DEF AccountInv
<1>5. ASSUME NEW d \in Callers, Answered(d, "invoke")'
      PROVE  /\ call'[d].of \notin lost'
             /\ served'[call'[d].of] = call'[d].tool
             /\ \A k \in DOMAIN receipts' : InvocationAt(k)' => receipts'[k].of # call'[d].of
             /\ \A e \in Callers :
                    Answered(e, "invoke")' /\ call'[e].of = call'[d].of => e = d
  BY <1>1, <1>5 DEF AccountInv
<1> QED BY <1>2, <1>3, <1>4, <1>5 DEF AccountInv

LEMMA AccountNext == TypeInv /\ AccountInv /\ [Next]_vars => AccountInv'
<1> SUFFICES ASSUME TypeInv, AccountInv, [Next]_vars PROVE AccountInv'
  OBVIOUS
<1> USE DEF tools, history
\* Steps that do not concern an invocation that was answered.
<1>1. ASSUME UNCHANGED <<receipts, served, lost>>, NEW c \in Callers,
             \A d \in Callers \ {c} : call'[d] = call[d],
             ~ Answered(c, "invoke"), ~ Answered(c, "invoke")'
      PROVE  AccountInv'
  BY <1>1, AccountFrame DEF InvocationAt, Answered
<1>2. ASSUME NEW c \in Callers, NEW i, NEW due, KillFrom(c, i, due),
             ~ Answered(c, "invoke"), UNCHANGED <<served, lost>>
      PROVE  AccountInv'
  BY <1>2, KillReceipt, AccountFrame DEF Answered
<1>3. ASSUME UNCHANGED <<receipts, served, lost, call>> PROVE AccountInv'
  BY <1>3, AccountFrame DEF InvocationAt, Answered
<1>4. ASSUME NEW c \in Callers, NEW t \in Tools, invoke(c, t) PROVE AccountInv'
  BY <1>1, <1>4 DEF invoke, Answered, Idle, TypeInv, TypeOK
<1>5. ASSUME NEW c \in Callers, ToolServes(c) PROVE AccountInv'
  <2> DEFINE n == Len(served) + 1
  <2>1. /\ served \in Seq(Tools) /\ call[c].tool \in Tools
        /\ served' = Append(served, call[c].tool)
    BY <1>5, CallShape DEF ToolServes, TypeInv, TypeOK
  <2>2. /\ DOMAIN served' = DOMAIN served \cup {n} /\ n \notin DOMAIN served
        /\ \A k \in DOMAIN served : served'[k] = served[k]
        /\ served'[n] = call[c].tool
    <3>1. /\ Len(served) \in Nat
          /\ DOMAIN served = 1 .. Len(served)
          /\ DOMAIN served' = 1 .. Len(served) + 1
          /\ \A k \in DOMAIN served : served'[k] = served[k]
          /\ served'[Len(served) + 1] = call[c].tool
      BY <2>1
    <3> QED BY <3>1
  <2>3. /\ call'[c].op = "invoke" /\ call'[c].at = "answered"
        /\ call'[c].tool = call[c].tool /\ call'[c].of = n
        /\ \A d \in Callers \ {c} : call'[d] = call[d]
    <3>1. call[c] \in [op : {"invoke"}, at : {"sent", "answered"}, tool : Tools,
                       outcome : Outcomes, of : Nat]
      BY <1>5, CallShape DEF ToolServes, TypeInv
    <3>2. call' = [call EXCEPT ![c] = [call[c] EXCEPT !.at = "answered", !.of = n]]
      BY <1>5 DEF ToolServes
    <3> HIDE DEF n
    <3> QED BY <3>1, <3>2 DEF TypeInv, TypeOK
  <2>4. UNCHANGED <<receipts, lost>> /\ lost \subseteq DOMAIN served
        /\ ~ Answered(c, "invoke")
    BY <1>5 DEF ToolServes, TypeInv, TypeOK, Answered
  <2>5. \A d \in Callers : Answered(d, "invoke") => d # c /\ call[d].of \in DOMAIN served
    BY <2>4 DEF TypeInv, Refs
  <2>6. \A d \in Callers : d # c => (Answered(d, "invoke")' <=> Answered(d, "invoke"))
    BY <2>3 DEF Answered
  <2>7. Answered(c, "invoke")' /\ \A k : InvocationAt(k)' <=> InvocationAt(k)
    BY <2>3, <2>4 DEF Answered, InvocationAt
  <2> HIDE DEF n
  <2>8. /\ \A k \in DOMAIN receipts' : InvocationAt(k)' =>
               /\ receipts'[k].of \in DOMAIN served' \ lost'
               /\ served'[receipts'[k].of] = receipts'[k].tool
        /\ \A k, l \in DOMAIN receipts' :
               InvocationAt(k)' /\ InvocationAt(l)' /\ receipts'[k].of = receipts'[l].of
                  => k = l
    BY <2>2, <2>4, <2>7 DEF AccountInv
  <2>9. ASSUME NEW k \in DOMAIN served'
        PROVE  \/ k \in lost'
               \/ \E l \in DOMAIN receipts' : InvocationAt(l)' /\ receipts'[l].of = k
               \/ \E d \in Callers : Answered(d, "invoke")' /\ call'[d].of = k
    <3>1. CASE k = n
      BY <2>3, <2>7, <3>1
    <3>2. CASE k \in DOMAIN served
      BY <2>3, <2>4, <2>5, <2>6, <2>7, <3>2 DEF AccountInv
    <3> QED BY <2>2, <3>1, <3>2
  <2>10. ASSUME NEW d \in Callers, Answered(d, "invoke")'
         PROVE  /\ call'[d].of \notin lost'
                /\ served'[call'[d].of] = call'[d].tool
                /\ \A k \in DOMAIN receipts' :
                       InvocationAt(k)' => receipts'[k].of # call'[d].of
                /\ \A e \in Callers :
                       Answered(e, "invoke")' /\ call'[e].of = call'[d].of => e = d
    <3>1. CASE d = c
      <4>1. \A k \in DOMAIN receipts : InvocationAt(k) => receipts[k].of # n
        BY <2>2 DEF AccountInv
      <4>2. \A e \in Callers \ {c} : Answered(e, "invoke")' => call'[e].of # n
        BY <2>2, <2>3, <2>5, <2>6
      <4> QED BY <2>2, <2>3, <2>4, <2>7, <3>1, <4>1, <4>2
    <3>2. CASE d # c
      <4>1. Answered(d, "invoke") /\ call'[d] = call[d] /\ call[d].of \in DOMAIN served
        BY <2>3, <2>5, <2>6, <2>10, <3>2
      <4>2. \A e \in Callers :
               Answered(e, "invoke")' /\ call'[e].of = call'[d].of => e = d
        BY <2>2, <2>3, <2>6, <4>1 DEF AccountInv
      <4> QED BY <2>2, <2>4, <2>7, <4>1, <4>2 DEF AccountInv
    <3> QED BY <3>1, <3>2
  <2> QED BY <2>8, <2>9, <2>10 DEF AccountInv
<1>6. ASSUME NEW c \in Callers, invokeResumes(c) PROVE AccountInv'
  <2> DEFINE r == [type |-> "invocation", tool |-> call[c].tool, of |-> call[c].of,
                   outcome |-> call[c].outcome]
  <2>1. /\ r.type = "invocation" /\ r.type \in {"invocation", "kill_switch"}
        /\ r.tool \in Tools \cup {"self"} /\ r.tool = call[c].tool
        /\ r.of \in Nat /\ r.of = call[c].of /\ r.outcome \in Outcomes \cup {"none"}
        /\ createLocalReceipt(r)
    BY <1>6, CallShape DEF invokeResumes, TypeInv
  <2> HIDE DEF r
  <2>2. /\ Len(receipts) \in Nat
        /\ DOMAIN receipts = 1 .. Len(receipts)
        /\ DOMAIN receipts' = 1 .. Len(receipts) + 1
        /\ \A k \in DOMAIN receipts : receipts'[k] = receipts[k]
        /\ receipts'[Len(receipts) + 1] =
              [type |-> r.type, tool |-> r.tool, of |-> r.of, outcome |-> r.outcome,
               previous_receipt_hash |-> previousReceiptHash]
    BY <2>1, ReceiptEffect DEF TypeInv
  <2> PICK m : m = Len(receipts) + 1
    OBVIOUS
  <2>3. /\ receipts'[m].type = "invocation" /\ receipts'[m].of = call[c].of
        /\ receipts'[m].tool = call[c].tool
    BY <2>1, <2>2
  <2>4. DOMAIN receipts' = DOMAIN receipts \cup {m} /\ m \notin DOMAIN receipts
    BY <2>2
  <2>5. /\ UNCHANGED <<served, lost>> /\ Answered(c, "invoke")
        /\ call[c].of \in DOMAIN served
        /\ \A d \in Callers \ {c} : call'[d] = call[d]
        /\ ~ Answered(c, "invoke")'
    BY <1>6 DEF invokeResumes, Resumes, Answered, Idle, TypeInv, TypeOK, Refs
  <2>6. \A d \in Callers \ {c} : Answered(d, "invoke")' <=> Answered(d, "invoke")
    BY <2>5 DEF Answered
  <2>7. /\ InvocationAt(m)'
        /\ \A k : k # m => (InvocationAt(k)' <=> InvocationAt(k))
        /\ \A k : InvocationAt(k) => k \in DOMAIN receipts
    BY <2>2, <2>3, <2>4 DEF InvocationAt
  <2>8. \A k \in DOMAIN receipts' : InvocationAt(k)' =>
           /\ receipts'[k].of \in DOMAIN served' \ lost'
           /\ served'[receipts'[k].of] = receipts'[k].tool
    BY <2>2, <2>3, <2>4, <2>5, <2>7 DEF AccountInv
  <2>9. \A k, l \in DOMAIN receipts' :
           InvocationAt(k)' /\ InvocationAt(l)' /\ receipts'[k].of = receipts'[l].of
              => k = l
    BY <2>2, <2>3, <2>4, <2>5, <2>7 DEF AccountInv
  <2>10. ASSUME NEW n \in DOMAIN served'
         PROVE  \/ n \in lost'
                \/ \E k \in DOMAIN receipts' : InvocationAt(k)' /\ receipts'[k].of = n
                \/ \E d \in Callers : Answered(d, "invoke")' /\ call'[d].of = n
    <3>1. CASE n = call[c].of
      BY <2>3, <2>4, <2>7, <3>1
    <3>2. CASE n # call[c].of
      BY <2>2, <2>4, <2>5, <2>6, <2>7, <3>2 DEF AccountInv
    <3> QED BY <3>1, <3>2
  <2>11. ASSUME NEW d \in Callers, Answered(d, "invoke")'
         PROVE  /\ call'[d].of \notin lost'
                /\ served'[call'[d].of] = call'[d].tool
                /\ \A k \in DOMAIN receipts' :
                       InvocationAt(k)' => receipts'[k].of # call'[d].of
                /\ \A e \in Callers :
                       Answered(e, "invoke")' /\ call'[e].of = call'[d].of => e = d
    <3>1. d # c /\ Answered(d, "invoke") /\ call'[d] = call[d]
      BY <2>5, <2>6, <2>11
    <3>2. call[d].of # call[c].of
      BY <2>5, <3>1 DEF AccountInv
    <3>3. \A k \in DOMAIN receipts' : InvocationAt(k)' => receipts'[k].of # call'[d].of
      BY <2>2, <2>3, <2>4, <2>7, <3>1, <3>2 DEF AccountInv
    <3>4. \A e \in Callers : Answered(e, "invoke")' /\ call'[e].of = call'[d].of => e = d
      BY <2>5, <2>6, <3>1 DEF AccountInv
    <3> QED BY <2>5, <3>1, <3>3, <3>4 DEF AccountInv
  <2> QED BY <2>8, <2>9, <2>10, <2>11 DEF AccountInv
<1>7. ASSUME NEW c \in Callers, CallFails(c) PROVE AccountInv'
  <2>1. CASE ~ Answered(c, "invoke")
    BY <1>1, <1>7, <2>1 DEF CallFails, Answered, Idle, TypeInv, TypeOK
  <2>2. CASE Answered(c, "invoke")
    <3>1. /\ UNCHANGED <<receipts, served>> /\ lost' = lost \cup {call[c].of}
          /\ \A d \in Callers \ {c} : call'[d] = call[d]
          /\ ~ Answered(c, "invoke")'
      BY <1>7, <2>2 DEF CallFails, Answered, Idle, TypeInv, TypeOK
    <3>2. \A d \in Callers \ {c} : Answered(d, "invoke")' <=> Answered(d, "invoke")
      BY <3>1 DEF Answered
    <3>3. \A k : InvocationAt(k)' <=> InvocationAt(k)
      BY <3>1 DEF InvocationAt
    <3>4. ASSUME NEW n \in DOMAIN served'
          PROVE  \/ n \in lost'
                 \/ \E k \in DOMAIN receipts' : InvocationAt(k)' /\ receipts'[k].of = n
                 \/ \E d \in Callers : Answered(d, "invoke")' /\ call'[d].of = n
      BY <3>1, <3>2, <3>3 DEF AccountInv
    <3>5. ASSUME NEW d \in Callers, Answered(d, "invoke")'
          PROVE  /\ call'[d].of \notin lost'
                 /\ served'[call'[d].of] = call'[d].tool
                 /\ \A k \in DOMAIN receipts' :
                        InvocationAt(k)' => receipts'[k].of # call'[d].of
                 /\ \A e \in Callers :
                        Answered(e, "invoke")' /\ call'[e].of = call'[d].of => e = d
      BY <2>2, <3>1, <3>2, <3>3, <3>5 DEF AccountInv
    <3>6. \A k \in DOMAIN receipts' : InvocationAt(k)' =>
             /\ receipts'[k].of \in DOMAIN served' \ lost'
             /\ served'[receipts'[k].of] = receipts'[k].tool
      BY <2>2, <3>1, <3>3 DEF AccountInv
    <3>7. \A k, l \in DOMAIN receipts' :
             InvocationAt(k)' /\ InvocationAt(l)' /\ receipts'[k].of = receipts'[l].of
                => k = l
      BY <3>1, <3>3 DEF AccountInv
    <3> QED BY <3>4, <3>5, <3>6, <3>7 DEF AccountInv
  <2> QED BY <2>1, <2>2
<1>8. ASSUME NEW c \in Callers,
             \/ (\E t \in Tools : subscribe(c, t)) \/ ToolGrants(c) \/ subscribeResumes(c)
             \/ ToolCancels(c)
      PROVE  AccountInv'
  <2>1. ~ Answered(c, "invoke") /\ UNCHANGED <<receipts, served, lost>>
    <3>1. UNCHANGED <<receipts, served, lost>>
      BY <1>8 DEF subscribe, ToolGrants, subscribeResumes, ToolCancels
    <3>2. call[c] = Idle \/ call[c].op = "subscribe" \/ call[c].op = "kill"
      BY <1>8 DEF subscribe, ToolGrants, subscribeResumes, ToolCancels
    <3>3. call[c].op # "invoke"
      BY <3>2 DEF Idle
    <3> QED BY <3>1, <3>3 DEF Answered
  <2>2. \A d \in Callers \ {c} : call'[d] = call[d]
    BY <1>8 DEF subscribe, ToolGrants, subscribeResumes, ToolCancels, TypeInv, TypeOK
  <2>3. call'[c].op # "invoke"
    <3>1. CASE subscribeResumes(c)
      BY <3>1 DEF subscribeResumes, Idle, TypeInv, TypeOK
    <3>2. CASE \E t \in Tools : subscribe(c, t)
      BY <3>2 DEF subscribe, TypeInv, TypeOK
    <3>3. CASE ToolGrants(c)
      <4>1. call[c] \in [op : {"subscribe"}, at : {"sent", "answered"}, tool : Tools,
                         sub : Nat]
        BY <3>3, CallShape DEF ToolGrants, TypeInv
      <4> QED BY <3>3, <4>1 DEF ToolGrants, TypeInv, TypeOK
    <3>4. CASE ToolCancels(c)
      BY <3>4 DEF ToolCancels, TypeInv, TypeOK
    <3> QED BY <1>8, <3>1, <3>2, <3>3, <3>4
  <2> QED BY <1>1, <2>1, <2>2, <2>3 DEF Answered
<1>9. ASSUME NEW c \in Callers, killSwitch(c) \/ killSwitchResumes(c) \/ DeleteFails(c)
      PROVE  AccountInv'
  BY <1>2, <1>9 DEF killSwitch, killSwitchResumes, DeleteFails, Answered, Idle
<1>10. ASSUME UNCHANGED vars \/ \E t \in Tools : discover(t) PROVE AccountInv'
  BY <1>3, <1>10 DEF vars, discover
<1> QED BY <1>4, <1>5, <1>6, <1>7, <1>8, <1>9, <1>10 DEF Next

\* Whatever overlaps or fails, no invocation that a Tool answered goes without a
\* local receipt, or gets two, unless its answer did not arrive.
THEOREM AlwaysAccounted == Spec => []Accounted
<1>1. Init => TypeInv /\ AccountInv
  BY TypeInit DEF Init, AccountInv, InvocationAt, Answered, Idle
<1>2. TypeInv /\ AccountInv /\ [Next]_vars => TypeInv' /\ AccountInv'
  BY TypeNext, AccountNext
<1>3. AccountInv => Accounted
  BY DEF AccountInv, Accounted, InvocationAt, Answered
<1> QED BY <1>1, <1>2, <1>3, PTL DEF Spec

\* The local chain verifies and accounts for every answer, whatever overlaps or fails.
THEOREM ChainSound == Spec => []LocalChainSound
BY ChainAlwaysVerifies, AlwaysAccounted, PTL DEF LocalChainSound

-----------------------------------------------------------------------------
(* The subscriptions *)

\* A subscription on its way to the agent is new; an entry is of its own Tool; and
\* only what was obtained is ever canceled.
EntryInv ==
    /\ \A c \in Callers : Answered(c, "subscribe") =>
           /\ call[c].sub \notin obtained
           /\ granted[call[c].sub].tool = call[c].tool
           /\ \A d \in Callers :
                  Answered(d, "subscribe") /\ call[d].sub = call[c].sub => d = c
    /\ \A i \in DOMAIN subscriptions :
           Holds(i) => granted[subscriptions[i].sub].tool = subscriptions[i].tool
    /\ \A s \in DOMAIN granted : granted[s].status = "canceled" => s \in obtained

\* The kill switch of c has dealt with what is due behind its slot, and with what
\* is due in its slot when the answer is there.
DealtWith(s) == granted[s].status # "active" \/ s \in unanswered
KillOf(c) ==
    /\ \A s \in call[c].due : granted[s].tool \in manifests
    /\ call[c].at = "answered" => granted[call[c].sub].status # "active"
    /\ \A i \in DOMAIN subscriptions :
           Holds(i) /\ subscriptions[i].sub \in call[c].due =>
               /\ i < call[c].slot => DealtWith(subscriptions[i].sub)
               /\ i = call[c].slot => subscriptions[i].sub = call[c].sub
KillInv == \A c \in Callers : call[c].op = "kill" => KillOf(c)

-----------------------------------------------------------------------------
(* What the steps change *)

\* What a kill switch passed to KillFrom leaves.
LEMMA KillFromEffect ==
    ASSUME TypeInv, NEW c \in Callers, NEW i, NEW due, KillFrom(c, i, due)
    PROVE  /\ \A d \in Callers \ {c} : call'[d] = call[d]
           /\ call'[c].op \in {"idle", "kill"}
           /\ \A k : Holds(k)' => Holds(k) /\ subscriptions'[k] = subscriptions[k]
<1>1. CASE Moves(c, i, due)
  BY <1>1, KillReceipt DEF Moves, Holds
<1>2. CASE Ends(c, i)
  BY <1>2, KillReceipt DEF Ends, Holds
<1> QED BY <1>1, <1>2, KillFromCases

\* A DELETE changes the status of one subscription, and not to active.
LEMMA CancelEffect ==
    ASSUME TypeInv, NEW c \in Callers, ToolCancels(c)
    PROVE  /\ DOMAIN granted' = DOMAIN granted
           /\ call[c].sub \in obtained
           /\ \A s \in DOMAIN granted : /\ granted'[s].tool = granted[s].tool
                                        /\ s # call[c].sub => granted'[s] = granted[s]
           /\ granted'[call[c].sub].status # "active"
           /\ \A d \in Callers \ {c} : call'[d] = call[d]
           /\ call'[c].op = "kill" /\ call'[c].due = call[c].due
           /\ call'[c].slot = call[c].slot /\ call'[c].sub = call[c].sub
<1> DEFINE Grant == [tool : Tools, status : {"active", "refused", "canceled"}]
           n     == call[c].sub
           g     == [granted[n] EXCEPT !.status = IF @ = "refused" THEN @ ELSE "canceled"]
<1>1. granted \in Seq(Grant) /\ n \in obtained /\ n \in DOMAIN granted
  BY DEF ToolCancels, TypeInv, TypeOK, Refs
<1> HIDE DEF Grant
<1>2. granted[n] \in Grant
  BY <1>1
<1> USE DEF Grant
<1>3. g.tool = granted[n].tool /\ g.status # "active"
  BY <1>2
<1>4. granted' = [granted EXCEPT ![n] = g]
  BY DEF ToolCancels
<1> HIDE DEF g
<1>5. /\ DOMAIN granted' = DOMAIN granted
      /\ \A s \in DOMAIN granted : s # n => granted'[s] = granted[s]
      /\ granted'[n] = g
  BY <1>1, <1>4
<1>6. \A d \in Callers \ {c} : call'[d] = call[d]
  BY DEF ToolCancels, TypeInv, TypeOK
<1>7. /\ call'[c].op = "kill" /\ call'[c].due = call[c].due
      /\ call'[c].slot = call[c].slot /\ call'[c].sub = n
  <2>1. call[c] \in [op : {"kill"}, at : {"sent", "answered"}, slot : Nat, sub : Nat,
                     due : SUBSET Nat]
    BY CallShape DEF ToolCancels, TypeInv
  <2>2. call' = [call EXCEPT ![c] = [call[c] EXCEPT !.at = "answered"]]
    BY DEF ToolCancels, TypeInv, TypeOK
  <2> QED BY <2>1, <2>2 DEF TypeInv, TypeOK
<1> QED BY <1>1, <1>3, <1>5, <1>6, <1>7

\* A Tool's answer to a subscription request appends a new subscription.
LEMMA GrantEffect ==
    ASSUME TypeInv, NEW c \in Callers, ToolGrants(c)
    PROVE  /\ DOMAIN granted' = DOMAIN granted \cup {Len(granted) + 1}
           /\ Len(granted) + 1 \notin DOMAIN granted
           /\ \A s \in DOMAIN granted : granted'[s] = granted[s]
           /\ granted'[Len(granted) + 1].tool = call[c].tool
           /\ granted'[Len(granted) + 1].status # "canceled"
           /\ \A d \in Callers \ {c} : call'[d] = call[d]
           /\ call'[c].op = "subscribe" /\ call'[c].sub = Len(granted) + 1
           /\ call'[c].tool = call[c].tool
<1> DEFINE Grant == [tool : Tools, status : {"active", "refused", "canceled"}]
<1>1. call[c] \in [op : {"subscribe"}, at : {"sent", "answered"}, tool : Tools, sub : Nat]
  BY CallShape DEF ToolGrants, TypeInv
<1>2. PICK g \in Grant : /\ granted' = Append(granted, g)
                         /\ g.tool = call[c].tool /\ g.status # "canceled"
  <2>1. PICK status \in {"active", "refused"} :
           granted' = Append(granted, [tool |-> call[c].tool, status |-> status])
    BY DEF ToolGrants
  <2>2. call[c].tool \in Tools
    BY <1>1
  <2> QED BY <2>1, <2>2
<1>3. granted \in Seq(Grant)
  BY DEF TypeInv, TypeOK
<1> HIDE DEF Grant
<1>4. /\ Len(granted) \in Nat
      /\ DOMAIN granted = 1 .. Len(granted)
      /\ DOMAIN granted' = 1 .. Len(granted) + 1
      /\ \A s \in DOMAIN granted : granted'[s] = granted[s]
      /\ granted'[Len(granted) + 1] = g
  BY <1>2, <1>3
<1>5. \A d \in Callers \ {c} : call'[d] = call[d]
  BY DEF ToolGrants, TypeInv, TypeOK
<1>6. /\ call'[c].op = "subscribe" /\ call'[c].sub = Len(granted) + 1
      /\ call'[c].tool = call[c].tool
  BY <1>1 DEF ToolGrants, TypeInv, TypeOK
<1> QED BY <1>2, <1>4, <1>5, <1>6

\* An answer that resumes a subscribe adds its subscription to what was obtained,
\* and an entry that changes is of that subscription.
LEMMA ObtainEffect ==
    ASSUME TypeInv, NEW c \in Callers, subscribeResumes(c)
    PROVE  /\ Answered(c, "subscribe")
           /\ obtained' = obtained \cup {call[c].sub}
           /\ \A d \in Callers \ {c} : call'[d] = call[d]
           /\ call'[c].op = "idle"
           /\ \A k : Holds(k)' =>
                 \/ Holds(k) /\ subscriptions'[k] = subscriptions[k]
                 \/ /\ subscriptions'[k].sub = call[c].sub
                    /\ subscriptions'[k].tool = call[c].tool
<1>1. call[c].tool \in Tools /\ call[c].sub \in Nat
  BY CallShape DEF subscribeResumes, TypeInv
<1>2. \A k \in DOMAIN subscriptions' :
         \/ subscriptions'[k] = [tool |-> call[c].tool, sub |-> call[c].sub]
         \/ k \in DOMAIN subscriptions /\ subscriptions'[k] = subscriptions[k]
  BY <1>1, SetEffect DEF subscribeResumes, TypeInv
<1>3. /\ \A d \in Callers \ {c} : call'[d] = call[d]
      /\ call'[c].op = "idle"
  BY DEF subscribeResumes, Idle, TypeInv, TypeOK
<1>4. Answered(c, "subscribe") /\ obtained' = obtained \cup {call[c].sub}
  BY DEF subscribeResumes, Resumes, Answered
<1> QED BY <1>2, <1>3, <1>4 DEF Holds

-----------------------------------------------------------------------------
(* Entries *)

\* A step that brings no answer to a subscribe, and changes no subscription.
LEMMA EntryFrame ==
    ASSUME EntryInv, UNCHANGED <<granted, obtained>>,
           \A d \in Callers :
               Answered(d, "subscribe")' => Answered(d, "subscribe") /\ call'[d] = call[d],
           \A k : Holds(k)' => Holds(k) /\ subscriptions'[k] = subscriptions[k]
    PROVE  EntryInv'
<1>1. \A d \in Callers : Answered(d, "subscribe")' =>
         /\ call'[d].sub \notin obtained'
         /\ granted'[call'[d].sub].tool = call'[d].tool
         /\ \A e \in Callers :
                Answered(e, "subscribe")' /\ call'[e].sub = call'[d].sub => e = d
  BY DEF EntryInv
<1>2. \A k \in DOMAIN subscriptions' :
         Holds(k)' => granted'[subscriptions'[k].sub].tool = subscriptions'[k].tool
  BY DEF EntryInv, Holds
<1>3. \A s \in DOMAIN granted' : granted'[s].status = "canceled" => s \in obtained'
  BY DEF EntryInv
<1> QED BY <1>1, <1>2, <1>3 DEF EntryInv

LEMMA EntryNext == TypeInv /\ EntryInv /\ [Next]_vars => EntryInv'
<1> SUFFICES ASSUME TypeInv, EntryInv, [Next]_vars PROVE EntryInv'
  OBVIOUS
<1> USE DEF tools, history
<1>1. ASSUME UNCHANGED <<granted, obtained, subscriptions>>, NEW c \in Callers,
             \A d \in Callers \ {c} : call'[d] = call[d],
             ~ Answered(c, "subscribe")'
      PROVE  EntryInv'
  BY <1>1, EntryFrame DEF Answered, Holds
<1>2. ASSUME NEW c \in Callers,
             \/ (\E t \in Tools : invoke(c, t)) \/ (\E t \in Tools : subscribe(c, t))
             \/ ToolServes(c) \/ invokeResumes(c) \/ CallFails(c)
      PROVE  EntryInv'
  <2>1. UNCHANGED <<granted, obtained, subscriptions>>
    BY <1>2 DEF invoke, subscribe, ToolServes, invokeResumes, CallFails
  <2>2. \A d \in Callers \ {c} : call'[d] = call[d]
    BY <1>2 DEF invoke, subscribe, ToolServes, invokeResumes, CallFails, TypeInv, TypeOK
  <2>3. ~ Answered(c, "subscribe")'
    <3>1. CASE invokeResumes(c) \/ CallFails(c)
      BY <3>1 DEF invokeResumes, CallFails, Answered, Idle, TypeInv, TypeOK
    <3>2. CASE \E t \in Tools : invoke(c, t) \/ subscribe(c, t)
      BY <3>2 DEF invoke, subscribe, Answered, TypeInv, TypeOK
    <3>3. CASE ToolServes(c)
      <4>1. call[c] \in [op : {"invoke"}, at : {"sent", "answered"}, tool : Tools,
                         outcome : Outcomes, of : Nat]
        BY <3>3, CallShape DEF ToolServes, TypeInv
      <4>2. call'[c].op = "invoke"
        BY <3>3, <4>1 DEF ToolServes, TypeInv, TypeOK
      <4> QED BY <4>2 DEF Answered
    <3> QED BY <1>2, <3>1, <3>2, <3>3
  <2> QED BY <1>1, <2>1, <2>2, <2>3
<1>3. ASSUME NEW c \in Callers, NEW i, NEW due, KillFrom(c, i, due),
             UNCHANGED <<granted, obtained>>
      PROVE  EntryInv'
  <2>1. \A d \in Callers :
           Answered(d, "subscribe")' => Answered(d, "subscribe") /\ call'[d] = call[d]
    BY <1>3, KillFromEffect DEF Answered
  <2> QED BY <1>3, <2>1, KillFromEffect, EntryFrame
<1>4. ASSUME NEW c \in Callers, killSwitch(c) \/ killSwitchResumes(c) \/ DeleteFails(c)
      PROVE  EntryInv'
  BY <1>3, <1>4 DEF killSwitch, killSwitchResumes, DeleteFails
<1>5. ASSUME NEW c \in Callers, ToolGrants(c) PROVE EntryInv'
  <2> PICK n : n = Len(granted) + 1
    OBVIOUS
  <2>1. /\ DOMAIN granted' = DOMAIN granted \cup {n} /\ n \notin DOMAIN granted
        /\ \A s \in DOMAIN granted : granted'[s] = granted[s]
        /\ granted'[n].tool = call'[c].tool /\ granted'[n].status # "canceled"
        /\ \A d \in Callers \ {c} : call'[d] = call[d]
        /\ call'[c].sub = n
    BY <1>5, GrantEffect
  <2>2. UNCHANGED <<subscriptions, obtained>> /\ obtained \subseteq DOMAIN granted
    BY <1>5 DEF ToolGrants, TypeInv, TypeOK
  <2>3. \A d \in Callers \ {c} : Answered(d, "subscribe")' =>
           Answered(d, "subscribe") /\ call'[d].sub = call[d].sub
           /\ call[d].sub \in DOMAIN granted
    BY <2>1 DEF Answered, TypeInv, Refs
  <2>4. ASSUME NEW d \in Callers, Answered(d, "subscribe")'
        PROVE  /\ call'[d].sub \notin obtained'
               /\ granted'[call'[d].sub].tool = call'[d].tool
               /\ \A e \in Callers :
                      Answered(e, "subscribe")' /\ call'[e].sub = call'[d].sub => e = d
    <3>1. CASE d = c
      BY <2>1, <2>2, <2>3, <3>1
    <3>2. CASE d # c
      <4>1. Answered(d, "subscribe") /\ call'[d] = call[d] /\ call[d].sub \in DOMAIN granted
        BY <2>1, <2>3, <2>4, <3>2
      <4>2. \A e \in Callers :
               Answered(e, "subscribe")' /\ call'[e].sub = call'[d].sub => e = d
        BY <2>1, <2>3, <4>1 DEF EntryInv
      <4> QED BY <2>1, <2>2, <4>1, <4>2 DEF EntryInv
    <3> QED BY <3>1, <3>2
  <2>5. ASSUME NEW k \in DOMAIN subscriptions', Holds(k)'
        PROVE  granted'[subscriptions'[k].sub].tool = subscriptions'[k].tool
    <3>1. Holds(k) /\ subscriptions'[k] = subscriptions[k] /\ k \in DOMAIN subscriptions
      BY <2>2, <2>5 DEF Holds
    <3>2. subscriptions[k].sub \in DOMAIN granted
      BY <2>2, <3>1 DEF TypeInv, Refs
    <3> QED BY <2>1, <3>1, <3>2 DEF EntryInv
  <2>6. \A s \in DOMAIN granted' : granted'[s].status = "canceled" => s \in obtained'
    BY <2>1, <2>2 DEF EntryInv
  <2> QED BY <2>4, <2>5, <2>6 DEF EntryInv
<1>6. ASSUME NEW c \in Callers, subscribeResumes(c) PROVE EntryInv'
  <2> PICK n : n = call[c].sub
    OBVIOUS
  <2>1. /\ Answered(c, "subscribe")
        /\ obtained' = obtained \cup {n}
        /\ \A d \in Callers \ {c} : call'[d] = call[d]
        /\ call'[c].op = "idle"
        /\ \A k : Holds(k)' =>
               \/ Holds(k) /\ subscriptions'[k] = subscriptions[k]
               \/ subscriptions'[k].sub = n /\ subscriptions'[k].tool = call[c].tool
    BY <1>6, ObtainEffect
  <2>2. granted' = granted
    BY <1>6 DEF subscribeResumes
  <2>3. \A d \in Callers : Answered(d, "subscribe")' =>
           d # c /\ Answered(d, "subscribe") /\ call'[d] = call[d]
    BY <2>1 DEF Answered
  <2>4. \A d \in Callers : Answered(d, "subscribe")' =>
           /\ call'[d].sub \notin obtained'
           /\ granted'[call'[d].sub].tool = call'[d].tool
           /\ \A e \in Callers :
                  Answered(e, "subscribe")' /\ call'[e].sub = call'[d].sub => e = d
    BY <2>1, <2>2, <2>3 DEF EntryInv
  <2>5. \A k \in DOMAIN subscriptions' :
           Holds(k)' => granted'[subscriptions'[k].sub].tool = subscriptions'[k].tool
    BY <2>1, <2>2 DEF EntryInv, Holds
  <2>6. \A s \in DOMAIN granted' : granted'[s].status = "canceled" => s \in obtained'
    BY <2>1, <2>2 DEF EntryInv
  <2> QED BY <2>4, <2>5, <2>6 DEF EntryInv
<1>7. ASSUME NEW c \in Callers, ToolCancels(c) PROVE EntryInv'
  <2>1. UNCHANGED <<subscriptions, obtained>> /\ obtained \subseteq DOMAIN granted
    BY <1>7 DEF ToolCancels, TypeInv, TypeOK
  <2>2. \A d \in Callers : Answered(d, "subscribe")' =>
           Answered(d, "subscribe") /\ call'[d] = call[d] /\ call[d].sub \in DOMAIN granted
    BY <1>7, CancelEffect DEF Answered, TypeInv, Refs
  <2>3. \A d \in Callers : Answered(d, "subscribe")' =>
           /\ call'[d].sub \notin obtained'
           /\ granted'[call'[d].sub].tool = call'[d].tool
           /\ \A e \in Callers :
                  Answered(e, "subscribe")' /\ call'[e].sub = call'[d].sub => e = d
    BY <1>7, <2>1, <2>2, CancelEffect DEF EntryInv
  <2>4. ASSUME NEW k \in DOMAIN subscriptions', Holds(k)'
        PROVE  granted'[subscriptions'[k].sub].tool = subscriptions'[k].tool
    <3>1. Holds(k) /\ subscriptions'[k] = subscriptions[k] /\ k \in DOMAIN subscriptions
      BY <2>1, <2>4 DEF Holds
    <3>2. subscriptions[k].sub \in DOMAIN granted
      BY <2>1, <3>1 DEF TypeInv, Refs
    <3> QED BY <1>7, <3>1, <3>2, CancelEffect DEF EntryInv
  <2>5. \A s \in DOMAIN granted' : granted'[s].status = "canceled" => s \in obtained'
    BY <1>7, <2>1, CancelEffect DEF EntryInv
  <2> QED BY <2>3, <2>4, <2>5 DEF EntryInv
<1>8. ASSUME UNCHANGED vars \/ \E t \in Tools : discover(t) PROVE EntryInv'
  <2>1. UNCHANGED <<granted, obtained, subscriptions, call>>
    BY <1>8 DEF vars, discover
  <2> QED BY <2>1, EntryFrame DEF Answered, Holds
<1> QED BY <1>2, <1>4, <1>5, <1>6, <1>7, <1>8 DEF Next

-----------------------------------------------------------------------------
(* The kill switch *)

\* What others do leaves what a kill switch has dealt with: an entry they set is of
\* a subscription that is not due.
LEMMA KillFrame ==
    ASSUME TypeInv, NEW c \in Callers, call[c].op = "kill", KillOf(c), call'[c] = call[c],
           manifests \subseteq manifests', unanswered \subseteq unanswered',
           \A s \in obtained :
               /\ granted'[s].tool = granted[s].tool
               /\ granted[s].status # "active" => granted'[s].status # "active",
           \A k : Holds(k)' => \/ Holds(k) /\ subscriptions'[k] = subscriptions[k]
                              \/ subscriptions'[k].sub \notin obtained
    PROVE  KillOf(c)'
<1>1. call[c].due \subseteq obtained /\ call[c].sub \in obtained
  BY DEF TypeInv, Refs
<1>2. \A s \in call'[c].due : granted'[s].tool \in manifests'
  BY <1>1 DEF KillOf
<1>3. call'[c].at = "answered" => granted'[call'[c].sub].status # "active"
  BY <1>1 DEF KillOf
<1>4. ASSUME NEW k \in DOMAIN subscriptions', Holds(k)', subscriptions'[k].sub \in call'[c].due
      PROVE  /\ k < call'[c].slot => DealtWith(subscriptions[k].sub)'
             /\ k = call'[c].slot => subscriptions'[k].sub = call'[c].sub
  <2>1. /\ Holds(k) /\ k \in DOMAIN subscriptions
        /\ subscriptions'[k] = subscriptions[k]
        /\ subscriptions[k].sub \in obtained /\ subscriptions[k].sub \in call[c].due
    BY <1>1, <1>4 DEF Holds
  <2>2. k < call[c].slot => DealtWith(subscriptions[k].sub)
    BY <2>1 DEF KillOf
  <2>3. k = call[c].slot => subscriptions[k].sub = call[c].sub
    BY <2>1 DEF KillOf
  <2> QED BY <2>1, <2>2, <2>3 DEF DealtWith
<1> QED BY <1>2, <1>3, <1>4 DEF KillOf

\* DealtWith after the step, of a subscription named before it.
DealtWithNext(s) == granted'[s].status # "active" \/ s \in unanswered'

\* The step of a kill switch from slot i on, where what is due before i is dealt
\* with: it goes on to a slot before which all that is due is dealt with, or ends,
\* and then all is.
LEMMA KillStep ==
    ASSUME TypeInv, EntryInv, NEW c \in Callers, NEW i \in Nat, NEW due,
           \A s \in due : granted[s].tool \in manifests,
           KillFrom(c, i, due), UNCHANGED <<manifests, granted>>,
           \A k \in DOMAIN subscriptions :
               Holds(k) /\ subscriptions[k].sub \in due /\ k < i =>
                   DealtWithNext(subscriptions[k].sub)
    PROVE  /\ call'[c].op = "kill" => KillOf(c)'
           /\ call'[c].op = "idle" =>
                 \A k \in DOMAIN subscriptions :
                     Holds(k) /\ subscriptions[k].sub \in due => DealtWithNext(subscriptions[k].sub)
<1>1. \A k \in DOMAIN subscriptions : k \in Nat
  BY DEF TypeInv, TypeOK
<1>2. \A k \in DOMAIN subscriptions :
         Holds(k) /\ subscriptions[k].sub \in due /\ k >= i => k \in Ahead(i)
  BY DEF EntryInv, Holds, Ahead
<1>3. CASE Moves(c, i, due)
  <2>1. PICK j \in DOMAIN subscriptions :
           /\ \A k \in Ahead(i) : j =< k
           /\ call' = [call EXCEPT ![c] = [op |-> "kill", at |-> "sent", slot |-> j,
                                           sub |-> subscriptions[j].sub, due |-> due]]
    BY <1>3 DEF Moves
  <2>2. /\ call'[c].op = "kill" /\ call'[c].at = "sent" /\ call'[c].slot = j
        /\ call'[c].sub = subscriptions[j].sub /\ call'[c].due = due
    BY <2>1 DEF TypeInv, TypeOK
  <2>3. subscriptions' = subscriptions
    BY <1>3 DEF Moves
  <2>4. ASSUME NEW k \in DOMAIN subscriptions, Holds(k), subscriptions[k].sub \in due, k < j
        PROVE  DealtWithNext(subscriptions[k].sub)
    <3>1. k \notin Ahead(i)
      BY <1>1, <2>1, <2>4
    <3>2. k < i
      BY <1>1, <1>2, <2>4, <3>1
    <3> QED BY <2>4, <3>2
  <2>5. KillOf(c)'
    BY <2>2, <2>3, <2>4 DEF KillOf, Holds, DealtWith, DealtWithNext
  <2> QED BY <2>2, <2>5
<1>4. CASE Ends(c, i)
  <2>1. call'[c].op = "idle" /\ Ahead(i) = {}
    BY <1>4 DEF Ends, Idle, TypeInv, TypeOK
  <2>2. ASSUME NEW k \in DOMAIN subscriptions, Holds(k), subscriptions[k].sub \in due
        PROVE  DealtWithNext(subscriptions[k].sub)
    <3>1. k < i
      BY <1>1, <1>2, <2>1, <2>2
    <3> QED BY <2>2, <3>1
  <2> QED BY <2>1, <2>2
<1> QED BY <1>3, <1>4, KillFromCases

\* What a kill switch that starts or goes on does to its due subscriptions.
Continues(c) == killSwitchResumes(c) \/ DeleteFails(c)
LEMMA ContinueStep ==
    ASSUME TypeInv, EntryInv, KillInv, NEW c \in Callers, Continues(c)
    PROVE  /\ call'[c].op = "kill" => KillOf(c)'
           /\ call'[c].op = "idle" =>
                 \A k \in DOMAIN subscriptions :
                     Holds(k) /\ subscriptions[k].sub \in call[c].due =>
                         DealtWithNext(subscriptions[k].sub)
<1>1. call[c].op = "kill" /\ KillOf(c)
  BY DEF Continues, killSwitchResumes, DeleteFails, KillInv
<1>2. call[c].slot \in Nat
  BY <1>1, CallShape DEF TypeInv
<1>3. KillFrom(c, call[c].slot + 1, call[c].due) /\ UNCHANGED <<manifests, granted>>
  BY DEF Continues, killSwitchResumes, DeleteFails, Following, tools
<1>4. \/ UNCHANGED unanswered /\ call[c].at = "answered"
      \/ unanswered' = unanswered \cup {call[c].sub}
  BY DEF Continues, killSwitchResumes, DeleteFails, Resumes, history
<1>5. ASSUME NEW k \in DOMAIN subscriptions, Holds(k), subscriptions[k].sub \in call[c].due,
             k < call[c].slot + 1
      PROVE  DealtWithNext(subscriptions[k].sub)
  <2>1. k \in Nat
    BY DEF TypeInv, TypeOK
  <2>2. CASE k < call[c].slot
    BY <1>1, <1>3, <1>4, <1>5, <2>2 DEF KillOf, DealtWith, DealtWithNext
  <2>3. CASE k = call[c].slot
    BY <1>1, <1>3, <1>4, <1>5, <2>3 DEF KillOf, DealtWith, DealtWithNext
  <2> QED BY <1>2, <1>5, <2>1, <2>2, <2>3
<1>6. call[c].slot + 1 \in Nat /\ \A s \in call[c].due : granted[s].tool \in manifests
  BY <1>1, <1>2 DEF KillOf
<1> QED BY <1>3, <1>5, <1>6, KillStep

LEMMA KillNext == TypeInv /\ EntryInv /\ KillInv /\ [Next]_vars => KillInv'
<1> SUFFICES ASSUME TypeInv, EntryInv, KillInv, [Next]_vars PROVE KillInv'
  OBVIOUS
<1> USE DEF tools, history
<1>1. ASSUME NEW c \in Callers, \A d \in Callers \ {c} : call'[d] = call[d],
             call'[c].op = "kill" => KillOf(c)',
             manifests \subseteq manifests', unanswered \subseteq unanswered',
             \A s \in obtained :
                 /\ granted'[s].tool = granted[s].tool
                 /\ granted[s].status # "active" => granted'[s].status # "active",
             \A k : Holds(k)' => \/ Holds(k) /\ subscriptions'[k] = subscriptions[k]
                                \/ subscriptions'[k].sub \notin obtained
      PROVE  KillInv'
  <2>1. ASSUME NEW d \in Callers, d # c, call'[d].op = "kill" PROVE KillOf(d)'
    BY <1>1, <2>1, KillFrame DEF KillInv
  <2> QED BY <1>1, <2>1 DEF KillInv
<1>2. ASSUME NEW c \in Callers,
             \/ (\E t \in Tools : invoke(c, t)) \/ (\E t \in Tools : subscribe(c, t))
             \/ ToolServes(c) \/ invokeResumes(c) \/ CallFails(c)
      PROVE  KillInv'
  <2>1. UNCHANGED <<granted, subscriptions, manifests, unanswered>>
    BY <1>2 DEF invoke, subscribe, ToolServes, invokeResumes, CallFails
  <2>2. \A d \in Callers \ {c} : call'[d] = call[d]
    BY <1>2 DEF invoke, subscribe, ToolServes, invokeResumes, CallFails, TypeInv, TypeOK
  <2>3. call'[c].op # "kill"
    <3>1. CASE invokeResumes(c) \/ CallFails(c)
      BY <3>1 DEF invokeResumes, CallFails, Idle, TypeInv, TypeOK
    <3>2. CASE \E t \in Tools : invoke(c, t) \/ subscribe(c, t)
      BY <3>2 DEF invoke, subscribe, TypeInv, TypeOK
    <3>3. CASE ToolServes(c)
      <4>1. call[c] \in [op : {"invoke"}, at : {"sent", "answered"}, tool : Tools,
                         outcome : Outcomes, of : Nat]
        BY <3>3, CallShape DEF ToolServes, TypeInv
      <4> QED BY <3>3, <4>1 DEF ToolServes, TypeInv, TypeOK
    <3> QED BY <1>2, <3>1, <3>2, <3>3
  <2> QED BY <1>1, <2>1, <2>2, <2>3 DEF Holds
<1>3. ASSUME NEW c \in Callers, ToolGrants(c) PROVE KillInv'
  <2>1. UNCHANGED <<manifests, subscriptions, unanswered>> /\ obtained \subseteq DOMAIN granted
    BY <1>3 DEF ToolGrants, TypeInv, TypeOK
  <2> QED BY <1>1, <1>3, <2>1, GrantEffect DEF Holds
<1>4. ASSUME NEW c \in Callers, subscribeResumes(c) PROVE KillInv'
  <2>1. UNCHANGED <<manifests, granted, unanswered>>
    BY <1>4 DEF subscribeResumes
  <2>2. call[c].sub \notin obtained
    BY <1>4, ObtainEffect DEF EntryInv
  <2> QED BY <1>1, <1>4, <2>1, <2>2, ObtainEffect
<1>5. ASSUME NEW c \in Callers, NEW i, NEW due, KillFrom(c, i, due),
             UNCHANGED <<manifests, granted>>, unanswered \subseteq unanswered',
             call'[c].op = "kill" => KillOf(c)'
      PROVE  KillInv'
  BY <1>1, <1>5, KillFromEffect
<1>6. ASSUME NEW c \in Callers, killSwitch(c) PROVE KillInv'
  <2> DEFINE due == {s \in obtained : granted[s].tool \in manifests}
  <2>1. /\ KillFrom(c, 1, due) /\ UNCHANGED <<manifests, granted, unanswered>>
        /\ \A s \in due : granted[s].tool \in manifests
    BY <1>6 DEF killSwitch
  <2>2. \A k \in DOMAIN subscriptions : ~ (k < 1)
    BY DEF TypeInv, TypeOK
  <2> HIDE DEF due
  <2>3. call'[c].op = "kill" => KillOf(c)'
    BY <2>1, <2>2, KillStep
  <2> QED BY <1>5, <2>1, <2>3
<1>7. ASSUME NEW c \in Callers, Continues(c) PROVE KillInv'
  <2>1. \E i, due : KillFrom(c, i, due)
    BY <1>7 DEF Continues, killSwitchResumes, DeleteFails
  <2>2. UNCHANGED <<manifests, granted>> /\ unanswered \subseteq unanswered'
    BY <1>7 DEF Continues, killSwitchResumes, DeleteFails
  <2>3. call'[c].op = "kill" => KillOf(c)'
    BY <1>7, ContinueStep
  <2> QED BY <1>5, <2>1, <2>2, <2>3
<1>8. ASSUME NEW c \in Callers, ToolCancels(c) PROVE KillInv'
  <2>1. /\ UNCHANGED <<manifests, subscriptions, unanswered>>
        /\ obtained \subseteq DOMAIN granted /\ call[c].op = "kill"
    BY <1>8 DEF ToolCancels, TypeInv, TypeOK
  <2>2. \A s \in obtained :
           /\ granted'[s].tool = granted[s].tool
           /\ granted[s].status # "active" => granted'[s].status # "active"
    BY <1>8, <2>1, CancelEffect
  <2>3. KillOf(c)'
    <3>1. KillOf(c) /\ call[c].due \subseteq obtained
      BY <2>1 DEF KillInv, TypeInv, Refs
    <3>2. \A s \in call'[c].due : granted'[s].tool \in manifests'
      BY <1>8, <2>1, <2>2, <3>1, CancelEffect DEF KillOf
    <3>3. granted'[call'[c].sub].status # "active"
      BY <1>8, CancelEffect
    <3>4. ASSUME NEW k \in DOMAIN subscriptions', Holds(k)',
                 subscriptions'[k].sub \in call'[c].due
          PROVE  /\ k < call'[c].slot => DealtWith(subscriptions[k].sub)'
                 /\ k = call'[c].slot => subscriptions'[k].sub = call'[c].sub
      <4>1. /\ call'[c].due = call[c].due /\ call'[c].slot = call[c].slot
            /\ call'[c].sub = call[c].sub
        BY <1>8, CancelEffect
      <4>2. Holds(k) /\ subscriptions[k].sub \in call[c].due
        BY <2>1, <3>4, <4>1 DEF Holds
      <4>3. subscriptions[k].sub \in obtained
        BY <3>1, <4>2
      <4> QED BY <2>1, <2>2, <3>1, <4>1, <4>2, <4>3 DEF KillOf, DealtWith
    <3> QED BY <3>2, <3>3, <3>4 DEF KillOf
  <2> QED BY <1>1, <1>8, <2>1, <2>2, <2>3, CancelEffect DEF Holds
<1>9. ASSUME UNCHANGED vars \/ \E t \in Tools : discover(t) PROVE KillInv'
  <2>1. /\ UNCHANGED <<granted, unanswered, subscriptions, call>>
        /\ manifests \subseteq manifests'
    BY <1>9 DEF vars, discover
  <2>2. \A c \in Callers : call[c].op = "kill" /\ KillOf(c) => KillOf(c)'
    BY <2>1, KillFrame DEF Holds
  <2> QED BY <2>1, <2>2 DEF KillInv
<1> QED BY <1>2, <1>3, <1>4, <1>6, <1>7, <1>8, <1>9 DEF Next, Continues

-----------------------------------------------------------------------------
(* What the agent holds when no kill switch is at work *)

\* A kill switch that ends leaves no entry.
LEMMA EndsEmpty ==
    ASSUME TypeInv, NEW c \in Callers, NEW i, NEW due, KillFrom(c, i, due),
           call'[c].op # "kill"
    PROVE  \A k : ~ Holds(k)'
<1>1. ~ Moves(c, i, due)
  BY DEF Moves, TypeInv, TypeOK
<1>2. Ends(c, i)
  BY <1>1, KillFromCases
<1> QED BY <1>2 DEF Ends, Holds

HoldsNoCanceled ==
    \A k \in DOMAIN subscriptions : Holds(k) => granted[subscriptions[k].sub].status # "canceled"
NoKill    == \A c \in Callers : call[c].op # "kill"
ActiveInv == NoKill => HoldsNoCanceled

LEMMA ActiveForm == ActiveInv => ActiveUntilKilled
BY DEF ActiveInv, NoKill, HoldsNoCanceled, ActiveUntilKilled, Held, Holds

LEMMA ActiveNext == TypeInv /\ EntryInv /\ ActiveInv /\ [Next]_vars => ActiveInv'
<1> SUFFICES ASSUME TypeInv, EntryInv, ActiveInv, [Next]_vars, NoKill'
             PROVE  HoldsNoCanceled'
  BY DEF ActiveInv
<1> USE DEF tools, history
\* Steps of a kill switch: the last one clears the entries.
<1>1. ASSUME NEW c \in Callers, NEW i, NEW due, KillFrom(c, i, due) PROVE HoldsNoCanceled'
  <2>1. call'[c].op # "kill"
    BY DEF NoKill
  <2> QED BY <1>1, <2>1, EndsEmpty DEF HoldsNoCanceled
<1>2. ASSUME NEW c \in Callers, killSwitch(c) \/ killSwitchResumes(c) \/ DeleteFails(c)
      PROVE  HoldsNoCanceled'
  BY <1>1, <1>2 DEF killSwitch, killSwitchResumes, DeleteFails
<1>3. ASSUME NEW c \in Callers, ToolCancels(c) PROVE HoldsNoCanceled'
  BY <1>3, CancelEffect DEF NoKill
\* Steps of others, which start and end no kill switch.
<1>4. ASSUME NEW c \in Callers, call[c].op # "kill",
             \A d \in Callers \ {c} : call'[d] = call[d],
             \A s \in obtained : granted'[s] = granted[s],
             \A k : Holds(k)' =>
                 \/ Holds(k) /\ subscriptions'[k] = subscriptions[k]
                 \/ granted'[subscriptions'[k].sub].status # "canceled"
      PROVE  HoldsNoCanceled'
  <2>1. HoldsNoCanceled
    BY <1>4 DEF ActiveInv, NoKill
  <2>2. \A k : Holds(k) => /\ subscriptions[k].sub \in obtained
                           /\ granted[subscriptions[k].sub].status # "canceled"
    BY <2>1 DEF HoldsNoCanceled, Holds, TypeInv, Refs
  <2> QED BY <1>4, <2>2 DEF HoldsNoCanceled
<1>5. ASSUME NEW c \in Callers,
             \/ (\E t \in Tools : invoke(c, t)) \/ (\E t \in Tools : subscribe(c, t))
             \/ ToolServes(c) \/ invokeResumes(c) \/ CallFails(c)
      PROVE  HoldsNoCanceled'
  <2>1. UNCHANGED <<granted, subscriptions>>
    BY <1>5 DEF invoke, subscribe, ToolServes, invokeResumes, CallFails
  <2>2. \A d \in Callers \ {c} : call'[d] = call[d]
    BY <1>5 DEF invoke, subscribe, ToolServes, invokeResumes, CallFails, TypeInv, TypeOK
  <2>3. call[c].op # "kill"
    <3>1. call[c] = Idle \/ call[c].op = "invoke" \/ call[c].op = "subscribe"
      BY <1>5 DEF invoke, subscribe, ToolServes, invokeResumes, CallFails
    <3> QED BY <3>1 DEF Idle
  <2> QED BY <1>4, <2>1, <2>2, <2>3 DEF Holds
<1>6. ASSUME NEW c \in Callers, ToolGrants(c) PROVE HoldsNoCanceled'
  <2>1. /\ UNCHANGED subscriptions /\ obtained \subseteq DOMAIN granted
        /\ call[c].op # "kill"
    BY <1>6 DEF ToolGrants, TypeInv, TypeOK
  <2> QED BY <1>4, <1>6, <2>1, GrantEffect DEF Holds
<1>7. ASSUME NEW c \in Callers, subscribeResumes(c) PROVE HoldsNoCanceled'
  <2>1. UNCHANGED granted /\ call[c].op # "kill"
    BY <1>7 DEF subscribeResumes
  <2>2. granted[call[c].sub].status # "canceled"
    <3>1. call[c].sub \in DOMAIN granted
      BY <1>7, ObtainEffect DEF TypeInv, Refs
    <3>2. call[c].sub \notin obtained
      BY <1>7, ObtainEffect DEF EntryInv
    <3> QED BY <3>1, <3>2 DEF EntryInv
  <2> QED BY <1>4, <1>7, <2>1, <2>2, ObtainEffect
<1>8. ASSUME UNCHANGED vars \/ \E t \in Tools : discover(t) PROVE HoldsNoCanceled'
  <2>1. UNCHANGED <<granted, subscriptions, call>>
    BY <1>8 DEF vars, discover
  <2>2. HoldsNoCanceled
    BY <2>1 DEF ActiveInv, NoKill
  <2> QED BY <2>1, <2>2 DEF HoldsNoCanceled, Holds
<1> QED BY <1>2, <1>3, <1>5, <1>6, <1>7, <1>8 DEF Next

-----------------------------------------------------------------------------
(* The theorems about the subscriptions *)

\* What all steps keep.
KillSwitchInv == TypeInv /\ EntryInv /\ KillInv /\ ActiveInv

LEMMA KillSwitchInvHolds == Spec => []KillSwitchInv
<1>1. Init => EntryInv /\ KillInv /\ ActiveInv
  <2>1. Init => /\ DOMAIN subscriptions = {} /\ DOMAIN granted = {}
                /\ \A c \in Callers : call[c].op = "idle"
    BY DEF Init, Idle
  <2> QED BY <2>1 DEF EntryInv, KillInv, ActiveInv, HoldsNoCanceled, Answered
<1>2. Init => KillSwitchInv
  BY <1>1, TypeInit DEF KillSwitchInv
<1>3. KillSwitchInv /\ [Next]_vars => KillSwitchInv'
  BY TypeNext, EntryNext, KillNext, ActiveNext DEF KillSwitchInv
<1> QED BY <1>2, <1>3, PTL DEF Spec

\* However subscribes and kill switches overlap, the agent holds no canceled
\* subscription once no kill switch is at work.
THEOREM NoneCanceledHeld == Spec => []ActiveUntilKilled
<1>1. KillSwitchInv => ActiveUntilKilled
  BY ActiveForm DEF KillSwitchInv
<1> QED BY <1>1, KillSwitchInvHolds, PTL

\* A kill switch that returns has revoked what was due and is still held, but for a
\* DELETE that failed, whatever was set or cleared while it iterated over the Map.
THEOREM ReturnsRevoked == Spec => KillSwitchRevokes
<1> DEFINE Revokes ==
        \A c \in Callers : Returns(c) =>
            \A s \in call[c].due \cap Held : granted[s].status # "active" \/ s \in unanswered'
<1>1. ASSUME KillSwitchInv, Next, NEW c \in Callers, Returns(c),
             NEW s \in call[c].due \cap Held
      PROVE  granted[s].status # "active" \/ s \in unanswered'
  <2>1. call[c].op = "kill" /\ call'[c].op = "idle"
    BY <1>1 DEF Returns, Idle
  <2>2. Continues(c)
    <3> TypeInv /\ call \in [Callers -> Call]
      BY <1>1 DEF KillSwitchInv, TypeInv, TypeOK
    <3>1. ASSUME NEW d \in Callers, \A e \in Callers \ {d} : call'[e] = call[e] PROVE d = c
      BY <2>1, <3>1
    <3>2. ASSUME NEW t \in Tools, discover(t) PROVE FALSE
      BY <2>1, <3>2 DEF discover
    <3>3. ASSUME NEW d \in Callers,
                 \/ (\E t \in Tools : invoke(d, t)) \/ (\E t \in Tools : subscribe(d, t))
                 \/ ToolServes(d) \/ invokeResumes(d) \/ CallFails(d)
                 \/ ToolGrants(d) \/ subscribeResumes(d)
          PROVE  FALSE
      <4>1. d = c
        <5>1. \A e \in Callers \ {d} : call'[e] = call[e]
          BY <3>3
          DEF invoke, subscribe, ToolServes, invokeResumes, CallFails, ToolGrants,
              subscribeResumes
        <5> QED BY <3>1, <5>1
      <4>2. \/ call[d] = Idle \/ call[d].op = "invoke" \/ call[d].op = "subscribe"
        BY <3>3
        DEF invoke, subscribe, ToolServes, invokeResumes, CallFails, ToolGrants,
            subscribeResumes
      <4> QED BY <2>1, <4>1, <4>2 DEF Idle
    <3>4. ASSUME NEW d \in Callers, killSwitch(d) PROVE FALSE
      <4>1. call[d] = Idle /\ \E i, due : KillFrom(d, i, due)
        BY <3>4 DEF killSwitch
      <4>2. \A e \in Callers \ {d} : call'[e] = call[e]
        BY <4>1, KillFromEffect
      <4>3. d = c
        BY <3>1, <4>2
      <4> QED BY <2>1, <4>1, <4>3 DEF Idle
    <3>5. ASSUME NEW d \in Callers, ToolCancels(d) PROVE FALSE
      BY <2>1, <3>1, <3>5, CancelEffect
    <3>6. ASSUME NEW d \in Callers, Continues(d) PROVE Continues(c)
      <4>1. \E i, due : KillFrom(d, i, due)
        BY <3>6 DEF Continues, killSwitchResumes, DeleteFails
      <4>2. \A e \in Callers \ {d} : call'[e] = call[e]
        BY <4>1, KillFromEffect
      <4>3. d = c
        BY <3>1, <4>2
      <4> QED BY <3>6, <4>3
    <3> QED BY <1>1, <3>2, <3>3, <3>4, <3>5, <3>6 DEF Next, Continues
  <2>3. PICK k \in DOMAIN subscriptions : Holds(k) /\ s = subscriptions[k].sub
    BY DEF Held, Holds
  <2>4. DealtWithNext(s)
    BY <2>1, <2>2, <2>3, ContinueStep, <1>1 DEF KillSwitchInv
  <2>5. granted' = granted
    BY <2>2 DEF Continues, killSwitchResumes, DeleteFails, tools
  <2> QED BY <2>4, <2>5 DEF DealtWithNext
<1>2. KillSwitchInv /\ [Next]_vars => [Revokes]_vars
  BY <1>1
<1> QED BY <1>2, KillSwitchInvHolds, PTL DEF Spec, KillSwitchRevokes

=============================================================================
