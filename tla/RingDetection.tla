--------------------------- MODULE RingDetection ----------------------------
(***************************************************************************)
(* detectRings (reference/ring-detection/ring-detection.js): groups of at   *)
(* least three participants who rate each other highly, found with Tarjan's *)
(* algorithm.  An edge is what one participant recorded of another: its     *)
(* issuer, subject, category, average score and value, in whole numbers.    *)
(***************************************************************************)
EXTENDS Request, Integers, Sequences, FiniteSets, FiniteSetsExt, SequencesExt

CONSTANTS ScoreQuantile, ValueQuantile,   \* each a fraction <<n, d>>
          Agents, Categories,
          Reports                         \* sequences of edges

Edge == [issuer : Agents, subject : Agents, category : Categories, avg_score : Nat, value : Nat]

ASSUME RingsAssumption ==
    /\ ScoreQuantile[1] \in Nat /\ ScoreQuantile[2] \in Nat \ {0}
    /\ Reports \subseteq Seq(Edge)

RingRequests == [to : {"rings"}, edges : Reports]

\* The value that has the index min(len - 1, floor(q * len)) in sorted order.
quantile(values, q) ==
    LET n   == Len(values)
        idx == Min({n - 1, (q[1] * n) \div q[2]})
    IN  IF n = 0 THEN 0
        ELSE CHOOSE v \in ToSet(values) :
                 /\ Cardinality({k \in DOMAIN values : values[k] < v}) =< idx
                 /\ idx < Cardinality({k \in DOMAIN values : values[k] =< v})

Participants(edges) == {e.issuer : e \in ToSet(edges)} \cup {e.subject : e \in ToSet(edges)}

Pairs(edges) == {<<e.issuer, e.subject>> : e \in ToSet(edges)}

\* The score of a pair over all its edges is the greatest, in whatever category.
PairScore_Latest(edges, p) ==                                        \* a mutant
    edges[Max({k \in DOMAIN edges : <<edges[k].issuer, edges[k].subject>> = p})].avg_score
PairScore(edges, p) ==
    Max({e.avg_score : e \in {e \in ToSet(edges) : <<e.issuer, e.subject>> = p}})

\* The pairs that rate each other, with a mean score that reaches the quantile.
Mutual(edges) ==
    LET threshold == quantile([k \in DOMAIN edges |-> edges[k].avg_score], ScoreQuantile)
    IN  {p \in Pairs(edges) :
            /\ <<p[2], p[1]>> \in Pairs(edges)
            /\ PairScore(edges, p) + PairScore(edges, <<p[2], p[1]>>) >= 2 * threshold}

\* The adjacency sets: whom a participant rates, and is rated by, highly.
Adjacency(edges) ==
    LET mutual == Mutual(edges)
    IN  [v \in Participants(edges) |-> {w \in Participants(edges) : <<v, w>> \in mutual}]

-----------------------------------------------------------------------------
(* Tarjan's algorithm.  A participant not yet visited has no index.  A call   *)
(* of strongconnect is under way for every element of calls: rest is what its *)
(* loop has still to look at.                                                 *)

VARIABLES adj, index, lowlink, counter, stack, sccs, calls

searchVars == <<adj, index, lowlink, counter, stack, sccs, calls>>

SearchInit ==
    /\ adj = IF request.to = "rings" THEN Adjacency(request.edges) ELSE << >>
    /\ index = << >> /\ lowlink = << >> /\ counter = 0
    /\ stack = << >> /\ sccs = {} /\ calls = << >>

Searching == request.to = "rings" /\ answer = None

edges == request.edges

Visited == DOMAIN index

Current == calls[Len(calls)]

\* Participants are looked at in the order of the edges that name them first.
NextRoot ==
    LET k == Min({k \in DOMAIN edges : ~ {edges[k].issuer, edges[k].subject} \subseteq Visited})
    IN  IF edges[k].issuer \notin Visited THEN edges[k].issuer ELSE edges[k].subject

NextOf(call) ==
    edges[Min({k \in DOMAIN edges : edges[k].issuer = call.v /\ edges[k].subject \in call.rest})].subject

\* The current call has looked at w.
Passed(w) == [calls EXCEPT ![Len(calls)].rest = @ \ {w}]

Lower(v, n) == [lowlink EXCEPT ![v] = Min({@, n})]

Numbered(f, v) == [x \in Visited \cup {v} |-> IF x = v THEN counter ELSE f[x]]

\* strongconnect is called for v.
Enter(v, callers) ==
    /\ index'   = Numbered(index, v)
    /\ lowlink' = Numbered(lowlink, v)
    /\ counter' = counter + 1
    /\ stack'   = Append(stack, v)
    /\ calls'   = Append(callers, [v |-> v, rest |-> adj[v]])
    /\ UNCHANGED <<request, answer, adj, sccs>>

\* The loop over the participants finds one that has not been visited.
Begin ==
    /\ Searching /\ calls = << >>
    /\ ~ Participants(edges) \subseteq Visited
    /\ Enter(NextRoot, << >>)

\* The loop of a call finds one that has not been visited ...
Descend ==
    /\ Searching /\ calls # << >> /\ Current.rest # {}
    /\ LET w == NextOf(Current)
       IN  w \notin Visited /\ Enter(w, Passed(w))

\* ... or one that has, and may be on the stack.
Meet ==
    /\ Searching /\ calls # << >> /\ Current.rest # {}
    /\ LET w == NextOf(Current)
       IN  /\ w \in Visited
           /\ lowlink' = IF w \in ToSet(stack) THEN Lower(Current.v, index[w]) ELSE lowlink
           /\ calls' = Passed(w)
    /\ UNCHANGED <<request, answer, adj, index, counter, stack, sccs>>

\* A call returns.  The root of a component takes it off the stack, and the caller
\* lowers its link.
Leave ==
    LET v       == Current.v
        depth   == CHOOSE k \in DOMAIN stack : stack[k] = v
        comp    == ToSet(SubSeq(stack, depth, Len(stack)))
        callers == SubSeq(calls, 1, Len(calls) - 1)
    IN  /\ Searching /\ calls # << >> /\ Current.rest = {}
        /\ IF lowlink[v] = index[v]
           THEN /\ stack' = SubSeq(stack, 1, depth - 1)
                /\ sccs' = IF Cardinality(comp) >= 3 THEN sccs \cup {comp} ELSE sccs
           ELSE UNCHANGED <<stack, sccs>>
        /\ calls' = callers
        /\ lowlink' = IF callers = << >> THEN lowlink
                      ELSE Lower(callers[Len(callers)].v, lowlink[v])
        /\ UNCHANGED <<request, answer, adj, index, counter>>

\* A component is a ring if it spans two categories and its mean value is low.
IsRing(comp) ==
    LET inside == SelectSeq(edges, LAMBDA e : e.issuer \in comp /\ e.subject \in comp)
        limit  == quantile([k \in DOMAIN edges |-> edges[k].value], ValueQuantile)
    IN  /\ Cardinality({inside[k].category : k \in DOMAIN inside}) >= 2
        /\ FoldLeft(LAMBDA sum, e : sum + e.value, 0, inside) =< limit * Len(inside)

\* Everybody has been visited: the components are looked through for rings.
Flag ==
    /\ Searching /\ calls = << >> /\ Participants(edges) \subseteq Visited
    /\ answer' = [to |-> "rings", components |-> sccs,
                  flagged |-> UNION {comp \in sccs : IsRing(comp)}]
    /\ UNCHANGED <<request, searchVars>>

DetectRings == Begin \/ Descend \/ Meet \/ Leave \/ Flag

RingsSpec ==
    /\ request \in RingRequests /\ answer = None /\ SearchInit
    /\ [][DetectRings]_<<vars, searchVars>>

-----------------------------------------------------------------------------
(* Properties *)

\* Whom v reaches: all that are in every set which v is in and no pair leads out of.
Reaches(report, v) ==
    LET mutual == Mutual(report)
        people == Participants(report)
        closed == {C \in SUBSET people : \A p \in mutual : p[1] \in C => p[2] \in C}
    IN  {w \in people : \A C \in closed : v \in C => w \in C}

\* The sets of at least three participants that reach one another.
MutuallyReachable(report) ==
    LET people   == Participants(report)
        class(v) == {w \in Reaches(report, v) : v \in Reaches(report, w)}
    IN  {c \in {class(v) : v \in people} : Cardinality(c) >= 3}

\* The components are the classes of mutual reachability, and those who are in one
\* stay in one when a low score between any two is reported in another category: a
\* ring cannot dilute its signal that way (detectRings).
RingsExact ==
    Answered("rings") =>
        LET n       == Len(edges)
            earlier == SubSeq(edges, 1, n - 1)
        IN  /\ answer.components = MutuallyReachable(edges)
            /\ n > 0 /\ (\A k \in DOMAIN earlier : edges[n].avg_score =< edges[k].avg_score) =>
                   \A c \in MutuallyReachable(earlier) :
                       \E d \in answer.components : c \subseteq d

=============================================================================
