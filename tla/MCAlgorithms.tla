---------------------------- MODULE MCAlgorithms ----------------------------
(***************************************************************************)
(* Small inputs: groups of up to four with at most one adversary more than  *)
(* the bound allows; four participants who rate each other or not; records  *)
(* three levels deep and all pointers of up to three segments; up to three  *)
(* offers with up to four costs.                                            *)
(***************************************************************************)
EXTENDS Algorithms

-----------------------------------------------------------------------------
(* Groups *)

\* Two names with characters beyond the basic plane and below its end, which UTF-16 and
\* UTF-8 order differently; and a number that Python tells apart from an integer.
MCConventions  == {"face", "wide", "one", "1.0"}
MCForm == [javascript |-> [c \in MCConventions |-> CASE c = "face" -> 1 [] c = "wide" -> 2 [] OTHER -> 3],
           python     |-> [c \in MCConventions |-> CASE c = "wide" -> 4 [] c = "face" -> 5
                                                     [] c = "one"  -> 6 [] c = "1.0" -> 7]]
MCTypeSpace    == <<"bold", "shy">>
MCLikelihood   == [wave |-> [bold |-> 9, shy |-> 3], wait |-> [bold |-> 0, shy |-> 7]]
MCSpaceForType == [bold |-> <<"one">>, shy |-> <<"wide">>]
MCRegretOf ==
    LET face == [bold |-> 4, shy |-> 10]
        wide == [bold |-> 10, shy |-> 0]
        one  == [bold |-> 0, shy |-> 6]
    IN  <<face, wide, one, wide, face, one, one>>

Member(class, space, actions) == [class |-> class, space |-> space, actions |-> actions]
MCMembers ==
    {Member("P", s, <<>>) : s \in {<<>>, <<"face">>, <<"wide", "face">>, <<"face", "one">>, <<"one", "wide">>,
                                     <<"one", "face", "wide">>, <<"1.0">>}}
    \cup {Member("O", <<>>, a) : a \in {<<>>, <<"wave">>, <<"wave", "wait">>}}
    \cup {Member("A", <<>>, <<>>)}
MCGroups == UNION {[1 .. n -> MCMembers] : n \in 1 .. 4}

-----------------------------------------------------------------------------
(* Reports *)

MCScoreQuantile == <<1, 2>>
MCValueQuantile == <<1, 4>>

MCAgents     == {"a", "b", "c", "d"}
MCCategories == 1 .. 3

\* What two participants have recorded of each other: nothing, one of them a high
\* score, both a low one, both a high one.
MCRelations == {"none", "one", "low", "high"}
MCPairs     == << <<"a", "b">>, <<"b", "c">>, <<"c", "d">>, <<"a", "c">>, <<"b", "d">>, <<"a", "d">> >>

Recorded(p, category, score, value) ==
    [issuer |-> p[1], subject |-> p[2], category |-> category, avg_score |-> score,
     value |-> value]
EdgesOf(k, relation) ==
    LET there == MCPairs[k]
        back  == <<there[2], there[1]>>
    IN  CASE relation = "none" -> <<>>
          [] relation = "one"  -> << Recorded(there, 1, 9, k) >>
          [] relation = "low"  -> << Recorded(there, 1, 4, k), Recorded(back, 2, 4, k) >>
          [] relation = "high" -> << Recorded(there, 1, 9, 3), Recorded(back, 2, 8, 3) >>

MCGraphs == {FlattenSeq([k \in DOMAIN MCPairs |-> EdgesOf(k, rel[k])]) :
                rel \in [DOMAIN MCPairs -> MCRelations]}
MCReports ==
    MCGraphs \cup {Append(graph, later) :
        graph \in MCGraphs,
        later \in {Recorded(<<"a", "b">>, 3, 1, 5), Recorded(<<"c", "b">>, 3, 1, 1),
                  Recorded(<<"d", "a">>, 3, 9, 2)} }

-----------------------------------------------------------------------------
(* Queries *)

\* A tree is an empty function, a value or what has the trees below it.
Put(key, tree) == [p \in {<<key>> \o q : q \in DOMAIN tree} |-> tree[Tail(p)]]
Absent         == << >>
Leaf(v)        == << >> :> v
Node(a, b)     == (<< >> :> object) @@ Put("a", a) @@ Put("b", b)
MCKeys    == {"a", "b", "0", ""}
MCLeaves  == {Absent, Leaf(nil), Leaf("x")}
MCInner   == {Node(a, b) : a \in MCLeaves, b \in MCLeaves}
MCRecords == {Node(a, b) : a \in MCLeaves \cup {Node(x, y) : x \in MCLeaves \cup MCInner, y \in MCLeaves},
                           b \in MCLeaves}

MCPointers == UNION {[1 .. n -> {"a", "b", Star, Descendant}] : n \in 0 .. 3}

\* The first element of an array, which has a number for its name, or none.
MCNumeral == [other \in {""} |-> "0"]
Array(first) == (<< >> :> array) @@ Put("0", first) @@ Put("", first)
MCLists   == {Node(Array(e), b) :
                 e \in MCLeaves \cup {Array(Leaf("x")), Node(Leaf("x"), Absent), Node(Array(Leaf("x")), Absent)},
                 b \in {Absent, Array(Leaf("y"))}}
MCPlaces  == UNION {[1 .. n -> {"a", "0", "", Star, Descendant}] : n \in 0 .. 3}

\* Constraints are a condition, or a combinator with the constraints below it.
Constraint(op, path, value) == << >> :> [op |-> op, path |-> path, value |-> value]
Combined(op, below) ==
    FoldLeft(LAMBDA tree, k : Put(k, below[k]) @@ tree, << >> :> [op |-> op],
             [k \in DOMAIN below |-> k])

Candidate(record, cost, quality, score) ==
    [record |-> record, cost |-> cost, quality |-> quality, score |-> score]
Intent(constraints, include, exclude, amount, floor, policy) ==
    [constraints |-> constraints, include |-> include, exclude |-> exclude,
     budget |-> IF amount = undeclared THEN undeclared
               ELSE [amount |-> amount, allocation |-> "single_winner"],
     floor |-> floor, policy |-> policy,
     category |-> "commercial", max_event_rate |-> undeclared, validity |-> <<1, 2>>]

\* Every pointer on every record.
MCPointerQueries ==
    { << Intent(Constraint("exists", p, {}), {p}, {<<"a", Star>>}, 5, <<>>, "ranked_set"),
         << Candidate(r, 5, undeclared, undeclared) >> >> : p \in MCPointers, r \in MCRecords }

\* Every pointer on every array, without what is written as the first element.
MCPlaceQueries ==
    { << Intent(Constraint("exists", p, {}), {p}, {<<"a", "0">>}, 5, <<>>, "ranked_set"),
         << Candidate(r, 5, undeclared, undeclared) >> >> : p \in MCPlaces, r \in MCLists }

\* Every operator, combinator and outcome, on two candidates.
MCTwo == << Node(Node(Leaf("x"), Absent), Leaf(nil)), Node(Leaf("y"), Absent) >>
MCConstraints ==
    LET leaves == { Constraint(op, p, {"x", nil}) :
                       op \in {"exists", "not_exists", "in", "not_in"},
                       p \in {<<"a">>, <<"a", Star>>, <<Descendant, "b">>, <<Descendant>>} }
    IN  leaves \cup {Combined("not", <<l>>) : l \in leaves}
               \cup {Combined(both, <<l, Constraint("in", <<"a">>, {"y"})>>) :
                        both \in {"all_of", "any_of"}, l \in leaves}
MCPrices ==      \* amounts with costs
    { <<5, 5>>, <<5, 6>>, <<5, undeclared>>, <<undeclared, 6>> }
MCSignals ==     \* floors with what a candidate declares; null is no number
    LET level(l) == [level |-> l]
    IN  ({level(2)} \X {undeclared, <<>>, level(1), level(2), level(null)})
        \cup { <<level(null), level(1)>>, << <<>>, undeclared>> }
MCPlainQueries ==
    { << Intent(c, {<<"a">>, << >>}, {<<"b">>}, price[1], signal[1], policy),
         << Candidate(MCTwo[1], price[2], signal[2], undeclared),
            Candidate(MCTwo[2], 5, undeclared, score) >> >> :
        c \in MCConstraints, policy \in {"ranked_set", "single_best"}, price \in MCPrices,
        signal \in MCSignals, score \in {undeclared, <<1, 2>>} }

\* Intents with a fault, or none: a tree two levels deep with an empty combinator or
\* a leaf that is not one; shares; a rate; a period.
MCFaulty ==
    LET plain  == Constraint("exists", <<"a">>, {})
        leaves == {plain, Constraint("like", <<"a">>, {}), << >> :> [op |-> "in", path |-> <<"a">>]}
        inner(below) == {Combined(both, of) :
                            both \in {"all_of", "any_of"}, of \in {<<>>} \cup {<<plain, l>> : l \in below}}
                        \cup {Combined("not", <<l>>) : l \in below}
        intent == Intent(plain, {<<"a">>}, {}, 5, <<>>, "ranked_set")
        ranked(k, d) == [amount |-> 5, allocation |-> "ranked_top_k", top_k |-> k, distribution |-> d]
    IN  {[intent EXCEPT !.constraints = c] : c \in leaves \cup inner(leaves \cup inner(leaves))}
        \cup {[intent EXCEPT !.budget = ranked(k, d)] :
                  k \in {undeclared, 1, 2}, d \in {undeclared, <<100>>, <<60, 40>>, <<60, 50>>}}
        \cup {[intent EXCEPT !.category = "subscription", !.max_event_rate = r, !.validity = v] :
                  r \in {undeclared, 1}, v \in {<<1, 2>>, <<2, 2>>, <<2, 1>>}}
MCFaultyQueries ==
    {<<intent, <<Candidate(MCTwo[1], 5, undeclared, undeclared)>> >> : intent \in MCFaulty}

MCQueries ==
    MCPointerQueries \cup MCPlaceQueries \cup MCPlainQueries \cup MCFaultyQueries

-----------------------------------------------------------------------------
(* Markets *)

Offer(raw, reputation, level, cost, days) ==
    [bm25_raw |-> raw, reputation_score |-> reputation, conformance_level |-> level,
     avg_cost_usd |-> cost, days |-> days]
MCOffers ==
    {Offer(raw, 30, level, cost, days) : raw \in {300, 900}, level \in {0, 5},
                                         cost \in {unpriced, 1, 2, 4}, days \in {0, 400}}
MCMarkets ==
    {m \in [candidates : [1 .. 2 -> MCOffers], of : 1 .. 2, cost : {2, 4, 5}] :
        LET old == m.candidates[m.of].avg_cost_usd IN old # unpriced /\ m.cost > old}
    \cup
    {m \in [candidates : {<<Offer(raw, 30, 3, a, 0), Offer(600, 30, 3, b, 10), Offer(600, 36, 3, c, 0)>> :
                             raw \in {480, 600, 720}, a, b, c \in {unpriced, 1, 2, 4}},
           of : 1 .. 3, cost : {2, 4, 5}] :
        LET old == m.candidates[m.of].avg_cost_usd IN old # unpriced /\ m.cost > old}

=============================================================================
