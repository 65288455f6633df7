-------------------------------- MODULE Aql ---------------------------------
(***************************************************************************)
(* The Agent Query Language (reference/aql/src): how an Intent is resolved  *)
(* against candidates, and what of a candidate's record the answer holds.   *)
(*                                                                          *)
(* A record is a tree: a function from its paths - sequences of keys, the   *)
(* root's is empty - to what is there, `object', `array' or a value, `nil'  *)
(* among them.  A node is named by its path.  The keys of an array are the   *)
(* numerals of its indices.  What a pointer's key says of an array is made a *)
(* number, so that an element has many names: 0, the empty key and 0x0 name  *)
(* the first one.  It is at all of these paths; but only the plain numeral   *)
(* is what the code itself makes of an index.                                *)
(* A pointer is a sequence of keys and the wildcards.                       *)
(* The constraints of an Intent are a tree, too: of the combinators, and of *)
(* conditions on what a pointer leads to.                                   *)
(***************************************************************************)
EXTENDS Integers, Sequences, FiniteSets, FiniteSetsExt, SequencesExt

CONSTANTS
    undeclared,    \* what a candidate or an Intent does not declare
    Numeral        \* the plain numeral of each other one

Star       == "*"
Descendant == "**"
object     == "object"   \* inner nodes
array      == "array"
nil        == "nil"      \* JSON's null

Combinators == {"all_of", "any_of", "not"}

-----------------------------------------------------------------------------
(* Paths *)

Children(tree, path) == {child \in DOMAIN tree : child # <<>> /\ Front(child) = path}

\* What enumerating a node or copying it gives: of an array each element once.
Entries(record, path) == {child \in Children(record, path) : Last(child) \notin DOMAIN Numeral}
Below(record, path) ==
    {node \in DOMAIN record :
        /\ IsPrefix(path, node)
        /\ \A i \in Len(path) + 1 .. Len(node) : node[i] \notin DOMAIN Numeral}

-----------------------------------------------------------------------------
(* The evaluator's resolvePath, which follows a pointer from set to set *)

collectAll(record, path) == {node \in Below(record, path) : record[node] # nil}

Follow(record, nodes, head) ==
    CASE head = Star       -> UNION {Entries(record, n) : n \in nodes}
      [] head = Descendant -> UNION {collectAll(record, n) : n \in nodes}
      [] head \notin {Star, Descendant} ->
            {Append(n, head) : n \in nodes} \cap DOMAIN record

\* The nodes that the first k segments lead to, up to the last.
resolvePath(record, pointer) ==
    LET walk[k \in 0 .. Len(pointer)] ==
            IF k = 0 THEN {<<>>} ELSE Follow(record, walk[k - 1], pointer[k])
    IN  walk[Len(pointer)]

\* The operators compare values with what is expected; here that is the set of the
\* values that fit.  All but `ne', `not_in' and `outside' want one value to fit
\* (`in'), those three want none to and at least one there (`not_in').
compareLeaf(record, nodes, operator, expected) ==
    LET fits(n) == record[n] \in expected
    IN  \/ operator = "exists"     /\ nodes # {}
        \/ operator = "not_exists" /\ nodes = {}
        \/ operator = "in"         /\ \E n \in nodes : fits(n)
        \/ operator = "not_in"     /\ nodes # {} /\ \A n \in nodes : ~fits(n)

\* Whether each node of the constraints passes.  What is negated is the only child.
evalNode(constraints, record) ==
    LET passed[n \in DOMAIN constraints] ==
            LET node  == constraints[n]
                below == Children(constraints, n)
            IN  \/ node.op = "all_of" /\ \A child \in below : passed[child]
                \/ node.op = "any_of" /\ \E child \in below : passed[child]
                \/ node.op = "not"    /\ \A child \in below : ~passed[child]
                \/ /\ node.op \notin Combinators
                   /\ compareLeaf(record, resolvePath(record, node.path), node.op, node.value)
    IN  passed

evaluate(constraints, record) == evalNode(constraints, record)[<<>>]

-----------------------------------------------------------------------------
(* What parseIntent accepts *)

VALID_OPERATORS == {"exists", "not_exists", "in", "not_in"}

validateConstraintTree(constraints) ==
    LET valid[n \in DOMAIN constraints] ==
            LET node  == constraints[n]
                below == Children(constraints, n)
            IN  \/ /\ node.op \in {"all_of", "any_of"}
                   /\ below # {} /\ \A child \in below : valid[child]
                \/ node.op = "not" /\ \A child \in below : valid[child]
                \/ /\ node.op \notin Combinators
                   /\ {"path", "value"} \subseteq DOMAIN node /\ node.op \in VALID_OPERATORS
    IN  valid[<<>>]

\* The shares of a prize for the first top_k, in hundredths, add up to the whole.
validAllocation(budget) ==
    budget # undeclared /\ budget.allocation = "ranked_top_k" =>
        /\ budget.top_k # undeclared
        /\ budget.distribution # undeclared =>
               /\ FoldLeft(LAMBDA sum, share : sum + share, 0, budget.distribution) = 100
               /\ Len(budget.distribution) = budget.top_k

parseIntent(intent) ==
    /\ validateConstraintTree(intent.constraints)
    /\ validAllocation(intent.budget)
    /\ intent.category = "subscription" => intent.max_event_rate # undeclared
    /\ intent.validity[2] > intent.validity[1]

-----------------------------------------------------------------------------
(* The projection's collect, which walks down from each node *)

\* From a node, when the first k segments are done.
collect(record, pointer) ==
    LET walk[at \in (DOMAIN record) \X (0 .. Len(pointer))] ==
            LET node == at[1]
                k    == at[2]
                head == pointer[k + 1]
                from(nodes, j) == UNION {walk[<<n, j>>] : n \in nodes}
            IN  CASE k = Len(pointer) -> {node}
                  [] k < Len(pointer) /\ record[node] = nil -> {}
                  [] k < Len(pointer) /\ record[node] # nil /\ head = Star ->
                        from(Entries(record, node), k + 1)
                  [] k < Len(pointer) /\ record[node] # nil /\ head = Descendant ->
                        IF k + 1 = Len(pointer) THEN {node}
                        ELSE from(Entries(record, node), k) \cup walk[<<node, k + 1>>]
                  [] k < Len(pointer) /\ record[node] # nil /\ head \notin {Star, Descendant} ->
                        from({Append(node, head)} \cap DOMAIN record, k + 1)
    IN  walk[<< <<>>, 0 >>]

\* Whether what is left of the path after i keys matches what is left of the pattern
\* after j segments: as they are written, another numeral of an index does not match.
matchSeg(path, pattern) ==
    LET match[at \in (0 .. Len(path)) \X (0 .. Len(pattern))] ==
            LET i == at[1]
                j == at[2]
            IN  \/ j = Len(pattern) /\ i = Len(path)
                \/ /\ j < Len(pattern) /\ pattern[j + 1] = Descendant
                   /\ j + 1 = Len(pattern) \/ \E k \in i .. Len(path) : match[<<k, j + 1>>]
                \/ /\ j < Len(pattern) /\ pattern[j + 1] # Descendant
                   /\ i < Len(path) /\ pattern[j + 1] \in {Star, path[i + 1]}
                   /\ match[<<i + 1, j + 1>>]
    IN  match[<<0, 0>>]

excluded(path, exclude) == \E pattern \in exclude : matchSeg(path, pattern)

\* What is assigned to the result, by the path as the pointer writes it: a fragment that
\* is the whole record goes key by key.
Fragments(record, include) ==
    LET found == UNION {collect(record, pointer) : pointer \in include}
    IN  (found \ {<<>>}) \cup (IF <<>> \in found THEN Children(record, <<>>) ELSE {})

\* The paths of the result, with the values they have in the record: every
\* fragment that is not excluded comes with all that is below it.  The objects that
\* `assign' makes on the way to a fragment are left out.
project(record, include, exclude) ==
    UNION {Below(record, path) :
           path \in {f \in Fragments(record, include) : ~excluded(f, exclude)}}

-----------------------------------------------------------------------------
(* resolveIntent *)

\* Only numbers are compared.
checkQualityFloor(floor, quality) ==
    \A key \in DOMAIN floor :
        /\ key \in DOMAIN quality
        /\ floor[key] \in Int /\ quality[key] \in Int => quality[key] >= floor[key]

\* No candidate whose cost is not declared, or not a number, is.
overBudget(intent, c) ==
    intent.budget # undeclared /\ c.cost \in Int /\ c.cost > intent.budget.amount

Outcome_FloorLast(intent, c) ==                                      \* a mutant
    CASE ~evaluate(intent.constraints, c.record) -> "reject"
      [] OTHER -> IF overBudget(intent, c) THEN "over_budget" ELSE "accept"

\* A candidate that declares no quality passes every floor.  An Intent without one has
\* an empty one.
Outcome(intent, c) ==
    CASE ~evaluate(intent.constraints, c.record) -> "reject"
      [] evaluate(intent.constraints, c.record)
         /\ c.quality # undeclared /\ ~checkQualityFloor(intent.floor, c.quality)
            -> "below_quality_floor"
      [] OTHER -> IF overBudget(intent, c) THEN "over_budget" ELSE "accept"

\* A fraction: the declared score, or the share of the leaves that passed, those
\* under a `not' included.
Score(intent, c) ==
    LET leaves == {n \in DOMAIN intent.constraints : intent.constraints[n].op \notin Combinators}
        passed == {n \in leaves : evalNode(intent.constraints, c.record)[n]}
    IN  IF c.score # undeclared THEN c.score
        ELSE IF Outcome(intent, c) = "over_budget" THEN <<0, 1>>
        ELSE <<Cardinality(passed), Cardinality(leaves)>>

Outscores(intent, c, d) ==
    Score(intent, c)[1] * Score(intent, d)[2] > Score(intent, d)[1] * Score(intent, c)[2]

Kept(intent, candidates) ==
    {k \in DOMAIN candidates : Outcome(intent, candidates[k]) \in {"accept", "over_budget"}}

\* The candidates that are not rejected by descending score, those of equal score
\* in the order they came in: each at the place behind those that come before it.
Ranked(intent, candidates) ==
    LET before(k) == {j \in Kept(intent, candidates) :
                         \/ Outscores(intent, candidates[j], candidates[k])
                         \/ ~Outscores(intent, candidates[k], candidates[j]) /\ j < k}
        row(k) == [candidate   |-> k,
                   score       |-> Score(intent, candidates[k]),
                   over_budget |-> Outcome(intent, candidates[k]) = "over_budget",
                   payload     |-> project(candidates[k].record, intent.include, intent.exclude)]
    IN  [rank \in 1 .. Cardinality(Kept(intent, candidates)) |->
            row(CHOOSE k \in Kept(intent, candidates) : Cardinality(before(k)) = rank - 1)]

resolveIntent(intent, candidates) ==
    LET ranked == Ranked(intent, candidates)
    IN  IF intent.policy = "single_best" THEN SubSeq(ranked, 1, Min({1, Len(ranked)}))
        ELSE ranked

=============================================================================
