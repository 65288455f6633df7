-------------------------------- MODULE Query --------------------------------
(***************************************************************************)
(* An Intent is posted to a Tool, which resolves it against candidates.     *)
(***************************************************************************)
EXTENDS Request, Aql

CONSTANTS
    Keys,     \* the keys of records
    Queries   \* pairs of an Intent and the candidates for it

\* Finitely many nodes, each below one that may have others below it.
IsTree(tree, keys, inner) ==
    /\ DOMAIN tree \subseteq Seq(keys) /\ IsFiniteSet(DOMAIN tree)
    /\ <<>> \in DOMAIN tree
    /\ \A n \in DOMAIN tree : n # <<>> => Front(n) \in inner

\* A record is an object.  Only elements of arrays have numerals for keys that are not
\* plain, and each is there under every numeral of its index.
IsRecord(record) ==
    LET inside(n, k) == record[SubSeq(n, 1, k - 1)]
        index(key)   == IF key \in DOMAIN Numeral THEN Numeral[key] ELSE key
    IN  /\ IsTree(record, Keys, {n \in DOMAIN record : record[n] \in {object, array}})
        /\ record[<<>>] # array
        /\ \A n \in DOMAIN record : \A k \in 1 .. Len(n) :
               IF inside(n, k) = array
               THEN \A key \in Keys : index(key) = index(n[k]) =>
                        LET other == [n EXCEPT ![k] = key]
                        IN  other \in DOMAIN record /\ record[other] = record[n]
               ELSE n[k] \notin DOMAIN Numeral

IsPointer(pointer) == pointer \in Seq(Keys \cup {Star, Descendant})

IsConstraints(tree) ==
    /\ IsTree(tree, Nat, {n \in DOMAIN tree : tree[n].op \in Combinators})
    /\ \A n \in DOMAIN tree :
           /\ tree[n].op = "not" => \E child \in DOMAIN tree : Children(tree, n) = {child}
           /\ "path" \in DOMAIN tree[n] => IsPointer(tree[n].path)

IsCandidate(c) ==
    /\ IsRecord(c.record)
    /\ c.score # undeclared => c.score \in Int \X (Nat \ {0})

ASSUME QueriesAssumption ==
    \A query \in Queries :
        LET intent == query[1]
        IN  /\ IsConstraints(intent.constraints)
            /\ \A p \in intent.include \cup intent.exclude : IsPointer(p)
            /\ intent.budget # undeclared => intent.budget.amount \in Int
            /\ Len(query[2]) \in Nat /\ DOMAIN query[2] = 1 .. Len(query[2])
            /\ \A k \in DOMAIN query[2] : IsCandidate(query[2][k])

QueryRequests == [to : {"resolve"}, query : Queries]

\* POST /oap/intent.
Resolve ==
    /\ request.to = "resolve" /\ answer = None
    /\ answer' = IF parseIntent(request.query[1])
                 THEN [to |-> "resolve",
                       candidates |-> resolveIntent(request.query[1], request.query[2])]
                 ELSE [to |-> "invalid_intent"]
    /\ UNCHANGED request

QuerySpec == request \in QueryRequests /\ answer = None /\ [][Resolve]_vars

-----------------------------------------------------------------------------
(* Properties *)

\* The path of a node follows the pointer: it can be cut into one part for each
\* segment, of one key, or of any number of them for the descendant operator.  The
\* wildcards do not stand for the keys that are hidden from them.
Follows(path, pointer, hidden) ==
    \E cut \in [0 .. Len(pointer) -> 0 .. Len(path)] :
        /\ cut[0] = 0 /\ cut[Len(pointer)] = Len(path)
        /\ \A k \in 1 .. Len(pointer) :
               IF pointer[k] = Descendant
               THEN /\ cut[k - 1] =< cut[k]
                    /\ \A l \in cut[k - 1] + 1 .. cut[k] : path[l] \notin hidden
               ELSE /\ cut[k] = cut[k - 1] + 1
                    /\ IF pointer[k] = Star THEN path[cut[k]] \notin hidden
                       ELSE pointer[k] = path[cut[k]]

\* A pointer may name an element by any numeral; a wildcard stands for it once.
Denoted(record, pointer) ==
    {path \in DOMAIN record :
        /\ Follows(path, pointer, DOMAIN Numeral)
        /\ pointer # <<>> /\ Last(pointer) = Descendant => record[path] # nil}

\* A final descendant operator stands for all that is below, with its top.
Tops(record, pointer) ==
    IF pointer # <<>> /\ Last(pointer) = Descendant
    THEN {path \in Denoted(record, Front(pointer)) : record[path] # nil}
    ELSE Denoted(record, pointer)

\* Whether a node of the constraints holds, if those in the set do (RFC 0020, A.1), with
\* the negative operators read as the code reads them, of all the values and at least one.
Holds(record, constraints, n, holding) ==
    LET c     == constraints[n]
        below == Children(constraints, n)
    IN  \/ c.op = "all_of"     /\ below \subseteq holding
        \/ c.op = "any_of"     /\ below \cap holding # {}
        \/ c.op = "not"        /\ below \cap holding = {}
        \/ c.op = "exists"     /\ Denoted(record, c.path) # {}
        \/ c.op = "not_exists" /\ Denoted(record, c.path) = {}
        \/ c.op = "in"         /\ \E v \in Denoted(record, c.path) : record[v] \in c.value
        \/ c.op = "not_in"     /\ Denoted(record, c.path) # {}
                               /\ \A v \in Denoted(record, c.path) : record[v] \notin c.value

\* A record satisfies the constraints if the root is among the nodes that hold.
Satisfies(record, constraints) ==
    \E holding \in SUBSET DOMAIN constraints :
        /\ <<>> \in holding
        /\ holding = {n \in DOMAIN constraints : Holds(record, constraints, n, holding)}

\* Every condition of the tree has a meaning, and there is one in every branch.
Meaningful(constraints) ==
    \A n \in DOMAIN constraints :
        /\ constraints[n].op \in {"all_of", "any_of"} => Children(constraints, n) # {}
        /\ constraints[n].op \notin Combinators =>
               /\ constraints[n].op \in VALID_OPERATORS
               /\ {"path", "value"} \subseteq DOMAIN constraints[n]

\* What an Intent includes of a record and does not exclude, by the tops.  The whole
\* record is included key by key.  What is excluded is what is written the same way.
Shown(record, intent) ==
    LET tops == UNION {Tops(record, p) : p \in intent.include}
        keys == IF <<>> \in tops THEN {n \in DOMAIN record : Len(n) = 1} ELSE {}
    IN  {n \in (tops \ {<<>>}) \cup keys : \A p \in intent.exclude : ~Follows(n, p, {})}

\* Every signal of the floor is declared, and where both are numbers it is high enough.
HighEnough(quality, floor) ==
    \A key \in DOMAIN floor :
        /\ key \in DOMAIN quality
        /\ {floor[key], quality[key]} \subseteq Int => quality[key] >= floor[key]

\* Only an Intent with a meaning is answered.  An answer names within the budget only
\* candidates that satisfy the Intent, all of them unless only the best is asked for;
\* its payloads hold what the Intent includes and nothing else.  So the evaluator and the
\* projection follow pointers alike.  The rest is what the code promises in place of RFC
\* 0020: what is excluded may be inside of something included, or be included by another
\* numeral; and what a candidate does not declare, or not as a number, is neither too
\* dear nor too low (parseIntent, resolveIntent).
AnswersDenoted ==
    Answered("resolve") =>
        LET intent     == request.query[1]
            candidates == request.query[2]
            named      == {answer.candidates[r].candidate :
                              r \in {r \in DOMAIN answer.candidates :
                                        ~answer.candidates[r].over_budget}}
            affordable(c) == intent.budget = undeclared \/ c.cost \notin Int
                             \/ c.cost =< intent.budget.amount
            denoted    == {k \in DOMAIN candidates :
                              /\ Satisfies(candidates[k].record, intent.constraints)
                              /\ affordable(candidates[k])
                              /\ candidates[k].quality # undeclared =>
                                     HighEnough(candidates[k].quality, intent.floor)}
        IN  /\ Meaningful(intent.constraints)
            /\ named \subseteq denoted
            /\ intent.policy # "single_best" => named = denoted
            /\ intent.policy = "single_best" /\ denoted # {} => answer.candidates # <<>>
            /\ \A r \in DOMAIN answer.candidates :
                   LET record == candidates[answer.candidates[r].candidate].record
                   IN  answer.candidates[r].payload =
                           {n \in DOMAIN record :
                               \E top \in Shown(record, intent) : n \in Below(record, top)}

=============================================================================
