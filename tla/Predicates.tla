----------------------------- MODULE Predicates -----------------------------
(***************************************************************************)
(* The consistency predicates of a workflow manifest and their evaluator   *)
(* (evaluatePredicate and resolvePath of reference/coordinator).           *)
(*                                                                         *)
(* A JavaScript value is a tuple tagged with its type.  Undef is what a    *)
(* path that leads nowhere yields, Mismatch the Symbol with which          *)
(* resolvePath says that the segments disagree on an all_segments field.   *)
(* A string literal stands for a text that is not a numeral.               *)
(*                                                                         *)
(* A predicate is a record [fn, lhs, rhs] (for attestation_present         *)
(* [fn, role, type]); an operand is <<"lit", v>>, <<"seg", role, field>>,  *)
(* <<"all", field>> or <<"initiator">>, which is workflow.initiator_did.   *)
(* The context has the segments, by the roles present, and the initiator.  *)
(* Of a segment only its payload (a function on Fields) and its            *)
(* attestation types matter here.                                          *)
(***************************************************************************)
EXTENDS Integers, FiniteSets

Undef    == <<"undef">>
Mismatch == <<"mismatch">>

Num(n)  == <<"num", n>>
Str(s)  == <<"str", s>>
List(S) == <<"set", S>>       \* an array of texts, of which order is irrelevant

IsNum(v)  == v[1] = "num"
IsList(v) == v[1] = "set"

\* What JSON.stringify distinguishes: a Symbol and undefined both have no text.
Json(v) == IF v = Mismatch THEN Undef ELSE v

\* The operand as resolvePath resolves it in the context.
resolvePath(p, context) ==
    LET seg == context.segments
    IN  CASE p[1] = "lit" -> p[2]
          [] p[1] = "initiator" -> context.initiator
          [] p[1] = "seg" ->
               IF p[2] \in DOMAIN seg THEN seg[p[2]].payload[p[3]] ELSE Undef
          [] p[1] = "all" ->
               LET values == {seg[r].payload[p[2]] : r \in DOMAIN seg}
               IN  IF values = {} THEN Undef
                   ELSE IF Cardinality({Json(v) : v \in values}) = 1
                        THEN CHOOSE v \in values : TRUE
                        ELSE Mismatch

Numeric == {"less_than", "greater_than", "at_least", "at_most"}
OnLists == {"subset_of", "disjoint"}

\* Number(v) is NaN for undefined and for texts; an empty array counts as 0.
HasNumber(v) == IsNum(v) \/ v = List({})
Number(v)    == IF IsNum(v) THEN v[2] ELSE 0

Compare(fn, x, y) ==
    CASE fn = "less_than"    -> x < y
      [] fn = "greater_than" -> x > y
      [] fn = "at_least"     -> x >= y
      [] fn = "at_most"      -> x <= y

\* Number(Symbol) is a TypeError, so the evaluation has no result at all.
Throws(c, context) ==
    /\ c.fn \in Numeric
    /\ Mismatch \in {resolvePath(c.lhs, context), resolvePath(c.rhs, context)}

\* The verdict on a predicate.  A function name outside the vocabulary of the
\* switch falls to none of the disjuncts: its verdict is FALSE.
evaluatePredicate(c, context) ==
    \/ /\ c.fn = "equals"
       /\ Json(resolvePath(c.lhs, context)) = Json(resolvePath(c.rhs, context))
    \/ /\ c.fn \in Numeric
       /\ LET a == resolvePath(c.lhs, context)
              b == resolvePath(c.rhs, context)
          IN  HasNumber(a) /\ HasNumber(b) /\ Compare(c.fn, Number(a), Number(b))
    \/ /\ c.fn \in OnLists
       /\ LET a == resolvePath(c.lhs, context)
              b == resolvePath(c.rhs, context)
          IN  /\ IsList(a) /\ IsList(b)
              /\ IF c.fn = "subset_of" THEN a[2] \subseteq b[2] ELSE a[2] \cap b[2] = {}
    \/ /\ c.fn = "attestation_present"
       /\ c.role \in DOMAIN context.segments
       /\ c.type \in context.segments[c.role].attestations

=============================================================================
