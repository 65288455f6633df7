----------------------------- MODULE Handshake ------------------------------
(***************************************************************************)
(* The three-tier handshake in which the members of a group choose a        *)
(* convention: reference/aht/three-tier.js, its TypeScript and Python       *)
(* ports, and the endpoint of the reference server that reduces published   *)
(* convention spaces to one convention.                                     *)
(*                                                                          *)
(* A convention is known by its canonical form, which is its place in the   *)
(* order of such forms.  The languages differ in both: JavaScript writes     *)
(* 1.0 as 1 and compares UTF-16 units, Python writes 1.0 and compares code   *)
(* points.  Probabilities and regrets are in fixed point, with One for 1.0.  *)
(***************************************************************************)
EXTENDS Integers, Sequences, FiniteSets, FiniteSetsExt, SequencesExt

CONSTANTS
    Conventions,        \* as they are published
    Form,               \* [language -> [convention -> a number]]
    TypeSpace,          \* the types an observed peer may have, in order
    Likelihood,         \* [action -> [type -> 0 .. One]]
    LeastLikelihood,    \* the 1e-12 below which no likelihood is taken
    SpaceForType,       \* [type -> Seq(Conventions)]
    RegretOf,           \* [form -> [type -> 0 .. One]]
    One,                \* the unit of the fixed point
    Tolerance,          \* params.regretTolerance
    null                \* no convention

Languages == {"javascript", "python"}
Forms     == {Form[l][c] : l \in Languages, c \in Conventions}

ASSUME FormsAssumption       == Form \in [Languages -> [Conventions -> Nat]]
ASSUME UnitAssumption        == One \in Nat \ {0} /\ Tolerance \in Nat
ASSUME NoConventionAssumption == null \notin Forms
ASSUME TypesAssumption ==
    /\ TypeSpace \in Seq(DOMAIN SpaceForType)
    /\ \A th \in DOMAIN SpaceForType : SpaceForType[th] \in Seq(Conventions)
    /\ \A a \in DOMAIN Likelihood : \A k \in DOMAIN TypeSpace : Likelihood[a][TypeSpace[k]] \in Nat
    /\ LeastLikelihood \in Nat \ {0}
    /\ \A c \in Forms : \A k \in DOMAIN TypeSpace : RegretOf[c][TypeSpace[k]] \in 0 .. One

\* A group is a sequence of members, each with its class - a protocol follower
\* ("P"), one that is only observed ("O"), an adversary ("A") -, the convention
\* space it publishes and the actions observed of it.  Member i runs the handshake,
\* which sees nothing of a space but the canonical forms.

canonicalForms(l, space) == [k \in DOMAIN space |-> Form[l][space[k]]]
canonicalize(l, g) == [j \in DOMAIN g |-> [g[j] EXCEPT !.space = canonicalForms(l, @)]]

-----------------------------------------------------------------------------
(* Who is who *)

Peers(i, g)       == DOMAIN g \ {i}
NP(i, g)          == {j \in Peers(i, g) : g[j].class = "P"} \cup {i}
NO(i, g)          == {j \in Peers(i, g) : g[j].class = "O"}
NA(i, g)          == {j \in Peers(i, g) : g[j].class = "A"}
Space(j, g)       == ToSet(g[j].space)

Aborts(i, g) == Len(g) < 3 * Cardinality(NA(i, g)) + 1

-----------------------------------------------------------------------------
(* Tier 1: the conventions that all followers publish, reduced to the first *)

intersectConventionSpaces(members, g) ==
    {c \in Forms : \A j \in members : c \in Space(j, g)}

Reduced_Last(candidates) == IF candidates = {} THEN null ELSE Max(candidates) \* a mutant
Reduced(candidates)      == IF candidates = {} THEN null ELSE Min(candidates)

Provisional(i, g) == Reduced(intersectConventionSpaces(NP(i, g), g))

-----------------------------------------------------------------------------
(* Tier 2: the posterior over the types of an observed peer, not normalised *)

Types == ToSet(TypeSpace)

Posterior(actions) ==
    LET post[k \in 0 .. Len(actions)] ==
            [th \in Types |->
                IF k = 0 THEN 1
                ELSE post[k - 1][th] * Max({Likelihood[actions[k]][th], LeastLikelihood})]
    IN  post[Len(actions)]

expectedRegretUnderPosterior(c, actions) ==
    LET post == Posterior(actions)
    IN  IF Types = {} THEN 0
        ELSE SumFunction([th \in Types |-> post[th] * RegretOf[c][th]]) \div SumFunction(post)

-----------------------------------------------------------------------------
(* Tier 3: minimax regret over the feasible conventions *)

Tolerable(c, i, g) ==
    \A j \in NO(i, g) : expectedRegretUnderPosterior(c, g[j].actions) =< Tolerance

\* What the observed peers may play: no type has probability zero.
Inferred(l) ==
    FlattenSeq([k \in DOMAIN TypeSpace |-> canonicalForms(l, SpaceForType[TypeSpace[k]])])

\* In the order in which they enter F.
Feasible(l, i, g) ==
    LET inferred    == IF NO(i, g) = {} THEN <<>> ELSE Inferred(l)
        provisional == Provisional(i, g)
    IN  IF provisional # null /\ Tolerable(provisional, i, g) THEN <<provisional>>
        ELSE inferred \o g[i].space

PeerRegret(c, j, g) ==
    CASE g[j].class = "P" -> IF c \in Space(j, g) THEN 0 ELSE One
      [] g[j].class = "O" -> expectedRegretUnderPosterior(c, g[j].actions)
      [] g[j].class = "A" -> One

\* The largest of the regrets once the t largest are dropped.
Trimmed_None(regret, members, t) ==                                  \* a mutant
    IF members = {} THEN 0 ELSE Max({regret[j] : j \in members})
Trimmed(regret, members, t) ==
    IF Cardinality(members) =< t THEN 0
    ELSE CHOOSE r \in {regret[j] : j \in members} :
             /\ Cardinality({j \in members : regret[j] > r}) =< t
             /\ Cardinality({j \in members : regret[j] >= r}) > t

WorstCase(c, i, g) ==
    Trimmed([j \in Peers(i, g) |-> PeerRegret(c, j, g)], Peers(i, g), Cardinality(NA(i, g)))

\* The feasible conventions of the least worst case.
Best(l, i, g) ==
    LET worst == [c \in ToSet(Feasible(l, i, g)) |-> WorstCase(c, i, g)]
    IN  {c \in DOMAIN worst : \A d \in DOMAIN worst : worst[c] =< worst[d]}

-----------------------------------------------------------------------------
(* The handshake, and what it answers if the choice falls on c *)

Answer(c, i, g) ==
    [convention |-> c,
     tier       |-> CASE c = null                       -> "fallback-only"
                      [] c \notin {null, Provisional(i, g)} -> "tier2+3"
                      [] c # null /\ c = Provisional(i, g) ->
                            IF NO(i, g) = {} /\ NA(i, g) = {} THEN "tier1" ELSE "tier1+3"]

Abort == [convention |-> null, tier |-> "abort"]

\* In JavaScript a Set is iterated over in the order of its insertions, and only
\* a smaller worst case replaces the choice.
First(i, g) ==
    LET f    == Feasible("javascript", i, g)
        best == Best("javascript", i, g)
        k    == CHOOSE k \in DOMAIN f :
                    f[k] \in best /\ \A l \in 1 .. k - 1 : f[l] \notin best
    IN  IF f = <<>> THEN null ELSE f[k]

runHandshake(i, published) ==
    LET g == canonicalize("javascript", published)
    IN  IF Aborts(i, g) THEN Abort ELSE Answer(First(i, g), i, g)

runThreeTierHandshake(i, published) == runHandshake(i, published)

\* In Python a set is iterated over in the order of its hashes, which differs from
\* process to process: any of the best may be chosen.
run_three_tier_handshake(i, published) ==
    LET g == canonicalize("python", published)
    IN  IF Aborts(i, g) THEN {Abort}
        ELSE IF Feasible("python", i, g) = <<>> THEN {Answer(null, i, g)}
        ELSE {Answer(c, i, g) : c \in Best("python", i, g)}

-----------------------------------------------------------------------------
(* POST /oap/aht/convention/propose, given the spaces of the followers *)

propose(published) ==
    LET g          == canonicalize("javascript", published)
        followers  == {j \in DOMAIN g : g[j].class = "P"}
        candidates == intersectConventionSpaces(followers, g)
    IN  IF followers = {} THEN null
        ELSE IF candidates # {} THEN Reduced(candidates)
        ELSE IF \E j \in DOMAIN g : g[j].class = "O"
        THEN Reduced(UNION {Space(j, g) : j \in followers})
        ELSE null

=============================================================================
