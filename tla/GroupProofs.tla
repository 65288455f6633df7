----------------------------- MODULE GroupProofs -----------------------------
(***************************************************************************)
(* Theorems about groups of participants.  The handshake, in groups of any  *)
(* size with any conventions: adversaries do not count, and followers       *)
(* agree.  The rings among participants who rate each other, in reports of  *)
(* any length: they are found whole, and cannot be diluted.                 *)
(***************************************************************************)
EXTENDS Agreement, RingDetection, FiniteSetTheorems, SequenceTheorems, WellFoundedInduction, TLAPS

\* A group once its conventions are in canonical form.  The regret expected of an observed
\* member is a mean of regrets, and lies between those.
IsGroup(g) ==
    /\ Len(g) \in Nat /\ DOMAIN g = 1 .. Len(g)
    /\ \A j \in DOMAIN g : g[j].class \in {"P", "O", "A"}
    /\ \A c \in Forms, j \in DOMAIN g :
           g[j].class = "O" => expectedRegretUnderPosterior(c, g[j].actions) \in 0 .. One

ReadMember == [class : {"P", "O", "A"}, space : Seq(Forms), actions : Seq(DOMAIN Likelihood)]

\* The canonical forms that all followers publish.
Common(g) == intersectConventionSpaces(Followers(g), g)

\* The peers of member i that are no adversaries.
Honest(i, g) == Peers(i, g) \ NA(i, g)

-----------------------------------------------------------------------------
(* Greatest and least elements *)

\* A nonempty set of natural numbers has a least element.
LEMMA LeastExists ==
    ASSUME NEW T, T \subseteq Nat, T # {}
    PROVE  \E t \in T : \A u \in T : t =< u
<1> DEFINE R == OpToRel(<, Nat)
<1>1. IsWellFoundedOn(R, Nat)
  BY NatLessThanWellFounded
<1>2. PICK t \in T : \A u \in T : ~ (<<u, t>> \in R)
  <2> HIDE DEF R
  <2> QED BY <1>1, WFMin
<1>3. \A u \in T : ~ (u < t)
  BY <1>2 DEF OpToRel
<1> QED BY <1>3

\* A nonempty set of numbers up to n has a greatest element.
LEMMA GreatestExists ==
    ASSUME NEW n \in Nat, NEW T, T \subseteq 0 .. n, T # {}
    PROVE  \E t \in T : \A u \in T : u =< t
<1> DEFINE D == {n - t : t \in T}
<1>1. D \subseteq Nat /\ D # {}
  <2>1. \A t \in T : n - t \in Nat
    OBVIOUS
  <2>2. \E t \in T : n - t \in D
    OBVIOUS
  <2> QED BY <2>1, <2>2
<1>2. PICK d \in D : \A e \in D : d =< e
  <2> HIDE DEF D
  <2> QED BY <1>1, LeastExists
<1>3. PICK t \in T : d = n - t
  BY <1>2
<1>4. ASSUME NEW u \in T PROVE u =< t
  <2>1. n - t =< n - u
    BY <1>2, <1>3
  <2> QED BY <2>1
<1> QED BY <1>4

LEMMA FormsNat == Forms \subseteq Nat
BY FormsAssumption DEF Forms

\* Min is the least element of a nonempty set of forms.
LEMMA MinOfForms ==
    ASSUME NEW S, S \subseteq Forms, S # {}
    PROVE  Min(S) \in S /\ \A c \in S : Min(S) =< c
<1>1. \E x \in S : \A y \in S : x =< y
  BY FormsNat, LeastExists
<1> QED BY <1>1 DEF Min

\* A function on 1 .. n is a sequence of length n.
LEMMA ListsAreSequences ==
    ASSUME NEW S, NEW n \in Nat, NEW f \in [1 .. n -> S]
    PROVE  f \in Seq(S) /\ Len(f) = n
OBVIOUS

-----------------------------------------------------------------------------
(* Sums over finite sets *)

Chosen(s) == CHOOSE x \in s : TRUE

\* The sums of f over the subsets of its domain with at most n members.
SumsUpTo(n, it, f) ==
    it = [s \in {s \in SUBSET DOMAIN f : Cardinality(s) =< n} |->
             IF s = {} THEN 0 ELSE f[Chosen(s)] + it[s \ {Chosen(s)}]]

LEMMA OneLess ==
    ASSUME NEW D, IsFiniteSet(D), NEW s \in SUBSET D, s # {}
    PROVE  /\ Chosen(s) \in s
           /\ s \ {Chosen(s)} \in SUBSET D
           /\ Cardinality(s) \in Nat \ {0}
           /\ Cardinality(s \ {Chosen(s)}) = Cardinality(s) - 1
<1>1. Chosen(s) \in s
  BY DEF Chosen
<1>2. IsFiniteSet(s)
  BY FS_Subset
<1>3. Cardinality(s \ {Chosen(s)}) = Cardinality(s) - 1
  BY <1>1, <1>2, FS_RemoveElement
<1>4. Cardinality(s) \in Nat \ {0}
  BY <1>2, FS_CardinalityType, FS_EmptySet
<1> QED BY <1>1, <1>3, <1>4

LEMMA SomeSums ==
    ASSUME NEW f, IsFiniteSet(DOMAIN f), NEW n \in Nat
    PROVE  \E it : SumsUpTo(n, it, f)
<1> DEFINE Bad == {m \in Nat : ~ \E it : SumsUpTo(m, it, f)}
           Few(m) == {s \in SUBSET DOMAIN f : Cardinality(s) =< m}
<1> SUFFICES ASSUME Bad # {} PROVE FALSE
  OBVIOUS
<1>1. PICK m \in Bad : \A u \in Bad : m =< u
  BY LeastExists
<1>2. CASE m = 0
  <2> DEFINE it == [s \in Few(0) |-> 0]
  <2>1. \A s \in Few(0) : s = {}
    <3> SUFFICES ASSUME NEW s \in SUBSET DOMAIN f, Cardinality(s) =< 0, s # {} PROVE FALSE
      OBVIOUS
    <3>1. Cardinality(s) \in Nat \ {0}
      BY OneLess
    <3> QED BY <3>1
  <2>2. it = [s \in Few(0) |-> IF s = {} THEN 0 ELSE f[Chosen(s)] + it[s \ {Chosen(s)}]]
    BY <2>1
  <2> QED BY <1>1, <1>2, <2>2 DEF SumsUpTo
<1>3. CASE m # 0
  <2>1. m - 1 \in Nat /\ m - 1 \notin Bad
    BY <1>1, <1>3
  <2>2. PICK h : SumsUpTo(m - 1, h, f)
    BY <2>1
  <2> DEFINE it == [s \in Few(m) |-> IF s = {} THEN 0 ELSE f[Chosen(s)] + h[s \ {Chosen(s)}]]
  <2>3. \A s \in Few(m - 1) : s \in Few(m)
    <3> TAKE s \in Few(m - 1)
    <3>1. Cardinality(s) \in Nat
      BY FS_Subset, FS_CardinalityType
    <3> QED BY <2>1, <3>1
  <2>4. \A s \in Few(m - 1) : it[s] = h[s]
    BY <2>2, <2>3 DEF SumsUpTo
  <2>5. \A s \in Few(m) : s # {} => s \ {Chosen(s)} \in Few(m - 1)
    BY OneLess
  <2>6. it = [s \in Few(m) |-> IF s = {} THEN 0 ELSE f[Chosen(s)] + it[s \ {Chosen(s)}]]
    <3> HIDE DEF Few
    <3> QED BY <2>4, <2>5
  <2> QED BY <1>1, <2>6 DEF SumsUpTo
<1> QED BY <1>2, <1>3

\* SumFunction adds one member of the domain after the other.
LEMMA SumEquation ==
    ASSUME NEW f, IsFiniteSet(DOMAIN f)
    PROVE  \E it : /\ SumFunction(f) = it[DOMAIN f]
                   /\ it[{}] = 0
                   /\ \A s \in SUBSET DOMAIN f :
                          s # {} => it[s] = f[Chosen(s)] + it[s \ {Chosen(s)}]
<1> DEFINE Is(it) == it = [s \in SUBSET DOMAIN f |->
                              IF s = {} THEN 0 ELSE f[Chosen(s)] + it[s \ {Chosen(s)}]]
           n == Cardinality(DOMAIN f)
<1>1. SumFunction(f) = (CHOOSE it : Is(it))[DOMAIN f]
  BY DEF SumFunction, SumFunctionOnSet, FoldFunctionOnSet, MapThenFoldSet, Chosen
<1>2. n \in Nat
  BY FS_CardinalityType
<1>3. {s \in SUBSET DOMAIN f : Cardinality(s) =< n} = SUBSET DOMAIN f
  BY FS_Subset
<1>4. PICK it : SumsUpTo(n, it, f)
  BY <1>2, SomeSums
<1>5. Is(it)
  BY <1>3, <1>4 DEF SumsUpTo
<1>6. Is(CHOOSE jt : Is(jt))
  <2> HIDE DEF Is
  <2> QED BY <1>5
<1> DEFINE jt == CHOOSE jt : Is(jt)
<1>7. jt[{}] = 0 /\ \A s \in SUBSET DOMAIN f : s # {} => jt[s] = f[Chosen(s)] + jt[s \ {Chosen(s)}]
  <2> DEFINE kt == jt
  <2>1. Is(kt)
    BY <1>6
  <2> HIDE DEF kt
  <2>2. kt[{}] = 0 /\ \A s \in SUBSET DOMAIN f : s # {} => kt[s] = f[Chosen(s)] + kt[s \ {Chosen(s)}]
    BY <2>1
  <2> QED BY <2>2 DEF kt
<1> HIDE DEF Is
<1> QED BY <1>1, <1>7

LEMMA AddBounds ==
    ASSUME NEW a \in Nat, NEW b \in Nat, NEW c \in Nat, NEW d \in Nat, NEW k \in Nat,
           a =< k * b, c =< k * d
    PROVE  a + c =< k * (b + d)
<1>1. k * (b + d) = k * b + k * d
  OBVIOUS
<1>2. k * b \in Nat /\ k * d \in Nat
  OBVIOUS
<1> QED BY <1>1, <1>2

\* A sum of terms that are at most k times those of another sum is at most k times that.
LEMMA SumBounds ==
    ASSUME NEW f, NEW g, DOMAIN f = DOMAIN g, IsFiniteSet(DOMAIN f), DOMAIN f # {}, NEW k \in Nat,
           \A x \in DOMAIN f : f[x] \in Nat /\ g[x] \in Nat \ {0} /\ f[x] =< k * g[x]
    PROVE  /\ SumFunction(f) \in Nat /\ SumFunction(g) \in Nat \ {0}
           /\ SumFunction(f) =< k * SumFunction(g)
<1> DEFINE D == DOMAIN f
<1>1. PICK it : /\ SumFunction(f) = it[D] /\ it[{}] = 0
                /\ \A s \in SUBSET D : s # {} => it[s] = f[Chosen(s)] + it[s \ {Chosen(s)}]
  BY SumEquation
<1>2. PICK jt : /\ SumFunction(g) = jt[D] /\ jt[{}] = 0
                /\ \A s \in SUBSET D : s # {} => jt[s] = g[Chosen(s)] + jt[s \ {Chosen(s)}]
  <2>1. IsFiniteSet(DOMAIN g) /\ DOMAIN g = D
    OBVIOUS
  <2>2. PICK jt : /\ SumFunction(g) = jt[DOMAIN g] /\ jt[{}] = 0
                  /\ \A s \in SUBSET DOMAIN g :
                         s # {} => jt[s] = g[Chosen(s)] + jt[s \ {Chosen(s)}]
    BY <2>1, SumEquation
  <2> QED BY <2>1, <2>2
<1> DEFINE Good(s) == /\ it[s] \in Nat /\ jt[s] \in Nat /\ it[s] =< k * jt[s]
                      /\ s # {} => jt[s] # 0
           Bad     == {s \in SUBSET D : ~Good(s)}
           Sizes   == {Cardinality(s) : s \in Bad}
<1>3. Bad = {}
  <2> SUFFICES ASSUME Bad # {} PROVE FALSE
    OBVIOUS
  <2>1. Sizes \subseteq Nat /\ Sizes # {}
    <3>1. \A s \in SUBSET D : Cardinality(s) \in Nat
      BY FS_Subset, FS_CardinalityType
    <3> HIDE DEF Good
    <3> QED BY <3>1
  <2>2. PICK n \in Sizes : \A m \in Sizes : n =< m
    <3> HIDE DEF Sizes
    <3> QED BY <2>1, LeastExists
  <2>3. PICK s \in Bad : Cardinality(s) = n
    BY <2>2
  <2>4. s # {}
    <3>1. Good({})
      BY <1>1, <1>2
    <3> HIDE DEF Good
    <3> QED BY <2>3, <3>1
  <2> DEFINE x == Chosen(s)
             r == s \ {x}
  <2>5. x \in D /\ r \in SUBSET D /\ Cardinality(r) < Cardinality(s)
    BY <2>3, <2>4, OneLess
  <2>6. r \notin Bad
    <3> HIDE DEF Good, r
    <3>1. ASSUME NEW b \in Bad PROVE ~ (Cardinality(b) < n)
      <4>1. Cardinality(b) \in Sizes
        OBVIOUS
      <4>2. Cardinality(b) \in Nat /\ n \in Nat
        <5> HIDE DEF Sizes, Bad
        <5> QED BY <2>1, <4>1
      <4>3. n =< Cardinality(b)
        <5> HIDE DEF Sizes, Bad
        <5> QED BY <2>2, <4>1
      <4> HIDE DEF Sizes, Bad
      <4> QED BY <4>2, <4>3
    <3> QED BY <2>3, <2>5, <3>1
  <2>7. Good(r)
    BY <2>5, <2>6
  <2>8. it[s] = f[x] + it[r] /\ jt[s] = g[x] + jt[r]
    BY <1>1, <1>2, <2>3, <2>4
  <2>9. f[x] \in Nat /\ g[x] \in Nat \ {0} /\ f[x] =< k * g[x]
    BY <2>5
  <2> HIDE DEF x, r
  <2>10. it[s] =< k * jt[s]
    BY <2>7, <2>8, <2>9, AddBounds
  <2> QED BY <2>3, <2>7, <2>8, <2>9, <2>10
<1>4. Good(D)
  BY <1>3
<1> QED BY <1>1, <1>2, <1>4

-----------------------------------------------------------------------------
(* The expected regret *)

\* The posterior after the first n of the actions.
Weighed(k, post, actions) ==
    [th \in Types |->
        IF k = 0 THEN 1
        ELSE post[k - 1][th] * Max({Likelihood[actions[k]][th], LeastLikelihood})]

PosteriorsUpTo(n, post, actions) == post = [k \in 0 .. n |-> Weighed(k, post, actions)]

LEMMA SomePosteriors ==
    ASSUME NEW actions, NEW n \in Nat
    PROVE  \E post : PosteriorsUpTo(n, post, actions)
<1> DEFINE Bad == {m \in Nat : ~ \E post : PosteriorsUpTo(m, post, actions)}
<1> SUFFICES ASSUME Bad # {} PROVE FALSE
  OBVIOUS
<1>1. PICK m \in Bad : \A u \in Bad : m =< u
  BY LeastExists
<1>2. CASE m = 0
  <2> DEFINE post == [k \in 0 .. 0 |-> [th \in Types |-> 1]]
  <2>1. Weighed(0, post, actions) = [th \in Types |-> 1]
    BY DEF Weighed
  <2>2. post = [k \in 0 .. 0 |-> Weighed(k, post, actions)]
    BY <2>1
  <2> QED BY <1>1, <1>2, <2>2 DEF PosteriorsUpTo
<1>3. CASE m # 0
  <2>1. m - 1 \in Nat /\ m - 1 \notin Bad
    BY <1>1, <1>3
  <2>2. PICK q : PosteriorsUpTo(m - 1, q, actions)
    BY <2>1
  <2> DEFINE post == [k \in 0 .. m |-> Weighed(k, q, actions)]
  <2>3. \A k \in 0 .. m - 1 : post[k] = q[k]
    BY <2>1, <2>2 DEF PosteriorsUpTo
  <2>4. \A k \in 0 .. m : k # 0 => k - 1 \in 0 .. m - 1
    BY <2>1
  <2>5. \A k \in 0 .. m : k # 0 => post[k - 1] = q[k - 1]
    BY <2>3, <2>4
  <2> HIDE DEF post
  <2>6. \A k \in 0 .. m : Weighed(k, q, actions) = Weighed(k, post, actions)
    BY <2>5 DEF Weighed
  <2>7. post = [k \in 0 .. m |-> Weighed(k, post, actions)]
    BY <2>6 DEF post
  <2> QED BY <1>1, <2>7 DEF PosteriorsUpTo
<1> QED BY <1>2, <1>3

IsActions(actions) ==
    /\ Len(actions) \in Nat
    /\ \A k \in 1 .. Len(actions) : actions[k] \in DOMAIN Likelihood

\* No type has probability zero.
LEMMA PosteriorPositive ==
    ASSUME NEW actions, IsActions(actions)
    PROVE  /\ DOMAIN Posterior(actions) = Types
           /\ \A th \in Types : Posterior(actions)[th] \in Nat \ {0}
<1> DEFINE n      == Len(actions)
           post   == CHOOSE post : PosteriorsUpTo(n, post, actions)
<1>1. n \in Nat
  BY DEF IsActions
<1>2. PosteriorsUpTo(n, post, actions)
  BY <1>1, SomePosteriors
<1>3. Posterior(actions) = post[n]
  BY DEF Posterior, PosteriorsUpTo, Weighed
<1> HIDE DEF post
<1>4. ASSUME NEW k \in 1 .. n, NEW th \in Types
      PROVE  Max({Likelihood[actions[k]][th], LeastLikelihood}) \in Nat \ {0}
  <2>1. actions[k] \in DOMAIN Likelihood
    BY DEF IsActions
  <2>2. \E t \in DOMAIN TypeSpace : th = TypeSpace[t]
    BY DEF Types, ToSet
  <2>3. Likelihood[actions[k]][th] \in Nat
    BY <2>1, <2>2, TypesAssumption
  <2>4. LeastLikelihood \in Nat \ {0}
    BY TypesAssumption
  <2> DEFINE a == Likelihood[actions[k]][th]
             b == LeastLikelihood
  <2>5. a \in Nat /\ b \in Nat \ {0}
    BY <2>3, <2>4
  <2> HIDE DEF a, b
  <2>6. \E x \in {a, b} : \A y \in {a, b} : x >= y
    BY <2>5
  <2>7. Max({a, b}) \in {a, b} /\ Max({a, b}) >= b
    BY <2>6 DEF Max
  <2>8. Max({a, b}) \in Nat \ {0}
    BY <2>5, <2>7
  <2> QED BY <2>8 DEF a, b
<1> DEFINE Good(k) == DOMAIN post[k] = Types /\ \A th \in Types : post[k][th] \in Nat \ {0}
           Bad     == {k \in 0 .. n : ~Good(k)}
<1>5. Bad = {}
  <2> SUFFICES ASSUME Bad # {} PROVE FALSE
    OBVIOUS
  <2>1. PICK k \in Bad : \A u \in Bad : k =< u
    <3>1. Bad \subseteq Nat
      BY <1>1
    <3> HIDE DEF Bad
    <3> QED BY <3>1, LeastExists
  <2>2. post[k] = Weighed(k, post, actions)
    BY <1>2, <2>1 DEF PosteriorsUpTo
  <2>3. CASE k = 0
    BY <2>1, <2>2, <2>3 DEF Weighed
  <2>4. CASE k # 0
    <3>1. k - 1 \in 0 .. n /\ k - 1 \notin Bad /\ k \in 1 .. n
      BY <1>1, <2>1, <2>4
    <3>2. Good(k - 1)
      BY <3>1
    <3>3. ASSUME NEW th \in Types PROVE post[k][th] \in Nat \ {0}
      <4>1. post[k][th] = post[k - 1][th] * Max({Likelihood[actions[k]][th], LeastLikelihood})
        BY <2>2, <2>4 DEF Weighed
      <4>2. \A a, b \in Nat \ {0} : a * b \in Nat \ {0}
        OBVIOUS
      <4> QED BY <1>4, <3>1, <3>2, <4>1, <4>2
    <3>4. DOMAIN post[k] = Types
      BY <2>2 DEF Weighed
    <3> QED BY <2>1, <3>3, <3>4
  <2> QED BY <2>3, <2>4
<1> QED BY <1>1, <1>3, <1>5

LEMMA Quotient ==
    ASSUME NEW a \in Nat, NEW b \in Nat \ {0}, NEW k \in Nat, a =< k * b
    PROVE  a \div b \in 0 .. k
<1> DEFINE q == a \div b
<1>1. q \in Nat /\ b * q =< a
  OBVIOUS
<1>2. \A x \in Nat : x > k => b * x > k * b
  OBVIOUS
<1> HIDE DEF q
<1>3. ~ (q > k)
  BY <1>1, <1>2
<1>4. q \in 0 .. k
  BY <1>1, <1>3
<1> QED BY <1>4 DEF q

\* A mean of regrets lies between those (expectedRegretUnderPosterior).
LEMMA ExpectedRegret ==
    ASSUME NEW c \in Forms, NEW actions, IsActions(actions)
    PROVE  expectedRegretUnderPosterior(c, actions) \in 0 .. One
<1> DEFINE post == Posterior(actions)
           cost == [th \in Types |-> post[th] * RegretOf[c][th]]
<1>1. One \in Nat
  BY UnitAssumption
<1>2. CASE Types = {}
  BY <1>1, <1>2 DEF expectedRegretUnderPosterior
<1>3. CASE Types # {}
  <2>1. IsFiniteSet(Types)
    <3>1. Types = {TypeSpace[t] : t \in DOMAIN TypeSpace}
      BY DEF Types, ToSet
    <3>2. IsFiniteSet(DOMAIN TypeSpace)
      <4>1. DOMAIN TypeSpace = 1 .. Len(TypeSpace) /\ Len(TypeSpace) \in Nat
        BY TypesAssumption
      <4> QED BY <4>1, FS_Interval
    <3> DEFINE it == [t \in DOMAIN TypeSpace |-> TypeSpace[t]]
    <3>3. it \in Surjection(DOMAIN TypeSpace, Types)
      BY <3>1 DEF Surjection
    <3> HIDE DEF it
    <3> QED BY <3>2, <3>3, FS_Surjection
  <2>2. DOMAIN post = Types /\ \A th \in Types : post[th] \in Nat \ {0}
    BY PosteriorPositive
  <2>3. \A th \in Types : RegretOf[c][th] \in 0 .. One
    BY TypesAssumption DEF Types, ToSet
  <2>4. \A p \in Nat, r \in 0 .. One : p * r \in Nat /\ p * r =< One * p
    BY <1>1
  <2> HIDE DEF post
  <2>5. \A th \in Types : cost[th] \in Nat /\ cost[th] =< One * post[th]
    BY <2>2, <2>3, <2>4
  <2>6. DOMAIN cost = Types
    OBVIOUS
  <2> HIDE DEF cost
  <2>7. /\ SumFunction(cost) \in Nat /\ SumFunction(post) \in Nat \ {0}
        /\ SumFunction(cost) =< One * SumFunction(post)
    BY <1>1, <1>3, <2>1, <2>2, <2>5, <2>6, SumBounds
  <2>8. expectedRegretUnderPosterior(c, actions) = SumFunction(cost) \div SumFunction(post)
    BY <1>3 DEF expectedRegretUnderPosterior, post, cost
  <2> QED BY <1>1, <2>7, <2>8, Quotient
<1> QED BY <1>2, <1>3

LEMMA GroupsAreGroups ==
    ASSUME NEW g \in Seq(ReadMember)
    PROVE  IsGroup(g)
<1>1. Len(g) \in Nat /\ DOMAIN g = 1 .. Len(g)
  OBVIOUS
<1>2. ASSUME NEW j \in DOMAIN g
      PROVE  g[j].class \in {"P", "O", "A"} /\ IsActions(g[j].actions)
  <2>1. g[j] \in ReadMember
    OBVIOUS
  <2>2. g[j].class \in {"P", "O", "A"} /\ g[j].actions \in Seq(DOMAIN Likelihood)
    BY <2>1 DEF ReadMember
  <2>3. IsActions(g[j].actions)
    <3> DEFINE acts == g[j].actions
    <3>1. acts \in Seq(DOMAIN Likelihood)
      BY <2>2
    <3> HIDE DEF acts
    <3>2. IsActions(acts)
      BY <3>1 DEF IsActions
    <3> QED BY <3>2 DEF acts
  <2> QED BY <2>2, <2>3
<1> QED BY <1>1, <1>2, ExpectedRegret DEF IsGroup

-----------------------------------------------------------------------------
(* The trimming *)

\* The trimmed maximum of regrets of which those of the adversaries are the greatest
\* possible, as many of them dropped as there are adversaries, is the greatest of the
\* others' regrets (runHandshake, the sort and the slice of perPeerRegret).
THEOREM TrimsAdversaries ==
    ASSUME NEW M, IsFiniteSet(M), NEW A \in SUBSET M, NEW regret \in [M -> 0 .. One],
           \A a \in A : regret[a] = One, M \ A # {}
    PROVE  LET worst == Trimmed(regret, M, Cardinality(A))
           IN  /\ \E h \in M \ A : worst = regret[h]
               /\ \A h \in M \ A : regret[h] =< worst
<1> DEFINE t          == Cardinality(A)
           above(r)   == {j \in M : regret[j] > r}
           reaches(r) == {j \in M : regret[j] >= r}
           Is(r)      == Cardinality(above(r)) =< t /\ Cardinality(reaches(r)) > t
<1>1. One \in Nat
  BY UnitAssumption
<1>2. IsFiniteSet(A) /\ t \in Nat
  BY FS_Subset, FS_CardinalityType
<1>3. \A r : /\ IsFiniteSet(above(r)) /\ Cardinality(above(r)) \in Nat
             /\ IsFiniteSet(reaches(r)) /\ Cardinality(reaches(r)) \in Nat
  <2> TAKE r
  <2>1. above(r) \in SUBSET M /\ reaches(r) \in SUBSET M
    OBVIOUS
  <2> QED BY <2>1, FS_Subset, FS_CardinalityType
<1>4. PICK h \in M \ A : \A j \in M \ A : regret[j] =< regret[h]
  <2> DEFINE T == {regret[j] : j \in M \ A}
  <2>1. T \subseteq 0 .. One /\ T # {}
    OBVIOUS
  <2>2. \E r \in T : \A u \in T : u =< r
    <3> HIDE DEF T
    <3> QED BY <1>1, <2>1, GreatestExists
  <2> QED BY <2>2
<1>5. Cardinality(A \cup {h}) = t + 1
  BY <1>2, <1>4, FS_AddElement
<1>6. Is(regret[h])
  <2>1. above(regret[h]) \subseteq A
    BY <1>4
  <2>2. A \cup {h} \subseteq reaches(regret[h])
    BY <1>1, <1>4
  <2>3. Cardinality(above(regret[h])) =< t
    BY <1>2, <2>1, FS_Subset
  <2>4. Cardinality(A \cup {h}) =< Cardinality(reaches(regret[h]))
    BY <1>3, <2>2, FS_Subset
  <2> HIDE DEF above, reaches, t
  <2> QED BY <1>2, <1>3, <1>5, <2>3, <2>4
<1>7. ASSUME NEW m \in M, Is(regret[m]) PROVE regret[m] = regret[h]
  <2>1. CASE regret[m] > regret[h]
    <3>1. reaches(regret[m]) \subseteq A
      BY <1>1, <1>4, <2>1
    <3>2. Cardinality(reaches(regret[m])) =< t
      BY <1>2, <3>1, FS_Subset
    <3> HIDE DEF above, reaches, t
    <3> QED BY <1>2, <1>3, <1>7, <3>2
  <2>2. CASE regret[m] < regret[h]
    <3>1. A \cup {h} \subseteq above(regret[m])
      BY <1>1, <1>4, <2>2
    <3>2. Cardinality(A \cup {h}) =< Cardinality(above(regret[m]))
      BY <1>3, <3>1, FS_Subset
    <3> HIDE DEF above, t
    <3> QED BY <1>2, <1>3, <1>5, <1>7, <3>2
  <2>3. regret[m] \in Int /\ regret[h] \in Int
    BY <1>1, <1>4
  <2>4. CASE ~ (regret[m] > regret[h]) /\ ~ (regret[m] < regret[h])
    <3> HIDE DEF Is
    <3> QED BY <2>3, <2>4
  <2> HIDE DEF Is
  <2> QED BY <2>1, <2>2, <2>4
<1>8. ~ (Cardinality(M) =< t)
  <2>1. Cardinality(A \cup {h}) =< Cardinality(M)
    BY <1>4, FS_Subset
  <2>2. Cardinality(M) \in Nat
    BY FS_CardinalityType
  <2> QED BY <1>2, <1>5, <2>1, <2>2
<1>9. Trimmed(regret, M, t) = regret[h]
  <2>1. Trimmed(regret, M, t) = CHOOSE r \in {regret[j] : j \in M} : Is(r)
    BY <1>8 DEF Trimmed
  <2>2. \E r \in {regret[j] : j \in M} : Is(r)
    BY <1>4, <1>6
  <2>3. \A r \in {regret[j] : j \in M} : Is(r) => r = regret[h]
    BY <1>7
  <2> HIDE DEF Is
  <2> QED BY <2>1, <2>2, <2>3
<1> QED BY <1>4, <1>9

-----------------------------------------------------------------------------
(* The worst case *)

LEMMA Regrets ==
    ASSUME NEW g, IsGroup(g), NEW c \in Forms, NEW j \in DOMAIN g
    PROVE  /\ PeerRegret(c, j, g) \in 0 .. One
           /\ g[j].class = "A" => PeerRegret(c, j, g) = One
BY UnitAssumption DEF IsGroup, PeerRegret

LEMMA Members ==
    ASSUME NEW g, IsGroup(g), NEW i
    PROVE  /\ IsFiniteSet(Peers(i, g)) /\ IsFiniteSet(NA(i, g))
           /\ NA(i, g) \in SUBSET Peers(i, g)
           /\ \A j \in NA(i, g) : g[j].class = "A"
<1>1. IsFiniteSet(DOMAIN g)
  BY FS_Interval DEF IsGroup
<1>2. Peers(i, g) \in SUBSET DOMAIN g /\ NA(i, g) \in SUBSET DOMAIN g
  BY DEF Peers, NA
<1>3. IsFiniteSet(Peers(i, g)) /\ IsFiniteSet(NA(i, g))
  BY <1>1, <1>2, FS_Subset
<1> QED BY <1>3 DEF NA

\* Adversaries do not count: whoever they are and however many, the worst case of a
\* convention is the greatest of the honest peers' regrets, and nothing if there are none.
\* So a follower compares the conventions as it would without the adversaries
\* (runHandshake).
THEOREM AdversariesDoNotCount ==
    ASSUME NEW g, IsGroup(g), NEW i \in DOMAIN g, NEW c \in Forms
    PROVE  /\ Honest(i, g) = {} => WorstCase(c, i, g) = 0
           /\ Honest(i, g) # {} =>
                  /\ \E h \in Honest(i, g) : WorstCase(c, i, g) = PeerRegret(c, h, g)
                  /\ \A h \in Honest(i, g) : PeerRegret(c, h, g) =< WorstCase(c, i, g)
<1> DEFINE regret == [j \in Peers(i, g) |-> PeerRegret(c, j, g)]
           worst  == Trimmed(regret, Peers(i, g), Cardinality(NA(i, g)))
<1>1. WorstCase(c, i, g) = worst
  BY DEF WorstCase
<1>2. ASSUME Honest(i, g) = {} PROVE worst = 0
  <2>1. Peers(i, g) = NA(i, g)
    BY <1>2, Members DEF Honest
  <2>2. Cardinality(NA(i, g)) \in Nat
    BY Members, FS_CardinalityType
  <2> QED BY <2>1, <2>2 DEF Trimmed
<1>3. ASSUME Honest(i, g) # {}
      PROVE  /\ \E h \in Honest(i, g) : worst = regret[h]
             /\ \A h \in Honest(i, g) : regret[h] =< worst
  <2>1. regret \in [Peers(i, g) -> 0 .. One]
    BY Regrets DEF Peers
  <2>2. \A a \in NA(i, g) : regret[a] = One
    BY Members, Regrets DEF Peers
  <2> HIDE DEF regret
  <2> QED BY <1>3, <2>1, <2>2, Members, TrimsAdversaries DEF Honest
<1>4. \A h \in Honest(i, g) : regret[h] = PeerRegret(c, h, g)
  BY DEF Honest
<1> HIDE DEF regret, worst
<1> QED BY <1>1, <1>2, <1>3, <1>4

-----------------------------------------------------------------------------
(* Agreement *)

\* Followers abort together: each counts the adversaries as the others do.
THEOREM AbortTogether ==
    ASSUME NEW g, NEW i \in Followers(g), NEW j \in Followers(g)
    PROVE  Aborts(i, g) <=> Aborts(j, g)
<1>1. NA(i, g) = NA(j, g)
  BY DEF NA, Peers, Followers
<1> QED BY <1>1 DEF Aborts

\* What a member's canonical forms leave of a group.
LEMMA Reading ==
    ASSUME NEW g \in Seq(GroupMember), NEW l \in Languages
    PROVE  /\ canonicalize(l, g) \in Seq(ReadMember)
           /\ DOMAIN canonicalize(l, g) = DOMAIN g /\ Len(canonicalize(l, g)) = Len(g)
           /\ \A j \in DOMAIN g :
                  /\ canonicalize(l, g)[j].class = g[j].class
                  /\ canonicalize(l, g)[j].actions = g[j].actions
                  /\ Space(j, canonicalize(l, g)) = {Form[l][d] : d \in Space(j, g)}
<1>1. DOMAIN g = 1 .. Len(g) /\ Len(g) \in Nat
  OBVIOUS
<1>2. ASSUME NEW j \in DOMAIN g
      PROVE  /\ canonicalize(l, g)[j] \in ReadMember
             /\ canonicalize(l, g)[j].class = g[j].class
             /\ canonicalize(l, g)[j].actions = g[j].actions
             /\ Space(j, canonicalize(l, g)) = {Form[l][d] : d \in Space(j, g)}
  <2> DEFINE m == g[j]
             r == [m EXCEPT !.space = canonicalForms(l, @)]
  <2>1. canonicalize(l, g)[j] = r
    BY DEF canonicalize
  <2>2. m \in GroupMember
    OBVIOUS
  <2> HIDE DEF m
  <2>3. /\ m.space \in Seq(Conventions) /\ m.class \in {"P", "O", "A"}
        /\ m.actions \in Seq(DOMAIN Likelihood)
    BY <2>2 DEF GroupMember
  <2>4. r = [class |-> m.class, space |-> canonicalForms(l, m.space), actions |-> m.actions]
    <3>1. m = [class |-> m.class, space |-> m.space, actions |-> m.actions]
      BY <2>2 DEF GroupMember
    <3>2. r = [m EXCEPT !.space = canonicalForms(l, m.space)]
      OBVIOUS
    <3> HIDE DEF r
    <3> QED BY <3>1, <3>2
  <2> HIDE DEF r
  <2>5. /\ r.class = m.class /\ r.actions = m.actions
        /\ r.space = canonicalForms(l, m.space)
    BY <2>4
  <2>6. canonicalForms(l, m.space) \in Seq(Forms)
    <3>1. DOMAIN m.space = 1 .. Len(m.space) /\ Len(m.space) \in Nat
      BY <2>3
    <3>2. \A k \in 1 .. Len(m.space) : Form[l][m.space[k]] \in Forms
      BY <2>3 DEF Forms
    <3> QED BY <3>1, <3>2 DEF canonicalForms
  <2>7. r \in ReadMember
    BY <2>3, <2>4, <2>6 DEF ReadMember
  <2>8. ToSet(r.space) = {Form[l][d] : d \in ToSet(m.space)}
    BY <2>5 DEF ToSet, canonicalForms
  <2>9. Space(j, canonicalize(l, g)) = ToSet(r.space) /\ Space(j, g) = ToSet(m.space)
    BY <2>1 DEF Space, m
  <2> QED BY <2>1, <2>5, <2>7, <2>8, <2>9 DEF m
<1>3. DOMAIN canonicalize(l, g) = 1 .. Len(g)
  BY <1>1 DEF canonicalize
<1>4. \A j \in 1 .. Len(g) : canonicalize(l, g)[j] \in ReadMember
  BY <1>1, <1>2
<1> DEFINE read == canonicalize(l, g)
<1>6. read \in Seq(ReadMember) /\ Len(read) = Len(g)
  <2> DEFINE n == Len(g)
  <2>1. n \in Nat /\ read \in [1 .. n -> ReadMember]
    BY <1>1, <1>3, <1>4 DEF canonicalize
  <2> HIDE DEF read, n
  <2>2. read \in Seq(ReadMember) /\ Len(read) = n
    BY <2>1, ListsAreSequences
  <2> QED BY <2>2 DEF n
<1> QED BY <1>1, <1>2, <1>3, <1>6

\* Who is what, and whom a convention costs how much, is read alike in all languages.
LEMMA ReadSame ==
    ASSUME NEW g \in Seq(GroupMember), NEW l \in Languages, NEW i, NEW c
    PROVE  /\ Followers(canonicalize(l, g)) = Followers(g)
           /\ Aborts(i, canonicalize(l, g)) <=> Aborts(i, g)
           /\ Tolerable(c, i, canonicalize(l, g)) <=> Tolerable(c, i, g)
<1> DEFINE read == canonicalize(l, g)
<1>1. /\ DOMAIN read = DOMAIN g /\ Len(read) = Len(g)
      /\ \A j \in DOMAIN g : read[j].class = g[j].class /\ read[j].actions = g[j].actions
  BY Reading
<1> HIDE DEF read
<1>2. Followers(read) = Followers(g)
  BY <1>1 DEF Followers
<1>3. NA(i, read) = NA(i, g) /\ NO(i, read) = NO(i, g) /\ NO(i, g) \subseteq DOMAIN g
  BY <1>1 DEF NA, NO, Peers
<1>4. Aborts(i, read) <=> Aborts(i, g)
  BY <1>1, <1>3 DEF Aborts
<1>5. Tolerable(c, i, read) <=> Tolerable(c, i, g)
  BY <1>1, <1>3 DEF Tolerable
<1> QED BY <1>2, <1>4, <1>5 DEF read

\* The first of the common conventions, in the order of a language.
LEMMA FirstIs ==
    ASSUME NEW g \in Seq(GroupMember), NEW l \in Languages, NEW c, IsFirst(c, l, g)
    PROVE  /\ Common(canonicalize(l, g)) # {}
           /\ Min(Common(canonicalize(l, g))) = Form[l][c]
           /\ Form[l][c] \in Forms /\ Form[l][c] # null
           /\ Followers(g) # {}
<1> DEFINE read == canonicalize(l, g)
<1>1. /\ Followers(read) = Followers(g) /\ Followers(g) \subseteq DOMAIN g
      /\ \A j \in Followers(g) : Space(j, read) = {Form[l][d] : d \in Space(j, g)}
  BY Reading, ReadSame DEF Followers
<1>2. \A j \in Followers(g) : Space(j, g) \subseteq Conventions
  <2> TAKE j \in Followers(g)
  <2>1. g[j] \in GroupMember
    BY <1>1
  <2>2. g[j].space \in Seq(Conventions)
    BY <2>1 DEF GroupMember
  <2> QED BY <2>2 DEF Space, ToSet
<1> HIDE DEF read
<1>3. Common(read) \subseteq Forms
  BY DEF Common, intersectConventionSpaces
<1>4. /\ c \in Published(g) /\ IsCommon(c, l, g)
      /\ \A d \in Published(g) : IsCommon(d, l, g) => Form[l][c] =< Form[l][d]
  BY DEF IsFirst
<1>5. Form[l][c] \in Forms /\ Form[l][c] \in Nat /\ Followers(g) # {}
  <2>1. c \in Conventions /\ Followers(g) # {}
    BY <1>2, <1>4 DEF Published
  <2> QED BY <2>1, FormsNat DEF Forms
<1>6. Form[l][c] \in Common(read)
  BY <1>1, <1>4, <1>5 DEF IsCommon, Common, intersectConventionSpaces
<1>7. ASSUME NEW f \in Common(read) PROVE Form[l][c] =< f
  <2>1. \A j \in Followers(g) : \E d \in Space(j, g) : Form[l][d] = f
    BY <1>1, <1>7 DEF Common, intersectConventionSpaces
  <2>2. PICK j \in Followers(g) : TRUE
    BY <1>5
  <2>3. PICK d \in Space(j, g) : Form[l][d] = f
    BY <2>1
  <2>4. d \in Published(g) /\ IsCommon(d, l, g)
    BY <2>1, <2>3 DEF Published, IsCommon
  <2> QED BY <1>4, <2>3, <2>4
<1>8. Min(Common(read)) \in Common(read) /\ Min(Common(read)) =< Form[l][c]
  BY <1>3, <1>6, MinOfForms
<1>9. Min(Common(read)) = Form[l][c]
  <2> DEFINE n == Min(Common(read))
  <2>1. n \in Nat /\ Form[l][c] =< n /\ n =< Form[l][c]
    BY <1>3, <1>7, <1>8, FormsNat
  <2> HIDE DEF n
  <2>2. n = Form[l][c]
    BY <1>5, <2>1
  <2> QED BY <2>2 DEF n
<1> QED BY <1>5, <1>6, <1>9, NoConventionAssumption DEF read

\* What is read alike has the same first.
LEMMA FirstAlike ==
    ASSUME NEW g \in Seq(GroupMember), NEW l \in Languages, NEW m \in Languages, NEW c,
           IsFirst(c, l, g), ReadAlike(g)
    PROVE  IsFirst(c, m, g)
<1>1. ASSUME NEW d \in Published(g)
      PROVE  d \in Conventions /\ Form[l][d] \in Nat /\ Form[m][d] \in Nat
  <2>1. PICK j \in Followers(g) : d \in Space(j, g)
    BY DEF Published
  <2>2. g[j] \in GroupMember
    BY DEF Followers
  <2>3. g[j].space \in Seq(Conventions)
    BY <2>2 DEF GroupMember
  <2>4. d \in Conventions
    BY <2>1, <2>3 DEF Space, ToSet
  <2> QED BY <2>4, FormsAssumption
<1>2. \A a, b \in Published(g) : Form[l][a] =< Form[l][b] <=> Form[m][a] =< Form[m][b]
  BY DEF ReadAlike, Languages
<1>3. \A a, b \in Published(g) : Form[l][a] = Form[l][b] <=> Form[m][a] = Form[m][b]
  <2> TAKE a, b \in Published(g)
  <2>1. /\ Form[l][a] = Form[l][b] <=> Form[l][a] =< Form[l][b] /\ Form[l][b] =< Form[l][a]
        /\ Form[m][a] = Form[m][b] <=> Form[m][a] =< Form[m][b] /\ Form[m][b] =< Form[m][a]
    BY <1>1
  <2> QED BY <1>2, <2>1
<1>4. \A i \in Followers(g) : Space(i, g) \subseteq Published(g)
  BY DEF Published
<1>5. \A d \in Published(g) : IsCommon(d, l, g) <=> IsCommon(d, m, g)
  BY <1>3, <1>4 DEF IsCommon
<1> QED BY <1>2, <1>5 DEF IsFirst

\* For a follower the provisional convention is the first that all followers publish.
LEMMA ProvisionalIsFirst ==
    ASSUME NEW g, NEW i \in Followers(g), Common(g) # {}
    PROVE  Provisional(i, g) = Min(Common(g))
<1>1. NP(i, g) = Followers(g)
  BY DEF NP, Peers, Followers
<1> QED BY <1>1 DEF Provisional, Reduced, Common

\* A follower that finds its provisional convention tolerable has no other choice.
LEMMA OnlyProvisional ==
    ASSUME NEW g, IsGroup(g), NEW i \in Followers(g), NEW p \in Forms, p # null,
           Provisional(i, g) = p, Tolerable(p, i, g), NEW l
    PROVE  Feasible(l, i, g) = <<p>> /\ Best(l, i, g) = {p} /\ Answer(p, i, g).convention = p
<1>1. i \in DOMAIN g
  BY DEF Followers
<1>2. Feasible(l, i, g) = <<p>>
  BY DEF Feasible
<1>3. WorstCase(p, i, g) \in Int
  <2>1. \A h \in Honest(i, g) : PeerRegret(p, h, g) \in Int
    BY UnitAssumption, Regrets DEF Honest, Peers
  <2> QED BY <1>1, <2>1, AdversariesDoNotCount
<1>4. Best(l, i, g) = {p}
  <2>1. ToSet(<<p>>) = {p}
    BY DEF ToSet
  <2> QED BY <1>2, <1>3, <2>1 DEF Best
<1> QED BY <1>2, <1>4 DEF Answer

\* If the followers of a group publish a common convention, and one of them finds the
\* first of these, in the order of its language, tolerable, it commits to that
\* (runHandshake and its ports).
THEOREM FollowersCommit ==
    ASSUME NEW g \in Seq(GroupMember), NEW i \in Followers(g), NEW l \in Languages, NEW c,
           IsFirst(c, l, g), ~Aborts(i, g), Tolerable(Form[l][c], i, g)
    PROVE  /\ l = "javascript" => /\ runHandshake(i, g).convention = Form[l][c]
                                  /\ runThreeTierHandshake(i, g).convention = Form[l][c]
           /\ l = "python" =>
                  Committed(run_three_tier_handshake(i, g)) = {Form[l][c]}
<1> DEFINE p    == Form[l][c]
           read == canonicalize(l, g)
<1>1. /\ read \in Seq(ReadMember) /\ IsGroup(read)
      /\ i \in Followers(read) /\ ~Aborts(i, read) /\ Tolerable(p, i, read)
  BY Reading, ReadSame, GroupsAreGroups
<1>2. p \in Forms /\ p # null /\ Common(read) # {} /\ Min(Common(read)) = p
  BY FirstIs
<1> HIDE DEF p, read
<1>3. Provisional(i, read) = p
  BY <1>1, <1>2, ProvisionalIsFirst
<1>4. Feasible(l, i, read) = <<p>> /\ Best(l, i, read) = {p} /\ Answer(p, i, read).convention = p
  BY <1>1, <1>2, <1>3, OnlyProvisional
<1>5. ASSUME l = "javascript" PROVE runHandshake(i, g).convention = p
  <2>1. First(i, read) = p
    BY <1>4, <1>5 DEF First
  <2> QED BY <1>1, <1>4, <1>5, <2>1 DEF runHandshake, read
<1>6. ASSUME l = "python" PROVE Committed(run_three_tier_handshake(i, g)) = {p}
  <2>1. run_three_tier_handshake(i, g) = {Answer(p, i, read)}
    <3>1. Feasible(l, i, read) # <<>>
      BY <1>4
    <3> QED BY <1>1, <1>4, <1>6, <3>1 DEF run_three_tier_handshake, read
  <2> QED BY <1>4, <2>1 DEF Committed
<1> QED BY <1>5, <1>6 DEF runThreeTierHandshake, p

\* The server proposes the first in the order of its own language.
LEMMA ProposesFirst ==
    ASSUME NEW g \in Seq(GroupMember), NEW c, IsFirst(c, "javascript", g)
    PROVE  propose(g) = Form["javascript"][c]
<1> DEFINE read == canonicalize("javascript", g)
<1>1. "javascript" \in Languages
  BY DEF Languages
<1>2. /\ Followers(read) # {} /\ Common(read) # {} /\ Min(Common(read)) = Form["javascript"][c]
  BY <1>1, FirstIs, ReadSame
<1>3. propose(g) = Reduced(Common(read))
  BY <1>2 DEF propose, Followers, Common
<1> QED BY <1>2, <1>3 DEF Reduced

-----------------------------------------------------------------------------
(* The specification *)

Decided ==
    [to |-> "handshake", by |-> Handshakes(request.group), proposed |-> propose(request.group)]

AgreementInv == request \in HandshakeRequests /\ answer \in {None, Decided}

LEMMA AgreementInvariant == AgreementSpec => []AgreementInv
<1>1. request \in HandshakeRequests /\ answer = None => AgreementInv
  BY DEF AgreementInv
<1>2. AgreementInv /\ [Agree]_vars => AgreementInv'
  <2> SUFFICES ASSUME AgreementInv, [Agree]_vars PROVE AgreementInv'
    OBVIOUS
  <2>1. CASE Agree
    BY <2>1 DEF Agree, AgreementInv, Decided
  <2>2. CASE UNCHANGED vars
    BY <2>2 DEF vars, AgreementInv, Decided
  <2> QED BY <2>1, <2>2
<1> QED BY <1>1, <1>2, PTL DEF AgreementSpec

\* Once answered, the answer is what the followers of a group come to.
LEMMA Deciding ==
    ASSUME AgreementInv, Answered("handshake")
    PROVE  /\ request.group \in Seq(GroupMember)
           /\ answer = Decided
           /\ \A i \in Followers(request.group) :
                  /\ answer.by[i].reference = runHandshake(i, request.group)
                  /\ answer.by[i].typescript = runHandshake(i, request.group)
                  /\ answer.by[i].python = run_three_tier_handshake(i, request.group)
                  /\ Outcomes(i, "javascript") = {runHandshake(i, request.group)}
                  /\ Outcomes(i, "python") = run_three_tier_handshake(i, request.group)
<1>1. answer = Decided
  BY DEF AgreementInv, Answered, None
<1>2. request.group \in Seq(GroupMember)
  BY GroupsAssumption DEF AgreementInv, HandshakeRequests
<1>3. answer.by = Handshakes(request.group)
  BY <1>1 DEF Decided
<1>5. \A i \in Followers(request.group) :
          answer.by[i] = [reference  |-> runHandshake(i, request.group),
                          typescript |-> runThreeTierHandshake(i, request.group),
                          python     |-> run_three_tier_handshake(i, request.group)]
  BY <1>3 DEF Handshakes
<1>6. \A i : runThreeTierHandshake(i, request.group) = runHandshake(i, request.group)
  BY DEF runThreeTierHandshake
<1>7. ASSUME NEW i \in Followers(request.group)
      PROVE  /\ answer.by[i].reference = runHandshake(i, request.group)
             /\ answer.by[i].typescript = runHandshake(i, request.group)
             /\ answer.by[i].python = run_three_tier_handshake(i, request.group)
  <2> DEFINE outcome == answer.by[i]
             g       == request.group
  <2>1. outcome = [reference  |-> runHandshake(i, g),
                   typescript |-> runThreeTierHandshake(i, g),
                   python     |-> run_three_tier_handshake(i, g)]
    BY <1>5
  <2> HIDE DEF outcome, g
  <2>2. /\ outcome.reference = runHandshake(i, g)
        /\ outcome.typescript = runThreeTierHandshake(i, g)
        /\ outcome.python = run_three_tier_handshake(i, g)
    BY <2>1
  <2> QED BY <1>6, <2>2 DEF outcome, g
<1>8. \A i \in Followers(request.group) :
          /\ Outcomes(i, "javascript") = {runHandshake(i, request.group)}
          /\ Outcomes(i, "python") = run_three_tier_handshake(i, request.group)
  BY <1>7 DEF Outcomes
<1> QED BY <1>1, <1>2, <1>7, <1>8

LEMMA AnswersAreNoAborts ==
    ASSUME NEW c, NEW i, NEW g
    PROVE  Answer(c, i, g) # Abort
<1>1. Answer(c, i, g).tier \in {"fallback-only", "tier2+3", "tier1", "tier1+3"}
  BY DEF Answer
<1>2. Abort.tier = "abort"
  BY DEF Abort
<1> QED BY <1>1, <1>2

\* To abort is one of a member's outcomes only if the adversaries are too many.
LEMMA AbortOnly ==
    ASSUME NEW g \in Seq(GroupMember), NEW i
    PROVE  /\ Aborts(i, g) => /\ runHandshake(i, g) = Abort
                              /\ run_three_tier_handshake(i, g) = {Abort}
           /\ ~Aborts(i, g) => /\ runHandshake(i, g) # Abort
                               /\ Abort \notin run_three_tier_handshake(i, g)
<1>1. \A l \in Languages : Aborts(i, canonicalize(l, g)) <=> Aborts(i, g)
  BY ReadSame
<1> QED BY <1>1, AnswersAreNoAborts DEF runHandshake, run_three_tier_handshake, Languages

\* The followers of a group of any size commit to the first common convention, if they
\* find it tolerable - to the same in all three ports, and the one that the server
\* proposes, if the languages tell apart and order what is published alike -, or all of
\* them abort.
THEOREM AgreementReached == AgreementSpec => []FollowersAgree
<1>1. AgreementInv => FollowersAgree
  <2> SUFFICES ASSUME AgreementInv, Answered("handshake") PROVE FollowersAgree
    BY DEF FollowersAgree
  <2> DEFINE g == request.group
  <2>1. g \in Seq(GroupMember) /\ answer.proposed = propose(g)
    BY Deciding DEF Decided
  <2>2. \A i \in Followers(g) : /\ Outcomes(i, "javascript") = {runHandshake(i, g)}
                                /\ Outcomes(i, "python") = run_three_tier_handshake(i, g)
    BY Deciding
  <2> HIDE DEF g
  <2>3. \A i \in Followers(g) : MayAbort(i) <=> Aborts(i, g)
    BY <2>1, <2>2, AbortOnly DEF MayAbort, Languages
  <2>4. ASSUME NEW i \in Followers(g), NEW j \in Followers(g), NEW l \in Languages, MayAbort(i)
        PROVE  Outcomes(j, l) = {Abort}
    <3>1. Aborts(j, g)
      BY <2>3, <2>4, AbortTogether
    <3> QED BY <2>1, <2>2, <3>1, AbortOnly DEF Languages
  <2>5. ASSUME NEW c \in Published(g), NEW l \in Languages, NEW m \in Languages,
               IsFirst(c, l, g), l = m \/ ReadAlike(g)
        PROVE  /\ m = "javascript" => answer.proposed = Form[m][c]
               /\ \A i \in Followers(g) :
                      ~MayAbort(i) /\ Tolerable(Form[m][c], i, g) =>
                          Committed(Outcomes(i, m)) = {Form[m][c]}
    <3>1. IsFirst(c, m, g)
      BY <2>1, <2>5, FirstAlike
    <3>2. m = "javascript" => answer.proposed = Form[m][c]
      BY <2>1, <3>1, ProposesFirst
    <3>3. ASSUME NEW i \in Followers(g), ~MayAbort(i), Tolerable(Form[m][c], i, g)
          PROVE  Committed(Outcomes(i, m)) = {Form[m][c]}
      <4>1. ~Aborts(i, g)
        BY <2>3, <3>3
      <4>2. CASE m = "javascript"
        <5>1. runHandshake(i, g).convention = Form[m][c]
          BY <2>1, <3>1, <3>3, <4>1, <4>2, FollowersCommit
        <5>2. Outcomes(i, m) = {runHandshake(i, g)}
          BY <2>2, <4>2
        <5> QED BY <5>1, <5>2 DEF Committed
      <4>3. CASE m = "python"
        <5>1. Committed(run_three_tier_handshake(i, g)) = {Form[m][c]}
          BY <2>1, <3>1, <3>3, <4>1, <4>3, FollowersCommit
        <5> QED BY <2>2, <4>3, <5>1
      <4> QED BY <4>2, <4>3 DEF Languages
    <3> QED BY <3>2, <3>3
  <2> QED BY <2>4, <2>5 DEF FollowersAgree, g
<1> QED BY <1>1, AgreementInvariant, PTL

-----------------------------------------------------------------------------
(* With and without the adversaries *)

FlattenUpTo(n, f, seqs) ==
    f = [i \in 1 .. n |-> IF i = 1 THEN seqs[i] ELSE f[i - 1] \o seqs[i]]

LEMMA SomeFlatten ==
    ASSUME NEW S, NEW seqs \in Seq(Seq(S)), NEW n \in 0 .. Len(seqs)
    PROVE  \E f \in [1 .. n -> Seq(S)] : FlattenUpTo(n, f, seqs)
<1> DEFINE Bad == {m \in 0 .. Len(seqs) : ~ \E f \in [1 .. m -> Seq(S)] : FlattenUpTo(m, f, seqs)}
<1> SUFFICES ASSUME Bad # {} PROVE FALSE
  OBVIOUS
<1>1. PICK m \in Bad : \A u \in Bad : m =< u
  <2>1. Bad \subseteq Nat
    OBVIOUS
  <2> HIDE DEF Bad
  <2> QED BY <2>1, LeastExists
<1>2. CASE m = 0
  <2> DEFINE f == [i \in 1 .. 0 |-> <<>>]
  <2>1. f \in [1 .. 0 -> Seq(S)]
    OBVIOUS
  <2>2. f = [i \in 1 .. 0 |-> IF i = 1 THEN seqs[i] ELSE f[i - 1] \o seqs[i]]
    OBVIOUS
  <2> QED BY <1>1, <1>2, <2>1, <2>2 DEF FlattenUpTo
<1>3. CASE m # 0
  <2>1. m - 1 \in 0 .. Len(seqs) /\ m - 1 \notin Bad /\ m \in 1 .. Len(seqs)
    <3>1. m \in 1 .. Len(seqs)
      BY <1>1, <1>3
    <3> HIDE DEF Bad
    <3> QED BY <1>1, <3>1
  <2>2. PICK h \in [1 .. m - 1 -> Seq(S)] : FlattenUpTo(m - 1, h, seqs)
    BY <2>1
  <2> DEFINE f == [i \in 1 .. m |-> IF i = 1 THEN seqs[i] ELSE h[i - 1] \o seqs[i]]
  <2>3. \A i \in 1 .. m - 1 : f[i] = h[i]
    <3> TAKE i \in 1 .. m - 1
    <3>1. f[i] = IF i = 1 THEN seqs[i] ELSE h[i - 1] \o seqs[i]
      BY <2>1
    <3>2. h[i] = IF i = 1 THEN seqs[i] ELSE h[i - 1] \o seqs[i]
      BY <2>2 DEF FlattenUpTo
    <3> QED BY <3>1, <3>2
  <2>4. \A i \in 1 .. m : i # 1 => i - 1 \in 1 .. m - 1
    BY <2>1
  <2>5. f \in [1 .. m -> Seq(S)]
    <3>1. ASSUME NEW i \in 1 .. m PROVE f[i] \in Seq(S)
      <4>1. seqs[i] \in Seq(S)
        BY <2>1
      <4>2. i # 1 => h[i - 1] \in Seq(S)
        BY <2>2, <2>4
      <4>3. i # 1 => h[i - 1] \o seqs[i] \in Seq(S)
        BY <4>1, <4>2
      <4> QED BY <4>1, <4>3
    <3> QED BY <3>1
  <2>6. f = [i \in 1 .. m |-> IF i = 1 THEN seqs[i] ELSE f[i - 1] \o seqs[i]]
    BY <2>3, <2>4
  <2> HIDE DEF f
  <2> QED BY <1>1, <2>5, <2>6 DEF FlattenUpTo
<1> QED BY <1>2, <1>3

LEMMA FlattenType ==
    ASSUME NEW S, NEW seqs \in Seq(Seq(S))
    PROVE  FlattenSeq(seqs) \in Seq(S)
<1> DEFINE n == Len(seqs)
           flatten == CHOOSE f : FlattenUpTo(n, f, seqs)
<1>1. CASE n = 0
  BY <1>1 DEF FlattenSeq
<1>2. CASE n # 0
  <2>1. FlattenSeq(seqs) = flatten[n]
    BY <1>2 DEF FlattenSeq, FlattenUpTo
  <2>2. n \in 0 .. n
    OBVIOUS
  <2>3. PICK f \in [1 .. n -> Seq(S)] : FlattenUpTo(n, f, seqs)
    BY <2>2, SomeFlatten
  <2>4. FlattenUpTo(n, flatten, seqs)
    BY <2>3
  <2>5. \A i \in 1 .. n : flatten[i] = f[i]
    <3> DEFINE Bad == {i \in 1 .. n : flatten[i] # f[i]}
    <3> HIDE DEF flatten
    <3> SUFFICES ASSUME Bad # {} PROVE FALSE
      OBVIOUS
    <3>1. PICK j \in Bad : \A u \in Bad : j =< u
      <4>1. Bad \subseteq Nat
        OBVIOUS
      <4> HIDE DEF Bad
      <4> QED BY <4>1, LeastExists
    <3>2. /\ flatten[j] = IF j = 1 THEN seqs[j] ELSE flatten[j - 1] \o seqs[j]
          /\ f[j] = IF j = 1 THEN seqs[j] ELSE f[j - 1] \o seqs[j]
      BY <2>3, <2>4 DEF FlattenUpTo
    <3>3. j # 1 => j - 1 \in 1 .. n /\ j - 1 \notin Bad
      BY <3>1
    <3> QED BY <3>2, <3>3
  <2>6. n \in 1 .. n /\ f[n] \in Seq(S)
    BY <1>2, <2>3
  <2> HIDE DEF flatten
  <2> QED BY <2>1, <2>5, <2>6
<1> QED BY <1>1, <1>2

LEMMA FeasibleForms ==
    ASSUME NEW g \in Seq(ReadMember), NEW i \in DOMAIN g, NEW l \in Languages
    PROVE  Feasible(l, i, g) \in Seq(Forms)
<1> DEFINE spaces   == [k \in DOMAIN TypeSpace |-> canonicalForms(l, SpaceForType[TypeSpace[k]])]
           inferred == IF NO(i, g) = {} THEN <<>> ELSE Inferred(l)
           p        == Provisional(i, g)
<1>1. spaces \in Seq(Seq(Forms))
  <2>1. TypeSpace \in Seq(DOMAIN SpaceForType)
    BY TypesAssumption
  <2>2. ASSUME NEW k \in 1 .. Len(TypeSpace)
        PROVE  canonicalForms(l, SpaceForType[TypeSpace[k]]) \in Seq(Forms)
    <3> DEFINE space == SpaceForType[TypeSpace[k]]
    <3>1. space \in Seq(Conventions)
      BY TypesAssumption, <2>1
    <3> HIDE DEF space
    <3>2. DOMAIN space = 1 .. Len(space) /\ Len(space) \in Nat
      BY <3>1
    <3>3. \A a \in 1 .. Len(space) : Form[l][space[a]] \in Forms
      BY <3>1 DEF Forms
    <3>4. canonicalForms(l, space) \in Seq(Forms)
      BY <3>2, <3>3 DEF canonicalForms
    <3> QED BY <3>4 DEF space
  <2>3. DOMAIN TypeSpace = 1 .. Len(TypeSpace) /\ Len(TypeSpace) \in Nat
    BY <2>1
  <2> QED BY <2>2, <2>3
<1>2. inferred \in Seq(Forms)
  <2>1. FlattenSeq(spaces) \in Seq(Forms)
    <3> HIDE DEF spaces
    <3> QED BY <1>1, FlattenType
  <2> QED BY <2>1 DEF Inferred
<1>3. g[i].space \in Seq(Forms)
  <2>1. g[i] \in ReadMember
    OBVIOUS
  <2> QED BY <2>1 DEF ReadMember
<1>4. p # null => p \in Forms
  <2> DEFINE C == intersectConventionSpaces(NP(i, g), g)
  <2>1. C \subseteq Forms
    BY DEF intersectConventionSpaces
  <2>2. p = IF C = {} THEN null ELSE Min(C)
    BY DEF Provisional, Reduced
  <2> HIDE DEF C
  <2> QED BY <2>1, <2>2, MinOfForms
<1>5. Feasible(l, i, g) = IF p # null /\ Tolerable(p, i, g) THEN <<p>> ELSE inferred \o g[i].space
  BY DEF Feasible
<1>6. inferred \o g[i].space \in Seq(Forms)
  <2> HIDE DEF inferred
  <2> QED BY <1>2, <1>3
<1>7. p # null => <<p>> \in Seq(Forms)
  <2> HIDE DEF p
  <2> QED BY <1>4
<1> HIDE DEF p, inferred
<1> QED BY <1>5, <1>6, <1>7

\* SetToSeq lists each member of a finite set once.
LEMMA SetToSeqLists ==
    ASSUME NEW S, IsFiniteSet(S)
    PROVE  /\ SetToSeq(S) \in [1 .. Cardinality(S) -> S]
           /\ \A a, b \in 1 .. Cardinality(S) : SetToSeq(S)[a] = SetToSeq(S)[b] => a = b
           /\ \A x \in S : \E a \in 1 .. Cardinality(S) : SetToSeq(S)[a] = x
<1> DEFINE n == Cardinality(S)
           f == SetToSeq(S)
<1>1. n \in Nat /\ ExistsBijection(1 .. n, S)
  BY FS_CardinalityType
<1>2. \E h \in [1 .. n -> S] : IsInjective(h)
  BY <1>1 DEF ExistsBijection, Bijection, Injection
<1>3. f \in [1 .. n -> S] /\ IsInjective(f)
  BY <1>2 DEF SetToSeq
<1> HIDE DEF f
<1>4. f \in Injection(1 .. n, S)
  BY <1>3 DEF Injection
<1>5. Cardinality(1 .. n) = n
  BY <1>1, FS_Interval
<1>6. f \in Surjection(1 .. n, S)
  BY <1>4, <1>5, FS_Injection
<1> QED BY <1>3, <1>6 DEF IsInjective, Surjection, f

\* Group o has the honest members of g, each of them at the place from which h leads to
\* its place in g.
Mirrors(o, g, h) ==
    /\ DOMAIN h = DOMAIN o
    /\ \A k \in DOMAIN o : h[k] \in DOMAIN g /\ g[h[k]].class # "A" /\ o[k] = g[h[k]]
    /\ \A a, b \in DOMAIN o : h[a] = h[b] => a = b
    /\ \A x \in DOMAIN g : g[x].class # "A" => \E a \in DOMAIN o : h[a] = x

LEMMA SamePeers ==
    ASSUME NEW g, NEW o, NEW h, Mirrors(o, g, h), NEW k \in DOMAIN o
    PROVE  /\ \A j \in NP(k, o) : j \in DOMAIN o /\ h[j] \in NP(h[k], g)
           /\ \A x \in NP(h[k], g) : \E j \in NP(k, o) : h[j] = x
           /\ \A j \in NO(k, o) : j \in DOMAIN o /\ h[j] \in NO(h[k], g)
           /\ \A x \in NO(h[k], g) : \E j \in NO(k, o) : h[j] = x
           /\ NA(k, o) = {}
<1>1. \A j \in DOMAIN o : /\ h[j] \in DOMAIN g /\ o[j] = g[h[j]] /\ o[j].class # "A"
                          /\ j # k => h[j] # h[k]
  BY DEF Mirrors
<1>2. \A x \in DOMAIN g : g[x].class # "A" => \E j \in DOMAIN o : h[j] = x
  BY DEF Mirrors
<1>3. \A j \in NP(k, o) : j \in DOMAIN o /\ h[j] \in NP(h[k], g)
  BY <1>1 DEF NP, Peers
<1>4. \A x \in NP(h[k], g) : \E j \in NP(k, o) : h[j] = x
  <2> TAKE x \in NP(h[k], g)
  <2>1. CASE x = h[k]
    BY <2>1 DEF NP
  <2>2. CASE x # h[k]
    <3>1. x \in DOMAIN g /\ g[x].class = "P"
      BY <2>2 DEF NP, Peers
    <3>2. PICK j \in DOMAIN o : h[j] = x
      BY <1>2, <3>1
    <3>3. j \in NP(k, o)
      BY <1>1, <2>2, <3>1, <3>2 DEF NP, Peers
    <3> QED BY <3>2, <3>3
  <2> QED BY <2>1, <2>2
<1>5. \A j \in NO(k, o) : j \in DOMAIN o /\ h[j] \in NO(h[k], g)
  BY <1>1 DEF NO, Peers
<1>6. \A x \in NO(h[k], g) : \E j \in NO(k, o) : h[j] = x
  <2> TAKE x \in NO(h[k], g)
  <2>1. x \in DOMAIN g /\ x # h[k] /\ g[x].class = "O"
    BY DEF NO, Peers
  <2>2. PICK j \in DOMAIN o : h[j] = x
    BY <1>2, <2>1
  <2>3. j \in NO(k, o)
    BY <1>1, <2>1, <2>2 DEF NO, Peers
  <2> QED BY <2>2, <2>3
<1>7. NA(k, o) = {}
  BY <1>1 DEF NA, Peers
<1> QED BY <1>3, <1>4, <1>5, <1>6, <1>7

LEMMA SameFeasible ==
    ASSUME NEW g, NEW o, NEW h, Mirrors(o, g, h), NEW k \in DOMAIN o, NEW l
    PROVE  Feasible(l, k, o) = Feasible(l, h[k], g)
<1>1. \A j \in DOMAIN o : o[j] = g[h[j]]
  BY DEF Mirrors
<1>2. Provisional(k, o) = Provisional(h[k], g)
  <2>1. \A j \in DOMAIN o : Space(j, o) = Space(h[j], g)
    BY <1>1 DEF Space
  <2>2. ASSUME NEW c \in Forms
        PROVE  (\A j \in NP(k, o) : c \in Space(j, o)) <=> (\A x \in NP(h[k], g) : c \in Space(x, g))
    BY <2>1, SamePeers
  <2>3. intersectConventionSpaces(NP(k, o), o) = intersectConventionSpaces(NP(h[k], g), g)
    BY <2>2 DEF intersectConventionSpaces
  <2> QED BY <2>3 DEF Provisional
<1>3. NO(k, o) = {} <=> NO(h[k], g) = {}
  BY SamePeers
<1>4. ASSUME NEW c PROVE Tolerable(c, k, o) <=> Tolerable(c, h[k], g)
  <2>1. \A j \in DOMAIN o : o[j].actions = g[h[j]].actions
    BY <1>1
  <2> QED BY <2>1, SamePeers DEF Tolerable
<1> DEFINE provisional == Provisional(k, o)
<1>5. Tolerable(provisional, k, o) <=> Tolerable(provisional, h[k], g)
  BY <1>4
<1>6. o[k].space = g[h[k]].space
  BY <1>1
<1> QED BY <1>2, <1>3, <1>5, <1>6 DEF Feasible

LEMMA SameWorstCase ==
    ASSUME NEW g, IsGroup(g), NEW o, IsGroup(o), NEW h, Mirrors(o, g, h), NEW k \in DOMAIN o,
           NEW c \in Forms
    PROVE  WorstCase(c, k, o) = WorstCase(c, h[k], g)
<1> DEFINE i == h[k]
<1>1. i \in DOMAIN g
  BY DEF Mirrors
<1>2. \A j \in Honest(k, o) : /\ h[j] \in Honest(i, g)
                              /\ PeerRegret(c, j, o) = PeerRegret(c, h[j], g)
  BY DEF Mirrors, Honest, Peers, NA, PeerRegret, Space
<1>3. ASSUME NEW x \in Honest(i, g) PROVE \E j \in Honest(k, o) : h[j] = x
  <2>1. x \in DOMAIN g /\ x # i /\ g[x].class # "A"
    BY DEF Honest, Peers, NA
  <2>2. PICK j \in DOMAIN o : h[j] = x
    BY <2>1 DEF Mirrors
  <2>3. j \in Honest(k, o)
    BY <2>1, <2>2, SamePeers DEF Honest, Peers
  <2> QED BY <2>2, <2>3
<1>4. /\ Honest(k, o) = {} => WorstCase(c, k, o) = 0
      /\ Honest(k, o) # {} =>
             /\ \E j \in Honest(k, o) : WorstCase(c, k, o) = PeerRegret(c, j, o)
             /\ \A j \in Honest(k, o) : PeerRegret(c, j, o) =< WorstCase(c, k, o)
  BY AdversariesDoNotCount
<1>5. /\ Honest(i, g) = {} => WorstCase(c, i, g) = 0
      /\ Honest(i, g) # {} =>
             /\ \E x \in Honest(i, g) : WorstCase(c, i, g) = PeerRegret(c, x, g)
             /\ \A x \in Honest(i, g) : PeerRegret(c, x, g) =< WorstCase(c, i, g)
  BY <1>1, AdversariesDoNotCount
<1>6. \A x \in Honest(i, g) : PeerRegret(c, x, g) \in Int
  BY UnitAssumption, Regrets DEF Honest, Peers
<1> HIDE DEF i
<1> QED
  <2>1. CASE Honest(k, o) = {}
    BY <1>3, <1>4, <1>5, <2>1 DEF i
  <2>2. CASE Honest(k, o) # {}
    <3>1. PICK j \in Honest(k, o) : WorstCase(c, k, o) = PeerRegret(c, j, o)
      BY <1>4, <2>2
    <3>2. Honest(i, g) # {}
      BY <1>2, <3>1
    <3>3. PICK x \in Honest(i, g) : WorstCase(c, i, g) = PeerRegret(c, x, g)
      BY <1>5, <3>2
    <3>4. PICK l \in Honest(k, o) : h[l] = x
      BY <1>3
    <3>5. WorstCase(c, k, o) =< WorstCase(c, i, g)
      BY <1>2, <1>5, <3>1, <3>2
    <3>6. WorstCase(c, i, g) =< WorstCase(c, k, o)
      BY <1>2, <1>4, <2>2, <3>3, <3>4
    <3>7. WorstCase(c, k, o) \in Int /\ WorstCase(c, i, g) \in Int
      BY <1>2, <1>6, <3>1, <3>3
    <3> QED BY <3>5, <3>6, <3>7 DEF i
  <2> QED BY <2>1, <2>2

\* The first member of f that is among the best.
FirstOf(f, best) ==
    LET k == CHOOSE k \in DOMAIN f :
                 f[k] \in best /\ \A l \in 1 .. k - 1 : f[l] \notin best
    IN  IF f = <<>> THEN null ELSE f[k]

LEMMA SameChoice ==
    ASSUME NEW g, g \in Seq(ReadMember), NEW o, o \in Seq(ReadMember), NEW h, Mirrors(o, g, h),
           NEW k \in DOMAIN o
    PROVE  /\ \A l \in Languages : Best(l, k, o) = Best(l, h[k], g)
           /\ First(k, o) = First(h[k], g)
<1> DEFINE i == h[k]
<1>1. ASSUME NEW l \in Languages PROVE Best(l, k, o) = Best(l, i, g)
  <2> DEFINE F == Feasible(l, i, g)
  <2>1. Feasible(l, k, o) = F
    BY SameFeasible
  <2>2. F \in Seq(Forms)
    <3>1. i \in DOMAIN g
      BY DEF Mirrors
    <3> HIDE DEF i
    <3> QED BY <3>1, FeasibleForms
  <2>3. \A c \in ToSet(F) : WorstCase(c, k, o) = WorstCase(c, i, g)
    <3>1. ToSet(F) \subseteq Forms
      <4> HIDE DEF F
      <4> QED BY <2>2 DEF ToSet
    <3>2. IsGroup(g) /\ IsGroup(o)
      BY GroupsAreGroups
    <3> HIDE DEF F
    <3> QED BY <3>1, <3>2, SameWorstCase
  <2>4. [c \in ToSet(F) |-> WorstCase(c, k, o)] = [c \in ToSet(F) |-> WorstCase(c, i, g)]
    <3> HIDE DEF F, i
    <3> QED BY <2>3
  <2> QED BY <2>1, <2>4 DEF Best
<1>2. First(k, o) = First(i, g)
  <2>1. "javascript" \in Languages
    BY DEF Languages
  <2>2. /\ Feasible("javascript", k, o) = Feasible("javascript", i, g)
        /\ Best("javascript", k, o) = Best("javascript", i, g)
    BY <1>1, <2>1, SameFeasible
  <2>3. \A a, r : First(a, r) = FirstOf(Feasible("javascript", a, r), Best("javascript", a, r))
    BY DEF First, FirstOf
  <2> QED BY <2>2, <2>3
<1> QED BY <1>1, <1>2

\* A member of a group of its own kind never aborts.
LEMMA NeverAborts ==
    ASSUME NEW S, NEW o, o \in Seq(S), NEW k \in DOMAIN o, NA(k, o) = {}
    PROVE  ~Aborts(k, o)
<1>1. Len(o) \in Nat /\ Len(o) >= 1
  OBVIOUS
<1>2. Cardinality(NA(k, o)) = 0
  BY FS_EmptySet
<1> QED BY <1>1, <1>2 DEF Aborts

LEMMA ConventionsOf ==
    ASSUME NEW i, NEW g,
           \A l \in Languages : ~Aborts(i, canonicalize(l, g))
    PROVE  /\ runHandshake(i, g).convention = First(i, canonicalize("javascript", g))
           /\ Committed(run_three_tier_handshake(i, g)) =
                  IF Feasible("python", i, canonicalize("python", g)) = <<>> THEN {null}
                  ELSE Best("python", i, canonicalize("python", g))
<1> DEFINE read == canonicalize("javascript", g)
           py   == canonicalize("python", g)
<1>1. \A c, r : Answer(c, i, r).convention = c
  BY DEF Answer
<1>2. runHandshake(i, g) = Answer(First(i, read), i, read)
  BY DEF runHandshake, Languages
<1>3. run_three_tier_handshake(i, g) =
          IF Feasible("python", i, py) = <<>> THEN {Answer(null, i, py)}
          ELSE {Answer(c, i, py) : c \in Best("python", i, py)}
  BY DEF run_three_tier_handshake, Languages
<1> HIDE DEF read, py
<1>4. {a.convention : a \in {Answer(c, i, py) : c \in Best("python", i, py)}} = Best("python", i, py)
  BY <1>1
<1>5. {a.convention : a \in {Answer(null, i, py)}} = {null}
  BY <1>1
<1>6. runHandshake(i, g).convention = First(i, read)
  BY <1>1, <1>2
<1>7. Committed(run_three_tier_handshake(i, g)) =
          IF Feasible("python", i, py) = <<>> THEN {null} ELSE Best("python", i, py)
  BY <1>3, <1>4, <1>5 DEF Committed
<1> QED BY <1>6, <1>7 DEF read, py

\* What mirrors a group mirrors it in canonical form, too.
LEMMA MirrorsRead ==
    ASSUME NEW g \in Seq(GroupMember), NEW o \in Seq(GroupMember), NEW h, Mirrors(o, g, h),
           NEW l \in Languages
    PROVE  Mirrors(canonicalize(l, o), canonicalize(l, g), h)
<1>1. /\ DOMAIN canonicalize(l, g) = DOMAIN g /\ DOMAIN canonicalize(l, o) = DOMAIN o
      /\ \A x \in DOMAIN g : canonicalize(l, g)[x].class = g[x].class
  BY Reading
<1>2. \A k \in DOMAIN o : h[k] \in DOMAIN g /\ canonicalize(l, o)[k] = canonicalize(l, g)[h[k]]
  BY DEF Mirrors, canonicalize
<1> QED BY <1>1, <1>2 DEF Mirrors

\* Whatever the group, as long as a follower does not abort, it commits to what it would
\* have committed to had there been no adversaries.
THEOREM AdversariesDoNotSway == AgreementSpec => []AdversariesPowerless
<1>1. AgreementInv => AdversariesPowerless
  <2> SUFFICES ASSUME AgreementInv, Answered("handshake") PROVE AdversariesPowerless
    BY DEF AdversariesPowerless
  <2> DEFINE g      == request.group
             H      == {k \in DOMAIN g : g[k].class # "A"}
             honest == SetToSeq(H)
             alone  == [k \in DOMAIN honest |-> g[honest[k]]]
  <2>1. g \in Seq(GroupMember)
    BY GroupsAssumption DEF AgreementInv, HandshakeRequests
  <2>2. \A i \in Followers(g) :
            /\ answer.by[i].reference = runHandshake(i, g)
            /\ answer.by[i].python = run_three_tier_handshake(i, g)
            /\ Outcomes(i, "javascript") = {runHandshake(i, g)}
    BY Deciding
  <2> HIDE DEF g
  <2>3. IsFiniteSet(H) /\ H \subseteq DOMAIN g
    <3>1. IsFiniteSet(DOMAIN g)
      <4>1. DOMAIN g = 1 .. Len(g) /\ Len(g) \in Nat
        BY <2>1
      <4> QED BY <4>1, FS_Interval
    <3> QED BY <3>1, FS_Subset
  <2> DEFINE n == Cardinality(H)
  <2>4. /\ honest \in [1 .. n -> H] /\ n \in Nat
        /\ \A a, b \in 1 .. n : honest[a] = honest[b] => a = b
        /\ \A x \in H : \E a \in 1 .. n : honest[a] = x
    BY <2>3, SetToSeqLists, FS_CardinalityType
  <2>5. \A j \in DOMAIN g : g[j] \in GroupMember
    BY <2>1
  <2> HIDE DEF honest, n
  <2>6. alone \in Seq(GroupMember)
    BY <2>3, <2>4, <2>5
  <2>7. Mirrors(alone, g, honest)
    BY <2>4 DEF Mirrors
  <2> HIDE DEF alone
  <2>8. ASSUME NEW k \in DOMAIN honest, honest[k] \in Followers(g), ~MayAbort(honest[k])
        PROVE  /\ answer.by[honest[k]].reference.convention = runHandshake(k, alone).convention
               /\ Committed(answer.by[honest[k]].python)
                      = Committed(run_three_tier_handshake(k, alone))
    <3> DEFINE i == honest[k]
    <3>1. k \in DOMAIN alone
      BY DEF alone
    <3>2. ~Aborts(i, g)
      BY <2>1, <2>2, <2>8, AbortOnly DEF MayAbort, Languages
    <3>3. ~Aborts(k, alone)
      BY <2>6, <2>7, <3>1, SamePeers, NeverAborts
    <3>4. ASSUME NEW l \in Languages
          PROVE  /\ Best(l, k, canonicalize(l, alone)) = Best(l, i, canonicalize(l, g))
                 /\ First(k, canonicalize(l, alone)) = First(i, canonicalize(l, g))
                 /\ Feasible(l, k, canonicalize(l, alone)) = Feasible(l, i, canonicalize(l, g))
                 /\ ~Aborts(i, canonicalize(l, g)) /\ ~Aborts(k, canonicalize(l, alone))
      <4> DEFINE a == canonicalize(l, alone)
                 b == canonicalize(l, g)
      <4>1. Mirrors(a, b, honest)
        BY <2>1, <2>6, <2>7, MirrorsRead
      <4>2. a \in Seq(ReadMember) /\ b \in Seq(ReadMember) /\ k \in DOMAIN a
        BY <2>1, <2>6, <3>1, Reading
      <4>3. ~Aborts(i, b) /\ ~Aborts(k, a)
        BY <2>1, <2>6, <3>2, <3>3, ReadSame
      <4> HIDE DEF a, b
      <4>4. /\ Best(l, k, a) = Best(l, honest[k], b) /\ First(k, a) = First(honest[k], b)
            /\ Feasible(l, k, a) = Feasible(l, honest[k], b)
        BY <4>1, <4>2, SameChoice, SameFeasible
      <4> QED BY <4>3, <4>4 DEF a, b
    <3>5. answer.by[i].reference = runHandshake(i, g)
          /\ answer.by[i].python = run_three_tier_handshake(i, g)
      BY <2>2, <2>8
    <3> HIDE DEF i
    <3>6. /\ runHandshake(i, g).convention = runHandshake(k, alone).convention
          /\ Committed(run_three_tier_handshake(i, g))
                 = Committed(run_three_tier_handshake(k, alone))
      <4>1. "javascript" \in Languages /\ "python" \in Languages
        BY DEF Languages
      <4> QED BY <3>4, <4>1, ConventionsOf
    <3> QED BY <3>5, <3>6 DEF i
  <2> QED BY <2>8 DEF AdversariesPowerless, alone, honest, g
<1> QED BY <1>1, AgreementInvariant, PTL

-----------------------------------------------------------------------------
(* The graph of a report *)

IsReport(report) == report \in Seq(Edge)

\* A finite set of numbers that is not empty has a greatest element.
LEMMA GreatestOfFinite ==
    ASSUME NEW T, T \subseteq Nat, IsFiniteSet(T), T # {}
    PROVE  \E t \in T : \A u \in T : t >= u
<1> DEFINE above(t) == {u \in T : u > t}
           Sizes    == {Cardinality(above(t)) : t \in T}
<1>1. \A t \in T : IsFiniteSet(above(t)) /\ Cardinality(above(t)) \in Nat
  <2> TAKE t \in T
  <2>1. above(t) \in SUBSET T
    OBVIOUS
  <2> HIDE DEF above
  <2> QED BY <2>1, FS_Subset, FS_CardinalityType
<1>2. Sizes \subseteq Nat /\ Sizes # {}
  <2> HIDE DEF above
  <2> QED BY <1>1
<1>3. PICK n \in Sizes : \A m \in Sizes : n =< m
  <2> HIDE DEF Sizes
  <2> QED BY <1>2, LeastExists
<1>4. PICK t \in T : n = Cardinality(above(t))
  BY <1>3
<1>5. ASSUME NEW u \in T, u > t PROVE FALSE
  <2>1. above(u) \in SUBSET above(t) /\ u \in above(t) /\ u \notin above(u)
    <3>1. u \in Nat /\ t \in Nat /\ \A v \in T : v \in Nat
      OBVIOUS
    <3>2. \A v \in above(u) : v \in above(t)
      BY <1>5, <3>1
    <3>3. u \in above(t) /\ u \notin above(u)
      BY <1>5, <3>1
    <3> QED BY <3>2, <3>3
  <2>2. Cardinality(above(u)) \in Sizes
    OBVIOUS
  <2>3. n =< Cardinality(above(u))
    <3> HIDE DEF Sizes, above
    <3> QED BY <1>3, <2>2
  <2> HIDE DEF above
  <2>4. Cardinality(above(u)) =< Cardinality(above(t))
        /\ (Cardinality(above(t)) = Cardinality(above(u)) => above(t) = above(u))
    BY <1>1, <2>1, FS_Subset
  <2> QED BY <1>1, <1>4, <2>1, <2>3, <2>4
<1> QED BY <1>5

LEMMA ReportIs ==
    ASSUME NEW report, IsReport(report)
    PROVE  /\ Len(report) \in Nat /\ DOMAIN report = 1 .. Len(report)
           /\ \A k \in 1 .. Len(report) : report[k] \in Edge /\ report[k].avg_score \in Nat
           /\ ToSet(report) = {report[k] : k \in 1 .. Len(report)}
           /\ IsFiniteSet(ToSet(report))
<1>1. /\ Len(report) \in Nat /\ DOMAIN report = 1 .. Len(report)
      /\ \A k \in 1 .. Len(report) : report[k] \in Edge
  BY DEF IsReport
<1>2. \A e \in Edge : e.avg_score \in Nat
  BY DEF Edge
<1>3. ToSet(report) = {report[k] : k \in 1 .. Len(report)}
  BY <1>1 DEF ToSet
<1>4. IsFiniteSet(ToSet(report))
  <2> DEFINE K == 1 .. Len(report)
             f == [k \in K |-> report[k]]
  <2>1. f \in Surjection(K, ToSet(report))
    BY <1>3 DEF Surjection
  <2>2. IsFiniteSet(K)
    BY <1>1, FS_Interval
  <2> HIDE DEF K, f
  <2> QED BY <2>1, <2>2, FS_Surjection
<1> QED BY <1>1, <1>2, <1>3, <1>4

\* The greatest of a pair's scores is one of them.
LEMMA PairScoreIs ==
    ASSUME NEW report, IsReport(report), NEW p \in Pairs(report)
    PROVE  /\ PairScore(report, p) \in Nat
           /\ \E e \in ToSet(report) : <<e.issuer, e.subject>> = p /\ PairScore(report, p) = e.avg_score
           /\ \A e \in ToSet(report) : <<e.issuer, e.subject>> = p => e.avg_score =< PairScore(report, p)
<1> DEFINE of     == {e \in ToSet(report) : <<e.issuer, e.subject>> = p}
           scores == {e.avg_score : e \in of}
<1>1. IsFiniteSet(of)
  <2>1. of \in SUBSET ToSet(report)
    OBVIOUS
  <2> HIDE DEF of
  <2> QED BY <2>1, ReportIs, FS_Subset
<1>2. IsFiniteSet(scores)
  <2> DEFINE f == [e \in of |-> e.avg_score]
  <2>1. f \in Surjection(of, scores)
    BY DEF Surjection
  <2> HIDE DEF f, of, scores
  <2> QED BY <1>1, <2>1, FS_Surjection
<1>3. scores \subseteq Nat /\ scores # {}
  <2>1. \A e \in ToSet(report) : e.avg_score \in Nat
    BY ReportIs
  <2>2. \E e \in ToSet(report) : p = <<e.issuer, e.subject>>
    BY DEF Pairs
  <2> QED BY <2>1, <2>2
<1>4. PairScore(report, p) = Max(scores)
  BY DEF PairScore
<1>5. Max(scores) \in scores /\ \A n \in scores : Max(scores) >= n
  <2> HIDE DEF scores
  <2> QED BY <1>2, <1>3, GreatestOfFinite DEF Max
<1>6. Max(scores) \in Nat
  <2> HIDE DEF scores
  <2> QED BY <1>3, <1>5
<1>7. PICK e \in of : Max(scores) = e.avg_score
  <2> HIDE DEF of
  <2> QED BY <1>5
<1>8. \A d \in of : d.avg_score \in scores
  OBVIOUS
<1>9. \A d \in of : d.avg_score \in Nat /\ Max(scores) >= d.avg_score
  <2> HIDE DEF scores, of
  <2> QED BY <1>3, <1>5, <1>8
<1>10. \A d \in of : d.avg_score =< Max(scores)
  <2> HIDE DEF scores, of
  <2> QED BY <1>6, <1>9
<1> QED BY <1>4, <1>6, <1>7, <1>10

LEMMA MutualIs ==
    ASSUME NEW report, IsReport(report)
    PROVE  \A v, w : <<v, w>> \in Mutual(report) =>
               /\ <<w, v>> \in Mutual(report)
               /\ v \in Participants(report) /\ w \in Participants(report)
<1> SUFFICES ASSUME NEW v, NEW w, <<v, w>> \in Mutual(report)
             PROVE  /\ <<w, v>> \in Mutual(report)
                    /\ v \in Participants(report) /\ w \in Participants(report)
  OBVIOUS
<1>1. /\ <<v, w>> \in Pairs(report) /\ <<w, v>> \in Pairs(report)
      /\ PairScore(report, <<v, w>>) + PairScore(report, <<w, v>>)
             >= 2 * quantile([k \in DOMAIN report |-> report[k].avg_score], ScoreQuantile)
  BY DEF Mutual
<1>2. PairScore(report, <<v, w>>) + PairScore(report, <<w, v>>)
          = PairScore(report, <<w, v>>) + PairScore(report, <<v, w>>)
  <2>1. PairScore(report, <<v, w>>) \in Nat /\ PairScore(report, <<w, v>>) \in Nat
    BY <1>1, PairScoreIs
  <2> QED BY <2>1
<1>3. <<w, v>> \in Mutual(report)
  BY <1>1, <1>2 DEF Mutual
<1>4. v \in Participants(report) /\ w \in Participants(report)
  BY <1>1 DEF Pairs, Participants
<1> QED BY <1>3, <1>4

LEMMA ParticipantsFinite ==
    ASSUME NEW report, IsReport(report)
    PROVE  IsFiniteSet(Participants(report))
<1> DEFINE E == ToSet(report)
           f == [e \in E |-> e.issuer]
           g == [e \in E |-> e.subject]
           I == {e.issuer : e \in E}
           S == {e.subject : e \in E}
<1>1. f \in Surjection(E, I) /\ g \in Surjection(E, S)
  BY DEF Surjection
<1>2. Participants(report) = I \cup S
  BY DEF Participants
<1>3. IsFiniteSet(E)
  BY ReportIs
<1> HIDE DEF E, f, g, I, S
<1>4. IsFiniteSet(I) /\ IsFiniteSet(S)
  BY <1>1, <1>3, FS_Surjection
<1> QED BY <1>2, <1>4, FS_Union

-----------------------------------------------------------------------------
(* Who reaches whom *)

\* No pair leads out of the set.
Closed(report, C) ==
    /\ C \subseteq Participants(report)
    /\ \A p \in Mutual(report) : p[1] \in C => p[2] \in C

LEMMA ClosedIs ==
    ASSUME NEW report, IsReport(report), NEW C
    PROVE  Closed(report, C) <=>
               /\ C \subseteq Participants(report)
               /\ \A v, w : <<v, w>> \in Mutual(report) /\ v \in C => w \in C
<1>1. \A p \in Mutual(report) : p = <<p[1], p[2]>>
  BY DEF Mutual, Pairs
<1> QED BY <1>1 DEF Closed

LEMMA ReachesIs ==
    ASSUME NEW report, NEW v
    PROVE  Reaches(report, v) =
               {w \in Participants(report) : \A C : Closed(report, C) /\ v \in C => w \in C}
BY DEF Reaches, Closed

LEMMA ReachesFrom ==
    ASSUME NEW report, IsReport(report), NEW v \in Participants(report)
    PROVE  /\ v \in Reaches(report, v)
           /\ Closed(report, Reaches(report, v))
           /\ \A C : Closed(report, C) /\ v \in C => Reaches(report, v) \subseteq C
           /\ \A w \in Reaches(report, v) : Reaches(report, w) = Reaches(report, v)
<1>1. v \in Reaches(report, v)
  BY ReachesIs
<1>2. \A C : Closed(report, C) /\ v \in C => Reaches(report, v) \subseteq C
  BY ReachesIs
<1>3. ASSUME NEW u \in Participants(report) PROVE Closed(report, Reaches(report, u))
  <2>1. ASSUME NEW a, NEW b, <<a, b>> \in Mutual(report), a \in Reaches(report, u)
        PROVE  b \in Reaches(report, u)
    <3>1. b \in Participants(report)
      BY <2>1, MutualIs
    <3>2. ASSUME NEW C, Closed(report, C), u \in C PROVE b \in C
      <4>1. a \in C
        BY <2>1, <3>2, ReachesIs
      <4> QED BY <2>1, <3>2, <4>1, ClosedIs
    <3> QED BY <3>1, <3>2, ReachesIs
  <2>2. Reaches(report, u) \subseteq Participants(report)
    BY ReachesIs
  <2> QED BY <2>1, <2>2, ClosedIs
<1>4. ASSUME NEW w \in Reaches(report, v) PROVE Reaches(report, w) = Reaches(report, v)
  <2>1. w \in Participants(report)
    BY <1>4, ReachesIs
  <2>2. Reaches(report, w) \subseteq Reaches(report, v)
    BY <1>3, <1>4, ReachesIs
  <2> DEFINE rest == Participants(report) \ Reaches(report, w)
  <2>3. Closed(report, rest)
    <3>1. ASSUME NEW a, NEW b, <<a, b>> \in Mutual(report), a \in rest PROVE b \in rest
      <4>1. <<b, a>> \in Mutual(report) /\ b \in Participants(report)
        BY <3>1, MutualIs
      <4>2. b \notin Reaches(report, w)
        BY <1>3, <2>1, <3>1, <4>1, ClosedIs
      <4> QED BY <4>1, <4>2
    <3> QED BY <3>1, ClosedIs
  <2>4. v \in Reaches(report, w)
    <3> SUFFICES ASSUME v \notin Reaches(report, w) PROVE FALSE
      OBVIOUS
    <3>1. w \in rest
      BY <1>2, <1>4, <2>3
    <3>2. w \in Reaches(report, w)
      BY <2>1, ReachesIs
    <3> QED BY <3>1, <3>2
  <2>5. Reaches(report, v) \subseteq Reaches(report, w)
    BY <1>3, <2>1, <2>4, ReachesIs
  <2> QED BY <2>2, <2>5
<1> QED BY <1>1, <1>2, <1>3, <1>4

\* With pairs that rate each other, to reach is to be reached.
LEMMA ClassesReached ==
    ASSUME NEW report, IsReport(report)
    PROVE  MutuallyReachable(report) =
               {c \in {Reaches(report, v) : v \in Participants(report)} : Cardinality(c) >= 3}
<1> DEFINE class(v) == {w \in Reaches(report, v) : v \in Reaches(report, w)}
<1>1. ASSUME NEW v \in Participants(report) PROVE class(v) = Reaches(report, v)
  BY ReachesFrom
<1>2. {class(v) : v \in Participants(report)} = {Reaches(report, v) : v \in Participants(report)}
  <2> HIDE DEF class
  <2> QED BY <1>1
<1> QED BY <1>2 DEF MutuallyReachable

LEMMA ClassOf ==
    ASSUME NEW report, IsReport(report), NEW c
    PROVE  c \in MutuallyReachable(report) <=>
               /\ Cardinality(c) >= 3
               /\ \E v \in Participants(report) : c = Reaches(report, v)
<1> DEFINE All == {Reaches(report, v) : v \in Participants(report)}
<1>1. MutuallyReachable(report) = {x \in All : Cardinality(x) >= 3}
  BY ClassesReached
<1>2. c \in All <=> \E v \in Participants(report) : c = Reaches(report, v)
  OBVIOUS
<1> HIDE DEF All
<1> QED BY <1>1, <1>2

-----------------------------------------------------------------------------
(* A low score does not raise the threshold *)

\* How many values are below v, and how many are not above it.
Below(values, v)    == {k \in DOMAIN values : values[k] < v}
NotAbove(values, v) == {k \in DOMAIN values : values[k] =< v}

Position(n, q) == Min({n - 1, (q[1] * n) \div q[2]})

IsQuantile(values, q, v) ==
    /\ v \in ToSet(values)
    /\ Cardinality(Below(values, v)) =< Position(Len(values), q)
    /\ Position(Len(values), q) < Cardinality(NotAbove(values, v))

LEMMA PositionIs ==
    ASSUME NEW n \in Nat \ {0}, NEW q, q[1] \in Nat, q[2] \in Nat \ {0}
    PROVE  /\ Position(n, q) \in 0 .. n - 1
           /\ Position(n + 1, q) =< Position(n, q) + 1
<1> DEFINE a == q[1]
           d == q[2]
           i == (a * n) \div d
           j == (a * (n + 1)) \div d
<1>1. a \in Nat /\ d \in Nat /\ d > 0
  OBVIOUS
<1>2. \A x, y \in Int : Min({x, y}) = IF x =< y THEN x ELSE y
  <2> TAKE x \in Int, y \in Int
  <2>1. \E m \in {x, y} : \A u \in {x, y} : m =< u
    OBVIOUS
  <2>2. Min({x, y}) \in {x, y} /\ Min({x, y}) =< x /\ Min({x, y}) =< y
    BY <2>1 DEF Min
  <2> QED BY <2>2
<1>3. Position(n, q) = Min({n - 1, i}) /\ Position(n + 1, q) = Min({n, j})
  BY DEF Position
<1> HIDE DEF a, d
<1>4. i \in Nat /\ d * i =< a * n /\ a * n < d * i + d
  BY <1>1
<1>5. j \in Nat /\ d * j =< a * n + a /\ a * n + a < d * j + d
  <2>1. a * (n + 1) = a * n + a /\ a * (n + 1) \in Nat
    BY <1>1
  <2>2. j \in Nat /\ d * j =< a * (n + 1) /\ a * (n + 1) < d * j + d
    BY <1>1, <2>1
  <2> QED BY <2>1, <2>2
<1> HIDE DEF i, j
<1>6. ASSUME i =< n - 2 PROVE j =< i + 1
  <2>1. a < d
    <3> SUFFICES ASSUME a >= d PROVE FALSE
      BY <1>1
    <3>1. a * n >= d * n
      BY <1>1
    <3>2. d * i + d =< d * n
      <4>1. i + 1 =< n
        BY <1>4, <1>6
      <4>2. d * (i + 1) =< d * n
        BY <1>1, <1>4, <4>1
      <4> QED BY <1>1, <1>4, <4>2
    <3>3. a * n \in Int /\ d * n \in Int /\ d * i + d \in Int
      BY <1>1, <1>4
    <3> QED BY <1>4, <3>1, <3>2, <3>3
  <2>2. d * j < d * i + 2 * d
    <3>1. a * n \in Int /\ d * i \in Int /\ d * j \in Int
      BY <1>1, <1>4, <1>5
    <3> QED BY <1>1, <1>4, <1>5, <2>1, <3>1
  <2>3. ASSUME j >= i + 2 PROVE FALSE
    <3>1. d * j >= d * (i + 2)
      BY <1>1, <1>4, <1>5, <2>3
    <3>2. d * (i + 2) = d * i + 2 * d /\ d * j \in Int /\ d * i \in Int
      BY <1>1, <1>4, <1>5
    <3> QED BY <1>1, <2>2, <3>1, <3>2
  <2> QED BY <1>4, <1>5, <2>3
<1>7. Position(n, q) = IF n - 1 =< i THEN n - 1 ELSE i
  BY <1>2, <1>3, <1>4
<1>8. Position(n + 1, q) = IF n =< j THEN n ELSE j
  BY <1>2, <1>3, <1>5
<1> QED BY <1>4, <1>5, <1>6, <1>7, <1>8

LEMMA Counts ==
    ASSUME NEW values \in Seq(Nat), NEW v \in Nat
    PROVE  /\ IsFiniteSet(Below(values, v)) /\ IsFiniteSet(NotAbove(values, v))
           /\ Cardinality(Below(values, v)) \in Nat /\ Cardinality(NotAbove(values, v)) \in Nat
<1>1. IsFiniteSet(DOMAIN values)
  <2>1. DOMAIN values = 1 .. Len(values) /\ Len(values) \in Nat
    OBVIOUS
  <2> QED BY <2>1, FS_Interval
<1>2. Below(values, v) \in SUBSET DOMAIN values /\ NotAbove(values, v) \in SUBSET DOMAIN values
  BY DEF Below, NotAbove
<1> QED BY <1>1, <1>2, FS_Subset, FS_CardinalityType

\* There is a value with the position of the quantile.
LEMMA QuantileExists ==
    ASSUME NEW values \in Seq(Nat), Len(values) > 0, NEW q, q[1] \in Nat, q[2] \in Nat \ {0}
    PROVE  \E v \in ToSet(values) : IsQuantile(values, q, v)
<1> DEFINE n == Len(values)
           p == Position(n, q)
           V == ToSet(values)
           T == {v \in V : p < Cardinality(NotAbove(values, v))}
<1>1. n \in Nat \ {0} /\ DOMAIN values = 1 .. n /\ \A k \in 1 .. n : values[k] \in Nat
  OBVIOUS
<1>2. p \in 0 .. n - 1
  BY <1>1, PositionIs
<1>3. V = {values[k] : k \in 1 .. n} /\ V \subseteq Nat /\ V # {} /\ IsFiniteSet(V)
  <2>1. V = {values[k] : k \in 1 .. n}
    BY <1>1 DEF ToSet
  <2>2. V \subseteq Nat /\ V # {}
    <3>1. 1 \in 1 .. n
      BY <1>1
    <3> QED BY <1>1, <2>1, <3>1
  <2>3. IsFiniteSet(V)
    <3> DEFINE K == 1 .. n
               f == [k \in K |-> values[k]]
    <3>1. f \in Surjection(K, V)
      BY <2>1 DEF Surjection
    <3>2. IsFiniteSet(K)
      BY <1>1, FS_Interval
    <3> HIDE DEF K, f, V
    <3> QED BY <3>1, <3>2, FS_Surjection
  <2> QED BY <2>1, <2>2, <2>3
<1> HIDE DEF V, p
<1>4. T # {}
  <2>1. PICK g \in V : \A u \in V : g >= u
    BY <1>3, GreatestOfFinite
  <2>2. \A k \in 1 .. n : values[k] =< g
    BY <1>1, <1>3, <2>1
  <2>3. NotAbove(values, g) = 1 .. n
    BY <1>1, <2>2 DEF NotAbove
  <2>4. Cardinality(NotAbove(values, g)) = n
    BY <1>1, <2>3, FS_Interval
  <2>5. p < Cardinality(NotAbove(values, g))
    BY <1>1, <1>2, <2>4
  <2> QED BY <2>5
<1>5. PICK v \in T : \A u \in T : v =< u
  <2>1. T \subseteq Nat
    BY <1>3
  <2> HIDE DEF T
  <2> QED BY <1>4, <2>1, LeastExists
<1>6. Cardinality(Below(values, v)) =< p
  <2> DEFINE L == {u \in V : u < v}
  <2>1. CASE L = {}
    <3>1. Below(values, v) = {}
      BY <1>1, <1>3, <2>1 DEF Below
    <3> QED BY <1>1, <1>2, <3>1, FS_EmptySet
  <2>2. CASE L # {}
    <3>1. L \in SUBSET V
      OBVIOUS
    <3>2. L \subseteq Nat /\ IsFiniteSet(L)
      <4> HIDE DEF L
      <4> QED BY <1>3, <3>1, FS_Subset
    <3>3. PICK u \in L : \A w \in L : u >= w
      <4> HIDE DEF L
      <4> QED BY <2>2, <3>2, GreatestOfFinite
    <3>4. \A k \in 1 .. n : values[k] < v <=> values[k] =< u
      <4> TAKE k \in 1 .. n
      <4>1. values[k] \in Nat /\ values[k] \in V /\ u \in Nat /\ v \in Nat /\ u < v
        BY <1>1, <1>3
      <4>2. values[k] < v => u >= values[k]
        BY <3>3, <4>1
      <4> QED BY <4>1, <4>2
    <3>5. Below(values, v) = NotAbove(values, u)
      BY <1>1, <3>4 DEF Below, NotAbove
    <3>6. u \in V /\ u \in Nat /\ v \in Nat /\ u < v
      BY <1>3
    <3>7. ~ (p < Cardinality(NotAbove(values, u)))
      BY <1>5, <3>6
    <3>8. Cardinality(NotAbove(values, u)) \in Nat /\ p \in Int
      BY <1>2, <3>6, Counts
    <3> QED BY <3>5, <3>7, <3>8
  <2> QED BY <2>1, <2>2
<1> QED BY <1>5, <1>6 DEF IsQuantile, p, V

LEMMA QuantileIs ==
    ASSUME NEW values \in Seq(Nat), Len(values) > 0, NEW q, q[1] \in Nat, q[2] \in Nat \ {0}
    PROVE  /\ IsQuantile(values, q, quantile(values, q))
           /\ quantile(values, q) \in Nat
<1>1. Len(values) # 0
  OBVIOUS
<1>2. quantile(values, q) = CHOOSE v \in ToSet(values) : IsQuantile(values, q, v)
  <2>1. quantile(values, q) =
            CHOOSE v \in ToSet(values) :
                /\ Cardinality(Below(values, v)) =< Position(Len(values), q)
                /\ Position(Len(values), q) < Cardinality(NotAbove(values, v))
    BY <1>1 DEF quantile, Below, NotAbove, Position
  <2>2. \A v \in ToSet(values) :
            IsQuantile(values, q, v) <=>
                /\ Cardinality(Below(values, v)) =< Position(Len(values), q)
                /\ Position(Len(values), q) < Cardinality(NotAbove(values, v))
    BY DEF IsQuantile
  <2> QED BY <2>1, <2>2
<1>3. IsQuantile(values, q, quantile(values, q))
  BY <1>2, QuantileExists
<1>4. \A v \in ToSet(values) : v \in Nat
  BY DEF ToSet
<1> QED BY <1>3, <1>4 DEF IsQuantile

\* One more value that is not above any other does not raise the quantile.
LEMMA QuantileFalls ==
    ASSUME NEW values \in Seq(Nat), NEW n \in Nat \ {0}, Len(values) = n + 1,
           NEW q, q[1] \in Nat, q[2] \in Nat \ {0},
           \A k \in 1 .. n : values[n + 1] =< values[k]
    PROVE  quantile(values, q) =< quantile([k \in 1 .. n |-> values[k]], q)
<1> DEFINE earlier == [k \in 1 .. n |-> values[k]]
           v == quantile(earlier, q)
           w == quantile(values, q)
<1>1. DOMAIN values = 1 .. n + 1 /\ \A k \in 1 .. n + 1 : values[k] \in Nat
  OBVIOUS
<1>2. earlier \in Seq(Nat) /\ Len(earlier) = n /\ DOMAIN earlier = 1 .. n
      /\ \A k \in 1 .. n : earlier[k] = values[k]
  <2>1. \A k \in 1 .. n : values[k] \in Nat
    BY <1>1
  <2>2. earlier \in [1 .. n -> Nat]
    BY <2>1
  <2> QED BY <2>2
<1> HIDE DEF earlier
<1>3. IsQuantile(earlier, q, v) /\ v \in Nat /\ IsQuantile(values, q, w) /\ w \in Nat
  <2>1. Len(earlier) > 0 /\ Len(values) > 0
    BY <1>2
  <2> QED BY <1>2, <2>1, QuantileIs
<1> HIDE DEF v, w
<1>4. Position(n + 1, q) =< Position(n, q) + 1 /\ Position(n, q) \in Nat /\ Position(n + 1, q) \in Nat
  <2>1. Position(n, q) \in 0 .. n - 1 /\ Position(n + 1, q) =< Position(n, q) + 1
    BY PositionIs
  <2>2. Position(n + 1, q) \in 0 .. (n + 1) - 1
    BY PositionIs
  <2> QED BY <2>1, <2>2
<1>5. ASSUME w > v PROVE FALSE
  <2>1. PICK k \in 1 .. n : v = values[k]
    BY <1>2, <1>3 DEF IsQuantile, ToSet
  <2>2. values[n + 1] =< v /\ values[n + 1] \in Nat
    BY <1>1, <2>1
  <2> DEFINE S == NotAbove(earlier, v)
  <2>3. IsFiniteSet(S) /\ Cardinality(S) \in Nat
    BY <1>2, <1>3, Counts
  <2>4. n + 1 \notin S
    BY <1>2 DEF NotAbove
  <2>5. S \cup {n + 1} \in SUBSET Below(values, w)
    <3>1. \A j \in S : j \in 1 .. n /\ values[j] =< v
      BY <1>2 DEF NotAbove
    <3>2. \A j \in S : j \in DOMAIN values /\ values[j] < w
      BY <1>1, <1>3, <1>5, <3>1
    <3>3. n + 1 \in DOMAIN values /\ values[n + 1] < w
      BY <1>1, <1>3, <1>5, <2>2
    <3> HIDE DEF S
    <3> QED BY <3>2, <3>3 DEF Below
  <2> HIDE DEF S
  <2>6. Cardinality(S \cup {n + 1}) = Cardinality(S) + 1
    BY <2>3, <2>4, FS_AddElement
  <2>7. Cardinality(S \cup {n + 1}) =< Cardinality(Below(values, w))
    BY <1>3, <2>5, Counts, FS_Subset
  <2>8. Cardinality(Below(values, w)) =< Position(n + 1, q) /\ Position(n, q) < Cardinality(S)
    BY <1>2, <1>3 DEF IsQuantile, S
  <2>9. Cardinality(Below(values, w)) \in Nat
    BY <1>3, Counts
  <2> QED BY <1>4, <2>3, <2>6, <2>7, <2>8, <2>9
<1>6. w =< v
  BY <1>3, <1>5
<1> QED BY <1>6 DEF v, w, earlier

\* Whoever rates and is rated highly still does after a low score has been added.
LEMMA MutualKept ==
    ASSUME NEW report, IsReport(report), NEW n \in Nat \ {0}, Len(report) = n + 1,
           NEW earlier, IsReport(earlier), earlier = [k \in 1 .. n |-> report[k]],
           \A k \in 1 .. n : report[n + 1].avg_score =< earlier[k].avg_score
    PROVE  /\ Mutual(earlier) \subseteq Mutual(report)
           /\ Participants(earlier) \subseteq Participants(report)
<1> DEFINE scores    == [k \in DOMAIN report |-> report[k].avg_score]
           before    == [k \in DOMAIN earlier |-> earlier[k].avg_score]
           threshold == quantile(scores, ScoreQuantile)
           least     == quantile(before, ScoreQuantile)
<1>1. /\ DOMAIN report = 1 .. n + 1 /\ \A k \in 1 .. n + 1 : report[k].avg_score \in Nat
      /\ DOMAIN earlier = 1 .. n /\ \A k \in 1 .. n : earlier[k] = report[k]
      /\ ToSet(report) = {report[k] : k \in 1 .. n + 1} /\ ToSet(earlier) = {earlier[k] : k \in 1 .. n}
  BY ReportIs DEF ToSet
<1>2. ToSet(earlier) \subseteq ToSet(report)
  BY <1>1
<1>3. /\ scores \in Seq(Nat) /\ Len(scores) = n + 1
      /\ before \in Seq(Nat) /\ Len(before) = n
      /\ before = [k \in 1 .. n |-> scores[k]]
      /\ \A k \in 1 .. n : scores[n + 1] =< scores[k]
  <2>1. scores = [k \in 1 .. n + 1 |-> report[k].avg_score] /\ scores \in [1 .. n + 1 -> Nat]
    BY <1>1
  <2>2. before = [k \in 1 .. n |-> report[k].avg_score] /\ before \in [1 .. n -> Nat]
    BY <1>1
  <2>3. n + 1 \in 1 .. n + 1 /\ \A k \in 1 .. n : k \in 1 .. n + 1
    OBVIOUS
  <2>4. before = [k \in 1 .. n |-> scores[k]]
    BY <2>1, <2>2, <2>3
  <2>5. \A k \in 1 .. n : scores[n + 1] =< scores[k]
    BY <1>1, <2>1, <2>3
  <2> HIDE DEF scores, before
  <2>6. before \in Seq(Nat) /\ Len(before) = n
    BY <2>2, ListsAreSequences
  <2>7. scores \in Seq(Nat) /\ Len(scores) = n + 1
    <3> DEFINE m == n + 1
    <3>1. m \in Nat /\ scores \in [1 .. m -> Nat]
      BY <2>1
    <3> HIDE DEF m
    <3>2. scores \in Seq(Nat) /\ Len(scores) = m
      BY <3>1, ListsAreSequences
    <3> QED BY <3>2 DEF m
  <2> QED BY <2>4, <2>5, <2>6, <2>7
<1> HIDE DEF scores, before
<1>4. threshold =< least /\ threshold \in Nat /\ least \in Nat
  <2>1. ScoreQuantile[1] \in Nat /\ ScoreQuantile[2] \in Nat \ {0}
    BY RingsAssumption
  <2>2. threshold =< least
    BY <1>3, <2>1, QuantileFalls
  <2>3. threshold \in Nat /\ least \in Nat
    <3>1. Len(scores) > 0 /\ Len(before) > 0
      BY <1>3
    <3> QED BY <1>3, <2>1, <3>1, QuantileIs
  <2> QED BY <2>2, <2>3
<1> HIDE DEF threshold, least
<1>5. Pairs(earlier) \subseteq Pairs(report)
  BY <1>2 DEF Pairs
<1>6. ASSUME NEW p \in Pairs(earlier)
      PROVE  /\ PairScore(earlier, p) =< PairScore(report, p)
             /\ PairScore(earlier, p) \in Nat /\ PairScore(report, p) \in Nat
  <2>1. PICK e \in ToSet(earlier) : <<e.issuer, e.subject>> = p /\ PairScore(earlier, p) = e.avg_score
    BY PairScoreIs
  <2>2. p \in Pairs(report) /\ e \in ToSet(report)
    BY <1>2, <1>5
  <2>3. e.avg_score =< PairScore(report, p)
    BY <2>1, <2>2, PairScoreIs
  <2> QED BY <2>1, <2>2, <2>3, PairScoreIs
<1>7. ASSUME NEW p \in Mutual(earlier) PROVE p \in Mutual(report)
  <2> DEFINE back == <<p[2], p[1]>>
  <2>1. /\ p \in Pairs(earlier) /\ back \in Pairs(earlier)
        /\ PairScore(earlier, p) + PairScore(earlier, back) >= 2 * least
    BY DEF Mutual, least, before
  <2>2. /\ PairScore(earlier, p) =< PairScore(report, p)
        /\ PairScore(earlier, p) \in Nat /\ PairScore(report, p) \in Nat
        /\ PairScore(earlier, back) =< PairScore(report, back)
        /\ PairScore(earlier, back) \in Nat /\ PairScore(report, back) \in Nat
    BY <1>6, <2>1
  <2>3. PairScore(report, p) + PairScore(report, back) >= 2 * threshold
    BY <1>4, <2>1, <2>2
  <2>4. p \in Pairs(report) /\ back \in Pairs(report)
    BY <1>5, <2>1
  <2> QED BY <2>3, <2>4 DEF Mutual, threshold, scores
<1>8. Participants(earlier) \subseteq Participants(report)
  BY <1>2 DEF Participants
<1> QED BY <1>7, <1>8

\* So who reached another before still does, and no component loses anybody.
THEOREM RingsUndiluted ==
    ASSUME NEW report, IsReport(report), NEW n \in Nat, Len(report) = n + 1,
           NEW earlier, IsReport(earlier), earlier = [k \in 1 .. n |-> report[k]],
           \A k \in 1 .. n : report[n + 1].avg_score =< earlier[k].avg_score,
           NEW c \in MutuallyReachable(earlier)
    PROVE  \E d \in MutuallyReachable(report) : c \subseteq d
<1>1. PICK v \in Participants(earlier) : c = Reaches(earlier, v) /\ Cardinality(c) >= 3
  BY ClassOf
<1>2. n # 0
  <2>1. ASSUME n = 0 PROVE FALSE
    <3>1. ToSet(earlier) = {}
      BY <2>1 DEF ToSet
    <3> QED BY <3>1 DEF Participants
  <2> QED BY <2>1
<1>3. Mutual(earlier) \subseteq Mutual(report) /\ Participants(earlier) \subseteq Participants(report)
  BY <1>2, MutualKept
<1> DEFINE d == Reaches(report, v)
<1>4. ASSUME NEW w \in c PROVE w \in d
  <2>1. w \in Participants(earlier)
    BY <1>1, ReachesIs
  <2>2. ASSUME NEW C, Closed(report, C), v \in C PROVE w \in C
    <3>1. Closed(earlier, C \cap Participants(earlier))
      <4>1. ASSUME NEW a, NEW b, <<a, b>> \in Mutual(earlier), a \in C PROVE b \in C /\ b \in Participants(earlier)
        BY <1>3, <2>2, <4>1, ClosedIs, MutualIs
      <4> QED BY <4>1, ClosedIs
    <3> QED BY <1>1, <3>1, <2>2, ReachesIs
  <2> QED BY <1>3, <2>1, <2>2, ReachesIs
<1>5. Cardinality(d) >= 3
  <2>1. IsFiniteSet(d)
    <3>1. d \in SUBSET Participants(report)
      BY ReachesIs
    <3> HIDE DEF d
    <3> QED BY <3>1, ParticipantsFinite, FS_Subset
  <2>2. c \in SUBSET d
    BY <1>4
  <2> HIDE DEF d
  <2>3. Cardinality(c) =< Cardinality(d) /\ Cardinality(c) \in Nat /\ Cardinality(d) \in Nat
    BY <2>1, <2>2, FS_Subset, FS_CardinalityType
  <2> QED BY <1>1, <2>3
<1>6. d \in MutuallyReachable(report)
  <2>1. v \in Participants(report)
    BY <1>3
  <2> QED BY <1>5, <2>1, ClassOf
<1> QED BY <1>4, <1>6

-----------------------------------------------------------------------------
(* The search.  Since pairs rate each other, only a root finds its link equal *)
(* to its index: whoever was called by another lowers its link to that one.   *)
(* So what is on the stack is what the root has reached, all of it is taken   *)
(* off at once, and nothing leads from there to those taken off before.       *)

People  == Participants(edges)
OnStack == ToSet(stack)
Off     == Visited \ OnStack

SearchType ==
    /\ IsReport(edges) /\ request.to = "rings"
    /\ adj = Adjacency(edges) /\ Visited \subseteq People
    /\ counter \in Nat
    /\ index \in [Visited -> Nat] /\ \A v \in Visited : index[v] < counter
    /\ lowlink \in [Visited -> Nat]
    /\ stack \in Seq(Visited)
    /\ calls \in Seq([v : Visited, rest : SUBSET People])
    /\ answer = None

\* The first on the stack is the root.
RootInv ==
    /\ calls = << >> => stack = << >>
    /\ calls # << >> => Len(stack) > 0 /\ calls[1].v = stack[1]
    /\ Len(stack) > 0 =>
           /\ OnStack \subseteq Reaches(edges, stack[1])
           /\ \A x \in OnStack : index[stack[1]] =< index[x] /\ index[stack[1]] =< lowlink[x]
           /\ lowlink[stack[1]] = index[stack[1]]
           /\ \A k \in 2 .. Len(stack) : stack[k] # stack[1]

\* Every call but the first was made by one that is under way, and knows of it or will.
CallsInv ==
    /\ \A k \in 1 .. Len(calls) : calls[k].v \in OnStack /\ calls[k].rest \subseteq adj[calls[k].v]
    /\ \A k \in 2 .. Len(calls) :
           /\ calls[k - 1].v \in adj[calls[k].v]
           /\ index[calls[k - 1].v] < index[calls[k].v]
           /\ calls[k - 1].v \in calls[k].rest \/ lowlink[calls[k].v] =< index[calls[k - 1].v]

\* Who has been looked at.
VisitedInv ==
    /\ \A k \in 1 .. Len(calls) : adj[calls[k].v] \subseteq Visited \cup calls[k].rest
    /\ \A v \in Visited :
           adj[v] \subseteq Visited \/ \E k \in 1 .. Len(calls) : calls[k].v = v
    /\ \A v \in Off : adj[v] \subseteq Off

FoundInv == sccs = {c \in {Reaches(edges, v) : v \in Off} : Cardinality(c) >= 3}

SearchInv == SearchType /\ RootInv /\ CallsInv /\ VisitedInv /\ FoundInv

LEMMA AdjacencyIs ==
    ASSUME NEW report, IsReport(report), NEW v \in Participants(report)
    PROVE  /\ Adjacency(report)[v] \subseteq Participants(report)
           /\ \A w \in Adjacency(report)[v] : v \in Adjacency(report)[w] /\ <<v, w>> \in Mutual(report)
           /\ \A w : <<v, w>> \in Mutual(report) => w \in Adjacency(report)[v]
<1>1. \A u \in Participants(report) :
          Adjacency(report)[u] = {w \in Participants(report) : <<u, w>> \in Mutual(report)}
  BY DEF Adjacency
<1>2. \A u, w : <<u, w>> \in Mutual(report) => <<w, u>> \in Mutual(report) /\ w \in Participants(report)
  BY MutualIs
<1> QED BY <1>1, <1>2

LEMMA FirstPlace ==
    ASSUME NEW n \in Nat, NEW K, K \subseteq 1 .. n, K # {}
    PROVE  Min(K) \in K
<1>1. \E k \in K : \A j \in K : k =< j
  <2>1. K \subseteq Nat
    OBVIOUS
  <2> QED BY <2>1, LeastExists
<1> QED BY <1>1 DEF Min

LEMMA NextRootIs ==
    ASSUME SearchType, ~ People \subseteq Visited
    PROVE  NextRoot \in People \ Visited
<1> DEFINE K == {k \in DOMAIN edges : ~ {edges[k].issuer, edges[k].subject} \subseteq Visited}
<1>1. /\ Len(edges) \in Nat /\ DOMAIN edges = 1 .. Len(edges)
      /\ ToSet(edges) = {edges[k] : k \in 1 .. Len(edges)}
  BY ReportIs DEF SearchType
<1>2. K # {}
  <2>1. PICK x \in People : x \notin Visited
    OBVIOUS
  <2>2. PICK k \in 1 .. Len(edges) : x \in {edges[k].issuer, edges[k].subject}
    BY <1>1, <2>1 DEF People, Participants
  <2>3. ~ {edges[k].issuer, edges[k].subject} \subseteq Visited
    BY <2>1, <2>2
  <2> QED BY <1>1, <2>3
<1>3. Min(K) \in K
  <2>1. K \subseteq 1 .. Len(edges)
    BY <1>1
  <2> HIDE DEF K
  <2> QED BY <1>1, <1>2, <2>1, FirstPlace
<1> DEFINE k == Min(K)
<1>4. NextRoot = IF edges[k].issuer \notin Visited THEN edges[k].issuer ELSE edges[k].subject
  BY DEF NextRoot
<1>5. k \in 1 .. Len(edges) /\ ~ {edges[k].issuer, edges[k].subject} \subseteq Visited
  BY <1>1, <1>3
<1> HIDE DEF k
<1>6. edges[k].issuer \in People /\ edges[k].subject \in People
  BY <1>1, <1>5 DEF People, Participants
<1> QED BY <1>4, <1>5, <1>6

LEMMA NextOfIs ==
    ASSUME SearchType, NEW call, call.v \in People, call.rest \subseteq adj[call.v], call.rest # {}
    PROVE  NextOf(call) \in call.rest
<1> DEFINE K == {k \in DOMAIN edges : edges[k].issuer = call.v /\ edges[k].subject \in call.rest}
<1>1. /\ Len(edges) \in Nat /\ DOMAIN edges = 1 .. Len(edges)
      /\ ToSet(edges) = {edges[k] : k \in 1 .. Len(edges)}
  BY ReportIs DEF SearchType
<1>2. K # {}
  <2>1. PICK w \in call.rest : TRUE
    OBVIOUS
  <2>2. <<call.v, w>> \in Mutual(edges)
    BY AdjacencyIs DEF SearchType, People
  <2>3. PICK k \in 1 .. Len(edges) : <<edges[k].issuer, edges[k].subject>> = <<call.v, w>>
    BY <1>1, <2>2 DEF Mutual, Pairs
  <2> QED BY <1>1, <2>3
<1>3. Min(K) \in K
  <2>1. K \subseteq 1 .. Len(edges)
    BY <1>1
  <2> HIDE DEF K
  <2> QED BY <1>1, <1>2, <2>1, FirstPlace
<1> QED BY <1>3 DEF NextOf

\* A call that has looked at w is what it was, without w.
LEMMA PassedIs ==
    ASSUME NEW S, NEW T, calls \in Seq([v : S, rest : SUBSET T]), calls # << >>, NEW w
    PROVE  /\ Passed(w) \in Seq([v : S, rest : SUBSET T])
           /\ Len(Passed(w)) = Len(calls) /\ Len(calls) \in Nat \ {0}
           /\ \A k \in 1 .. Len(calls) : Passed(w)[k].v = calls[k].v
           /\ \A k \in 1 .. Len(calls) :
                  Passed(w)[k].rest = IF k = Len(calls) THEN calls[k].rest \ {w} ELSE calls[k].rest
<1> DEFINE Call == [v : S, rest : SUBSET T]
           last == [calls[Len(calls)] EXCEPT !.rest = calls[Len(calls)].rest \ {w}]
<1>1. Passed(w) = [calls EXCEPT ![Len(calls)] = last]
  BY DEF Passed
<1>2. Len(calls) \in Nat \ {0} /\ \A k \in 1 .. Len(calls) : calls[k] \in Call
  <2>1. calls \in Seq(Call)
    OBVIOUS
  <2> HIDE DEF Call
  <2> QED BY <2>1
<1>3. /\ last \in Call
      /\ last.v = calls[Len(calls)].v /\ last.rest = calls[Len(calls)].rest \ {w}
  BY <1>2
<1> HIDE DEF last
<1>4. Passed(w) \in Seq(Call) /\ Len(Passed(w)) = Len(calls)
  BY <1>1, <1>2, <1>3
<1>5. \A k \in 1 .. Len(calls) : Passed(w)[k] = IF k = Len(calls) THEN last ELSE calls[k]
  BY <1>1
<1> QED BY <1>2, <1>3, <1>4, <1>5 DEF Call

\* A link only gets lower.
LEMMA LowerIs ==
    ASSUME NEW v \in Visited, NEW n \in Nat, lowlink \in [Visited -> Nat]
    PROVE  /\ Lower(v, n) \in [Visited -> Nat]
           /\ \A x \in Visited : x # v => Lower(v, n)[x] = lowlink[x]
           /\ Lower(v, n)[v] \in {lowlink[v], n}
           /\ Lower(v, n)[v] =< n /\ Lower(v, n)[v] =< lowlink[v]
<1> DEFINE least == Min({lowlink[v], n})
<1>1. least \in {lowlink[v], n} /\ least =< n /\ least =< lowlink[v]
  <2>1. \E m \in {lowlink[v], n} : \A u \in {lowlink[v], n} : m =< u
    OBVIOUS
  <2> QED BY <2>1 DEF Min
<1>2. Lower(v, n) = [lowlink EXCEPT ![v] = least]
  BY DEF Lower
<1> HIDE DEF least
<1> QED BY <1>1, <1>2

\* Whoever is called by nobody comes onto an empty stack, and by another onto its stack.
LEMMA EnterInv ==
    ASSUME SearchInv, NEW v \in People, v \notin Visited, NEW callers, Enter(v, callers),
           \/ calls = << >> /\ callers = << >>
           \/ calls # << >> /\ Current.rest # {} /\ v \in Current.rest /\ callers = Passed(v)
    PROVE  SearchInv'
<1> USE DEF SearchInv
<1>0. /\ counter \in Nat /\ IsReport(edges) /\ adj = Adjacency(edges)
      /\ index \in [Visited -> Nat] /\ lowlink \in [Visited -> Nat]
      /\ Visited \subseteq People /\ \A x \in Visited : index[x] < counter
      /\ stack \in Seq(Visited)
      /\ calls \in Seq([v : Visited, rest : SUBSET People])
  BY DEF SearchType
<1> DEFINE m == Len(stack)
           n == Len(callers)
<1>1. edges' = edges /\ People' = People /\ adj' = adj /\ request' = request /\ answer' = answer
      /\ counter' = counter + 1 /\ sccs' = sccs
  BY DEF Enter, edges, People
<1>2. /\ Visited' = Visited \cup {v}
      /\ index'[v] = counter /\ lowlink'[v] = counter
      /\ \A x \in Visited : index'[x] = index[x] /\ lowlink'[x] = lowlink[x]
      /\ index' \in [Visited' -> Nat] /\ lowlink' \in [Visited' -> Nat]
  <2>1. /\ index' = [x \in Visited \cup {v} |-> IF x = v THEN counter ELSE index[x]]
        /\ lowlink' = [x \in Visited \cup {v} |-> IF x = v THEN counter ELSE lowlink[x]]
    BY <1>0 DEF Enter, Numbered
  <2>2. Visited' = DOMAIN index'
    BY DEF Visited
  <2>3. Visited' = Visited \cup {v}
    BY <2>1, <2>2
  <2> QED BY <1>0, <2>1, <2>3
<1>3. /\ m \in Nat /\ stack' = Append(stack, v) /\ Len(stack') = m + 1
      /\ stack'[m + 1] = v /\ \A k \in 1 .. m : stack'[k] = stack[k] /\ stack[k] \in Visited
      /\ DOMAIN stack = 1 .. m /\ DOMAIN stack' = 1 .. m + 1
      /\ stack' \in Seq(Visited')
  <2>1. stack' = Append(stack, v) /\ stack \in Seq(Visited \cup {v})
    BY <1>0 DEF Enter
  <2> QED BY <1>0, <1>2, <2>1
<1>4. OnStack' = OnStack \cup {v} /\ OnStack \subseteq Visited /\ v \notin OnStack
  BY <1>3 DEF OnStack, ToSet
<1>5. Off' = Off
  <2>1. Off' = Visited' \ OnStack'
    BY DEF Off
  <2> QED BY <1>2, <1>4, <2>1 DEF Off
<1>6. /\ n \in Nat /\ calls' = Append(callers, [v |-> v, rest |-> adj[v]])
      /\ callers \in Seq([v : Visited, rest : SUBSET People])
      /\ n = Len(calls)
      /\ \A k \in 1 .. n : callers[k].v = calls[k].v
      /\ \A k \in 1 .. n : callers[k].rest = IF k = n THEN calls[n].rest \ {v} ELSE calls[k].rest
  <2> DEFINE Call == [v : Visited, rest : SUBSET People]
  <2>0. calls' = Append(callers, [v |-> v, rest |-> adj[v]])
    BY DEF Enter
  <2>1. CASE calls = << >> /\ callers = << >>
    <3>1. callers \in Seq(Call)
      BY <1>0, <2>1
    <3>2. n = 0 /\ Len(calls) = 0
      BY <2>1
    <3> QED BY <2>0, <3>1, <3>2
  <2>2. CASE calls # << >> /\ callers = Passed(v)
    <3>1. Passed(v) \in Seq(Call) /\ Len(Passed(v)) = Len(calls) /\ Len(calls) \in Nat \ {0}
      BY <1>0, <2>2, PassedIs
    <3>2. \A k \in 1 .. Len(calls) : Passed(v)[k].v = calls[k].v
      BY <1>0, <2>2, PassedIs
    <3>3. \A k \in 1 .. Len(calls) :
              Passed(v)[k].rest = IF k = Len(calls) THEN calls[k].rest \ {v} ELSE calls[k].rest
      BY <1>0, <2>2, PassedIs
    <3> HIDE DEF Call
    <3>4. n = Len(calls)
      BY <2>2, <3>1
    <3> QED BY <2>0, <2>2, <3>1, <3>2, <3>3, <3>4 DEF Call
  <2> QED BY <2>1, <2>2
<1>7. adj[v] \subseteq People /\ \A w \in adj[v] : v \in adj[w]
  BY <1>0, AdjacencyIs DEF People
<1> HIDE DEF n
<1>8. /\ calls' \in Seq([v : Visited', rest : SUBSET People]) /\ Len(calls') = n + 1
      /\ calls'[n + 1].v = v /\ calls'[n + 1].rest = adj[v]
      /\ \A k \in 1 .. n : calls'[k].v = calls[k].v
      /\ \A k \in 1 .. n : calls'[k].rest = IF k = n THEN calls[n].rest \ {v} ELSE calls[k].rest
  <2> DEFINE call == [v |-> v, rest |-> adj[v]]
  <2>1. call \in [v : Visited', rest : SUBSET People] /\ call.v = v /\ call.rest = adj[v]
    BY <1>2, <1>7
  <2>2. [v : Visited, rest : SUBSET People] \subseteq [v : Visited', rest : SUBSET People]
    BY <1>2
  <2> HIDE DEF call
  <2>3. callers \in Seq([v : Visited', rest : SUBSET People])
    <3> DEFINE Old == [v : Visited, rest : SUBSET People]
               New == [v : Visited', rest : SUBSET People]
    <3>1. callers \in Seq(Old) /\ Old \subseteq New
      BY <1>6, <2>2
    <3> HIDE DEF Old, New
    <3>2. callers \in Seq(New)
      BY <3>1
    <3> QED BY <3>2 DEF New
  <2>4. calls' = Append(callers, call)
    BY <1>6 DEF call
  <2>5. /\ calls' \in Seq([v : Visited', rest : SUBSET People]) /\ Len(calls') = n + 1
        /\ calls'[n + 1] = call /\ \A k \in 1 .. n : calls'[k] = callers[k]
    BY <2>1, <2>3, <2>4 DEF n
  <2>6. /\ calls'[n + 1].v = v /\ calls'[n + 1].rest = adj[v]
    BY <2>1, <2>5
  <2>7. \A k \in 1 .. n : calls'[k].v = calls[k].v
    BY <1>6, <2>5
  <2>8. \A k \in 1 .. n : calls'[k].rest = IF k = n THEN calls[n].rest \ {v} ELSE calls[k].rest
    BY <1>6, <2>5
  <2> QED BY <2>5, <2>6, <2>7, <2>8
<1>9. SearchType'
  <2>1. counter' \in Nat /\ \A x \in Visited' : index'[x] < counter'
    BY <1>0, <1>1, <1>2
  <2>2. IsReport(edges') /\ request'.to = "rings" /\ adj' = Adjacency(edges') /\ answer' = None
    BY <1>1 DEF SearchType
  <2>3. Visited' \subseteq People'
    BY <1>0, <1>1, <1>2
  <2> QED BY <1>1, <1>2, <1>3, <1>8, <2>1, <2>2, <2>3 DEF SearchType
<1>10. ASSUME calls # << >>
       PROVE  /\ n > 0 /\ calls[n].v \in OnStack /\ v \in adj[calls[n].v] /\ v \in calls[n].rest
              /\ m > 0 /\ calls[1].v = stack[1]
  <2>1. n > 0 /\ v \in calls[n].rest
    BY <1>0, <1>6, <1>10 DEF Current
  <2>2. calls[n].v \in OnStack /\ calls[n].rest \subseteq adj[calls[n].v]
    BY <1>6, <2>1 DEF CallsInv
  <2> QED BY <1>10, <2>1, <2>2 DEF RootInv
<1>11. RootInv'
  <2>1. Len(stack') > 0 /\ calls' # << >>
    BY <1>3, <1>6, <1>8
  <2>2. CASE calls = << >>
    <3>1. n = 0 /\ m = 0
      BY <1>6, <2>2 DEF RootInv
    <3>2. stack'[1] = v /\ calls'[1].v = v /\ OnStack' = {v}
      BY <1>3, <1>8, <3>1, <1>4 DEF OnStack, ToSet
    <3>3. v \in Reaches(edges, v)
      BY <1>0, ReachesFrom DEF People
    <3>4. \A k \in 2 .. Len(stack') : stack'[k] # stack'[1]
      BY <1>3, <3>1
    <3> QED BY <1>0, <1>1, <1>2, <2>1, <3>2, <3>3, <3>4 DEF RootInv
  <2>3. CASE calls # << >>
    <3>1. stack'[1] = stack[1] /\ calls'[1].v = stack[1] /\ stack[1] \in OnStack /\ stack[1] \in Visited
      <4>1. n > 0 /\ m > 0 /\ calls[1].v = stack[1]
        BY <1>10, <2>3
      <4>2. 1 \in 1 .. n /\ 1 \in 1 .. m
        BY <1>3, <1>6, <4>1
      <4>3. stack'[1] = stack[1]
        BY <1>3, <4>2
      <4>4. calls'[1].v = stack[1]
        BY <1>6, <1>8, <4>1, <4>2
      <4>5. stack[1] \in OnStack /\ stack[1] \in Visited
        BY <1>0, <4>2 DEF OnStack, ToSet
      <4> QED BY <4>3, <4>4, <4>5
    <3>2. /\ OnStack \subseteq Reaches(edges, stack[1])
          /\ \A x \in OnStack : index[stack[1]] =< index[x] /\ index[stack[1]] =< lowlink[x]
          /\ lowlink[stack[1]] = index[stack[1]]
          /\ \A k \in 2 .. Len(stack) : stack[k] # stack[1]
      BY <1>10, <2>3 DEF RootInv
    <3>3. v \in Reaches(edges, stack[1])
      <4>1. calls[n].v \in People /\ calls[n].v \in Reaches(edges, stack[1])
        BY <1>0, <1>4, <1>10, <2>3, <3>2
      <4>2. <<calls[n].v, v>> \in Mutual(edges)
        BY <1>0, <1>10, <2>3, <4>1, AdjacencyIs DEF People
      <4>3. Closed(edges, Reaches(edges, stack[1]))
        BY <1>0, <3>1, ReachesFrom DEF People
      <4> QED BY <1>0, <4>1, <4>2, <4>3, ClosedIs
    <3>4. \A x \in OnStack' : index'[stack'[1]] =< index'[x] /\ index'[stack'[1]] =< lowlink'[x]
      <4>1. index[stack[1]] < counter /\ index[stack[1]] \in Nat
        BY <1>0, <3>1
      <4> QED BY <1>0, <1>2, <1>4, <3>1, <3>2, <4>1
    <3>5. \A k \in 2 .. Len(stack') : stack'[k] # stack'[1]
      <4> TAKE k \in 2 .. Len(stack')
      <4>1. k \in 2 .. m \/ k = m + 1
        BY <1>3
      <4>2. CASE k \in 2 .. m
        <5>1. k \in 1 .. m
          BY <4>2
        <5> QED BY <1>3, <3>1, <3>2, <4>2, <5>1
      <4>3. CASE k = m + 1
        BY <1>3, <1>4, <3>1, <4>3
      <4> QED BY <4>1, <4>2, <4>3
    <3> QED BY <1>1, <1>2, <1>4, <2>1, <3>1, <3>2, <3>3, <3>4, <3>5 DEF RootInv
  <2> QED BY <2>2, <2>3
<1>12. CallsInv'
  <2>1. ASSUME NEW k \in 1 .. n + 1
        PROVE  calls'[k].v \in OnStack' /\ calls'[k].rest \subseteq adj[calls'[k].v]
    <3>1. CASE k = n + 1
      BY <1>4, <1>8, <3>1
    <3>2. CASE k # n + 1
      <4>1. k \in 1 .. n
        BY <1>6, <3>2
      <4>2. calls[k].v \in OnStack /\ calls[k].rest \subseteq adj[calls[k].v]
        BY <1>6, <4>1 DEF CallsInv
      <4>3. calls'[k].v = calls[k].v /\ calls'[k].rest \subseteq calls[k].rest
        BY <1>8, <4>1
      <4> QED BY <1>4, <4>2, <4>3
    <3> QED BY <3>1, <3>2
  <2>2. ASSUME NEW k \in 2 .. n + 1
        PROVE  /\ calls'[k - 1].v \in adj[calls'[k].v]
               /\ index'[calls'[k - 1].v] < index'[calls'[k].v]
               /\ \/ calls'[k - 1].v \in calls'[k].rest
                  \/ lowlink'[calls'[k].v] =< index'[calls'[k - 1].v]
    <3>1. CASE k = n + 1
      <4>1. k - 1 = n /\ n \in 1 .. n /\ calls # << >>
        BY <1>6, <3>1
      <4>2. calls'[k - 1].v = calls[n].v /\ calls[n].v \in adj[v] /\ calls[n].v \in Visited
        <5>1. calls[n].v \in OnStack /\ v \in adj[calls[n].v]
          BY <1>10, <4>1
        <5>2. calls[n].v \in People
          BY <1>0, <1>4, <5>1
        <5> QED BY <1>0, <1>4, <1>8, <4>1, <5>1, <5>2, AdjacencyIs DEF People
      <4>3. index'[calls'[k - 1].v] < index'[v]
        BY <1>0, <1>2, <4>2
      <4> QED BY <1>8, <3>1, <4>2, <4>3
    <3>2. CASE k # n + 1
      <4>1. k \in 2 .. n /\ k \in 1 .. n /\ k - 1 \in 1 .. n /\ k - 1 # n
        BY <1>6, <3>2
      <4>2. /\ calls[k - 1].v \in adj[calls[k].v]
            /\ index[calls[k - 1].v] < index[calls[k].v]
            /\ calls[k - 1].v \in calls[k].rest \/ lowlink[calls[k].v] =< index[calls[k - 1].v]
            /\ calls[k].v \in Visited /\ calls[k - 1].v \in Visited
        BY <1>0, <1>4, <1>6, <4>1 DEF CallsInv
      <4>3. calls'[k].v = calls[k].v /\ calls'[k - 1].v = calls[k - 1].v
        BY <1>8, <4>1
      <4>4. calls[k - 1].v \in calls[k].rest => calls'[k - 1].v \in calls'[k].rest
        <5>1. calls[k - 1].v # v
          BY <4>2
        <5> QED BY <1>8, <4>1, <4>3, <5>1
      <4> QED BY <1>2, <4>2, <4>3, <4>4
    <3> QED BY <3>1, <3>2
  <2> QED BY <1>1, <1>8, <2>1, <2>2 DEF CallsInv
<1>13. VisitedInv'
  <2>1. ASSUME NEW k \in 1 .. n + 1 PROVE adj[calls'[k].v] \subseteq Visited' \cup calls'[k].rest
    <3>1. CASE k = n + 1
      BY <1>8, <3>1
    <3>2. CASE k # n + 1
      <4>1. k \in 1 .. n
        BY <1>6, <3>2
      <4>2. adj[calls[k].v] \subseteq Visited \cup calls[k].rest
        BY <1>6, <4>1 DEF VisitedInv
      <4>3. calls'[k].v = calls[k].v /\ calls[k].rest \subseteq calls'[k].rest \cup {v}
        BY <1>8, <4>1
      <4> QED BY <1>2, <4>2, <4>3
    <3> QED BY <3>1, <3>2
  <2>2. ASSUME NEW x \in Visited'
        PROVE  adj[x] \subseteq Visited' \/ \E k \in 1 .. n + 1 : calls'[k].v = x
    <3>1. CASE x = v
      <4>1. n + 1 \in 1 .. n + 1
        BY <1>6
      <4> QED BY <1>8, <3>1, <4>1
    <3>2. CASE x # v
      <4>1. x \in Visited
        BY <1>2, <3>2
      <4>2. adj[x] \subseteq Visited \/ \E k \in 1 .. n : calls[k].v = x
        BY <1>6, <4>1 DEF VisitedInv
      <4>3. CASE adj[x] \subseteq Visited
        BY <1>2, <4>3
      <4>4. ASSUME NEW k \in 1 .. n, calls[k].v = x PROVE \E j \in 1 .. n + 1 : calls'[j].v = x
        <5>1. k \in 1 .. n + 1 /\ calls'[k].v = x
          BY <1>6, <1>8, <4>4
        <5> QED BY <5>1
      <4> QED BY <4>2, <4>3, <4>4
    <3> QED BY <3>1, <3>2
  <2>3. \A x \in Off' : adj[x] \subseteq Off'
    BY <1>5 DEF VisitedInv
  <2> QED BY <1>1, <1>8, <2>1, <2>2, <2>3 DEF VisitedInv
<1>14. FoundInv'
  BY <1>1, <1>5 DEF FoundInv
<1> QED BY <1>9, <1>11, <1>12, <1>13, <1>14

\* Whoever is looked at again is on the stack, and the link is lowered to its index.
LEMMA MeetInv ==
    ASSUME SearchInv, Meet
    PROVE  SearchInv'
<1> USE DEF SearchInv
<1>0. /\ counter \in Nat /\ IsReport(edges) /\ adj = Adjacency(edges)
      /\ index \in [Visited -> Nat] /\ lowlink \in [Visited -> Nat]
      /\ Visited \subseteq People
      /\ stack \in Seq(Visited)
      /\ calls \in Seq([v : Visited, rest : SUBSET People])
  BY DEF SearchType
<1> DEFINE w == NextOf(Current)
           n == Len(calls)
           u == Current.v
<1>1. /\ calls # << >> /\ Current.rest # {} /\ w \in Visited /\ calls' = Passed(w)
      /\ lowlink' = IF w \in ToSet(stack) THEN Lower(u, index[w]) ELSE lowlink
      /\ UNCHANGED <<request, answer, adj, index, counter, stack, sccs>>
  BY DEF Meet
<1>2. /\ edges' = edges /\ People' = People /\ Visited' = Visited
      /\ OnStack' = OnStack /\ Off' = Off
  BY <1>1 DEF edges, People, Visited, OnStack, Off
<1>3. /\ calls' \in Seq([v : Visited, rest : SUBSET People])
      /\ Len(calls') = n /\ n \in Nat \ {0}
      /\ \A k \in 1 .. n : calls'[k].v = calls[k].v
      /\ \A k \in 1 .. n : calls'[k].rest = IF k = n THEN calls[k].rest \ {w} ELSE calls[k].rest
  BY <1>0, <1>1, PassedIs
<1>4. Current = calls[n] /\ n \in 1 .. n
  BY <1>3 DEF Current
<1>5. u \in OnStack /\ Current.rest \subseteq adj[u]
  BY <1>4 DEF CallsInv
<1>6. OnStack \subseteq Visited /\ u \in Visited
  <2>1. OnStack \subseteq Visited
    BY <1>0 DEF OnStack, ToSet
  <2> QED BY <1>5, <2>1
<1>7. w \in Current.rest /\ w \in adj[u]
  <2>1. w \in Current.rest
    BY <1>0, <1>1, <1>5, <1>6, NextOfIs
  <2> QED BY <1>5, <2>1
<1>8. w \in OnStack
  <2>1. u \in adj[w]
    BY <1>0, <1>6, <1>7, AdjacencyIs DEF People
  <2>2. w \in Off => u \in Off
    BY <2>1 DEF VisitedInv
  <2> QED BY <1>1, <1>5, <2>2 DEF Off
<1>9. /\ lowlink' \in [Visited -> Nat]
      /\ \A x \in Visited : x # u => lowlink'[x] = lowlink[x]
      /\ lowlink'[u] \in {lowlink[u], index[w]}
      /\ lowlink'[u] =< index[w] /\ lowlink'[u] =< lowlink[u]
  <2>1. lowlink' = Lower(u, index[w]) /\ index[w] \in Nat
    BY <1>0, <1>1, <1>8 DEF OnStack
  <2> HIDE DEF u, w
  <2> QED BY <1>0, <1>6, <2>1, LowerIs
<1> HIDE DEF w, n, u
<1>10. ASSUME NEW x \in Visited PROVE lowlink'[x] =< lowlink[x]
  <2>1. lowlink[x] \in Nat
    BY <1>0
  <2>2. x # u => lowlink'[x] = lowlink[x]
    BY <1>9
  <2> QED BY <1>9, <2>1, <2>2
<1>11. SearchType'
  BY <1>1, <1>2, <1>3, <1>9 DEF SearchType
<1>12. RootInv'
  <2>1. Len(stack) > 0 /\ calls[1].v = stack[1] /\ calls' # << >> /\ calls'[1].v = stack[1]
    <3>1. 1 \in 1 .. n
      BY <1>3
    <3>2. calls' # << >>
      BY <1>3
    <3> QED BY <1>1, <1>3, <3>1, <3>2 DEF RootInv
  <2>2. /\ OnStack \subseteq Reaches(edges, stack[1])
        /\ \A x \in OnStack : index[stack[1]] =< index[x] /\ index[stack[1]] =< lowlink[x]
        /\ lowlink[stack[1]] = index[stack[1]]
        /\ \A k \in 2 .. Len(stack) : stack[k] # stack[1]
    BY <2>1 DEF RootInv
  <2>3. stack[1] \in OnStack
    BY <1>0, <2>1 DEF OnStack, ToSet
  <2>4. index[stack[1]] =< index[w]
    BY <1>8, <2>2
  <2>5. ASSUME NEW x \in OnStack PROVE index[stack[1]] =< lowlink'[x]
    BY <1>0, <1>6, <1>9, <2>2, <2>4
  <2>6. lowlink'[stack[1]] = index[stack[1]]
    <3>1. lowlink'[stack[1]] \in Nat /\ lowlink'[stack[1]] =< lowlink[stack[1]]
          /\ index[stack[1]] \in Nat
      BY <1>0, <1>6, <1>9, <1>10, <2>3
    <3> QED BY <2>2, <2>3, <2>5, <3>1
  <2> QED BY <1>1, <1>2, <2>1, <2>2, <2>5, <2>6 DEF RootInv
<1>13. CallsInv'
  <2>1. ASSUME NEW k \in 1 .. n
        PROVE  calls'[k].v \in OnStack /\ calls'[k].rest \subseteq adj[calls'[k].v]
    <3>1. calls[k].v \in OnStack /\ calls[k].rest \subseteq adj[calls[k].v]
      BY DEF CallsInv, n
    <3> QED BY <1>3, <3>1
  <2>2. ASSUME NEW k \in 2 .. n
        PROVE  /\ calls'[k - 1].v \in adj[calls'[k].v]
               /\ index[calls'[k - 1].v] < index[calls'[k].v]
               /\ \/ calls'[k - 1].v \in calls'[k].rest
                  \/ lowlink'[calls'[k].v] =< index[calls'[k - 1].v]
    <3>1. k \in 1 .. n /\ k - 1 \in 1 .. n
      BY <1>3
    <3> DEFINE x == calls[k].v
               y == calls[k - 1].v
    <3>2. /\ y \in adj[x] /\ index[y] < index[x]
          /\ y \in calls[k].rest \/ lowlink[x] =< index[y]
      BY DEF CallsInv, n
    <3>3. calls'[k].v = x /\ calls'[k - 1].v = y /\ x \in Visited /\ y \in Visited
      <4>1. x \in OnStack /\ y \in OnStack
        BY <3>1 DEF CallsInv, n
      <4> QED BY <1>3, <1>6, <3>1, <4>1
    <3>4. y \in calls'[k].rest \/ lowlink'[x] =< index[y]
      <4>1. CASE y \in calls'[k].rest
        BY <4>1
      <4>2. CASE y \in calls[k].rest /\ y \notin calls'[k].rest
        <5>1. k = n /\ y = w
          BY <1>3, <3>1, <4>2
        <5>2. x = u
          BY <1>4, <5>1 DEF u
        <5> QED BY <1>9, <5>1, <5>2
      <4>3. CASE lowlink[x] =< index[y]
        <5>1. lowlink'[x] =< lowlink[x] /\ lowlink'[x] \in Nat /\ lowlink[x] \in Nat /\ index[y] \in Nat
          BY <1>0, <1>9, <1>10, <3>3
        <5> QED BY <4>3, <5>1
      <4> QED BY <3>2, <4>1, <4>2, <4>3
    <3> QED BY <3>2, <3>3, <3>4
  <2> QED BY <1>1, <1>2, <1>3, <2>1, <2>2 DEF CallsInv
<1>14. VisitedInv'
  <2>1. ASSUME NEW k \in 1 .. n PROVE adj[calls'[k].v] \subseteq Visited \cup calls'[k].rest
    <3>1. adj[calls[k].v] \subseteq Visited \cup calls[k].rest
      BY DEF VisitedInv, n
    <3> QED BY <1>1, <1>3, <3>1 DEF w
  <2>2. ASSUME NEW x \in Visited
        PROVE  adj[x] \subseteq Visited \/ \E k \in 1 .. n : calls'[k].v = x
    BY <1>3 DEF VisitedInv, n
  <2> QED BY <1>1, <1>2, <1>3, <2>1, <2>2 DEF VisitedInv
<1>15. FoundInv'
  BY <1>1, <1>2 DEF FoundInv
<1> QED BY <1>11, <1>12, <1>13, <1>14, <1>15

\* Whoever was called by another leaves the stack as it is; the root takes all of it off.
LEMMA LeaveInv ==
    ASSUME SearchInv, Leave
    PROVE  SearchInv'
<1> USE DEF SearchInv
<1>0. /\ counter \in Nat /\ IsReport(edges) /\ adj = Adjacency(edges)
      /\ index \in [Visited -> Nat] /\ lowlink \in [Visited -> Nat]
      /\ Visited \subseteq People
      /\ stack \in Seq(Visited)
      /\ calls \in Seq([v : Visited, rest : SUBSET People])
  BY DEF SearchType
<1> DEFINE n       == Len(calls)
           v       == Current.v
           depth   == CHOOSE k \in DOMAIN stack : stack[k] = v
           comp    == ToSet(SubSeq(stack, depth, Len(stack)))
           callers == SubSeq(calls, 1, n - 1)
<1>1. /\ calls # << >> /\ Current.rest = {} /\ calls' = callers
      /\ lowlink[v] # index[v] => UNCHANGED <<stack, sccs>>
      /\ lowlink[v] = index[v] =>
             /\ stack' = SubSeq(stack, 1, depth - 1)
             /\ sccs' = IF Cardinality(comp) >= 3 THEN sccs \cup {comp} ELSE sccs
      /\ callers = << >> => lowlink' = lowlink
      /\ callers # << >> => lowlink' = Lower(callers[Len(callers)].v, lowlink[v])
      /\ UNCHANGED <<request, answer, adj, index, counter>>
  BY DEF Leave
<1>2. edges' = edges /\ People' = People /\ Visited' = Visited
  BY <1>1 DEF edges, People, Visited
<1>3. /\ n \in Nat \ {0} /\ Current = calls[n]
      /\ \A k \in 1 .. n : calls[k] \in [v : Visited, rest : SUBSET People]
      /\ callers \in Seq([v : Visited, rest : SUBSET People]) /\ Len(callers) = n - 1
      /\ \A k \in 1 .. n - 1 : callers[k] = calls[k]
  <2> DEFINE Call == [v : Visited, rest : SUBSET People]
  <2>1. calls \in Seq(Call)
    BY <1>0
  <2> HIDE DEF Call
  <2>2. n \in Nat \ {0} /\ \A k \in 1 .. n : calls[k] \in Call
    BY <1>1, <2>1
  <2>3. callers = [k \in 1 .. n - 1 |-> calls[k]]
    BY <2>1, <2>2
  <2>4. callers \in Seq(Call) /\ Len(callers) = n - 1
    <3>1. \A k \in 1 .. n - 1 : calls[k] \in Call
      BY <2>2
    <3> HIDE DEF n, callers
    <3> QED BY <2>2, <2>3, <3>1
  <2> QED BY <2>2, <2>3, <2>4 DEF Current, Call
<1> HIDE DEF callers
<1>4. OnStack \subseteq Visited
  BY <1>0 DEF OnStack, ToSet
<1>5. v \in OnStack /\ v \in Visited /\ v = calls[n].v /\ calls[n].rest = {}
  BY <1>1, <1>3, <1>4 DEF CallsInv
<1>6. Len(stack) \in Nat \ {0} /\ DOMAIN stack = 1 .. Len(stack) /\ calls[1].v = stack[1]
  BY <1>0, <1>1 DEF RootInv
<1>7. /\ OnStack \subseteq Reaches(edges, stack[1])
      /\ \A x \in OnStack : index[stack[1]] =< index[x] /\ index[stack[1]] =< lowlink[x]
      /\ lowlink[stack[1]] = index[stack[1]]
      /\ \A k \in 2 .. Len(stack) : stack[k] # stack[1]
  BY <1>6 DEF RootInv
<1>8. adj[v] \subseteq Visited
  BY <1>3, <1>5 DEF VisitedInv
<1> HIDE DEF n, v
<1>9. CASE n > 1
  <2> DEFINE u == calls[n - 1].v
  <2>1. n - 1 \in 1 .. n /\ n \in 2 .. n
    BY <1>3, <1>9
  <2>2. u \in adj[v] /\ index[u] < index[v] /\ lowlink[v] =< index[u]
    BY <1>5, <2>1 DEF CallsInv, n
  <2>3. u \in OnStack /\ u \in Visited
    BY <1>4, <2>1 DEF CallsInv, n
  <2>4. lowlink[v] # index[v] /\ lowlink[v] \in Nat /\ index[u] \in Nat /\ index[v] \in Nat
    <3> HIDE DEF u
    <3>1. lowlink[v] \in Nat /\ index[u] \in Nat /\ index[v] \in Nat
      BY <1>0, <1>5, <2>3
    <3> QED BY <2>2, <3>1
  <2>5. stack' = stack /\ sccs' = sccs /\ OnStack' = OnStack /\ Off' = Off
    BY <1>1, <1>2, <2>4 DEF OnStack, Off
  <2>6. callers # << >> /\ callers[Len(callers)].v = u
    <3>1. n - 1 \in 1 .. n - 1
      BY <2>1
    <3> QED BY <1>3, <2>1, <3>1
  <2> HIDE DEF u
  <2>7. /\ lowlink' \in [Visited -> Nat]
        /\ \A x \in Visited : x # u => lowlink'[x] = lowlink[x]
        /\ lowlink'[u] \in {lowlink[u], lowlink[v]}
        /\ lowlink'[u] =< lowlink[u]
    <3>1. lowlink' = Lower(u, lowlink[v])
      BY <1>1, <2>6
    <3> DEFINE low == lowlink[v]
    <3>2. low \in Nat /\ lowlink' = Lower(u, low)
      BY <2>4, <3>1
    <3> HIDE DEF low
    <3>3. /\ Lower(u, low) \in [Visited -> Nat]
          /\ \A x \in Visited : x # u => Lower(u, low)[x] = lowlink[x]
          /\ Lower(u, low)[u] \in {lowlink[u], low}
          /\ Lower(u, low)[u] =< lowlink[u]
      BY <1>0, <2>3, <3>2, LowerIs
    <3> QED BY <3>2, <3>3 DEF low
  <2>8. ASSUME NEW x \in Visited PROVE lowlink'[x] =< lowlink[x]
    <3>1. lowlink[x] \in Nat
      BY <1>0
    <3>2. x # u => lowlink'[x] = lowlink[x]
      BY <2>7
    <3> QED BY <2>7, <3>1, <3>2
  <2>9. SearchType'
    BY <1>1, <1>2, <1>3, <2>5, <2>7 DEF SearchType
  <2>10. RootInv'
    <3>1. calls' # << >> /\ calls'[1].v = stack[1]
      <4>1. 1 \in 1 .. n - 1
        BY <2>1
      <4> QED BY <1>1, <1>3, <1>6, <2>6, <4>1
    <3>2. ASSUME NEW x \in OnStack PROVE index[stack[1]] =< lowlink'[x]
      BY <1>4, <1>5, <1>7, <2>7
    <3>3. lowlink'[stack[1]] = index[stack[1]]
      <4>1. stack[1] \in OnStack
        BY <1>6 DEF OnStack, ToSet
      <4>2. lowlink'[stack[1]] \in Nat /\ lowlink'[stack[1]] =< lowlink[stack[1]]
            /\ index[stack[1]] \in Nat
        BY <1>0, <1>4, <2>7, <2>8, <4>1
      <4> QED BY <1>7, <3>2, <4>1, <4>2
    <3> QED BY <1>1, <1>2, <1>6, <1>7, <2>5, <3>1, <3>2, <3>3 DEF RootInv
  <2>11. CallsInv'
    <3>1. ASSUME NEW k \in 1 .. n - 1
          PROVE  calls'[k].v \in OnStack /\ calls'[k].rest \subseteq adj[calls'[k].v]
      <4>1. k \in 1 .. n /\ calls'[k] = calls[k]
        BY <1>1, <1>3
      <4> QED BY <4>1 DEF CallsInv, n
    <3>2. ASSUME NEW k \in 2 .. n - 1
          PROVE  /\ calls'[k - 1].v \in adj[calls'[k].v]
                 /\ index[calls'[k - 1].v] < index[calls'[k].v]
                 /\ \/ calls'[k - 1].v \in calls'[k].rest
                    \/ lowlink'[calls'[k].v] =< index[calls'[k - 1].v]
      <4>1. /\ k \in 2 .. n /\ k \in 1 .. n /\ k - 1 \in 1 .. n
            /\ calls'[k] = calls[k] /\ calls'[k - 1] = calls[k - 1]
        <5>1. k \in 2 .. n /\ k \in 1 .. n - 1 /\ k \in 1 .. n /\ k - 1 \in 1 .. n - 1 /\ k - 1 \in 1 .. n
          BY <1>3
        <5> QED BY <1>1, <1>3, <5>1
      <4> DEFINE x == calls[k].v
                 y == calls[k - 1].v
      <4>2. /\ y \in adj[x] /\ index[y] < index[x]
            /\ y \in calls[k].rest \/ lowlink[x] =< index[y]
        BY <4>1 DEF CallsInv, n
      <4>3. x \in Visited /\ y \in Visited
        <5>1. x \in OnStack /\ y \in OnStack
          BY <4>1 DEF CallsInv, n
        <5> QED BY <1>4, <5>1
      <4>4. lowlink'[x] =< lowlink[x] /\ lowlink'[x] \in Nat /\ lowlink[x] \in Nat /\ index[y] \in Nat
        BY <1>0, <2>7, <2>8, <4>3
      <4> HIDE DEF x, y
      <4>5. y \in calls[k].rest \/ lowlink'[x] =< index[y]
        BY <4>2, <4>4
      <4> QED BY <4>1, <4>2, <4>5 DEF x, y
    <3> QED BY <1>1, <1>2, <1>3, <2>5, <3>1, <3>2 DEF CallsInv
  <2>12. VisitedInv'
    <3>1. ASSUME NEW k \in 1 .. n - 1 PROVE adj[calls'[k].v] \subseteq Visited \cup calls'[k].rest
      <4>1. k \in 1 .. n /\ calls'[k] = calls[k]
        BY <1>1, <1>3
      <4> QED BY <4>1 DEF VisitedInv, n
    <3>2. ASSUME NEW x \in Visited
          PROVE  adj[x] \subseteq Visited \/ \E k \in 1 .. n - 1 : calls'[k].v = x
      <4>1. adj[x] \subseteq Visited \/ \E k \in 1 .. n : calls[k].v = x
        BY DEF VisitedInv, n
      <4>2. CASE adj[x] \subseteq Visited
        BY <4>2
      <4>3. ASSUME NEW k \in 1 .. n, calls[k].v = x
            PROVE  adj[x] \subseteq Visited \/ \E j \in 1 .. n - 1 : calls'[j].v = x
        <5>1. CASE k = n
          BY <1>5, <1>8, <4>3, <5>1
        <5>2. CASE k # n
          <6>1. k \in 1 .. n - 1
            BY <1>3, <5>2
          <6>2. calls'[k].v = x
            BY <1>1, <1>3, <4>3, <6>1
          <6> QED BY <6>1, <6>2
        <5> QED BY <5>1, <5>2
      <4> QED BY <4>1, <4>2, <4>3
    <3> QED BY <1>1, <1>2, <1>3, <2>5, <3>1, <3>2 DEF VisitedInv
  <2>13. FoundInv'
    BY <1>2, <2>5 DEF FoundInv
  <2> QED BY <2>9, <2>10, <2>11, <2>12, <2>13
<1>10. CASE n = 1
  <2>1. v = stack[1] /\ callers = << >> /\ calls' = << >>
    <3>1. Len(callers) = 0
      BY <1>3, <1>10
    <3>2. callers = << >>
      BY <1>3, <3>1
    <3> QED BY <1>1, <1>5, <1>6, <1>10, <3>2
  <2>2. depth = 1
    <3>1. 1 \in DOMAIN stack /\ \A k \in DOMAIN stack : stack[k] = v <=> k = 1
      BY <1>6, <1>7, <2>1
    <3> QED BY <3>1
  <2>3. comp = OnStack
    <3>1. SubSeq(stack, 1, Len(stack)) = stack
      BY <1>0, <1>6
    <3> QED BY <2>2, <3>1 DEF OnStack
  <2>4. stack' = << >>
    <3>1. SubSeq(stack, 1, 0) = << >>
      BY <1>0
    <3>2. stack' = SubSeq(stack, 1, depth - 1)
      BY <1>1, <1>7, <2>1
    <3> HIDE DEF depth
    <3> QED BY <2>2, <3>1, <3>2
  <2>5. sccs' = IF Cardinality(OnStack) >= 3 THEN sccs \cup {OnStack} ELSE sccs
    BY <1>1, <1>7, <2>1, <2>3
  <2>6. OnStack' = {} /\ Off' = Visited
    <3>1. OnStack' = {}
      BY <2>4 DEF OnStack, ToSet
    <3> QED BY <1>2, <3>1 DEF Off
  <2>7. lowlink' = lowlink
    BY <1>1, <2>1
  <2>8. SearchType'
    <3>1. calls' \in Seq([v : Visited, rest : SUBSET People]) /\ stack' \in Seq(Visited)
      BY <2>1, <2>4
    <3> QED BY <1>1, <1>2, <2>7, <3>1 DEF SearchType
  <2>9. RootInv'
    <3>1. Len(stack') = 0
      BY <2>4
    <3> QED BY <2>1, <2>4, <3>1 DEF RootInv
  <2>10. CallsInv'
    <3>1. Len(calls') = 0
      BY <2>1
    <3> QED BY <3>1 DEF CallsInv
  <2>11. \A x \in Visited : adj[x] \subseteq Visited
    <3> TAKE x \in Visited
    <3>1. adj[x] \subseteq Visited \/ \E k \in 1 .. n : calls[k].v = x
      BY DEF VisitedInv, n
    <3>2. \A k \in 1 .. n : calls[k].v = v
      BY <1>5, <1>10
    <3> QED BY <1>8, <3>1, <3>2
  <2>12. VisitedInv'
    <3>1. Len(calls') = 0
      BY <2>1
    <3> QED BY <1>1, <1>2, <2>6, <2>11, <3>1 DEF VisitedInv
  <2>13. Closed(edges, OnStack)
    <3>1. ASSUME NEW a, NEW b, <<a, b>> \in Mutual(edges), a \in OnStack PROVE b \in OnStack
      <4>1. a \in People /\ a \in Visited
        BY <1>0, <1>4, <3>1
      <4>2. b \in adj[a] /\ a \in adj[b]
        BY <1>0, <3>1, <4>1, AdjacencyIs DEF People
      <4>3. b \in Visited
        BY <2>11, <4>1, <4>2
      <4>4. b \notin Off
        <5>1. b \in Off => a \in Off
          BY <4>2 DEF VisitedInv
        <5> QED BY <3>1, <5>1 DEF Off
      <4> QED BY <4>3, <4>4 DEF Off
    <3>2. OnStack \subseteq Participants(edges)
      BY <1>0, <1>4 DEF People
    <3> QED BY <1>0, <3>1, <3>2, ClosedIs
  <2>14. v \in Participants(edges)
    BY <1>0, <1>5 DEF People
  <2>15. OnStack = Reaches(edges, v)
    <3>1. OnStack \subseteq Reaches(edges, v)
      BY <1>7, <2>1
    <3>2. Reaches(edges, v) \subseteq OnStack
      BY <1>0, <1>5, <2>13, <2>14, ReachesFrom
    <3> QED BY <3>1, <3>2
  <2>16. \A x \in OnStack : Reaches(edges, x) = OnStack
    BY <1>0, <2>14, <2>15, ReachesFrom
  <2>17. {Reaches(edges, x) : x \in Visited} = {Reaches(edges, x) : x \in Off} \cup {OnStack}
    <3>1. Visited = Off \cup OnStack
      BY <1>4 DEF Off
    <3> QED BY <1>5, <2>16, <3>1
  <2>18. FoundInv'
    <3>1. sccs' = {c \in {Reaches(edges, x) : x \in Visited} : Cardinality(c) >= 3}
      BY <2>5, <2>17 DEF FoundInv
    <3> QED BY <1>2, <2>6, <3>1 DEF FoundInv
  <2> QED BY <2>8, <2>9, <2>10, <2>12, <2>18
<1> QED BY <1>3, <1>9, <1>10

RingsInv == request \in RingRequests /\ (SearchInv \/ (answer # None /\ RingsExact))

LEMMA FlagExact ==
    ASSUME SearchInv, Flag
    PROVE  answer' # None /\ RingsExact'
<1>1. /\ calls = << >> /\ Participants(edges) \subseteq Visited /\ request' = request
      /\ answer'.to = "rings" /\ answer'.components = sccs
  BY DEF Flag
<1>2. IsReport(edges) /\ Visited \subseteq People
  BY DEF SearchInv, SearchType
<1>3. Off = Participants(edges)
  <2>1. stack = << >>
    BY <1>1 DEF SearchInv, RootInv
  <2>2. OnStack = {}
    BY <2>1 DEF OnStack, ToSet
  <2> QED BY <1>1, <1>2, <2>2 DEF Off, People
<1>4. sccs = MutuallyReachable(edges)
  BY <1>2, <1>3, ClassesReached DEF SearchInv, FoundInv
<1> DEFINE n       == Len(edges)
           earlier == SubSeq(edges, 1, n - 1)
<1>5. ASSUME n > 0, \A k \in DOMAIN earlier : edges[n].avg_score =< edges[k].avg_score,
             NEW c \in MutuallyReachable(earlier)
      PROVE  \E d \in MutuallyReachable(edges) : c \subseteq d
  <2> DEFINE m == n - 1
  <2>1. edges \in Seq(Edge) /\ n \in Nat /\ m \in Nat /\ n = m + 1
    BY <1>2, <1>5 DEF IsReport
  <2>2. \A k \in 1 .. n : edges[k] \in Edge
    BY <2>1
  <2>3. earlier = [k \in 1 .. m |-> edges[k]]
    BY <2>1
  <2> HIDE DEF m
  <2>4. \A k \in 1 .. m : edges[k] \in Edge
    BY <2>1, <2>2
  <2> HIDE DEF n, earlier
  <2>5. earlier \in Seq(Edge) /\ DOMAIN earlier = 1 .. m /\ \A k \in 1 .. m : earlier[k] = edges[k]
    BY <2>1, <2>3, <2>4
  <2>6. \A k \in 1 .. m : edges[m + 1].avg_score =< earlier[k].avg_score
    BY <1>5, <2>1, <2>5
  <2>7. IsReport(earlier) /\ Len(edges) = m + 1
    BY <2>1, <2>5 DEF IsReport, n
  <2> QED BY <1>2, <1>5, <2>1, <2>3, <2>6, <2>7, RingsUndiluted
<1>6. answer' # None
  BY <1>1 DEF None
<1>7. edges' = edges
  BY <1>1 DEF edges
<1>8. MutuallyReachable(edges) = answer'.components
  BY <1>1, <1>4
<1> QED BY <1>5, <1>6, <1>7, <1>8 DEF RingsExact

LEMMA RingsInvariant == RingsSpec => []RingsInv
<1>1. request \in RingRequests /\ answer = None /\ SearchInit => RingsInv
  <2> SUFFICES ASSUME request \in RingRequests, answer = None, SearchInit PROVE SearchInv
    BY DEF RingsInv
  <2>1. request.to = "rings" /\ edges \in Seq(Edge)
    BY RingsAssumption DEF RingRequests, edges
  <2>2. /\ adj = Adjacency(edges) /\ index = << >> /\ lowlink = << >> /\ counter = 0
        /\ stack = << >> /\ sccs = {} /\ calls = << >>
    BY <2>1 DEF SearchInit, edges
  <2>3. Visited = {} /\ OnStack = {} /\ Off = {} /\ Len(stack) = 0 /\ Len(calls) = 0
    BY <2>2 DEF Visited, OnStack, Off, ToSet
  <2>4. index \in [Visited -> Nat] /\ lowlink \in [Visited -> Nat]
    BY <2>2, <2>3
  <2>5. stack \in Seq(Visited) /\ calls \in Seq([v : Visited, rest : SUBSET People])
    BY <2>2
  <2>6. SearchType
    BY <2>1, <2>2, <2>3, <2>4, <2>5 DEF SearchType, IsReport
  <2>7. RootInv /\ CallsInv /\ VisitedInv /\ FoundInv
    BY <2>2, <2>3 DEF RootInv, CallsInv, VisitedInv, FoundInv
  <2> QED BY <2>6, <2>7 DEF SearchInv
<1>2. RingsInv /\ [DetectRings]_<<vars, searchVars>> => RingsInv'
  <2> SUFFICES ASSUME RingsInv, [DetectRings]_<<vars, searchVars>> PROVE RingsInv'
    OBVIOUS
  <2>1. request \in RingRequests
    BY DEF RingsInv
  <2>2. ASSUME DetectRings PROVE SearchInv
    BY <2>2 DEF RingsInv, DetectRings, Begin, Descend, Meet, Leave, Flag, Searching
  <2>3. CASE Begin
    <3>1. SearchInv /\ NextRoot \in People /\ NextRoot \notin Visited
      BY <2>2, <2>3, NextRootIs DEF DetectRings, Begin, SearchInv, People
    <3>2. calls = << >> /\ Enter(NextRoot, << >>)
      BY <2>3 DEF Begin
    <3>3. SearchInv'
      BY <3>1, <3>2, EnterInv
    <3> QED BY <2>1, <3>2, <3>3 DEF RingsInv, Enter
  <2>4. CASE Descend
    <3> DEFINE w == NextOf(Current)
    <3>1. SearchInv /\ calls # << >> /\ Current.rest # {} /\ w \notin Visited /\ Enter(w, Passed(w))
      BY <2>2, <2>4 DEF DetectRings, Descend
    <3>2. /\ Current.v \in OnStack /\ Current.rest \subseteq adj[Current.v]
          /\ Current.v \in People /\ Current.rest \subseteq People
      <4> DEFINE Call == [v : Visited, rest : SUBSET People]
      <4>1. calls \in Seq(Call)
        BY <3>1 DEF SearchInv, SearchType
      <4> HIDE DEF Call
      <4>2. Len(calls) \in 1 .. Len(calls) /\ calls[Len(calls)] \in Call
        BY <3>1, <4>1
      <4> QED BY <3>1, <4>2 DEF SearchInv, SearchType, CallsInv, Current, Call
    <3>3. w \in Current.rest /\ w \in People
      BY <3>1, <3>2, NextOfIs DEF SearchInv
    <3> HIDE DEF w
    <3>4. SearchInv'
      BY <3>1, <3>3, EnterInv
    <3> QED BY <2>1, <3>1, <3>4 DEF RingsInv, Enter
  <2>5. CASE Meet
    BY <2>1, <2>2, <2>5, MeetInv DEF RingsInv, DetectRings, Meet
  <2>6. CASE Leave
    BY <2>1, <2>2, <2>6, LeaveInv DEF RingsInv, DetectRings, Leave
  <2>7. CASE Flag
    BY <2>1, <2>2, <2>7, FlagExact DEF RingsInv, DetectRings, Flag
  <2>8. CASE UNCHANGED <<vars, searchVars>>
    <3>1. /\ request' = request /\ answer' = answer
          /\ adj' = adj /\ index' = index /\ lowlink' = lowlink /\ counter' = counter
          /\ stack' = stack /\ sccs' = sccs /\ calls' = calls
      BY <2>8 DEF vars, searchVars
    <3>2. /\ edges' = edges /\ People' = People /\ Visited' = Visited
          /\ OnStack' = OnStack /\ Off' = Off
      BY <3>1 DEF edges, People, Visited, OnStack, Off
    <3>3. CASE SearchInv
      <4>1. SearchType'
        BY <3>1, <3>2, <3>3 DEF SearchInv, SearchType
      <4>2. RootInv' /\ CallsInv'
        BY <3>1, <3>2, <3>3 DEF SearchInv, RootInv, CallsInv
      <4>3. VisitedInv' /\ FoundInv'
        BY <3>1, <3>2, <3>3 DEF SearchInv, VisitedInv, FoundInv
      <4> QED BY <2>1, <3>1, <4>1, <4>2, <4>3 DEF RingsInv, SearchInv
    <3>4. CASE answer # None /\ RingsExact
      BY <2>1, <3>1, <3>2, <3>4 DEF RingsInv, RingsExact, Answered
    <3> QED BY <3>3, <3>4 DEF RingsInv
  <2> QED BY <2>3, <2>4, <2>5, <2>6, <2>7, <2>8 DEF DetectRings
<1> QED BY <1>1, <1>2, PTL DEF RingsSpec

\* The components that detectRings finds are the classes of mutual reachability, and a low
\* score added to any report takes nobody out of one: for any number of participants and
\* of edges, and any quantile.
THEOREM RingsFound == RingsSpec => []RingsExact
<1>1. RingsInv => RingsExact
  BY DEF RingsInv, SearchInv, SearchType, RingsExact, Answered, None
<1> QED BY <1>1, RingsInvariant, PTL

-----------------------------------------------------------------------------
(* The search ends: what it has still to do gets less with every step. *)

\* The participants to visit, the calls to return from, the neighbours to look at.
Unvisited  == People \ Visited
Unreturned == {v \in People : v \in Unvisited \/ \E k \in 1 .. Len(calls) : calls[k].v = v}
Unmet ==
    {p \in People \X People :
        \/ p[1] \in Unvisited /\ p[2] \in adj[p[1]]
        \/ \E k \in 1 .. Len(calls) : calls[k].v = p[1] /\ p[2] \in calls[k].rest}

ToDo == <<Unvisited, Unreturned, Unmet>>

Advances ==
    /\ Unvisited' \subseteq Unvisited /\ Unreturned' \subseteq Unreturned /\ Unmet' \subseteq Unmet
    /\ ToDo' # ToDo

LEMMA ToDoFinite ==
    ASSUME SearchInv
    PROVE  IsFiniteSet(Unvisited) /\ IsFiniteSet(Unreturned) /\ IsFiniteSet(Unmet)
<1>1. IsFiniteSet(People)
  BY ParticipantsFinite DEF SearchInv, SearchType, People
<1>2. IsFiniteSet(People \X People)
  BY <1>1, FS_Product
<1>3. /\ Unvisited \in SUBSET People /\ Unreturned \in SUBSET People
      /\ Unmet \in SUBSET (People \X People)
  BY DEF Unvisited, Unreturned, Unmet
<1> QED BY <1>1, <1>2, <1>3, FS_Subset

\* Nobody is called who is being called already.
LEMMA CallsApart ==
    ASSUME SearchInv, NEW k \in 1 .. Len(calls) - 1
    PROVE  calls[k].v # Current.v
<1> DEFINE n      == Len(calls)
           at(j)  == index[calls[j].v]
           Bad    == {d \in 1 .. n - 1 : ~ (at(n - d) < at(n))}
<1>1. /\ n \in Nat /\ \A j \in 1 .. n : at(j) \in Nat
      /\ \A j \in 2 .. n : at(j - 1) < at(j)
  <2> DEFINE Call == [v : Visited, rest : SUBSET People]
  <2>1. calls \in Seq(Call) /\ index \in [Visited -> Nat]
    BY DEF SearchInv, SearchType
  <2> HIDE DEF Call
  <2>2. n \in Nat /\ \A j \in 1 .. n : calls[j] \in Call
    BY <2>1
  <2>3. \A j \in 1 .. n : calls[j].v \in Visited
    BY <2>2 DEF Call
  <2> QED BY <2>1, <2>2, <2>3 DEF SearchInv, CallsInv
<1> HIDE DEF n, at
<1>2. ASSUME Bad # {} PROVE FALSE
  <2>1. Bad \subseteq Nat
    BY <1>1
  <2>2. PICK d \in Bad : \A u \in Bad : d =< u
    <3> HIDE DEF Bad
    <3> QED BY <1>2, <2>1, LeastExists
  <2>3. d \in 1 .. n - 1 /\ ~ (at(n - d) < at(n)) /\ d \in Nat
    BY <2>1, <2>2
  <2>4. CASE d = 1
    BY <1>1, <2>3, <2>4
  <2>5. CASE d # 1
    <3>0. d - 1 \in 1 .. n - 1
      BY <1>1, <2>3, <2>5
    <3>1. d - 1 \in 1 .. n - 1 /\ d - 1 \notin Bad
      <4> HIDE DEF Bad
      <4> QED BY <2>2, <2>3, <3>0
    <3>2. at(n - (d - 1)) < at(n)
      BY <3>1
    <3>3. n - (d - 1) \in 2 .. n /\ n - (d - 1) - 1 = n - d
      BY <1>1, <2>3, <2>5
    <3>4. at(n - (d - 1) - 1) < at(n - (d - 1))
      BY <1>1, <3>3
    <3> QED BY <1>1, <2>3, <3>2, <3>3, <3>4
  <2> QED BY <2>4, <2>5
<1>3. n - k \in 1 .. n - 1 /\ n - (n - k) = k /\ n \in 1 .. n /\ k \in 1 .. n
  BY <1>1 DEF n
<1>4. at(k) < at(n)
  <2>1. n - k \notin Bad
    BY <1>2
  <2> HIDE DEF Bad
  <2>2. at(n - (n - k)) < at(n)
    BY <1>3, <2>1 DEF Bad
  <2> QED BY <1>3, <2>2
<1>5. at(k) # at(n)
  BY <1>1, <1>3, <1>4
<1> QED BY <1>5 DEF at, n, Current

\* Whoever is entered was not visited, and its call has to look at whom it had.
LEMMA EnterAdvances ==
    ASSUME SearchInv, NEW v \in People, v \notin Visited, NEW callers, Enter(v, callers),
           \/ calls = << >> /\ callers = << >>
           \/ calls # << >> /\ v \in Current.rest /\ callers = Passed(v)
    PROVE  Advances
<1> DEFINE Call == [v : Visited, rest : SUBSET People]
           n    == Len(callers)
<1>1. /\ People' = People /\ adj' = adj /\ Visited' = Visited \cup {v}
      /\ calls' = Append(callers, [v |-> v, rest |-> adj[v]])
  BY DEF Enter, edges, People, Visited, Numbered
<1>2. calls \in Seq(Call)
  BY DEF SearchInv, SearchType
<1>3. /\ callers \in Seq(Call) /\ n \in Nat /\ n = Len(calls)
      /\ \A k \in 1 .. n : callers[k].v = calls[k].v /\ callers[k].rest \subseteq calls[k].rest
  <2>1. CASE calls = << >> /\ callers = << >>
    <3>1. callers \in Seq(Call)
      BY <1>2, <2>1
    <3>2. Len(callers) = 0 /\ Len(calls) = 0
      BY <2>1
    <3> QED BY <3>1, <3>2
  <2>2. CASE calls # << >> /\ callers = Passed(v)
    <3>1. Passed(v) \in Seq(Call) /\ Len(Passed(v)) = Len(calls) /\ Len(calls) \in Nat
      BY <1>2, <2>2, PassedIs
    <3>2. \A k \in 1 .. Len(calls) : Passed(v)[k].v = calls[k].v
      BY <1>2, <2>2, PassedIs
    <3>3. \A k \in 1 .. Len(calls) : Passed(v)[k].rest \subseteq calls[k].rest
      BY <1>2, <2>2, PassedIs
    <3> HIDE DEF Call
    <3> QED BY <2>2, <3>1, <3>2, <3>3
  <2> QED BY <2>1, <2>2
<1> HIDE DEF Call
<1>4. /\ Len(calls') = n + 1 /\ calls'[n + 1] = [v |-> v, rest |-> adj[v]]
      /\ \A k \in 1 .. n : calls'[k] = callers[k]
  <2> DEFINE call == [v |-> v, rest |-> adj[v]]
  <2>1. callers \in Seq(Call \cup {call})
    BY <1>3
  <2> HIDE DEF call, n
  <2> QED BY <1>1, <1>3, <2>1 DEF n, call
<1>5. Unvisited' = Unvisited \ {v} /\ v \in Unvisited
  BY <1>1 DEF Unvisited
<1>6. ASSUME NEW x \in Unreturned' PROVE x \in Unreturned
  BY <1>1, <1>3, <1>4, <1>5, <1>6 DEF Unreturned
<1>7. ASSUME NEW p \in Unmet' PROVE p \in Unmet
  <2>1. p \in People \X People
    BY <1>1, <1>7 DEF Unmet
  <2>2. CASE p[1] \in Unvisited' /\ p[2] \in adj[p[1]]
    BY <1>5, <2>1, <2>2 DEF Unmet
  <2>3. ASSUME NEW k \in 1 .. n + 1, calls'[k].v = p[1], p[2] \in calls'[k].rest
        PROVE  p \in Unmet
    <3>1. CASE k = n + 1
      BY <1>4, <1>5, <2>1, <2>3, <3>1 DEF Unmet
    <3>2. CASE k \in 1 .. n
      BY <1>3, <1>4, <2>1, <2>3, <3>2 DEF Unmet
    <3> QED BY <1>3, <2>3, <3>1, <3>2
  <2> QED BY <1>1, <1>4, <1>7, <2>2, <2>3 DEF Unmet
<1> QED BY <1>5, <1>6, <1>7 DEF Advances, ToDo

\* Whoever has been looked at is not looked at by the same call again.
LEMMA MeetAdvances ==
    ASSUME SearchInv, Meet, NextOf(Current) \in Current.rest
    PROVE  Advances
<1> DEFINE Call == [v : Visited, rest : SUBSET People]
           n    == Len(calls)
           w    == NextOf(Current)
           p    == <<Current.v, w>>
<1>1. /\ People' = People /\ adj' = adj /\ Visited' = Visited
      /\ calls # << >> /\ calls' = Passed(w)
  BY DEF Meet, edges, People, Visited
<1>2. calls \in Seq(Call) /\ Visited \subseteq People
  BY DEF SearchInv, SearchType
<1>3. /\ Len(calls') = n /\ n \in Nat \ {0}
      /\ \A k \in 1 .. n : calls'[k].v = calls[k].v /\ calls'[k].rest \subseteq calls[k].rest
      /\ w \notin calls'[n].rest
  <2> HIDE DEF w
  <2>1. /\ Len(Passed(w)) = n /\ n \in Nat \ {0}
        /\ \A k \in 1 .. n : Passed(w)[k].v = calls[k].v
        /\ \A k \in 1 .. n :
               Passed(w)[k].rest = IF k = n THEN calls[k].rest \ {w} ELSE calls[k].rest
    BY <1>1, <1>2, PassedIs
  <2>2. n \in 1 .. n
    BY <2>1
  <2> QED BY <1>1, <2>1, <2>2
<1>4. n \in 1 .. n /\ Current = calls[n] /\ Current.v \in Visited /\ Current.rest \subseteq People
  <2> HIDE DEF Call
  <2>1. n \in 1 .. n /\ calls[n] \in Call
    BY <1>2, <1>3
  <2> QED BY <2>1 DEF Current, Call
<1> HIDE DEF Call, n, w
<1>5. Unvisited' = Unvisited
  BY <1>1 DEF Unvisited
<1>6. Unreturned' \subseteq Unreturned
  BY <1>1, <1>3, <1>5 DEF Unreturned, n
<1>7. Unmet' \subseteq Unmet
  BY <1>1, <1>3, <1>5 DEF Unmet, n
<1>8. w \in Current.rest /\ p \in People \X People /\ p[1] = Current.v /\ p[2] = w
  BY <1>2, <1>4 DEF w
<1> HIDE DEF p
<1>9. p \in Unmet
  BY <1>4, <1>8 DEF Unmet, n
<1>10. p \notin Unmet'
  <2>1. p[1] \notin Unvisited'
    BY <1>4, <1>5, <1>8 DEF Unvisited
  <2>2. \A k \in 1 .. n : ~ (calls'[k].v = p[1] /\ p[2] \in calls'[k].rest)
    <3> TAKE k \in 1 .. n
    <3>1. CASE k = n
      BY <1>3, <1>8, <3>1
    <3>2. CASE k # n
      <4>1. k \in 1 .. Len(calls) - 1
        BY <1>3, <3>2 DEF n
      <4> QED BY <1>3, <1>8, <4>1, CallsApart
    <3> QED BY <3>1, <3>2
  <2> QED BY <1>3, <2>1, <2>2 DEF Unmet
<1> QED BY <1>5, <1>6, <1>7, <1>9, <1>10 DEF Advances, ToDo

\* A call returns once.
LEMMA LeaveAdvances ==
    ASSUME SearchInv, Leave
    PROVE  Advances
<1> DEFINE Call == [v : Visited, rest : SUBSET People]
           n    == Len(calls)
<1>1. /\ People' = People /\ adj' = adj /\ Visited' = Visited
      /\ calls # << >> /\ calls' = SubSeq(calls, 1, n - 1)
  BY DEF Leave, edges, People, Visited
<1>2. calls \in Seq(Call) /\ Visited \subseteq People
  BY DEF SearchInv, SearchType
<1> HIDE DEF Call
<1>3. /\ n \in Nat \ {0} /\ Len(calls') = n - 1
      /\ \A k \in 1 .. n - 1 : calls'[k] = calls[k]
      /\ calls[n] \in Call
  <2>1. n \in Nat \ {0} /\ calls[n] \in Call
    BY <1>1, <1>2
  <2>2. SubSeq(calls, 1, n - 1) = [k \in 1 .. n - 1 |-> calls[k]]
    BY <1>2, <2>1
  <2>3. Len(SubSeq(calls, 1, n - 1)) = n - 1 /\ \A k \in 1 .. n - 1 : SubSeq(calls, 1, n - 1)[k] = calls[k]
    <3> DEFINE m == n - 1
    <3>1. m \in Nat
      BY <2>1
    <3> HIDE DEF m
    <3> QED BY <2>2, <3>1 DEF m
  <2> QED BY <1>1, <2>1, <2>3
<1>4. n \in 1 .. n /\ Current = calls[n] /\ Current.v \in Visited
  BY <1>3 DEF Current, Call
<1> HIDE DEF n
<1>5. Unvisited' = Unvisited
  BY <1>1 DEF Unvisited
<1>6. \A k \in 1 .. n - 1 : k \in 1 .. n
  BY <1>3
<1>7. Unreturned' \subseteq Unreturned
  BY <1>1, <1>3, <1>5, <1>6 DEF Unreturned, n
<1>8. Unmet' \subseteq Unmet
  BY <1>1, <1>3, <1>5, <1>6 DEF Unmet, n
<1>9. Current.v \in Unreturned
  BY <1>2, <1>4 DEF Unreturned, n
<1>10. Current.v \notin Unreturned'
  <2>1. Current.v \notin Unvisited'
    BY <1>4, <1>5 DEF Unvisited
  <2>2. \A k \in 1 .. n - 1 : calls'[k].v # Current.v
    BY <1>3, CallsApart DEF n
  <2> QED BY <1>3, <2>1, <2>2 DEF Unreturned
<1> QED BY <1>5, <1>7, <1>8, <1>9, <1>10 DEF Advances, ToDo

\* Until the answer every step of detectRings leaves less to do, of finitely much: it
\* cannot go on for ever, whatever the graph.
THEOREM SearchEnds ==
    RingsSpec => /\ [](answer = None => /\ IsFiniteSet(Unvisited) /\ IsFiniteSet(Unreturned)
                                       /\ IsFiniteSet(Unmet))
                 /\ [][answer' = None => Advances]_<<vars, searchVars>>
<1>1. RingsInv => (answer = None => /\ IsFiniteSet(Unvisited) /\ IsFiniteSet(Unreturned)
                                    /\ IsFiniteSet(Unmet))
  BY ToDoFinite DEF RingsInv
<1>2. RingsInv /\ [DetectRings]_<<vars, searchVars>>
         => [answer' = None => Advances]_<<vars, searchVars>>
  <2> SUFFICES ASSUME RingsInv, DetectRings, answer' = None PROVE Advances
    OBVIOUS
  <2>1. SearchInv
    BY DEF RingsInv, DetectRings, Begin, Descend, Meet, Leave, Flag, Searching
  <2>2. CASE Begin
    <3>1. NextRoot \in People /\ NextRoot \notin Visited
      BY <2>1, <2>2, NextRootIs DEF Begin, SearchInv, People
    <3>2. calls = << >> /\ Enter(NextRoot, << >>)
      BY <2>2 DEF Begin
    <3> QED BY <2>1, <3>1, <3>2, EnterAdvances
  <2>3. ASSUME calls # << >>, Current.rest # {}
        PROVE  NextOf(Current) \in Current.rest /\ NextOf(Current) \in People
    <3> DEFINE Call == [v : Visited, rest : SUBSET People]
    <3>1. calls \in Seq(Call)
      BY <2>1 DEF SearchInv, SearchType
    <3> HIDE DEF Call
    <3>2. Len(calls) \in 1 .. Len(calls) /\ calls[Len(calls)] \in Call
      BY <2>3, <3>1
    <3>3. /\ Current.rest \subseteq adj[Current.v]
          /\ Current.v \in People /\ Current.rest \subseteq People
      BY <2>1, <3>2 DEF SearchInv, SearchType, CallsInv, Current, Call
    <3> QED BY <2>1, <2>3, <3>3, NextOfIs DEF SearchInv
  <2>4. CASE Descend
    <3> DEFINE w == NextOf(Current)
    <3>1. calls # << >> /\ Current.rest # {} /\ w \notin Visited /\ Enter(w, Passed(w))
      BY <2>4 DEF Descend
    <3>2. w \in Current.rest /\ w \in People
      BY <2>3, <3>1
    <3> HIDE DEF w
    <3> QED BY <2>1, <3>1, <3>2, EnterAdvances
  <2>5. CASE Meet
    <3>1. NextOf(Current) \in Current.rest
      BY <2>3, <2>5 DEF Meet
    <3> QED BY <2>1, <2>5, <3>1, MeetAdvances
  <2>6. CASE Leave
    BY <2>1, <2>6, LeaveAdvances
  <2>7. CASE Flag
    BY <2>1, <2>7, FlagExact
  <2> QED BY <2>2, <2>4, <2>5, <2>6, <2>7 DEF DetectRings
<1> QED BY <1>1, <1>2, RingsInvariant, PTL DEF RingsSpec

=============================================================================
