--------------------------- MODULE SelectionProofs ---------------------------
(***************************************************************************)
(* Theorems about who is selected and in what order: the answers of the     *)
(* query language to any intent over any records, and the rankings of the   *)
(* match broker, for any number of candidates with any scores.              *)
(***************************************************************************)
EXTENDS Market, Query, FiniteSetTheorems, SequenceTheorems, WellFoundedInduction, TLAPS

\* A nonempty set of natural numbers has a least element.
LEMMA LeastExists ==
    ASSUME NEW T, T \subseteq Nat, T # {}
    PROVE  \E t \in T : \A u \in T : t =< u
<1> DEFINE R == OpToRel(<, Nat)
<1>1. IsWellFoundedOn(R, Nat)
  BY NatLessThanWellFounded
<1>2. PICK t \in T : \A u \in T : ~ (<<u, t>> \in R)
  <2> HIDE DEF R
  <2> QED BY <1>1, WFMin
<1>3. \A u \in T : ~ (u < t)
  BY <1>2 DEF OpToRel
<1> QED BY <1>3

\* A finite set of numbers that is not empty has a greatest element.
LEMMA GreatestExists ==
    ASSUME NEW T, T \subseteq Nat, IsFiniteSet(T), T # {}
    PROVE  \E t \in T : \A u \in T : t >= u
<1> DEFINE above(t) == {u \in T : u > t}
           Sizes    == {Cardinality(above(t)) : t \in T}
<1>1. \A t \in T : IsFiniteSet(above(t)) /\ Cardinality(above(t)) \in Nat
  <2> TAKE t \in T
  <2>1. above(t) \in SUBSET T
    OBVIOUS
  <2> HIDE DEF above
  <2> QED BY <2>1, FS_Subset, FS_CardinalityType
<1>2. Sizes \subseteq Nat /\ Sizes # {}
  <2> HIDE DEF above
  <2> QED BY <1>1
<1>3. PICK n \in Sizes : \A m \in Sizes : n =< m
  <2> HIDE DEF Sizes
  <2> QED BY <1>2, LeastExists
<1>4. PICK t \in T : n = Cardinality(above(t))
  BY <1>3
<1>5. ASSUME NEW u \in T, u > t PROVE FALSE
  <2>1. above(u) \in SUBSET above(t) /\ u \in above(t) /\ u \notin above(u)
    <3>1. u \in Nat /\ t \in Nat /\ \A v \in T : v \in Nat
      OBVIOUS
    <3>2. \A v \in above(u) : v \in above(t)
      BY <1>5, <3>1
    <3>3. u \in above(t) /\ u \notin above(u)
      BY <1>5, <3>1
    <3> QED BY <3>2, <3>3
  <2>2. Cardinality(above(u)) \in Sizes
    OBVIOUS
  <2>3. n =< Cardinality(above(u))
    <3> HIDE DEF Sizes, above
    <3> QED BY <1>3, <2>2
  <2> HIDE DEF above
  <2>4. Cardinality(above(u)) =< Cardinality(above(t))
        /\ (Cardinality(above(t)) = Cardinality(above(u)) => above(t) = above(u))
    BY <1>1, <2>1, FS_Subset
  <2> QED BY <1>1, <1>4, <2>1, <2>3, <2>4
<1> QED BY <1>5

-----------------------------------------------------------------------------
(* Recursion and induction by a measure *)

\* What holds of x if it holds of all of smaller measure holds of everything.
LEMMA MeasureInduction ==
    ASSUME NEW D, NEW M, \A x \in D : M[x] \in Nat, NEW G,
           \A x \in D : (\A y \in D : M[y] < M[x] => y \in G) => x \in G
    PROVE  D \subseteq G
<1> SUFFICES ASSUME NEW x0 \in D, x0 \notin G PROVE FALSE
  OBVIOUS
<1> DEFINE Bad == {M[x] : x \in D \ G}
<1>1. Bad \subseteq Nat /\ Bad # {}
  OBVIOUS
<1>2. PICK t \in Bad : \A u \in Bad : t =< u
  <2> HIDE DEF Bad
  <2> QED BY <1>1, LeastExists
<1>3. PICK x \in D \ G : t = M[x]
  BY <1>2
<1>4. \A y \in D : M[y] < M[x] => y \in G
  <2> SUFFICES ASSUME NEW y \in D, M[y] < M[x], y \notin G PROVE FALSE
    OBVIOUS
  <2>1. t =< M[y]
    BY <1>2
  <2> QED BY <1>3, <2>1
<1> QED BY <1>3, <1>4

\* An equation for a function that says each value in terms of those of smaller measure
\* has a solution.
Recursive(R, D, V, M, n) ==
    /\ V # {} /\ n \in Nat /\ (\A x \in D : M[x] \in 0 .. n)
    /\ R \in [[D -> V] -> [D -> V]]
    /\ \A f, g \in [D -> V], x \in D :
           (\A y \in D : M[y] < M[x] => f[y] = g[y]) => R[f][x] = R[g][x]

LEMMA MeasureRecursion ==
    ASSUME NEW D, NEW V, NEW n, NEW M, NEW R, Recursive(R, D, V, M, n)
    PROVE  \E f \in [D -> V] : f = R[f]
<1>0. /\ V # {} /\ n \in Nat /\ (\A x \in D : M[x] \in 0 .. n)
      /\ R \in [[D -> V] -> [D -> V]]
      /\ \A f, g \in [D -> V], x \in D :
             (\A y \in D : M[y] < M[x] => f[y] = g[y]) => R[f][x] = R[g][x]
  BY DEF Recursive
<1> DEFINE Solves(f, m) == f \in [D -> V] /\ \A x \in D : M[x] < m => f[x] = R[f][x]
           Bad == {m \in Nat : ~ \E f : Solves(f, m)}
<1>1. ASSUME Bad # {} PROVE FALSE
  <2>1. PICK m \in Bad : \A u \in Bad : m =< u
    <3>1. Bad \subseteq Nat
      OBVIOUS
    <3> HIDE DEF Bad
    <3> QED BY <1>1, <3>1, LeastExists
  <2>2. m # 0
    <3>1. PICK v \in V : TRUE
      BY <1>0
    <3>2. Solves([x \in D |-> v], 0)
      BY <1>0
    <3> QED BY <3>2
  <2>3. m - 1 \in Nat /\ m - 1 \notin Bad
    <3>1. m \in Nat
      OBVIOUS
    <3> HIDE DEF Bad
    <3> QED BY <2>1, <2>2, <3>1
  <2>4. PICK f : Solves(f, m - 1)
    BY <2>3
  <2> DEFINE g == R[f]
  <2>5. g \in [D -> V]
    BY <1>0, <2>4
  <2>6. \A x \in D : M[x] < m - 1 => g[x] = f[x]
    BY <2>4
  <2>7. ASSUME NEW x \in D, M[x] < m PROVE g[x] = R[g][x]
    <3>1. \A y \in D : M[y] < M[x] => f[y] = g[y]
      <4> SUFFICES ASSUME NEW y \in D, M[y] < M[x] PROVE f[y] = g[y]
        OBVIOUS
      <4>1. M[y] \in Nat /\ M[x] \in Nat /\ m \in Nat
        BY <1>0
      <4>2. M[y] < m - 1
        BY <2>7, <4>1
      <4> QED BY <2>6, <4>2
    <3>2. R[f][x] = R[g][x]
      <4> HIDE DEF g
      <4> QED BY <1>0, <2>4, <2>5, <3>1
    <3> QED BY <3>2
  <2>8. Solves(g, m)
    <3> HIDE DEF g
    <3> QED BY <2>5, <2>7
  <2> QED BY <2>8
<1>2. PICK f : Solves(f, n + 1)
  <2>1. n + 1 \in Nat
    BY <1>0
  <2> QED BY <1>1, <2>1
<1>3. \A x \in D : M[x] < n + 1
  BY <1>0
<1>4. f \in [D -> V] /\ R[f] \in [D -> V] /\ \A x \in D : f[x] = R[f][x]
  BY <1>0, <1>2, <1>3
<1> QED BY <1>4

-----------------------------------------------------------------------------
(* What it is to follow a pointer *)

\* Segment k of the pointer leads from the first i keys of the path to the first i2.
Advance(path, hidden, pointer, k, i, i2) ==
    IF pointer[k] = Descendant THEN i =< i2 /\ \A l \in i + 1 .. i2 : path[l] \notin hidden
    ELSE /\ i2 = i + 1
         /\ IF pointer[k] = Star THEN path[i2] \notin hidden ELSE pointer[k] = path[i2]

Cutting(cut, path, hidden, pointer, j, j2) ==
    /\ cut \in [j .. j2 -> Nat]
    /\ \A k \in j + 1 .. j2 : Advance(path, hidden, pointer, k, cut[k - 1], cut[k])

\* The keys that wildcards do not stand for in records.
Aliases == DOMAIN Numeral

\* The segments after j and up to j2 lead from the first i keys to the first i2.
Leads(path, hidden, i, i2, pointer, j, j2) ==
    \E cut : Cutting(cut, path, hidden, pointer, j, j2) /\ cut[j] = i /\ cut[j2] = i2

LEMMA CutsInOrder ==
    ASSUME NEW path, NEW hidden, NEW pointer, NEW j \in Nat, NEW j2 \in Nat, j =< j2,
           NEW cut, Cutting(cut, path, hidden, pointer, j, j2), NEW k \in j .. j2
    PROVE  cut[j] =< cut[k] /\ cut[k] =< cut[j2] /\ cut[k] \in Nat
<1>1. \A l \in j .. j2 : cut[l] \in Nat
  BY DEF Cutting
<1>2. \A l \in j + 1 .. j2 : cut[l - 1] =< cut[l]
  <2> TAKE l \in j + 1 .. j2
  <2>1. Advance(path, hidden, pointer, l, cut[l - 1], cut[l]) /\ l - 1 \in j .. j2 /\ l \in j .. j2
    BY DEF Cutting
  <2>2. cut[l - 1] \in Nat /\ cut[l] \in Nat
    BY <1>1, <2>1
  <2> QED BY <2>1, <2>2 DEF Advance
<1> DEFINE up   == [l \in j .. j2 |-> l]
           down == [l \in j .. j2 |-> j2 - l]
           Low  == {l \in j .. j2 : cut[j] =< cut[l]}
           High == {l \in j .. j2 : cut[l] =< cut[j2]}
<1>3. j .. j2 \subseteq Low
  <2>1. \A l \in j .. j2 : up[l] \in Nat
    OBVIOUS
  <2>2. ASSUME NEW l \in j .. j2, \A y \in j .. j2 : up[y] < up[l] => y \in Low PROVE l \in Low
    <3>1. CASE l = j
      BY <1>1, <3>1
    <3>2. CASE l # j
      <4>1. l - 1 \in Low /\ l \in j + 1 .. j2
        BY <2>2, <3>2
      <4>2. cut[l - 1] =< cut[l] /\ cut[l - 1] \in Nat /\ cut[l] \in Nat /\ cut[j] \in Nat
        BY <1>1, <1>2, <4>1
      <4> QED BY <4>1, <4>2
    <3> QED BY <3>1, <3>2
  <2>3. \A l \in j .. j2 : (\A y \in j .. j2 : up[y] < up[l] => y \in Low) => l \in Low
    BY <2>2
  <2> DEFINE D == j .. j2
  <2>4. (\A l \in D : up[l] \in Nat) /\ \A l \in D : (\A y \in D : up[y] < up[l] => y \in Low) => l \in Low
    BY <2>1, <2>3
  <2> HIDE DEF up, Low, D
  <2>5. D \subseteq Low
    BY <2>4, MeasureInduction
  <2> QED BY <2>5 DEF D
<1>4. j .. j2 \subseteq High
  <2>1. \A l \in j .. j2 : down[l] \in Nat
    OBVIOUS
  <2>2. ASSUME NEW l \in j .. j2, \A y \in j .. j2 : down[y] < down[l] => y \in High PROVE l \in High
    <3>1. CASE l = j2
      BY <1>1, <3>1
    <3>2. CASE l # j2
      <4>1. l + 1 \in High /\ l + 1 \in j + 1 .. j2 /\ (l + 1) - 1 = l
        BY <2>2, <3>2
      <4>2. cut[l] =< cut[l + 1]
        BY <1>2, <4>1
      <4>3. cut[l] \in Nat /\ cut[l + 1] \in Nat /\ cut[j2] \in Nat
        BY <1>1, <4>1
      <4> QED BY <4>1, <4>2, <4>3
    <3> QED BY <3>1, <3>2
  <2>3. \A l \in j .. j2 : (\A y \in j .. j2 : down[y] < down[l] => y \in High) => l \in High
    BY <2>2
  <2> DEFINE D == j .. j2
  <2>4. (\A l \in D : down[l] \in Nat) /\ \A l \in D : (\A y \in D : down[y] < down[l] => y \in High) => l \in High
    BY <2>1, <2>3
  <2> HIDE DEF down, High, D
  <2>5. D \subseteq High
    BY <2>4, MeasureInduction
  <2> QED BY <2>5 DEF D
<1> QED BY <1>1, <1>3, <1>4

LEMMA LeadsNowhere ==
    ASSUME NEW path, NEW hidden, NEW pointer, NEW i \in Nat, NEW i2 \in Nat, NEW j \in Nat
    PROVE  Leads(path, hidden, i, i2, pointer, j, j) <=> i = i2
<1>1. ASSUME i = i2 PROVE Leads(path, hidden, i, i2, pointer, j, j)
  <2>1. Cutting([k \in j .. j |-> i], path, hidden, pointer, j, j)
    BY DEF Cutting
  <2> QED BY <1>1, <2>1 DEF Leads
<1> QED BY <1>1 DEF Leads

LEMMA LeadsForward ==
    ASSUME NEW path, NEW hidden, NEW pointer, NEW i \in Nat, NEW i2 \in Nat,
           NEW j \in Nat, NEW j2 \in Nat, j < j2, Leads(path, hidden, i, i2, pointer, j, j2)
    PROVE  i =< i2
<1>1. PICK cut : Cutting(cut, path, hidden, pointer, j, j2) /\ cut[j] = i /\ cut[j2] = i2
  BY DEF Leads
<1>2. j =< j2 /\ j2 \in j .. j2
  OBVIOUS
<1>3. cut[j] =< cut[j2]
  BY <1>1, <1>2, CutsInOrder
<1> QED BY <1>1, <1>3

LEMMA LeadsLast ==
    ASSUME NEW path, NEW hidden, NEW pointer, NEW i \in Nat, NEW i2 \in Nat,
           NEW j \in Nat, NEW j2 \in Nat, j < j2
    PROVE  Leads(path, hidden, i, i2, pointer, j, j2) <=>
               \E i1 \in Nat : /\ Leads(path, hidden, i, i1, pointer, j, j2 - 1)
                               /\ Advance(path, hidden, pointer, j2, i1, i2)
<1>1. ASSUME Leads(path, hidden, i, i2, pointer, j, j2)
      PROVE  \E i1 \in Nat : /\ Leads(path, hidden, i, i1, pointer, j, j2 - 1)
                             /\ Advance(path, hidden, pointer, j2, i1, i2)
  <2>1. PICK cut : Cutting(cut, path, hidden, pointer, j, j2) /\ cut[j] = i /\ cut[j2] = i2
    BY <1>1 DEF Leads
  <2> DEFINE less == [k \in j .. j2 - 1 |-> cut[k]]
  <2>2. Cutting(less, path, hidden, pointer, j, j2 - 1)
    BY <2>1 DEF Cutting
  <2>3. less[j] = i /\ less[j2 - 1] = cut[j2 - 1] /\ cut[j2 - 1] \in Nat
    BY <2>1 DEF Cutting
  <2>4. Advance(path, hidden, pointer, j2, cut[j2 - 1], i2)
    BY <2>1 DEF Cutting
  <2> HIDE DEF less
  <2> QED BY <2>2, <2>3, <2>4 DEF Leads
<1>2. ASSUME NEW i1 \in Nat, Leads(path, hidden, i, i1, pointer, j, j2 - 1), Advance(path, hidden, pointer, j2, i1, i2)
      PROVE  Leads(path, hidden, i, i2, pointer, j, j2)
  <2>1. PICK cut : Cutting(cut, path, hidden, pointer, j, j2 - 1) /\ cut[j] = i /\ cut[j2 - 1] = i1
    BY <1>2 DEF Leads
  <2> DEFINE more == [k \in j .. j2 |-> IF k = j2 THEN i2 ELSE cut[k]]
  <2>2. more \in [j .. j2 -> Nat]
    BY <2>1 DEF Cutting
  <2>3. \A k \in j + 1 .. j2 : Advance(path, hidden, pointer, k, more[k - 1], more[k])
    <3> TAKE k \in j + 1 .. j2
    <3>1. CASE k = j2
      <4>1. more[k - 1] = i1 /\ more[k] = i2
        BY <2>1, <3>1
      <4> HIDE DEF more
      <4> QED BY <1>2, <3>1, <4>1
    <3>2. CASE k # j2
      <4>1. more[k - 1] = cut[k - 1] /\ more[k] = cut[k] /\ k \in j + 1 .. j2 - 1
        BY <3>2
      <4> HIDE DEF more
      <4> QED BY <2>1, <4>1 DEF Cutting
    <3> QED BY <3>1, <3>2
  <2>4. more[j] = i /\ more[j2] = i2
    BY <2>1
  <2> HIDE DEF more
  <2> QED BY <2>2, <2>3, <2>4 DEF Leads, Cutting
<1> QED BY <1>1, <1>2

LEMMA LeadsFirst ==
    ASSUME NEW path, NEW hidden, NEW pointer, NEW i \in Nat, NEW i2 \in Nat,
           NEW j \in Nat, NEW j2 \in Nat, j < j2
    PROVE  Leads(path, hidden, i, i2, pointer, j, j2) <=>
               \E i1 \in Nat : /\ Advance(path, hidden, pointer, j + 1, i, i1)
                               /\ Leads(path, hidden, i1, i2, pointer, j + 1, j2)
<1>1. ASSUME Leads(path, hidden, i, i2, pointer, j, j2)
      PROVE  \E i1 \in Nat : /\ Advance(path, hidden, pointer, j + 1, i, i1)
                             /\ Leads(path, hidden, i1, i2, pointer, j + 1, j2)
  <2>1. PICK cut : Cutting(cut, path, hidden, pointer, j, j2) /\ cut[j] = i /\ cut[j2] = i2
    BY <1>1 DEF Leads
  <2> DEFINE less == [k \in j + 1 .. j2 |-> cut[k]]
  <2>2. Cutting(less, path, hidden, pointer, j + 1, j2)
    BY <2>1 DEF Cutting
  <2>3. less[j + 1] = cut[j + 1] /\ less[j2] = i2 /\ cut[j + 1] \in Nat
    BY <2>1 DEF Cutting
  <2>4. Advance(path, hidden, pointer, j + 1, i, cut[j + 1])
    <3>1. j + 1 \in j + 1 .. j2 /\ (j + 1) - 1 = j
      OBVIOUS
    <3> QED BY <2>1, <3>1 DEF Cutting
  <2> HIDE DEF less
  <2> QED BY <2>2, <2>3, <2>4 DEF Leads
<1>2. ASSUME NEW i1 \in Nat, Leads(path, hidden, i1, i2, pointer, j + 1, j2), Advance(path, hidden, pointer, j + 1, i, i1)
      PROVE  Leads(path, hidden, i, i2, pointer, j, j2)
  <2>1. PICK cut : Cutting(cut, path, hidden, pointer, j + 1, j2) /\ cut[j + 1] = i1 /\ cut[j2] = i2
    BY <1>2 DEF Leads
  <2> DEFINE more == [k \in j .. j2 |-> IF k = j THEN i ELSE cut[k]]
  <2>2. more \in [j .. j2 -> Nat]
    BY <2>1 DEF Cutting
  <2>3. \A k \in j + 1 .. j2 : Advance(path, hidden, pointer, k, more[k - 1], more[k])
    <3> TAKE k \in j + 1 .. j2
    <3>1. CASE k = j + 1
      <4>1. more[k - 1] = i /\ more[k] = i1
        BY <2>1, <3>1
      <4> HIDE DEF more
      <4> QED BY <1>2, <3>1, <4>1
    <3>2. CASE k # j + 1
      <4>1. more[k - 1] = cut[k - 1] /\ more[k] = cut[k] /\ k \in (j + 1) + 1 .. j2
        BY <3>2
      <4> HIDE DEF more
      <4> QED BY <2>1, <4>1 DEF Cutting
    <3> QED BY <3>1, <3>2
  <2>4. more[j] = i /\ more[j2] = i2
    BY <2>1
  <2> HIDE DEF more
  <2> QED BY <2>2, <2>3, <2>4 DEF Leads, Cutting
<1> QED BY <1>1, <1>2

\* What a path has after its first i2 keys does not matter.
LEMMA LeadsPrefix ==
    ASSUME NEW path, NEW path2, NEW hidden, NEW pointer, NEW i \in Nat, NEW i2 \in Nat,
           NEW j \in Nat, NEW j2 \in Nat, j =< j2, \A l \in 1 .. i2 : path[l] = path2[l],
           Leads(path, hidden, i, i2, pointer, j, j2)
    PROVE  Leads(path2, hidden, i, i2, pointer, j, j2)
<1>1. PICK cut : Cutting(cut, path, hidden, pointer, j, j2) /\ cut[j] = i /\ cut[j2] = i2
  BY DEF Leads
<1>2. \A k \in j .. j2 : cut[k] \in Nat /\ cut[k] =< i2
  BY <1>1, CutsInOrder
<1>3. ASSUME NEW k \in j + 1 .. j2
      PROVE  Advance(path2, hidden, pointer, k, cut[k - 1], cut[k])
  <2>1. Advance(path, hidden, pointer, k, cut[k - 1], cut[k])
    BY <1>1 DEF Cutting
  <2>2. k - 1 \in j .. j2 /\ k \in j .. j2
    OBVIOUS
  <2>3. cut[k - 1] \in Nat /\ cut[k] \in Nat /\ cut[k] =< i2
    BY <1>2, <2>2
  <2>4. cut[k] = cut[k - 1] + 1 => path[cut[k]] = path2[cut[k]]
    BY <2>3
  <2>5. \A l \in cut[k - 1] + 1 .. cut[k] : path[l] = path2[l]
    BY <2>3
  <2> QED BY <2>1, <2>4, <2>5 DEF Advance
<1> QED BY <1>1, <1>3 DEF Leads, Cutting

LEMMA FollowsIs ==
    ASSUME NEW path, Len(path) \in Nat, NEW hidden, NEW pointer, Len(pointer) \in Nat
    PROVE  Follows(path, pointer, hidden) <=> Leads(path, hidden, 0, Len(path), pointer, 0, Len(pointer))
<1> DEFINE n == Len(path)
           m == Len(pointer)
<1>1. ASSUME Follows(path, pointer, hidden) PROVE Leads(path, hidden, 0, n, pointer, 0, m)
  <2>1. PICK cut \in [0 .. m -> 0 .. n] :
           /\ cut[0] = 0 /\ cut[m] = n
           /\ \A k \in 1 .. m : Advance(path, hidden, pointer, k, cut[k - 1], cut[k])
    BY <1>1 DEF Follows, Advance
  <2>2. Cutting(cut, path, hidden, pointer, 0, m)
    BY <2>1 DEF Cutting
  <2> QED BY <2>1, <2>2 DEF Leads
<1>2. ASSUME Leads(path, hidden, 0, n, pointer, 0, m) PROVE Follows(path, pointer, hidden)
  <2>1. PICK cut : Cutting(cut, path, hidden, pointer, 0, m) /\ cut[0] = 0 /\ cut[m] = n
    BY <1>2 DEF Leads
  <2>2. \A k \in 0 .. m : cut[k] \in 0 .. n
    <3> TAKE k \in 0 .. m
    <3>1. 0 \in Nat /\ m \in Nat /\ 0 =< m /\ Cutting(cut, path, hidden, pointer, 0, m)
      BY <2>1
    <3>2. cut[0] =< cut[k] /\ cut[k] =< cut[m] /\ cut[k] \in Nat
      <4> HIDE DEF m
      <4> QED BY <3>1, CutsInOrder
    <3> QED BY <2>1, <3>2
  <2>3. cut \in [0 .. m -> 0 .. n]
    BY <2>1, <2>2 DEF Cutting
  <2>4. \A k \in 1 .. m : Advance(path, hidden, pointer, k, cut[k - 1], cut[k])
    BY <2>1 DEF Cutting
  <2> QED BY <2>1, <2>3, <2>4 DEF Follows, Advance
<1> QED BY <1>1, <1>2

-----------------------------------------------------------------------------
(* Trees *)

Starts(m, n) == Len(m) =< Len(n) /\ \A i \in 1 .. Len(m) : m[i] = n[i]

LEMMA PrefixIs ==
    ASSUME NEW K, NEW m \in Seq(K), NEW n \in Seq(K)
    PROVE  IsPrefix(m, n) <=> Starts(m, n)
<1>1. Len(m) \in Nat /\ Len(n) \in Nat
  OBVIOUS
<1>2. ASSUME Len(m) =< Len(n), \A i \in 1 .. Len(m) : m[i] = n[i]
      PROVE  SubSeq(m, 1, Len(m)) = SubSeq(n, 1, Len(m))
  BY <1>1, <1>2
<1>3. ASSUME Len(m) =< Len(n), SubSeq(m, 1, Len(m)) = SubSeq(n, 1, Len(m)), NEW i \in 1 .. Len(m)
      PROVE  m[i] = n[i]
  <2>1. SubSeq(m, 1, Len(m))[i] = m[i] /\ SubSeq(n, 1, Len(m))[i] = n[i]
    BY <1>1, <1>3
  <2> QED BY <1>3, <2>1
<1> QED BY <1>1, <1>2, <1>3 DEF IsPrefix, Starts

LEMMA FrontIs ==
    ASSUME NEW K, NEW n \in Seq(K), n # <<>>
    PROVE  /\ Len(n) \in Nat \ {0} /\ Front(n) \in Seq(K) /\ Len(Front(n)) = Len(n) - 1
           /\ \A i \in 1 .. Len(n) - 1 : Front(n)[i] = n[i]
           /\ Starts(Front(n), n)
<1>1. Len(n) \in Nat \ {0}
  OBVIOUS
<1> DEFINE k == Len(n) - 1
<1>2. 1 \in Int /\ k \in Int /\ \A i \in 1 .. k : n[i] \in K
  BY <1>1
<1>3. /\ Front(n) \in Seq(K) /\ Len(Front(n)) = Len(n) - 1
      /\ \A i \in 1 .. Len(n) - 1 : Front(n)[i] = n[i]
  <2>1. Front(n) = SubSeq(n, 1, k)
    BY DEF Front
  <2> HIDE DEF k
  <2>2. /\ SubSeq(n, 1, k) \in Seq(K)
        /\ Len(SubSeq(n, 1, k)) = IF 1 =< k THEN k - 1 + 1 ELSE 0
        /\ \A i \in 1 .. k - 1 + 1 : SubSeq(n, 1, k)[i] = n[1 + i - 1]
    BY <1>2, SubSeqProperties
  <2> DEFINE f == SubSeq(n, 1, k)
  <2>3. /\ f \in Seq(K) /\ Len(f) = IF 1 =< k THEN k - 1 + 1 ELSE 0
        /\ \A i \in 1 .. k - 1 + 1 : f[i] = n[1 + i - 1]
    BY <2>2
  <2> HIDE DEF f
  <2>4. Len(f) = k /\ \A i \in 1 .. k : f[i] = n[i]
    <3>1. k \in Nat /\ k - 1 + 1 = k /\ \A i \in 1 .. k : 1 + i - 1 = i
      BY <1>1 DEF k
    <3>2. Len(f) = k
      BY <2>3, <3>1
    <3> QED BY <2>3, <3>1, <3>2
  <2>5. Front(n) = f
    BY <2>1 DEF f
  <2> QED BY <2>3, <2>4, <2>5 DEF k
<1> QED BY <1>1, <1>3 DEF Starts

LEMMA SameStart ==
    ASSUME NEW K, NEW m \in Seq(K), NEW m2 \in Seq(K), NEW n,
           Starts(m, n), Starts(m2, n), Len(m) = Len(m2)
    PROVE  m = m2
<1>1. \A i \in 1 .. Len(m) : m[i] = m2[i]
  BY DEF Starts
<1> QED BY <1>1, SeqEqual

LEMMA ChildIs ==
    ASSUME NEW K, NEW tree, DOMAIN tree \subseteq Seq(K), NEW p \in Seq(K), NEW c
    PROVE  c \in Children(tree, p) <=> c \in DOMAIN tree /\ Len(c) = Len(p) + 1 /\ Starts(p, c)
<1> SUFFICES ASSUME c \in DOMAIN tree
             PROVE  c # <<>> /\ Front(c) = p <=> Len(c) = Len(p) + 1 /\ Starts(p, c)
  BY DEF Children
<1>1. c \in Seq(K) /\ Len(c) \in Nat /\ Len(p) \in Nat /\ (c = <<>> => Len(c) = 0)
  OBVIOUS
<1>2. ASSUME c # <<>>, Front(c) = p PROVE Len(c) = Len(p) + 1 /\ Starts(p, c)
  BY <1>1, <1>2, FrontIs
<1>3. ASSUME Len(c) = Len(p) + 1, Starts(p, c) PROVE c # <<>> /\ Front(c) = p
  <2>1. c # <<>>
    BY <1>1, <1>3
  <2>2. Front(c) \in Seq(K) /\ Len(Front(c)) = Len(p) /\ Starts(Front(c), c)
    BY <1>1, <1>3, <2>1, FrontIs
  <2>3. Front(c) = p
    BY <1>3, <2>2, SameStart
  <2> QED BY <2>1, <2>3
<1> QED BY <1>2, <1>3

\* The entries are the children that have no other numeral for a key, and what is below a
\* node is what can be reached by entries.
Plain(n, i, j) == \A l \in i .. j : n[l] \notin Aliases

LEMMA EntryIs ==
    ASSUME NEW record, DOMAIN record \subseteq Seq(Keys), NEW p \in Seq(Keys), NEW n
    PROVE  /\ n \in Entries(record, p) <=>
                  n \in Children(record, p) /\ n[Len(n)] \notin Aliases
           /\ n \in Below(record, p) <=>
                  n \in DOMAIN record /\ Starts(p, n) /\ Plain(n, Len(p) + 1, Len(n))
<1>1. n \in DOMAIN record => (IsPrefix(p, n) <=> Starts(p, n))
  BY PrefixIs
<1> QED BY <1>1 DEF Entries, Below, Last, Plain, Aliases

LEMMA TreeHeight ==
    ASSUME NEW tree, NEW K, NEW inner, IsTree(tree, K, inner)
    PROVE  \E h \in Nat : \A n \in DOMAIN tree : Len(n) \in 0 .. h
<1> DEFINE length  == [n \in DOMAIN tree |-> Len(n)]
           Lengths == {Len(n) : n \in DOMAIN tree}
<1>1. IsFiniteSet(Lengths)
  <2>1. IsFiniteSet(DOMAIN tree)
    BY DEF IsTree
  <2>2. length \in Surjection(DOMAIN tree, Lengths)
    BY DEF Surjection
  <2> HIDE DEF length, Lengths
  <2> QED BY <2>1, <2>2, FS_Surjection
<1>2. Lengths \subseteq Nat /\ Lengths # {}
  <2>1. <<>> \in DOMAIN tree /\ DOMAIN tree \subseteq Seq(K)
    BY DEF IsTree
  <2>2. \A n \in DOMAIN tree : Len(n) \in Nat
    BY <2>1
  <2>3. Len(<<>>) \in Lengths
    BY <2>1
  <2> QED BY <2>2, <2>3
<1>3. PICK h \in Lengths : \A u \in Lengths : h >= u
  <2> HIDE DEF Lengths
  <2> QED BY <1>1, <1>2, GreatestExists
<1>4. \A n \in DOMAIN tree : Len(n) \in Lengths
  OBVIOUS
<1>5. h \in Nat /\ \A n \in DOMAIN tree : Len(n) \in Nat /\ Len(n) =< h
  <2> HIDE DEF Lengths
  <2> QED BY <1>2, <1>3, <1>4
<1> QED BY <1>5

\* All that a node is below is there.
LEMMA Ancestors ==
    ASSUME NEW tree, NEW K, NEW inner, inner \subseteq DOMAIN tree, IsTree(tree, K, inner),
           NEW n \in DOMAIN tree, NEW j \in 0 .. Len(n) - 1
    PROVE  \E m \in inner : Len(m) = j /\ Starts(m, n)
<1> DEFINE D     == 0 .. Len(n) - 1
           M     == [l \in D |-> Len(n) - l]
           Fine  == {l \in D : \E m \in inner : Len(m) = l /\ Starts(m, n)}
<1>1. n \in Seq(K) /\ Len(n) \in Nat
  BY DEF IsTree
<1>2. \A l \in D : M[l] \in Nat
  BY <1>1
<1>3. ASSUME NEW l \in D, \A y \in D : M[y] < M[l] => y \in Fine PROVE l \in Fine
  <2>1. CASE l = Len(n) - 1
    <3>1. n # <<>>
      BY <1>1
    <3>2. Front(n) \in inner
      BY <3>1 DEF IsTree
    <3> QED BY <1>1, <2>1, <3>1, <3>2, FrontIs
  <2>2. CASE l # Len(n) - 1
    <3>1. l + 1 \in D /\ M[l + 1] < M[l]
      BY <1>1, <2>2
    <3>2. PICK m \in inner : Len(m) = l + 1 /\ Starts(m, n)
      BY <1>3, <3>1
    <3>3. m \in DOMAIN tree /\ m \in Seq(K) /\ m # <<>>
      BY <3>2 DEF IsTree
    <3>4. Front(m) \in inner
      BY <3>3 DEF IsTree
    <3>5. Len(Front(m)) = l /\ Starts(Front(m), n)
      BY <1>1, <3>2, <3>3, FrontIs DEF Starts
    <3> QED BY <3>4, <3>5
  <2> QED BY <2>1, <2>2
<1>4. \A l \in D : (\A y \in D : M[y] < M[l] => y \in Fine) => l \in Fine
  BY <1>3
<1> HIDE DEF M, Fine
<1>5. D \subseteq Fine
  <2> HIDE DEF D
  <2> QED BY <1>2, <1>4, MeasureInduction
<1> QED BY <1>5 DEF Fine

-----------------------------------------------------------------------------
(* The evaluator's resolvePath *)

LEMMA FollowIs ==
    ASSUME NEW record, NEW nodes, NEW head
    PROVE  /\ head = Star => Follow(record, nodes, head) = UNION {Entries(record, n) : n \in nodes}
           /\ head = Descendant =>
                  Follow(record, nodes, head) = UNION {collectAll(record, n) : n \in nodes}
           /\ head \notin {Star, Descendant} =>
                  Follow(record, nodes, head) = {Append(n, head) : n \in nodes} \cap DOMAIN record
           /\ Follow(record, nodes, head) \subseteq DOMAIN record
<1>1. \A n : Entries(record, n) \subseteq DOMAIN record /\ collectAll(record, n) \subseteq DOMAIN record
  BY DEF Children, Entries, collectAll, Below
<1>2. CASE head = Star
  <2>1. Follow(record, nodes, head) = UNION {Entries(record, n) : n \in nodes}
    BY <1>2 DEF Follow, Star, Descendant
  <2> QED BY <1>1, <1>2, <2>1 DEF Star, Descendant
<1>3. CASE head = Descendant
  <2>1. Follow(record, nodes, head) = UNION {collectAll(record, n) : n \in nodes}
    BY <1>3 DEF Follow, Star, Descendant
  <2> QED BY <1>1, <1>3, <2>1 DEF Star, Descendant
<1>4. CASE head \notin {Star, Descendant}
  <2>1. Follow(record, nodes, head) = {Append(n, head) : n \in nodes} \cap DOMAIN record
    BY <1>4 DEF Follow
  <2>2. head # Star /\ head # Descendant
    BY <1>4
  <2>3. Follow(record, nodes, head) \subseteq DOMAIN record
    BY <2>1
  <2> QED BY <2>1, <2>2, <2>3
<1> QED BY <1>2, <1>3, <1>4

\* resolvePath goes from set to set.
Resolves(w, record, pointer) ==
    /\ w[0] = {<<>>}
    /\ \A k \in 1 .. Len(pointer) : w[k] = Follow(record, w[k - 1], pointer[k])

LEMMA ResolveEquation ==
    ASSUME NEW record, <<>> \in DOMAIN record, NEW pointer, Len(pointer) \in Nat
    PROVE  \E w : resolvePath(record, pointer) = w[Len(pointer)] /\ Resolves(w, record, pointer)
<1> DEFINE D     == 0 .. Len(pointer)
           V     == SUBSET DOMAIN record
           E(w, k) == IF k = 0 THEN {<<>>} ELSE Follow(record, w[k - 1], pointer[k])
           R     == [w \in [D -> V] |-> [k \in D |-> E(w, k)]]
           M     == [k \in D |-> k]
           Is(w) == w = [k \in D |-> E(w, k)]
<1>1. R \in [[D -> V] -> [D -> V]]
  <2>1. ASSUME NEW w, NEW k \in D PROVE E(w, k) \in V
    <3>1. Follow(record, w[k - 1], pointer[k]) \in V
      BY FollowIs
    <3> QED BY <3>1
  <2> HIDE DEF E, V
  <2> QED BY <2>1
<1>2. ASSUME NEW f \in [D -> V], NEW g \in [D -> V], NEW x \in D,
             \A y \in D : M[y] < M[x] => f[y] = g[y]
      PROVE  R[f][x] = R[g][x]
  <2>1. x # 0 => x - 1 \in D /\ M[x - 1] < M[x]
    OBVIOUS
  <2>2. E(f, x) = E(g, x)
    BY <1>2, <2>1
  <2>3. R[f][x] = E(f, x) /\ R[g][x] = E(g, x)
    <3> HIDE DEF E, V, D
    <3> QED OBVIOUS
  <2> QED BY <2>2, <2>3
<1>3. \E w \in [D -> V] : w = R[w]
  <2>1. \A x \in D : M[x] \in 0 .. Len(pointer)
    OBVIOUS
  <2>2. \A f, g \in [D -> V], x \in D :
            (\A y \in D : M[y] < M[x] => f[y] = g[y]) => R[f][x] = R[g][x]
    BY <1>2
  <2> DEFINE n == Len(pointer)
  <2>3. V # {} /\ n \in Nat /\ \A x \in D : M[x] \in 0 .. n
    BY <2>1
  <2> HIDE DEF D, V, R, M, n
  <2>4. Recursive(R, D, V, M, n)
    BY <1>1, <2>2, <2>3 DEF Recursive
  <2> QED BY <2>4, MeasureRecursion
<1>4. \E w : Is(w)
  <2>1. PICK w \in [D -> V] : w = R[w]
    BY <1>3
  <2>2. R[w] = [k \in D |-> E(w, k)]
    <3> HIDE DEF E, V, D
    <3> QED OBVIOUS
  <2>3. Is(w)
    <3> HIDE DEF R, E
    <3> QED BY <2>1, <2>2
  <2> QED BY <2>3
<1> DEFINE it == CHOOSE w : Is(w)
<1>5. Is(it)
  <2> HIDE DEF Is
  <2> QED BY <1>4
<1>6. resolvePath(record, pointer) = it[Len(pointer)]
  BY DEF resolvePath
<1> HIDE DEF it
<1>7. \A k \in D : it[k] = E(it, k)
  BY <1>5
<1>8. Resolves(it, record, pointer)
  BY <1>7 DEF Resolves
<1> QED BY <1>6, <1>8

\* The nodes that are within k segments of the pointer.
Reached(record, pointer, k) ==
    {n \in DOMAIN record :
        /\ Leads(n, Aliases, 0, Len(n), pointer, 0, k)
        /\ k > 0 /\ pointer[k] = Descendant => record[n] # nil}

LEMMA RecordNodes ==
    ASSUME NEW record, IsRecord(record)
    PROVE  /\ <<>> \in DOMAIN record /\ DOMAIN record \subseteq Seq(Keys)
           /\ \A n \in DOMAIN record : n \in Seq(Keys) /\ Len(n) \in Nat
           /\ \A n \in DOMAIN record : \A j \in 0 .. Len(n) - 1 :
                  \E m \in DOMAIN record : record[m] # nil /\ Len(m) = j /\ Starts(m, n)
<1> DEFINE inner == {n \in DOMAIN record : record[n] \in {object, array}}
<1>1. IsTree(record, Keys, inner)
  BY DEF IsRecord
<1>2. <<>> \in DOMAIN record /\ DOMAIN record \subseteq Seq(Keys)
  BY <1>1 DEF IsTree
<1>3. inner \subseteq DOMAIN record
  OBVIOUS
<1>4. \A n \in DOMAIN record : \A j \in 0 .. Len(n) - 1 : \E m \in inner : Len(m) = j /\ Starts(m, n)
  <2> HIDE DEF inner
  <2> QED BY <1>1, <1>3, Ancestors
<1>5. \A m \in inner : m \in DOMAIN record /\ record[m] # nil
  BY DEF object, array, nil
<1> QED BY <1>2, <1>4, <1>5

\* An ancestor of a node within k segments of the pointer ...
LEMMA ReachedAbove ==
    ASSUME NEW record, IsRecord(record), NEW pointer, NEW k \in Nat,
           NEW n \in DOMAIN record, NEW i \in 0 .. Len(n), Leads(n, Aliases, 0, i, pointer, 0, k),
           i = Len(n) /\ k > 0 /\ pointer[k] = Descendant => record[n] # nil
    PROVE  \E m \in Reached(record, pointer, k) : Len(m) = i /\ Starts(m, n)
<1>1. Len(n) \in Nat
  BY RecordNodes
<1>2. CASE i = Len(n)
  BY <1>1, <1>2 DEF Reached, Starts
<1>3. CASE i # Len(n)
  <2>1. i \in 0 .. Len(n) - 1
    BY <1>1, <1>3
  <2>2. PICK m \in DOMAIN record : record[m] # nil /\ Len(m) = i /\ Starts(m, n)
    BY <2>1, RecordNodes
  <2>3. \A l \in 1 .. i : n[l] = m[l]
    BY <2>2 DEF Starts
  <2>4. Leads(m, Aliases, 0, i, pointer, 0, k)
    <3>1. 0 \in Nat /\ 0 =< k /\ i \in Nat
      BY <2>1
    <3> QED BY <2>3, <3>1, LeadsPrefix
  <2> QED BY <2>2, <2>4 DEF Reached
<1> QED BY <1>2, <1>3

\* ... and what is below it.
LEMMA ReachedBelow ==
    ASSUME NEW record, IsRecord(record), NEW pointer, NEW k \in Nat,
           NEW n, NEW m \in Reached(record, pointer, k), Starts(m, n)
    PROVE  Leads(n, Aliases, 0, Len(m), pointer, 0, k) /\ Len(m) \in Nat
<1>1. m \in DOMAIN record /\ Leads(m, Aliases, 0, Len(m), pointer, 0, k)
  BY DEF Reached
<1>2. Len(m) \in Nat
  BY <1>1, RecordNodes
<1>3. \A l \in 1 .. Len(m) : m[l] = n[l]
  BY DEF Starts
<1>4. 0 \in Nat /\ 0 =< k
  OBVIOUS
<1> QED BY <1>1, <1>2, <1>3, <1>4, LeadsPrefix

LEMMA FollowReached ==
    ASSUME NEW record, IsRecord(record), NEW pointer, NEW k \in Nat \ {0}
    PROVE  Follow(record, Reached(record, pointer, k - 1), pointer[k]) = Reached(record, pointer, k)
<1> DEFINE before == Reached(record, pointer, k - 1)
           head   == pointer[k]
<1>0. /\ k - 1 \in Nat /\ 0 \in Nat /\ 0 < k /\ k \in Nat
      /\ before \subseteq DOMAIN record
      /\ \A n \in DOMAIN record : n \in Seq(Keys) /\ Len(n) \in Nat
      /\ DOMAIN record \subseteq Seq(Keys)
  BY RecordNodes DEF Reached
<1>1. \A n \in DOMAIN record :
          Leads(n, Aliases, 0, Len(n), pointer, 0, k) <=>
              \E i \in Nat : Leads(n, Aliases, 0, i, pointer, 0, k - 1) /\ Advance(n, Aliases, pointer, k, i, Len(n))
  BY <1>0, LeadsLast
<1>2. CASE head # Descendant
  <2>1. ASSUME NEW n \in DOMAIN record
        PROVE  n \in Reached(record, pointer, k) <=>
                   \E m \in before : /\ Len(n) = Len(m) + 1 /\ Starts(m, n)
                                     /\ IF head = Star THEN n[Len(n)] \notin Aliases
                                        ELSE head = n[Len(n)]
    <3>1. n \in Reached(record, pointer, k) <=>
              \E i \in Nat : /\ Leads(n, Aliases, 0, i, pointer, 0, k - 1)
                             /\ Len(n) = i + 1
                             /\ IF head = Star THEN n[Len(n)] \notin Aliases ELSE head = n[Len(n)]
      BY <1>1, <1>2 DEF Reached, Advance
    <3>2. ASSUME NEW i \in Nat, Leads(n, Aliases, 0, i, pointer, 0, k - 1), Len(n) = i + 1
          PROVE  \E m \in before : Len(m) = i /\ Starts(m, n)
      <4>1. i \in 0 .. Len(n) /\ i # Len(n)
        BY <3>2
      <4> QED BY <1>0, <3>2, <4>1, ReachedAbove
    <3>3. ASSUME NEW m \in before, Starts(m, n)
          PROVE  Leads(n, Aliases, 0, Len(m), pointer, 0, k - 1) /\ Len(m) \in Nat
      BY <1>0, <3>3, ReachedBelow
    <3> HIDE DEF before, head
    <3> QED BY <3>1, <3>2, <3>3
  <2>2. CASE head = Star
    <3>1. Follow(record, before, head) = UNION {Entries(record, m) : m \in before}
      BY <2>2, FollowIs
    <3>2. \A m \in before : \A n : n \in Entries(record, m) <=>
              n \in DOMAIN record /\ Len(n) = Len(m) + 1 /\ Starts(m, n) /\ n[Len(n)] \notin Aliases
      <4> TAKE m \in before
      <4> TAKE n
      <4>1. m \in Seq(Keys)
        BY <1>0
      <4>2. n \in Children(record, m) <=> n \in DOMAIN record /\ Len(n) = Len(m) + 1 /\ Starts(m, n)
        BY <1>0, <4>1, ChildIs
      <4>3. n \in Entries(record, m) <=> n \in Children(record, m) /\ n[Len(n)] \notin Aliases
        BY <1>0, <4>1, EntryIs
      <4> QED BY <4>2, <4>3
    <3>3. Reached(record, pointer, k) \subseteq DOMAIN record
      BY DEF Reached
    <3> HIDE DEF before, head
    <3>4. \A n \in DOMAIN record : n \in Reached(record, pointer, k) <=>
              \E m \in before : /\ Len(n) = Len(m) + 1 /\ Starts(m, n)
                                /\ n[Len(n)] \notin Aliases
      BY <2>1, <2>2
    <3>5. Follow(record, before, head) = Reached(record, pointer, k)
      BY <3>1, <3>2, <3>3, <3>4
    <3> QED BY <3>5 DEF before, head
  <2>3. CASE head # Star
    <3>1. Follow(record, before, head) = {Append(m, head) : m \in before} \cap DOMAIN record
      BY <1>2, <2>3, FollowIs
    <3>2. ASSUME NEW m \in before, NEW n \in DOMAIN record
          PROVE  n = Append(m, head) <=>
                     Len(n) = Len(m) + 1 /\ Starts(m, n) /\ head = n[Len(n)]
      <4> HIDE DEF before, head
      <4> DEFINE S == Keys \cup {head}
      <4>1. n \in Seq(S) /\ m \in Seq(S) /\ head \in S /\ Len(n) \in Nat /\ Len(m) \in Nat
        <5>1. m \in Seq(Keys) /\ n \in Seq(Keys) /\ Keys \subseteq S
          BY <1>0, <3>2
        <5> HIDE DEF S
        <5>2. m \in Seq(S) /\ n \in Seq(S)
          BY <5>1, SeqMonotonic
        <5> QED BY <1>0, <5>2, LenProperties DEF S
      <4>2. /\ Append(m, head) \in Seq(S) /\ Len(Append(m, head)) = Len(m) + 1
            /\ \A l \in 1 .. Len(m) : Append(m, head)[l] = m[l]
            /\ Append(m, head)[Len(m) + 1] = head
        BY <4>1
      <4>3. ASSUME Len(n) = Len(m) + 1, Starts(m, n), head = n[Len(n)]
            PROVE  n = Append(m, head)
        <5>1. \A l \in 1 .. Len(n) : n[l] = Append(m, head)[l]
          BY <4>1, <4>2, <4>3 DEF Starts
        <5> HIDE DEF S
        <5> QED BY <4>1, <4>2, <4>3, <5>1, SeqEqual
      <4>4. ASSUME n = Append(m, head)
            PROVE  Len(n) = Len(m) + 1 /\ Starts(m, n) /\ head = n[Len(n)]
        BY <4>1, <4>2, <4>4 DEF Starts
      <4> QED BY <4>3, <4>4
    <3>3. Reached(record, pointer, k) \subseteq DOMAIN record
      BY DEF Reached
    <3> HIDE DEF before, head
    <3>4. Follow(record, before, head) = Reached(record, pointer, k)
      BY <1>2, <2>1, <2>3, <3>1, <3>2, <3>3
    <3> QED BY <3>4 DEF before, head
  <2> QED BY <2>2, <2>3
<1>3. CASE head = Descendant
  <2>1. Follow(record, before, head) = UNION {collectAll(record, m) : m \in before}
    BY <1>3, FollowIs
  <2>2. \A m \in before : \A n : n \in collectAll(record, m) <=>
            /\ n \in DOMAIN record /\ Starts(m, n) /\ Plain(n, Len(m) + 1, Len(n))
            /\ record[n] # nil
    <3> TAKE m \in before
    <3> TAKE n
    <3>1. m \in Seq(Keys)
      BY <1>0
    <3>2. n \in Below(record, m) <=>
              n \in DOMAIN record /\ Starts(m, n) /\ Plain(n, Len(m) + 1, Len(n))
      BY <1>0, <3>1, EntryIs
    <3>3. n \in Below(record, m) => n \in DOMAIN record
      BY <3>2
    <3> QED BY <3>2, <3>3 DEF collectAll
  <2>3. ASSUME NEW n \in DOMAIN record, record[n] # nil
        PROVE  n \in Reached(record, pointer, k) <=>
                   \E m \in before : Starts(m, n) /\ Plain(n, Len(m) + 1, Len(n))
    <3>1. n \in Reached(record, pointer, k) <=>
              \E i \in Nat : /\ Leads(n, Aliases, 0, i, pointer, 0, k - 1)
                             /\ i =< Len(n) /\ Plain(n, i + 1, Len(n))
      BY <1>1, <1>3, <2>3 DEF Reached, Advance, Plain
    <3>2. ASSUME NEW i \in Nat, Leads(n, Aliases, 0, i, pointer, 0, k - 1), i =< Len(n)
          PROVE  \E m \in before : Len(m) = i /\ Starts(m, n)
      <4>1. i \in 0 .. Len(n)
        BY <1>0, <3>2
      <4> QED BY <1>0, <2>3, <3>2, <4>1, ReachedAbove
    <3>3. ASSUME NEW m \in before, Starts(m, n)
          PROVE  Leads(n, Aliases, 0, Len(m), pointer, 0, k - 1) /\ Len(m) \in Nat /\ Len(m) =< Len(n)
      BY <1>0, <3>3, ReachedBelow DEF Starts
    <3> HIDE DEF before, head
    <3> QED BY <3>1, <3>2, <3>3
  <2>4. \A n \in Reached(record, pointer, k) : n \in DOMAIN record /\ record[n] # nil
    BY <1>0, <1>3 DEF Reached
  <2> HIDE DEF before, head
  <2>5. Follow(record, before, head) = Reached(record, pointer, k)
    BY <2>1, <2>2, <2>3, <2>4
  <2> QED BY <2>5 DEF before, head
<1> QED BY <1>2, <1>3

\* What the evaluator finds at the end of a pointer is what the pointer denotes: in any
\* record, for a pointer of any length.
THEOREM ResolvesDenoted ==
    ASSUME NEW record, IsRecord(record), NEW pointer, IsPointer(pointer)
    PROVE  resolvePath(record, pointer) = Denoted(record, pointer)
<1> DEFINE L == Len(pointer)
           D == 0 .. L
           M == [k \in D |-> k]
<1>1. L \in Nat /\ <<>> \in DOMAIN record /\ \A n \in DOMAIN record : Len(n) \in Nat /\ n \in Seq(Keys)
  BY RecordNodes DEF IsPointer
<1>0. PICK w : resolvePath(record, pointer) = w[Len(pointer)] /\ Resolves(w, record, pointer)
  BY <1>1, ResolveEquation
<1>2. /\ resolvePath(record, pointer) = w[L] /\ w[0] = {<<>>}
      /\ \A k \in 1 .. L : w[k] = Follow(record, w[k - 1], pointer[k])
  BY <1>0 DEF Resolves
<1> DEFINE Right == {k \in D : w[k] = Reached(record, pointer, k)}
<1>3. ASSUME NEW k \in D, \A y \in D : M[y] < M[k] => y \in Right PROVE k \in Right
  <2>1. CASE k = 0
    <3>1. \A n \in DOMAIN record : Leads(n, Aliases, 0, Len(n), pointer, 0, 0) <=> n = <<>>
      <4> TAKE n \in DOMAIN record
      <4>1. Leads(n, Aliases, 0, Len(n), pointer, 0, 0) <=> 0 = Len(n)
        BY <1>1, LeadsNowhere
      <4>2. n \in Seq(Keys)
        BY <1>1
      <4> QED BY <4>1, <4>2
    <3> QED BY <1>1, <1>2, <2>1, <3>1 DEF Reached
  <2>2. CASE k # 0
    <3>1. k - 1 \in Right /\ k \in 1 .. L /\ k \in Nat \ {0}
      BY <1>1, <1>3, <2>2
    <3>2. w[k] = Follow(record, Reached(record, pointer, k - 1), pointer[k])
      BY <1>2, <3>1
    <3> QED BY <3>1, <3>2, FollowReached
  <2> QED BY <2>1, <2>2
<1>4. D \subseteq Right
  <2>1. \A k \in D : (\A y \in D : M[y] < M[k] => y \in Right) => k \in Right
    BY <1>3
  <2>2. \A k \in D : M[k] \in Nat
    BY <1>1
  <2> HIDE DEF D, M, Right
  <2> QED BY <2>1, <2>2, MeasureInduction
<1>5. w[L] = Reached(record, pointer, L)
  BY <1>1, <1>4
<1>6. \A n \in DOMAIN record : Follows(n, pointer, Aliases) <=> Leads(n, Aliases, 0, Len(n), pointer, 0, L)
  BY <1>1, FollowsIs
<1>7. pointer # <<>> <=> L > 0
  BY <1>1 DEF IsPointer
<1> QED BY <1>2, <1>5, <1>6, <1>7 DEF Denoted, Reached, Last, Aliases

-----------------------------------------------------------------------------
(* The projection's collect *)

Sites(record, pointer) == (DOMAIN record) \X (0 .. Len(pointer))

\* What is collected from a node on after k segments, in terms of what is from others.
Collects(record, pointer, w, node, k) ==
    LET head == pointer[k + 1]
        from(nodes, j) == UNION {w[<<n, j>>] : n \in nodes}
    IN  CASE k = Len(pointer) -> {node}
          [] k < Len(pointer) /\ record[node] = nil -> {}
          [] k < Len(pointer) /\ record[node] # nil /\ head = Star ->
                from(Entries(record, node), k + 1)
          [] k < Len(pointer) /\ record[node] # nil /\ head = Descendant ->
                IF k + 1 = Len(pointer) THEN {node}
                ELSE from(Entries(record, node), k) \cup w[<<node, k + 1>>]
          [] k < Len(pointer) /\ record[node] # nil /\ head \notin {Star, Descendant} ->
                from({Append(node, head)} \cap DOMAIN record, k + 1)

\* The same, case by case.
Sifted(c, record, pointer, w, node, k) ==
    LET head == pointer[k + 1]
        L    == Len(pointer)
    IN  /\ k = L => c = {node}
        /\ k < L /\ record[node] = nil => c = {}
        /\ k < L /\ record[node] # nil /\ head = Star =>
               c = UNION {w[<<n, k + 1>>] : n \in Entries(record, node)}
        /\ k < L /\ record[node] # nil /\ head = Descendant /\ k + 1 = L => c = {node}
        /\ k < L /\ record[node] # nil /\ head = Descendant /\ k + 1 # L =>
               c = (UNION {w[<<n, k>>] : n \in Entries(record, node)}) \cup w[<<node, k + 1>>]
        /\ k < L /\ record[node] # nil /\ head \notin {Star, Descendant} =>
               c = UNION {w[<<n, k + 1>>] : n \in {Append(node, head)} \cap DOMAIN record}

LEMMA CollectsIs ==
    ASSUME NEW record, NEW pointer, Len(pointer) \in Nat, NEW w, NEW node,
           NEW k \in 0 .. Len(pointer)
    PROVE  Sifted(Collects(record, pointer, w, node, k), record, pointer, w, node, k)
<1> DEFINE L    == Len(pointer)
           head == pointer[k + 1]
<1>1. (k = L /\ ~(k < L)) \/ (k # L /\ k < L)
  OBVIOUS
<1>2. Star # Descendant
  BY DEF Star, Descendant
<1> HIDE DEF L, head
<1>3. CASE k = L /\ ~(k < L)
  BY <1>3 DEF Collects, Sifted, L
<1>4. CASE k # L /\ k < L /\ record[node] = nil
  BY <1>4 DEF Collects, Sifted, L
<1>5. CASE k # L /\ k < L /\ record[node] # nil /\ head = Star
  BY <1>2, <1>5 DEF Collects, Sifted, L, head
<1>6. CASE k # L /\ k < L /\ record[node] # nil /\ head = Descendant
  BY <1>2, <1>6 DEF Collects, Sifted, L, head
<1>7. CASE k # L /\ k < L /\ record[node] # nil /\ head \notin {Star, Descendant}
  BY <1>2, <1>7 DEF Collects, Sifted, L, head
<1>8. \/ k = L /\ ~(k < L)
      \/ k # L /\ k < L /\ record[node] = nil
      \/ k # L /\ k < L /\ record[node] # nil /\ head = Star
      \/ k # L /\ k < L /\ record[node] # nil /\ head = Descendant
      \/ k # L /\ k < L /\ record[node] # nil /\ head \notin {Star, Descendant}
  BY <1>1
<1> QED BY ONLY <1>8, <1>3, <1>4, <1>5, <1>6, <1>7


\* What is collected in a walk that goes from a node and segment to others.
Collected(w, record, pointer) ==
    \A node \in DOMAIN record : \A k \in 0 .. Len(pointer) :
        w[<<node, k>>] = Collects(record, pointer, w, node, k)

\* The children of a node, and what its keys name, are one level down.
LEMMA Down ==
    ASSUME NEW record, IsRecord(record), NEW node \in DOMAIN record
    PROVE  /\ Entries(record, node) \subseteq Children(record, node)
           /\ \A c \in Children(record, node) : c \in DOMAIN record /\ Len(c) = Len(node) + 1
           /\ \A head : \A c \in {Append(node, head)} \cap DOMAIN record : Len(c) = Len(node) + 1
           /\ \A head, c : c \in {Append(node, head)} \cap DOMAIN record <=>
                  /\ c \in DOMAIN record /\ Len(c) = Len(node) + 1
                  /\ Starts(node, c) /\ c[Len(c)] = head
<1>1. node \in Seq(Keys) /\ DOMAIN record \subseteq Seq(Keys) /\ Len(node) \in Nat
  BY RecordNodes
<1>2. \A c \in Children(record, node) : c \in DOMAIN record /\ Len(c) = Len(node) + 1
  BY <1>1, ChildIs
<1>3. ASSUME NEW head, NEW c \in DOMAIN record
      PROVE  c = Append(node, head) <=> Len(c) = Len(node) + 1 /\ Starts(node, c) /\ c[Len(c)] = head
  <2> DEFINE S == Keys \cup {head}
  <2>1. c \in Seq(S) /\ node \in Seq(S) /\ head \in S /\ Len(c) \in Nat
    <3>1. c \in Seq(Keys) /\ Keys \subseteq S
      BY <1>1
    <3> HIDE DEF S
    <3>2. node \in Seq(S) /\ c \in Seq(S)
      BY <1>1, <3>1, SeqMonotonic
    <3> QED BY <3>2, LenProperties DEF S
  <2>2. /\ Append(node, head) \in Seq(S) /\ Len(Append(node, head)) = Len(node) + 1
        /\ \A l \in 1 .. Len(node) : Append(node, head)[l] = node[l]
        /\ Append(node, head)[Len(node) + 1] = head
    BY <1>1, <2>1
  <2>3. ASSUME Len(c) = Len(node) + 1, Starts(node, c), c[Len(c)] = head
        PROVE  c = Append(node, head)
    <3>1. \A l \in 1 .. Len(c) : c[l] = Append(node, head)[l]
      BY <1>1, <2>1, <2>2, <2>3 DEF Starts
    <3> HIDE DEF S
    <3> QED BY <2>1, <2>2, <2>3, <3>1, SeqEqual
  <2>4. ASSUME c = Append(node, head)
        PROVE  Len(c) = Len(node) + 1 /\ Starts(node, c) /\ c[Len(c)] = head
    BY <1>1, <2>1, <2>2, <2>4 DEF Starts
  <2> QED BY <2>3, <2>4
<1> QED BY <1>2, <1>3 DEF Entries

LEMMA CollectEquation ==
    ASSUME NEW record, IsRecord(record), NEW pointer, Len(pointer) \in Nat
    PROVE  \E w : collect(record, pointer) = w[<< <<>>, 0 >>] /\ Collected(w, record, pointer)
<1> DEFINE L     == Len(pointer)
           D     == Sites(record, pointer)
           V     == SUBSET DOMAIN record
           E(w, at) == Collects(record, pointer, w, at[1], at[2])
           R     == [w \in [D -> V] |-> [at \in D |-> E(w, at)]]
           Is(w) == w = [at \in D |-> E(w, at)]
<1>0. PICK h \in Nat : \A node \in DOMAIN record : Len(node) \in 0 .. h
  BY TreeHeight DEF IsRecord
<1> DEFINE M == [at \in D |-> (h - Len(at[1])) + (L - at[2])]
           n == h + L
<1>1. /\ \A at \in D : at = <<at[1], at[2]>> /\ at[1] \in DOMAIN record /\ at[2] \in 0 .. L
      /\ \A node \in DOMAIN record : \A k \in 0 .. L :
             <<node, k>> \in D /\ <<node, k>>[1] = node /\ <<node, k>>[2] = k
      /\ L \in Nat /\ h \in Nat
  BY DEF Sites
<1>2. \A node \in DOMAIN record : \A k \in 0 .. L :
          <<node, k>> \in D /\ M[<<node, k>>] = (h - Len(node)) + (L - k)
  BY <1>1
<1>3. \A at \in D : M[at] \in 0 .. n
  BY <1>0, <1>1
<1> HIDE DEF D, L, M, n
<1>4. ASSUME NEW node \in DOMAIN record, NEW k \in 0 .. L,
             NEW f \in [D -> V], NEW g \in [D -> V],
             \A y \in D : M[y] < M[<<node, k>>] => f[y] = g[y]
      PROVE  /\ Collects(record, pointer, f, node, k) = Collects(record, pointer, g, node, k)
             /\ Collects(record, pointer, f, node, k) \in V
  <2> DEFINE head == pointer[k + 1]
             below == {Append(node, head)} \cap DOMAIN record
  <2>1. \A c \in Entries(record, node) : \A j \in {k, k + 1} : j \in 0 .. L =>
            f[<<c, j>>] = g[<<c, j>>] /\ f[<<c, j>>] \in V
    <3> SUFFICES ASSUME NEW c \in Entries(record, node), NEW j \in {k, k + 1}, j \in 0 .. L
                 PROVE  f[<<c, j>>] = g[<<c, j>>] /\ f[<<c, j>>] \in V
      OBVIOUS
    <3>1. c \in DOMAIN record /\ Len(c) = Len(node) + 1
      BY Down
    <3>2. Len(c) \in Nat /\ Len(node) \in Nat
      BY <1>0, <3>1
    <3>3. M[<<c, j>>] < M[<<node, k>>] /\ <<c, j>> \in D
      BY <1>1, <1>2, <3>1, <3>2
    <3> QED BY <1>4, <3>3
  <2>2. \A c \in below : k + 1 \in 0 .. L =>
            f[<<c, k + 1>>] = g[<<c, k + 1>>] /\ f[<<c, k + 1>>] \in V
    <3> SUFFICES ASSUME NEW c \in below, k + 1 \in 0 .. L
                 PROVE  f[<<c, k + 1>>] = g[<<c, k + 1>>] /\ f[<<c, k + 1>>] \in V
      OBVIOUS
    <3>1. c \in DOMAIN record /\ Len(c) = Len(node) + 1
      BY Down
    <3>2. Len(c) \in Nat /\ Len(node) \in Nat
      BY <1>0, <3>1
    <3>3. M[<<c, k + 1>>] < M[<<node, k>>] /\ <<c, k + 1>> \in D
      BY <1>1, <1>2, <3>1, <3>2
    <3> QED BY <1>4, <3>3
  <2>3. k + 1 \in 0 .. L => f[<<node, k + 1>>] = g[<<node, k + 1>>] /\ f[<<node, k + 1>>] \in V
    <3> SUFFICES ASSUME k + 1 \in 0 .. L
                 PROVE  f[<<node, k + 1>>] = g[<<node, k + 1>>] /\ f[<<node, k + 1>>] \in V
      OBVIOUS
    <3>1. Len(node) \in Nat
      BY <1>0
    <3>2. M[<<node, k + 1>>] < M[<<node, k>>] /\ <<node, k + 1>> \in D
      BY <1>1, <1>2, <3>1
    <3> QED BY <1>4, <3>2
  <2> DEFINE cf == Collects(record, pointer, f, node, k)
             cg == Collects(record, pointer, g, node, k)
  <2>40. Sifted(cf, record, pointer, f, node, k)
    BY CollectsIs DEF L
  <2>4. /\ k = L => cf = {node}
        /\ k < L /\ record[node] = nil => cf = {}
        /\ k < L /\ record[node] # nil /\ head = Star =>
               cf = UNION {f[<<c, k + 1>>] : c \in Entries(record, node)}
        /\ k < L /\ record[node] # nil /\ head = Descendant /\ k + 1 = L => cf = {node}
        /\ k < L /\ record[node] # nil /\ head = Descendant /\ k + 1 # L =>
               cf = (UNION {f[<<c, k>>] : c \in Entries(record, node)}) \cup f[<<node, k + 1>>]
        /\ k < L /\ record[node] # nil /\ head \notin {Star, Descendant} =>
               cf = UNION {f[<<c, k + 1>>] : c \in below}
    BY <2>40 DEF Sifted, L
  <2>50. Sifted(cg, record, pointer, g, node, k)
    BY CollectsIs DEF L
  <2>5. /\ k = L => cg = {node}
        /\ k < L /\ record[node] = nil => cg = {}
        /\ k < L /\ record[node] # nil /\ head = Star =>
               cg = UNION {g[<<c, k + 1>>] : c \in Entries(record, node)}
        /\ k < L /\ record[node] # nil /\ head = Descendant /\ k + 1 = L => cg = {node}
        /\ k < L /\ record[node] # nil /\ head = Descendant /\ k + 1 # L =>
               cg = (UNION {g[<<c, k>>] : c \in Entries(record, node)}) \cup g[<<node, k + 1>>]
        /\ k < L /\ record[node] # nil /\ head \notin {Star, Descendant} =>
               cg = UNION {g[<<c, k + 1>>] : c \in below}
    BY <2>50 DEF Sifted, L
  <2>6. \/ k = L
        \/ k < L /\ k + 1 \in 0 .. L
    BY <1>1
  <2> HIDE DEF head, below, cf, cg
  <2>7. CASE k = L
    BY <2>4, <2>5, <2>7 DEF cf, cg
  <2>8. CASE k < L /\ k + 1 \in 0 .. L /\ record[node] = nil
    BY <2>4, <2>5, <2>8 DEF cf, cg
  <2>9. CASE k < L /\ k + 1 \in 0 .. L /\ record[node] # nil /\ head = Star
    <3>1. {f[<<c, k + 1>>] : c \in Entries(record, node)} = {g[<<c, k + 1>>] : c \in Entries(record, node)}
      BY <2>1, <2>9
    <3>2. cf = UNION {f[<<c, k + 1>>] : c \in Entries(record, node)} /\ cg = cf
      BY <2>4, <2>5, <2>9, <3>1
    <3>3. cf \in V
      BY <2>1, <2>9, <3>2
    <3> QED BY <3>2, <3>3 DEF cf, cg
  <2>10. CASE k < L /\ k + 1 \in 0 .. L /\ record[node] # nil /\ head = Descendant
    <3>1. CASE k + 1 = L
      BY <2>4, <2>5, <2>10, <3>1 DEF cf, cg
    <3>2. CASE k + 1 # L
      <4>1. k \in {k, k + 1} /\ k \in 0 .. L
        BY <1>4
      <4>2. {f[<<c, k>>] : c \in Entries(record, node)} = {g[<<c, k>>] : c \in Entries(record, node)}
        BY <2>1, <4>1
      <4>3. cf = (UNION {f[<<c, k>>] : c \in Entries(record, node)}) \cup f[<<node, k + 1>>] /\ cg = cf
        BY <2>3, <2>4, <2>5, <2>10, <3>2, <4>2
      <4>4. cf \in V
        BY <2>1, <2>3, <2>10, <4>1, <4>3
      <4> QED BY <4>3, <4>4 DEF cf, cg
    <3> QED BY <3>1, <3>2
  <2>11. CASE k < L /\ k + 1 \in 0 .. L /\ record[node] # nil /\ head \notin {Star, Descendant}
    <3>1. {f[<<c, k + 1>>] : c \in below} = {g[<<c, k + 1>>] : c \in below}
      BY <2>2, <2>11
    <3>2. cf = UNION {f[<<c, k + 1>>] : c \in below} /\ cg = cf
      BY <2>4, <2>5, <2>11, <3>1
    <3>3. cf \in V
      BY <2>2, <2>11, <3>2
    <3> QED BY <3>2, <3>3 DEF cf, cg
  <2>12. \/ k = L
         \/ k < L /\ k + 1 \in 0 .. L /\ record[node] = nil
         \/ k < L /\ k + 1 \in 0 .. L /\ record[node] # nil /\ head = Star
         \/ k < L /\ k + 1 \in 0 .. L /\ record[node] # nil /\ head = Descendant
         \/ k < L /\ k + 1 \in 0 .. L /\ record[node] # nil /\ head \notin {Star, Descendant}
    BY <2>6
  <2> QED BY ONLY <2>12, <2>7, <2>8, <2>9, <2>10, <2>11
<1>5. ASSUME NEW f \in [D -> V], NEW x \in D PROVE E(f, x) \in V
  BY <1>1, <1>4
<1>6. R \in [[D -> V] -> [D -> V]]
  <2> HIDE DEF E, V
  <2> QED BY <1>5
<1>7. ASSUME NEW f \in [D -> V], NEW g \in [D -> V], NEW x \in D,
             \A y \in D : M[y] < M[x] => f[y] = g[y]
      PROVE  R[f][x] = R[g][x]
  <2>1. x[1] \in DOMAIN record /\ x[2] \in 0 .. L /\ x = <<x[1], x[2]>>
    BY <1>1
  <2>2. E(f, x) = E(g, x)
    <3> HIDE DEF V
    <3> QED BY <1>4, <1>7, <2>1
  <2>3. R[f][x] = E(f, x) /\ R[g][x] = E(g, x)
    <3> HIDE DEF E, V, D
    <3> QED OBVIOUS
  <2> QED BY <2>2, <2>3
<1>8. \E w \in [D -> V] : w = R[w]
  <2>1. {} \in V /\ n \in Nat
    BY <1>1 DEF n
  <2>2. \A f, g \in [D -> V], x \in D :
            (\A y \in D : M[y] < M[x] => f[y] = g[y]) => R[f][x] = R[g][x]
    BY <1>7
  <2> HIDE DEF V, R
  <2>3. Recursive(R, D, V, M, n)
    BY <1>3, <1>6, <2>1, <2>2 DEF Recursive
  <2> QED BY <2>3, MeasureRecursion
<1>9. \E w : Is(w)
  <2>1. PICK w \in [D -> V] : w = R[w]
    BY <1>8
  <2>2. R[w] = [at \in D |-> E(w, at)]
    <3> HIDE DEF E, V, D
    <3> QED OBVIOUS
  <2>3. Is(w)
    <3> HIDE DEF R, E
    <3> QED BY <2>1, <2>2
  <2> QED BY <2>3
<1> DEFINE it == CHOOSE w : Is(w)
<1>10. Is(it)
  <2> HIDE DEF Is
  <2> QED BY <1>9
<1>11. collect(record, pointer) = it[<< <<>>, 0 >>]
  BY DEF collect, Collects, Sites, D
<1> HIDE DEF it
<1>12. \A at \in D : it[at] = E(it, at)
  <2> HIDE DEF E
  <2> QED BY <1>10
<1>13. Collected(it, record, pointer)
  <2> SUFFICES ASSUME NEW node \in DOMAIN record, NEW k \in 0 .. L
               PROVE  it[<<node, k>>] = Collects(record, pointer, it, node, k)
    BY DEF Collected, L
  <2>1. it[<<node, k>>] = Collects(record, pointer, it, <<node, k>>[1], <<node, k>>[2])
    BY <1>1, <1>12
  <2> QED BY <1>1, <2>1
<1> QED BY <1>11, <1>13

\* A final descendant operator is not walked.
Walked(pointer) ==
    IF pointer # <<>> /\ Last(pointer) = Descendant THEN Len(pointer) - 1 ELSE Len(pointer)

\* What the pointer leads to from a node after k segments.
Gathered(record, pointer, node, k) ==
    {n \in DOMAIN record :
        /\ Starts(node, n)
        /\ Leads(n, Aliases, Len(node), Len(n), pointer, k, Walked(pointer))
        /\ Walked(pointer) < Len(pointer) => record[n] # nil}

LEMMA LeadsUp ==
    ASSUME NEW path, NEW hidden, NEW pointer, NEW i \in Nat, NEW i2 \in Nat,
           NEW j \in Nat, NEW j2 \in Nat, j =< j2, Leads(path, hidden, i, i2, pointer, j, j2)
    PROVE  i =< i2
<1>1. CASE j = j2
  BY <1>1, LeadsNowhere
<1>2. CASE j # j2
  BY <1>2, LeadsForward
<1> QED BY <1>1, <1>2

\* A pointer matters only for the segments that lead.
LEMMA LeadsSame ==
    ASSUME NEW path, NEW hidden, NEW pointer, NEW pointer2, NEW i, NEW i2, NEW j, NEW j2,
           \A k \in j + 1 .. j2 : pointer[k] = pointer2[k]
    PROVE  Leads(path, hidden, i, i2, pointer, j, j2) <=> Leads(path, hidden, i, i2, pointer2, j, j2)
<1>1. \A cut : Cutting(cut, path, hidden, pointer, j, j2) <=> Cutting(cut, path, hidden, pointer2, j, j2)
  BY DEF Cutting, Advance
<1> QED BY <1>1 DEF Leads

\* The next node on the way down to another, and what is below a child.
LEMMA Towards ==
    ASSUME NEW record, IsRecord(record), NEW node \in DOMAIN record, NEW n \in DOMAIN record
    PROVE  /\ Starts(node, n) /\ Len(node) # Len(n) =>
                  /\ record[node] # nil
                  /\ \E c \in Children(record, node) : Starts(c, n)
           /\ \A c \in Children(record, node) : Starts(c, n) =>
                  Starts(node, n) /\ n[Len(node) + 1] = c[Len(c)]
           /\ Starts(node, n) /\ Len(node) = Len(n) <=> n = node
<1>1. /\ node \in Seq(Keys) /\ n \in Seq(Keys) /\ DOMAIN record \subseteq Seq(Keys)
      /\ Len(node) \in Nat /\ Len(n) \in Nat
  BY RecordNodes
<1>2. \A c : c \in Children(record, node) <=>
          c \in DOMAIN record /\ Len(c) = Len(node) + 1 /\ Starts(node, c)
  BY <1>1, ChildIs
<1>3. ASSUME Starts(node, n), Len(node) # Len(n)
      PROVE  /\ record[node] # nil
             /\ \E c \in Children(record, node) : Starts(c, n)
  <2>1. Len(node) \in 0 .. Len(n) - 1
    BY <1>1, <1>3 DEF Starts
  <2>2. PICK m \in DOMAIN record : record[m] # nil /\ Len(m) = Len(node) /\ Starts(m, n)
    BY <2>1, RecordNodes
  <2>3. m = node
    BY <1>1, <1>3, <2>2, SameStart
  <2>4. CASE Len(n) = Len(node) + 1
    BY <1>1, <1>2, <1>3, <2>2, <2>3, <2>4 DEF Starts
  <2>5. CASE Len(n) # Len(node) + 1
    <3>1. Len(node) + 1 \in 0 .. Len(n) - 1
      BY <1>1, <2>1, <2>5
    <3>2. PICK c \in DOMAIN record : Len(c) = Len(node) + 1 /\ Starts(c, n)
      BY <3>1, RecordNodes
    <3>3. Starts(node, c)
      BY <1>1, <1>3, <3>2 DEF Starts
    <3> QED BY <1>2, <2>2, <2>3, <3>2, <3>3
  <2> QED BY <2>4, <2>5
<1>4. ASSUME NEW c \in Children(record, node), Starts(c, n)
      PROVE  Starts(node, n) /\ n[Len(node) + 1] = c[Len(c)]
  <2>1. Len(c) = Len(node) + 1 /\ Starts(node, c)
    BY <1>2
  <2> QED BY <1>1, <1>4, <2>1 DEF Starts
<1>5. Starts(node, n) /\ Len(node) = Len(n) <=> n = node
  <2>1. Starts(n, n)
    BY <1>1 DEF Starts
  <2>2. ASSUME Starts(node, n), Len(node) = Len(n) PROVE n = node
    BY <1>1, <2>1, <2>2, SameStart
  <2> QED BY <2>1, <2>2
<1> QED BY <1>3, <1>4, <1>5

\* What the walk makes of a node and a segment, if the nodes and segments it goes to are
\* right.
LEMMA GatheredStep ==
    ASSUME NEW record, IsRecord(record), NEW pointer, IsPointer(pointer), NEW w,
           Collected(w, record, pointer), NEW node \in DOMAIN record, NEW k \in 0 .. Walked(pointer),
           \A c \in DOMAIN record : \A j \in k .. Walked(pointer) :
               (c = node /\ j = k + 1) \/ (Len(c) = Len(node) + 1 /\ j \in {k, k + 1}) =>
                   w[<<c, j>>] = Gathered(record, pointer, c, j)
    PROVE  w[<<node, k>>] = Gathered(record, pointer, node, k)
<1> DEFINE L     == Len(pointer)
           last  == Walked(pointer)
           head  == pointer[k + 1]
           below == {Append(node, head)} \cap DOMAIN record
           it    == w[<<node, k>>]
           all   == Gathered(record, pointer, node, k)
<1>1. /\ L \in Nat /\ last \in Nat /\ last \in {L, L - 1} /\ k \in Nat /\ k \in 0 .. L
      /\ last = L - 1 <=> L > 0 /\ pointer[L] = Descendant
  BY DEF Walked, IsPointer, Last
<1>2. Len(node) \in Nat /\ \A n \in DOMAIN record : Len(n) \in Nat
  BY RecordNodes
<1>3. Sifted(it, record, pointer, w, node, k)
  <2>1. it = Collects(record, pointer, w, node, k)
    BY <1>1 DEF Collected
  <2>2. Sifted(Collects(record, pointer, w, node, k), record, pointer, w, node, k)
    BY <1>1, CollectsIs
  <2> HIDE DEF it
  <2> QED BY <2>1, <2>2
<1>4. /\ k = L => it = {node}
      /\ k < L /\ record[node] = nil => it = {}
      /\ k < L /\ record[node] # nil /\ head = Star =>
             it = UNION {w[<<c, k + 1>>] : c \in Entries(record, node)}
      /\ k < L /\ record[node] # nil /\ head = Descendant /\ k + 1 = L => it = {node}
      /\ k < L /\ record[node] # nil /\ head = Descendant /\ k + 1 # L =>
             it = (UNION {w[<<c, k>>] : c \in Entries(record, node)}) \cup w[<<node, k + 1>>]
      /\ k < L /\ record[node] # nil /\ head \notin {Star, Descendant} =>
             it = UNION {w[<<c, k + 1>>] : c \in below}
  BY <1>3 DEF Sifted
<1>5. \A n : n \in all <=>
          /\ n \in DOMAIN record /\ Starts(node, n)
          /\ Leads(n, Aliases, Len(node), Len(n), pointer, k, last)
          /\ last < L => record[n] # nil
  BY DEF Gathered
<1>6. \A c \in Children(record, node) : \A j \in {k, k + 1} : j =< last => \A n :
          n \in w[<<c, j>>] <=>
              /\ n \in DOMAIN record /\ Starts(c, n)
              /\ Leads(n, Aliases, Len(node) + 1, Len(n), pointer, j, last)
              /\ last < L => record[n] # nil
  <2> SUFFICES ASSUME NEW c \in Children(record, node), NEW j \in {k, k + 1}, j =< last, NEW n
               PROVE  n \in w[<<c, j>>] <=>
                          /\ n \in DOMAIN record /\ Starts(c, n)
                          /\ Leads(n, Aliases, Len(node) + 1, Len(n), pointer, j, last)
                          /\ last < L => record[n] # nil
    OBVIOUS
  <2>1. c \in DOMAIN record /\ Len(c) = Len(node) + 1
    BY Down
  <2>2. j \in k .. last
    BY <1>1
  <2>3. w[<<c, j>>] = Gathered(record, pointer, c, j)
    BY <2>1, <2>2
  <2>4. n \in Gathered(record, pointer, c, j) <=>
            /\ n \in DOMAIN record /\ Starts(c, n)
            /\ Leads(n, Aliases, Len(c), Len(n), pointer, j, last)
            /\ last < L => record[n] # nil
    BY DEF Gathered
  <2> QED BY <2>1, <2>3, <2>4
<1>7. k + 1 =< last => \A n :
          n \in w[<<node, k + 1>>] <=>
              /\ n \in DOMAIN record /\ Starts(node, n)
              /\ Leads(n, Aliases, Len(node), Len(n), pointer, k + 1, last)
              /\ last < L => record[n] # nil
  <2> SUFFICES ASSUME k + 1 =< last PROVE w[<<node, k + 1>>] = Gathered(record, pointer, node, k + 1)
    BY DEF Gathered
  <2>1. k + 1 \in k .. last
    BY <1>1
  <2> QED BY <2>1
<1>8. \A n \in DOMAIN record : k < last =>
          (Leads(n, Aliases, Len(node), Len(n), pointer, k, last) <=>
              \E i \in Nat : /\ Advance(n, Aliases, pointer, k + 1, Len(node), i)
                             /\ Leads(n, Aliases, i, Len(n), pointer, k + 1, last))
  BY <1>1, <1>2, LeadsFirst
<1>9. \A n \in DOMAIN record, i \in Nat :
          k < last /\ Leads(n, Aliases, i, Len(n), pointer, k + 1, last) => i =< Len(n)
  <2> SUFFICES ASSUME NEW n \in DOMAIN record, NEW i \in Nat, k < last,
                      Leads(n, Aliases, i, Len(n), pointer, k + 1, last)
               PROVE  i =< Len(n)
    OBVIOUS
  <2>1. k + 1 \in Nat /\ k + 1 =< last
    BY <1>1
  <2> QED BY <1>1, <1>2, <2>1, LeadsUp
<1>10. \A n \in DOMAIN record :
           /\ Starts(node, n) /\ Len(node) # Len(n) =>
                  /\ record[node] # nil
                  /\ \E c \in Children(record, node) : Starts(c, n)
           /\ \A c \in Children(record, node) : Starts(c, n) =>
                  Starts(node, n) /\ n[Len(node) + 1] = c[Len(c)]
           /\ Starts(node, n) /\ Len(node) = Len(n) <=> n = node
  BY Towards
<1>11. k < L /\ head # Descendant => k < last
  BY <1>1
<1>12. \A n \in DOMAIN record : k = last =>
           (Leads(n, Aliases, Len(node), Len(n), pointer, k, last) <=> Len(node) = Len(n))
  BY <1>1, <1>2, LeadsNowhere
<1>19. \A c : c \in Entries(record, node) <=>
           c \in Children(record, node) /\ c[Len(c)] \notin Aliases
  <2>1. node \in Seq(Keys) /\ DOMAIN record \subseteq Seq(Keys)
    BY RecordNodes
  <2> QED BY <2>1, EntryIs
<1>13. CASE k = L
  <2>1. \A n \in DOMAIN record : n \in all <=> n = node
    BY <1>1, <1>5, <1>10, <1>12, <1>13
  <2> HIDE DEF it, all
  <2>2. it = all
    BY <1>4, <1>5, <1>13, <2>1
  <2> QED BY <2>2 DEF it, all
<1>14. CASE k < L /\ record[node] = nil
  <2>1. ASSUME NEW n \in all PROVE FALSE
    <3>1. /\ n \in DOMAIN record /\ Starts(node, n)
          /\ Leads(n, Aliases, Len(node), Len(n), pointer, k, last)
          /\ last < L => record[n] # nil
      BY <1>5
    <3>2. n = node
      BY <1>10, <1>14, <3>1
    <3>3. last = L /\ k < last
      BY <1>1, <1>14, <3>1, <3>2
    <3>4. PICK i \in Nat : /\ Leads(n, Aliases, Len(node), i, pointer, k, last - 1)
                           /\ Advance(n, Aliases, pointer, last, i, Len(n))
      <4> HIDE DEF last
      <4> QED BY <1>1, <1>2, <3>1, <3>3, LeadsLast
    <3>5. Len(n) = i + 1
      BY <1>1, <3>3, <3>4 DEF Advance
    <3>6. Len(node) =< i
      <4>1. last - 1 \in Nat /\ k =< last - 1
        BY <1>1, <3>3
      <4> HIDE DEF last
      <4> QED BY <1>1, <1>2, <3>4, <4>1, LeadsUp
    <3> QED BY <1>2, <3>2, <3>5, <3>6
  <2> HIDE DEF it, all
  <2>2. it = all
    BY <1>4, <1>14, <2>1
  <2> QED BY <2>2 DEF it, all
<1>15. CASE k < L /\ record[node] # nil /\ head = Star
  <2>1. k < last /\ k + 1 =< last
    BY <1>1, <1>11, <1>15 DEF Star, Descendant
  <2>2. \A n \in DOMAIN record :
            Leads(n, Aliases, Len(node), Len(n), pointer, k, last)
            <=> /\ n[Len(node) + 1] \notin Aliases
                /\ Leads(n, Aliases, Len(node) + 1, Len(n), pointer, k + 1, last)
    <3> SUFFICES ASSUME NEW n \in DOMAIN record
                 PROVE  \A i \in Nat : Advance(n, Aliases, pointer, k + 1, Len(node), i) <=>
                            i = Len(node) + 1 /\ n[Len(node) + 1] \notin Aliases
      BY <1>2, <1>8, <2>1
    <3> QED BY <1>15 DEF Advance, Star, Descendant
  <2>3. ASSUME NEW n \in DOMAIN record, Starts(node, n),
               Leads(n, Aliases, Len(node) + 1, Len(n), pointer, k + 1, last)
        PROVE  \E c \in Children(record, node) : Starts(c, n)
    <3>1. Len(node) + 1 \in Nat /\ Len(node) \in Nat /\ Len(n) \in Nat
      BY <1>2
    <3>2. Len(node) + 1 =< Len(n)
      BY <1>9, <2>1, <2>3, <3>1
    <3>3. Len(node) # Len(n)
      BY <3>1, <3>2
    <3> QED BY <1>10, <2>3, <3>3
  <2>4. \A c \in Children(record, node) : \A n :
            n \in w[<<c, k + 1>>] <=>
                /\ n \in DOMAIN record /\ Starts(c, n)
                /\ Leads(n, Aliases, Len(node) + 1, Len(n), pointer, k + 1, last)
                /\ last < L => record[n] # nil
    BY <1>6, <2>1
  <2>5. it = UNION {w[<<c, k + 1>>] : c \in Entries(record, node)}
    BY <1>4, <1>15
  <2> HIDE DEF it, all, last, L
  <2>6. \A n : n \in it <=> \E c \in Entries(record, node) : n \in w[<<c, k + 1>>]
    BY <2>5
  <2>7. ASSUME NEW n \in it PROVE n \in all
    <3>1. PICK c \in Children(record, node) : n \in w[<<c, k + 1>>] /\ c[Len(c)] \notin Aliases
      BY <1>19, <2>6
    <3>2. n \in DOMAIN record /\ Starts(c, n)
      BY <2>4, <3>1
    <3>3. Starts(node, n) /\ n[Len(node) + 1] \notin Aliases
      BY <1>10, <3>1, <3>2
    <3> QED BY <1>5, <2>2, <2>4, <3>1, <3>2, <3>3
  <2>8. ASSUME NEW n \in all PROVE n \in it
    <3>1. /\ n \in DOMAIN record /\ Starts(node, n) /\ n[Len(node) + 1] \notin Aliases
          /\ Leads(n, Aliases, Len(node) + 1, Len(n), pointer, k + 1, last)
          /\ last < L => record[n] # nil
      BY <1>5, <2>2
    <3>2. PICK c \in Children(record, node) : Starts(c, n)
      BY <2>3, <3>1
    <3>3. c \in Entries(record, node)
      BY <1>10, <1>19, <3>1, <3>2
    <3> QED BY <2>4, <2>6, <3>1, <3>2, <3>3
  <2>9. it = all
    BY <2>7, <2>8
  <2> QED BY <2>9 DEF it, all
<1>16. CASE k < L /\ record[node] # nil /\ head \notin {Star, Descendant}
  <2>1. k < last /\ k + 1 =< last
    BY <1>1, <1>11, <1>16
  <2>2. \A n \in DOMAIN record :
            Leads(n, Aliases, Len(node), Len(n), pointer, k, last)
            <=> /\ n[Len(node) + 1] = head
                /\ Leads(n, Aliases, Len(node) + 1, Len(n), pointer, k + 1, last)
    <3> SUFFICES ASSUME NEW n \in DOMAIN record
                 PROVE  \A i \in Nat : Advance(n, Aliases, pointer, k + 1, Len(node), i) <=>
                            i = Len(node) + 1 /\ n[Len(node) + 1] = head
      BY <1>2, <1>8, <2>1
    <3> QED BY <1>16 DEF Advance
  <2>3. ASSUME NEW n \in DOMAIN record, Starts(node, n),
               Leads(n, Aliases, Len(node) + 1, Len(n), pointer, k + 1, last)
        PROVE  \E c \in Children(record, node) : Starts(c, n)
    <3>1. Len(node) + 1 \in Nat /\ Len(node) \in Nat /\ Len(n) \in Nat
      BY <1>2
    <3>2. Len(node) + 1 =< Len(n)
      BY <1>9, <2>1, <2>3, <3>1
    <3>3. Len(node) # Len(n)
      BY <3>1, <3>2
    <3> QED BY <1>10, <2>3, <3>3
  <2>4. \A c \in Children(record, node) : \A n :
            n \in w[<<c, k + 1>>] <=>
                /\ n \in DOMAIN record /\ Starts(c, n)
                /\ Leads(n, Aliases, Len(node) + 1, Len(n), pointer, k + 1, last)
                /\ last < L => record[n] # nil
    BY <1>6, <2>1
  <2>5. it = UNION {w[<<c, k + 1>>] : c \in below}
    BY <1>4, <1>16
  <2>6. \A c : c \in below <=> c \in Children(record, node) /\ c[Len(c)] = head
    <3>1. \A c : c \in below <=> /\ c \in DOMAIN record /\ Len(c) = Len(node) + 1
                                 /\ Starts(node, c) /\ c[Len(c)] = head
      <4>1. \A h, c : c \in {Append(node, h)} \cap DOMAIN record <=>
                          /\ c \in DOMAIN record /\ Len(c) = Len(node) + 1
                          /\ Starts(node, c) /\ c[Len(c)] = h
        BY Down
      <4> HIDE DEF head
      <4> QED BY <4>1
    <3>2. \A c : c \in Children(record, node) <=>
              c \in DOMAIN record /\ Len(c) = Len(node) + 1 /\ Starts(node, c)
      <4>1. node \in Seq(Keys) /\ DOMAIN record \subseteq Seq(Keys)
        BY RecordNodes
      <4> QED BY <4>1, ChildIs
    <3> HIDE DEF below
    <3> QED BY <3>1, <3>2
  <2> HIDE DEF it, all, last, L, below, head
  <2>7. \A n : n \in it <=> \E c \in Children(record, node) : n \in w[<<c, k + 1>>] /\ c[Len(c)] = head
    BY <2>5, <2>6
  <2>8. ASSUME NEW n \in it PROVE n \in all
    <3>1. PICK c \in Children(record, node) : n \in w[<<c, k + 1>>] /\ c[Len(c)] = head
      BY <2>7
    <3>2. /\ n \in DOMAIN record /\ Starts(c, n)
          /\ Leads(n, Aliases, Len(node) + 1, Len(n), pointer, k + 1, last)
          /\ last < L => record[n] # nil
      BY <2>4, <3>1
    <3>3. Starts(node, n) /\ n[Len(node) + 1] = head
      BY <1>10, <3>1, <3>2
    <3>4. Leads(n, Aliases, Len(node), Len(n), pointer, k, last)
      BY <2>2, <3>2, <3>3
    <3> QED BY <1>5, <3>2, <3>3, <3>4
  <2>9. ASSUME NEW n \in all PROVE n \in it
    <3>1. /\ n \in DOMAIN record /\ Starts(node, n)
          /\ Leads(n, Aliases, Len(node), Len(n), pointer, k, last)
          /\ last < L => record[n] # nil
      BY <1>5
    <3>2. /\ n[Len(node) + 1] = head
          /\ Leads(n, Aliases, Len(node) + 1, Len(n), pointer, k + 1, last)
      BY <2>2, <3>1
    <3>3. PICK c \in Children(record, node) : Starts(c, n)
      BY <2>3, <3>1, <3>2
    <3>4. c[Len(c)] = head
      BY <1>10, <3>1, <3>2, <3>3
    <3>5. n \in w[<<c, k + 1>>]
      BY <2>4, <3>1, <3>2, <3>3
    <3> QED BY <2>7, <3>4, <3>5
  <2>10. it = all
    BY <2>8, <2>9
  <2> QED BY <2>10 DEF it, all
<1>17. CASE k < L /\ record[node] # nil /\ head = Descendant
  <2>1. CASE k + 1 = L
    <3>1. k = last /\ last < L
      BY <1>1, <1>17, <2>1
    <3>2. \A n \in DOMAIN record : n \in all <=> n = node
      BY <1>1, <1>5, <1>10, <1>12, <1>17, <3>1
    <3> HIDE DEF it, all
    <3>3. it = {node}
      BY <1>4, <1>17, <2>1
    <3>4. \A n : n \in all <=> n = node
      BY <1>5, <3>2
    <3>5. it = all
      BY <3>3, <3>4
    <3> QED BY <3>5 DEF it, all
  <2>2. CASE k + 1 # L
    <3>1. k < last /\ k + 1 =< last /\ k =< last
      BY <1>1, <1>17, <2>2
    <3>2. \A n \in DOMAIN record :
              Leads(n, Aliases, Len(node), Len(n), pointer, k, last)
              <=> \E i \in Nat : /\ Len(node) =< i /\ Plain(n, Len(node) + 1, i)
                                 /\ Leads(n, Aliases, i, Len(n), pointer, k + 1, last)
      <4> SUFFICES ASSUME NEW n \in DOMAIN record
                   PROVE  \A i \in Nat : Advance(n, Aliases, pointer, k + 1, Len(node), i) <=>
                              Len(node) =< i /\ Plain(n, Len(node) + 1, i)
        BY <1>8, <3>1
      <4> QED BY <1>17 DEF Advance, Plain
    <3>3. \A n \in DOMAIN record :
              Leads(n, Aliases, Len(node) + 1, Len(n), pointer, k, last)
              <=> \E i \in Nat : /\ Len(node) + 1 =< i /\ Plain(n, Len(node) + 2, i)
                                 /\ Leads(n, Aliases, i, Len(n), pointer, k + 1, last)
      <4> SUFFICES ASSUME NEW n \in DOMAIN record
                   PROVE  Leads(n, Aliases, Len(node) + 1, Len(n), pointer, k, last)
                          <=> \E i \in Nat : /\ Len(node) + 1 =< i /\ Plain(n, Len(node) + 2, i)
                                             /\ Leads(n, Aliases, i, Len(n), pointer, k + 1, last)
        OBVIOUS
      <4>1. Len(node) + 1 \in Nat /\ Len(n) \in Nat /\ (Len(node) + 1) + 1 = Len(node) + 2
        BY <1>2
      <4>2. \A i \in Nat : Advance(n, Aliases, pointer, k + 1, Len(node) + 1, i) <=>
                Len(node) + 1 =< i /\ Plain(n, Len(node) + 2, i)
        BY <1>17, <4>1 DEF Advance, Plain
      <4> HIDE DEF last
      <4>3. Leads(n, Aliases, Len(node) + 1, Len(n), pointer, k, last)
            <=> \E i \in Nat : /\ Advance(n, Aliases, pointer, k + 1, Len(node) + 1, i)
                               /\ Leads(n, Aliases, i, Len(n), pointer, k + 1, last)
        BY <1>1, <3>1, <4>1, LeadsFirst
      <4> QED BY <4>2, <4>3
    <3>4. ASSUME NEW n \in DOMAIN record, Starts(node, n),
                 NEW i \in Nat, Len(node) + 1 =< i, Leads(n, Aliases, i, Len(n), pointer, k + 1, last)
          PROVE  \E c \in Children(record, node) : Starts(c, n)
      <4>1. i =< Len(n)
        BY <1>9, <3>1, <3>4
      <4>2. Len(node) # Len(n)
        BY <1>2, <3>4, <4>1
      <4> QED BY <1>10, <3>4, <4>2
    <3>5. \A c \in Children(record, node) : \A n :
              n \in w[<<c, k>>] <=>
                  /\ n \in DOMAIN record /\ Starts(c, n)
                  /\ Leads(n, Aliases, Len(node) + 1, Len(n), pointer, k, last)
                  /\ last < L => record[n] # nil
      BY <1>6, <3>1
    <3>6. it = (UNION {w[<<c, k>>] : c \in Entries(record, node)}) \cup w[<<node, k + 1>>]
      BY <1>4, <1>17, <2>2
    <3>7. \A n \in DOMAIN record :
              Leads(n, Aliases, Len(node), Len(n), pointer, k, last)
              <=> \/ Leads(n, Aliases, Len(node), Len(n), pointer, k + 1, last)
                  \/ /\ n[Len(node) + 1] \notin Aliases
                     /\ Leads(n, Aliases, Len(node) + 1, Len(n), pointer, k, last)
      <4> TAKE n \in DOMAIN record
      <4>1. Len(node) \in Nat
        BY <1>2
      <4>2. ASSUME NEW i \in Nat
            PROVE  Len(node) =< i /\ Plain(n, Len(node) + 1, i) <=>
                       \/ i = Len(node)
                       \/ /\ n[Len(node) + 1] \notin Aliases
                          /\ Len(node) + 1 =< i /\ Plain(n, Len(node) + 2, i)
        <5>1. CASE Len(node) + 1 =< i
          <6>1. \A l \in Int : l \in Len(node) + 1 .. i <=> l = Len(node) + 1 \/ l \in Len(node) + 2 .. i
            BY <4>1, <5>1
          <6>2. i # Len(node) /\ Len(node) =< i
            BY <4>1, <5>1
          <6>3. Plain(n, Len(node) + 1, i) <=>
                    n[Len(node) + 1] \notin Aliases /\ Plain(n, Len(node) + 2, i)
            BY <4>1, <6>1 DEF Plain
          <6> QED BY <5>1, <6>2, <6>3
        <5>2. CASE ~(Len(node) + 1 =< i)
          BY <4>1, <5>2 DEF Plain
        <5> QED BY <5>1, <5>2
      <4> HIDE DEF last
      <4> QED BY <3>2, <3>3, <4>1, <4>2
    <3>8. ASSUME NEW n \in DOMAIN record, Starts(node, n),
                 Leads(n, Aliases, Len(node) + 1, Len(n), pointer, k, last)
          PROVE  \E c \in Children(record, node) : Starts(c, n)
      BY <3>3, <3>4, <3>8
    <3>9. \A n :
              n \in w[<<node, k + 1>>] <=>
                  /\ n \in DOMAIN record /\ Starts(node, n)
                  /\ Leads(n, Aliases, Len(node), Len(n), pointer, k + 1, last)
                  /\ last < L => record[n] # nil
      BY <1>7, <3>1
    <3> HIDE DEF it, all, last, L
    <3>10. \A n : n \in it <=> \/ \E c \in Entries(record, node) : n \in w[<<c, k>>]
                              \/ n \in w[<<node, k + 1>>]
      BY <3>6
    <3>11. ASSUME NEW n \in it PROVE n \in all
      <4>1. CASE n \in w[<<node, k + 1>>]
        BY <1>5, <3>7, <3>9, <4>1
      <4>2. CASE \E c \in Entries(record, node) : n \in w[<<c, k>>]
        <5>1. PICK c \in Children(record, node) : n \in w[<<c, k>>] /\ c[Len(c)] \notin Aliases
          BY <1>19, <4>2
        <5>2. n \in DOMAIN record /\ Starts(c, n)
          BY <3>5, <5>1
        <5>3. Starts(node, n) /\ n[Len(node) + 1] \notin Aliases
          BY <1>10, <5>1, <5>2
        <5> QED BY <1>5, <3>5, <3>7, <5>1, <5>2, <5>3
      <4> QED BY <3>10, <4>1, <4>2
    <3>12. ASSUME NEW n \in all PROVE n \in it
      <4>1. n \in DOMAIN record /\ Starts(node, n) /\ (last < L => record[n] # nil)
        BY <1>5
      <4>2. CASE Leads(n, Aliases, Len(node), Len(n), pointer, k + 1, last)
        BY <3>9, <3>10, <4>1, <4>2
      <4>3. CASE /\ n[Len(node) + 1] \notin Aliases
                 /\ Leads(n, Aliases, Len(node) + 1, Len(n), pointer, k, last)
        <5>1. PICK c \in Children(record, node) : Starts(c, n)
          BY <3>8, <4>1, <4>3
        <5>2. c \in Entries(record, node)
          BY <1>10, <1>19, <4>1, <4>3, <5>1
        <5> QED BY <3>5, <3>10, <4>1, <4>3, <5>1, <5>2
      <4> QED BY <1>5, <3>7, <4>2, <4>3
    <3>13. it = all
      BY <3>11, <3>12
    <3> QED BY <3>13 DEF it, all
  <2> QED BY <2>1, <2>2
<1>18. \/ k = L
       \/ k < L /\ record[node] = nil
       \/ k < L /\ record[node] # nil /\ head = Star
       \/ k < L /\ record[node] # nil /\ head = Descendant
       \/ k < L /\ record[node] # nil /\ head \notin {Star, Descendant}
  BY <1>1
<1> QED BY ONLY <1>18, <1>13, <1>14, <1>15, <1>16, <1>17

\* What the projection collects by a pointer are the tops of what the pointer denotes: in
\* any record, for a pointer of any length.
THEOREM CollectsTops ==
    ASSUME NEW record, IsRecord(record), NEW pointer, IsPointer(pointer)
    PROVE  collect(record, pointer) = Tops(record, pointer)
<1> DEFINE last == Walked(pointer)
           L    == Len(pointer)
           D    == (DOMAIN record) \X (0 .. last)
<1>1. /\ L \in Nat /\ last \in Nat /\ last \in {L, L - 1}
      /\ last = L - 1 <=> L > 0 /\ pointer[L] = Descendant
      /\ pointer # <<>> <=> L > 0
      /\ last = L - 1 <=> pointer # <<>> /\ Last(pointer) = Descendant
  BY DEF Walked, IsPointer, Last
<1>2. /\ <<>> \in DOMAIN record
      /\ \A n \in DOMAIN record : Len(n) \in Nat /\ n \in Seq(Keys)
  BY RecordNodes
<1>3. PICK w : collect(record, pointer) = w[<< <<>>, 0 >>] /\ Collected(w, record, pointer)
  BY <1>1, CollectEquation
<1>4. PICK h \in Nat : \A n \in DOMAIN record : Len(n) \in 0 .. h
  BY TreeHeight DEF IsRecord
<1> DEFINE M     == [at \in D |-> (h - Len(at[1])) + (last - at[2])]
           Right == {at \in D : w[at] = Gathered(record, pointer, at[1], at[2])}
<1>5. \A n \in DOMAIN record : \A k \in 0 .. last :
          /\ <<n, k>> \in D /\ M[<<n, k>>] = (h - Len(n)) + (last - k)
          /\ <<n, k>> \in Right <=> w[<<n, k>>] = Gathered(record, pointer, n, k)
  BY <1>1
<1>6. \A at \in D : M[at] \in Nat /\ at[1] \in DOMAIN record /\ at[2] \in 0 .. last /\ at = <<at[1], at[2]>>
  BY <1>1, <1>4
<1> HIDE DEF last, D, M, Right
<1>7. ASSUME NEW at \in D, \A y \in D : M[y] < M[at] => y \in Right PROVE at \in Right
  <2> DEFINE node == at[1]
             k    == at[2]
  <2>1. node \in DOMAIN record /\ k \in 0 .. last /\ at = <<node, k>> /\ Len(node) \in 0 .. h
    BY <1>4, <1>6
  <2> HIDE DEF node, k
  <2>2. ASSUME NEW c \in DOMAIN record, NEW j \in k .. last,
               (c = node /\ j = k + 1) \/ (Len(c) = Len(node) + 1 /\ j \in {k, k + 1})
        PROVE  w[<<c, j>>] = Gathered(record, pointer, c, j)
    <3>1. j \in 0 .. last /\ Len(c) \in 0 .. h
      BY <1>1, <1>4, <2>1
    <3>2. M[<<c, j>>] < M[<<node, k>>]
      BY <1>1, <1>5, <2>1, <2>2, <3>1
    <3> QED BY <1>5, <1>7, <2>1, <3>1, <3>2
  <2>3. w[<<node, k>>] = Gathered(record, pointer, node, k)
    BY <1>3, <2>1, <2>2, GatheredStep DEF last
  <2> QED BY <1>5, <2>1, <2>3
<1>8. D \subseteq Right
  <2>1. (\A at \in D : (\A y \in D : M[y] < M[at] => y \in Right) => at \in Right)
        /\ \A at \in D : M[at] \in Nat
    BY <1>6, <1>7
  <2> QED BY <2>1, MeasureInduction
<1>9. collect(record, pointer) = Gathered(record, pointer, <<>>, 0)
  BY <1>1, <1>2, <1>3, <1>5, <1>8
<1> DEFINE there(n) == Leads(n, Aliases, 0, Len(n), pointer, 0, last)
<1>10. \A n : n \in collect(record, pointer) <=>
           n \in DOMAIN record /\ there(n) /\ (last < L => record[n] # nil)
  <2>1. \A n \in DOMAIN record : Starts(<<>>, n)
    BY <1>2 DEF Starts
  <2> QED BY <1>9, <2>1 DEF Gathered, last
<1>11. CASE last = L
  <2>1. \A n \in DOMAIN record : Follows(n, pointer, Aliases) <=> there(n)
    BY <1>1, <1>2, <1>11, FollowsIs
  <2>2. Tops(record, pointer) = Denoted(record, pointer) /\ ~(pointer # <<>> /\ Last(pointer) = Descendant)
    BY <1>1, <1>11 DEF Tops
  <2>3. \A n : n \in Tops(record, pointer) <=> n \in DOMAIN record /\ Follows(n, pointer, Aliases)
    BY <2>2 DEF Denoted, Aliases
  <2> HIDE DEF there
  <2>4. \A n : n \in collect(record, pointer) <=> n \in Tops(record, pointer)
    BY <1>1, <1>10, <1>11, <2>1, <2>3
  <2> QED BY <2>2, <2>4 DEF Denoted
<1>12. CASE last = L - 1
  <2>0. pointer \in Seq(Keys \cup {Star, Descendant}) /\ pointer # <<>>
    BY <1>1, <1>12 DEF IsPointer
  <2> DEFINE front == Front(pointer)
  <2>1. Len(front) = last /\ \A k \in 1 .. last : front[k] = pointer[k]
    BY <1>1, <1>12, <2>0, FrontIs
  <2> HIDE DEF front
  <2>2. \A n \in DOMAIN record : Follows(n, front, Aliases) <=> there(n)
    <3> TAKE n \in DOMAIN record
    <3>1. Follows(n, front, Aliases) <=> Leads(n, Aliases, 0, Len(n), front, 0, last)
      BY <1>1, <1>2, <2>1, FollowsIs
    <3>2. Leads(n, Aliases, 0, Len(n), front, 0, last) <=> Leads(n, Aliases, 0, Len(n), pointer, 0, last)
      <4>1. \A k \in 0 + 1 .. last : front[k] = pointer[k]
        BY <2>1
      <4> QED BY <4>1, LeadsSame
    <3> QED BY <3>1, <3>2
  <2>3. Tops(record, pointer) = {n \in Denoted(record, front) : record[n] # nil}
    BY <1>1, <1>12 DEF Tops, front
  <2>4. \A n : n \in Tops(record, pointer) <=>
            n \in DOMAIN record /\ Follows(n, front, Aliases) /\ record[n] # nil
    <3>1. \A n : n \in Denoted(record, front) =>
              n \in DOMAIN record /\ Follows(n, front, Aliases)
      BY DEF Denoted, Aliases
    <3>2. last = L - 1 => TRUE
      OBVIOUS
    <3> QED BY <2>3 DEF Denoted, Aliases
  <2> HIDE DEF there
  <2>5. \A n : n \in collect(record, pointer) <=> n \in Tops(record, pointer)
    BY <1>1, <1>10, <1>12, <2>2, <2>4
  <2> QED BY <2>3, <2>5
<1> QED BY <1>1, <1>11, <1>12

-----------------------------------------------------------------------------
(* The projection's matchSeg *)

Spots(path, pattern) == (0 .. Len(path)) \X (0 .. Len(pattern))

\* Whether the rest of the path matches the rest of the pattern, in terms of shorter ones.
Matches(path, pattern, w, i, j) ==
    \/ j = Len(pattern) /\ i = Len(path)
    \/ /\ j < Len(pattern) /\ pattern[j + 1] = Descendant
       /\ j + 1 = Len(pattern) \/ \E k \in i .. Len(path) : w[<<k, j + 1>>]
    \/ /\ j < Len(pattern) /\ pattern[j + 1] # Descendant
       /\ i < Len(path) /\ pattern[j + 1] \in {Star, path[i + 1]}
       /\ w[<<i + 1, j + 1>>]

\* The same, case by case.
Matching(m, path, pattern, w, i, j) ==
    LET head == pattern[j + 1]
        L    == Len(pattern)
    IN  /\ j = L => m = (i = Len(path))
        /\ j < L /\ head = Descendant =>
               m = (j + 1 = L \/ \E k \in i .. Len(path) : w[<<k, j + 1>>])
        /\ j < L /\ head # Descendant =>
               m = (i < Len(path) /\ head \in {Star, path[i + 1]} /\ w[<<i + 1, j + 1>>])

LEMMA MatchesIs ==
    ASSUME NEW path, NEW pattern, Len(pattern) \in Nat, NEW w, NEW i, NEW j \in 0 .. Len(pattern)
    PROVE  Matching(Matches(path, pattern, w, i, j), path, pattern, w, i, j)
<1> DEFINE m    == Matches(path, pattern, w, i, j)
           head == pattern[j + 1]
           L    == Len(pattern)
<1>1. /\ m \in BOOLEAN
      /\ j = L => (m <=> i = Len(path))
      /\ j < L /\ head = Descendant =>
             (m <=> (j + 1 = L \/ \E k \in i .. Len(path) : w[<<k, j + 1>>]))
      /\ j < L /\ head # Descendant =>
             (m <=> (i < Len(path) /\ head \in {Star, path[i + 1]} /\ w[<<i + 1, j + 1>>]))
  <2>1. m \in BOOLEAN
    BY DEF Matches
  <2>2. j = L => ~(j < L)
    OBVIOUS
  <2>3. j = L => (m <=> i = Len(path))
    BY <2>2 DEF Matches
  <2> QED BY <2>1, <2>2, <2>3 DEF Matches
<1> HIDE DEF m
<1>2. Matching(m, path, pattern, w, i, j)
  BY <1>1 DEF Matching
<1> QED BY <1>2 DEF m

Matched(w, path, pattern) ==
    \A i \in 0 .. Len(path) : \A j \in 0 .. Len(pattern) :
        w[<<i, j>>] = Matches(path, pattern, w, i, j)

LEMMA MatchEquation ==
    ASSUME NEW path, Len(path) \in Nat, NEW pattern, Len(pattern) \in Nat
    PROVE  \E w : matchSeg(path, pattern) = w[<<0, 0>>] /\ Matched(w, path, pattern)
<1> DEFINE L     == Len(pattern)
           D     == Spots(path, pattern)
           V     == BOOLEAN
           E(w, at) == Matches(path, pattern, w, at[1], at[2])
           R     == [w \in [D -> V] |-> [at \in D |-> E(w, at)]]
           M     == [at \in D |-> L - at[2]]
           Is(w) == w = [at \in D |-> E(w, at)]
<1>1. /\ \A at \in D : at = <<at[1], at[2]>> /\ at[1] \in 0 .. Len(path) /\ at[2] \in 0 .. L
      /\ \A i \in 0 .. Len(path) : \A j \in 0 .. L :
             <<i, j>> \in D /\ <<i, j>>[1] = i /\ <<i, j>>[2] = j
      /\ L \in Nat
  BY DEF Spots
<1>2. /\ \A i \in 0 .. Len(path) : \A j \in 0 .. L : <<i, j>> \in D /\ M[<<i, j>>] = L - j
      /\ \A at \in D : M[at] \in 0 .. L
  BY <1>1
<1> HIDE DEF D, L, M
<1>3. ASSUME NEW i \in 0 .. Len(path), NEW j \in 0 .. L,
             NEW f \in [D -> V], NEW g \in [D -> V],
             \A y \in D : M[y] < M[<<i, j>>] => f[y] = g[y]
      PROVE  /\ Matches(path, pattern, f, i, j) = Matches(path, pattern, g, i, j)
             /\ Matches(path, pattern, f, i, j) \in BOOLEAN
  <2>1. \A k \in 0 .. Len(path) : j + 1 \in 0 .. L =>
            f[<<k, j + 1>>] = g[<<k, j + 1>>] /\ f[<<k, j + 1>>] \in BOOLEAN
    <3> SUFFICES ASSUME NEW k \in 0 .. Len(path), j + 1 \in 0 .. L
                 PROVE  <<k, j + 1>> \in D /\ M[<<k, j + 1>>] < M[<<i, j>>]
      BY <1>3
    <3> QED BY <1>1, <1>2
  <2> DEFINE head == pattern[j + 1]
             mf   == Matches(path, pattern, f, i, j)
             mg   == Matches(path, pattern, g, i, j)
  <2>20. Matching(mf, path, pattern, f, i, j)
    BY <1>1, MatchesIs DEF L
  <2>2. /\ j = L => mf = (i = Len(path))
        /\ j < L /\ head = Descendant =>
               mf = (j + 1 = L \/ \E k \in i .. Len(path) : f[<<k, j + 1>>])
        /\ j < L /\ head # Descendant =>
               mf = (i < Len(path) /\ head \in {Star, path[i + 1]} /\ f[<<i + 1, j + 1>>])
    BY <2>20 DEF Matching, L
  <2>30. Matching(mg, path, pattern, g, i, j)
    BY <1>1, MatchesIs DEF L
  <2>3. /\ j = L => mg = (i = Len(path))
        /\ j < L /\ head = Descendant =>
               mg = (j + 1 = L \/ \E k \in i .. Len(path) : g[<<k, j + 1>>])
        /\ j < L /\ head # Descendant =>
               mg = (i < Len(path) /\ head \in {Star, path[i + 1]} /\ g[<<i + 1, j + 1>>])
    BY <2>30 DEF Matching, L
  <2>4. j = L \/ (j < L /\ j + 1 \in 0 .. L)
    BY <1>1
  <2>5. \A k \in i .. Len(path) : k \in 0 .. Len(path)
    OBVIOUS
  <2>6. i < Len(path) => i + 1 \in 0 .. Len(path)
    OBVIOUS
  <2> HIDE DEF head, mf, mg, V
  <2>7. mf = mg /\ mf \in BOOLEAN
    BY <2>1, <2>2, <2>3, <2>4, <2>5, <2>6
  <2> QED BY <2>7 DEF mf, mg
<1>4. ASSUME NEW f \in [D -> V], NEW x \in D PROVE E(f, x) \in V
  BY <1>1, <1>3
<1>5. R \in [[D -> V] -> [D -> V]]
  <2> HIDE DEF E, V
  <2> QED BY <1>4
<1>6. ASSUME NEW f \in [D -> V], NEW g \in [D -> V], NEW x \in D,
             \A y \in D : M[y] < M[x] => f[y] = g[y]
      PROVE  R[f][x] = R[g][x]
  <2>1. x[1] \in 0 .. Len(path) /\ x[2] \in 0 .. L /\ x = <<x[1], x[2]>>
    BY <1>1
  <2>2. E(f, x) = E(g, x)
    <3> HIDE DEF V
    <3> QED BY <1>3, <1>6, <2>1
  <2>3. R[f][x] = E(f, x) /\ R[g][x] = E(g, x)
    <3> HIDE DEF E, V, D
    <3> QED OBVIOUS
  <2> QED BY <2>2, <2>3
<1>7. \E w \in [D -> V] : w = R[w]
  <2>1. TRUE \in V
    OBVIOUS
  <2>2. \A f, g \in [D -> V], x \in D :
            (\A y \in D : M[y] < M[x] => f[y] = g[y]) => R[f][x] = R[g][x]
    BY <1>6
  <2> HIDE DEF V, R
  <2>3. Recursive(R, D, V, M, L)
    BY <1>1, <1>2, <1>5, <2>1, <2>2 DEF Recursive
  <2> QED BY <2>3, MeasureRecursion
<1>9. \E w : Is(w)
  <2>1. PICK w \in [D -> V] : w = R[w]
    BY <1>7
  <2>2. R[w] = [at \in D |-> E(w, at)]
    <3> HIDE DEF E, V, D
    <3> QED OBVIOUS
  <2>3. Is(w)
    <3> HIDE DEF R, E
    <3> QED BY <2>1, <2>2
  <2> QED BY <2>3
<1> DEFINE it == CHOOSE w : Is(w)
<1>10. Is(it)
  <2> HIDE DEF Is
  <2> QED BY <1>9
<1>11. matchSeg(path, pattern) = it[<<0, 0>>]
  BY DEF matchSeg, Matches, Spots, D
<1> HIDE DEF it
<1>12. ASSUME NEW i \in 0 .. Len(path), NEW j \in 0 .. L
       PROVE  it[<<i, j>>] = Matches(path, pattern, it, i, j)
  <2>1. \A at \in D : it[at] = E(it, at)
    <3> HIDE DEF E
    <3> QED BY <1>10
  <2>2. it[<<i, j>>] = Matches(path, pattern, it, <<i, j>>[1], <<i, j>>[2])
    BY <1>1, <2>1
  <2> QED BY <1>1, <2>2
<1> QED BY <1>11, <1>12 DEF Matched, L

\* Whether a pattern matches a path is whether the path follows it: for paths and
\* patterns of any length.
THEOREM MatchesFollows ==
    ASSUME NEW path, Len(path) \in Nat, NEW pattern, Len(pattern) \in Nat
    PROVE  matchSeg(path, pattern) <=> Follows(path, pattern, {})
<1> DEFINE L == Len(pattern)
           n == Len(path)
           D == 0 .. L
           M == [j \in D |-> L - j]
<1>1. PICK w : matchSeg(path, pattern) = w[<<0, 0>>] /\ Matched(w, path, pattern)
  BY MatchEquation
<1> DEFINE Right == {j \in D : \A i \in 0 .. n : w[<<i, j>>] <=> Leads(path, {}, i, n, pattern, j, L)}
<1>2. ASSUME NEW j \in D, \A y \in D : M[y] < M[j] => y \in Right PROVE j \in Right
  <2> SUFFICES ASSUME NEW i \in 0 .. n PROVE w[<<i, j>>] <=> Leads(path, {}, i, n, pattern, j, L)
    OBVIOUS
  <2> DEFINE head == pattern[j + 1]
             it   == w[<<i, j>>]
             to   == Leads(path, {}, i, n, pattern, j, L)
  <2>1. it = Matches(path, pattern, w, i, j)
    BY <1>1 DEF Matched
  <2>2. /\ j = L => it = (i = n)
        /\ j < L /\ head = Descendant =>
               it = (j + 1 = L \/ \E k \in i .. n : w[<<k, j + 1>>])
        /\ j < L /\ head # Descendant =>
               it = (i < n /\ head \in {Star, path[i + 1]} /\ w[<<i + 1, j + 1>>])
    <3>1. Matching(it, path, pattern, w, i, j)
      <4> HIDE DEF it
      <4> QED BY <2>1, MatchesIs
    <3> QED BY <3>1 DEF Matching
  <2>3. CASE j = L
    <3>1. to <=> i = n
      BY <2>3, LeadsNowhere
    <3> QED BY <2>2, <2>3, <3>1
  <2>4. CASE j < L
    <3>1. j + 1 \in D /\ j + 1 \in Right
      BY <1>2, <2>4
    <3>2. \A k \in 0 .. n : w[<<k, j + 1>>] <=> Leads(path, {}, k, n, pattern, j + 1, L)
      BY <3>1
    <3>3. to <=> \E k \in Nat : /\ Advance(path, {}, pattern, j + 1, i, k)
                               /\ Leads(path, {}, k, n, pattern, j + 1, L)
      BY <2>4, LeadsFirst
    <3>4. \A k \in Nat : Leads(path, {}, k, n, pattern, j + 1, L) => k =< n
      <4>1. j + 1 \in Nat /\ j + 1 =< L /\ L \in Nat /\ n \in Nat
        BY <2>4
      <4> HIDE DEF L, n
      <4> QED BY <4>1, LeadsUp
    <3> HIDE DEF Right, it, to
    <3>5. CASE head = Descendant
      <4>1. to <=> \E k \in i .. n : Leads(path, {}, k, n, pattern, j + 1, L)
        BY <3>3, <3>4, <3>5 DEF Advance
      <4>2. ASSUME j + 1 = L PROVE \E k \in i .. n : Leads(path, {}, k, n, pattern, j + 1, L)
        <5>1. Leads(path, {}, n, n, pattern, j + 1, L)
          BY <4>2, LeadsNowhere
        <5> QED BY <5>1
      <4>3. to <=> \E k \in i .. n : w[<<k, j + 1>>]
        <5>1. \A k \in i .. n : k \in 0 .. n
          OBVIOUS
        <5> HIDE DEF n, L
        <5> QED BY <3>2, <4>1, <5>1
      <4>4. it <=> to
        BY <2>2, <2>4, <3>2, <3>5, <4>1, <4>2, <4>3
      <4> QED BY <4>4 DEF it, to
    <3>6. CASE head # Descendant
      <4>1. to <=> head \in {Star, path[i + 1]} /\ Leads(path, {}, i + 1, n, pattern, j + 1, L)
        BY <3>3, <3>6 DEF Advance
      <4>2. Leads(path, {}, i + 1, n, pattern, j + 1, L) => i < n
        BY <3>4
      <4>3. i < n => (w[<<i + 1, j + 1>>] <=> Leads(path, {}, i + 1, n, pattern, j + 1, L))
        BY <3>2
      <4>4. it <=> to
        BY <2>2, <2>4, <3>6, <4>1, <4>2, <4>3
      <4> QED BY <4>4 DEF it, to
    <3> QED BY <3>5, <3>6
  <2> QED BY <2>3, <2>4
<1>3. D \subseteq Right
  <2>1. (\A j \in D : (\A y \in D : M[y] < M[j] => y \in Right) => j \in Right)
        /\ \A j \in D : M[j] \in Nat
    BY <1>2
  <2> HIDE DEF D, M, Right
  <2> QED BY <2>1, MeasureInduction
<1>4. w[<<0, 0>>] <=> Leads(path, {}, 0, n, pattern, 0, L)
  BY <1>3
<1> QED BY <1>1, <1>4, FollowsIs

-----------------------------------------------------------------------------
(* The constraints: evalNode and validateConstraintTree *)

\* An equation for a function on a tree that says each node's truth by its children's
\* has a solution.
ByChildren(R, tree) ==
    /\ R \in [[DOMAIN tree -> BOOLEAN] -> [DOMAIN tree -> BOOLEAN]]
    /\ \A f, g \in [DOMAIN tree -> BOOLEAN], n \in DOMAIN tree :
           (\A c \in Children(tree, n) : f[c] = g[c]) => R[f][n] = R[g][n]

LEMMA TreeRecursion ==
    ASSUME NEW tree, NEW K, NEW inner, IsTree(tree, K, inner), NEW R, ByChildren(R, tree)
    PROVE  \E f \in [DOMAIN tree -> BOOLEAN] : f = R[f]
<1>0. /\ R \in [[DOMAIN tree -> BOOLEAN] -> [DOMAIN tree -> BOOLEAN]]
      /\ \A f, g \in [DOMAIN tree -> BOOLEAN], n \in DOMAIN tree :
             (\A c \in Children(tree, n) : f[c] = g[c]) => R[f][n] = R[g][n]
  BY DEF ByChildren
<1> DEFINE D == DOMAIN tree
           V == BOOLEAN
<1>1. PICK h \in Nat : \A n \in D : Len(n) \in 0 .. h
  BY TreeHeight
<1> DEFINE M == [n \in D |-> h - Len(n)]
<1>2. \A n \in D : M[n] \in 0 .. h
  BY <1>1
<1>3. ASSUME NEW f \in [D -> V], NEW g \in [D -> V], NEW x \in D,
             \A y \in D : M[y] < M[x] => f[y] = g[y]
      PROVE  R[f][x] = R[g][x]
  <2>1. ASSUME NEW c \in Children(tree, x) PROVE f[c] = g[c]
    <3>1. D \subseteq Seq(K) /\ x \in Seq(K)
      BY DEF IsTree
    <3>2. c \in D /\ Len(c) = Len(x) + 1
      BY <3>1, ChildIs
    <3>3. M[c] < M[x]
      BY <1>1, <3>2
    <3> QED BY <1>3, <3>2, <3>3
  <2> QED BY <1>0, <2>1
<1>4. TRUE \in V /\ R \in [[D -> V] -> [D -> V]]
      /\ \A f, g \in [D -> V], x \in D :
             (\A y \in D : M[y] < M[x] => f[y] = g[y]) => R[f][x] = R[g][x]
  BY <1>0, <1>3
<1>5. \E f \in [D -> V] : f = R[f]
  <2> HIDE DEF D, V, M
  <2>1. Recursive(R, D, V, M, h)
    BY <1>2, <1>4 DEF Recursive
  <2> QED BY <2>1, MeasureRecursion
<1> QED BY <1>5

\* Whether a node passes, by its children.
Passes(tree, record, p, n) ==
    LET node  == tree[n]
        below == Children(tree, n)
    IN  \/ node.op = "all_of" /\ \A child \in below : p[child]
        \/ node.op = "any_of" /\ \E child \in below : p[child]
        \/ node.op = "not"    /\ \A child \in below : ~p[child]
        \/ /\ node.op \notin Combinators
           /\ compareLeaf(record, resolvePath(record, node.path), node.op, node.value)

LEMMA EvalEquation ==
    ASSUME NEW tree, IsConstraints(tree), NEW record, NEW n \in DOMAIN tree
    PROVE  /\ evalNode(tree, record)[n] = Passes(tree, record, evalNode(tree, record), n)
           /\ evalNode(tree, record)[n] \in BOOLEAN
<1> DEFINE D     == DOMAIN tree
           R     == [p \in [D -> BOOLEAN] |-> [m \in D |-> Passes(tree, record, p, m)]]
           Is(p) == p = [m \in D |-> Passes(tree, record, p, m)]
           inner == {m \in DOMAIN tree : tree[m].op \in Combinators}
<1>1. \A p, m : Passes(tree, record, p, m) \in BOOLEAN
  BY DEF Passes
<1>2. R \in [[D -> BOOLEAN] -> [D -> BOOLEAN]]
  BY <1>1
<1>3. ASSUME NEW f \in [D -> BOOLEAN], NEW g \in [D -> BOOLEAN], NEW m \in D,
             \A c \in Children(tree, m) : f[c] = g[c]
      PROVE  R[f][m] = R[g][m]
  <2>1. Passes(tree, record, f, m) <=> Passes(tree, record, g, m)
    BY <1>3 DEF Passes
  <2>2. Passes(tree, record, f, m) = Passes(tree, record, g, m)
    BY <1>1, <2>1
  <2> QED BY <2>2
<1>4. IsTree(tree, Nat, inner)
  BY DEF IsConstraints
<1>5. \E p \in [D -> BOOLEAN] : p = R[p]
  <2>1. \A f, g \in [D -> BOOLEAN], m \in D :
            (\A c \in Children(tree, m) : f[c] = g[c]) => R[f][m] = R[g][m]
    BY <1>3
  <2> HIDE DEF R, inner
  <2>2. ByChildren(R, tree)
    BY <1>2, <2>1 DEF ByChildren
  <2> QED BY <1>4, <2>2, TreeRecursion
<1>6. \E p : Is(p)
  <2>1. PICK p \in [D -> BOOLEAN] : p = R[p]
    BY <1>5
  <2>2. R[p] = [m \in D |-> Passes(tree, record, p, m)]
    OBVIOUS
  <2> HIDE DEF R
  <2> QED BY <2>1, <2>2
<1> DEFINE it == CHOOSE p : Is(p)
<1>7. Is(it)
  <2> HIDE DEF Is
  <2> QED BY <1>6
<1>8. evalNode(tree, record) = it
  BY DEF evalNode, Passes
<1> HIDE DEF it
<1> QED BY <1>1, <1>7, <1>8

\* Whether a node is valid, by its children.
Valid(tree, v, n) ==
    LET node  == tree[n]
        below == Children(tree, n)
    IN  \/ /\ node.op \in {"all_of", "any_of"}
           /\ below # {} /\ \A child \in below : v[child]
        \/ node.op = "not" /\ \A child \in below : v[child]
        \/ /\ node.op \notin Combinators
           /\ {"path", "value"} \subseteq DOMAIN node /\ node.op \in VALID_OPERATORS

LEMMA ValidEquation ==
    ASSUME NEW tree, IsConstraints(tree)
    PROVE  \E v : /\ validateConstraintTree(tree) = v[<<>>]
                  /\ \A n \in DOMAIN tree : v[n] = Valid(tree, v, n)
<1> DEFINE D     == DOMAIN tree
           R     == [v \in [D -> BOOLEAN] |-> [m \in D |-> Valid(tree, v, m)]]
           Is(v) == v = [m \in D |-> Valid(tree, v, m)]
           inner == {m \in DOMAIN tree : tree[m].op \in Combinators}
<1>1. \A v, m : Valid(tree, v, m) \in BOOLEAN
  BY DEF Valid
<1>2. R \in [[D -> BOOLEAN] -> [D -> BOOLEAN]]
  BY <1>1
<1>3. ASSUME NEW f \in [D -> BOOLEAN], NEW g \in [D -> BOOLEAN], NEW m \in D,
             \A c \in Children(tree, m) : f[c] = g[c]
      PROVE  R[f][m] = R[g][m]
  <2>1. Valid(tree, f, m) <=> Valid(tree, g, m)
    BY <1>3 DEF Valid
  <2>2. Valid(tree, f, m) = Valid(tree, g, m)
    BY <1>1, <2>1
  <2> QED BY <2>2
<1>4. IsTree(tree, Nat, inner)
  BY DEF IsConstraints
<1>5. \E v \in [D -> BOOLEAN] : v = R[v]
  <2>1. \A f, g \in [D -> BOOLEAN], m \in D :
            (\A c \in Children(tree, m) : f[c] = g[c]) => R[f][m] = R[g][m]
    BY <1>3
  <2> HIDE DEF R, inner
  <2>2. ByChildren(R, tree)
    BY <1>2, <2>1 DEF ByChildren
  <2> QED BY <1>4, <2>2, TreeRecursion
<1>6. \E v : Is(v)
  <2>1. PICK v \in [D -> BOOLEAN] : v = R[v]
    BY <1>5
  <2>2. R[v] = [m \in D |-> Valid(tree, v, m)]
    OBVIOUS
  <2> HIDE DEF R
  <2> QED BY <2>1, <2>2
<1> DEFINE it == CHOOSE v : Is(v)
<1>7. Is(it)
  <2> HIDE DEF Is
  <2> QED BY <1>6
<1>8. validateConstraintTree(tree) = it[<<>>]
  BY DEF validateConstraintTree, Valid
<1> HIDE DEF it
<1>9. \A n \in D : it[n] = Valid(tree, it, n)
  BY <1>7
<1> QED BY <1>8, <1>9

\* What is accepted has a meaning: constraints of any depth.
THEOREM AcceptedMeaningful ==
    ASSUME NEW tree, IsConstraints(tree), validateConstraintTree(tree)
    PROVE  Meaningful(tree)
<1>1. PICK v : /\ validateConstraintTree(tree) = v[<<>>]
               /\ \A n \in DOMAIN tree : v[n] = Valid(tree, v, n)
  BY ValidEquation
<1> DEFINE D     == DOMAIN tree
           M     == [n \in D |-> Len(n)]
           Right == {n \in D : v[n]}
<1>2. /\ D \subseteq Seq(Nat) /\ <<>> \in D
      /\ \A n \in D : Len(n) \in Nat /\ n \in Seq(Nat)
      /\ \A n \in D : n # <<>> => Front(n) \in D /\ tree[Front(n)].op \in Combinators
  BY DEF IsConstraints, IsTree
<1>3. ASSUME NEW n \in D, \A y \in D : M[y] < M[n] => y \in Right PROVE n \in Right
  <2>1. CASE n = <<>>
    BY <1>1, <2>1
  <2>2. CASE n # <<>>
    <3>1. Front(n) \in D /\ Len(Front(n)) = Len(n) - 1 /\ tree[Front(n)].op \in Combinators
      BY <1>2, <2>2, FrontIs
    <3>2. v[Front(n)]
      BY <1>2, <1>3, <3>1
    <3>3. n \in Children(tree, Front(n))
      BY <2>2 DEF Children
    <3>4. Valid(tree, v, Front(n))
      BY <1>1, <3>1, <3>2
    <3>5. v[n]
      BY <3>1, <3>3, <3>4 DEF Valid
    <3> QED BY <3>5
  <2> QED BY <2>1, <2>2
<1>4. D \subseteq Right
  <2>1. (\A n \in D : (\A y \in D : M[y] < M[n] => y \in Right) => n \in Right)
        /\ \A n \in D : M[n] \in Nat
    BY <1>2, <1>3
  <2> HIDE DEF D, M, Right
  <2> QED BY <2>1, MeasureInduction
<1>5. \A n \in D : Valid(tree, v, n)
  BY <1>1, <1>4
<1>6. ASSUME NEW n \in D
      PROVE  /\ tree[n].op \in {"all_of", "any_of"} => Children(tree, n) # {}
             /\ tree[n].op \notin Combinators =>
                    tree[n].op \in VALID_OPERATORS /\ {"path", "value"} \subseteq DOMAIN tree[n]
  <2>1. Valid(tree, v, n)
    BY <1>5
  <2> QED BY <2>1 DEF Valid, Combinators
<1> QED BY <1>6 DEF Meaningful

\* A node holds if it passes, when that is so of its children.
LEMMA PassesHolds ==
    ASSUME NEW tree, IsConstraints(tree), Meaningful(tree), NEW record, IsRecord(record),
           NEW n \in DOMAIN tree, NEW p, NEW holding,
           \A c \in Children(tree, n) : c \in holding <=> p[c]
    PROVE  Holds(record, tree, n, holding) <=> Passes(tree, record, p, n)
<1> DEFINE op == tree[n].op
           below == Children(tree, n)
<1>1. CASE op \in Combinators
  <2>1. below \subseteq holding <=> \A c \in below : p[c]
    OBVIOUS
  <2>2. below \cap holding # {} <=> \E c \in below : p[c]
    OBVIOUS
  <2>3. below \cap holding = {} <=> \A c \in below : ~p[c]
    OBVIOUS
  <2> HIDE DEF below
  <2> QED BY <1>1, <2>1, <2>2, <2>3 DEF Combinators, Holds, Passes, below
<1>2. CASE op \notin Combinators
  <2>1. op \in VALID_OPERATORS /\ IsPointer(tree[n].path)
    BY <1>2 DEF Meaningful, IsConstraints
  <2>2. resolvePath(record, tree[n].path) = Denoted(record, tree[n].path)
    BY <2>1, ResolvesDenoted
  <2> QED BY <1>2, <2>1, <2>2 DEF Combinators, VALID_OPERATORS, Holds, Passes, compareLeaf
<1> QED BY <1>1, <1>2

\* The evaluator accepts the records that satisfy the constraints: records and constraints
\* of any shape, pointers of any length.
THEOREM EvaluatesSatisfies ==
    ASSUME NEW tree, IsConstraints(tree), Meaningful(tree), NEW record, IsRecord(record)
    PROVE  evaluate(tree, record) <=> Satisfies(record, tree)
<1> DEFINE D == DOMAIN tree
           p == evalNode(tree, record)
<1>1. \A n \in D : p[n] = Passes(tree, record, p, n) /\ p[n] \in BOOLEAN
  BY EvalEquation
<1>2. IsTree(tree, Nat, {m \in DOMAIN tree : tree[m].op \in Combinators})
  BY DEF IsConstraints
<1>3. <<>> \in D /\ D \subseteq Seq(Nat) /\ \A n \in D : n \in Seq(Nat)
  BY <1>2 DEF IsTree
<1>4. evaluate(tree, record) = p[<<>>]
  BY DEF evaluate
<1>5. \A n \in D : \A c \in Children(tree, n) : c \in D /\ Len(c) = Len(n) + 1
  BY <1>3, ChildIs
<1> HIDE DEF p
<1>6. ASSUME p[<<>>] PROVE Satisfies(record, tree)
  <2> DEFINE holding == {n \in D : p[n]}
  <2>1. \A n \in D : p[n] <=> Holds(record, tree, n, holding)
    <3> TAKE n \in D
    <3>1. \A c \in Children(tree, n) : c \in holding <=> p[c]
      BY <1>5
    <3> HIDE DEF holding
    <3>2. Holds(record, tree, n, holding) <=> Passes(tree, record, p, n)
      BY <3>1, PassesHolds
    <3> QED BY <1>1, <3>2
  <2>2. holding = {n \in D : Holds(record, tree, n, holding)}
    BY <2>1
  <2>3. <<>> \in holding /\ holding \in SUBSET D
    BY <1>3, <1>6
  <2> HIDE DEF holding
  <2> QED BY <2>2, <2>3 DEF Satisfies
<1>7. ASSUME Satisfies(record, tree) PROVE p[<<>>]
  <2>1. PICK holding \in SUBSET D :
            <<>> \in holding /\ holding = {n \in D : Holds(record, tree, n, holding)}
    BY <1>7 DEF Satisfies
  <2>2. PICK h \in Nat : \A n \in D : Len(n) \in 0 .. h
    BY <1>2, TreeHeight
  <2> DEFINE M     == [n \in D |-> h - Len(n)]
             Right == {n \in D : n \in holding <=> p[n]}
  <2>3. ASSUME NEW n \in D, \A y \in D : M[y] < M[n] => y \in Right PROVE n \in Right
    <3>1. ASSUME NEW c \in Children(tree, n) PROVE c \in holding <=> p[c]
      <4>1. c \in D /\ M[c] < M[n]
        BY <1>5, <2>2
      <4> QED BY <2>3, <4>1
    <3>2. Holds(record, tree, n, holding) <=> Passes(tree, record, p, n)
      BY <3>1, PassesHolds
    <3>3. n \in holding <=> Holds(record, tree, n, holding)
      BY <2>1
    <3> QED BY <1>1, <3>2, <3>3
  <2>4. D \subseteq Right
    <3>1. (\A n \in D : (\A y \in D : M[y] < M[n] => y \in Right) => n \in Right)
          /\ \A n \in D : M[n] \in Nat
      BY <2>2, <2>3
    <3> HIDE DEF D, M, Right
    <3> QED BY <3>1, MeasureInduction
  <2> QED BY <1>3, <2>1, <2>4
<1> QED BY <1>4, <1>6, <1>7

-----------------------------------------------------------------------------
(* The projection *)

\* A payload is what the Intent includes and does not exclude, with all below it.
THEOREM ProjectsShown ==
    ASSUME NEW record, IsRecord(record), NEW intent,
           \A p \in intent.include \cup intent.exclude : IsPointer(p)
    PROVE  project(record, intent.include, intent.exclude) =
               {n \in DOMAIN record : \E top \in Shown(record, intent) : n \in Below(record, top)}
<1> DEFINE tops  == UNION {Tops(record, p) : p \in intent.include}
           keys  == IF <<>> \in tops THEN {n \in DOMAIN record : Len(n) = 1} ELSE {}
           found == UNION {collect(record, p) : p \in intent.include}
           fragments == Fragments(record, intent.include)
<1>1. <<>> \in DOMAIN record /\ <<>> \in Seq(Keys) /\ DOMAIN record \subseteq Seq(Keys)
      /\ \A n \in DOMAIN record : n \in Seq(Keys) /\ Len(n) \in Nat
  BY RecordNodes
<1>2. found = tops
  <2>1. \A p \in intent.include : collect(record, p) = Tops(record, p)
    BY CollectsTops
  <2> QED BY <2>1
<1>3. Children(record, <<>>) = {n \in DOMAIN record : Len(n) = 1}
  <2>1. \A c : c \in Children(record, <<>>) <=>
            c \in DOMAIN record /\ Len(c) = Len(<<>>) + 1 /\ Starts(<<>>, c)
    BY <1>1, ChildIs
  <2>2. \A c \in DOMAIN record : Starts(<<>>, c)
    BY <1>1 DEF Starts
  <2>3. Children(record, <<>>) \subseteq DOMAIN record
    BY DEF Children
  <2> QED BY <2>1, <2>2, <2>3
<1>4. fragments = (tops \ {<<>>}) \cup keys
  BY <1>2, <1>3 DEF Fragments
<1>5. tops \subseteq DOMAIN record
  <2>1. \A p : Tops(record, p) \subseteq DOMAIN record
    BY DEF Tops, Denoted
  <2> QED BY <2>1
<1>6. keys \subseteq DOMAIN record
  OBVIOUS
<1>7. Shown(record, intent) = {n \in fragments : \A p \in intent.exclude : ~Follows(n, p, {})}
  BY <1>4 DEF Shown
<1> HIDE DEF tops, keys, fragments, found
<1>8. \A n \in fragments : excluded(n, intent.exclude) <=> \E p \in intent.exclude : Follows(n, p, {})
  <2> SUFFICES ASSUME NEW n \in fragments, NEW p \in intent.exclude
               PROVE  matchSeg(n, p) <=> Follows(n, p, {})
    BY DEF excluded
  <2>1. Len(n) \in Nat /\ Len(p) \in Nat
    BY <1>1, <1>4, <1>5, <1>6 DEF IsPointer
  <2> QED BY <2>1, MatchesFollows
<1>9. {f \in fragments : ~excluded(f, intent.exclude)} = Shown(record, intent)
  BY <1>7, <1>8
<1>10. project(record, intent.include, intent.exclude) =
           UNION {Below(record, path) : path \in Shown(record, intent)}
  BY <1>9 DEF project, fragments
<1> QED BY <1>10 DEF Below

-----------------------------------------------------------------------------
(* Scores *)

\* A tree that means something has a condition.
LEMMA HasCondition ==
    ASSUME NEW tree, IsConstraints(tree), Meaningful(tree)
    PROVE  LET leaves == {n \in DOMAIN tree : tree[n].op \notin Combinators}
           IN  IsFiniteSet(leaves) /\ leaves # {}
<1> DEFINE D       == DOMAIN tree
           Lengths == {Len(n) : n \in D}
           length  == [n \in D |-> Len(n)]
           leaves  == {n \in DOMAIN tree : tree[n].op \notin Combinators}
<1>1. /\ IsFiniteSet(D) /\ <<>> \in D /\ D \subseteq Seq(Nat)
      /\ \A n \in D : n \in Seq(Nat) /\ Len(n) \in Nat
  BY DEF IsConstraints, IsTree
<1>2. IsFiniteSet(Lengths)
  <2>1. length \in Surjection(D, Lengths)
    BY DEF Surjection
  <2> HIDE DEF length, Lengths, D
  <2> QED BY <1>1, <2>1, FS_Surjection
<1>3. Lengths \subseteq Nat /\ Lengths # {}
  BY <1>1
<1>4. PICK l \in Lengths : \A m \in Lengths : l >= m
  <2> HIDE DEF Lengths
  <2> QED BY <1>2, <1>3, GreatestExists
<1>5. PICK n \in D : Len(n) = l
  BY <1>4
<1>6. \A m \in D : Len(m) \in Lengths
  OBVIOUS
<1>7. Children(tree, n) = {}
  <2> SUFFICES ASSUME NEW c \in Children(tree, n) PROVE FALSE
    OBVIOUS
  <2>1. c \in D /\ Len(c) = Len(n) + 1
    BY <1>1, ChildIs
  <2>2. l >= Len(c)
    <3> HIDE DEF Lengths
    <3> QED BY <1>4, <1>6, <2>1
  <2> QED BY <1>1, <1>5, <2>1, <2>2
<1>8. n \in leaves
  BY <1>7 DEF Meaningful, IsConstraints, Combinators
<1>9. IsFiniteSet(leaves)
  <2>1. leaves \in SUBSET D
    OBVIOUS
  <2> HIDE DEF leaves, D
  <2> QED BY <1>1, <2>1, FS_Subset
<1> QED BY <1>8, <1>9

LEMMA ScoreType ==
    ASSUME NEW intent, IsConstraints(intent.constraints), Meaningful(intent.constraints),
           NEW c, IsCandidate(c)
    PROVE  Score(intent, c)[1] \in Int /\ Score(intent, c)[2] \in Nat \ {0}
<1> DEFINE leaves == {n \in DOMAIN intent.constraints : intent.constraints[n].op \notin Combinators}
           passed == {n \in leaves : evalNode(intent.constraints, c.record)[n]}
<1>1. IsFiniteSet(leaves) /\ leaves # {}
  BY HasCondition
<1>2. passed \in SUBSET leaves
  OBVIOUS
<1>3. Score(intent, c) = IF c.score # undeclared THEN c.score
                         ELSE IF Outcome(intent, c) = "over_budget" THEN <<0, 1>>
                         ELSE <<Cardinality(passed), Cardinality(leaves)>>
  BY DEF Score
<1>4. c.score # undeclared => c.score \in Int \X (Nat \ {0})
  BY DEF IsCandidate
<1> HIDE DEF leaves, passed
<1>5. Cardinality(leaves) \in Nat \ {0} /\ Cardinality(passed) \in Nat
  BY <1>1, <1>2, FS_Subset, FS_CardinalityType, FS_EmptySet
<1> QED BY <1>3, <1>4, <1>5

\* Of fractions, if the first is not greater than the second and the second not greater
\* than the third, the first is not greater than the third.
LEMMA FractionsOrdered ==
    ASSUME NEW a \in Int, NEW p \in Nat \ {0}, NEW b \in Int, NEW q \in Nat \ {0},
           NEW c \in Int, NEW r \in Nat \ {0}, a * q =< b * p, b * r =< c * q
    PROVE  a * r =< c * p
<1>1. \A x, y \in Int, z \in Nat : x =< y => x * z =< y * z
  OBVIOUS
<1>2. a * q \in Int /\ b * p \in Int /\ b * r \in Int /\ c * q \in Int /\ a * r \in Int /\ c * p \in Int
  OBVIOUS
<1>3. (a * q) * r =< (b * p) * r /\ (b * r) * p =< (c * q) * p
  BY <1>1, <1>2
<1>4. (a * q) * r = (a * r) * q /\ (b * p) * r = (b * r) * p /\ (c * q) * p = (c * p) * q
  OBVIOUS
<1>5. (a * r) * q =< (c * p) * q
  <2>1. (a * q) * r \in Int /\ (b * p) * r \in Int /\ (c * q) * p \in Int
    OBVIOUS
  <2> QED BY <1>3, <1>4, <2>1
<1>6. \A x, y \in Int, z \in Nat \ {0} : x * z =< y * z => x =< y
  OBVIOUS
<1> QED BY <1>2, <1>5, <1>6

\* An order by rank, in which some are before others.
Ordered(K, before) ==
    /\ IsFiniteSet(K)
    /\ \A k \in K : before[k] \subseteq K /\ k \notin before[k]
    /\ \A j, k \in K : j \in before[k] => before[j] \subseteq before[k]
    /\ \A j, k \in K : j # k => j \in before[k] \/ k \in before[j]

LEMMA PlacesApart ==
    ASSUME NEW K, NEW before, Ordered(K, before), NEW j \in K, NEW k \in K
    PROVE  /\ Cardinality(before[k]) \in 0 .. Cardinality(K) - 1
           /\ j \in before[k] <=> Cardinality(before[j]) < Cardinality(before[k])
           /\ Cardinality(before[j]) = Cardinality(before[k]) => j = k
<1> DEFINE place(i) == Cardinality(before[i])
<1>1. IsFiniteSet(K) /\ Cardinality(K) \in Nat
  BY FS_CardinalityType DEF Ordered
<1>2. ASSUME NEW i \in K
      PROVE  IsFiniteSet(before[i]) /\ place(i) \in Nat /\ place(i) =< Cardinality(K) - 1
  <2>1. before[i] \in SUBSET (K \ {i})
    BY DEF Ordered
  <2>2. IsFiniteSet(K \ {i}) /\ Cardinality(K \ {i}) = Cardinality(K) - 1
    BY <1>1, FS_RemoveElement
  <2> QED BY <2>1, <2>2, FS_Subset, FS_CardinalityType
<1>3. ASSUME NEW i \in K, NEW l \in K, i \in before[l] PROVE place(i) < place(l)
  <2>1. before[i] \in SUBSET before[l] /\ i \notin before[i]
    BY <1>3 DEF Ordered
  <2>2. place(i) =< place(l) /\ (place(l) = place(i) => before[l] = before[i])
    BY <1>2, <2>1, FS_Subset
  <2>3. place(i) # place(l)
    BY <1>3, <2>1, <2>2
  <2> QED BY <1>2, <2>2, <2>3
<1>4. place(j) \in Nat /\ place(k) \in Nat
  BY <1>2
<1>5. j # k => j \in before[k] \/ k \in before[j]
  BY DEF Ordered
<1>6. /\ j \in before[k] => place(j) < place(k)
      /\ k \in before[j] => place(k) < place(j)
  BY <1>3
<1> QED BY <1>1, <1>2, <1>4, <1>5, <1>6

\* Every place is somebody's.
LEMMA PlacesTaken ==
    ASSUME NEW K, NEW before, Ordered(K, before), NEW p \in 0 .. Cardinality(K) - 1
    PROVE  \E k \in K : Cardinality(before[k]) = p
<1> DEFINE n     == Cardinality(K)
           place == [k \in K |-> Cardinality(before[k])]
<1>1. IsFiniteSet(K) /\ n \in Nat
  BY FS_CardinalityType DEF Ordered
<1>2. place \in Injection(K, 0 .. n - 1)
  <2>1. \A k \in K : Cardinality(before[k]) \in 0 .. n - 1
    BY PlacesApart
  <2>2. \A j, k \in K : Cardinality(before[j]) = Cardinality(before[k]) => j = k
    BY PlacesApart
  <2> QED BY <2>1, <2>2 DEF Injection, IsInjective
<1>3. IsFiniteSet(0 .. n - 1) /\ Cardinality(0 .. n - 1) = n
  BY <1>1, FS_Interval
<1> HIDE DEF place
<1>4. place \in Surjection(K, 0 .. n - 1)
  BY <1>1, <1>2, <1>3, FS_Injection
<1> QED BY <1>4 DEF Surjection, place

-----------------------------------------------------------------------------
(* The candidates in their order *)

\* Who is put before a candidate: who outscores it, or has the same score and came first.
AheadOf(intent, candidates) ==
    [k \in Kept(intent, candidates) |->
        {j \in Kept(intent, candidates) :
            \/ Outscores(intent, candidates[j], candidates[k])
            \/ ~Outscores(intent, candidates[k], candidates[j]) /\ j < k}]

IsQuery(intent, candidates) ==
    /\ IsConstraints(intent.constraints) /\ Meaningful(intent.constraints)
    /\ \A p \in intent.include \cup intent.exclude : IsPointer(p)
    /\ intent.budget # undeclared => intent.budget.amount \in Int
    /\ Len(candidates) \in Nat /\ DOMAIN candidates = 1 .. Len(candidates)
    /\ \A k \in DOMAIN candidates : IsCandidate(candidates[k])

LEMMA KeptOrdered ==
    ASSUME NEW intent, NEW candidates, IsQuery(intent, candidates)
    PROVE  Ordered(Kept(intent, candidates), AheadOf(intent, candidates))
<1> DEFINE K      == Kept(intent, candidates)
           num(k) == Score(intent, candidates[k])[1]
           den(k) == Score(intent, candidates[k])[2]
           out(j, k) == Outscores(intent, candidates[j], candidates[k])
           ahead  == AheadOf(intent, candidates)
<1>1. K \subseteq 1 .. Len(candidates) /\ Len(candidates) \in Nat
      /\ \A k \in K : k \in Nat /\ IsCandidate(candidates[k])
  BY DEF Kept, IsQuery
<1>2. IsFiniteSet(K)
  <2>1. IsFiniteSet(1 .. Len(candidates))
    BY <1>1, FS_Interval
  <2> QED BY <1>1, <2>1, FS_Subset
<1>3. \A k \in K : num(k) \in Int /\ den(k) \in Nat \ {0}
  BY <1>1, ScoreType DEF IsQuery
<1>4. \A j, k \in K : out(j, k) <=> num(j) * den(k) > num(k) * den(j)
  BY DEF Outscores
<1>5. \A k \in K : ahead[k] = {j \in K : out(j, k) \/ (~out(k, j) /\ j < k)}
  BY DEF AheadOf
<1> HIDE DEF K, num, den, out, ahead
<1>6. \A j, k \in K : num(j) * den(k) \in Int /\ num(k) * den(j) \in Int
  BY <1>3
<1>7. \A j, k \in K : out(j, k) => ~out(k, j)
  BY <1>4, <1>6
<1>8. ASSUME NEW j \in K, NEW k \in K, NEW l \in K, ~out(j, k), ~out(k, l) PROVE ~out(j, l)
  <2>1. num(j) * den(k) =< num(k) * den(j) /\ num(k) * den(l) =< num(l) * den(k)
    BY <1>4, <1>6, <1>8
  <2>2. num(j) * den(l) =< num(l) * den(j)
    BY <1>3, <2>1, FractionsOrdered
  <2> QED BY <1>4, <1>6, <2>2
<1>9. ASSUME NEW j \in K, NEW k \in K, j \in ahead[k] PROVE ahead[j] \subseteq ahead[k]
  <2> SUFFICES ASSUME NEW i \in ahead[j] PROVE i \in ahead[k]
    OBVIOUS
  <2>1. i \in K /\ (out(i, j) \/ (~out(j, i) /\ i < j))
    BY <1>5
  <2>2. out(j, k) \/ (~out(k, j) /\ j < k)
    BY <1>5, <1>9
  <2>3. ~out(k, j) /\ ~out(j, i) /\ ~out(k, i)
    BY <1>7, <1>8, <2>1, <2>2
  <2>4. out(i, k) \/ i < k
    <3>1. CASE i < j /\ j < k
      BY <1>1, <2>1, <3>1
    <3>2. CASE out(i, j)
      BY <1>8, <2>1, <2>3, <3>2
    <3>3. CASE out(j, k)
      BY <1>8, <2>1, <2>3, <3>3
    <3> QED BY <2>1, <2>2, <3>1, <3>2, <3>3
  <2> QED BY <1>5, <2>1, <2>3, <2>4
<1>10. \A k \in K : ahead[k] \subseteq K /\ k \notin ahead[k]
  BY <1>1, <1>5, <1>7
<1>11. \A j, k \in K : j # k => j \in ahead[k] \/ k \in ahead[j]
  <2> SUFFICES ASSUME NEW j \in K, NEW k \in K, j # k PROVE j \in ahead[k] \/ k \in ahead[j]
    OBVIOUS
  <2>1. j < k \/ k < j
    BY <1>1
  <2> QED BY <1>5, <2>1
<1>12. Ordered(K, ahead)
  BY <1>2, <1>9, <1>10, <1>11 DEF Ordered
<1> QED BY <1>12 DEF K, ahead

\* The rows are those of the kept candidates, each once.
LEMMA RankedRows ==
    ASSUME NEW intent, NEW candidates, IsQuery(intent, candidates)
    PROVE  LET ranked == Ranked(intent, candidates)
               n      == Cardinality(Kept(intent, candidates))
           IN  /\ n \in Nat /\ DOMAIN ranked = 1 .. n /\ ranked \in Seq(Range(ranked))
               /\ \A r \in 1 .. n : ranked[r].candidate \in Kept(intent, candidates)
               /\ \A k \in Kept(intent, candidates) : \E r \in 1 .. n : ranked[r].candidate = k
               /\ \A r \in 1 .. n :
                      LET c == candidates[ranked[r].candidate]
                      IN  /\ ranked[r].over_budget = (Outcome(intent, c) = "over_budget")
                          /\ ranked[r].payload = project(c.record, intent.include, intent.exclude)
<1> DEFINE K      == Kept(intent, candidates)
           ahead  == AheadOf(intent, candidates)
           n      == Cardinality(K)
           ranked == Ranked(intent, candidates)
           row(k) == [candidate   |-> k,
                      score       |-> Score(intent, candidates[k]),
                      over_budget |-> Outcome(intent, candidates[k]) = "over_budget",
                      payload     |-> project(candidates[k].record, intent.include, intent.exclude)]
           who(r) == CHOOSE k \in K : Cardinality(ahead[k]) = r - 1
<1>1. Ordered(K, ahead)
  BY KeptOrdered
<1>2. n \in Nat
  BY <1>1, FS_CardinalityType DEF Ordered
<1>3. ranked = [r \in 1 .. n |-> row(CHOOSE k \in K : Cardinality({j \in K :
                         \/ Outscores(intent, candidates[j], candidates[k])
                         \/ ~Outscores(intent, candidates[k], candidates[j]) /\ j < k}) = r - 1)]
  BY DEF Ranked
<1>4. \A k \in K : ahead[k] = {j \in K :
                         \/ Outscores(intent, candidates[j], candidates[k])
                         \/ ~Outscores(intent, candidates[k], candidates[j]) /\ j < k}
  BY DEF AheadOf
<1> DEFINE as(k) == Cardinality({j \in K :
                         \/ Outscores(intent, candidates[j], candidates[k])
                         \/ ~Outscores(intent, candidates[k], candidates[j]) /\ j < k})
           chosen(r) == CHOOSE k \in K : as(k) = r - 1
<1>5. ranked = [r \in 1 .. n |-> row(chosen(r))]
  BY <1>3
<1>6. \A k \in K : as(k) = Cardinality(ahead[k])
  BY <1>4
<1> HIDE DEF K, ahead, n, ranked, as, row
<1>7. ASSUME NEW r \in 1 .. n PROVE chosen(r) \in K /\ as(chosen(r)) = r - 1
  <2>1. r - 1 \in 0 .. Cardinality(K) - 1
    BY <1>2 DEF n
  <2>2. \E k \in K : Cardinality(ahead[k]) = r - 1
    BY <1>1, <2>1, PlacesTaken
  <2>3. \E k \in K : as(k) = r - 1
    BY <1>6, <2>2
  <2> QED BY <2>3
<1>8. ASSUME NEW k \in K PROVE \E r \in 1 .. n : chosen(r) = k
  <2>1. Cardinality(ahead[k]) \in 0 .. n - 1
    BY <1>1, PlacesApart DEF n
  <2> DEFINE r == Cardinality(ahead[k]) + 1
  <2>2. r \in 1 .. n /\ r - 1 = Cardinality(ahead[k])
    BY <1>2, <2>1
  <2>3. chosen(r) \in K /\ Cardinality(ahead[chosen(r)]) = Cardinality(ahead[k])
    BY <1>6, <1>7, <2>2
  <2> HIDE DEF chosen, r
  <2>4. chosen(r) = k
    BY <1>1, <2>3, PlacesApart
  <2> QED BY <2>2, <2>4
<1> HIDE DEF chosen
<1>9. DOMAIN ranked = 1 .. n /\ \A r \in 1 .. n : ranked[r] = row(chosen(r))
  BY <1>5
<1>10. \A k : /\ row(k).candidate = k
              /\ row(k).over_budget = (Outcome(intent, candidates[k]) = "over_budget")
              /\ row(k).payload = project(candidates[k].record, intent.include, intent.exclude)
  BY DEF row
<1>11. ranked \in Seq(Range(ranked))
  <2>1. ranked \in [1 .. n -> Range(ranked)]
    BY <1>5, <1>9 DEF Range
  <2> QED BY <1>2, <2>1
<1>12. \A r \in 1 .. n : ranked[r].candidate = chosen(r)
  BY <1>9, <1>10
<1>13. \A r \in 1 .. n :
           /\ ranked[r].over_budget = (Outcome(intent, candidates[ranked[r].candidate]) = "over_budget")
           /\ ranked[r].payload = project(candidates[ranked[r].candidate].record, intent.include, intent.exclude)
  BY <1>9, <1>10
<1> QED BY <1>2, <1>7, <1>8, <1>9, <1>11, <1>12, <1>13 DEF K, n, ranked

\* Whom the Intent denotes within its budget.
Suits(intent, c) ==
    /\ Satisfies(c.record, intent.constraints)
    /\ intent.budget = undeclared \/ c.cost \notin Int \/ c.cost =< intent.budget.amount
    /\ c.quality # undeclared => HighEnough(c.quality, intent.floor)

LEMMA OutcomeSuits ==
    ASSUME NEW intent, IsConstraints(intent.constraints), Meaningful(intent.constraints),
           intent.budget # undeclared => intent.budget.amount \in Int, NEW c, IsCandidate(c)
    PROVE  Outcome(intent, c) = "accept" <=> Suits(intent, c)
<1>1. evaluate(intent.constraints, c.record) <=> Satisfies(c.record, intent.constraints)
  BY EvaluatesSatisfies DEF IsCandidate
<1> DEFINE ok    == evaluate(intent.constraints, c.record)
           floor == c.quality # undeclared /\ ~checkQualityFloor(intent.floor, c.quality)
           dear  == overBudget(intent, c)
<1>2. Outcome(intent, c) = CASE ~ok -> "reject"
                             [] ok /\ floor -> "below_quality_floor"
                             [] OTHER -> IF dear THEN "over_budget" ELSE "accept"
  BY DEF Outcome
<1>3. Suits(intent, c) <=> ok /\ ~dear /\ ~floor
  <2>1. ~dear <=> intent.budget = undeclared \/ c.cost \notin Int \/ c.cost =< intent.budget.amount
    BY DEF overBudget
  <2>2. ~floor <=> (c.quality # undeclared => HighEnough(c.quality, intent.floor))
    BY DEF checkQualityFloor, HighEnough
  <2> QED BY <1>1, <2>1, <2>2 DEF Suits
<1> HIDE DEF ok, floor, dear
<1>4. CASE ~ok
  BY <1>2, <1>3, <1>4
<1>5. CASE ok /\ floor
  BY <1>2, <1>3, <1>5
<1>6. CASE ok /\ ~floor
  BY <1>2, <1>3, <1>6
<1> QED BY <1>4, <1>5, <1>6

-----------------------------------------------------------------------------
(* The answers *)

Named(rows) == {rows[r].candidate : r \in {r \in DOMAIN rows : ~rows[r].over_budget}}

\* What is said of the answer to a query.
AnswerDenoted(intent, candidates, rows) ==
    LET denoted == {k \in DOMAIN candidates : Suits(intent, candidates[k])}
    IN  /\ Named(rows) \subseteq denoted
        /\ intent.policy # "single_best" => Named(rows) = denoted
        /\ intent.policy = "single_best" /\ denoted # {} => rows # <<>>
        /\ \A r \in DOMAIN rows :
               LET record == candidates[rows[r].candidate].record
               IN  rows[r].payload =
                       {n \in DOMAIN record : \E top \in Shown(record, intent) : n \in Below(record, top)}

LEMMA RankedDenoted ==
    ASSUME NEW intent, NEW candidates, IsQuery(intent, candidates)
    PROVE  LET ranked == Ranked(intent, candidates)
               denoted == {k \in DOMAIN candidates : Suits(intent, candidates[k])}
           IN  /\ Named(ranked) = denoted
               /\ denoted # {} => DOMAIN ranked # {}
               /\ \A r \in DOMAIN ranked :
                      LET record == candidates[ranked[r].candidate].record
                      IN  ranked[r].payload =
                              {n \in DOMAIN record :
                                  \E top \in Shown(record, intent) : n \in Below(record, top)}
<1> DEFINE ranked  == Ranked(intent, candidates)
           denoted == {k \in DOMAIN candidates : Suits(intent, candidates[k])}
           K       == Kept(intent, candidates)
           n       == Cardinality(K)
<1>1. /\ DOMAIN ranked = 1 .. n
      /\ \A r \in 1 .. n : ranked[r].candidate \in K
      /\ \A k \in K : \E r \in 1 .. n : ranked[r].candidate = k
      /\ \A r \in 1 .. n :
             LET c == candidates[ranked[r].candidate]
             IN  /\ ranked[r].over_budget = (Outcome(intent, c) = "over_budget")
                 /\ ranked[r].payload = project(c.record, intent.include, intent.exclude)
  BY RankedRows
<1>2. \A k : k \in K <=> k \in DOMAIN candidates
                         /\ Outcome(intent, candidates[k]) \in {"accept", "over_budget"}
  BY DEF Kept
<1>3. \A k \in DOMAIN candidates : IsCandidate(candidates[k])
  BY DEF IsQuery
<1>4. \A k \in DOMAIN candidates :
          Outcome(intent, candidates[k]) = "accept" <=> Suits(intent, candidates[k])
  BY <1>3, OutcomeSuits DEF IsQuery
<1>5. \A k : k \in denoted <=> k \in K /\ ~ (Outcome(intent, candidates[k]) = "over_budget")
  BY <1>2, <1>4
<1> HIDE DEF ranked, denoted, K, n
<1>6. \A r \in 1 .. n : ranked[r].over_budget = (Outcome(intent, candidates[ranked[r].candidate]) = "over_budget")
  BY <1>1
<1>7. \A k : k \in Named(ranked) <=> \E r \in 1 .. n : k = ranked[r].candidate /\ ~ranked[r].over_budget
  BY <1>1 DEF Named
<1>8. Named(ranked) = denoted
  <2>1. ASSUME NEW k \in Named(ranked) PROVE k \in denoted
    <3>1. PICK r \in 1 .. n : k = ranked[r].candidate /\ ~ranked[r].over_budget
      BY <1>7
    <3> QED BY <1>1, <1>5, <1>6, <3>1
  <2>2. ASSUME NEW k \in denoted PROVE k \in Named(ranked)
    <3>1. PICK r \in 1 .. n : ranked[r].candidate = k
      BY <1>1, <1>5
    <3>2. ~ranked[r].over_budget
      BY <1>5, <1>6, <3>1
    <3> QED BY <1>7, <3>1, <3>2
  <2> QED BY <2>1, <2>2
<1>9. denoted # {} => DOMAIN ranked # {}
  BY <1>1, <1>5
<1>10. ASSUME NEW r \in DOMAIN ranked
       PROVE  LET record == candidates[ranked[r].candidate].record
              IN  ranked[r].payload =
                      {m \in DOMAIN record : \E top \in Shown(record, intent) : m \in Below(record, top)}
  <2> DEFINE record == candidates[ranked[r].candidate].record
  <2>1. ranked[r].payload = project(record, intent.include, intent.exclude)
    BY <1>1
  <2>2. IsRecord(record)
    BY <1>1, <1>2, <1>3 DEF IsCandidate
  <2>3. \A p \in intent.include \cup intent.exclude : IsPointer(p)
    BY DEF IsQuery
  <2> HIDE DEF record
  <2>4. ranked[r].payload =
            {m \in DOMAIN record : \E top \in Shown(record, intent) : m \in Below(record, top)}
    BY <2>1, <2>2, <2>3, ProjectsShown
  <2> QED BY <2>4 DEF record
<1> QED BY <1>8, <1>9, <1>10 DEF ranked, denoted

LEMMA ResolvedDenoted ==
    ASSUME NEW intent, NEW candidates, IsQuery(intent, candidates)
    PROVE  AnswerDenoted(intent, candidates, resolveIntent(intent, candidates))
<1> DEFINE ranked  == Ranked(intent, candidates)
           denoted == {k \in DOMAIN candidates : Suits(intent, candidates[k])}
           rows    == resolveIntent(intent, candidates)
           n       == Cardinality(Kept(intent, candidates))
           shown(record) == {m \in DOMAIN record : \E top \in Shown(record, intent) : m \in Below(record, top)}
           payload(k) == shown(candidates[k].record)
<1>1. /\ Named(ranked) = denoted
      /\ denoted # {} => DOMAIN ranked # {}
      /\ \A r \in DOMAIN ranked : ranked[r].payload = payload(ranked[r].candidate)
  BY RankedDenoted
<1>2. n \in Nat /\ DOMAIN ranked = 1 .. n /\ ranked \in Seq(Range(ranked))
  BY RankedRows
<1> DEFINE m == Min({1, Len(ranked)})
<1>3. rows = IF intent.policy = "single_best" THEN SubSeq(ranked, 1, m) ELSE ranked
  BY DEF resolveIntent
<1>4. Len(ranked) = n
  <2> HIDE DEF ranked, n
  <2> QED BY <1>2
<1>5. m = IF n = 0 THEN 0 ELSE 1
  <2>1. \E x \in {1, n} : \A y \in {1, n} : x =< y
    BY <1>2
  <2> HIDE DEF n
  <2>2. Min({1, n}) \in {1, n} /\ Min({1, n}) =< 1 /\ Min({1, n}) =< n
    BY <2>1 DEF Min
  <2>3. Min({1, n}) = IF n = 0 THEN 0 ELSE 1
    BY <1>2, <2>2
  <2> QED BY <1>4, <2>3
<1> HIDE DEF ranked, denoted, n, m, rows, payload
<1>6. CASE intent.policy # "single_best"
  <2>1. rows = ranked
    BY <1>3, <1>6
  <2>2. AnswerDenoted(intent, candidates, ranked)
    BY <1>1, <1>6 DEF AnswerDenoted, denoted, payload
  <2> QED BY <2>1, <2>2 DEF rows
<1>7. CASE intent.policy = "single_best"
  <2>1. rows = SubSeq(ranked, 1, m)
    BY <1>3, <1>7
  <2>2. \A i \in 1 .. m : ranked[i] \in Range(ranked)
    BY <1>2, <1>5 DEF Range
  <2>3. /\ Len(rows) = m /\ DOMAIN rows = 1 .. m
        /\ \A r \in 1 .. m : rows[r] = ranked[r]
    <3>1. m \in {0, 1}
      BY <1>5
    <3> QED BY <1>2, <1>5, <2>1, <2>2, <3>1
  <2>4. \A r \in DOMAIN rows : r \in DOMAIN ranked /\ rows[r] = ranked[r]
    BY <1>2, <1>5, <2>3
  <2>5. Named(rows) \subseteq Named(ranked)
    BY <2>4 DEF Named
  <2>6. denoted # {} => rows # <<>>
    <3>1. denoted # {} => m = 1
      BY <1>1, <1>2, <1>5
    <3>2. m = 1 => rows # <<>>
      <4>1. DOMAIN << >> = {}
        OBVIOUS
      <4>2. m = 1 => 1 \in DOMAIN rows
        BY <2>3
      <4> QED BY <4>1, <4>2
    <3> QED BY <3>1, <3>2
  <2>7. \A r \in DOMAIN rows : rows[r].payload = payload(rows[r].candidate)
    BY <1>1, <2>4
  <2>8. AnswerDenoted(intent, candidates, rows)
    BY <1>1, <1>7, <2>5, <2>6, <2>7 DEF AnswerDenoted, denoted, payload
  <2> QED BY <2>8 DEF rows
<1> QED BY <1>6, <1>7

\* What is said of an answer, whether or not it is to a query.
Denoting(query, a) ==
    a.to = "resolve" =>
        /\ Meaningful(query[1].constraints)
        /\ AnswerDenoted(query[1], query[2], a.candidates)

QueryInv == request \in QueryRequests /\ Denoting(request.query, answer)

LEMMA DenotingIs ==
    ASSUME Denoting(request.query, answer)
    PROVE  AnswersDenoted
<1> SUFFICES ASSUME answer.to = "resolve" PROVE AnswersDenoted
  BY DEF AnswersDenoted, Answered
<1> DEFINE intent     == request.query[1]
           candidates == request.query[2]
           list    == answer.candidates
           named   == {list[r].candidate : r \in {r \in DOMAIN list : ~list[r].over_budget}}
           denoted == {k \in DOMAIN candidates : Suits(intent, candidates[k])}
<1>1. Meaningful(intent.constraints) /\ AnswerDenoted(intent, candidates, list)
  BY DEF Denoting
<1>2. named = Named(list)
  BY DEF Named
<1>3. /\ named \subseteq denoted
      /\ intent.policy # "single_best" => named = denoted
      /\ intent.policy = "single_best" /\ denoted # {} => list # <<>>
  <2> HIDE DEF intent, candidates, list
  <2> QED BY <1>1, <1>2 DEF AnswerDenoted
<1>4. \A r \in DOMAIN list :
          LET record == candidates[list[r].candidate].record
          IN  list[r].payload =
                  {n \in DOMAIN record : \E top \in Shown(record, intent) : n \in Below(record, top)}
  <2> HIDE DEF intent, candidates, list
  <2> QED BY <1>1 DEF AnswerDenoted
<1> QED BY <1>1, <1>3, <1>4 DEF AnswersDenoted, Suits

\* Only an Intent with a meaning is answered, and an answer names whom the Intent denotes
\* and holds what it shows of them: for all records, constraints and pointers, and any
\* number of candidates.
THEOREM QueriesDenoted == QuerySpec => []AnswersDenoted
<1>1. request \in QueryRequests /\ answer = None => QueryInv
  BY DEF QueryInv, Denoting, None
<1>2. QueryInv /\ [Resolve]_vars => QueryInv'
  <2> SUFFICES ASSUME QueryInv, [Resolve]_vars PROVE QueryInv'
    OBVIOUS
  <2>1. CASE Resolve
    <3> DEFINE intent     == request.query[1]
               candidates == request.query[2]
    <3>1. request' = request /\ request \in QueryRequests /\ request.query \in Queries
      BY <2>1 DEF Resolve, QueryInv, QueryRequests
    <3>2. CASE ~parseIntent(intent)
      <4>1. answer' = [to |-> "invalid_intent"]
        BY <2>1, <3>2 DEF Resolve
      <4> QED BY <3>1, <4>1 DEF QueryInv, Denoting
    <3>3. CASE parseIntent(intent)
      <4>1. answer' = [to |-> "resolve", candidates |-> resolveIntent(intent, candidates)]
        BY <2>1, <3>3 DEF Resolve
      <4>2. /\ IsConstraints(intent.constraints)
            /\ \A p \in intent.include \cup intent.exclude : IsPointer(p)
            /\ intent.budget # undeclared => intent.budget.amount \in Int
            /\ Len(candidates) \in Nat /\ DOMAIN candidates = 1 .. Len(candidates)
            /\ \A k \in DOMAIN candidates : IsCandidate(candidates[k])
        BY <3>1, QueriesAssumption
      <4>3. Meaningful(intent.constraints)
        BY <3>3, <4>2, AcceptedMeaningful DEF parseIntent
      <4> HIDE DEF intent, candidates
      <4>4. IsQuery(intent, candidates)
        BY <4>2, <4>3 DEF IsQuery
      <4> DEFINE rows == resolveIntent(intent, candidates)
      <4>5. AnswerDenoted(intent, candidates, rows)
        BY <4>2, <4>4, ResolvedDenoted
      <4>6. answer'.candidates = rows
        BY <4>1
      <4> HIDE DEF rows
      <4> QED BY <3>1, <4>3, <4>5, <4>6 DEF QueryInv, Denoting, intent, candidates
    <3> QED BY <3>2, <3>3
  <2>2. CASE UNCHANGED vars
    BY <2>2 DEF vars, QueryInv
  <2> QED BY <2>1, <2>2
<1>3. QueryInv => AnswersDenoted
  BY DenotingIs DEF QueryInv
<1> QED BY <1>1, <1>2, <1>3, PTL DEF QuerySpec

-----------------------------------------------------------------------------
IsCandidates(candidates) == candidates \in Seq(RankingInput)

-----------------------------------------------------------------------------
(* Quotients and extremes *)

\* A quotient grows with the fraction.
LEMMA QuotientGrows ==
    ASSUME NEW a \in Nat, NEW r \in Nat \ {0}, NEW b \in Nat, NEW s \in Nat \ {0}, a * s =< b * r
    PROVE  a \div r =< b \div s
<1> DEFINE p == a \div r
           q == b \div s
<1>1. p \in Nat /\ q \in Nat /\ r * p =< a /\ b < s * q + s
  OBVIOUS
<1> HIDE DEF p, q
<1>2. ASSUME p >= q + 1 PROVE FALSE
  <2>1. r * p >= r * (q + 1)
    BY <1>1, <1>2
  <2>2. a >= r * (q + 1)
    BY <1>1, <2>1
  <2>3. a * s >= r * (q + 1) * s
    BY <1>1, <2>2
  <2>4. b * r < (s * q + s) * r
    BY <1>1
  <2>5. (s * q + s) * r = r * (q + 1) * s
    BY <1>1
  <2>6. a * s \in Int /\ b * r \in Int /\ r * (q + 1) * s \in Int
    BY <1>1
  <2> QED BY <2>3, <2>4, <2>5, <2>6
<1>3. p =< q
  BY <1>1, <1>2
<1> QED BY <1>3 DEF p, q

LEMMA QuotientAtMost ==
    ASSUME NEW a \in Nat, NEW r \in Nat \ {0}, NEW k \in Nat, a =< k * r
    PROVE  a \div r \in 0 .. k
<1> DEFINE p == a \div r
<1>1. p \in Nat /\ r * p =< a
  OBVIOUS
<1> HIDE DEF p
<1>2. \A x \in Nat : x > k => r * x > k * r
  OBVIOUS
<1>3. p \in 0 .. k
  BY <1>1, <1>2
<1> QED BY <1>3 DEF p

LEMMA Extremes ==
    ASSUME NEW T, T \subseteq Nat, IsFiniteSet(T), T # {}
    PROVE  /\ Min(T) \in T /\ \A u \in T : Min(T) =< u
           /\ Max(T) \in T /\ \A u \in T : u =< Max(T)
           /\ Cardinality(T) # 1 => Min(T) < Max(T)
<1>1. Min(T) \in T /\ \A u \in T : Min(T) =< u
  BY LeastExists DEF Min
<1>2. Max(T) \in T /\ \A u \in T : Max(T) >= u
  BY GreatestExists DEF Max
<1>3. ASSUME ~ (Min(T) < Max(T)) PROVE Cardinality(T) = 1
  <2>1. \A u \in T : u = Min(T)
    <3> TAKE u \in T
    <3> DEFINE lo == Min(T)
               hi == Max(T)
    <3>1. lo \in Nat /\ hi \in Nat /\ lo =< u /\ hi >= u /\ ~ (lo < hi) /\ u \in Nat
      BY <1>1, <1>2, <1>3
    <3> HIDE DEF lo, hi
    <3>2. u = lo
      BY <3>1
    <3> QED BY <3>2 DEF lo
  <2>2. T = {Min(T)}
    BY <1>1, <2>1
  <2> QED BY <2>2, FS_Singleton
<1> QED BY <1>1, <1>2, <1>3

LEMMA Smaller ==
    ASSUME NEW a \in Int, NEW b \in Int
    PROVE  Min({a, b}) = IF a =< b THEN a ELSE b
<1>1. \E x \in {a, b} : \A y \in {a, b} : x =< y
  OBVIOUS
<1>2. Min({a, b}) \in {a, b} /\ Min({a, b}) =< a /\ Min({a, b}) =< b
  BY <1>1 DEF Min
<1> QED BY <1>2

LEMMA Larger ==
    ASSUME NEW a \in Int, NEW b \in Int
    PROVE  Max({a, b}) = IF a >= b THEN a ELSE b
<1>1. \E x \in {a, b} : \A y \in {a, b} : x >= y
  OBVIOUS
<1>2. Max({a, b}) \in {a, b} /\ Max({a, b}) >= a /\ Max({a, b}) >= b
  BY <1>1 DEF Max
<1> QED BY <1>2

-----------------------------------------------------------------------------
(* The order of a ranking *)

\* Who is before k: of higher score, or of the same and ahead of it in the input.
Before(k, score, n) == {j \in 1 .. n : score[j] > score[k] \/ (score[j] = score[k] /\ j < k)}

Place(k, score, n) == Cardinality(Before(k, score, n))

Scores(score, n) == n \in Nat /\ \A k \in 1 .. n : score[k] \in Int

LEMMA BeforeOrder ==
    ASSUME NEW score, NEW n, Scores(score, n)
    PROVE  Ordered(1 .. n, [k \in 1 .. n |-> Before(k, score, n)]) /\ Cardinality(1 .. n) = n
<1>1. IsFiniteSet(1 .. n) /\ Cardinality(1 .. n) = n
  BY FS_Interval DEF Scores
<1>2. \A k \in 1 .. n : Before(k, score, n) \subseteq 1 .. n /\ k \notin Before(k, score, n)
  BY DEF Scores, Before
<1>3. \A j, k \in 1 .. n :
          j \in Before(k, score, n) => Before(j, score, n) \subseteq Before(k, score, n)
  BY DEF Scores, Before
<1>4. \A j, k \in 1 .. n : j # k => j \in Before(k, score, n) \/ k \in Before(j, score, n)
  BY DEF Scores, Before
<1> QED BY <1>1, <1>2, <1>3, <1>4 DEF Ordered

LEMMA PlaceOrder ==
    ASSUME NEW score, NEW n, Scores(score, n), NEW j \in 1 .. n, NEW k \in 1 .. n
    PROVE  /\ Place(k, score, n) \in 0 .. n - 1
           /\ j \in Before(k, score, n) <=> Place(j, score, n) < Place(k, score, n)
           /\ Place(j, score, n) = Place(k, score, n) => j = k
<1> DEFINE before == [i \in 1 .. n |-> Before(i, score, n)]
<1>1. Ordered(1 .. n, before) /\ Cardinality(1 .. n) = n
  BY BeforeOrder
<1>2. before[j] = Before(j, score, n) /\ before[k] = Before(k, score, n)
  OBVIOUS
<1> DEFINE K == 1 .. n
<1> HIDE DEF before
<1>3. /\ Cardinality(before[k]) \in 0 .. Cardinality(1 .. n) - 1
      /\ j \in before[k] <=> Cardinality(before[j]) < Cardinality(before[k])
      /\ Cardinality(before[j]) = Cardinality(before[k]) => j = k
  <2>1. Ordered(K, before) /\ j \in K /\ k \in K
    BY <1>1
  <2> HIDE DEF K
  <2>2. /\ Cardinality(before[k]) \in 0 .. Cardinality(K) - 1
        /\ j \in before[k] <=> Cardinality(before[j]) < Cardinality(before[k])
        /\ Cardinality(before[j]) = Cardinality(before[k]) => j = k
    BY <2>1, PlacesApart
  <2> QED BY <2>2 DEF K
<1> QED BY <1>1, <1>2, <1>3 DEF Place

\* Every place is somebody's.
LEMMA PlaceTaken ==
    ASSUME NEW score, NEW n, Scores(score, n), NEW p \in 0 .. n - 1
    PROVE  \E k \in 1 .. n : Place(k, score, n) = p
<1> DEFINE all    == 1 .. n
           before == [i \in 1 .. n |-> Before(i, score, n)]
<1>1. Ordered(all, before) /\ Cardinality(all) = n
  BY BeforeOrder
<1>2. \A k \in all : before[k] = Before(k, score, n)
  OBVIOUS
<1>3. \E k \in all : Cardinality(before[k]) = p
  <2> HIDE DEF before, all
  <2>1. p \in 0 .. Cardinality(all) - 1
    BY <1>1
  <2> QED BY <1>1, <2>1, PlacesTaken
<1>4. PICK k \in 1 .. n : Cardinality(before[k]) = p
  BY <1>3
<1> HIDE DEF before
<1> QED BY <1>2, <1>4 DEF Place

ScoresOf(candidates) == [k \in DOMAIN candidates |-> finalScore(candidates, k)]

\* Whom the ranking puts above a candidate, and that everybody is in it.
LEMMA RankingOrder ==
    ASSUME NEW candidates, NEW n, n = Len(candidates), DOMAIN candidates = 1 .. n,
           Scores(ScoresOf(candidates), n)
    PROVE  /\ ToSet(rankCandidates(candidates)) = DOMAIN candidates
           /\ \A j \in DOMAIN candidates :
                  RankedAbove(rankCandidates(candidates), j) = Before(j, ScoresOf(candidates), n)
<1> DEFINE score  == ScoresOf(candidates)
           ranked == rankCandidates(candidates)
<1>1. ranked = [p \in 1 .. n |-> CHOOSE k \in 1 .. n : Place(k, score, n) = p - 1]
  BY DEF rankCandidates, ScoresOf, Place, Before
<1>2. n \in Nat
  BY DEF Scores
<1> HIDE DEF score, ranked
<1>3. ASSUME NEW p \in 1 .. n PROVE ranked[p] \in 1 .. n /\ Place(ranked[p], score, n) = p - 1
  <2>1. p - 1 \in 0 .. n - 1
    BY <1>2
  <2>2. \E k \in 1 .. n : Place(k, score, n) = p - 1
    BY <2>1, PlaceTaken DEF score
  <2> QED BY <1>1, <2>2
<1>4. ASSUME NEW k \in 1 .. n
      PROVE  Place(k, score, n) + 1 \in 1 .. n /\ ranked[Place(k, score, n) + 1] = k
  <2>1. Place(k, score, n) \in 0 .. n - 1
    BY PlaceOrder DEF score
  <2>2. Place(k, score, n) + 1 \in 1 .. n
    BY <1>2, <2>1
  <2> DEFINE l == ranked[Place(k, score, n) + 1]
  <2>3. l \in 1 .. n /\ Place(l, score, n) = Place(k, score, n)
    BY <1>3, <2>1, <2>2
  <2> HIDE DEF l
  <2>4. l = k
    BY <2>3, PlaceOrder DEF score
  <2> QED BY <2>2, <2>4 DEF l
<1>5. DOMAIN ranked = 1 .. n
  BY <1>1
<1>6. ToSet(ranked) = 1 .. n
  BY <1>3, <1>4, <1>5 DEF ToSet
<1>7. ASSUME NEW j \in 1 .. n PROVE RankedAbove(ranked, j) = Before(j, score, n)
  <2>1. ASSUME NEW i \in RankedAbove(ranked, j) PROVE i \in Before(j, score, n)
    <3>1. PICK p \in 1 .. n, q \in 1 .. n : i = ranked[p] /\ p < q /\ ranked[q] = j
      BY <1>5 DEF RankedAbove
    <3>2. /\ i \in 1 .. n /\ Place(i, score, n) = p - 1 /\ Place(j, score, n) = q - 1
      BY <1>3, <3>1
    <3>3. Place(i, score, n) < Place(j, score, n)
      BY <3>1, <3>2
    <3> QED BY <3>2, <3>3, PlaceOrder DEF score
  <2>2. ASSUME NEW i \in Before(j, score, n) PROVE i \in RankedAbove(ranked, j)
    <3>1. i \in 1 .. n
      BY DEF Before
    <3>2. Place(i, score, n) < Place(j, score, n) /\ Place(i, score, n) \in Int /\ Place(j, score, n) \in Int
      BY <3>1, PlaceOrder DEF score
    <3> DEFINE p == Place(i, score, n) + 1
               q == Place(j, score, n) + 1
    <3>3. p \in 1 .. n /\ q \in 1 .. n /\ ranked[p] = i /\ ranked[q] = j
      BY <1>4, <3>1
    <3>4. p < q
      BY <3>2
    <3> HIDE DEF p, q
    <3> QED BY <1>5, <3>3, <3>4 DEF RankedAbove
  <2> QED BY <2>1, <2>2
<1> QED BY <1>6, <1>7 DEF score, ranked

-----------------------------------------------------------------------------
(* The cost score *)

Costs(S) == S \subseteq Nat /\ IsFiniteSet(S)

Share(cost, lo, hi) == ((cost - lo) * Whole) \div (hi - lo)

LEMMA ShareRange ==
    ASSUME NEW lo \in Nat, NEW hi \in Nat, lo < hi, NEW cost \in lo .. hi
    PROVE  Share(cost, lo, hi) \in 0 .. Whole
<1>1. Whole \in Nat
  BY FixedPointAssumption
<1>2. hi - lo \in Nat \ {0} /\ cost - lo \in Nat /\ cost - lo =< hi - lo
  OBVIOUS
<1>3. \A x, y, w \in Nat : x =< y => x * w \in Nat /\ x * w =< w * y
  OBVIOUS
<1>4. (cost - lo) * Whole \in Nat /\ (cost - lo) * Whole =< Whole * (hi - lo)
  BY <1>1, <1>2, <1>3
<1> QED BY <1>1, <1>2, <1>4, QuotientAtMost DEF Share

\* The share of what is cheaper grows if the range moves down to it.
LEMMA ShareGrows ==
    ASSUME NEW lo \in Nat, NEW hi \in Nat, lo < hi, NEW x \in lo .. hi,
           NEW lo2 \in Nat, NEW hi2 \in Nat, lo2 < hi2, NEW y \in lo2 .. hi2,
           (x - lo) * (hi2 - lo2) =< (y - lo2) * (hi - lo)
    PROVE  Share(x, lo, hi) =< Share(y, lo2, hi2)
<1> DEFINE a == x - lo
           r == hi - lo
           b == y - lo2
           t == hi2 - lo2
<1>1. a \in Nat /\ b \in Nat /\ r \in Nat \ {0} /\ t \in Nat \ {0} /\ a * t =< b * r /\ Whole \in Nat
  BY FixedPointAssumption
<1>2. Share(x, lo, hi) = (a * Whole) \div r /\ Share(y, lo2, hi2) = (b * Whole) \div t
  BY DEF Share
<1> HIDE DEF a, b, r, t
<1>3. a * Whole \in Nat /\ b * Whole \in Nat
  BY <1>1
<1>4. (a * t) * Whole =< (b * r) * Whole
  <2>1. \A u, v, w \in Nat : u =< v => u * w =< v * w
    OBVIOUS
  <2>2. a * t \in Nat /\ b * r \in Nat
    BY <1>1
  <2> QED BY <1>1, <2>1, <2>2
<1>5. (a * Whole) * t = (a * t) * Whole /\ (b * Whole) * r = (b * r) * Whole
  BY <1>1
<1> QED BY <1>1, <1>2, <1>3, <1>4, <1>5, QuotientGrows

LEMMA CostScore ==
    ASSUME NEW S, Costs(S), NEW cost \in S
    PROVE  /\ Min(S) \in Nat /\ Max(S) \in Nat /\ cost \in Min(S) .. Max(S)
           /\ Cardinality(S) = 1 => /\ computeCostScore(cost, S) = Whole
                                    /\ S = {cost}
           /\ Cardinality(S) # 1 =>
                  /\ Min(S) < Max(S)
                  /\ computeCostScore(cost, S) = Whole - Share(cost, Min(S), Max(S))
           /\ computeCostScore(cost, S) \in 0 .. Whole
<1>1. /\ Min(S) \in Nat /\ Max(S) \in Nat /\ cost \in Min(S) .. Max(S)
      /\ Cardinality(S) # 1 => Min(S) < Max(S)
  <2> DEFINE lo == Min(S)
             hi == Max(S)
  <2>1. /\ lo \in S /\ (\A u \in S : lo =< u) /\ hi \in S /\ (\A u \in S : u =< hi)
        /\ Cardinality(S) # 1 => lo < hi
    BY Extremes DEF Costs
  <2> HIDE DEF lo, hi
  <2>2. lo \in Nat /\ hi \in Nat /\ cost \in Nat
    BY <2>1 DEF Costs
  <2>3. cost \in lo .. hi
    BY <2>1, <2>2
  <2> QED BY <2>1, <2>2, <2>3 DEF lo, hi
<1>2. cost # unpriced /\ S # {} /\ Whole \in Nat
  BY FixedPointAssumption DEF Costs
<1>3. ASSUME Cardinality(S) = 1 PROVE computeCostScore(cost, S) = Whole /\ S = {cost}
  <2>1. \E x : S = {x}
    BY <1>3, FS_Singleton DEF Costs
  <2> QED BY <1>2, <1>3, <2>1 DEF computeCostScore
<1>4. ASSUME Cardinality(S) # 1
      PROVE  computeCostScore(cost, S) = Whole - Share(cost, Min(S), Max(S))
  BY <1>2, <1>4 DEF computeCostScore, Share
<1>5. ASSUME Cardinality(S) # 1 PROVE Share(cost, Min(S), Max(S)) \in 0 .. Whole
  BY <1>1, <1>5, ShareRange
<1>6. computeCostScore(cost, S) \in 0 .. Whole
  BY <1>2, <1>3, <1>4, <1>5
<1> QED BY <1>1, <1>3, <1>4, <1>6

LEMMA UnpricedScore ==
    ASSUME NEW S
    PROVE  computeCostScore(unpriced, S) = Whole \div 2 /\ computeCostScore(unpriced, S) \in 0 .. Whole
<1>1. computeCostScore(unpriced, S) = Whole \div 2
  BY DEF computeCostScore
<1>2. Whole \div 2 \in 0 .. Whole
  BY FixedPointAssumption
<1> QED BY <1>1, <1>2

\* What is cheaper scores higher.
LEMMA CheaperScores ==
    ASSUME NEW S, Costs(S), NEW x \in S, NEW y \in S, x =< y
    PROVE  computeCostScore(x, S) >= computeCostScore(y, S)
<1>1. CASE Cardinality(S) = 1
  <2>1. x = y
    BY <1>1, CostScore
  <2>2. computeCostScore(x, S) \in Nat
    BY FixedPointAssumption, CostScore
  <2> QED BY <2>1, <2>2
<1>2. CASE Cardinality(S) # 1
  <2> DEFINE lo == Min(S)
             hi == Max(S)
  <2>1. lo \in Nat /\ hi \in Nat /\ lo < hi /\ x \in lo .. hi /\ y \in lo .. hi
    BY <1>2, CostScore
  <2>2. /\ computeCostScore(x, S) = Whole - Share(x, lo, hi)
        /\ computeCostScore(y, S) = Whole - Share(y, lo, hi)
    BY <1>2, CostScore
  <2> HIDE DEF lo, hi
  <2>3. \A u, v, w \in Nat : u =< v => u * w =< v * w
    OBVIOUS
  <2>4. (x - lo) * (hi - lo) =< (y - lo) * (hi - lo)
    <3>1. x - lo \in Nat /\ y - lo \in Nat /\ hi - lo \in Nat /\ x - lo =< y - lo
      BY <2>1
    <3> QED BY <2>3, <3>1
  <2>5. Share(x, lo, hi) =< Share(y, lo, hi)
    BY <2>1, <2>4, ShareGrows
  <2>6. Share(x, lo, hi) \in Int /\ Share(y, lo, hi) \in Int /\ Whole \in Int
    BY <2>1, ShareRange, FixedPointAssumption
  <2> QED BY <2>2, <2>5, <2>6
<1> QED BY <1>1, <1>2

LEMMA RangeMoves ==
    ASSUME NEW R, Costs(R), NEW a \in Nat, NEW b \in Nat, a < b
    PROVE  /\ Costs(R \cup {a}) /\ Costs(R \cup {b})
           /\ Min(R \cup {a}) \in Nat /\ Max(R \cup {a}) \in Nat
           /\ Min(R \cup {b}) \in Nat /\ Max(R \cup {b}) \in Nat
           /\ Min(R \cup {a}) =< Min(R \cup {b}) /\ Max(R \cup {a}) =< Max(R \cup {b})
           /\ Min(R \cup {a}) \in {a, Min(R \cup {b})}
           /\ Max(R \cup {b}) \in {b, Max(R \cup {a})}
           /\ a \in Min(R \cup {a}) .. Max(R \cup {a}) /\ b \in Min(R \cup {b}) .. Max(R \cup {b})
           /\ \A x \in R : /\ x \in Min(R \cup {a}) .. Max(R \cup {a})
                           /\ x \in Min(R \cup {b}) .. Max(R \cup {b})
<1> DEFINE S == R \cup {a}
           T == R \cup {b}
<1>1. Costs(S) /\ Costs(T)
  BY FS_AddElement DEF Costs
<1> DEFINE lo  == Min(S)
           hi  == Max(S)
           lo2 == Min(T)
           hi2 == Max(T)
<1>2. /\ lo \in S /\ (\A u \in S : lo =< u) /\ hi \in S /\ (\A u \in S : u =< hi)
      /\ lo2 \in T /\ (\A u \in T : lo2 =< u) /\ hi2 \in T /\ (\A u \in T : u =< hi2)
  <2>1. S # {} /\ T # {}
    OBVIOUS
  <2> HIDE DEF S, T
  <2> QED BY <1>1, <2>1, Extremes DEF Costs
<1>3. \A u \in R : u \in Nat
  BY DEF Costs
<1> HIDE DEF lo, hi, lo2, hi2
<1>4. lo \in Nat /\ hi \in Nat /\ lo2 \in Nat /\ hi2 \in Nat
  BY <1>2, <1>3
<1>5. lo =< lo2 /\ hi =< hi2
  BY <1>2, <1>3, <1>4
<1>6. lo \in {a, lo2} /\ hi2 \in {b, hi}
  BY <1>2, <1>3, <1>4
<1>7. a \in lo .. hi /\ b \in lo2 .. hi2 /\ \A x \in R : x \in lo .. hi /\ x \in lo2 .. hi2
  BY <1>2, <1>3, <1>4
<1> QED BY <1>1, <1>4, <1>5, <1>6, <1>7 DEF lo, hi, lo2, hi2

\* Nobody scores lower because another asks more.
LEMMA OthersGain ==
    ASSUME NEW R, Costs(R), NEW a \in Nat, NEW b \in Nat, a < b, NEW x \in R
    PROVE  computeCostScore(x, R \cup {a}) =< computeCostScore(x, R \cup {b})
<1> DEFINE S == R \cup {a}
           T == R \cup {b}
           lo  == Min(S)
           hi  == Max(S)
           lo2 == Min(T)
           hi2 == Max(T)
<1>1. /\ Costs(S) /\ Costs(T) /\ x \in S /\ x \in T
      /\ lo \in Nat /\ hi \in Nat /\ lo2 \in Nat /\ hi2 \in Nat
      /\ lo =< lo2 /\ hi =< hi2 /\ x \in lo .. hi /\ x \in lo2 .. hi2
  BY RangeMoves
<1>2. a \in S
  OBVIOUS
<1>3. b \in T /\ (Cardinality(S) = 1 => x = a)
  <2>1. Cardinality(S) = 1 => S = {a}
    <3> HIDE DEF S, T
    <3> QED BY <1>1, <1>2, CostScore
  <2> QED BY <2>1
<1> HIDE DEF S, T
<1>4. computeCostScore(x, S) \in 0 .. Whole /\ computeCostScore(x, T) \in 0 .. Whole /\ Whole \in Nat
  BY <1>1, CostScore, FixedPointAssumption
<1>5. CASE Cardinality(T) = 1
  <2>1. computeCostScore(x, T) = Whole
    BY <1>1, <1>5, CostScore
  <2> QED BY <1>4, <2>1 DEF S, T
<1>6. CASE Cardinality(T) # 1
  <2>1. lo2 < hi2 /\ computeCostScore(x, T) = Whole - Share(x, lo2, hi2)
    BY <1>1, <1>6, CostScore
  <2>2. Share(x, lo2, hi2) \in 0 .. Whole
    BY <1>1, <2>1, ShareRange
  <2>3. CASE Cardinality(S) = 1
    <3>1. x = a /\ S = {a}
      BY <1>1, <1>3, <2>3, CostScore
    <3>2. lo2 = x
      <4>1. lo \in S
        BY <1>1, Extremes DEF Costs
      <4> QED BY <1>1, <3>1, <4>1
    <3>3. Share(x, lo2, hi2) = 0
      <4>1. (x - lo2) * Whole = 0
        BY <1>1, <1>4, <3>2
      <4>2. 0 \div (hi2 - lo2) = 0
        BY <1>1, <2>1
      <4> QED BY <4>1, <4>2 DEF Share
    <3> QED BY <1>4, <2>1, <3>3 DEF S, T
  <2>4. CASE Cardinality(S) # 1
    <3>1. lo < hi /\ computeCostScore(x, S) = Whole - Share(x, lo, hi)
      BY <1>1, <2>4, CostScore
    <3> HIDE DEF lo, hi, lo2, hi2
    <3> DEFINE p == x - lo2
               d == lo2 - lo
               q == hi - x
               e == hi2 - hi
    <3>2. p \in Nat /\ d \in Nat /\ q \in Nat /\ e \in Nat
      BY <1>1
    <3>3. /\ x - lo2 = p /\ hi - lo = p + d + q
          /\ x - lo = p + d /\ hi2 - lo2 = p + q + e
      BY <1>1
    <3> HIDE DEF p, d, q, e
    <3>4. p * (p + d + q) =< (p + d) * (p + q + e)
      <4>1. (p + d) * (p + q + e) = p * (p + d + q) + p * e + d * (q + e)
        BY <3>2
      <4>2. p * e \in Nat /\ d * (q + e) \in Nat /\ p * (p + d + q) \in Nat
        BY <3>2
      <4> QED BY <4>1, <4>2
    <3>5. Share(x, lo2, hi2) =< Share(x, lo, hi)
      BY <1>1, <2>1, <3>1, <3>3, <3>4, ShareGrows
    <3>6. Share(x, lo, hi) \in 0 .. Whole
      BY <1>1, <3>1, ShareRange
    <3> QED BY <1>4, <2>1, <2>2, <3>1, <3>5, <3>6 DEF S, T
  <2> QED BY <2>3, <2>4
<1> QED BY <1>5, <1>6

\* Who asks more does not score higher for it.
LEMMA RaiserLoses ==
    ASSUME NEW R, Costs(R), NEW a \in Nat, NEW b \in Nat, a < b
    PROVE  computeCostScore(b, R \cup {b}) =< computeCostScore(a, R \cup {a})
<1> DEFINE S == R \cup {a}
           T == R \cup {b}
           lo  == Min(S)
           hi  == Max(S)
           lo2 == Min(T)
           hi2 == Max(T)
<1>1. /\ Costs(S) /\ Costs(T) /\ a \in S /\ b \in T
      /\ lo \in Nat /\ hi \in Nat /\ lo2 \in Nat /\ hi2 \in Nat
      /\ lo =< lo2 /\ hi =< hi2 /\ a \in lo .. hi /\ b \in lo2 .. hi2
      /\ (lo = a \/ lo = lo2) /\ (hi2 = b \/ hi = hi2)
  <2>1. /\ Costs(S) /\ Costs(T)
        /\ lo \in Nat /\ hi \in Nat /\ lo2 \in Nat /\ hi2 \in Nat
    BY RangeMoves
  <2>2. lo =< lo2 /\ hi =< hi2 /\ a \in lo .. hi /\ b \in lo2 .. hi2
    BY RangeMoves
  <2>3. (lo = a \/ lo = lo2) /\ (hi2 = b \/ hi = hi2)
    <3>1. lo \in {a, lo2} /\ hi2 \in {b, hi}
      BY RangeMoves
    <3> QED BY <3>1
  <2>4. a \in S /\ b \in T
    OBVIOUS
  <2> HIDE DEF S, T, lo, hi, lo2, hi2
  <2> QED BY <2>1, <2>2, <2>3, <2>4
<1> HIDE DEF S, T
<1>2. computeCostScore(a, S) \in 0 .. Whole /\ computeCostScore(b, T) \in 0 .. Whole /\ Whole \in Nat
  BY <1>1, CostScore, FixedPointAssumption
<1>3. CASE Cardinality(S) = 1 \/ lo = a
  <2>1. computeCostScore(a, S) = Whole
    <3>1. CASE Cardinality(S) = 1
      BY <1>1, <3>1, CostScore
    <3>2. CASE Cardinality(S) # 1
      <4>1. lo = a /\ lo < hi /\ computeCostScore(a, S) = Whole - Share(a, lo, hi)
        BY <1>1, <1>3, <3>2, CostScore
      <4> HIDE DEF lo, hi
      <4>2. (a - lo) * Whole = 0
        BY <1>1, <1>2, <4>1
      <4>3. 0 \div (hi - lo) = 0
        BY <1>1, <4>1
      <4>4. Share(a, lo, hi) = 0
        BY <4>2, <4>3 DEF Share
      <4> QED BY <1>2, <4>1, <4>4
    <3> QED BY <3>1, <3>2
  <2> QED BY <1>2, <2>1 DEF S, T
<1>4. CASE Cardinality(S) # 1 /\ lo # a
  <2>1. lo < hi /\ computeCostScore(a, S) = Whole - Share(a, lo, hi)
    BY <1>1, <1>4, CostScore
  <2> HIDE DEF lo, hi, lo2, hi2
  <2>2. lo = lo2 /\ lo2 < hi2
    BY <1>1, <1>4
  <2>3. Cardinality(T) # 1
    <3>1. Cardinality(T) = 1 => lo2 = hi2
      <4>1. lo2 \in T /\ hi2 \in T
        <5>1. T # {}
          BY <1>1
        <5> QED BY <1>1, <5>1, Extremes DEF Costs, lo2, hi2
      <4>2. Cardinality(T) = 1 => T = {b}
        BY <1>1, CostScore
      <4> QED BY <4>1, <4>2
    <3> QED BY <1>1, <2>2, <3>1
  <2>4. computeCostScore(b, T) = Whole - Share(b, lo2, hi2)
    BY <1>1, <2>3, CostScore DEF lo2, hi2
  <2>5. (a - lo) * (hi2 - lo2) =< (b - lo2) * (hi - lo)
    <3> DEFINE u == a - lo
               v == b - a
               w == hi - a
    <3>1. u \in Nat /\ v \in Nat /\ w \in Nat
      BY <1>1
    <3>2. hi - lo = u + w /\ b - lo2 = u + v /\ a - lo = u
      BY <1>1, <2>2
    <3>3. hi2 - lo2 = u + v \/ hi2 - lo2 = u + w
      BY <1>1, <2>2
    <3> HIDE DEF u, v, w
    <3>4. u * (u + v) =< (u + v) * (u + w) /\ u * (u + w) =< (u + v) * (u + w)
      <4>1. (u + v) * (u + w) = u * (u + w) + v * (u + w)
        BY <3>1
      <4>2. (u + v) * (u + w) = u * (u + v) + w * (u + v)
        BY <3>1
      <4>3. /\ v * (u + w) \in Nat /\ w * (u + v) \in Nat
            /\ u * (u + w) \in Nat /\ u * (u + v) \in Nat
        BY <3>1
      <4> QED BY <4>1, <4>2, <4>3
    <3> QED BY <3>2, <3>3, <3>4
  <2>6. Share(a, lo, hi) =< Share(b, lo2, hi2)
    BY <1>1, <2>1, <2>2, <2>5, ShareGrows
  <2>7. Share(a, lo, hi) \in 0 .. Whole /\ Share(b, lo2, hi2) \in 0 .. Whole
    BY <1>1, <2>1, <2>2, ShareRange
  <2> QED BY <1>2, <2>1, <2>4, <2>6, <2>7 DEF S, T
<1> QED BY <1>3, <1>4

-----------------------------------------------------------------------------
(* The final score *)

AllCosts(candidates) == {d.avg_cost_usd : d \in ToSet(candidates)} \ {unpriced}

LEMMA CostsOf ==
    ASSUME NEW candidates, IsCandidates(candidates)
    PROVE  /\ Costs(AllCosts(candidates))
           /\ \A k \in DOMAIN candidates :
                  \/ candidates[k].avg_cost_usd = unpriced
                  \/ candidates[k].avg_cost_usd \in AllCosts(candidates)
<1>1. \A k \in DOMAIN candidates : candidates[k] \in RankingInput
  BY DEF IsCandidates
<1>2. \A k \in DOMAIN candidates : candidates[k].avg_cost_usd \in Nat \cup {unpriced}
  BY <1>1 DEF RankingInput
<1> DEFINE cost == [k \in DOMAIN candidates |-> candidates[k].avg_cost_usd]
           All  == {cost[k] : k \in DOMAIN candidates}
<1>3. AllCosts(candidates) = All \ {unpriced}
  BY DEF AllCosts, ToSet
<1>4. IsFiniteSet(All)
  <2>1. DOMAIN candidates = 1 .. Len(candidates) /\ Len(candidates) \in Nat
    BY DEF IsCandidates
  <2>2. IsFiniteSet(DOMAIN candidates)
    BY <2>1, FS_Interval
  <2>3. cost \in Surjection(DOMAIN candidates, All)
    BY DEF Surjection
  <2> HIDE DEF cost, All
  <2> QED BY <2>2, <2>3, FS_Surjection
<1>5. All \ {unpriced} \in SUBSET All
  OBVIOUS
<1>6. IsFiniteSet(AllCosts(candidates))
  <2> HIDE DEF All
  <2> QED BY <1>3, <1>4, <1>5, FS_Subset
<1> QED BY <1>2, <1>3, <1>6 DEF Costs

LEMMA CostScoreRange ==
    ASSUME NEW candidates, IsCandidates(candidates), NEW k \in DOMAIN candidates
    PROVE  computeCostScore(candidates[k].avg_cost_usd, AllCosts(candidates)) \in 0 .. Whole
BY CostsOf, CostScore, UnpricedScore

\* What a candidate scores apart from its cost.
CoreScore(c) ==
    WEIGHT.bm25 * Min({c.bm25_raw \div 10, Whole}) + WEIGHT.reputation * c.reputation_score
    + WEIGHT.conformance * computeConformanceScore(c.conformance_level)
    + WEIGHT.freshness * computeFreshnessScore(c.days)

LEMMA Parts ==
    ASSUME NEW c \in RankingInput
    PROVE  /\ Min({c.bm25_raw \div 10, Whole}) \in Int
           /\ c.reputation_score \in Int
           /\ computeConformanceScore(c.conformance_level) \in Int
           /\ computeFreshnessScore(c.days) \in Int
           /\ CoreScore(c) \in Int
<1>1. Whole \in Nat
  BY FixedPointAssumption
<1>2. /\ c.bm25_raw \in Nat /\ c.reputation_score \in Nat /\ c.conformance_level \in Nat
      /\ c.days \in Nat
  BY DEF RankingInput
<1> DEFINE bm25 == c.bm25_raw \div 10
           age  == Whole - (c.days * Whole) \div 365
<1>3. bm25 \in Int
  BY <1>2
<1>4. (c.conformance_level * Whole) \div 4 \in Int
  <2>1. c.conformance_level * Whole \in Nat
    BY <1>1, <1>2
  <2> QED BY <2>1
<1>5. age \in Int
  <2>1. c.days * Whole \in Nat
    BY <1>1, <1>2
  <2> QED BY <1>1, <2>1
<1> HIDE DEF bm25, age
<1>6. Min({bm25, Whole}) \in Int /\ Max({0, age}) \in Int
  BY <1>1, <1>3, <1>5, Smaller, Larger
<1>7. computeFreshnessScore(c.days) \in Int /\ Min({c.bm25_raw \div 10, Whole}) \in Int
  BY <1>6 DEF computeFreshnessScore, bm25, age
<1>8. computeConformanceScore(c.conformance_level) \in Int
  BY <1>4 DEF computeConformanceScore
<1>9. CoreScore(c) \in Int
  BY <1>2, <1>7, <1>8 DEF CoreScore, WEIGHT
<1> QED BY <1>2, <1>7, <1>8, <1>9

\* The final score is the score apart from the cost, and ten times that of the cost.
LEMMA FinalScore ==
    ASSUME NEW candidates, IsCandidates(candidates), NEW k \in DOMAIN candidates
    PROVE  /\ finalScore(candidates, k) =
                  CoreScore(candidates[k])
                  + 10 * computeCostScore(candidates[k].avg_cost_usd, AllCosts(candidates))
           /\ finalScore(candidates, k) \in Int
<1> DEFINE c    == candidates[k]
           cost == computeCostScore(c.avg_cost_usd, AllCosts(candidates))
           b    == Min({c.bm25_raw \div 10, Whole})
           l    == computeConformanceScore(c.conformance_level)
           f    == computeFreshnessScore(c.days)
           r    == c.reputation_score
<1>1. c \in RankingInput
  BY DEF IsCandidates
<1>2. cost \in Int
  BY CostScoreRange, FixedPointAssumption
<1>3. Inputs(candidates, k) = [bm25 |-> b, reputation |-> r, conformance |-> l,
                               cost_score |-> cost, freshness |-> f]
  BY DEF Inputs, AllCosts
<1>4. b \in Int /\ r \in Int /\ l \in Int /\ f \in Int
  BY <1>1, Parts
<1> HIDE DEF c, cost, b, l, f, r
<1>5. finalScore(candidates, k) = 45 * b + 25 * r + 15 * l + 10 * cost + 5 * f
  BY <1>3 DEF finalScore, WEIGHT
<1>6. CoreScore(c) = 45 * b + 25 * r + 15 * l + 5 * f
  BY DEF CoreScore, WEIGHT, b, l, f, r
<1>7. finalScore(candidates, k) = CoreScore(c) + 10 * cost /\ finalScore(candidates, k) \in Int
  BY <1>2, <1>4, <1>5, <1>6
<1> QED BY <1>7 DEF c, cost

\* Who is as good in everything scores as high.
LEMMA AsGoodScores ==
    ASSUME NEW candidates, IsCandidates(candidates), NEW i \in DOMAIN candidates,
           NEW j \in DOMAIN candidates, AsGood(candidates[i], candidates[j])
    PROVE  finalScore(candidates, i) >= finalScore(candidates, j)
<1> DEFINE c == candidates[i]
           d == candidates[j]
<1>1. c \in RankingInput /\ d \in RankingInput
  BY DEF IsCandidates
<1>2. AsGood(c, d) /\ Whole \in Nat
  BY FixedPointAssumption
<1>3. /\ computeCostScore(c.avg_cost_usd, AllCosts(candidates))
             >= computeCostScore(d.avg_cost_usd, AllCosts(candidates))
      /\ computeCostScore(c.avg_cost_usd, AllCosts(candidates)) \in Int
      /\ computeCostScore(d.avg_cost_usd, AllCosts(candidates)) \in Int
  <2>1. /\ computeCostScore(c.avg_cost_usd, AllCosts(candidates)) \in 0 .. Whole
        /\ computeCostScore(d.avg_cost_usd, AllCosts(candidates)) \in 0 .. Whole
    BY CostScoreRange
  <2>2. CASE c.avg_cost_usd = d.avg_cost_usd
    BY <1>2, <2>1, <2>2
  <2>3. CASE c.avg_cost_usd # d.avg_cost_usd
    <3>1. unpriced \notin {c.avg_cost_usd, d.avg_cost_usd} /\ c.avg_cost_usd =< d.avg_cost_usd
      BY <1>2, <2>3 DEF AsGood
    <3>2. c.avg_cost_usd \in AllCosts(candidates) /\ d.avg_cost_usd \in AllCosts(candidates)
      BY <3>1, CostsOf
    <3>3. Costs(AllCosts(candidates))
      BY CostsOf
    <3> HIDE DEF c, d
    <3> QED BY <1>2, <2>1, <3>1, <3>2, <3>3, CheaperScores
  <2> QED BY <2>2, <2>3
<1>4. CoreScore(c) >= CoreScore(d) /\ CoreScore(c) \in Int /\ CoreScore(d) \in Int
  <2> HIDE DEF c, d
  <2>1. /\ c.bm25_raw \in Nat /\ c.reputation_score \in Nat /\ c.conformance_level \in Nat
        /\ c.days \in Nat
        /\ d.bm25_raw \in Nat /\ d.reputation_score \in Nat /\ d.conformance_level \in Nat
        /\ d.days \in Nat
    BY <1>1 DEF RankingInput
  <2>2. /\ c.bm25_raw >= d.bm25_raw /\ c.reputation_score >= d.reputation_score
        /\ c.conformance_level >= d.conformance_level /\ c.days =< d.days
    BY <1>2 DEF AsGood
  <2>3. Min({c.bm25_raw \div 10, Whole}) >= Min({d.bm25_raw \div 10, Whole})
    <3> DEFINE x == c.bm25_raw \div 10
               y == d.bm25_raw \div 10
    <3>1. x \in Int /\ y \in Int /\ x >= y
      BY <2>1, <2>2
    <3> HIDE DEF x, y
    <3>2. Min({x, Whole}) >= Min({y, Whole})
      BY <1>2, <3>1, Smaller
    <3> QED BY <3>2 DEF x, y
  <2>4. \A u, v, n \in Nat, m \in Nat \ {0} : u =< v => (u * n) \div m =< (v * n) \div m
    <3> TAKE u, v, n \in Nat, m \in Nat \ {0}
    <3> HAVE u =< v
    <3>1. u * n \in Nat /\ v * n \in Nat /\ u * n =< v * n
      OBVIOUS
    <3> DEFINE p == u * n
               q == v * n
    <3> HIDE DEF p, q
    <3>2. p \in Nat /\ q \in Nat /\ p * m =< q * m
      BY <3>1 DEF p, q
    <3>3. p \div m =< q \div m
      BY <3>2, QuotientGrows
    <3> QED BY <3>3 DEF p, q
  <2>5. computeConformanceScore(c.conformance_level) >= computeConformanceScore(d.conformance_level)
    <3>1. (d.conformance_level * Whole) \div 4 =< (c.conformance_level * Whole) \div 4
      <4> DEFINE x == d.conformance_level
                 y == c.conformance_level
      <4>1. x \in Nat /\ y \in Nat /\ Whole \in Nat /\ 4 \in Nat \ {0} /\ x =< y
        BY <1>2, <2>1, <2>2
      <4> HIDE DEF x, y
      <4> QED BY <2>4, <4>1 DEF x, y
    <3>2. (d.conformance_level * Whole) \div 4 \in Int /\ (c.conformance_level * Whole) \div 4 \in Int
      BY <1>1, Parts DEF computeConformanceScore
    <3> QED BY <3>1, <3>2 DEF computeConformanceScore
  <2>6. computeFreshnessScore(c.days) >= computeFreshnessScore(d.days)
    <3> DEFINE x == (c.days * Whole) \div 365
               y == (d.days * Whole) \div 365
    <3>1. x =< y
      BY <1>2, <2>1, <2>2, <2>4
    <3>2. x \in Int /\ y \in Int
      <4>1. c.days * Whole \in Nat /\ d.days * Whole \in Nat
        BY <1>2, <2>1
      <4> QED BY <4>1
    <3> HIDE DEF x, y
    <3>3. Whole - x >= Whole - y /\ Whole - x \in Int /\ Whole - y \in Int
      BY <1>2, <3>1, <3>2
    <3> DEFINE xx == Whole - x
               yy == Whole - y
    <3> HIDE DEF xx, yy
    <3>4. Max({0, xx}) >= Max({0, yy})
      BY <3>3, Larger DEF xx, yy
    <3> QED BY <3>4 DEF computeFreshnessScore, x, y, xx, yy
  <2>7. CoreScore(c) >= CoreScore(d)
    BY <1>1, <2>1, <2>2, <2>3, <2>5, <2>6, Parts DEF CoreScore, WEIGHT
  <2> QED BY <1>1, <2>7, Parts
<1>5. /\ finalScore(candidates, i) =
             CoreScore(c) + 10 * computeCostScore(c.avg_cost_usd, AllCosts(candidates))
      /\ finalScore(candidates, j) =
             CoreScore(d) + 10 * computeCostScore(d.avg_cost_usd, AllCosts(candidates))
  BY FinalScore
<1> HIDE DEF c, d
<1> QED BY <1>3, <1>4, <1>5

\* The scores are numbers, and who is as good as another is above it or has its score.
LEMMA FairRanking ==
    ASSUME NEW candidates, IsCandidates(candidates)
    PROVE  /\ Fair(candidates, rankCandidates(candidates))
           /\ \A j \in DOMAIN candidates :
                  RankedAbove(rankCandidates(candidates), j)
                      = Before(j, ScoresOf(candidates), Len(candidates))
<1> DEFINE n      == Len(candidates)
           score  == ScoresOf(candidates)
           ranked == rankCandidates(candidates)
<1>1. n \in Nat /\ DOMAIN candidates = 1 .. n
  BY DEF IsCandidates
<1>2. \A k \in 1 .. n : score[k] = finalScore(candidates, k)
  BY <1>1 DEF ScoresOf
<1>3. \A k \in 1 .. n : finalScore(candidates, k) \in Int
  BY <1>1, FinalScore
<1>4. Scores(score, n)
  <2> HIDE DEF score, n
  <2> QED BY <1>1, <1>2, <1>3 DEF Scores
<1>5. /\ ToSet(ranked) = DOMAIN candidates
      /\ \A j \in DOMAIN candidates : RankedAbove(ranked, j) = Before(j, score, n)
  BY <1>1, <1>4, RankingOrder
<1>6. ASSUME NEW i \in DOMAIN candidates, NEW j \in DOMAIN candidates,
             AsGood(candidates[i], candidates[j])
      PROVE  i \in RankedAbove(ranked, j) \/ finalScore(candidates, i) = finalScore(candidates, j)
  <2>1. finalScore(candidates, i) >= finalScore(candidates, j)
    BY <1>6, AsGoodScores
  <2> HIDE DEF score, ranked, n
  <2>2. score[i] > score[j] => i \in Before(j, score, n)
    BY <1>1 DEF Before
  <2>3. score[i] = finalScore(candidates, i) /\ score[j] = finalScore(candidates, j)
        /\ finalScore(candidates, i) \in Int /\ finalScore(candidates, j) \in Int
    BY <1>1, <1>2, <1>3
  <2> QED BY <1>5, <2>1, <2>2, <2>3
<1> HIDE DEF score, ranked, n
<1>7. Fair(candidates, ranked)
  BY <1>5, <1>6 DEF Fair
<1> QED BY <1>5, <1>7 DEF score, ranked, n

-----------------------------------------------------------------------------
(* A higher cost *)

LEMMA DearerCandidates ==
    ASSUME NEW m \in Markets
    PROVE  /\ IsCandidates(m.candidates) /\ IsCandidates(Dearer(m))
           /\ DOMAIN Dearer(m) = DOMAIN m.candidates /\ Len(Dearer(m)) = Len(m.candidates)
           /\ m.of \in DOMAIN m.candidates
           /\ Dearer(m)[m.of].avg_cost_usd = m.cost
           /\ m.candidates[m.of].avg_cost_usd \in Nat /\ m.cost \in Nat
           /\ m.candidates[m.of].avg_cost_usd < m.cost
           /\ \A k \in DOMAIN m.candidates : k # m.of => Dearer(m)[k] = m.candidates[k]
           /\ CoreScore(Dearer(m)[m.of]) = CoreScore(m.candidates[m.of])
<1> DEFINE s == m.candidates
           t == Dearer(m)
           o == m.of
<1>1. /\ s \in Seq(RankingInput) /\ o \in DOMAIN s /\ m.cost \in Nat
      /\ s[o].avg_cost_usd # unpriced /\ s[o].avg_cost_usd < m.cost
  BY MarketsAssumption
<1>2. t = [s EXCEPT ![o] = [s[o] EXCEPT !.avg_cost_usd = m.cost]]
  BY DEF Dearer
<1> HIDE DEF s, t, o
<1>3. s[o] \in RankingInput
  BY <1>1
<1> DEFINE c == s[o]
           d == [c EXCEPT !.avg_cost_usd = m.cost]
<1>4. /\ d \in RankingInput /\ d.avg_cost_usd = m.cost /\ d.bm25_raw = c.bm25_raw
      /\ d.reputation_score = c.reputation_score /\ d.conformance_level = c.conformance_level
      /\ d.days = c.days /\ c.avg_cost_usd \in Nat \cup {unpriced}
  BY <1>1, <1>3 DEF RankingInput
<1> HIDE DEF d
<1>5. t = [s EXCEPT ![o] = d]
  BY <1>2 DEF d
<1>6. t \in Seq(RankingInput) /\ DOMAIN t = DOMAIN s /\ Len(t) = Len(s) /\ t[o] = d
      /\ \A k \in DOMAIN s : k # o => t[k] = s[k]
  BY <1>1, <1>4, <1>5
<1>7. CoreScore(d) = CoreScore(c)
  <2> HIDE DEF c
  <2> QED BY <1>4 DEF CoreScore
<1> QED BY <1>1, <1>4, <1>6, <1>7 DEF IsCandidates, s, t, o

\* Nobody else scores lower, and the one that asks more does not score higher.
LEMMA DearerScores ==
    ASSUME NEW m \in Markets, NEW k \in DOMAIN m.candidates
    PROVE  /\ k # m.of => finalScore(m.candidates, k) =< finalScore(Dearer(m), k)
           /\ finalScore(Dearer(m), m.of) =< finalScore(m.candidates, m.of)
<1> DEFINE s == m.candidates
           t == Dearer(m)
           o == m.of
           a == s[o].avg_cost_usd
           b == m.cost
           R == {s[l].avg_cost_usd : l \in DOMAIN s \ {o}} \ {unpriced}
<1>1. /\ IsCandidates(s) /\ IsCandidates(t) /\ DOMAIN t = DOMAIN s /\ o \in DOMAIN s
      /\ t[o].avg_cost_usd = b /\ a \in Nat /\ b \in Nat /\ a < b
      /\ \A l \in DOMAIN s : l # o => t[l] = s[l]
      /\ CoreScore(t[o]) = CoreScore(s[o])
  BY DearerCandidates
<1>2. AllCosts(s) = R \cup {a} /\ AllCosts(t) = R \cup {b}
  <2>1. a # unpriced /\ b # unpriced
    BY <1>1, FixedPointAssumption
  <2> HIDE DEF t, s, o
  <2>2. AllCosts(s) = {s[l].avg_cost_usd : l \in DOMAIN s} \ {unpriced}
    BY DEF AllCosts, ToSet
  <2>3. AllCosts(t) = {t[l].avg_cost_usd : l \in DOMAIN s} \ {unpriced}
    BY <1>1 DEF AllCosts, ToSet
  <2>4. {s[l].avg_cost_usd : l \in DOMAIN s} = {s[l].avg_cost_usd : l \in DOMAIN s \ {o}} \cup {a}
    BY <1>1
  <2>5. {t[l].avg_cost_usd : l \in DOMAIN s} = {s[l].avg_cost_usd : l \in DOMAIN s \ {o}} \cup {b}
    BY <1>1
  <2> HIDE DEF a, b
  <2> QED BY <2>1, <2>2, <2>3, <2>4, <2>5
<1>3. Costs(R)
  <2>1. Costs(AllCosts(s)) /\ R \in SUBSET AllCosts(s)
    BY <1>1, <1>2, CostsOf
  <2> HIDE DEF R
  <2> QED BY <2>1, FS_Subset DEF Costs
<1>4. \A l \in DOMAIN s : /\ finalScore(s, l) = CoreScore(s[l]) + 10 * computeCostScore(s[l].avg_cost_usd, R \cup {a})
                          /\ finalScore(t, l) = CoreScore(t[l]) + 10 * computeCostScore(t[l].avg_cost_usd, R \cup {b})
                          /\ computeCostScore(s[l].avg_cost_usd, R \cup {a}) \in 0 .. Whole
                          /\ computeCostScore(t[l].avg_cost_usd, R \cup {b}) \in 0 .. Whole
                          /\ CoreScore(s[l]) \in Int
  <2> TAKE l \in DOMAIN s
  <2>1. s[l] \in RankingInput
    BY <1>1 DEF IsCandidates
  <2> HIDE DEF s, t, R, a, b
  <2> QED BY <1>1, <1>2, <2>1, FinalScore, CostScoreRange, Parts
<1>5. Whole \in Nat
  BY FixedPointAssumption
<1>6. ASSUME k # o PROVE finalScore(s, k) =< finalScore(t, k)
  <2>1. t[k] = s[k]
    BY <1>1, <1>6
  <2> DEFINE x == s[k].avg_cost_usd
  <2>2. computeCostScore(x, R \cup {a}) =< computeCostScore(x, R \cup {b})
    <3>1. CASE x = unpriced
      <4>1. computeCostScore(x, R \cup {a}) = Whole \div 2 /\ computeCostScore(x, R \cup {b}) = Whole \div 2
        BY <3>1, UnpricedScore
      <4>2. Whole \div 2 \in Int
        BY <1>5
      <4> QED BY <4>1, <4>2
    <3>2. CASE x # unpriced
      <4>1. x \in R
        BY <1>6, <3>2
      <4> HIDE DEF x, R, a, b
      <4> QED BY <1>1, <1>3, <4>1, OthersGain
    <3> QED BY <3>1, <3>2
  <2> DEFINE u == computeCostScore(x, R \cup {a})
             v == computeCostScore(x, R \cup {b})
             w == CoreScore(s[k])
  <2>3. /\ finalScore(s, k) = w + 10 * u /\ finalScore(t, k) = w + 10 * v
        /\ u \in 0 .. Whole /\ v \in 0 .. Whole /\ w \in Int
    <3> HIDE DEF R, a, b, t
    <3> QED BY <1>4, <2>1
  <2> HIDE DEF u, v, w
  <2>4. w + 10 * u =< w + 10 * v
    BY <1>5, <2>2, <2>3 DEF u, v
  <2> QED BY <2>3, <2>4
<1>7. finalScore(t, o) =< finalScore(s, o)
  <2> DEFINE u == computeCostScore(a, R \cup {a})
             v == computeCostScore(b, R \cup {b})
             w == CoreScore(s[o])
  <2>1. v =< u
    BY <1>1, <1>3, RaiserLoses
  <2>2. /\ finalScore(s, o) = w + 10 * u /\ finalScore(t, o) = w + 10 * v
        /\ u \in 0 .. Whole /\ v \in 0 .. Whole /\ w \in Int
    <3> HIDE DEF R, t
    <3> QED BY <1>1, <1>4
  <2> HIDE DEF u, v, w
  <2>3. w + 10 * v =< w + 10 * u
    BY <1>5, <2>1, <2>2
  <2> QED BY <2>2, <2>3
<1> QED BY <1>6, <1>7

-----------------------------------------------------------------------------
(* The specification *)

MarketInv ==
    /\ request \in MarketRequests
    /\ answer \in {None, [to |-> "rank", before |-> rankCandidates(request.market.candidates),
                          after |-> rankCandidates(Dearer(request.market))]}

LEMMA MarketInvariant == MarketSpec => []MarketInv
<1>1. request \in MarketRequests /\ answer = None => MarketInv
  BY DEF MarketInv
<1>2. MarketInv /\ [Rank]_vars => MarketInv'
  <2> SUFFICES ASSUME MarketInv, [Rank]_vars PROVE MarketInv'
    OBVIOUS
  <2>1. CASE Rank
    BY <2>1 DEF Rank, MarketInv
  <2>2. CASE UNCHANGED vars
    BY <2>2 DEF vars, MarketInv
  <2> QED BY <2>1, <2>2
<1> QED BY <1>1, <1>2, PTL DEF MarketSpec

\* A ranking is fair whatever the candidates, and one that asks more than before passes
\* nobody, although its cost moves the range by which all costs are scored.
THEOREM RankingFair == MarketSpec => []RankingSound
<1>1. MarketInv => RankingSound
  <2> SUFFICES ASSUME MarketInv, Answered("rank") PROVE RankingSound
    BY DEF RankingSound
  <2> DEFINE m == request.market
             s == m.candidates
             t == Dearer(m)
             o == m.of
             n == Len(s)
  <2>1. m \in Markets /\ answer.before = rankCandidates(s) /\ answer.after = rankCandidates(t)
    BY DEF MarketInv, MarketRequests, Answered, None
  <2> HIDE DEF m
  <2>2. /\ IsCandidates(s) /\ IsCandidates(t) /\ Len(t) = n /\ o \in DOMAIN s /\ o \in DOMAIN t
        /\ DOMAIN s = DOMAIN t
    BY <2>1, DearerCandidates
  <2>3. Fair(s, answer.before) /\ Fair(t, answer.after)
    BY <2>1, <2>2, FairRanking
  <2>4. /\ RankedAbove(answer.before, o) = Before(o, ScoresOf(s), n)
        /\ RankedAbove(answer.after, o) = Before(o, ScoresOf(t), n)
    BY <2>1, <2>2, FairRanking
  <2>5. DOMAIN s = 1 .. n /\ n \in Nat
    BY <2>2 DEF IsCandidates
  <2>6. ASSUME NEW i \in Before(o, ScoresOf(s), n) PROVE i \in Before(o, ScoresOf(t), n)
    <3>1. i \in 1 .. n /\ i # o
      BY <2>2, <2>5, FinalScore DEF Before, ScoresOf
    <3> DEFINE si == finalScore(s, i)
               so == finalScore(s, o)
               ti == finalScore(t, i)
               to == finalScore(t, o)
    <3>2. si \in Int /\ so \in Int /\ ti \in Int /\ to \in Int
      BY <2>2, <2>5, <3>1, FinalScore
    <3>3. si =< ti /\ to =< so
      BY <2>1, <2>5, <3>1, DearerScores
    <3>4. /\ ScoresOf(s)[i] = si /\ ScoresOf(s)[o] = so
          /\ ScoresOf(t)[i] = ti /\ ScoresOf(t)[o] = to
      BY <2>2, <2>5, <3>1 DEF ScoresOf
    <3> HIDE DEF si, so, ti, to, s, t, o, n
    <3>5. si > so \/ (si = so /\ i < o)
      BY <3>4 DEF Before
    <3>6. ti > to \/ (ti = to /\ i < o)
      BY <3>2, <3>3, <3>5
    <3> QED BY <3>1, <3>4, <3>6 DEF Before
  <2>7. RankedAbove(answer.before, o) \subseteq RankedAbove(answer.after, o)
    BY <2>4, <2>6
  <2> QED BY <2>3, <2>7 DEF RankingSound, m
<1> QED BY <1>1, MarketInvariant, PTL

=============================================================================
