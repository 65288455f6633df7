-------------------------- MODULE MatchBrokerProofs --------------------------
(***************************************************************************)
(* Theorems about Merkle trees and the match broker: type correctness, the *)
(* filters, the order of the index, the truth of denials and of inclusion  *)
(* proofs, and that the roots are those of a verifiable index, for all     *)
(* providers, manifests and Intents, however often the process dies and    *)
(* whatever registrations fail.                                            *)
(***************************************************************************)
EXTENDS MatchBroker, WellFoundedInduction, TLAPS

-----------------------------------------------------------------------------
(* The Merkle tree, with any number of leaves: the proof of a leaf is      *)
(* accepted, and a proof that is accepted is of a leaf.                    *)

\* A nonempty set of natural numbers has a least element.
LEMMA LeastExists ==
    ASSUME NEW T, T \subseteq Nat, T # {}
    PROVE  \E t \in T : \A u \in T : t =< u
<1> DEFINE R == OpToRel(<, Nat)
<1>1. IsWellFoundedOn(R, Nat)
  BY NatLessThanWellFounded
<1>2. PICK t \in T : \A u \in T : ~ (<<u, t>> \in R)
  <2> HIDE DEF R
  <2> QED BY <1>1, WFMin
<1>3. \A u \in T : ~ (u < t)
  BY <1>2 DEF OpToRel
<1> QED BY <1>3

-----------------------------------------------------------------------------
(* The recursive functions are what their equations say *)

LeafLayer(leaves) == [i \in DOMAIN leaves |-> merkleLeaf(leaves[i])]

\* The first n layers above the leaves.
LayersUpTo(n, f, leaves) ==
    f = [k \in 0 .. n |-> IF k = 0 THEN LeafLayer(leaves) ELSE NextLayer(f[k - 1])]

LEMMA SomeLayers ==
    ASSUME NEW leaves, NEW n \in Nat
    PROVE  \E f : LayersUpTo(n, f, leaves)
<1> DEFINE Bad == {m \in Nat : ~ \E f : LayersUpTo(m, f, leaves)}
<1> SUFFICES ASSUME Bad # {} PROVE FALSE
  OBVIOUS
<1>1. PICK m \in Bad : \A u \in Bad : m =< u
  BY LeastExists
<1>2. CASE m = 0
  <2> DEFINE f == [k \in 0 .. 0 |-> LeafLayer(leaves)]
  <2>1. f = [k \in 0 .. 0 |-> IF k = 0 THEN LeafLayer(leaves) ELSE NextLayer(f[k - 1])]
    OBVIOUS
  <2> QED BY <1>1, <1>2, <2>1 DEF LayersUpTo
<1>3. CASE m # 0
  <2>1. m - 1 \in Nat /\ m - 1 \notin Bad
    BY <1>1, <1>3
  <2>2. PICK f : LayersUpTo(m - 1, f, leaves)
    BY <2>1
  <2> DEFINE g == [k \in 0 .. m |-> IF k = 0 THEN LeafLayer(leaves) ELSE NextLayer(f[k - 1])]
  <2>3. \A k \in 0 .. m - 1 : g[k] = f[k]
    BY <2>1, <2>2 DEF LayersUpTo
  <2>4. g = [k \in 0 .. m |-> IF k = 0 THEN LeafLayer(leaves) ELSE NextLayer(g[k - 1])]
    <3>1. \A k \in 0 .. m : k # 0 => k - 1 \in 0 .. m - 1
      BY <2>1
    <3> QED BY <2>3, <3>1
  <2> QED BY <1>1, <2>4 DEF LayersUpTo
<1> QED BY <1>2, <1>3

LEMMA LayersAgree ==
    ASSUME NEW leaves, NEW m \in Nat, NEW n \in Nat, NEW f, NEW g,
           LayersUpTo(m, f, leaves), LayersUpTo(n, g, leaves),
           NEW k \in Nat, k =< m, k =< n
    PROVE  f[k] = g[k]
<1> DEFINE Bad == {j \in 0 .. k : f[j] # g[j]}
<1> SUFFICES ASSUME Bad # {} PROVE FALSE
  OBVIOUS
<1>1. PICK j \in Bad : \A u \in Bad : j =< u
  <2>1. Bad \subseteq Nat
    OBVIOUS
  <2> HIDE DEF Bad
  <2> QED BY <2>1, LeastExists
<1>2. j \in 0 .. m /\ j \in 0 .. n
  OBVIOUS
<1>3. CASE j = 0
  BY <1>2, <1>3 DEF LayersUpTo
<1>4. CASE j # 0
  <2>1. j - 1 \in 0 .. k /\ j - 1 \notin Bad
    BY <1>1, <1>4
  <2>2. f[j] = NextLayer(f[j - 1]) /\ g[j] = NextLayer(g[j - 1])
    BY <1>2, <1>4 DEF LayersUpTo
  <2> QED BY <2>1, <2>2
<1> QED BY <1>3, <1>4

\* Layer 0 has the hashes of the leaves, and every other is computed from the one below.
LEMMA LayersEquation ==
    ASSUME NEW leaves
    PROVE  /\ Layers(leaves)[0] = LeafLayer(leaves)
           /\ \A k \in Nat : Layers(leaves)[k + 1] = NextLayer(Layers(leaves)[k])
<1> DEFINE upTo(n) == CHOOSE f : LayersUpTo(n, f, leaves)
           all     == [k \in Nat |-> upTo(k)[k]]
           Is(f)   == f = [k \in Nat |-> IF k = 0 THEN LeafLayer(leaves) ELSE NextLayer(f[k - 1])]
<1>1. \A n \in Nat : LayersUpTo(n, upTo(n), leaves)
  BY SomeLayers
<1>2. ASSUME NEW k \in Nat
      PROVE  all[k] = IF k = 0 THEN LeafLayer(leaves) ELSE NextLayer(all[k - 1])
  <2>1. upTo(k)[k] = IF k = 0 THEN LeafLayer(leaves) ELSE NextLayer(upTo(k)[k - 1])
    <3>1. LayersUpTo(k, upTo(k), leaves)
      BY <1>1
    <3> HIDE DEF upTo
    <3> QED BY <3>1 DEF LayersUpTo
  <2>2. CASE k = 0
    BY <2>1, <2>2
  <2>3. CASE k # 0
    <3>1. k - 1 \in Nat
      BY <2>3
    <3>2. upTo(k)[k - 1] = upTo(k - 1)[k - 1]
      <4>1. LayersUpTo(k, upTo(k), leaves) /\ LayersUpTo(k - 1, upTo(k - 1), leaves)
        BY <1>1, <3>1
      <4> HIDE DEF upTo
      <4> QED BY <3>1, <4>1, LayersAgree
    <3> HIDE DEF upTo
    <3> QED BY <2>1, <2>3, <3>1, <3>2
  <2> QED BY <2>2, <2>3
<1>3. Is(all)
  <2> HIDE DEF upTo
  <2> QED BY <1>2
<1>4. Layers(leaves) = CHOOSE f : Is(f)
  BY DEF Layers, LeafLayer
<1>5. Is(Layers(leaves))
  <2> HIDE DEF all, Is
  <2> QED BY <1>3, <1>4
<1> QED BY <1>5

PlacesUpTo(n, f, leafIdx) ==
    f = [k \in 0 .. n |-> IF k = 0 THEN leafIdx ELSE f[k - 1] \div 2]

LEMMA SomePlaces ==
    ASSUME NEW leafIdx, NEW n \in Nat
    PROVE  \E f : PlacesUpTo(n, f, leafIdx)
<1> DEFINE Bad == {m \in Nat : ~ \E f : PlacesUpTo(m, f, leafIdx)}
<1> SUFFICES ASSUME Bad # {} PROVE FALSE
  OBVIOUS
<1>1. PICK m \in Bad : \A u \in Bad : m =< u
  BY LeastExists
<1>2. CASE m = 0
  <2> DEFINE f == [k \in 0 .. 0 |-> leafIdx]
  <2>1. f = [k \in 0 .. 0 |-> IF k = 0 THEN leafIdx ELSE f[k - 1] \div 2]
    OBVIOUS
  <2> QED BY <1>1, <1>2, <2>1 DEF PlacesUpTo
<1>3. CASE m # 0
  <2>1. m - 1 \in Nat /\ m - 1 \notin Bad
    BY <1>1, <1>3
  <2>2. PICK f : PlacesUpTo(m - 1, f, leafIdx)
    BY <2>1
  <2> DEFINE g == [k \in 0 .. m |-> IF k = 0 THEN leafIdx ELSE f[k - 1] \div 2]
  <2>3. \A k \in 0 .. m - 1 : g[k] = f[k]
    BY <2>1, <2>2 DEF PlacesUpTo
  <2>4. g = [k \in 0 .. m |-> IF k = 0 THEN leafIdx ELSE g[k - 1] \div 2]
    <3>1. \A k \in 0 .. m : k # 0 => k - 1 \in 0 .. m - 1
      BY <2>1
    <3> QED BY <2>3, <3>1
  <2> QED BY <1>1, <2>4 DEF PlacesUpTo
<1> QED BY <1>2, <1>3

LEMMA PlacesAgree ==
    ASSUME NEW leafIdx, NEW m \in Nat, NEW n \in Nat, NEW f, NEW g,
           PlacesUpTo(m, f, leafIdx), PlacesUpTo(n, g, leafIdx),
           NEW k \in Nat, k =< m, k =< n
    PROVE  f[k] = g[k]
<1> DEFINE Bad == {j \in 0 .. k : f[j] # g[j]}
<1> SUFFICES ASSUME Bad # {} PROVE FALSE
  OBVIOUS
<1>1. PICK j \in Bad : \A u \in Bad : j =< u
  <2>1. Bad \subseteq Nat
    OBVIOUS
  <2> HIDE DEF Bad
  <2> QED BY <2>1, LeastExists
<1>2. j \in 0 .. m /\ j \in 0 .. n
  OBVIOUS
<1>3. CASE j = 0
  BY <1>2, <1>3 DEF PlacesUpTo
<1>4. CASE j # 0
  <2>1. j - 1 \in 0 .. k /\ j - 1 \notin Bad
    BY <1>1, <1>4
  <2>2. f[j] = f[j - 1] \div 2 /\ g[j] = g[j - 1] \div 2
    BY <1>2, <1>4 DEF PlacesUpTo
  <2> QED BY <2>1, <2>2
<1> QED BY <1>3, <1>4

\* The place of an ancestor is half of the place of the one below it.
LEMMA PlacesEquation ==
    ASSUME NEW leafIdx
    PROVE  /\ Places(leafIdx)[0] = leafIdx
           /\ \A k \in Nat : Places(leafIdx)[k + 1] = Places(leafIdx)[k] \div 2
<1> DEFINE upTo(n) == CHOOSE f : PlacesUpTo(n, f, leafIdx)
           all     == [k \in Nat |-> upTo(k)[k]]
           Is(f)   == f = [k \in Nat |-> IF k = 0 THEN leafIdx ELSE f[k - 1] \div 2]
<1>1. \A n \in Nat : PlacesUpTo(n, upTo(n), leafIdx)
  BY SomePlaces
<1>2. ASSUME NEW k \in Nat
      PROVE  all[k] = IF k = 0 THEN leafIdx ELSE all[k - 1] \div 2
  <2>1. upTo(k)[k] = IF k = 0 THEN leafIdx ELSE upTo(k)[k - 1] \div 2
    <3>1. PlacesUpTo(k, upTo(k), leafIdx)
      BY <1>1
    <3> HIDE DEF upTo
    <3> QED BY <3>1 DEF PlacesUpTo
  <2>2. CASE k = 0
    BY <2>1, <2>2
  <2>3. CASE k # 0
    <3>1. k - 1 \in Nat
      BY <2>3
    <3>2. upTo(k)[k - 1] = upTo(k - 1)[k - 1]
      <4>1. PlacesUpTo(k, upTo(k), leafIdx) /\ PlacesUpTo(k - 1, upTo(k - 1), leafIdx)
        BY <1>1, <3>1
      <4> HIDE DEF upTo
      <4> QED BY <3>1, <4>1, PlacesAgree
    <3> HIDE DEF upTo
    <3> QED BY <2>1, <2>3, <3>1, <3>2
  <2> QED BY <2>2, <2>3
<1>3. Is(all)
  <2> HIDE DEF upTo
  <2> QED BY <1>2
<1>4. Places(leafIdx) = CHOOSE f : Is(f)
  BY DEF Places
<1>5. Is(Places(leafIdx))
  <2> HIDE DEF all, Is
  <2> QED BY <1>3, <1>4
<1> QED BY <1>5

-----------------------------------------------------------------------------
(* The layers shrink until one node is left *)

IsLayer(layer) == Len(layer) \in Nat \ {0} /\ DOMAIN layer = 1 .. Len(layer)

LEMMA NextLayerShape ==
    ASSUME NEW layer, IsLayer(layer)
    PROVE  /\ IsLayer(NextLayer(layer))
           /\ Len(NextLayer(layer)) = (Len(layer) + 1) \div 2
           /\ Len(layer) > 1 => Len(NextLayer(layer)) < Len(layer)
           /\ Len(layer) = 1 => Len(NextLayer(layer)) = 1
<1> DEFINE half == (Len(layer) + 1) \div 2
<1>1. /\ half \in Nat \ {0}
      /\ Len(layer) > 1 => half < Len(layer)
      /\ Len(layer) = 1 => half = 1
  BY DEF IsLayer
<1>2. DOMAIN NextLayer(layer) = 1 .. half /\ Len(NextLayer(layer)) = half
  <2> DEFINE n == half
  <2>1. n \in Nat /\ NextLayer(layer) = [i \in 1 .. n |->
            merkleNode(layer[2 * i - 1],
                       IF 2 * i =< Len(layer) THEN layer[2 * i] ELSE layer[2 * i - 1])]
    BY <1>1 DEF NextLayer
  <2> HIDE DEF n
  <2>2. DOMAIN NextLayer(layer) = 1 .. n /\ Len(NextLayer(layer)) = n
    BY <2>1
  <2> QED BY <2>2 DEF n
<1> QED BY <1>1, <1>2 DEF IsLayer

LEMMA NextLayerShrinks ==
    ASSUME NEW layer, IsLayer(layer), NEW j \in Nat, NEW bound \in Nat,
           Len(layer) = 1 \/ Len(layer) + j =< bound
    PROVE  Len(NextLayer(layer)) = 1 \/ Len(NextLayer(layer)) + (j + 1) =< bound
<1>1. ASSUME NEW n \in Nat \ {0}, NEW m \in Nat, n = 1 \/ n + j =< bound,
             n > 1 => m < n, n = 1 => m = 1
      PROVE  m = 1 \/ m + (j + 1) =< bound
  BY <1>1
<1> QED BY <1>1, NextLayerShape DEF IsLayer

\* Leaves are given as a sequence that is not empty.
LEMMA LayersShape ==
    ASSUME NEW leaves, IsLayer(leaves), NEW k \in Nat
    PROVE  /\ IsLayer(Layers(leaves)[k])
           /\ Len(Layers(leaves)[k]) = 1 \/ Len(Layers(leaves)[k]) + k =< Len(leaves)
<1> DEFINE layer == Layers(leaves)
           Good(j) == /\ IsLayer(layer[j])
                      /\ Len(layer[j]) = 1 \/ Len(layer[j]) + j =< Len(leaves)
           Bad == {j \in Nat : ~ Good(j)}
<1> SUFFICES ASSUME Bad # {} PROVE FALSE
  OBVIOUS
<1>1. PICK j \in Bad : \A u \in Bad : j =< u
  <2> HIDE DEF Good
  <2> QED BY LeastExists
<1>2. Good(0)
  <2>1. layer[0] = [i \in 1 .. Len(leaves) |-> merkleLeaf(leaves[i])]
    BY LayersEquation DEF LeafLayer, IsLayer
  <2> HIDE DEF layer
  <2>2. DOMAIN layer[0] = 1 .. Len(leaves) /\ Len(layer[0]) = Len(leaves)
    BY <2>1 DEF IsLayer
  <2> QED BY <2>2 DEF IsLayer
<1>3. j - 1 \in Nat /\ Good(j - 1)
  <2> HIDE DEF Good
  <2> QED BY <1>1, <1>2
<1>4. layer[j] = NextLayer(layer[j - 1])
  BY <1>3, LayersEquation
<1>5. Good(j)
  <2>1. j = (j - 1) + 1
    BY <1>3
  <2> HIDE DEF layer
  <2>2. IsLayer(layer[j])
    BY <1>3, <1>4, NextLayerShape
  <2>3. Len(layer[j]) = 1 \/ Len(layer[j]) + ((j - 1) + 1) =< Len(leaves)
    BY <1>3, <1>4, NextLayerShrinks DEF IsLayer
  <2> QED BY <2>1, <2>2, <2>3
<1> QED BY <1>5

\* The level of the root.
LEMMA DepthIs ==
    ASSUME NEW leaves, IsLayer(leaves)
    PROVE  /\ Depth(leaves) \in Nat
           /\ Len(Layers(leaves)[Depth(leaves)]) = 1
           /\ \A j \in 0 .. Depth(leaves) - 1 : Len(Layers(leaves)[j]) > 1
<1> DEFINE len(k) == Len(Layers(leaves)[k])
           Single == {k \in Nat : len(k) = 1}
<1>0. \A k \in Nat : len(k) \in Nat \ {0} /\ (len(k) = 1 \/ len(k) + k =< Len(leaves))
  BY LayersShape DEF IsLayer
<1>1. Len(leaves) \in Single
  <2> HIDE DEF len
  <2> QED BY <1>0 DEF IsLayer
<1>2. PICK d \in Single : \A u \in Single : d =< u
  <2>1. Single \subseteq Nat
    OBVIOUS
  <2> HIDE DEF Single
  <2> QED BY <1>1, <2>1, LeastExists
<1>3. d \in 0 .. Len(leaves) /\ len(d) = 1
  BY <1>1, <1>2 DEF IsLayer
<1>4. \A j \in 0 .. d - 1 : len(j) > 1
  <2> TAKE j \in 0 .. d - 1
  <2>1. j \in Nat /\ j < d
    BY <1>3
  <2>2. j \notin Single
    <3> HIDE DEF Single
    <3> QED BY <1>2, <1>3, <2>1
  <2>3. len(j) # 1
    BY <2>1, <2>2
  <2>4. len(j) \in Nat \ {0}
    BY <1>0, <2>1
  <2> HIDE DEF len
  <2> QED BY <2>3, <2>4
<1>5. Depth(leaves) = CHOOSE k \in 0 .. Len(leaves) : len(k) = 1 /\ \A j \in 0 .. k - 1 : len(j) > 1
  BY DEF Depth
<1>6. /\ Depth(leaves) \in 0 .. Len(leaves) /\ len(Depth(leaves)) = 1
      /\ \A j \in 0 .. Depth(leaves) - 1 : len(j) > 1
  <2> HIDE DEF len
  <2> QED BY <1>3, <1>4, <1>5
<1> QED BY <1>6 DEF IsLayer

-----------------------------------------------------------------------------
(* The places of a leaf's ancestors *)

\* They are places in their layers.
LEMMA PlacesFit ==
    ASSUME NEW leaves, IsLayer(leaves), NEW leafIdx \in 0 .. Len(leaves) - 1, NEW k \in Nat
    PROVE  Places(leafIdx)[k] \in 0 .. Len(Layers(leaves)[k]) - 1
<1> DEFINE Good(j) == Places(leafIdx)[j] \in 0 .. Len(Layers(leaves)[j]) - 1
           Bad == {j \in Nat : ~ Good(j)}
<1> SUFFICES ASSUME Bad # {} PROVE FALSE
  OBVIOUS
<1>1. PICK j \in Bad : \A u \in Bad : j =< u
  <2> HIDE DEF Good
  <2> QED BY LeastExists
<1>2. Good(0)
  <2>1. Layers(leaves)[0] = [i \in 1 .. Len(leaves) |-> merkleLeaf(leaves[i])]
    BY LayersEquation DEF LeafLayer, IsLayer
  <2>2. Len(Layers(leaves)[0]) = Len(leaves)
    BY <2>1 DEF IsLayer
  <2> QED BY <2>2, PlacesEquation
<1>3. j - 1 \in Nat /\ Good(j - 1)
  <2> HIDE DEF Good
  <2> QED BY <1>1, <1>2
<1> DEFINE place == Places(leafIdx)[j - 1]
           n     == Len(Layers(leaves)[j - 1])
<1>4. n \in Nat \ {0} /\ place \in 0 .. n - 1
  BY <1>3, LayersShape DEF IsLayer
<1>5. Places(leafIdx)[j] = place \div 2
  BY <1>3, PlacesEquation
<1>6. Len(Layers(leaves)[j]) = (n + 1) \div 2
  <2>1. Layers(leaves)[j] = NextLayer(Layers(leaves)[j - 1])
    BY <1>3, LayersEquation
  <2> QED BY <1>3, <2>1, LayersShape, NextLayerShape
<1>7. Good(j)
  <2> HIDE DEF place, n
  <2>1. place \div 2 \in 0 .. ((n + 1) \div 2) - 1
    BY <1>4
  <2> QED BY <1>5, <1>6, <2>1
<1> QED BY <1>7

\* The node above the one at idx is computed from that and its sibling.
LEMMA Above ==
    ASSUME NEW layer, IsLayer(layer), NEW idx \in 0 .. Len(layer) - 1
    PROVE  NextLayer(layer)[(idx \div 2) + 1] =
               IF idx % 2 = 0 THEN merkleNode(layer[idx + 1], Sibling(layer, idx))
               ELSE merkleNode(Sibling(layer, idx), layer[idx + 1])
<1> DEFINE n == Len(layer)
           i == (idx \div 2) + 1
<1>1. n \in Nat \ {0} /\ idx \in 0 .. n - 1
  BY DEF IsLayer
<1>2. i \in 1 .. (n + 1) \div 2
  <2> HIDE DEF n
  <2> QED BY <1>1
<1>3. NextLayer(layer)[i] = merkleNode(layer[2 * i - 1],
                                       IF 2 * i =< n THEN layer[2 * i] ELSE layer[2 * i - 1])
  BY <1>2 DEF NextLayer
<1>4. CASE idx % 2 = 0
  <2>1. 2 * i - 1 = idx + 1 /\ 2 * i = idx + 2
    BY <1>1, <1>4
  <2>2. Sibling(layer, idx) = IF idx + 1 < n THEN layer[idx + 2] ELSE layer[idx + 1]
    BY <1>1, <1>4 DEF Sibling
  <2>3. idx + 2 =< n <=> idx + 1 < n
    BY <1>1
  <2> HIDE DEF i, n
  <2> QED BY <1>3, <1>4, <2>1, <2>2, <2>3 DEF i
<1>5. CASE idx % 2 # 0
  <2>1. 2 * i - 1 = idx /\ 2 * i = idx + 1
    BY <1>1, <1>5
  <2>2. idx - 1 < n /\ (idx - 1) + 1 = idx /\ idx + 1 =< n
    BY <1>1
  <2>3. Sibling(layer, idx) = layer[idx]
    BY <1>5, <2>2 DEF Sibling
  <2> HIDE DEF i, n
  <2> QED BY <1>3, <1>5, <2>1, <2>2, <2>3 DEF i
<1> QED BY <1>4, <1>5

-----------------------------------------------------------------------------
(* What the client computes from a proof *)

\* One step up.
Up(current, step) ==
    IF step.position = "right" THEN merkleNode(current, step.hash)
    ELSE merkleNode(step.hash, current)

ClimbsTo(n, f, leafHash, path) ==
    f = [k \in 0 .. n |-> IF k = 0 THEN merkleLeaf(leafHash) ELSE Up(f[k - 1], path[k])]

LEMMA SomeClimb ==
    ASSUME NEW leafHash, NEW path, NEW n \in Nat
    PROVE  \E f : ClimbsTo(n, f, leafHash, path)
<1> DEFINE Bad == {m \in Nat : ~ \E f : ClimbsTo(m, f, leafHash, path)}
<1> SUFFICES ASSUME Bad # {} PROVE FALSE
  OBVIOUS
<1>1. PICK m \in Bad : \A u \in Bad : m =< u
  BY LeastExists
<1>2. CASE m = 0
  <2> DEFINE f == [k \in 0 .. 0 |-> merkleLeaf(leafHash)]
  <2>1. f = [k \in 0 .. 0 |-> IF k = 0 THEN merkleLeaf(leafHash) ELSE Up(f[k - 1], path[k])]
    OBVIOUS
  <2> QED BY <1>1, <1>2, <2>1 DEF ClimbsTo
<1>3. CASE m # 0
  <2>1. m - 1 \in Nat /\ m - 1 \notin Bad
    BY <1>1, <1>3
  <2>2. PICK f : ClimbsTo(m - 1, f, leafHash, path)
    BY <2>1
  <2> DEFINE g == [k \in 0 .. m |-> IF k = 0 THEN merkleLeaf(leafHash) ELSE Up(f[k - 1], path[k])]
  <2>3. \A k \in 0 .. m - 1 : g[k] = f[k]
    <3> TAKE k \in 0 .. m - 1
    <3>1. k \in 0 .. m
      BY <2>1
    <3>2. f[k] = IF k = 0 THEN merkleLeaf(leafHash) ELSE Up(f[k - 1], path[k])
      <4> HIDE DEF g, Bad
      <4> QED BY <2>2, Zenon DEF ClimbsTo
    <3>3. g[k] = IF k = 0 THEN merkleLeaf(leafHash) ELSE Up(f[k - 1], path[k])
      BY <3>1, Zenon
    <3> QED BY <3>2, <3>3
  <2>4. g = [k \in 0 .. m |-> IF k = 0 THEN merkleLeaf(leafHash) ELSE Up(g[k - 1], path[k])]
    <3>1. \A k \in 0 .. m : k # 0 => k - 1 \in 0 .. m - 1
      BY <2>1
    <3> QED BY <2>3, <3>1
  <2> QED BY <1>1, <2>4 DEF ClimbsTo
<1> QED BY <1>2, <1>3

\* The client climbs from the leaf to the end of the proof.
LEMMA Climb ==
    ASSUME NEW leafHash, NEW path, Len(path) \in Nat
    PROVE  \E f : /\ f[0] = merkleLeaf(leafHash)
                  /\ \A k \in 1 .. Len(path) : f[k] = Up(f[k - 1], path[k])
                  /\ \A rootHash : verifyInclusionProof(leafHash, path, rootHash)
                                        <=> f[Len(path)] = rootHash
<1> DEFINE f == CHOOSE f : ClimbsTo(Len(path), f, leafHash, path)
<1>1. ClimbsTo(Len(path), f, leafHash, path)
  BY SomeClimb
<1>2. f = CHOOSE g : g = [k \in 0 .. Len(path) |->
              IF k = 0 THEN merkleLeaf(leafHash)
              ELSE IF path[k].position = "right" THEN merkleNode(g[k - 1], path[k].hash)
              ELSE merkleNode(path[k].hash, g[k - 1])]
  BY DEF ClimbsTo, Up
<1>3. \A rootHash : verifyInclusionProof(leafHash, path, rootHash) <=> f[Len(path)] = rootHash
  BY <1>2 DEF verifyInclusionProof
<1>4. f[0] = merkleLeaf(leafHash) /\ \A k \in 1 .. Len(path) : f[k] = Up(f[k - 1], path[k])
  <2> HIDE DEF f
  <2>1. \A k \in 0 .. Len(path) :
            f[k] = IF k = 0 THEN merkleLeaf(leafHash) ELSE Up(f[k - 1], path[k])
    BY <1>1, Zenon DEF ClimbsTo
  <2>2. 0 \in 0 .. Len(path) /\ \A k \in 1 .. Len(path) : k \in 0 .. Len(path) /\ k # 0
    OBVIOUS
  <2> QED BY <2>1, <2>2, Zenon
<1> HIDE DEF f
<1> QED BY <1>3, <1>4

-----------------------------------------------------------------------------
(* The theorems *)

\* The proof of every leaf is accepted under the root, with the last node of an odd
\* layer its own sibling (buildMerkleTree, and verifyInclusionProof of the smoke test).
THEOREM InclusionComplete ==
    ASSUME NEW leaves, IsLayer(leaves), NEW leafIdx \in 0 .. Len(leaves) - 1
    PROVE  verifyInclusionProof(leaves[leafIdx + 1], Proof(leaves, leafIdx), Root(leaves))
<1> DEFINE d        == Depth(leaves)
           path     == Proof(leaves, leafIdx)
           place(k) == Places(leafIdx)[k]
           layer(k) == Layers(leaves)[k]
<1>1. d \in Nat /\ Len(layer(d)) = 1
  BY DepthIs
<1>2. Len(path) = d /\ \A k \in 1 .. d :
          path[k] = [position |-> IF place(k - 1) % 2 = 0 THEN "right" ELSE "left",
                     hash     |-> Sibling(layer(k - 1), place(k - 1))]
  <2> DEFINE n == d
  <2>1. n \in Nat /\ path = [k \in 1 .. n |->
            [position |-> IF place(k - 1) % 2 = 0 THEN "right" ELSE "left",
             hash     |-> Sibling(layer(k - 1), place(k - 1))]]
    BY <1>1 DEF Proof
  <2> HIDE DEF n, path, place, layer
  <2>2. Len(path) = n
    BY <2>1
  <2> QED BY <2>1, <2>2 DEF n
<1>3. PICK f : /\ f[0] = merkleLeaf(leaves[leafIdx + 1])
               /\ \A k \in 1 .. d : f[k] = Up(f[k - 1], path[k])
               /\ verifyInclusionProof(leaves[leafIdx + 1], path, Root(leaves))
                      <=> f[d] = Root(leaves)
  <2>1. Len(path) \in Nat /\ Len(path) = d
    BY <1>1, <1>2
  <2> HIDE DEF path, d
  <2>2. PICK f : /\ f[0] = merkleLeaf(leaves[leafIdx + 1])
                 /\ \A k \in 1 .. Len(path) : f[k] = Up(f[k - 1], path[k])
                 /\ \A rootHash : verifyInclusionProof(leaves[leafIdx + 1], path, rootHash)
                                      <=> f[Len(path)] = rootHash
    BY <2>1, Climb, Zenon
  <2> QED BY <2>1, <2>2, Zenon
<1>4. \A k \in 0 .. d : f[k] = layer(k)[place(k) + 1]
  <2> DEFINE Bad == {k \in 0 .. d : f[k] # layer(k)[place(k) + 1]}
  <2> SUFFICES ASSUME Bad # {} PROVE FALSE
    OBVIOUS
  <2>1. PICK k \in Bad : \A u \in Bad : k =< u
    <3>1. Bad \subseteq Nat
      BY <1>1
    <3> HIDE DEF Bad
    <3> QED BY <3>1, LeastExists
  <2>2. f[0] = layer(0)[place(0) + 1]
    <3>1. layer(0) = [i \in 1 .. Len(leaves) |-> merkleLeaf(leaves[i])]
      BY LayersEquation DEF LeafLayer, IsLayer
    <3>2. place(0) = leafIdx /\ leafIdx + 1 \in 1 .. Len(leaves)
      BY PlacesEquation DEF IsLayer
    <3> QED BY <1>3, <3>1, <3>2
  <2>3. k \in 1 .. d /\ k - 1 \in Nat /\ k - 1 \in 0 .. d /\ k - 1 \notin Bad /\ k = (k - 1) + 1
    <3>1. k \in 0 .. d /\ k # 0
      <4> HIDE DEF d, layer, place
      <4> QED BY <2>2
    <3>2. k \in 1 .. d /\ k - 1 \in Nat /\ k - 1 \in 0 .. d /\ k = (k - 1) + 1 /\ ~ (k =< k - 1)
      <4> HIDE DEF d, Bad
      <4> QED BY <1>1, <3>1
    <3> HIDE DEF Bad
    <3> QED BY <2>1, <3>2
  <2> DEFINE idx   == place(k - 1)
             below == layer(k - 1)
  <2>4. f[k - 1] = below[idx + 1]
    BY <2>3
  <2>5. IsLayer(below) /\ idx \in 0 .. Len(below) - 1
    BY <2>3, LayersShape, PlacesFit
  <2>6. layer(k) = NextLayer(below) /\ place(k) = idx \div 2
    BY <2>3, LayersEquation, PlacesEquation
  <2>7. f[k] = IF idx % 2 = 0 THEN merkleNode(below[idx + 1], Sibling(below, idx))
               ELSE merkleNode(Sibling(below, idx), below[idx + 1])
    <3>1. path[k].hash = Sibling(below, idx) /\ (path[k].position = "right" <=> idx % 2 = 0)
      <4> HIDE DEF path
      <4> QED BY <1>2, <2>3
    <3>2. f[k] = Up(f[k - 1], path[k])
      BY <1>3, <2>3
    <3> HIDE DEF path, idx, below
    <3> QED BY <2>4, <3>1, <3>2 DEF Up
  <2>8. f[k] = NextLayer(below)[(idx \div 2) + 1]
    <3> HIDE DEF idx, below
    <3> QED BY <2>5, <2>7, Above
  <2> QED BY <2>6, <2>8
<1>5. Root(leaves) = layer(d)[1]
  BY DEF Root, IsLayer
<1>6. place(d) = 0
  <2>1. place(d) \in 0 .. Len(layer(d)) - 1
    BY <1>1, PlacesFit
  <2> HIDE DEF place, layer
  <2> QED BY <1>1, <2>1
<1>7. f[d] = Root(leaves)
  <2> HIDE DEF d, place, layer
  <2> QED BY <1>1, <1>4, <1>5, <1>6
<1> QED BY <1>3, <1>7

\* A node above the leaves is the hash of two nodes of the layer below.
LEMMA NodeOf ==
    ASSUME NEW leaves, IsLayer(leaves), NEW k \in Nat, NEW i \in DOMAIN Layers(leaves)[k + 1]
    PROVE  \E a, b \in DOMAIN Layers(leaves)[k] :
               Layers(leaves)[k + 1][i] = merkleNode(Layers(leaves)[k][a], Layers(leaves)[k][b])
<1> DEFINE below == Layers(leaves)[k]
           n     == Len(below)
<1>1. n \in Nat \ {0} /\ DOMAIN below = 1 .. n
  BY LayersShape DEF IsLayer
<1>2. Layers(leaves)[k + 1] = [j \in 1 .. (n + 1) \div 2 |->
          merkleNode(below[2 * j - 1], IF 2 * j =< n THEN below[2 * j] ELSE below[2 * j - 1])]
  BY LayersEquation DEF NextLayer
<1> HIDE DEF below, n
<1>3. i \in 1 .. (n + 1) \div 2
  BY <1>2
<1>4. 2 * i - 1 \in 1 .. n /\ (2 * i =< n => 2 * i \in 1 .. n)
  BY <1>1, <1>3
<1>5. CASE 2 * i =< n
  <2>1. Layers(leaves)[k + 1][i] = merkleNode(below[2 * i - 1], below[2 * i])
    BY <1>2, <1>3, <1>5
  <2> QED BY <1>1, <1>4, <1>5, <2>1 DEF below
<1>6. CASE ~ (2 * i =< n)
  <2>1. Layers(leaves)[k + 1][i] = merkleNode(below[2 * i - 1], below[2 * i - 1])
    BY <1>2, <1>3, <1>6
  <2> QED BY <1>1, <1>4, <2>1 DEF below
<1> QED BY <1>5, <1>6

\* Hashes are equal just when what was hashed is, and a leaf is told from a node.
LEMMA Injective ==
    /\ \A a, b : merkleLeaf(a) = merkleLeaf(b) => a = b
    /\ \A a, b, c, e : merkleNode(a, b) = merkleNode(c, e) => a = c /\ b = e
    /\ \A a, b, c : merkleLeaf(a) # merkleNode(b, c)
<1>1. \A a, b : merkleLeaf(a) = merkleLeaf(b) => a = b
  <2> TAKE a, b
  <2>1. merkleLeaf(a).leaf = a /\ merkleLeaf(b).leaf = b
    BY DEF merkleLeaf
  <2> QED BY <2>1
<1>2. \A a, b, c, e : merkleNode(a, b) = merkleNode(c, e) => a = c /\ b = e
  <2> TAKE a, b, c, e
  <2>1. /\ merkleNode(a, b).left = a /\ merkleNode(a, b).right = b
        /\ merkleNode(c, e).left = c /\ merkleNode(c, e).right = e
    BY DEF merkleNode
  <2> QED BY <2>1
<1>3. \A a, b, c : merkleLeaf(a) # merkleNode(b, c)
  <2> TAKE a, b, c
  <2>1. DOMAIN merkleLeaf(a) = {"leaf"} /\ DOMAIN merkleNode(b, c) = {"left", "right"}
    BY DEF merkleLeaf, merkleNode
  <2> QED BY <2>1
<1> QED BY <1>1, <1>2, <1>3

\* A proof that is accepted, of whatever length and made by whomever, is the proof of a
\* leaf: a node of the tree cannot be passed off as a leaf, nor a leaf as a node, because
\* they are hashed with different prefixes (merkleLeaf, merkleNode).
THEOREM InclusionSound ==
    ASSUME NEW leaves, IsLayer(leaves), NEW leafHash, NEW path, Len(path) \in Nat,
           verifyInclusionProof(leafHash, path, Root(leaves))
    PROVE  \E i \in DOMAIN leaves : leafHash = leaves[i]
<1> DEFINE d        == Depth(leaves)
           n        == Len(path)
           layer(k) == Layers(leaves)[k]
<1>1. d \in Nat /\ Len(layer(d)) = 1
  BY DepthIs
<1>2. PICK f : /\ f[0] = merkleLeaf(leafHash)
               /\ \A k \in 1 .. n : f[k] = Up(f[k - 1], path[k])
               /\ f[n] = Root(leaves)
  BY Climb
<1> HIDE DEF n
<1>3. n \in Nat
  BY DEF n
<1> DEFINE In(k) == \E i \in DOMAIN layer(d - k) : f[n - k] = layer(d - k)[i]
<1>4. In(0)
  <2>1. Root(leaves) = layer(d)[1]
    BY DEF Root, IsLayer
  <2>2. 1 \in DOMAIN layer(d) /\ d - 0 = d /\ n - 0 = n
    <3>1. DOMAIN layer(d) = 1 .. Len(layer(d))
      BY <1>1, LayersShape DEF IsLayer
    <3> HIDE DEF d, layer
    <3> QED BY <1>1, <1>3, <3>1
  <2> QED BY <1>2, <2>1, <2>2
<1>5. ASSUME NEW k \in Nat, k < n, k < d, In(k)
      PROVE  In(k + 1)
  <2>1. PICK i \in DOMAIN layer(d - k) : f[n - k] = layer(d - k)[i]
    BY <1>5
  <2>2. d - (k + 1) \in Nat /\ d - k = (d - (k + 1)) + 1
    <3> HIDE DEF d, In
    <3> QED BY <1>1, <1>5
  <2>3. PICK a, b \in DOMAIN layer(d - (k + 1)) :
            layer(d - k)[i] = merkleNode(layer(d - (k + 1))[a], layer(d - (k + 1))[b])
    BY <2>1, <2>2, NodeOf
  <2>4. f[n - k] = Up(f[n - (k + 1)], path[n - k])
    <3>1. n - k \in 1 .. n /\ (n - k) - 1 = n - (k + 1)
      <4> HIDE DEF d, In
      <4> QED BY <1>3, <1>5
    <3> QED BY <1>2, <3>1
  <2>5. \/ f[n - (k + 1)] = layer(d - (k + 1))[a]
        \/ f[n - (k + 1)] = layer(d - (k + 1))[b]
    <3> HIDE DEF d, layer, In
    <3> QED BY <2>1, <2>3, <2>4, Injective DEF Up
  <2> QED BY <2>5
<1>6. \A k \in Nat : k =< n /\ k =< d => In(k)
  <2> DEFINE Bad == {k \in Nat : k =< n /\ k =< d /\ ~ In(k)}
  <2> SUFFICES ASSUME Bad # {} PROVE FALSE
    OBVIOUS
  <2> HIDE DEF In, d
  <2>1. PICK k \in Bad : \A u \in Bad : k =< u
    BY LeastExists
  <2>2. k # 0
    BY <1>4
  <2>3. k - 1 \in Nat /\ k - 1 < n /\ k - 1 < d /\ k - 1 \notin Bad /\ k = (k - 1) + 1
    BY <1>1, <1>3, <2>1, <2>2
  <2>4. In(k - 1)
    BY <1>1, <1>3, <2>3
  <2> QED BY <1>5, <2>3, <2>4
<1>7. CASE n = d
  <2>1. In(d)
    <3> HIDE DEF d, In
    <3> QED BY <1>1, <1>6, <1>7
  <2>2. PICK i \in DOMAIN layer(0) : merkleLeaf(leafHash) = layer(0)[i]
    <3>1. d - d = 0 /\ n - d = 0
      <4> HIDE DEF d, In
      <4> QED BY <1>1, <1>7
    <3> HIDE DEF d, layer
    <3> QED BY <1>2, <2>1, <3>1
  <2>3. layer(0) = [j \in DOMAIN leaves |-> merkleLeaf(leaves[j])]
    BY LayersEquation DEF LeafLayer
  <2>4. i \in DOMAIN leaves /\ merkleLeaf(leafHash) = merkleLeaf(leaves[i])
    BY <2>2, <2>3
  <2> QED BY <2>4, Injective
<1>8. CASE n < d
  <2>1. d - n \in Nat /\ d - (n + 1) \in Nat /\ d - n = (d - (n + 1)) + 1 /\ n - n = 0 /\ n =< d
    <3> HIDE DEF d, In
    <3> QED BY <1>1, <1>3, <1>8
  <2>2. In(n)
    <3> HIDE DEF d, In
    <3> QED BY <1>3, <1>6, <2>1
  <2>3. PICK i \in DOMAIN layer(d - n) : merkleLeaf(leafHash) = layer(d - n)[i]
    <3> HIDE DEF d, layer
    <3> QED BY <1>2, <2>1, <2>2
  <2>4. \E a, b : layer(d - n)[i] = merkleNode(a, b)
    BY <2>1, <2>3, NodeOf
  <2> HIDE DEF layer, d
  <2> QED BY <2>3, <2>4, Injective
<1>9. CASE d < n
  <2>1. n - d \in 1 .. n /\ d - d = 0 /\ d =< n
    <3> HIDE DEF d, In
    <3> QED BY <1>1, <1>3, <1>9
  <2>2. In(d)
    <3> HIDE DEF d, In
    <3> QED BY <1>1, <1>6, <2>1
  <2>3. PICK i \in DOMAIN layer(0) : f[n - d] = layer(0)[i]
    <3> HIDE DEF d, layer
    <3> QED BY <2>1, <2>2
  <2>4. layer(0)[i] = merkleLeaf(leaves[i])
    <3>1. layer(0) = [j \in DOMAIN leaves |-> merkleLeaf(leaves[j])]
      BY LayersEquation DEF LeafLayer
    <3> QED BY <2>3, <3>1
  <2>5. f[n - d] = Up(f[(n - d) - 1], path[n - d])
    BY <1>2, <2>1
  <2> HIDE DEF layer, d
  <2> QED BY <2>3, <2>4, <2>5, Injective DEF Up
<1> QED
  <2> HIDE DEF d, In
  <2> QED BY <1>1, <1>3, <1>7, <1>8, <1>9

\* The root of no leaves proves nothing.
LEMMA EmptySound ==
    ASSUME NEW leafHash, NEW path, Len(path) \in Nat
    PROVE  ~ verifyInclusionProof(leafHash, path, EmptyRoot)
<1>1. PICK f : /\ f[0] = merkleLeaf(leafHash)
               /\ \A k \in 1 .. Len(path) : f[k] = Up(f[k - 1], path[k])
               /\ verifyInclusionProof(leafHash, path, EmptyRoot) <=> f[Len(path)] = EmptyRoot
  BY Climb
<1>2. \A a, b : merkleLeaf(a) # EmptyRoot /\ merkleNode(a, b) # EmptyRoot
  <2> TAKE a, b
  <2>1. /\ DOMAIN EmptyRoot = {"empty"} /\ DOMAIN merkleLeaf(a) = {"leaf"}
        /\ DOMAIN merkleNode(a, b) = {"left", "right"}
    BY DEF EmptyRoot, merkleLeaf, merkleNode
  <2> QED BY <2>1
<1>3. CASE Len(path) = 0
  BY <1>1, <1>2, <1>3
<1>4. CASE Len(path) \in 1 .. Len(path)
  BY <1>1, <1>2, <1>4 DEF Up
<1> QED BY <1>3, <1>4

\* Layers of the same length have the same nodes below if they have the same above.
LEMMA SameBelow ==
    ASSUME NEW a, IsLayer(a), NEW b, IsLayer(b), Len(a) = Len(b),
           \A i \in 1 .. (Len(a) + 1) \div 2 : NextLayer(a)[i] = NextLayer(b)[i]
    PROVE  \A j \in 1 .. Len(a) : a[j] = b[j]
<1> DEFINE n == Len(a)
<1>1. n \in Nat \ {0}
  BY DEF IsLayer
<1>2. \A i \in 1 .. (n + 1) \div 2 :
          /\ NextLayer(a)[i] = merkleNode(a[2 * i - 1], IF 2 * i =< n THEN a[2 * i] ELSE a[2 * i - 1])
          /\ NextLayer(b)[i] = merkleNode(b[2 * i - 1], IF 2 * i =< n THEN b[2 * i] ELSE b[2 * i - 1])
  BY DEF NextLayer
<1> SUFFICES ASSUME NEW j \in 1 .. n PROVE a[j] = b[j]
  OBVIOUS
<1> DEFINE i == (j + 1) \div 2
<1> HIDE DEF n
<1>3. i \in 1 .. (n + 1) \div 2 /\ (2 * i - 1 = j \/ (2 * i = j /\ 2 * i =< n))
  BY <1>1
<1> HIDE DEF i
<1>4. NextLayer(a)[i] = NextLayer(b)[i]
  BY <1>3 DEF n
<1> DEFINE right(s) == IF 2 * i =< n THEN s[2 * i] ELSE s[2 * i - 1]
<1>5. /\ NextLayer(a)[i] = merkleNode(a[2 * i - 1], right(a))
      /\ NextLayer(b)[i] = merkleNode(b[2 * i - 1], right(b))
  BY <1>2, <1>3
<1>6. a[2 * i - 1] = b[2 * i - 1] /\ right(a) = right(b)
  <2> DEFINE l(s) == s[2 * i - 1]
  <2> HIDE DEF right
  <2>1. merkleNode(l(a), right(a)) = merkleNode(l(b), right(b))
    BY <1>4, <1>5
  <2> HIDE DEF l
  <2>2. ASSUME NEW x, NEW y, NEW z, NEW w, merkleNode(x, y) = merkleNode(z, w)
        PROVE  x = z /\ y = w
    <3>1. /\ merkleNode(x, y).left = x /\ merkleNode(x, y).right = y
          /\ merkleNode(z, w).left = z /\ merkleNode(z, w).right = w
      BY DEF merkleNode
    <3> QED BY <2>2, <3>1
  <2>3. l(a) = l(b) /\ right(a) = right(b)
    BY <2>1, <2>2
  <2> QED BY <2>3 DEF l
<1> QED BY <1>3, <1>6

\* A root and the number of its leaves, which the broker signs with it, determine the
\* leaves.  Without the number they would not: an odd layer has the root it would have with its
\* last node repeated (rebuildAndPublishIndex, leaf_count of the signed payload).
THEOREM RootBinds ==
    ASSUME NEW leaves, IsLayer(leaves), NEW others, IsLayer(others),
           Len(leaves) = Len(others), Root(leaves) = Root(others)
    PROVE  \A i \in DOMAIN leaves : leaves[i] = others[i]
<1> DEFINE d    == Depth(leaves)
           e    == Depth(others)
           A(k) == Layers(leaves)[k]
           B(k) == Layers(others)[k]
<1>1. \A k \in Nat : IsLayer(A(k)) /\ IsLayer(B(k))
  BY LayersShape
<1>2. \A k \in Nat : Len(A(k)) = Len(B(k))
  <2> DEFINE Bad == {k \in Nat : Len(A(k)) # Len(B(k))}
  <2> SUFFICES ASSUME Bad # {} PROVE FALSE
    OBVIOUS
  <2>1. PICK k \in Bad : \A u \in Bad : k =< u
    <3> HIDE DEF A, B
    <3> QED BY LeastExists
  <2>2. Len(A(0)) = Len(B(0))
    <3>1. /\ A(0) = [i \in 1 .. Len(leaves) |-> merkleLeaf(leaves[i])]
          /\ B(0) = [i \in 1 .. Len(leaves) |-> merkleLeaf(others[i])]
      BY LayersEquation DEF LeafLayer, IsLayer
    <3> HIDE DEF A, B
    <3> QED BY <3>1 DEF IsLayer
  <2>3. k - 1 \in Nat /\ k - 1 \notin Bad /\ k = (k - 1) + 1
    <3> HIDE DEF A, B
    <3>1. k \in Nat /\ k # 0
      BY <2>2
    <3>2. k - 1 \in Nat /\ ~ (k =< k - 1) /\ k = (k - 1) + 1
      <4> HIDE DEF Bad
      <4> QED BY <3>1
    <3> HIDE DEF Bad
    <3> QED BY <2>1, <3>2
  <2>4. A(k) = NextLayer(A(k - 1)) /\ B(k) = NextLayer(B(k - 1))
    BY <2>3, LayersEquation
  <2> HIDE DEF A, B
  <2>5. Len(A(k - 1)) = Len(B(k - 1))
    BY <2>3
  <2>6. Len(A(k)) = Len(B(k))
    <3> HIDE DEF Bad
    <3> QED BY <1>1, <2>3, <2>4, <2>5, NextLayerShape
  <2> QED BY <2>6
<1>3. /\ d \in Nat /\ Len(A(d)) = 1 /\ \A j \in 0 .. d - 1 : Len(A(j)) > 1
      /\ e \in Nat /\ Len(B(e)) = 1 /\ \A j \in 0 .. e - 1 : Len(B(j)) > 1
  BY DepthIs
<1>4. d = e
  <2> HIDE DEF d, e, A, B
  <2>1. ASSUME d < e PROVE FALSE
    <3>1. d \in 0 .. e - 1
      BY <1>3, <2>1
    <3>2. Len(B(d)) > 1 /\ Len(A(d)) = 1 /\ Len(A(d)) = Len(B(d))
      BY <1>2, <1>3, <3>1
    <3> QED BY <3>2
  <2>2. ASSUME e < d PROVE FALSE
    <3>1. e \in 0 .. d - 1
      BY <1>3, <2>2
    <3>2. Len(A(e)) > 1 /\ Len(B(e)) = 1 /\ Len(A(e)) = Len(B(e))
      BY <1>2, <1>3, <3>1
    <3> QED BY <3>2
  <2> QED BY <1>3, <2>1, <2>2
<1> DEFINE Same(k) == \A i \in 1 .. Len(A(d - k)) : A(d - k)[i] = B(d - k)[i]
<1>5. Same(0)
  <2>1. A(d)[1] = B(d)[1]
    BY <1>4 DEF Root, IsLayer
  <2> HIDE DEF A, B, d
  <2>2. d - 0 = d
    BY <1>3
  <2>3. \A i \in 1 .. Len(A(d)) : A(d)[i] = B(d)[i]
    BY <1>3, <2>1
  <2> QED BY <2>2, <2>3
<1>6. ASSUME NEW k \in Nat, k < d, Same(k)
      PROVE  Same(k + 1)
  <2>1. d - (k + 1) \in Nat /\ d - k = (d - (k + 1)) + 1
    <3> HIDE DEF d, Same
    <3> QED BY <1>3, <1>6
  <2> DEFINE a == A(d - (k + 1))
             b == B(d - (k + 1))
  <2>2. A(d - k) = NextLayer(a) /\ B(d - k) = NextLayer(b)
    BY <2>1, LayersEquation
  <2>3. IsLayer(a) /\ IsLayer(b) /\ Len(a) = Len(b)
    <3> HIDE DEF A, B, d
    <3> QED BY <1>1, <1>2, <2>1
  <2>4. \A i \in 1 .. (Len(a) + 1) \div 2 : NextLayer(a)[i] = NextLayer(b)[i]
    <3>1. Len(A(d - k)) = (Len(a) + 1) \div 2
      <4> HIDE DEF A, B, d, a
      <4> QED BY <2>2, <2>3, NextLayerShape
    <3> HIDE DEF A, B, d, a, b
    <3> QED BY <1>6, <2>2, <3>1
  <2>5. \A j \in 1 .. Len(a) : a[j] = b[j]
    <3> HIDE DEF a, b, Same
    <3> QED BY <2>3, <2>4, SameBelow
  <2> QED BY <2>5
<1>7. \A k \in Nat : k =< d => Same(k)
  <2> DEFINE Bad == {k \in Nat : k =< d /\ ~ Same(k)}
  <2> SUFFICES ASSUME Bad # {} PROVE FALSE
    OBVIOUS
  <2> HIDE DEF Same, d
  <2>1. PICK k \in Bad : \A u \in Bad : k =< u
    BY LeastExists
  <2>2. k - 1 \in Nat /\ k - 1 < d /\ k - 1 \notin Bad /\ k = (k - 1) + 1
    BY <1>3, <1>5, <2>1
  <2>3. Same(k - 1)
    BY <1>3, <2>2
  <2> QED BY <1>6, <2>2, <2>3
<1>8. \A i \in 1 .. Len(A(0)) : A(0)[i] = B(0)[i]
  <2>1. Same(d) /\ d - d = 0
    <3> HIDE DEF d, Same
    <3> QED BY <1>3, <1>7
  <2> HIDE DEF A, B, d
  <2> QED BY <2>1
<1>9. /\ A(0) = [i \in 1 .. Len(leaves) |-> merkleLeaf(leaves[i])]
      /\ B(0) = [i \in 1 .. Len(leaves) |-> merkleLeaf(others[i])]
  BY LayersEquation DEF LeafLayer, IsLayer
<1>10. Len(A(0)) = Len(leaves)
  <2> HIDE DEF A
  <2> QED BY <1>9 DEF IsLayer
<1>11. ASSUME NEW i \in 1 .. Len(leaves) PROVE leaves[i] = others[i]
  <2>1. merkleLeaf(leaves[i]) = merkleLeaf(others[i])
    <3> HIDE DEF A, B
    <3> QED BY <1>8, <1>9, <1>10
  <2> QED BY <2>1, Injective
<1> QED BY <1>11 DEF IsLayer

-----------------------------------------------------------------------------
(* Rows *)

\* Every provider has one row.
Rows(rows) ==
    /\ rows \in Seq(ManifestRow)
    /\ \A i, j \in DOMAIN rows : rows[i].provider_did = rows[j].provider_did => i = j

\* The columns of a row are made of its manifest.
RowInv ==
    /\ Rows(manifests)
    /\ \A i \in DOMAIN manifests :
           manifests[i] = Row(manifests[i].provider_did, manifests[i].manifest_json)

LEMMA RowType ==
    ASSUME NEW p \in Providers, NEW m \in Manifests
    PROVE  /\ Row(p, m) \in ManifestRow
           /\ Row(p, m).provider_did = p /\ Row(p, m).manifest_json = m
<1>1. m \in Manifest
  BY ManifestsAssumption
<1>2. /\ Default(m.conformance_level, 0) \in Nat \cup {text}
      /\ Default(m.risk_class, "low") \in riskClass
  BY <1>1 DEF Manifest, Default, riskClass, riskOrder
<1>3. m.avg_cost_usd \in Nat \cup {text, null} /\ m.jurisdictions \in SUBSET Names
      /\ m.categories \in SUBSET Names
  BY <1>1 DEF Manifest
<1> QED BY <1>2, <1>3 DEF Row, ManifestRow

\* A registration replaces the provider's row k, or appends it as row k.
UpsertsAt(k, p, m) ==
    /\ Upsert(p, m) \in Seq(ManifestRow)
    /\ Len(Upsert(p, m)) = IF k =< Len(manifests) THEN Len(manifests) ELSE Len(manifests) + 1
    /\ Upsert(p, m)[k] = Row(p, m)
    /\ \A i \in DOMAIN manifests : i # k => /\ Upsert(p, m)[i] = manifests[i]
                                           /\ manifests[i].provider_did # p
    /\ k =< Len(manifests) => manifests[k].provider_did = p

LEMMA UpsertEffect ==
    ASSUME RowInv, NEW p \in Providers, NEW m \in Manifests
    PROVE  \E k \in 1 .. Len(manifests) + 1 : UpsertsAt(k, p, m)
<1> USE DEF RowInv, Rows
<1>0. Len(manifests) \in Nat /\ DOMAIN manifests = 1 .. Len(manifests)
      /\ Row(p, m) \in ManifestRow
  BY RowType
<1>1. CASE Registered(p)
  <2>1. PICK k \in DOMAIN manifests : manifests[k].provider_did = p
    BY <1>1 DEF Registered
  <2>2. Upsert(p, m) = [i \in 1 .. Len(manifests) |->
             IF manifests[i].provider_did = p THEN Row(p, m) ELSE manifests[i]]
    BY <1>0, <1>1 DEF Upsert
  <2>3. Upsert(p, m) \in Seq(ManifestRow) /\ Len(Upsert(p, m)) = Len(manifests)
    BY <1>0, <2>2
  <2>4. \A i \in DOMAIN manifests : i # k => manifests[i].provider_did # p
    BY <2>1
  <2>5. k \in 1 .. Len(manifests) + 1 /\ k =< Len(manifests)
    BY <1>0
  <2>6. /\ Upsert(p, m)[k] = Row(p, m)
        /\ \A i \in DOMAIN manifests : i # k => Upsert(p, m)[i] = manifests[i]
    BY <1>0, <2>1, <2>2, <2>4
  <2>7. UpsertsAt(k, p, m)
    BY <2>1, <2>3, <2>4, <2>5, <2>6 DEF UpsertsAt
  <2> QED BY <2>5, <2>7
<1>2. CASE ~ Registered(p)
  <2>1. Upsert(p, m) = Append(manifests, Row(p, m))
    BY <1>2 DEF Upsert
  <2> DEFINE k == Len(manifests) + 1
  <2>2. /\ Upsert(p, m) \in Seq(ManifestRow) /\ Len(Upsert(p, m)) = k
        /\ Upsert(p, m)[k] = Row(p, m)
        /\ \A i \in DOMAIN manifests : Upsert(p, m)[i] = manifests[i]
    BY <1>0, <2>1
  <2>3. \A i \in DOMAIN manifests : manifests[i].provider_did # p
    BY <1>2 DEF Registered
  <2>4. k \in 1 .. Len(manifests) + 1 /\ ~ (k =< Len(manifests))
    BY <1>0
  <2>5. UpsertsAt(k, p, m)
    BY <2>2, <2>3, <2>4 DEF UpsertsAt
  <2> QED BY <2>4, <2>5
<1> QED BY <1>1, <1>2

LEMMA RowInit == Init => RowInv
BY DEF Init, RowInv, Rows

LEMMA RowRegister ==
    ASSUME RowInv, NEW p \in Providers, NEW m \in Manifests, manifests' = Upsert(p, m)
    PROVE  RowInv'
<1>0. PICK k \in 1 .. Len(manifests) + 1 : UpsertsAt(k, p, m)
  BY UpsertEffect
<1>1. /\ manifests' \in Seq(ManifestRow)
      /\ Len(manifests') = IF k =< Len(manifests) THEN Len(manifests) ELSE Len(manifests) + 1
      /\ manifests'[k] = Row(p, m)
      /\ \A i \in DOMAIN manifests : i # k => /\ manifests'[i] = manifests[i]
                                             /\ manifests[i].provider_did # p
  BY <1>0 DEF UpsertsAt
<1>2. Len(manifests) \in Nat /\ DOMAIN manifests = 1 .. Len(manifests)
      /\ DOMAIN manifests' = 1 .. Len(manifests')
  BY <1>1 DEF RowInv, Rows
<1>3. Row(p, m).provider_did = p /\ Row(p, m).manifest_json = m
  BY RowType
<1>4. \A i \in DOMAIN manifests' : i # k => i \in DOMAIN manifests
  BY <1>1, <1>2
<1>5. \A i, j \in DOMAIN manifests' :
          manifests'[i].provider_did = manifests'[j].provider_did => i = j
  BY <1>1, <1>3, <1>4 DEF RowInv, Rows
<1>6. ASSUME NEW i \in DOMAIN manifests'
      PROVE  manifests'[i] = Row(manifests'[i].provider_did, manifests'[i].manifest_json)
  BY <1>1, <1>3, <1>4 DEF RowInv, Rows
<1> QED BY <1>1, <1>5, <1>6 DEF RowInv, Rows

LEMMA RowNext == RowInv /\ [Next]_vars => RowInv'
<1> SUFFICES ASSUME RowInv, [Next]_vars PROVE RowInv'
  OBVIOUS
<1>1. CASE manifests' = manifests
  BY <1>1 DEF RowInv, Rows
<1>2. ASSUME NEW p \in Providers, NEW m \in Manifests, registerManifest(p, m)
      PROVE  RowInv'
  BY <1>2, RowRegister DEF registerManifest
<1> QED BY <1>1, <1>2 DEF Next, vars, indexManifestBm25, registrationFails,
           publishIndex, Boot, boot,
           rebuildAndPublishIndex, Crash, resolve, indexProof

-----------------------------------------------------------------------------
(* Type correctness *)

\* A broker that answers has published a root.
TypeInv == TypeOK /\ (handler # Down => index_roots # <<>>)

LEMMA TypeInit == Init => TypeInv
BY BoundsAssumption DEF Init, TypeInv, TypeOK, Handler, Idle, Down

\* What a rebuild puts into the cache.
LEMMA CacheType ==
    ASSUME NEW rows, NEW p \in DOMAIN CacheOf(rows)
    PROVE  \E i \in DOMAIN rows :
              /\ rows[i].provider_did = p
              /\ CacheOf(rows)[p].leaf_index = i - 1
              /\ CacheOf(rows)[p].leaf_hash = rows[i].manifest_json
<1>1. \E i \in DOMAIN rows : rows[i].provider_did = p
  BY DEF CacheOf
<1> DEFINE i == CHOOSE j \in DOMAIN rows : rows[j].provider_did = p
<1>2. i \in DOMAIN rows /\ rows[i].provider_did = p
  BY <1>1
<1>3. CacheOf(rows)[p] = [leaf_index |-> i - 1, leaf_hash |-> rows[i].manifest_json,
                          proof |-> Proof(LeavesOf(rows), i - 1)]
  BY <1>1 DEF CacheOf
<1> HIDE DEF i
<1> QED BY <1>2, <1>3

LEMMA AppendEffect ==
    ASSUME NEW T, NEW seq \in Seq(T), NEW e \in T
    PROVE  /\ Append(seq, e) \in Seq(T)
           /\ Len(Append(seq, e)) = Len(seq) + 1 /\ Len(seq) \in Nat
           /\ DOMAIN seq = 1 .. Len(seq)
           /\ DOMAIN Append(seq, e) = 1 .. Len(seq) + 1
           /\ Append(seq, e)[Len(seq) + 1] = e
           /\ \A i \in DOMAIN seq : Append(seq, e)[i] = seq[i]
           /\ Append(seq, e) # <<>>
           /\ Append(seq, e) = [i \in 1 .. Len(seq) + 1 |-> Append(seq, e)[i]]
<1> DEFINE a == Append(seq, e)
<1>1. /\ a \in Seq(T) /\ a # <<>>
      /\ Len(a) = Len(seq) + 1 /\ Len(seq) \in Nat
      /\ DOMAIN seq = 1 .. Len(seq) /\ DOMAIN a = 1 .. Len(seq) + 1
      /\ a[Len(seq) + 1] = e
      /\ \A i \in DOMAIN seq : a[i] = seq[i]
  OBVIOUS
<1> HIDE DEF a
<1>2. a = [i \in 1 .. Len(a) |-> a[i]]
  BY <1>1
<1>3. a = [i \in 1 .. Len(seq) + 1 |-> a[i]]
  BY <1>1, <1>2
<1> QED BY <1>1, <1>3 DEF a

\* The same of the published roots.
LEMMA RootsEffect ==
    ASSUME NEW leaves \in Seq(Manifests), index_roots \in Seq(Seq(Manifests)),
           index_roots' = Append(index_roots, leaves)
    PROVE  /\ index_roots' \in Seq(Seq(Manifests)) /\ index_roots' # <<>>
           /\ Len(index_roots) \in Nat /\ Len(index_roots') = Len(index_roots) + 1
           /\ DOMAIN index_roots = 1 .. Len(index_roots)
           /\ DOMAIN index_roots' = 1 .. Len(index_roots) + 1
           /\ index_roots'[Len(index_roots) + 1] = leaves
           /\ \A n \in DOMAIN index_roots : index_roots'[n] = index_roots[n]
BY AppendEffect

LEMMA LeavesType ==
    ASSUME NEW rows, Rows(rows)
    PROVE  /\ LeavesOf(rows) \in Seq(Manifests)
           /\ Len(LeavesOf(rows)) = Len(rows)
<1>1. rows \in Seq(ManifestRow)
  BY DEF Rows
<1>2. /\ DOMAIN rows = 1 .. Len(rows) /\ Len(rows) \in Nat
      /\ \A i \in DOMAIN rows : rows[i] \in ManifestRow
  BY <1>1
<1>3. \A i \in DOMAIN rows : rows[i].manifest_json \in Manifests
  BY <1>2 DEF ManifestRow
<1> QED BY <1>2, <1>3 DEF LeavesOf

\* Of the table.
LEMMA TableLeaves ==
    ASSUME RowInv
    PROVE  LeavesOf(manifests) \in Seq(Manifests) /\ Len(LeavesOf(manifests)) = Len(manifests)
BY LeavesType DEF RowInv

LEMMA TypeNext == TypeInv /\ RowInv /\ RowInv' /\ [Next]_vars => TypeInv'
<1> SUFFICES ASSUME TypeInv, RowInv, RowInv', [Next]_vars PROVE TypeInv'
  OBVIOUS
<1> USE DEF TypeInv, TypeOK
<1>0. manifests' \in Seq(ManifestRow)
  BY DEF RowInv, Rows
<1>1. ASSUME NEW p \in Providers, NEW m \in Manifests, registerManifest(p, m) PROVE TypeInv'
  <2>1. index_roots # <<>>
    BY <1>1 DEF registerManifest, Idle, Down
  <2>2. handler' \in Handler
    BY <1>1 DEF registerManifest, Handler
  <2> QED BY <1>0, <1>1, <2>1, <2>2 DEF registerManifest
<1>2. ASSUME indexManifestBm25 PROVE TypeInv'
  BY <1>0, <1>2 DEF indexManifestBm25, Handler, Idle, Down
<1>3. ASSUME rebuildAndPublishIndex PROVE TypeInv'
  <2>1. /\ index_roots' \in Seq(Seq(Manifests)) /\ index_roots' # <<>>
        /\ DOMAIN index_roots \subseteq DOMAIN index_roots'
    <3>1. index_roots' = Append(index_roots, LeavesOf(manifests))
      BY <1>3 DEF rebuildAndPublishIndex
    <3>2. LeavesOf(manifests) \in Seq(Manifests) /\ index_roots \in Seq(Seq(Manifests))
      BY TableLeaves
    <3> HIDE DEF TypeInv, TypeOK
    <3> QED BY <3>1, <3>2, RootsEffect
  <2>2. DOMAIN indexCache' \subseteq Providers
    <3>1. \A i \in DOMAIN manifests : manifests[i] \in ManifestRow
      OBVIOUS
    <3> QED BY <1>3, <3>1 DEF rebuildAndPublishIndex, CacheOf, ManifestRow
  <2>3. ASSUME NEW p \in DOMAIN indexCache'
        PROVE  indexCache'[p].leaf_index \in Nat /\ indexCache'[p].leaf_hash \in Manifests
    <3>1. indexCache' = CacheOf(manifests)
      BY <1>3 DEF rebuildAndPublishIndex
    <3>2. PICK i \in DOMAIN manifests :
              /\ indexCache'[p].leaf_index = i - 1
              /\ indexCache'[p].leaf_hash = manifests[i].manifest_json
      BY <2>3, <3>1, CacheType
    <3>3. i \in Nat \ {0} /\ manifests[i] \in ManifestRow
      OBVIOUS
    <3> QED BY <3>2, <3>3 DEF ManifestRow
  <2> QED BY <1>0, <1>3, <2>1, <2>2, <2>3 DEF rebuildAndPublishIndex, Handler
<1>9. ASSUME registrationFails PROVE TypeInv'
  <2>1. handler.provider \in Providers /\ index_roots # <<>>
    BY <1>9 DEF registrationFails, Handler, Idle, Down
  <2> QED BY <1>0, <1>9, <2>1 DEF registrationFails, Handler
<1>4. ASSUME Crash PROVE TypeInv'
  BY <1>0, <1>4 DEF Crash, Handler, Idle, Down
<1>5. ASSUME handler = Idle, answer'.root = Len(index_roots),
             UNCHANGED <<manifests, bm25_corpus, index_roots, indexCache, handler, registered,
                         failed, faults>>
      PROVE  TypeInv'
  <2>1. Len(index_roots) \in DOMAIN index_roots
    <3>1. index_roots # <<>> /\ index_roots \in Seq(Seq(Manifests))
      BY <1>5 DEF Idle, Down
    <3> HIDE DEF TypeInv, TypeOK
    <3> QED BY <3>1
  <2> QED BY <1>5, <2>1
<1>6. ASSUME NEW intent \in Intents, resolve(intent) PROVE TypeInv'
  BY <1>5, <1>6 DEF resolve
<1>7. ASSUME NEW p \in Providers, indexProof(p) PROVE TypeInv'
  BY <1>5, <1>7 DEF indexProof
<1>8. CASE UNCHANGED vars
  BY <1>8 DEF vars
<1> QED BY <1>1, <1>2, <1>3, <1>4, <1>6, <1>7, <1>8, <1>9 DEF Next, publishIndex, boot, Boot

LEMMA Typed == Spec => [](TypeInv /\ RowInv)
<1>1. Init => TypeInv /\ RowInv
  BY TypeInit, RowInit
<1>2. TypeInv /\ RowInv /\ [Next]_vars => (TypeInv /\ RowInv)'
  BY TypeNext, RowNext
<1> QED BY <1>1, <1>2, PTL DEF Spec

\* The variables keep their types (the tables, the cache and the steps of a
\* registration), whoever registers what and wherever the process dies.
THEOREM TypeCorrect == Spec => []TypeOK
<1>1. TypeInv => TypeOK
  BY DEF TypeInv
<1> QED BY <1>1, Typed, PTL

-----------------------------------------------------------------------------
(* The index *)

\* The providers whose rows may be newer than the last root: a registration of theirs
\* failed, or is under way.
Uncovered ==
    failed \cup (IF handler.at \in {"corpus", "publish"} THEN {handler.provider} ELSE {})

\* The last root and the cache are of these rows, to which the table has been brought by
\* registrations that failed or are under way.
Covers(rows) ==
    /\ Rows(rows)
    /\ Len(rows) =< Len(manifests)
    /\ \A i \in DOMAIN rows : rows[i].provider_did = manifests[i].provider_did
    /\ \A i \in DOMAIN manifests :
           manifests[i].provider_did \notin Uncovered => i \in DOMAIN rows /\ rows[i] = manifests[i]
    /\ index_roots # <<>> /\ index_roots[Len(index_roots)] = LeavesOf(rows)
    /\ indexCache = CacheOf(rows)

IndexInv == handler # Down => \E rows : Covers(rows)

OneChange(old, new) ==
    \E leaf \in Manifests :
        \/ new = Append(old, leaf)
        \/ \E i \in DOMAIN old : new = [old EXCEPT ![i] = leaf]

\* An upsert changes one leaf.
LEMMA UpsertOneChange ==
    ASSUME RowInv, NEW p \in Providers, NEW m \in Manifests, manifests' = Upsert(p, m), RowInv'
    PROVE  OneChange(LeavesOf(manifests), LeavesOf(manifests'))
<1>0. PICK k \in 1 .. Len(manifests) + 1 : UpsertsAt(k, p, m)
  BY UpsertEffect
<1>1. /\ Len(manifests') = IF k =< Len(manifests) THEN Len(manifests) ELSE Len(manifests) + 1
      /\ manifests'[k].manifest_json = m
      /\ \A i \in DOMAIN manifests : i # k => manifests'[i] = manifests[i]
  BY <1>0, RowType DEF UpsertsAt
<1>2. /\ Len(manifests) \in Nat /\ DOMAIN manifests = 1 .. Len(manifests)
      /\ DOMAIN manifests' = 1 .. Len(manifests')
  BY DEF RowInv, Rows
<1> DEFINE old == LeavesOf(manifests)
           new == LeavesOf(manifests')
<1>3. /\ DOMAIN old = 1 .. Len(manifests) /\ DOMAIN new = 1 .. Len(manifests')
      /\ old = [i \in 1 .. Len(manifests) |-> old[i]]
      /\ new = [i \in 1 .. Len(manifests') |-> new[i]]
      /\ new[k] = m
      /\ \A i \in 1 .. Len(manifests) : i # k => new[i] = old[i]
  <2>1. k \in DOMAIN manifests'
    BY <1>1, <1>2
  <2>2. \A i \in DOMAIN manifests : i \in DOMAIN manifests'
    BY <1>1, <1>2
  <2> QED BY <1>1, <1>2, <2>1, <2>2 DEF LeavesOf
<1>4. old \in Seq(Manifests) /\ Len(old) = Len(manifests)
  BY TableLeaves
<1> HIDE DEF old, new
<1>5. CASE k =< Len(manifests)
  <2>1. k \in DOMAIN old
    BY <1>2, <1>3, <1>5
  <2>2. new = [old EXCEPT ![k] = m]
    BY <1>1, <1>3, <1>5
  <2> QED BY <2>1, <2>2 DEF OneChange, old, new
<1>6. CASE ~ (k =< Len(manifests))
  <2>1. k = Len(manifests) + 1 /\ Len(manifests') = k
    BY <1>1, <1>2, <1>6
  <2>2. new = Append(old, m)
    <3>1. DOMAIN Append(old, m) = 1 .. k
          /\ Append(old, m)[k] = m
          /\ \A i \in 1 .. Len(manifests) : Append(old, m)[i] = old[i]
      BY <1>2, <1>3, <1>4, <2>1
    <3>2. Append(old, m) = [i \in 1 .. k |-> Append(old, m)[i]]
      BY <1>4, <2>1, AppendEffect
    <3>3. \A i \in 1 .. k : new[i] = Append(old, m)[i]
      BY <1>2, <1>3, <2>1, <3>1
    <3> QED BY <1>3, <2>1, <3>2, <3>3
  <2> QED BY <2>2 DEF OneChange, old, new
<1> QED BY <1>5, <1>6

LEMMA IndexInit == Init => IndexInv
BY DEF Init, IndexInv

\* A registration leaves the root and the cache behind, of its own provider.
LEMMA IndexRegister ==
    ASSUME RowInv, RowInv', NEW p \in Providers, NEW m \in Manifests, registerManifest(p, m),
           NEW rows, Covers(rows)
    PROVE  Covers(rows)'
<1>0. PICK k \in 1 .. Len(manifests) + 1 : UpsertsAt(k, p, m)
  BY UpsertEffect
<1>1. /\ manifests' = Upsert(p, m) /\ index_roots' = index_roots /\ indexCache' = indexCache
      /\ Uncovered' = failed \cup {p} /\ Uncovered = failed
  BY DEF registerManifest, Uncovered, Idle
<1>2. /\ Len(manifests') = IF k =< Len(manifests) THEN Len(manifests) ELSE Len(manifests) + 1
      /\ manifests'[k].provider_did = p
      /\ \A i \in DOMAIN manifests : i # k => manifests'[i] = manifests[i]
      /\ k =< Len(manifests) => manifests[k].provider_did = p
  BY <1>0, <1>1, RowType DEF UpsertsAt
<1>3. /\ Len(manifests) \in Nat /\ DOMAIN manifests = 1 .. Len(manifests)
      /\ DOMAIN manifests' = 1 .. Len(manifests')
      /\ Len(rows) \in Nat /\ DOMAIN rows = 1 .. Len(rows) /\ Len(rows) =< Len(manifests)
  BY DEF RowInv, Rows, Covers
<1>4. Len(rows) =< Len(manifests')
  BY <1>2, <1>3
<1>5. ASSUME NEW i \in DOMAIN rows PROVE rows[i].provider_did = manifests'[i].provider_did
  <2>1. i \in DOMAIN manifests /\ rows[i].provider_did = manifests[i].provider_did
    BY <1>3 DEF Covers
  <2> QED BY <1>2, <1>3, <2>1
<1>6. ASSUME NEW i \in DOMAIN manifests', manifests'[i].provider_did \notin Uncovered'
      PROVE  i \in DOMAIN rows /\ rows[i] = manifests'[i]
  <2>1. i # k /\ i \in DOMAIN manifests
    BY <1>1, <1>2, <1>3, <1>6
  <2>2. manifests'[i] = manifests[i] /\ manifests[i].provider_did \notin Uncovered
    BY <1>1, <1>2, <1>6, <2>1
  <2> QED BY <2>1, <2>2 DEF Covers
<1> QED BY <1>1, <1>4, <1>5, <1>6 DEF Covers

\* A rebuild covers all rows.
LEMMA IndexRebuild ==
    ASSUME TypeInv, RowInv, rebuildAndPublishIndex
    PROVE  Covers(manifests)'
<1>1. /\ index_roots' = Append(index_roots, LeavesOf(manifests)) /\ manifests' = manifests
      /\ indexCache' = CacheOf(manifests)
      /\ index_roots \in Seq(Seq(Manifests)) /\ LeavesOf(manifests) \in Seq(Manifests)
  BY TableLeaves DEF rebuildAndPublishIndex, TypeInv, TypeOK
<1>2. /\ Len(index_roots') = Len(index_roots) + 1 /\ index_roots' # <<>>
      /\ index_roots'[Len(index_roots) + 1] = LeavesOf(manifests)
  BY <1>1, RootsEffect
<1>3. Rows(manifests) /\ Len(manifests) =< Len(manifests)
  BY DEF RowInv, Rows
<1> QED BY <1>1, <1>2, <1>3 DEF Covers

LEMMA IndexNext ==
    TypeInv /\ RowInv /\ RowInv' /\ IndexInv /\ [Next]_vars => IndexInv'
<1> SUFFICES ASSUME TypeInv, RowInv, RowInv', IndexInv, [Next]_vars PROVE IndexInv'
  OBVIOUS
<1>1. ASSUME NEW p \in Providers, NEW m \in Manifests, registerManifest(p, m) PROVE IndexInv'
  <2>1. PICK rows : Covers(rows)
    BY <1>1 DEF registerManifest, IndexInv, Idle, Down
  <2>2. Covers(rows)'
    BY <1>1, <2>1, IndexRegister
  <2> QED BY <2>2 DEF IndexInv
<1>2. ASSUME rebuildAndPublishIndex PROVE IndexInv'
  BY <1>2, IndexRebuild DEF IndexInv
<1>3. ASSUME UNCHANGED <<manifests, index_roots, indexCache>>, handler # Down,
             Uncovered' = Uncovered
      PROVE  IndexInv'
  <2>1. PICK rows : Covers(rows)
    BY <1>3 DEF IndexInv
  <2>2. Covers(rows)'
    BY <1>3, <2>1 DEF Covers
  <2> QED BY <2>2 DEF IndexInv
<1>4. ASSUME indexManifestBm25 PROVE IndexInv'
  <2>1. handler # Down
    BY <1>4 DEF indexManifestBm25, Down
  <2>2. Uncovered' = Uncovered
    BY <1>4 DEF indexManifestBm25, Uncovered
  <2> QED BY <1>3, <1>4, <2>1, <2>2 DEF indexManifestBm25
<1>5. ASSUME registrationFails PROVE IndexInv'
  <2>1. handler # Down
    BY <1>5 DEF registrationFails, Down
  <2>2. Uncovered' = Uncovered
    BY <1>5 DEF registrationFails, Uncovered, Idle
  <2> QED BY <1>3, <1>5, <2>1, <2>2 DEF registrationFails
<1>6. ASSUME Crash PROVE IndexInv'
  BY <1>6 DEF Crash, IndexInv
<1>7. ASSUME UNCHANGED <<manifests, index_roots, indexCache, handler, failed>> PROVE IndexInv'
  <2>1. Uncovered' = Uncovered
    BY <1>7 DEF Uncovered
  <2> QED BY <1>3, <1>7, <2>1 DEF IndexInv
<1>8. ASSUME NEW intent \in Intents, resolve(intent) PROVE IndexInv'
  BY <1>7, <1>8 DEF resolve
<1>9. ASSUME NEW p \in Providers, indexProof(p) PROVE IndexInv'
  BY <1>7, <1>9 DEF indexProof
<1>10. CASE UNCHANGED vars
  BY <1>7, <1>10 DEF vars
<1> QED BY <1>1, <1>2, <1>4, <1>5, <1>6, <1>8, <1>9, <1>10 DEF Next, publishIndex, boot, Boot

LEMMA Indexed == Spec => []IndexInv
<1>1. Init => IndexInv
  BY IndexInit
<1>2. TypeInv /\ RowInv /\ (TypeInv /\ RowInv)' /\ IndexInv /\ [Next]_vars => IndexInv'
  BY IndexNext
<1> QED BY <1>1, <1>2, Typed, PTL DEF Spec

\* An update replaces an entry where it is, and every root is of all entries there are;
\* the next is accepted when the last is in a root, unless its provider was told that it
\* failed or the process died: the broker implements a verifiable index.
THEOREM Implements == Spec => ImplementsIndex
<1>1. Init => Index!Init
  BY DEF Init, Index!Init, LeavesOf, Down
<1> DEFINE accepting == handler.at \in {"corpus", "publish"}
<1>2. TypeInv /\ RowInv /\ RowInv' /\ [Next]_vars
          => [Index!Next]_<<LeavesOf(manifests), accepting, index_roots>>
  <2> SUFFICES ASSUME TypeInv, RowInv, RowInv', [Next]_vars
               PROVE  [Index!Next]_<<LeavesOf(manifests), accepting, index_roots>>
    OBVIOUS
  <2>0. manifests' = manifests => LeavesOf(manifests)' = LeavesOf(manifests)
    BY DEF LeavesOf
  <2>1. ASSUME NEW p \in Providers, NEW m \in Manifests, registerManifest(p, m)
        PROVE  Index!Accept
    <3>1. OneChange(LeavesOf(manifests), LeavesOf(manifests'))
      BY <2>1, UpsertOneChange DEF registerManifest
    <3>2. LeavesOf(manifests)' = LeavesOf(manifests')
      BY DEF LeavesOf
    <3>3. ~ accepting /\ accepting' /\ UNCHANGED index_roots
      BY <2>1 DEF registerManifest, Idle
    <3> QED BY <3>1, <3>2, <3>3 DEF OneChange, Index!Accept
  <2>2. ASSUME rebuildAndPublishIndex PROVE Index!Publish
    BY <2>0, <2>2 DEF rebuildAndPublishIndex, Index!Publish, Idle
  <2>3. ASSUME registrationFails PROVE Index!Fail
    BY <2>0, <2>3 DEF registrationFails, Index!Fail, Idle
  <2>4. ASSUME Crash, accepting PROVE Index!Fail
    BY <2>0, <2>4 DEF Crash, Index!Fail, Down
  <2>5. ASSUME UNCHANGED <<manifests, index_roots>>, accepting' = accepting
        PROVE  UNCHANGED <<LeavesOf(manifests), accepting, index_roots>>
    BY <2>0, <2>5
  <2>6. ASSUME Crash, ~ accepting
        PROVE  UNCHANGED <<LeavesOf(manifests), accepting, index_roots>>
    BY <2>5, <2>6 DEF Crash, Down
  <2>7. ASSUME indexManifestBm25
        PROVE  UNCHANGED <<LeavesOf(manifests), accepting, index_roots>>
    BY <2>5, <2>7 DEF indexManifestBm25
  <2>8. ASSUME UNCHANGED <<manifests, index_roots, handler>>
        PROVE  UNCHANGED <<LeavesOf(manifests), accepting, index_roots>>
    BY <2>5, <2>8
  <2> HIDE DEF accepting
  <2> QED BY <2>1, <2>2, <2>3, <2>4, <2>6, <2>7, <2>8 DEF Index!Next, Next, vars, publishIndex,
             Boot, boot, resolve, indexProof
<1> QED BY <1>1, <1>2, Typed, PTL DEF Spec, ImplementsIndex, Index!Spec

-----------------------------------------------------------------------------
(* The places of the leaves *)

\* A provider's row is a manifest it registered.
KeptInv ==
    /\ IndexesKept
    /\ \A i \in DOMAIN manifests :
           manifests[i].manifest_json \in registered[manifests[i].provider_did]

LEMMA UpsertKeeps ==
    ASSUME RowInv, RowInv', NEW p \in Providers, NEW m \in Manifests, manifests' = Upsert(p, m)
    PROVE  /\ \A i \in DOMAIN manifests :
                 i \in DOMAIN manifests' /\ manifests'[i].provider_did = manifests[i].provider_did
           /\ \A i \in DOMAIN manifests' :
                 \/ i \in DOMAIN manifests /\ manifests'[i] = manifests[i]
                 \/ manifests'[i].provider_did = p /\ manifests'[i].manifest_json = m
<1>0. PICK k \in 1 .. Len(manifests) + 1 : UpsertsAt(k, p, m)
  BY UpsertEffect
<1>1. /\ Len(manifests) \in Nat /\ DOMAIN manifests = 1 .. Len(manifests)
      /\ DOMAIN manifests' = 1 .. Len(manifests')
  BY DEF RowInv, Rows
<1>2. Row(p, m).provider_did = p /\ Row(p, m).manifest_json = m
  BY RowType
<1> QED BY <1>0, <1>1, <1>2 DEF UpsertsAt

LEMMA KeptNext ==
    TypeInv /\ RowInv /\ RowInv' /\ KeptInv /\ [Next]_vars => KeptInv'
<1> SUFFICES ASSUME TypeInv, RowInv, RowInv', KeptInv, [Next]_vars PROVE KeptInv'
  OBVIOUS
<1>1. ASSUME NEW p \in Providers, NEW m \in Manifests, registerManifest(p, m) PROVE KeptInv'
  <2>1. /\ manifests' = Upsert(p, m) /\ index_roots' = index_roots
        /\ registered' = [registered EXCEPT ![p] = @ \cup {m}]
    BY <1>1 DEF registerManifest
  <2>2. registered \in [Providers -> SUBSET Manifests]
    BY DEF TypeInv, TypeOK
  <2>3. /\ \A q \in Providers : registered[q] \subseteq registered'[q]
        /\ m \in registered'[p]
    BY <2>1, <2>2
  <2>4. /\ \A i \in DOMAIN manifests : manifests[i].provider_did \in Providers
        /\ \A i \in DOMAIN manifests :
              i \in DOMAIN manifests' /\ manifests'[i].provider_did = manifests[i].provider_did
    <3>1. \A i \in DOMAIN manifests : manifests[i] \in ManifestRow
      BY DEF RowInv, Rows
    <3> QED BY <2>1, <3>1, UpsertKeeps DEF ManifestRow
  <2>5. ASSUME NEW n \in DOMAIN index_roots, NEW i \in DOMAIN index_roots[n]
        PROVE  /\ i \in DOMAIN manifests'
               /\ index_roots[n][i] \in registered'[manifests'[i].provider_did]
    <3>1. i \in DOMAIN manifests /\ index_roots[n][i] \in registered[manifests[i].provider_did]
      BY DEF KeptInv, IndexesKept
    <3> QED BY <2>3, <2>4, <3>1
  <2>6. ASSUME NEW i \in DOMAIN manifests'
        PROVE  manifests'[i].manifest_json \in registered'[manifests'[i].provider_did]
    <3>1. \/ i \in DOMAIN manifests /\ manifests'[i] = manifests[i]
          \/ manifests'[i].provider_did = p /\ manifests'[i].manifest_json = m
      BY <2>1, UpsertKeeps
    <3> QED BY <2>3, <2>4, <3>1 DEF KeptInv
  <2> QED BY <2>1, <2>5, <2>6 DEF KeptInv, IndexesKept
<1>2. ASSUME rebuildAndPublishIndex PROVE KeptInv'
  <2>1. /\ index_roots' = Append(index_roots, LeavesOf(manifests))
        /\ index_roots \in Seq(Seq(Manifests)) /\ LeavesOf(manifests) \in Seq(Manifests)
        /\ manifests' = manifests /\ registered' = registered
    BY <1>2, TableLeaves DEF rebuildAndPublishIndex, TypeInv, TypeOK
  <2>2. \A n \in DOMAIN index_roots' :
            \/ n \in DOMAIN index_roots /\ index_roots'[n] = index_roots[n]
            \/ index_roots'[n] = LeavesOf(manifests)
    BY <2>1, RootsEffect
  <2>3. \A i \in DOMAIN LeavesOf(manifests) :
            i \in DOMAIN manifests /\ LeavesOf(manifests)[i] = manifests[i].manifest_json
    BY DEF LeavesOf
  <2> QED BY <2>1, <2>2, <2>3 DEF KeptInv, IndexesKept
<1>3. CASE UNCHANGED <<manifests, index_roots, registered>>
  BY <1>3 DEF KeptInv, IndexesKept
<1> QED BY <1>1, <1>2, <1>3 DEF Next, vars, publishIndex, boot, Boot, indexManifestBm25,
           registrationFails, Crash, resolve, indexProof

LEMMA Kept == Spec => []KeptInv
<1>1. Init => KeptInv
  BY DEF Init, KeptInv, IndexesKept
<1>2. TypeInv /\ RowInv /\ (TypeInv /\ RowInv)' /\ KeptInv /\ [Next]_vars => KeptInv'
  BY KeptNext
<1> QED BY <1>1, <1>2, Typed, PTL DEF Spec

\* A leaf index belongs to one provider in all roots ever published: an update
\* replaces the provider's leaf where it is, and a restart moves none.
THEOREM PlacesKept == Spec => []IndexesKept
<1>1. KeptInv => IndexesKept
  BY DEF KeptInv
<1> QED BY <1>1, Kept, PTL

-----------------------------------------------------------------------------
(* Denials *)

\* No root has more leaves than there are rows.
LEMMA RootsFit ==
    ASSUME TypeInv, RowInv, KeptInv, NEW n \in DOMAIN index_roots
    PROVE  /\ Len(index_roots[n]) \in Nat
           /\ \A i \in Nat : i > Len(manifests) => i > Len(index_roots[n])
<1>1. index_roots[n] \in Seq(Manifests)
  BY DEF TypeInv, TypeOK
<1>2. /\ Len(index_roots[n]) \in Nat
      /\ Len(index_roots[n]) > 0 => Len(index_roots[n]) \in DOMAIN index_roots[n]
  BY <1>1
<1>3. Len(manifests) \in Nat /\ DOMAIN manifests = 1 .. Len(manifests)
  BY DEF RowInv, Rows
<1>4. Len(index_roots[n]) > 0 => Len(index_roots[n]) =< Len(manifests)
  BY <1>2, <1>3 DEF KeptInv, IndexesKept
<1> QED BY <1>2, <1>3, <1>4

LEMMA DenialsNext ==
    /\ TypeInv /\ RowInv /\ IndexInv /\ KeptInv /\ DenialsTrue
    /\ RowInv' /\ [Next]_vars
    => DenialsTrue'
<1> SUFFICES ASSUME TypeInv, RowInv, IndexInv, KeptInv, DenialsTrue, RowInv', [Next]_vars,
                    answer' # null, answer'.type = "negative_inclusion_proof",
                    NEW i \in DOMAIN manifests',
                    manifests'[i].provider_did = answer'.provider_did
             PROVE  i > Len(index_roots'[answer'.root])
  BY DEF DenialsTrue
<1>1. ASSUME NEW p \in Providers, NEW m \in Manifests, registerManifest(p, m)
      PROVE  i > Len(index_roots'[answer'.root])
  <2>1. /\ manifests' = Upsert(p, m) /\ index_roots' = index_roots /\ answer' = answer
        /\ answer.root \in DOMAIN index_roots
    BY <1>1 DEF registerManifest, TypeInv, TypeOK
  <2>2. CASE i \in DOMAIN manifests
    <3>1. manifests[i].provider_did = answer.provider_did
      BY <2>1, <2>2, UpsertKeeps
    <3> QED BY <2>1, <2>2, <3>1 DEF DenialsTrue
  <2>3. CASE i \notin DOMAIN manifests
    <3>1. i \in Nat /\ i > Len(manifests)
      <4>1. /\ DOMAIN manifests' = 1 .. Len(manifests') /\ DOMAIN manifests = 1 .. Len(manifests)
            /\ Len(manifests) \in Nat
        BY DEF RowInv, Rows
      <4> QED BY <2>3, <4>1
    <3> QED BY <2>1, <3>1, RootsFit
  <2> QED BY <2>2, <2>3
<1>2. ASSUME rebuildAndPublishIndex PROVE i > Len(index_roots'[answer'.root])
  <2>1. /\ index_roots' = Append(index_roots, LeavesOf(manifests)) /\ answer' = answer
        /\ manifests' = manifests /\ LeavesOf(manifests) \in Seq(Manifests)
        /\ answer.root \in DOMAIN index_roots /\ index_roots \in Seq(Seq(Manifests))
    BY <1>2, TableLeaves DEF rebuildAndPublishIndex, TypeInv, TypeOK
  <2>2. index_roots'[answer.root] = index_roots[answer.root]
    BY <2>1, RootsEffect
  <2> QED BY <2>1, <2>2 DEF DenialsTrue
<1>3. CASE UNCHANGED <<manifests, index_roots, answer>>
  BY <1>3 DEF DenialsTrue
<1>4. ASSUME NEW intent \in Intents, resolve(intent) PROVE i > Len(index_roots'[answer'.root])
  BY <1>4 DEF resolve
<1>5. ASSUME NEW p \in Providers, indexProof(p) PROVE i > Len(index_roots'[answer'.root])
  <2>1. /\ p \notin DOMAIN indexCache /\ answer'.provider_did = p /\ manifests' = manifests
        /\ answer'.root = Len(index_roots) /\ index_roots' = index_roots /\ handler # Down
    BY <1>5 DEF indexProof, Idle, Down
  <2>2. PICK rows : Covers(rows)
    BY <2>1 DEF IndexInv
  <2>3. i \notin DOMAIN rows
    <3>1. ASSUME i \in DOMAIN rows PROVE FALSE
      <4>1. rows[i].provider_did = p /\ indexCache = CacheOf(rows)
        BY <2>1, <2>2, <3>1 DEF Covers
      <4> QED BY <2>1, <3>1, <4>1 DEF CacheOf
    <3> QED BY <3>1
  <2>4. index_roots[Len(index_roots)] = LeavesOf(rows) /\ Rows(rows)
    BY <2>2 DEF Covers
  <2>5. Len(LeavesOf(rows)) = Len(rows) /\ Len(rows) \in Nat /\ DOMAIN rows = 1 .. Len(rows)
    BY <2>4, LeavesType DEF Rows
  <2>6. i \in Nat \ {0}
    BY DEF RowInv, Rows
  <2> QED BY <2>1, <2>3, <2>4, <2>5, <2>6
<1> QED BY <1>1, <1>2, <1>3, <1>4, <1>5 DEF Next, vars, publishIndex, boot, Boot,
           indexManifestBm25, registrationFails, Crash

\* A negative inclusion proof (GET /oap/index/proof) is true of the root it names,
\* and stays true when the provider registers later.
THEOREM DenialsHold == Spec => []DenialsTrue
<1>1. Init => DenialsTrue
  BY DEF Init, DenialsTrue
<1>2. /\ TypeInv /\ RowInv /\ IndexInv /\ KeptInv /\ DenialsTrue
      /\ (TypeInv /\ RowInv)' /\ [Next]_vars
      => DenialsTrue'
  BY DenialsNext
<1> QED BY <1>1, <1>2, Typed, Indexed, Kept, PTL DEF Spec

-----------------------------------------------------------------------------
(* The filters *)

\* A row that passes has a manifest that satisfies the filters.
LEMMA FilterSound ==
    ASSUME NEW p, NEW m \in Manifests, NEW f \in Filter, passesConstraints(Row(p, m), f)
    PROVE  Satisfies(m, f)
<1>1. m \in Manifest
  BY ManifestsAssumption
<1>2. ASSUME f.risk_class \in DOMAIN riskOrder, m.risk_class \in DOMAIN riskOrder
      PROVE  riskOrder[m.risk_class] =< riskOrder[f.risk_class]
  <2>1. f.risk_class # null /\ m.risk_class # null
    BY <1>2, NullAssumption DEF riskClass
  <2>2. Row(p, m).risk_class = m.risk_class
    BY <2>1 DEF Row, Default
  <2>3. Risk(m.risk_class, 1) =< Risk(f.risk_class, 3)
    BY <2>1, <2>2 DEF passesConstraints
  <2> QED BY <1>2, <2>3 DEF Risk
<1>3. ASSUME f.min_conformance_level \in Nat
      PROVE  /\ m.conformance_level \in Nat => m.conformance_level >= f.min_conformance_level
             /\ m.conformance_level = null => f.min_conformance_level = 0
  <2>1. f.min_conformance_level # null
    BY <1>3, NullAssumption
  <2>2. ~ Less(Default(m.conformance_level, 0), f.min_conformance_level)
    BY <2>1 DEF passesConstraints, Row
  <2>3. m.conformance_level \in Nat => m.conformance_level # null
    BY NullAssumption
  <2> QED BY <1>3, <2>2, <2>3 DEF Default, Less
<1>4. ASSUME f.max_cost_usd \in Nat, m.avg_cost_usd \in Nat
      PROVE  m.avg_cost_usd =< f.max_cost_usd
  <2>1. f.max_cost_usd # null /\ m.avg_cost_usd # null
    BY <1>4, NullAssumption
  <2>2. m.avg_cost_usd # 0 => ~ Less(f.max_cost_usd, m.avg_cost_usd)
    BY <2>1 DEF passesConstraints, Row
  <2> QED BY <1>4, <2>2 DEF Less
<1>5. (f.jurisdictions # {} /\ m.jurisdictions # {}) =>
          m.jurisdictions \cap (f.jurisdictions \cup {"*"}) # {}
  BY DEF passesConstraints, Row
<1>6. ASSUME f.categories # {}
      PROVE  \/ \E c \in m.categories : Pieces[c] \cap f.categories # {}
             \/ m.categories = {} /\ "" \in f.categories
  <2>1. Categories(Row(p, m)) \cap f.categories # {}
    BY <1>6 DEF passesConstraints
  <2>2. Categories(Row(p, m)) =
            IF m.categories = {} THEN {""} ELSE UNION {Pieces[c] : c \in m.categories}
    BY DEF Categories, Row
  <2> QED BY <2>1, <2>2
<1> QED BY <1>2, <1>3, <1>4, <1>5, <1>6 DEF Satisfies

LEMMA FiltersNext == RowInv /\ CandidatesMeetFilters /\ [Next]_vars => CandidatesMeetFilters'
<1> SUFFICES ASSUME RowInv, CandidatesMeetFilters, [Next]_vars PROVE CandidatesMeetFilters'
  OBVIOUS
<1>1. CASE UNCHANGED answer
  BY <1>1 DEF CandidatesMeetFilters
<1>2. ASSUME NEW intent \in Intents, resolve(intent) PROVE CandidatesMeetFilters'
  <2>1. /\ answer'.intent = intent
        /\ \A c \in answer'.candidates : \E i \in Filtered(intent.filters) : c = Candidate(i)
    BY <1>2 DEF resolve
  <2>2. ASSUME NEW c \in answer'.candidates PROVE Satisfies(c.manifest, intent.filters)
    <3>1. PICK i \in Filtered(intent.filters) : c = Candidate(i)
      BY <2>1
    <3>2. i \in DOMAIN manifests /\ passesConstraints(manifests[i], intent.filters)
      BY DEF Filtered
    <3>3. c.manifest = manifests[i].manifest_json
      BY <3>1 DEF Candidate
    <3>4. /\ manifests[i] \in ManifestRow
          /\ manifests[i] = Row(manifests[i].provider_did, manifests[i].manifest_json)
      BY <3>2 DEF RowInv, Rows
    <3>5. manifests[i].manifest_json \in Manifests
      BY <3>4 DEF ManifestRow
    <3>6. intent.filters \in Filter
      BY IntentsAssumption
    <3>7. passesConstraints(Row(manifests[i].provider_did, manifests[i].manifest_json),
                            intent.filters)
      BY <3>2, <3>4
    <3> QED BY <3>3, <3>5, <3>6, <3>7, FilterSound
  <2> QED BY <2>1, <2>2 DEF CandidatesMeetFilters
<1>3. ASSUME NEW p \in Providers, indexProof(p) PROVE CandidatesMeetFilters'
  BY <1>3 DEF indexProof, CandidatesMeetFilters
<1> QED BY <1>1, <1>2, <1>3 DEF Next, vars, registerManifest, indexManifestBm25,
           registrationFails, publishIndex, rebuildAndPublishIndex, boot, Boot, Crash

\* Every candidate shown satisfies the Intent's filters, as far as its manifest says
\* something that the code can compare: the columns the filters read are always those of
\* the manifest that is shown, although they are not what the manifest says
\* (passesConstraints, and the columns of POST /oap/manifests).
THEOREM FiltersHold == Spec => []CandidatesMeetFilters
<1>1. Init => CandidatesMeetFilters
  BY DEF Init, CandidatesMeetFilters
<1>2. RowInv /\ CandidatesMeetFilters /\ [Next]_vars => CandidatesMeetFilters'
  BY FiltersNext
<1> QED BY <1>1, <1>2, Typed, PTL DEF Spec

-----------------------------------------------------------------------------
(* The proofs of inclusion *)

\* The proof in the cache of row i is of the manifest of row i.
LEMMA CacheProves ==
    ASSUME NEW rows, Rows(rows), NEW i \in DOMAIN rows
    PROVE  LET p     == rows[i].provider_did
               cache == CacheOf(rows)
           IN  /\ p \in DOMAIN cache
               /\ cache[p].leaf_hash = rows[i].manifest_json
               /\ verifyInclusionProof(rows[i].manifest_json, cache[p].proof,
                                       Root(LeavesOf(rows)))
<1> DEFINE p     == rows[i].provider_did
           cache == CacheOf(rows)
           leaves == LeavesOf(rows)
<1>1. p \in DOMAIN cache
  BY DEF CacheOf
<1>2. (CHOOSE j \in DOMAIN rows : rows[j].provider_did = p) = i
  BY DEF Rows
<1>3. cache[p] = [leaf_index |-> i - 1, leaf_hash |-> rows[i].manifest_json,
                  proof |-> Proof(leaves, i - 1)]
  BY <1>1, <1>2 DEF CacheOf
<1>4. Len(rows) \in Nat \ {0} /\ DOMAIN rows = 1 .. Len(rows) /\ i \in 1 .. Len(rows)
  BY DEF Rows
<1>5. IsLayer(leaves) /\ Len(leaves) = Len(rows) /\ leaves[i] = rows[i].manifest_json
  <2>1. leaves[i] = rows[i].manifest_json /\ DOMAIN leaves = DOMAIN rows
    BY DEF LeavesOf
  <2> QED BY <1>4, <2>1, LeavesType DEF IsLayer
<1>6. i - 1 \in 0 .. Len(leaves) - 1 /\ (i - 1) + 1 = i
  BY <1>4, <1>5
<1>7. verifyInclusionProof(leaves[i], Proof(leaves, i - 1), Root(leaves))
  <2>1. verifyInclusionProof(leaves[(i - 1) + 1], Proof(leaves, i - 1), Root(leaves))
    <3> HIDE DEF leaves
    <3> QED BY <1>5, <1>6, InclusionComplete
  <2> QED BY <1>6, <2>1
<1> QED BY <1>1, <1>3, <1>5, <1>7

\* What the cache has of a provider is proved by the last root, and is its manifest
\* unless the rows of the provider are not covered.
LEMMA CachedProvable ==
    ASSUME NEW rows, Covers(rows), NEW p \in DOMAIN indexCache
    PROVE  verifyInclusionProof(indexCache[p].leaf_hash, indexCache[p].proof,
                                Root(index_roots[Len(index_roots)]))
<1>1. Rows(rows) /\ indexCache = CacheOf(rows) /\ index_roots[Len(index_roots)] = LeavesOf(rows)
  BY DEF Covers
<1>2. PICK i \in DOMAIN rows : rows[i].provider_did = p
  BY <1>1 DEF CacheOf
<1> QED BY <1>1, <1>2, CacheProves

LEMMA ProvableNext ==
    TypeInv /\ RowInv /\ IndexInv /\ AnswersProvable /\ [Next]_vars => AnswersProvable'
<1> SUFFICES ASSUME TypeInv, RowInv, IndexInv, AnswersProvable, [Next]_vars
             PROVE  AnswersProvable'
  OBVIOUS
<1>1. ASSUME answer' = answer,
             answer # null => index_roots'[answer.root] = index_roots[answer.root]
      PROVE  AnswersProvable'
  BY <1>1 DEF AnswersProvable, Provable
<1>2. ASSUME rebuildAndPublishIndex PROVE AnswersProvable'
  <2>1. /\ index_roots' = Append(index_roots, LeavesOf(manifests)) /\ answer' = answer
        /\ LeavesOf(manifests) \in Seq(Manifests) /\ index_roots \in Seq(Seq(Manifests))
        /\ answer # null => answer.root \in DOMAIN index_roots
    BY <1>2, TableLeaves DEF rebuildAndPublishIndex, TypeInv, TypeOK
  <2>2. answer # null => index_roots'[answer.root] = index_roots[answer.root]
    BY <2>1, RootsEffect
  <2> QED BY <1>1, <2>1, <2>2
<1>3. ASSUME NEW intent \in Intents, resolve(intent) PROVE AnswersProvable'
  <2>1. /\ answer'.type = "candidates" /\ answer'.root = Len(index_roots)
        /\ answer'.failed = failed /\ index_roots' = index_roots /\ handler = Idle
        /\ \A c \in answer'.candidates : \E i \in DOMAIN manifests : c = Candidate(i)
    BY <1>3 DEF resolve, Filtered
  <2>2. PICK rows : Covers(rows)
    BY <2>1 DEF IndexInv, Idle, Down
  <2>3. Uncovered = failed
    BY <2>1 DEF Uncovered, Idle
  <2>4. ASSUME NEW c \in answer'.candidates
        PROVE  /\ c.leaf_hash # null =>
                      verifyInclusionProof(c.leaf_hash, c.proof_path,
                                           Root(index_roots'[answer'.root]))
               /\ c.leaf_hash # c.manifest => c.provider_did \in failed
    <3>1. PICK i \in DOMAIN manifests : c = Candidate(i)
      BY <2>1
    <3> DEFINE p == manifests[i].provider_did
    <3>2. CASE p \in DOMAIN indexCache
      <4>1. /\ c.provider_did = p /\ c.manifest = manifests[i].manifest_json
            /\ c.leaf_hash = indexCache[p].leaf_hash /\ c.proof_path = indexCache[p].proof
        BY <3>1, <3>2 DEF Candidate
      <4>2. verifyInclusionProof(c.leaf_hash, c.proof_path, Root(index_roots'[answer'.root]))
        BY <2>1, <2>2, <3>2, <4>1, CachedProvable
      <4>3. ASSUME p \notin failed PROVE c.leaf_hash = c.manifest
        <5>1. i \in DOMAIN rows /\ rows[i] = manifests[i] /\ Rows(rows)
              /\ indexCache = CacheOf(rows)
          BY <2>2, <2>3, <4>3 DEF Covers
        <5> QED BY <4>1, <5>1, CacheProves
      <4> QED BY <4>1, <4>2, <4>3
    <3>3. CASE p \notin DOMAIN indexCache
      <4>1. c.leaf_hash = null /\ c.provider_did = p
        BY <3>1, <3>3 DEF Candidate
      <4>2. p \in failed
        <5>1. ASSUME p \notin failed PROVE FALSE
          <6>1. i \in DOMAIN rows /\ rows[i] = manifests[i] /\ Rows(rows)
                /\ indexCache = CacheOf(rows)
            BY <2>2, <2>3, <5>1 DEF Covers
          <6> QED BY <3>3, <6>1, CacheProves
        <5> QED BY <5>1
      <4> QED BY <4>1, <4>2
    <3> QED BY <3>2, <3>3
  <2> QED BY <2>1, <2>4 DEF AnswersProvable, Provable
<1>4. ASSUME NEW p \in Providers, indexProof(p) PROVE AnswersProvable'
  <2>1. CASE p \notin DOMAIN indexCache
    <3>1. answer'.type = "negative_inclusion_proof"
      BY <1>4, <2>1 DEF indexProof
    <3> QED BY <3>1 DEF AnswersProvable
  <2>2. CASE p \in DOMAIN indexCache
    <3>1. /\ answer'.type = "inclusion_proof" /\ answer'.root = Len(index_roots)
          /\ answer'.leaf_hash = indexCache[p].leaf_hash
          /\ answer'.proof_path = indexCache[p].proof
          /\ index_roots' = index_roots /\ handler = Idle
      BY <1>4, <2>2 DEF indexProof
    <3>2. PICK rows : Covers(rows)
      BY <3>1 DEF IndexInv, Idle, Down
    <3>3. verifyInclusionProof(answer'.leaf_hash, answer'.proof_path,
                               Root(index_roots'[answer'.root]))
      BY <2>2, <3>1, <3>2, CachedProvable
    <3> QED BY <3>1, <3>3 DEF AnswersProvable, Provable
  <2> QED BY <2>1, <2>2
<1>5. CASE UNCHANGED <<index_roots, answer>>
  BY <1>1, <1>5
<1> QED BY <1>2, <1>3, <1>4, <1>5 DEF Next, vars, registerManifest, indexManifestBm25,
           registrationFails, publishIndex, boot, Boot, Crash

\* Whatever was registered, whatever registrations failed and however often the broker
\* restarted, each leaf that is named is proved by the root in the same answer, and is that
\* of the manifest it is shown with unless a registration of the provider had failed since
\* that root (rebuildAndPublishIndex, POST /oap/resolve, GET /oap/index/proof).
THEOREM ProofsHold == Spec => []AnswersProvable
<1>1. Init => AnswersProvable
  BY DEF Init, AnswersProvable
<1>2. TypeInv /\ RowInv /\ IndexInv /\ AnswersProvable /\ [Next]_vars => AnswersProvable'
  BY ProvableNext
<1> QED BY <1>1, <1>2, Typed, Indexed, PTL DEF Spec

\* The converse: whoever made the proof, what it proves under a root ever published is
\* a manifest that a provider registered.
OnlyRegisteredProvable ==
    \A n \in DOMAIN index_roots : \A leaf_hash, proof_path :
        /\ Len(proof_path) \in Nat
        /\ verifyInclusionProof(leaf_hash, proof_path, Root(index_roots[n]))
        => \E p \in Providers : leaf_hash \in registered[p]

\* The broker's roots cannot be made to prove a manifest that no provider sent, by no
\* proof, its own or another's (buildMerkleTree, verifyInclusionProof).
THEOREM NothingElseProvable == Spec => []OnlyRegisteredProvable
<1>1. TypeInv /\ RowInv /\ KeptInv => OnlyRegisteredProvable
  <2> SUFFICES ASSUME TypeInv, RowInv, KeptInv, NEW n \in DOMAIN index_roots,
                      NEW leaf_hash, NEW proof_path, Len(proof_path) \in Nat,
                      verifyInclusionProof(leaf_hash, proof_path, Root(index_roots[n]))
               PROVE  \E p \in Providers : leaf_hash \in registered[p]
    BY DEF OnlyRegisteredProvable
  <2> DEFINE leaves == index_roots[n]
  <2>1. leaves \in Seq(Manifests)
    BY DEF TypeInv, TypeOK
  <2>2. leaves # <<>>
    BY EmptySound DEF Root
  <2>3. IsLayer(leaves)
    <3> HIDE DEF leaves
    <3> QED BY <2>1, <2>2 DEF IsLayer
  <2>4. PICK i \in DOMAIN leaves : leaf_hash = leaves[i]
    <3> HIDE DEF leaves
    <3> QED BY <2>3, InclusionSound DEF leaves
  <2>5. i \in DOMAIN manifests /\ leaf_hash \in registered[manifests[i].provider_did]
    BY <2>4 DEF KeptInv, IndexesKept
  <2>6. manifests[i].provider_did \in Providers
    <3>1. manifests[i] \in ManifestRow
      BY <2>5 DEF RowInv, Rows
    <3> QED BY <3>1 DEF ManifestRow
  <2> QED BY <2>5, <2>6
<1> QED BY <1>1, Typed, Kept, PTL

=============================================================================
