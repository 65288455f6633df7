----------------------------- MODULE MerkleTree -----------------------------
(***************************************************************************)
(* The Merkle tree of the match broker (buildMerkleTree) and the check of  *)
(* an inclusion proof that its documentation and its smoke test give to    *)
(* clients.  A hash is the term that was hashed, so that two hashes are    *)
(* equal just when what was hashed is.                                     *)
(***************************************************************************)
EXTENDS Naturals, Sequences

merkleLeaf(data)        == [leaf |-> data]
merkleNode(left, right) == [left |-> left, right |-> right]
EmptyRoot               == [empty |-> TRUE]

\* One layer above: the last node of an odd layer is its own sibling.
NextLayer(layer) ==
    [i \in 1 .. (Len(layer) + 1) \div 2 |->
        merkleNode(layer[2 * i - 1],
                   IF 2 * i =< Len(layer) THEN layer[2 * i] ELSE layer[2 * i - 1])]

Layers(leaves) ==
    LET layer[k \in Nat] == IF k = 0 THEN [i \in DOMAIN leaves |-> merkleLeaf(leaves[i])]
                            ELSE NextLayer(layer[k - 1])
    IN  layer

\* The level of the root: the first layer of one node.
Depth(leaves) ==
    CHOOSE k \in 0 .. Len(leaves) :
        /\ Len(Layers(leaves)[k]) = 1
        /\ \A j \in 0 .. k - 1 : Len(Layers(leaves)[j]) > 1

Root(leaves) ==
    IF leaves = <<>> THEN EmptyRoot ELSE Layers(leaves)[Depth(leaves)][1]

Sibling_Next(layer, idx) ==                                        \* a mutant
    IF idx + 1 < Len(layer) THEN layer[idx + 2] ELSE layer[idx + 1]
\* The sibling of the node at idx, counted from 0 as the code does.
Sibling(layer, idx) ==
    LET siblingIdx == IF idx % 2 = 0 THEN idx + 1 ELSE idx - 1
    IN  IF siblingIdx < Len(layer) THEN layer[siblingIdx + 1] ELSE layer[idx + 1]

\* The places of the leaf at leafIdx and of what is above it, layer by layer.
Places(leafIdx) ==
    LET idx[level \in Nat] == IF level = 0 THEN leafIdx ELSE idx[level - 1] \div 2
    IN  idx

\* The proof of the leaf at leafIdx: its siblings from the leaf up to the root.
Proof(leaves, leafIdx) ==
    [level \in 1 .. Depth(leaves) |->
        LET idx == Places(leafIdx)[level - 1]
        IN  [position |-> IF idx % 2 = 0 THEN "right" ELSE "left",
             hash     |-> Sibling(Layers(leaves)[level - 1], idx)]]

verifyInclusionProof(leafHash, proofPath, rootHash) ==
    LET current[k \in 0 .. Len(proofPath)] ==
            IF k = 0 THEN merkleLeaf(leafHash)
            ELSE IF proofPath[k].position = "right"
                 THEN merkleNode(current[k - 1], proofPath[k].hash)
                 ELSE merkleNode(proofPath[k].hash, current[k - 1])
    IN  current[Len(proofPath)] = rootHash

=============================================================================
