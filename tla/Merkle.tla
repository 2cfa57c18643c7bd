------------------------------- MODULE Merkle -------------------------------
(***************************************************************************)
(* The Merkle tree over the hashes of a batch, its inclusion proofs and    *)
(* their verification: packages/btcnotar/src/merkle.js, and the Python     *)
(* package's core.py, which builds the same tree.                          *)
(*                                                                         *)
(* SHA-256 is taken to be one-to-one, so a hash value is the term it was   *)
(* computed from.  DoubledPairs, LeafWithoutPrefix and SiblingUnchecked    *)
(* are plausible mistakes in the definition below each of them.            *)
(***************************************************************************)
EXTENDS Naturals, Sequences, SequencesExt

LeafWithoutPrefix(h) == h
Leaf(h) == <<"leaf", h>>
Node(l, r) == <<"node", l, r>>

-----------------------------------------------------------------------------
(* The tree: layers[1] holds the leaves, each next layer the nodes over it. *)

\* The last of an odd number is carried up untouched.
DoubledPairs(layer) ==
    [k \in 1..((Len(layer) + 1) \div 2) |->
        Node(layer[2 * k - 1], layer[IF 2 * k <= Len(layer) THEN 2 * k ELSE 2 * k - 1])]
Pairs(layer) ==
    [k \in 1..((Len(layer) + 1) \div 2) |->
        IF 2 * k <= Len(layer) THEN Node(layer[2 * k - 1], layer[2 * k])
                               ELSE layer[2 * k - 1]]

BuildLayers(hashes) ==
    LET layer[k \in 1..Len(hashes)] ==
            IF k = 1 THEN [i \in 1..Len(hashes) |-> Leaf(hashes[i])]
                     ELSE Pairs(layer[k - 1])
        top == CHOOSE k \in 1..Len(hashes) : Len(layer[k]) = 1
                                              /\ \A j \in 1..(k - 1) : Len(layer[j]) > 1
    IN  [k \in 1..top |-> layer[k]]

RootOf(layers) == layers[Len(layers)][1]

-----------------------------------------------------------------------------
(* Proofs.                                                                 *)

\* The place, counted from 0, of the sibling of node i in its layer.
Sibling(i) == IF i % 2 = 1 THEN i - 1 ELSE i + 1

\* The step from the node over leaf i in a layer, none where it has no sibling.
SiblingUnchecked(layer, i) ==
    <<[position |-> IF i % 2 = 1 THEN "left" ELSE "right",
       hash |-> layer[(Sibling(i) % Len(layer)) + 1]]>>
StepAt(layer, i) ==
    IF Sibling(i) < Len(layer)
    THEN <<[position |-> IF i % 2 = 1 THEN "left" ELSE "right",
            hash |-> layer[Sibling(i) + 1]]>>
    ELSE <<>>

\* One pass of the loop of getProof: from the index in a layer, and the steps so
\* far, to those of the next layer.
NextLevel(layer, at) == [index |-> at.index \div 2,
                         steps |-> at.steps \o StepAt(layer, at.index)]

\* getProof: the steps of all layers but the top, from leaf i upwards.
GetProof(layers, i) ==
    LET at[k \in 1..Len(layers)] == IF k = 1 THEN [index |-> i, steps |-> <<>>]
                                    ELSE NextLevel(layers[k - 1], at[k - 1])
    IN  at[Len(layers)].steps

\* getProofForHash: the proof of the first leaf with this hash.
FirstIndex(hashes, h) == SelectInSeq(hashes, LAMBDA x : x = h) - 1

-----------------------------------------------------------------------------
(* Verification.                                                           *)

\* A step that is not "left" is taken for a step to the right.
StepUp(node, step) == IF step.position = "left" THEN Node(step.hash, node)
                                                ELSE Node(node, step.hash)

\* The node a proof leads to from node x.
Climb(x, proof) ==
    LET node[k \in 0..Len(proof)] ==
            IF k = 0 THEN x ELSE StepUp(node[k - 1], proof[k])
    IN  node[Len(proof)]

VerifyProof(h, proof, root) == Climb(Leaf(h), proof) = root

\* verify_proof of core.py refuses a position it does not know, and a missing one.
KnownPositions(proof) == \A k \in DOMAIN proof : proof[k].position \in {"left", "right"}
PyVerifyProof(h, proof, root) == KnownPositions(proof) /\ Climb(Leaf(h), proof) = root

-----------------------------------------------------------------------------
(* The tree of RFC 6962, section 2.1, defined from the top: the left part  *)
(* holds the largest power of two of leaves smaller than their number.     *)

\* That power of two: it doubles whenever its double is still smaller.
SplitAt(n) ==
    LET split[m \in 2..n] ==
            IF m = 2 THEN 1
            ELSE IF 2 * split[m - 1] < m THEN 2 * split[m - 1] ELSE split[m - 1]
    IN  split[n]

\* The hash of the n leaves from place lo, for every n and lo.
Subtrees(hashes) ==
    LET hash[n \in 1..Len(hashes)] ==
            [lo \in 1..(Len(hashes) + 1 - n) |->
                IF n = 1 THEN Leaf(hashes[lo])
                ELSE Node(hash[SplitAt(n)][lo], hash[n - SplitAt(n)][lo + SplitAt(n)])]
    IN  hash

TreeHash(hashes) == Subtrees(hashes)[Len(hashes)][1]

\* The path of leaf i, counted from 0, in the subtree of n leaves from place lo.
PathStep(hash, i, n, lo) ==
    IF i < lo + SplitAt(n) - 1
    THEN [position |-> "right", hash |-> hash[n - SplitAt(n)][lo + SplitAt(n)]]
    ELSE [position |-> "left", hash |-> hash[SplitAt(n)][lo]]
AuditPath(hashes, i) ==
    LET path[n \in 1..Len(hashes)] ==
            [lo \in 1..(Len(hashes) + 1 - n) |->
                IF n = 1 THEN <<>>
                ELSE Append(IF i < lo + SplitAt(n) - 1
                            THEN path[SplitAt(n)][lo]
                            ELSE path[n - SplitAt(n)][lo + SplitAt(n)],
                            PathStep(Subtrees(hashes), i, n, lo))]
    IN  path[Len(hashes)][1]
=============================================================================
