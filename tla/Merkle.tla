-------------------------------- MODULE Merkle --------------------------------
(***************************************************************************)
(* Binary hash trees and their paths: the dense Merkle sum tree of         *)
(* core/sumtree, with VerifyMerkleSumProof, and the account tree as the    *)
(* user proofs see it, with VerifyMerkleProof.  A hash is the pair it is   *)
(* of; summed tells the two trees apart.                                   *)
(***************************************************************************)
EXTENDS Integers, Sequences

\* Poseidon of two children, and of two children with their sums
PairNode(left, right) == [left |-> left, right |-> right]
HashNode(left, right) ==
  [hash |-> [left |-> left, right |-> right], sum |-> left.sum + right.sum]
Parent(summed, left, right) ==
  IF summed THEN HashNode(left, right) ELSE PairNode(left, right)

\* the leaves of a full tree, by height
Pow2[h \in Nat] == IF h = 0 THEN 1 ELSE 2 * Pow2[h - 1]

\* levels of a tree of n leaves padded to the next power of two
Height(n) == CHOOSE h \in 0 .. n : Pow2[h] >= n /\ \A g \in 0 .. (h - 1) : Pow2[g] < n

\* the levels over leaves 0 .. Pow2[h] - 1, level h being the root
Levels(summed, leaves, h) ==
  LET level[l \in 0 .. h] ==
        IF l = 0 THEN leaves
        ELSE [i \in 0 .. (Pow2[h - l] - 1) |->
                Parent(summed, level[l - 1][2 * i], level[l - 1][2 * i + 1])]
  IN  level

\* the other child: idx ^ 1
Other(i) == IF i % 2 = 0 THEN i + 1 ELSE i - 1

\* the node above a leaf on every level: idx >>= 1
Above(index) ==
  LET node[l \in Nat] == IF l = 0 THEN index ELSE node[l - 1] \div 2
  IN  node

\* mutant: the path starts at the leaf itself
SiblingsWithLeaf(levels, h, index) ==
  [l \in 1 .. h |-> IF l = 1 THEN levels[0][index]
                    ELSE levels[l - 1][Other(Above(index)[l - 1])]]

\* the siblings on the way up, the leaf's own first
Siblings(levels, h, index) == [l \in 1 .. h |-> levels[l - 1][Other(Above(index)[l - 1])]]

\* what the siblings make of a leaf
Walk(summed, index, leaf, siblings) ==
  LET up[l \in 0 .. Len(siblings)] ==
        IF l = 0 THEN leaf
        ELSE IF Above(index)[l - 1] % 2 = 0 THEN Parent(summed, up[l - 1], siblings[l])
        ELSE Parent(summed, siblings[l], up[l - 1])
  IN  up[Len(siblings)]
==============================================================================
