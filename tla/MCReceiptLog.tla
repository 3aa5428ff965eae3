---------------------------- MODULE MCReceiptLog ----------------------------
EXTENDS ReceiptLog, TLC

\* The tree of receipts/merkle.py.
Tree == INSTANCE Merkle

MCEmptyRoot == Tree!EmptyRoot
MCLeafHash(data) == Tree!LeafHash(data)
MCRoot(leaves, n) == Tree!Root(leaves, n)
MCInclusionProof(leaves, index, n) == Tree!InclusionProof(leaves, index, n)
MCVerifyInclusion(leaf, index, size, proof, root) ==
    Tree!VerifyInclusion(leaf, index, size, proof, root)
MCConsistencyProof(leaves, old, n) == Tree!ConsistencyProof(leaves, old, n)
MCVerifyConsistency(old, size, oldRoot, root, proof) ==
    Tree!VerifyConsistency(old, size, oldRoot, root, proof)

\* Threads are alike, and so are the ids of actions.
Alike == Permutations(Callers) \cup Permutations(Ids \ Deliveries)

\* The tree of n leaves that are told apart by their numbers.
Numbered(n) == [i \in 1..n |-> TreeLeafHash(i)]
Sizes == 1..9

\* A ledger's compact range has the root of the whole tree (core.py's
\* _frontier_append and _frontier_root against RFC 9162's MTH).
ASSUME FrontiersHaveTheRoot ==
    \A n \in Sizes : Tree!FrontierRoot(Tree!Frontier(Numbered(n), n)) = TreeRoot(Numbered(n), n)

\* The tree proves what the log relies on it for.
ASSUME TheTreeProves == \A n \in Sizes \cup {0} : TreeProves(Numbered(n), n)

\* An audit path proves its own leaf at its own index, and nothing else.
ASSUME PathsProveTheirLeaf ==
    \A n \in Sizes : \A i, j \in 0..(n - 1), l \in 1..n :
        TreeVerifyInclusion(TreeLeafHash(l), j, n, TreeInclusionProof(Numbered(n), i, n),
                            TreeRoot(Numbered(n), n))
            <=> (j = i /\ l = i + 1)

\* A consistency proof proves its own prefix, and no other size.
ASSUME ProofsProveTheirPrefix ==
    \A n \in Sizes : \A m, k \in 0..n :
        TreeVerifyConsistency(k, n, TreeRoot(Numbered(n), m), TreeRoot(Numbered(n), n),
                              TreeConsistencyProof(Numbered(n), m, n)) <=> k = m
=============================================================================
