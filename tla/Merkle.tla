------------------------------- MODULE Merkle -------------------------------
(***************************************************************************)
(* The RFC 9162 tree of the receipt log (receipts/merkle.py) and of the    *)
(* ledger's checkpoints (the frontier of core.py).  A hash is the term it  *)
(* is the hash of: hashing is injective and a leaf is never a node.        *)
(*                                                                         *)
(* Positions and sizes count from 0, as in the code; leaves is a sequence, *)
(* so leaf n is leaves[n + 1].                                             *)
(***************************************************************************)
EXTENDS Integers, Sequences, SequencesExt

EmptyRoot == <<>>
LeafHash(data) == <<data>>
NodeHash(left, right) == <<left, right>>

\* The largest power of two smaller than n.
Split(n) == CHOOSE k \in {2^i : i \in 0..n} : k < n /\ 2 * k >= n

RECURSIVE Hash(_, _, _)
Hash(leaves, start, n) ==
    IF n = 1 THEN leaves[start + 1]
    ELSE LET k == Split(n)
         IN  NodeHash(Hash(leaves, start, k), Hash(leaves, start + k, n - k))

Root(leaves, n) == IF n = 0 THEN EmptyRoot ELSE Hash(leaves, 0, n)

RECURSIVE Path(_, _, _, _)
Path(leaves, index, start, n) ==
    IF n = 1 THEN <<>>
    ELSE LET k == Split(n)
         IN  IF index < k
               THEN Append(Path(leaves, index, start, k), Hash(leaves, start + k, n - k))
               ELSE Append(Path(leaves, index - k, start + k, n - k), Hash(leaves, start, k))

InclusionProof(leaves, index, n) == Path(leaves, index, 0, n)

RECURSIVE Subproof(_, _, _, _, _)
Subproof(leaves, m, start, n, complete) ==
    IF m = n THEN IF complete THEN <<>> ELSE <<Hash(leaves, start, n)>>
    ELSE LET k == Split(n)
         IN  IF m <= k
               THEN Append(Subproof(leaves, m, start, k, complete), Hash(leaves, start + k, n - k))
               ELSE Append(Subproof(leaves, m - k, start + k, n - k, FALSE), Hash(leaves, start, k))

ConsistencyProof(leaves, old, n) ==
    IF old \in {0, n} THEN <<>> ELSE Subproof(leaves, old, 0, n, TRUE)

-----------------------------------------------------------------------------
(* The verifiers walk up from a position: fn in a tree whose last is sn.   *)

Odd(n) == n % 2 = 1

\* while fn and not fn & 1: both shift; then both shift once more.
RECURSIVE Climb(_, _)
Climb(fn, sn) ==
    IF fn # 0 /\ ~Odd(fn) THEN Climb(fn \div 2, sn \div 2)
    ELSE [fn |-> fn \div 2, sn |-> sn \div 2]

\* One element of a proof, on the walk w: where both hashes take it on their
\* left, or only the newer on its right.
Step(w, p) ==
    IF w.sn = 0 THEN [w EXCEPT !.ok = FALSE]
    ELSE IF Odd(w.fn) \/ w.fn = w.sn
      THEN LET up == IF Odd(w.fn) THEN [fn |-> w.fn \div 2, sn |-> w.sn \div 2]
                     ELSE Climb(w.fn, w.sn)
           IN  [ok |-> w.ok, fn |-> up.fn, sn |-> up.sn,
                older |-> NodeHash(p, w.older), newer |-> NodeHash(p, w.newer)]
      ELSE [w EXCEPT !.fn = @ \div 2, !.sn = @ \div 2, !.newer = NodeHash(@, p)]

RECURSIVE Walk(_, _)
Walk(w, proof) == IF proof = <<>> THEN w ELSE Walk(Step(w, Head(proof)), Tail(proof))

VerifyInclusion(leaf, index, size, proof, root) ==
    /\ index < size
    /\ LET w == Walk([ok |-> TRUE, fn |-> index, sn |-> size - 1,
                      older |-> leaf, newer |-> leaf], proof)
       IN  w.ok /\ w.sn = 0 /\ w.newer = root

RECURSIVE PowerOfTwo(_)
PowerOfTwo(n) == n = 1 \/ (n > 1 /\ ~Odd(n) /\ PowerOfTwo(n \div 2))

RECURSIVE DropOnes(_, _)
DropOnes(fn, sn) ==
    IF Odd(fn) THEN DropOnes(fn \div 2, sn \div 2) ELSE [fn |-> fn, sn |-> sn]

VerifyConsistency(old, size, oldRoot, root, proof) ==
    CASE old > size -> FALSE
      [] old = size -> proof = <<>> /\ oldRoot = root
      [] old = 0 /\ size # 0 -> proof = <<>> /\ oldRoot = EmptyRoot
      [] OTHER ->
           /\ proof # <<>>
           /\ LET path == IF PowerOfTwo(old) THEN <<oldRoot>> \o proof ELSE proof
                  at == DropOnes(old - 1, size - 1)
                  w == Walk([ok |-> TRUE, fn |-> at.fn, sn |-> at.sn,
                             older |-> Head(path), newer |-> Head(path)], Tail(path))
              IN  w.ok /\ w.sn = 0 /\ w.older = oldRoot /\ w.newer = root

-----------------------------------------------------------------------------
(* The compact range a ledger's checkpoints carry (core.py).               *)

RECURSIVE Carry(_, _, _)
Carry(stack, length, node) ==
    IF ~Odd(length) THEN Append(stack, node)
    ELSE Carry(Front(stack), length \div 2, NodeHash(Last(stack), node))

FrontierAppend(frontier, length, leaf) == Carry(frontier, length, leaf)

FrontierRoot(frontier) ==
    IF frontier = <<>> THEN EmptyRoot
    ELSE FoldRight(NodeHash, Front(frontier), Last(frontier))

RECURSIVE Frontier(_, _)
Frontier(leaves, n) ==
    IF n = 0 THEN <<>> ELSE FrontierAppend(Frontier(leaves, n - 1), n - 1, leaves[n])

=============================================================================
