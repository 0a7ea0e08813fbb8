----------------------------- MODULE MerkleTree -----------------------------
(***************************************************************************)
(* The Merkle arithmetic of the transparency log (transparency.cpp): roots, *)
(* the frontier that is carried from one append to the next, inclusion      *)
(* proofs and compact consistency proofs, with the checks that a verifier   *)
(* makes of them.                                                           *)
(*                                                                          *)
(* SHA-256 is taken to be injective.  A hash is the tree that was hashed,   *)
(* in prefix notation: a leaf with payload p is <<p>>, p a positive number, *)
(* and an inner node is 0 followed by its two subtrees; <<>> stands for the *)
(* empty string.  A log is the sequence of its leaf payloads.               *)
(***************************************************************************)
EXTENDS Naturals, Sequences, FiniteSets, SequencesExt

CONSTANT Levels   \* the length of a frontier; 64 in the program

ASSUME LevelsAssumption == Levels \in Nat \ {0}

NoHash == <<>>
LeafHash(p) == <<p>>
NodeHash(l, r) == <<0>> \o l \o r

(* One level of the tree: neighbours are paired, an odd last node moves up. *)
NextLevel(level) ==
    [i \in 1..((Len(level) + 1) \div 2) |->
        IF 2 * i <= Len(level) THEN NodeHash(level[2 * i - 1], level[2 * i]) ELSE level[2 * i - 1]]

(* LevelAt(log)[k]: the k-th level above the leaves. *)
LevelAt(log) ==
    LET at[k \in 0..Len(log)] == IF k = 0 THEN [i \in 1..Len(log) |-> LeafHash(log[i])]
                                 ELSE NextLevel(at[k - 1])
    IN  at

MerkleRoot(log) == IF log = <<>> THEN NoHash ELSE LevelAt(log)[Len(log)][1]

--------------------------------------------------------------------------
(* The frontier: at level k the subtree of 2^k leaves that waits for its    *)
(* right-hand neighbour, or no hash.                                        *)

NoFrontier == [k \in 0..(Levels - 1) |-> NoHash]

Occupied(frontier) == SelectSeq([i \in 1..Levels |-> frontier[i - 1]], LAMBDA h : h # NoHash)

FrontierRoot(frontier) ==
    FoldLeft(LAMBDA root, subtree : IF root = NoHash THEN subtree ELSE NodeHash(subtree, root),
             NoHash, Occupied(frontier))

Bit(n, k) == (n \div 2^k) % 2

(* Appending a subtree of 2^level leaves to a tree of size leaves: it is     *)
(* merged with every waiting subtree up to the first level that has none.    *)
CarryEnd(level, size) == CHOOSE k \in level..(Levels + level + size) :
                            Bit(size, k) = 0 /\ \A j \in level..(k - 1) : Bit(size, j) = 1

SubtreeFits(frontier, subtree, level, size) ==
    /\ subtree # NoHash
    /\ level < Levels
    /\ size % 2^level = 0
    /\ CarryEnd(level, size) < Levels
    /\ \A k \in level..(CarryEnd(level, size) - 1) : frontier[k] # NoHash
    /\ frontier[CarryEnd(level, size)] = NoHash

AppendSubtree(frontier, subtree, level, size) ==
    LET end == CarryEnd(level, size)
        merged == FoldLeft(LAMBDA h, k : NodeHash(frontier[k], h), subtree,
                           [i \in 1..(end - level) |-> level + i - 1])
    IN  [k \in 0..(Levels - 1) |->
            IF k = end THEN merged ELSE IF k \in level..(end - 1) THEN NoHash ELSE frontier[k]]

(* The frontier of a log, built by appending its leaves one by one. *)
FrontierOf(log) ==
    LET at[n \in 0..Len(log)] == IF n = 0 THEN NoFrontier
                                 ELSE AppendSubtree(at[n - 1], LeafHash(log[n]), 0, n - 1)
    IN  at[Len(log)]

--------------------------------------------------------------------------
(* Inclusion proofs.  Indices count from zero, as in the program. *)

(* The positions of one leaf's path: <<index, width>> at every level. *)
Path(index, size) ==
    LET at[k \in 0..size] == IF k = 0 THEN <<index, size>>
                             ELSE <<at[k - 1][1] \div 2, (at[k - 1][2] + 1) \div 2>>
    IN  SelectSeq([i \in 1..(size + 1) |-> at[i - 1] \o <<i - 1>>], LAMBDA p : p[2] > 1)

HasSibling(p) == p[1] % 2 = 1 \/ p[1] + 1 < p[2]

InclusionProof(log, index) ==
    LET paired == SelectSeq(Path(index, Len(log)), HasSibling)
    IN  [i \in DOMAIN paired |->
            LET p == paired[i]
            IN  LevelAt(log)[p[3]][IF p[1] % 2 = 1 THEN p[1] ELSE p[1] + 2]]

VerifyInclusion(root, size, leaf, index, siblings) ==
    LET paired == SelectSeq(Path(index, size), HasSibling)
        hash == FoldLeftDomain(
                    LAMBDA h, i : IF paired[i][1] % 2 = 1 THEN NodeHash(siblings[i], h)
                                  ELSE NodeHash(h, siblings[i]),
                    LeafHash(leaf), paired)
    IN  Len(siblings) = Len(paired) /\ hash = root

--------------------------------------------------------------------------
(* Compact consistency proofs: the old frontier and the largest aligned      *)
(* subtrees that lead from the old size to the new one.                      *)

(* The levels of the appended subtrees, from size on up to newSize. *)
FitsAt(level, cursor, newSize) == 2^level <= newSize - cursor /\ cursor % 2^level = 0
LargestLevel(cursor, newSize) ==
    CHOOSE l \in 0..(Levels - 1) :
        /\ \A k \in 0..l : FitsAt(k, cursor, newSize)
        /\ l + 1 < Levels => ~FitsAt(l + 1, cursor, newSize)

AppendedLevels(oldSize, newSize) ==
    LET from[cursor \in oldSize..newSize] ==
            IF cursor = newSize THEN <<>>
            ELSE <<LargestLevel(cursor, newSize)>> \o from[cursor + 2^LargestLevel(cursor, newSize)]
    IN  from[oldSize]

Reached(oldSize, levels, i) == FoldLeft(LAMBDA n, l : n + 2^l, oldSize, SubSeq(levels, 1, i))

CompactProof(log, oldSize) ==
    LET levels == AppendedLevels(oldSize, Len(log))
    IN  [old_tree_size |-> oldSize, new_tree_size |-> Len(log),
         old_frontier |-> FrontierOf(SubSeq(log, 1, oldSize)),
         appended |-> [i \in DOMAIN levels |->
            [level |-> levels[i],
             hash |-> MerkleRoot(SubSeq(log, Reached(oldSize, levels, i - 1) + 1,
                                             Reached(oldSize, levels, i)))]]]

ProofLevels(proof) == [i \in DOMAIN proof.appended |-> proof.appended[i].level]

CompactProofValid(proof) ==
    /\ 0 < proof.old_tree_size /\ proof.old_tree_size < proof.new_tree_size
    /\ \A k \in 0..(Levels - 1) : (proof.old_frontier[k] # NoHash) <=> Bit(proof.old_tree_size, k) = 1
    /\ proof.appended # <<>>
    /\ \A i \in DOMAIN proof.appended :
          LET before == Reached(proof.old_tree_size, ProofLevels(proof), i - 1)
          IN  before % 2^proof.appended[i].level = 0
    /\ Reached(proof.old_tree_size, ProofLevels(proof), Len(proof.appended)) = proof.new_tree_size

(* The frontier after all appended subtrees, or <<>> if one does not fit. *)
Extended(proof) ==
    FoldLeftDomain(
        LAMBDA f, i : LET s == proof.appended[i]
                          size == Reached(proof.old_tree_size, ProofLevels(proof), i - 1)
                      IN  IF f # <<>> /\ SubtreeFits(f, s.hash, s.level, size)
                          THEN AppendSubtree(f, s.hash, s.level, size) ELSE <<>>,
        proof.old_frontier, proof.appended)

(* The bindings of the proof to two checkpoints are its sizes and roots. *)
VerifyCompact(old, new, proof) ==
    /\ CompactProofValid(proof)
    /\ proof.old_tree_size = old.tree_size /\ proof.new_tree_size = new.tree_size
    /\ FrontierRoot(proof.old_frontier) = old.root_hash
    /\ Extended(proof) # <<>> /\ FrontierRoot(Extended(proof)) = new.root_hash

(* The other form of proof carries the whole list of leaves. *)
VerifyConsistency(old, new, leaves) ==
    /\ Len(leaves) = new.tree_size /\ old.tree_size < new.tree_size
    /\ MerkleRoot(SubSeq(leaves, 1, old.tree_size)) = old.root_hash
    /\ MerkleRoot(leaves) = new.root_hash

-----------------------------------------------------------------------------
(* The tree of a log as it is usually defined: the left subtree holds the     *)
(* largest power of two of leaves that leaves some for the right.             *)
Split(n) == CHOOSE k \in 1..n : k < n /\ 2 * k >= n /\ \E l \in 0..n : k = 2^l
TreeOf(log) ==
    LET over[lo \in 1..Len(log), hi \in 1..Len(log)] ==
            IF lo = hi THEN LeafHash(log[lo])
            ELSE LET mid == lo + Split(hi - lo + 1)
                 IN  NodeHash(over[lo, mid - 1], over[mid, hi])
    IN  over[1, Len(log)]

(* Roots agree, however they were computed, and an inclusion proof given by   *)
(* any log is accepted under log a's root for exactly the leaves of a.        *)
InclusionExactFor(a, b) ==
    /\ MerkleRoot(a) = TreeOf(a)
    /\ FrontierRoot(FrontierOf(a)) = TreeOf(a)
    /\ \A i \in 0..(Len(a) - 1) :
          /\ VerifyInclusion(MerkleRoot(a), Len(a), a[i + 1], i, InclusionProof(a, i))
          /\ \A j \in 0..(Len(b) - 1) :
                VerifyInclusion(MerkleRoot(a), Len(a), b[j + 1], i, InclusionProof(b, j))
                    => b[j + 1] = a[i + 1]

(* A consistency proof made by the longer log b, alone or with the frontier   *)
(* of the shorter log a put in its place, is accepted exactly if a is a       *)
(* prefix of b; so is the full list of b's leaves.                            *)
PrefixExactFor(a, b) ==
    LET old == [tree_size |-> Len(a), root_hash |-> MerkleRoot(a)]
        new == [tree_size |-> Len(b), root_hash |-> MerkleRoot(b)]
        proof == CompactProof(b, Len(a))
    IN  Len(a) < Len(b) =>
            /\ VerifyCompact(old, new, proof) <=> IsPrefix(a, b)
            /\ VerifyCompact(old, new, [proof EXCEPT !.old_frontier = FrontierOf(a)]) <=> IsPrefix(a, b)
            /\ VerifyConsistency(old, new, b) <=> IsPrefix(a, b)
=============================================================================
