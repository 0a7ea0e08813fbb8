------------------------------- MODULE BoxTrees --------------------------------
(***************************************************************************)
(* The two trees of boxes.                                                    *)
(*                                                                           *)
(* LectTree (src/lect.cpp): a box of configurations that is halved again and *)
(* again, whose nodes are known by their path from the root.  Callers keep   *)
(* keys and boxes, of one tree and of others, so that what a key means must  *)
(* not depend on the order of the splits.                                    *)
(*                                                                           *)
(* RegionQueryIndex (src/region_index.cpp): the tree of bounding boxes that  *)
(* answers which regions of an Atlas contain a configuration and which is    *)
(* the nearest one.  Regions are numbered in the order of their ids.         *)
(***************************************************************************)
EXTENDS Boxes, SequencesExt

CONSTANTS
    MinimumWidth,       \* minimum_normalized_width: a fraction <<n, d>>
    MaxNodes,           \* bound: nodes of a LectTree
    LeafCapacity        \* leaf_capacity of an index

VARIABLES nodes         \* nodes_ of a LectTree, in the order they were made

vars == <<nodes>>

RootNode == [key |-> <<>>, box |-> Root, leaf |-> TRUE, axis |-> 0]
Keys(tree) == {tree[k].key : k \in DOMAIN tree}
IndexOf(tree, key) == CHOOSE k \in DOMAIN tree : tree[k].key = key
Leaves(tree) == {tree[k] : k \in {n \in DOMAIN tree : tree[n].leaf}}

(* choose_split_dimension() *)
SplitsAt(b) == SplitAxis(b, Root)

(* split() refuses a side that is narrow enough or has no middle. *)
MaySplitNode(b) ==
    LET i == SplitsAt(b) IN
    /\ Width(b, i) * MinimumWidth[2] > MinimumWidth[1] * Width(Root, i)
    /\ Width(b, i) >= 2

HalvesOf(b) ==
    LET i == SplitsAt(b) IN
    <<[b EXCEPT !.upper[i] = Middle(b)[i]], [b EXCEPT !.lower[i] = Middle(b)[i]]>>

Leaf(key, b) == [key |-> key, box |-> b, leaf |-> TRUE, axis |-> 0]

Init == nodes = <<RootNode>>

(* split(); of a branch it returns the children. *)
Split(k) ==
    /\ nodes[k].leaf
    /\ Len(nodes) + 2 <= MaxNodes
    /\ MaySplitNode(nodes[k].box)
    /\ LET halves == HalvesOf(nodes[k].box) IN
       nodes' = [nodes EXCEPT ![k].leaf = FALSE, ![k].axis = SplitsAt(nodes[k].box)]
                    \o <<Leaf(Append(nodes[k].key, 0), halves[1]), Leaf(Append(nodes[k].key, 1), halves[2])>>

Next == \E k \in DOMAIN nodes : Split(k)

Spec == Init /\ [][Next]_vars

-----------------------------------------------------------------------------
(* locate(): down from the root, by the middle of each branch. *)
Locate(p) ==
    LET down[depth \in 0..Len(nodes)] ==
            IF depth = 0 THEN nodes[1]
            ELSE LET n == down[depth - 1] IN
                 IF n.leaf THEN n
                 ELSE nodes[IndexOf(nodes, Append(n.key,
                                IF p[n.axis] <= Middle(n.box)[n.axis] THEN 0 ELSE 1))]
    IN down[Len(nodes)]

(* overlap_leaves() *)
OverlapLeaves(b) == {n.key : n \in {m \in Leaves(nodes) : Overlap(m.box, b, 0)}}

(* encode_lect_tree(): the table of nodes as it is. *)
Encoded == [root |-> Root, table |-> nodes]

(* restore(): keys are unique, the first node is the root's, and branches    *)
(* have their children.                                                      *)
Restorable(file) ==
    /\ file.table # <<>> /\ file.table[1].key = <<>> /\ file.table[1].box = file.root
    /\ \A j, k \in DOMAIN file.table : file.table[j].key = file.table[k].key => j = k
    /\ \A k \in DOMAIN file.table :
          ~file.table[k].leaf =>
              /\ file.table[k].axis \in Axes
              /\ {Append(file.table[k].key, 0), Append(file.table[k].key, 1)} \subseteq Keys(file.table)

(* What a key means, whatever tree it is in. *)
BoxOfKey(key) ==
    FoldLeft(LAMBDA b, side : IF side = 0 THEN LowerHalf(b, Root) ELSE UpperHalf(b, Root), Root, key)

Grid == {p \in [Axes -> 0..Max({Root.upper[i] : i \in Axes})] : InBox(p, Root)}

(* split(), locate(), overlap_leaves(), restore(): in whatever order nodes   *)
(* were split, a key stands for the same box in every tree of the root,      *)
(* every configuration lies in the leaf that locate() gives, which is among  *)
(* those that overlap it, leaves share no more than their faces, and the     *)
(* stored table of nodes is one that restore() takes.                        *)
KeysAreStable ==
    /\ \A k \in DOMAIN nodes : nodes[k].box = BoxOfKey(nodes[k].key)
    /\ \A p \in Grid :
          /\ InBox(p, Locate(p).box)
          /\ Locate(p).key \in OverlapLeaves([lower |-> p, upper |-> p])
    /\ \A m, n \in Leaves(nodes) :
          m # n => \E i \in Axes : m.box.upper[i] <= n.box.lower[i] \/ n.box.upper[i] <= m.box.lower[i]
    /\ Restorable(Encoded)

-----------------------------------------------------------------------------
(* enclosing_box() of the regions with these numbers. *)
EnclosingBox(regions, items) ==
    [lower |-> [i \in Axes |-> Min({regions[items[k]].lower[i] : k \in DOMAIN items})],
     upper |-> [i \in Axes |-> Max({regions[items[k]].upper[i] : k \in DOMAIN items})]]

(* Twice the center of a region. *)
Center(regions, k, i) == regions[k].lower[i] + regions[k].upper[i]

(* build_node(): the first axis along which the centers spread most, by the  *)
(* width of the box around all regions.                                      *)
SpreadAxis(regions, items) ==
    LET all == EnclosingBox(regions, [k \in DOMAIN regions |-> k])
        scale(i) == IF Width(all, i) > 0 THEN Width(all, i) ELSE 1
        centers(i) == {Center(regions, items[k], i) : k \in DOMAIN items}
        spread(i) == Max(centers(i)) - Min(centers(i))
    IN CHOOSE i \in Axes :
        /\ \A j \in Axes : spread(j) * scale(i) <= spread(i) * scale(j)
        /\ \A j \in 1..(i - 1) : spread(j) * scale(i) < spread(i) * scale(j)

(* Its stable_sort(). *)
Ordered(regions, items) ==
    LET i == SpreadAxis(regions, items) IN
    SortSeq(items, LAMBDA j, k : \/ Center(regions, j, i) < Center(regions, k, i)
                                 \/ Center(regions, j, i) = Center(regions, k, i) /\ j < k)

RECURSIVE BuildNode(_, _)
BuildNode(regions, items) ==
    IF Len(items) <= LeafCapacity
    THEN [bounds |-> EnclosingBox(regions, items), leaf |-> TRUE, items |-> items]
    ELSE LET sorted == Ordered(regions, items)
             half == Len(items) \div 2
         IN [bounds |-> EnclosingBox(regions, items), leaf |-> FALSE,
             left |-> BuildNode(regions, SubSeq(sorted, 1, half)),
             right |-> BuildNode(regions, SubSeq(sorted, half + 1, Len(items)))]

(* build() *)
Index(regions) == BuildNode(regions, [k \in DOMAIN regions |-> k])

(* collect(), containing() *)
RECURSIVE Collect(_, _, _)
Collect(regions, node, p) ==
    IF ~InBox(p, node.bounds) THEN {}
    ELSE IF node.leaf THEN {k \in Range(node.items) : InBox(p, regions[k])}
    ELSE Collect(regions, node.left, p) \cup Collect(regions, node.right, p)

(* point_box_distance_squared() *)
Gap(p, b) ==
    LET off(i) == MaxOf(0, MaxOf(b.lower[i] - p[i], p[i] - b.upper[i])) IN
    FoldSet(LAMBDA i, n : n + off(i) * off(i), 0, Axes)

Better(regions, p, j, k) ==
    \/ Gap(p, regions[j]) < Gap(p, regions[k])
    \/ Gap(p, regions[j]) = Gap(p, regions[k]) /\ j < k

(* search_nearest(): a node that cannot hold a nearer region. *)
Pruned(gap, best) == gap > best

(* search_nearest(): the nearer child first. *)
RECURSIVE SearchNearest(_, _, _, _)
SearchNearest(regions, node, p, selected) ==
    IF Pruned(Gap(p, node.bounds), Gap(p, regions[selected])) THEN selected
    ELSE IF node.leaf
    THEN FoldLeft(LAMBDA best, k : IF Better(regions, p, k, best) THEN k ELSE best, selected, node.items)
    ELSE LET ordered == IF Gap(p, node.left.bounds) <= Gap(p, node.right.bounds)
                        THEN <<node.left, node.right>> ELSE <<node.right, node.left>>
         IN SearchNearest(regions, ordered[2], p, SearchNearest(regions, ordered[1], p, selected))

RECURSIVE FirstItem(_)
FirstItem(node) == IF node.leaf THEN node.items[1] ELSE FirstItem(node.left)

(* nearest() *)
NearestIn(regions, index, p) == SearchNearest(regions, index, p, FirstItem(index))

(* containing(), nearest(): whatever the regions and however they share      *)
(* centers, bounds and distances, the tree answers as a scan over all of     *)
(* them, down to the least id among the nearest.                             *)
IndexExactFor(regions, points) ==
    LET index == Index(regions) IN
    \A p \in points :
        /\ Collect(regions, index, p) = {k \in DOMAIN regions : InBox(p, regions[k])}
        /\ LET nearest == NearestIn(regions, index, p) IN
           \A k \in DOMAIN regions : ~Better(regions, p, k, nearest)
=============================================================================
