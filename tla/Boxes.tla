-------------------------------- MODULE Boxes --------------------------------
(***************************************************************************)
(* Axis-aligned boxes of configurations (include/rbfsafe/types.h), the       *)
(* splitting of a LECT (src/lect.cpp) and the cover of a segment by boxes    *)
(* (src/trajectory.cpp).                                                     *)
(*                                                                           *)
(* Coordinates are integers: the grid is the resolution of the numbers, and  *)
(* the middle of an interval is rounded down to it.                          *)
(***************************************************************************)
EXTENDS Integers, Sequences, FiniteSets, FiniteSetsExt

CONSTANT Root           \* the joint domain: [lower, upper], one number per joint

Axes == DOMAIN Root.lower

(* Interval::contains(), Interval::overlaps(): intervals are closed. *)
InBox(p, b) == \A i \in Axes : b.lower[i] <= p[i] /\ p[i] <= b.upper[i]
Overlap(a, b, tolerance) ==
    \A i \in Axes : /\ a.lower[i] <= b.upper[i] + tolerance
                    /\ b.lower[i] <= a.upper[i] + tolerance
ContainsBox(outer, inner) ==
    \A i \in Axes : outer.lower[i] <= inner.lower[i] /\ inner.upper[i] <= outer.upper[i]

Width(b, i) == b.upper[i] - b.lower[i]
Middle(b) == [i \in Axes |-> (b.lower[i] + b.upper[i]) \div 2]

Abs(n) == IF n < 0 THEN -n ELSE n
MinOf(a, b) == IF a <= b THEN a ELSE b
MaxOf(a, b) == IF a >= b THEN a ELSE b
Hull(a, b) == [lower |-> [i \in Axes |-> MinOf(a.lower[i], b.lower[i])],
               upper |-> [i \in Axes |-> MaxOf(a.upper[i], b.upper[i])]]

Inflate(b, by) == [lower |-> [i \in Axes |-> b.lower[i] - by],
                   upper |-> [i \in Axes |-> b.upper[i] + by]]

(* rectangular_union(): the hull is what the two boxes cover, because they   *)
(* differ in one axis at most and overlap there.                             *)
HaveRectangularUnion(a, b, tolerance) ==
    LET differing == {i \in Axes : \/ Abs(a.lower[i] - b.lower[i]) > tolerance
                                   \/ Abs(a.upper[i] - b.upper[i]) > tolerance} IN
    /\ Cardinality(differing) <= 1
    /\ \A i \in differing : /\ a.lower[i] <= b.upper[i] + tolerance
                            /\ b.lower[i] <= a.upper[i] + tolerance

(* intersection_witness(): the middle of what two boxes have in common. *)
Witness(a, b) ==
    [i \in Axes |-> (MaxOf(a.lower[i], b.lower[i]) + MinOf(a.upper[i], b.upper[i])) \div 2]

-----------------------------------------------------------------------------
(* LectTree::choose_split_dimension(): the first of the widest axes, by the  *)
(* part of the tree's root that the box takes.                               *)
SplitAxis(b, root) ==
    CHOOSE i \in Axes :
        /\ \A j \in Axes : Width(b, j) * Width(root, i) <= Width(b, i) * Width(root, j)
        /\ \A j \in 1..(i - 1) : Width(b, j) * Width(root, i) < Width(b, i) * Width(root, j)

(* LectTree::split() refuses a box that cannot be halved in numbers. *)
Splittable(b, root) == Width(b, SplitAxis(b, root)) >= 2

(* LectTree::split() *)
LowerHalf(b, root) ==
    LET i == SplitAxis(b, root) IN [b EXCEPT !.upper[i] = Middle(b)[i]]
UpperHalf(b, root) ==
    LET i == SplitAxis(b, root) IN [b EXCEPT !.lower[i] = Middle(b)[i]]

-----------------------------------------------------------------------------
(* A segment is cut into as many parts as make every bound of a box that it  *)
(* can cross a whole number of parts.                                        *)
Parts(p, q) ==
    FoldSet(LAMBDA i, n : n * (IF p[i] = q[i] THEN 1 ELSE Abs(q[i] - p[i])), 1, Axes)

(* intersect_segment(): the parts of the segment that lie in the box, which   *)
(* on each axis are those between its entry and its exit.                     *)
PartsIn(p, q, b) ==
    LET n == Parts(p, q)
        rate(i) == n \div Abs(q[i] - p[i])
        entry(i) == (IF p[i] < q[i] THEN b.lower[i] - p[i] ELSE p[i] - b.upper[i]) * rate(i)
        exit(i) == (IF p[i] < q[i] THEN b.upper[i] - p[i] ELSE p[i] - b.lower[i]) * rate(i)
    IN {k \in 0..(n - 1) : \A i \in Axes :
            IF p[i] = q[i] THEN b.lower[i] <= p[i] /\ p[i] <= b.upper[i]
            ELSE entry(i) <= k /\ k + 1 <= exit(i)}

(* TrajectoryAuditor::audit() of one segment: no interval is left uncovered. *)
SegmentCovered(p, q, boxes) == UNION {PartsIn(p, q, b) : b \in boxes} = 0..(Parts(p, q) - 1)

Certified(trajectory, boxes) ==
    \A i \in 1..(Len(trajectory) - 1) : SegmentCovered(trajectory[i], trajectory[i + 1], boxes)
=============================================================================
