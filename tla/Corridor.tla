------------------------------- MODULE Corridor -------------------------------
(***************************************************************************)
(* HipacCorridorBuilder (src/corridor.cpp): the chain of certified cells      *)
(* along a path, the portals between consecutive ones, the components, the    *)
(* routes that are answered from them, and what a saved corridor must be      *)
(* (src/corridor_persistence.cpp).                                            *)
(*                                                                            *)
(* Paths run parallel to the axes, where a tube is a box with a direction.    *)
(* A segment is measured in Fractions; its length is a multiple of them.      *)
(***************************************************************************)
EXTENDS Boxes, SequencesExt

CONSTANTS
    Envelope(_, _),         \* external: the validator's interval arithmetic
    Padding,                \* options.obstacle_padding
    MinimumHalfWidth,       \* options.minimum_lateral_half_width
    MaximumHalfWidth,       \* options.maximum_lateral_half_width
    Margin,                 \* options.longitudinal_margin
    GrowthIterations,       \* options.growth_iterations
    MaxSubdivision,         \* options.maximum_subdivision_depth
    PortalTolerance         \* options.portal_tolerance

Fractions == 2 ^ MaxSubdivision

(* interpolate() *)
At(path, s, k) ==
    [i \in Axes |-> path[s][i] + ((path[s + 1][i] - path[s][i]) * k) \div Fractions]

(* The first row of a tube's basis, from which the others follow: the         *)
(* direction of the segment, the first axis for a point.                     *)
Heading(entry, exit) ==
    [i \in Axes |-> CASE exit[i] > entry[i] \/ (entry = exit /\ i = 1) -> 1
                      [] exit[i] < entry[i] -> -1
                      [] OTHER -> 0]

(* ObbGenerator::segment_tube(): the margin goes along the first row.        *)
Tube(entry, exit, lateral) ==
    LET heading == Heading(entry, exit)
        reach(i) == CASE entry = exit -> lateral + (IF i = 1 THEN Margin ELSE 0)
                      [] heading[i] # 0 -> Margin
                      [] OTHER -> lateral
    IN [lower |-> [i \in Axes |-> MinOf(entry[i], exit[i]) - reach(i)],
        upper |-> [i \in Axes |-> MaxOf(entry[i], exit[i]) + reach(i)],
        heading |-> heading]

(* ObbRegionValidator::validate() certifies the box; a scene is the set of   *)
(* configurations in collision.                                              *)
CertifiedObb(b, scene) == \A o \in scene : ~InBox(o, Envelope(b, Padding))

(* ObbGrower::grow(), cover(): bisection of the half width. *)
RECURSIVE Refine(_, _, _, _, _, _)
Refine(entry, exit, scene, lower, upper, iterations) ==
    LET middle == (lower + upper) \div 2 IN
    IF iterations = 0 THEN lower
    ELSE IF CertifiedObb(Tube(entry, exit, middle), scene)
    THEN Refine(entry, exit, scene, middle, upper, iterations - 1)
    ELSE Refine(entry, exit, scene, lower, middle, iterations - 1)

(* The half width of a tube whose smallest form is certified. *)
Grown(entry, exit, scene) ==
    IF CertifiedObb(Tube(entry, exit, MaximumHalfWidth), scene) THEN MaximumHalfWidth
    ELSE Refine(entry, exit, scene, MinimumHalfWidth, MaximumHalfWidth, GrowthIterations)

-----------------------------------------------------------------------------
Uncovered(s, from, to) == [covered |-> FALSE, segment |-> s, from |-> from, to |-> to]

Cell(path, scene, s, from, to) ==
    LET entry == At(path, s, from)
        exit == At(path, s, to)
    IN [covered |-> TRUE, segment |-> s, from |-> from, to |-> to, entry |-> entry, exit |-> exit,
        box |-> Tube(entry, exit, Grown(entry, exit, scene))]

(* cover(): the pieces of a segment, in the order they are found. *)
RECURSIVE Cover(_, _, _, _, _, _)
Cover(path, scene, s, from, to, depth) ==
    IF CertifiedObb(Tube(At(path, s, from), At(path, s, to), MinimumHalfWidth), scene)
    THEN <<Cell(path, scene, s, from, to)>>
    ELSE IF depth < MaxSubdivision /\ path[s] # path[s + 1]
    THEN LET middle == (from + to) \div 2 IN
         Cover(path, scene, s, from, middle, depth + 1) \o Cover(path, scene, s, middle, to, depth + 1)
    ELSE <<Uncovered(s, from, to)>>

Pieces(path, scene) ==
    FlattenSeq([s \in 1..(Len(path) - 1) |-> Cover(path, scene, s, 0, Fractions, 0)])

(* merge_uncovered(): the open intervals of each segment. *)
RECURSIVE Merged(_)
Merged(intervals) ==
    IF Len(intervals) <= 1 THEN intervals
    ELSE LET rest == Merged(Tail(intervals)) IN
         IF rest[1].segment = intervals[1].segment /\ rest[1].from <= intervals[1].to
         THEN <<Uncovered(rest[1].segment, intervals[1].from, rest[1].to)>> \o Tail(rest)
         ELSE <<intervals[1]>> \o rest

(* same_configuration() *)
SameConfiguration(p, q) == \A i \in Axes : Abs(p[i] - q[i]) <= PortalTolerance

(* Mutant of Linked: cells that overlap are linked at the first one's exit. *)
LinkedByOverlap(left, right) == Overlap(left.box, right.box, PortalTolerance)

(* The portal between two consecutive cells; its witness is the exit. *)
Linked(left, right) ==
    /\ SameConfiguration(left.exit, right.entry)
    /\ InBox(left.exit, Inflate(left.box, PortalTolerance))
    /\ InBox(left.exit, Inflate(right.box, PortalTolerance))

(* HipacCorridorBuilder::build(). Portal k is between the cells k and k + 1, *)
(* so that a component is an interval of cells.                              *)
Built(path, scene) ==
    LET pieces == Pieces(path, scene)
        cells == SelectSeq(pieces, LAMBDA x : x.covered)
        open == Merged(SelectSeq(pieces, LAMBDA x : ~x.covered))
        portals == {k \in 1..(Len(cells) - 1) : Linked(cells[k], cells[k + 1])}
    IN [cells |-> cells, portals |-> portals, uncovered |-> open,
        component |-> [k \in DOMAIN cells |-> 1 + Cardinality((1..(k - 1)) \ portals)],
        status |-> IF cells = <<>> THEN "Invalid" ELSE IF open = <<>> THEN "Certified" ELSE "Partial"]

-----------------------------------------------------------------------------
(* regions_at() *)
CellsAt(corridor, p) == {k \in DOMAIN corridor.cells : InBox(p, corridor.cells[k].box)}

(* route(): the search takes a shortest chain from a cell of the one to a    *)
(* cell of the other configuration; which of several depends on their ids.   *)
Routes(corridor, p, q) ==
    LET pairs == {r \in CellsAt(corridor, p) \X CellsAt(corridor, q) :
                    corridor.component[r[1]] = corridor.component[r[2]]}
        hops(r) == Abs(r[1] - r[2])
        shortest == {r \in pairs : \A other \in pairs : hops(r) <= hops(other)}
        regions(r) == IF r[1] <= r[2] THEN [k \in 1..(hops(r) + 1) |-> r[1] + k - 1]
                                      ELSE [k \in 1..(hops(r) + 1) |-> r[1] - k + 1]
        witness(j, k) == corridor.cells[MinOf(j, k)].exit
    IN {[regions |-> regions(r),
         waypoints |-> <<p>> \o [k \in 1..hops(r) |-> witness(regions(r)[k], regions(r)[k + 1])] \o <<q>>] :
            r \in shortest}

(* validate_corridor(): what save() and load() accept. *)
ValidCorridor(corridor) ==
    LET cells == corridor.cells IN
    /\ \A k \in DOMAIN cells : InBox(cells[k].entry, cells[k].box) /\ InBox(cells[k].exit, cells[k].box)
    /\ \A k \in 2..Len(cells) :
            \/ cells[k - 1].segment < cells[k].segment
            \/ cells[k - 1].segment = cells[k].segment /\ cells[k - 1].to <= cells[k].from
    /\ \A k \in corridor.portals :
            InBox(cells[k].exit, cells[k].box) /\ InBox(cells[k].exit, cells[k + 1].box)
    /\ \A k \in 1..(Len(cells) - 1) :
            (k \in corridor.portals) <=> corridor.component[k] = corridor.component[k + 1]

-----------------------------------------------------------------------------
(* build(): the cells and the uncovered intervals are the path, each part of *)
(* every segment once; a corridor that is certified is of one piece; and     *)
(* every cell is free of collisions.                                         *)
CorridorIsExact(corridor, path, scene) ==
    LET parts(x) == {<<x.segment, k>> : k \in x.from..(x.to - 1)}
        all == corridor.cells \o corridor.uncovered
    IN /\ UNION {parts(all[k]) : k \in DOMAIN all} = (1..(Len(path) - 1)) \X (0..(Fractions - 1))
       /\ \A j, k \in DOMAIN all : j # k => parts(all[j]) \cap parts(all[k]) = {}
       /\ \A k \in DOMAIN corridor.cells, o \in scene : ~InBox(o, corridor.cells[k].box)
       /\ corridor.status = "Certified" => Routes(corridor, path[1], path[Len(path)]) # {}

(* route(): every segment of a route lies within one of its cells.           *)
RoutesStayInCells(corridor, points) ==
    \A p, q \in points : \A route \in Routes(corridor, p, q) :
        \A k \in DOMAIN route.regions :
            LET cell == corridor.cells[route.regions[k]] IN
            InBox(route.waypoints[k], cell.box) /\ InBox(route.waypoints[k + 1], cell.box)

(* save_corridor_directory(): what build() made can be saved.                *)
CorridorIsSavable(corridor) == ValidCorridor(corridor)
=============================================================================
