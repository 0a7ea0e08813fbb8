------------------------------ MODULE Occupancy -------------------------------
(***************************************************************************)
(* Continuous occupancy: what a robot sweeps along a timed trajectory         *)
(* (src/occupancy.cpp), what a moving obstacle sweeps                         *)
(* (src/moving_obstacle_occupancy.cpp), the analyses that compare two of      *)
(* them, and the bundles that keep both (src/occupancy_persistence.cpp).      *)
(*                                                                            *)
(* The workspace has two axes and frames turn by quarters; robots have one    *)
(* joint per axis.  Numbers are whole, and Rounded is what a double keeps of  *)
(* a result.  Distances are compared by their squares.                        *)
(***************************************************************************)
EXTENDS Boxes, SequencesExt

CONSTANTS
    Links,              \* of a robot
    LinkBox(_, _),      \* external: what a link takes over a box of configurations
    Rounded(_),         \* a number as a double
    LinkPadding,        \* options.link_padding
    WidthParts,         \* 1 / options.maximum_normalized_joint_width
    MaxDepth,           \* options.maximum_subdivision_depth
    MaxSlices,          \* options.maximum_slices
    ObstaclePadding     \* of a moving obstacle

(* endpoint_domain() *)
Domain(p, q) == [lower |-> [i \in Axes |-> MinOf(p[i], q[i])],
                 upper |-> [i \in Axes |-> MaxOf(p[i], q[i])]]

(* interpolate(): the configuration of segment s at a tick.  Each operation  *)
(* is rounded, and the end of a segment is one of the results.               *)
At(trajectory, s, tick) ==
    LET from == trajectory[s]
        to == trajectory[s + 1]
    IN [i \in Axes |-> Rounded(from.q[i] + Rounded((Rounded(to.q[i] - from.q[i]) * (tick - from.tick))
                                                        \div (to.tick - from.tick)))]

(* normalized_joint_width() is over the limit. *)
Wide(domain) == \E i \in Axes : Width(domain, i) * WidthParts > Width(Root, i)

-----------------------------------------------------------------------------
(* valid_rotation(): a quarter turn, as often as turns says. *)
Rotation(turns) ==
    CASE turns % 4 = 0 -> << <<1, 0>>, <<0, 1>> >>
      [] turns % 4 = 1 -> << <<0, -1>>, <<1, 0>> >>
      [] turns % 4 = 2 -> << <<-1, 0>>, <<0, -1>> >>
      [] OTHER -> << <<0, 1>>, <<-1, 0>> >>

Sum2(f) == f[1] + f[2]

Placed(b, turns, translation) ==
    LET R == Rotation(turns)
        low(i, j) == R[i][j] * (IF R[i][j] > 0 THEN b.lower[j] ELSE b.upper[j])
        high(i, j) == R[i][j] * (IF R[i][j] > 0 THEN b.upper[j] ELSE b.lower[j])
    IN [lower |-> [i \in Axes |-> translation[i] + Sum2([j \in Axes |-> low(i, j)])],
        upper |-> [i \in Axes |-> translation[i] + Sum2([j \in Axes |-> high(i, j)])]]

(* A bound on how far from the base a box reaches, in whole numbers. *)
Radius(b) ==
    LET squares == Sum2([i \in Axes |-> MaxOf(Abs(b.lower[i]), Abs(b.upper[i])) ^ 2])
    IN CHOOSE r \in 0..squares : r * r >= squares /\ \A s \in 0..(r - 1) : s * s < squares

(* Mutant of Transformed: the radius is that of the box once it was moved    *)
(* about its own center.                                                     *)
TransformedAboutCenter(b, frame) ==
    LET expansion == MinOf(frame.angle, 2) * MaxOf(Width(b, 1), Width(b, 2))
        placed == Placed(b, frame.turns, frame.translation)
    IN [lower |-> [i \in Axes |-> placed.lower[i] - frame.uncertainty[i] - expansion],
        upper |-> [i \in Axes |-> placed.upper[i] + frame.uncertainty[i] + expansion]]

(* transformed_envelopes(): an error of up to `angle` about the base moves a *)
(* point by a chord of at most min(angle, 2) times its distance from it.     *)
Transformed(b, frame) ==
    LET expansion == MinOf(frame.angle, 2) * Radius(b)
        placed == Placed(b, frame.turns, frame.translation)
    IN [lower |-> [i \in Axes |-> placed.lower[i] - frame.uncertainty[i] - expansion],
        upper |-> [i \in Axes |-> placed.upper[i] + frame.uncertainty[i] + expansion]]

Exact(frame) == frame.turns = 0 /\ frame.angle = 0 /\ frame.uncertainty = <<0, 0>>

-----------------------------------------------------------------------------
Slice(input, s, begin, end, domain) ==
    [segment |-> s, begin |-> begin, end |-> end, domain |-> domain,
     links |-> [k \in Links |-> Transformed(Inflate(LinkBox(k, domain), LinkPadding), input.frame)]]

(* The bisection of a segment in time; its ends are the waypoints. *)
RECURSIVE Subdivided(_, _, _, _, _, _, _)
Subdivided(input, s, begin, end, p, q, depth) ==
    IF Wide(Domain(p, q)) /\ depth < MaxDepth /\ end - begin > 1
    THEN LET middle == begin + (end - begin) \div 2
             between == At(input.trajectory, s, middle)
         IN Subdivided(input, s, begin, middle, p, between, depth + 1)
                \o Subdivided(input, s, middle, end, between, q, depth + 1)
    ELSE <<Slice(input, s, begin, end, Domain(p, q))>>

Slices(input) ==
    LET w == input.trajectory IN
    FlattenSeq([s \in 1..(Len(w) - 1) |->
                    Subdivided(input, s, w[s].tick, w[s + 1].tick, w[s].q, w[s + 1].q, 0)])

Increasing(w) == \A k \in 2..Len(w) : w[k - 1].tick < w[k].tick

(* What a builder asks of its input. *)
Acceptable(input) ==
    /\ Len(input.trajectory) >= 2
    /\ \A k \in DOMAIN input.trajectory : InBox(input.trajectory[k].q, Root)
    /\ Increasing(input.trajectory)
    /\ input.schema = 1 => Exact(input.frame)

(* RobotTrajectoryOccupancy::valid(): the slices tile the trajectory, and    *)
(* each one's domain is that of its ticks.                                   *)
OccupancyValid(o) ==
    LET w == o.input.trajectory IN
    /\ o.slices # <<>>
    /\ o.slices[1].begin = w[1].tick /\ o.slices[1].segment = 1
    /\ o.slices[Len(o.slices)].end = w[Len(w)].tick
    /\ \A k \in 2..Len(o.slices) :
            LET before == o.slices[k - 1] IN
            /\ o.slices[k].begin = before.end
            /\ o.slices[k].segment =
                    before.segment + (IF before.end = w[before.segment + 1].tick THEN 1 ELSE 0)
    /\ \A k \in DOMAIN o.slices :
            LET s == o.slices[k].segment IN
            o.slices[k].domain = Domain(At(w, s, o.slices[k].begin), At(w, s, o.slices[k].end))

(* build_robot_trajectory_occupancy(), .._in_frame() *)
Build(input) ==
    LET occupancy == [input |-> input, slices |-> Slices(input)] IN
    CASE ~Acceptable(input) -> [status |-> "InvalidArgument"]
      [] Len(occupancy.slices) > MaxSlices -> [status |-> "ResourceLimit"]
      [] ~OccupancyValid(occupancy) -> [status |-> "InternalError"]
      [] OTHER -> [status |-> "Success", occupancy |-> occupancy]

(* verify_robot_trajectory_occupancy(): the build is repeated. *)
Verified(o) == OccupancyValid(o) /\ Build(o.input) = [status |-> "Success", occupancy |-> o]

(* swept_bounds() *)
SweptBounds(a, b) == Inflate(Hull(a, b), ObstaclePadding)

(* MovingObstacleOccupancy::valid(): one slice for each segment. *)
ObstacleValid(o) ==
    LET w == o.input.trajectory IN
    /\ Len(w) >= 2 /\ Increasing(w)
    /\ Len(o.slices) = Len(w) - 1
    /\ \A s \in DOMAIN o.slices : /\ o.slices[s].begin = w[s].tick /\ o.slices[s].end = w[s + 1].tick
                                  /\ o.slices[s].links = <<SweptBounds(w[s].bounds, w[s + 1].bounds)>>

(* build_moving_obstacle_occupancy(): an obstacle has no links; its bounds   *)
(* take their place.                                                         *)
BuildObstacle(input) ==
    LET w == input.trajectory
        occupancy == [input |-> input,
                      slices |-> [s \in 1..(Len(w) - 1) |->
                        [segment |-> s, begin |-> w[s].tick, end |-> w[s + 1].tick,
                         links |-> <<SweptBounds(w[s].bounds, w[s + 1].bounds)>>]]]
    IN CASE Len(w) < 2 \/ ~Increasing(w) -> [status |-> "InvalidArgument"]
         [] Len(w) - 1 > MaxSlices -> [status |-> "ResourceLimit"]
         [] ~ObstacleValid(occupancy) -> [status |-> "InternalError"]
         [] OTHER -> [status |-> "Success", occupancy |-> occupancy]

(* verify_moving_obstacle_occupancy() *)
ObstacleVerified(o) == ObstacleValid(o) /\ BuildObstacle(o.input) = [status |-> "Success", occupancy |-> o]

-----------------------------------------------------------------------------
(* WorkspaceAabb::distance_lower_bound(), squared; overlaps().  The code     *)
(* lowers a distance by a guard against rounding, by which it only reports   *)
(* more conflicts.                                                           *)
Gap(a, b, i) == Max({0, a.lower[i] - b.upper[i], b.lower[i] - a.upper[i]})
Distance2(a, b) == Sum2([i \in Axes |-> Gap(a, b, i) ^ 2])
TooNear(a, b, margin) == Overlap(a, b, 0) \/ Distance2(a, b) < margin * margin

(* The steps of the sweep over two sequences of slices: the one that ends    *)
(* first is left behind, both if they end together.                          *)
RECURSIVE Sweep(_, _, _, _)
Sweep(a, b, j, k) ==
    IF j > Len(a) \/ k > Len(b) THEN <<>>
    ELSE <<[first |-> j, second |-> k]>>
            \o Sweep(a, b, IF a[j].end <= b[k].end THEN j + 1 ELSE j,
                           IF b[k].end <= a[j].end THEN k + 1 ELSE k)

SharesTime(x, y) == MaxOf(x.begin, y.begin) < MinOf(x.end, y.end)

LinkPairs(x, y) == (DOMAIN x.links) \X (DOMAIN y.links)

(* What is reported of two slices: the nearest two links, or two that        *)
(* overlap if there are any.                                                 *)
Conflict(a, b, x, y) ==
    LET overlapping == {l \in LinkPairs(x, y) : Overlap(x.links[l[1]], y.links[l[2]], 0)}
        distance(l) == Distance2(x.links[l[1]], y.links[l[2]])
        nearest == {l \in LinkPairs(x, y) : \A m \in LinkPairs(x, y) : distance(l) <= distance(m)}
    IN [occupancies |-> <<a.input, b.input>>, begin |-> MaxOf(x.begin, y.begin), end |-> MinOf(x.end, y.end),
        slices |-> <<x, y>>,
        links |-> CHOOSE l \in (IF overlapping # {} THEN overlapping ELSE nearest) : TRUE,
        reason |-> IF overlapping # {} THEN "SweptEnvelopeOverlap" ELSE "SeparationMarginViolated",
        clearance2 |-> IF overlapping # {} THEN 0 ELSE Min({distance(l) : l \in nearest})]

(* One pair of occupancies: the conflicts, and the work that found them. *)
Compared(a, b, margin) ==
    LET steps == Sweep(a.slices, b.slices, 1, 1)
        at(step) == <<a.slices[step.first], b.slices[step.second]>>
        shared == SelectSeq(steps, LAMBDA step : SharesTime(at(step)[1], at(step)[2]))
        near(step) == \E l \in LinkPairs(at(step)[1], at(step)[2]) :
                        TooNear(at(step)[1].links[l[1]], at(step)[2].links[l[2]], margin)
    IN [conflicts |-> {Conflict(a, b, at(step)[1], at(step)[2]) :
                            step \in {t \in Range(shared) : near(t)}},
        slicePairs |-> Len(steps),
        linkPairs |-> FoldSeq(LAMBDA step, n : n + Cardinality(LinkPairs(at(step)[1], at(step)[2])), 0, shared)]

(* valid_conflict() *)
ValidConflict(c, margin) ==
    /\ c.begin < c.end
    /\ \/ c.reason = "SweptEnvelopeOverlap" /\ c.clearance2 = 0
       \/ c.reason = "SeparationMarginViolated" /\ c.clearance2 < margin * margin

(* ContinuousFleetOccupancyReport::valid() *)
ReportValid(r, inputs) ==
    /\ (r.status = "CertifiedSeparatedUnderSweptEnvelopes") <=> (r.conflicts = {})
    /\ Cardinality(r.conflicts) <= r.slicePairs /\ Cardinality(r.conflicts) <= r.linkPairs
    /\ \A c \in r.conflicts : ValidConflict(c, r.margin) /\ Range(c.occupancies) \subseteq inputs

(* The report over pairs of occupancies, or the budget that ran out. *)
Report(pairs, margin, limits) ==
    LET found == [p \in pairs |-> Compared(p[1], p[2], margin)]
        total(F(_)) == FoldSet(LAMBDA p, n : n + F(found[p]), 0, pairs)
        conflicts == UNION {found[p].conflicts : p \in pairs}
        report == [status |-> IF conflicts = {} THEN "CertifiedSeparatedUnderSweptEnvelopes"
                                                ELSE "PotentialConflict",
                   margin |-> margin, conflicts |-> conflicts,
                   slicePairs |-> total(LAMBDA c : c.slicePairs), linkPairs |-> total(LAMBDA c : c.linkPairs)]
    IN CASE \/ Cardinality(conflicts) > limits.conflicts
            \/ report.slicePairs > limits.slicePairs
            \/ report.linkPairs > limits.linkPairs -> [status |-> "ResourceLimit"]
         [] ~ReportValid(report, UNION {{p[1].input, p[2].input} : p \in pairs}) -> [status |-> "InternalError"]
         [] OTHER -> report

OneWorkspace(all) == \A x, y \in all : x.input.workspace = y.input.workspace
Begin(o) == o.input.trajectory[1].tick
End(o) == o.input.trajectory[Len(o.input.trajectory)].tick
OneWindow(all) == \A x, y \in all : Begin(x) = Begin(y) /\ End(x) = End(y)
NamesAreUnique(all) == \A x, y \in all : x # y => x.input.name # y.input.name

(* analyze_continuous_fleet_occupancy() *)
FleetReport(robots, margin, limits) ==
    CASE Cardinality(robots) < 2 -> [status |-> "InvalidArgument"]
      [] Cardinality(robots) > limits.robots -> [status |-> "ResourceLimit"]
      [] \E o \in robots : ~OccupancyValid(o) -> [status |-> "IdentityMismatch"]
      [] ~OneWorkspace(robots) -> [status |-> "IdentityMismatch"]
      [] ~NamesAreUnique(robots) -> [status |-> "InvalidArgument"]
      [] OTHER -> LET ordered == SetToSeq(robots)
                      pairs == {<<ordered[j], ordered[k]>> : j, k \in DOMAIN ordered}
                  IN Report({p \in pairs : \E j, k \in DOMAIN ordered :
                                j < k /\ p = <<ordered[j], ordered[k]>>}, margin, limits)

(* Every obstacle is known throughout the window of the robots. *)
OneScene(all) == OneWorkspace(all) /\ OneWindow(all)
SceneComparable(robots, obstacles) ==
    OneScene(robots \cup obstacles) /\ NamesAreUnique(robots) /\ NamesAreUnique(obstacles)

(* analyze_continuous_robot_scene_occupancy(); of a name given twice and a   *)
(* window of its own among the robots, or among the obstacles, the code       *)
(* reports whichever comes first in the order of the names.                  *)
SceneReport(robots, obstacles, margin, limits) ==
    CASE robots = {} \/ obstacles = {} -> [status |-> "InvalidArgument"]
      [] Cardinality(robots) > limits.robots \/ Cardinality(obstacles) > limits.obstacles ->
            [status |-> "ResourceLimit"]
      [] \E o \in robots : ~OccupancyValid(o) -> [status |-> "IdentityMismatch"]
      [] \E o \in obstacles : ~ObstacleValid(o) -> [status |-> "IdentityMismatch"]
      [] ~OneScene(robots) -> [status |-> "IdentityMismatch"]
      [] ~NamesAreUnique(robots) -> [status |-> "InvalidArgument"]
      [] ~OneScene(robots \cup obstacles) -> [status |-> "IdentityMismatch"]
      [] ~NamesAreUnique(obstacles) -> [status |-> "InvalidArgument"]
      [] OTHER -> Report(robots \X obstacles, margin, limits)

-----------------------------------------------------------------------------
CertifiedApart(report) == report.status = "CertifiedSeparatedUnderSweptEnvelopes"
Succeeded(report) == CertifiedApart(report) \/ report.status = "PotentialConflict"

Total(F(_), all) == FoldSet(LAMBDA o, n : n + F(o), 0, all)
LinkCount(robots) == Total(LAMBDA o : Len(o.slices) * Cardinality(Links), robots)
Waypoints(all) == Total(LAMBDA o : Len(o.input.trajectory), all)
SliceCount(all) == Total(LAMBDA o : Len(o.slices), all)

(* ContinuousFleetOccupancyBundle::create(), .._RobotScene..::create() *)
FleetBundle(robots, margin, limits) ==
    [robots |-> robots, report |-> FleetReport(robots, margin, limits)]
SceneBundle(robots, obstacles, margin, limits) ==
    [robots |-> robots, obstacles |-> obstacles, report |-> SceneReport(robots, obstacles, margin, limits)]

(* ContinuousFleetOccupancyBundle::valid() *)
FleetBundleValid(b) ==
    /\ Cardinality(b.robots) >= 2 /\ Succeeded(b.report)
    /\ ReportValid(b.report, {o.input : o \in b.robots})
    /\ \A o \in b.robots : OccupancyValid(o)
    /\ OneWorkspace(b.robots) /\ NamesAreUnique(b.robots)

(* ContinuousRobotSceneOccupancyReport::valid(): no conflict is outside the  *)
(* window.                                                                   *)
SceneReportValid(r, robots, obstacles) ==
    /\ ReportValid(r, {o.input : o \in robots \cup obstacles})
    /\ \A c \in r.conflicts, o \in robots : Begin(o) <= c.begin /\ c.end <= End(o)

(* ContinuousRobotSceneOccupancyBundle::valid() *)
SceneBundleValid(b) ==
    /\ b.robots # {} /\ b.obstacles # {} /\ Succeeded(b.report)
    /\ SceneReportValid(b.report, b.robots, b.obstacles)
    /\ \A o \in b.robots : OccupancyValid(o)
    /\ \A o \in b.obstacles : ObstacleValid(o)
    /\ SceneComparable(b.robots, b.obstacles)

(* save_continuous_fleet_occupancy_bundle(): the limits under which the      *)
(* staged file must load.                                                    *)
FleetStaging(b) ==
    [robots |-> Cardinality(b.robots),
     waypoints |-> 1 + Waypoints(b.robots), slices |-> 1 + SliceCount(b.robots), links |-> 1 + LinkCount(b.robots),
     conflicts |-> MaxOf(1, Cardinality(b.report.conflicts)),
     slicePairs |-> MaxOf(1, b.report.slicePairs), linkPairs |-> MaxOf(1, b.report.linkPairs)]

(* save_continuous_robot_scene_occupancy_bundle() *)
SceneStaging(b) ==
    [robots |-> Cardinality(b.robots), obstacles |-> Cardinality(b.obstacles),
     waypoints |-> 1 + Waypoints(b.robots), slices |-> 1 + SliceCount(b.robots), links |-> 1 + LinkCount(b.robots),
     obstacleWaypoints |-> 1 + Waypoints(b.obstacles), obstacleSlices |-> 1 + SliceCount(b.obstacles),
     conflicts |-> MaxOf(1, Cardinality(b.report.conflicts)),
     slicePairs |-> MaxOf(1, b.report.slicePairs), linkPairs |-> MaxOf(1, b.report.linkPairs)]

(* decode_slice(): the envelopes of all slices of all robots are counted. *)
SlicesDecode(robots, limits) ==
    /\ LinkCount(robots) <= limits.links
    /\ \A o \in robots : \A x, y \in Range(o.slices) : DOMAIN x.links = DOMAIN y.links

(* decode_occupancy(): the counts add up over the robots. *)
RobotsDecode(robots, limits) ==
    /\ Cardinality(robots) <= limits.robots
    /\ Waypoints(robots) <= limits.waypoints /\ SliceCount(robots) <= limits.slices
    /\ SlicesDecode(robots, limits)
    /\ \A o \in robots : OccupancyValid(o)

(* decode_moving_obstacle_occupancy() *)
ObstaclesDecode(obstacles, limits) ==
    /\ Cardinality(obstacles) <= limits.obstacles
    /\ Waypoints(obstacles) <= limits.obstacleWaypoints /\ SliceCount(obstacles) <= limits.obstacleSlices
    /\ \A o \in obstacles : ObstacleValid(o)

(* decode_report() *)
ReportDecodes(report, limits) ==
    /\ report.slicePairs <= limits.slicePairs /\ report.linkPairs <= limits.linkPairs
    /\ Cardinality(report.conflicts) <= limits.conflicts

(* decode_robot_scene_report() *)
SceneReportDecodes(report, robots, obstacles, limits) ==
    ReportDecodes(report, limits) /\ SceneReportValid(report, robots, obstacles)

(* load_continuous_fleet_occupancy_bundle(): the analysis is repeated under  *)
(* the margin of the report.                                                 *)
FleetLoads(b, limits) ==
    /\ RobotsDecode(b.robots, limits) /\ ReportDecodes(b.report, limits)
    /\ b.report = FleetReport(b.robots, b.report.margin, limits)
    /\ FleetBundleValid(b)

(* load_continuous_robot_scene_occupancy_bundle() *)
SceneLoads(b, limits) ==
    /\ RobotsDecode(b.robots, limits) /\ ObstaclesDecode(b.obstacles, limits)
    /\ SceneReportDecodes(b.report, b.robots, b.obstacles, limits)
    /\ b.report = SceneReport(b.robots, b.obstacles, b.report.margin, limits)
    /\ SceneBundleValid(b)

-----------------------------------------------------------------------------
(* The truth: times are half ticks, and the base may be off by any offset    *)
(* and any quarter turns that the frame allows.                              *)
Positions(p, q, n, d) == [i \in Axes |-> p[i] + ((q[i] - p[i]) * n) \div d]
SegmentAt(w, t) == CHOOSE s \in 1..(Len(w) - 1) : 2 * w[s].tick <= t /\ t <= 2 * w[s + 1].tick
Fraction(w, t) == LET s == SegmentAt(w, t) IN <<t - 2 * w[s].tick, 2 * (w[s + 1].tick - w[s].tick)>>
Configuration(w, t) ==
    LET s == SegmentAt(w, t) IN Positions(w[s].q, w[s + 1].q, Fraction(w, t)[1], Fraction(w, t)[2])
Bounds(w, t) ==
    LET a == w[SegmentAt(w, t)].bounds
        b == w[SegmentAt(w, t) + 1].bounds
        at == Fraction(w, t)
    IN [lower |-> Positions(a.lower, b.lower, at[1], at[2]), upper |-> Positions(a.upper, b.upper, at[1], at[2])]

Turns(angle) == CASE angle = 0 -> {0} [] angle = 2 -> {-1, 0, 1} [] OTHER -> 0..3
Offsets(frame) == {-frame.uncertainty[1], frame.uncertainty[1]} \X {-frame.uncertainty[2], frame.uncertainty[2]}

(* Where a link may be at a time. *)
TrueLinks(input, k, t) ==
    LET q == Configuration(input.trajectory, t)
        link == LinkBox(k, [lower |-> q, upper |-> q])
    IN {Placed(link, input.frame.turns + e, [i \in Axes |-> input.frame.translation[i] + offset[i]]) :
            e \in Turns(input.frame.angle), offset \in Offsets(input.frame)}

HalfTicks(o) == (2 * Begin(o))..(2 * End(o))

(* build(): what the slices enclose is the robot, wherever it may be.        *)
EnvelopesEnclose(input) ==
    LET built == Build(input) IN
    built.status = "Success" =>
        \A t \in HalfTicks(built.occupancy), k \in Links :
            \A x \in {y \in Range(built.occupancy.slices) : 2 * y.begin <= t /\ t <= 2 * y.end} :
                \A truth \in TrueLinks(input, k, t) : ContainsBox(x.links[k], truth)

(* build(): an input that is accepted and within the limits is built.        *)
BuildsAreValid(input) ==
    Acceptable(input) => Build(input).status \in {"Success", "ResourceLimit"}

(* analyze(): the sweep misses no two slices that share time and are too     *)
(* near, and links that are certified apart are.                             *)
SeparationIsReal(robots, margin, limits) ==
    LET report == FleetReport(robots, margin, limits) IN
    Succeeded(report) =>
        \A a, b \in robots : a # b =>
            /\ \A x \in Range(a.slices), y \in Range(b.slices) :
                    (/\ SharesTime(x, y)
                     /\ \E l \in LinkPairs(x, y) : TooNear(x.links[l[1]], y.links[l[2]], margin))
                    <=> \E c \in report.conflicts : c.slices \in {<<x, y>>, <<y, x>>}
            /\ (CertifiedApart(report) /\ Begin(a) < End(b) /\ Begin(b) < End(a)) =>
                    \A t \in HalfTicks(a) \cap HalfTicks(b), k, l \in Links :
                        \A p \in TrueLinks(a.input, k, t), q \in TrueLinks(b.input, l, t) :
                            ~TooNear(p, q, margin)

(* analyze_continuous_robot_scene_occupancy(): a certified robot keeps its   *)
(* distance throughout its own window.                                       *)
SceneIsReal(robots, obstacles, margin, limits) ==
    CertifiedApart(SceneReport(robots, obstacles, margin, limits)) =>
        \A a \in robots, o \in obstacles, k \in Links : \A t \in HalfTicks(a) :
            /\ t \in HalfTicks(o)
            /\ \A p \in TrueLinks(a.input, k, t) : ~TooNear(p, Bounds(o.input.trajectory, t), margin)

(* create(), save(): an analysis of valid occupancies ends in a report or a  *)
(* refusal, and the bundle of a report is accepted when it is staged.        *)
BundlesLoad(robots, obstacles, margin, limits) ==
    LET fleet == FleetBundle(robots, margin, limits)
        scenes == {SceneBundle({o}, {x}, margin, limits) : o \in robots, x \in obstacles}
    IN /\ fleet.report.status # "InternalError"
       /\ Succeeded(fleet.report) => FleetLoads(fleet, FleetStaging(fleet))
       /\ \A b \in scenes : /\ b.report.status # "InternalError"
                             /\ Succeeded(b.report) => SceneLoads(b, SceneStaging(b))
       /\ \A o \in robots : Verified(o)
       /\ \A x \in obstacles : ObstacleVerified(x)
=============================================================================
