------------------------------- MODULE MCAtlas --------------------------------
(* Atlases and what rests on them, in one run of which a part is chosen at    *)
(* the start.                                                                 *)
(*                                                                            *)
(* Updates: two obstacles that are points of an 8 by 4 joint domain or absent,  *)
(* one of them in the middle of it; large boxes have loose envelopes.         *)
(* Shield, gate: two Atlases of the same scene of three boxes each, of which  *)
(* the first is connected and the second within the tolerance only; six       *)
(* proposals that differ in one respect or more.                              *)
EXTENDS PolicyGate, Planning, TLC

CONSTANTS
    o1, o2,
    Rounded(_)          \* a number as the occupancy builder's arithmetic keeps it

VARIABLES part, looked, built, task, first, steady, nodes, sample,
          destination, aside, saving, older, step, reading, loaded

Box(a, b, c, d) == [lower |-> <<a, b>>, upper |-> <<c, d>>]
MCRoot == Box(0, 0, 8, 4)
Connected3 == <<Box(0, 0, 2, 4), Box(2, 2, 6, 4), Box(6, 0, 8, 4)>>
Apart3 == <<Box(0, 0, 2, 4), Box(3, 0, 6, 2), Box(6, 0, 8, 4)>>
MCAtlases == {Connected3, Apart3}
MCStarts == {<<1, 1>>, <<7, 1>>, <<4, 1>>}
MCRequests == {<<p>> : p \in {<<1, 3>>, <<7, 3>>, <<4, 3>>}} \cup {<< <<4, 3>>, <<7, 1>> >>}

Proposal(request, confidence, uncertainty, late) ==
    [request |-> request, confidence |-> confidence, uncertainty |-> uncertainty, late |-> late]
MCProposals ==
    {Proposal(<< <<1, 3>> >>, 1, 1, FALSE), Proposal(<< <<7, 3>> >>, 2, 1, FALSE),
     Proposal(<< <<4, 3>> >>, 2, 0, FALSE), Proposal(<< <<4, 3>> >>, 0, 0, FALSE),
     Proposal(<< <<4, 1>>, <<7, 1>> >>, 2, 1, TRUE), Proposal(<< <<7, 0>> >>, 2, 2, FALSE)}

(* One bin or two, of every shape; in the profiles that pass the second bin   *)
(* claims more than its outcomes support.                                    *)
Bin(lower, upper, mean, samples, successes) ==
    [lower |-> lower, upper |-> upper, mean |-> mean, samples |-> samples, successes |-> successes]
MCBins == {Bin(a, b, x, n, y) : a \in 0..2, b \in 0..2, x \in 0..2, n \in {0, 4, 8}, y \in {3, 7}}
MCProfileInputs == {<<>>} \cup {<<c>> : c \in MCBins} \cup {<<c, d>> : c, d \in MCBins}
Cautious(successes, samples) == (2 * successes) \div (samples + 2)

Point(x, y) == Box(x, y, x, y)
Loosely(b, padding) == Inflate(b, IF Width(b, 1) >= 4 THEN padding + 1 ELSE padding)
Updates == INSTANCE SafeAtlas WITH
    atlas <- built, Obstacles <- {o1, o2}, Shapes <- {Point(1, 1), Point(5, 3)}, Paddings <- {0, 1},
    Envelope <- Loosely, Tolerance <- 0, MaxDepth <- 3,
    SampleSets <- {{<<1, 3>>, <<5, 1>>, <<7, 3>>}}, MaxUpdates <- 2
updateVars == <<built, task, first, steady>>

(* What the proofs about Atlases take the validator for (EnvelopesEnclose,   *)
(* EnvelopesGrow in VersionStoreProofs), of boxes of the domain.             *)
DomainBoxes == {Box(a, b, c, d) : a, c \in 0..8, b, d \in 0..1}
ASSUME LooselyEncloses ==
    \A p, q \in {b \in DomainBoxes : \A i \in Axes : b.lower[i] <= b.upper[i]}, padding \in {0, 1} :
        /\ ContainsBox(Loosely(p, padding), Inflate(p, padding))
        /\ ContainsBox(p, q) => ContainsBox(Loosely(p, padding), Loosely(q, padding))

Trees == INSTANCE BoxTrees WITH MinimumWidth <- <<1, 8>>, MaxNodes <- 9, LeafCapacity <- 1

(* Up to four regions: nested, touching, apart, of one center or of one side. *)
SampleBoxes == {Box(0, 0, 2, 2), Box(2, 0, 4, 2), Box(0, 0, 4, 4), Box(3, 1, 3, 3), Box(1, 1, 5, 3)}
Samples == UNION {[1..n -> SampleBoxes] : n \in 1..4}
SamplePoints == (-1..6) \X (0..3)

(* Paths along the sides of a square with up to two configurations in         *)
(* collision on or near them; a quarter of a side is the shortest cell.       *)
Database == INSTANCE RegionDatabase WITH
    Envelope <- Loosely, Padding <- 0, MinimumHalfWidth <- 0, MaximumHalfWidth <- 4, Margin <- 0,
    GrowthIterations <- 1, PortalTolerance <- 0, MaxSubdivision <- 2, BridgeMargin <- 2, BridgeNeighbours <- 1
Corners == {<<0, 0>>, <<8, 0>>, <<8, 8>>, <<0, 8>>}
Parallel(p, q) == p[1] = q[1] \/ p[2] = q[2]
Paths == {w \in UNION {[1..n -> Corners] : n \in 2..4} :
            w[1] = <<0, 0>> /\ \A i \in 1..(Len(w) - 1) : Parallel(w[i], w[i + 1])}
Hits == {<<3, 0>>, <<1, 0>>, <<3, 3>>, <<8, 1>>, <<9, 5>>, <<6, 7>>, <<0, 5>>, <<0, 0>>}
PathSamples == [path : Paths, scene : UNION {kSubset(n, Hits) : n \in 0..2}]
PathPoints == {<<0, 0>>, <<2, 0>>, <<4, 0>>, <<8, 4>>, <<8, 8>>, <<2, 8>>, <<0, 2>>, <<0, 8>>, <<4, 4>>}
PathDomain == {<<2 * i, 2 * j>> : i, j \in -2..6}

(* Two robots on rails, of which the second stands across the end of the     *)
(* first, and a box that passes by; a joint moves by 8 in at most 4 ticks.   *)
RailBox(link, d) ==
    IF link = 1 THEN Box(d.lower[1], -1, d.upper[1], 0)
    ELSE Box(d.lower[1], d.lower[2], d.upper[1] + 1, d.upper[2] + 1)
Swept == INSTANCE Occupancy WITH
    Root <- Box(0, 0, 8, 8), Links <- {1, 2}, LinkBox <- RailBox, LinkPadding <- 0, WidthParts <- 2,
    MaxDepth <- 2, MaxSlices <- 4, ObstaclePadding <- 1
Timed(tick, q) == [tick |-> tick, q |-> q]
Moves == {<<Timed(0, <<0, 0>>), Timed(4, <<8, 0>>)>>,
          <<Timed(0, <<0, 8>>), Timed(2, <<8, 8>>), Timed(4, <<0, 0>>)>>,
          <<Timed(0, <<1, 0>>), Timed(4, <<6, 0>>)>>}
OtherMoves == {<<Timed(0, <<8, 0>>), Timed(4, <<0, 0>>)>>, <<Timed(1, <<0, 0>>), Timed(3, <<0, 8>>)>>,
               <<Timed(4, <<0, 0>>), Timed(5, <<8, 0>>)>>}
Unfit == {<<Timed(0, <<0, 0>>)>>, <<Timed(1, <<0, 0>>), Timed(1, <<8, 0>>)>>,
          <<Timed(0, <<0, 0>>), Timed(1, <<9, 0>>)>>,
          <<Timed(0, <<0, 0>>), Timed(4, <<8, 8>>), Timed(8, <<0, 0>>)>>}
Frame(turns, translation, uncertainty, angle) ==
    [turns |-> turns, translation |-> translation, uncertainty |-> uncertainty, angle |-> angle]
Robot(name, workspace, schema, frame, w) ==
    [name |-> name, workspace |-> workspace, schema |-> schema, frame |-> frame, trajectory |-> w]
Frames == {Frame(0, <<0, 0>>, <<0, 0>>, 0), Frame(3, <<0, 8>>, <<1, 0>>, 0), Frame(0, <<0, 0>>, <<0, 1>>, 2)}
OtherFrames == {Frame(2, <<20, 2>>, <<0, 0>>, 0), Frame(1, <<16, 0>>, <<0, 1>>, 0), Frame(0, <<30, 0>>, <<1, 1>>, 3)}
FirstRobots == {Robot("a", "hall", schema, f, w) : schema \in {1, 2}, f \in Frames, w \in Moves \cup Unfit}
OtherRobots == {Robot(name, workspace, 2, f, w) :
                    name \in {"a", "b"}, workspace \in {"hall"}, f \in OtherFrames, w \in OtherMoves}
                 \cup {Robot("b", "yard", 2, f, w) : f \in OtherFrames, w \in OtherMoves}
Passing(begin, end) == [name |-> "box", workspace |-> "hall",
    trajectory |-> <<[tick |-> begin, bounds |-> Box(-8, 4, -6, 6)], [tick |-> end, bounds |-> Box(8, 4, 10, 6)]>>]
OccupancySamples == [robot : FirstRobots, other : OtherRobots, margin : {0, 2}]
Budgets == {[robots |-> 2, obstacles |-> 1, conflicts |-> n, slicePairs |-> 7, linkPairs |-> 28] : n \in {1, 8}}

(* Atlases of up to three different boxes; lines between the points are       *)
(* parallel to an axis or diagonal, so that what is on them is whole.         *)
PlanBoxes == {s \in UNION {[1..n -> SampleBoxes] : n \in 1..3} : IsInjective(s)}
PlanPoints == {<<0, 0>>, <<3, 0>>, <<3, 3>>, <<6, 0>>}
PlanSamples == [boxes : PlanBoxes, start : PlanPoints, goal : PlanPoints]
SumOfJoints(q) == q[1] + q[2]
PathsOf(p, q) == {<<>>, <<p>>, <<p, q>>, <<p, <<2, 2>>, q>>, <<q, p>>}

(* Pairs of directories that replace each other: of one scene but another     *)
(* graph and LECT, of a version and its successor, of two old Atlases.        *)
Halves == <<[id |-> 1, bounds |-> <<0, 4>>, key |-> "0", certificate |-> 1, component |-> 1],
            [id |-> 2, bounds |-> <<4, 8>>, key |-> "1", certificate |-> 2, component |-> 1]>>
Tree5(keys) == [root |-> <<0, 8>>, keys |-> {"", "0", "1"} \cup keys]
Direct(bounds, scene) == [subject |-> bounds, scene |-> scene, parent |-> <<>>, transition |-> <<>>]
FirstVersion(scene) == [sequence |-> 0, parent |-> <<>>, scene |-> scene, transition |-> <<>>]
InitialAtlas(schema, neighbours, keys) ==
    [schema |-> schema, scene |-> "free", lect |-> Tree5(keys), regions |-> Halves,
     certificates |-> <<Direct(<<0, 4>>, "free"), Direct(<<4, 8>>, "free")>>, graph |-> neighbours,
     dependencies |-> [k \in 1..2 |-> [region |-> k, envelope |-> IF schema = 1 THEN {} ELSE {k}]],
     repairs |-> {}, transition |-> <<>>, version |-> FirstVersion(IF schema = 1 THEN "" ELSE "v0")]
Delta == [from |-> "free", to |-> "moved", version |-> "v1"]
Successor(old) ==
    [old EXCEPT !.scene = "moved", !.transition = <<Delta>>, !.lect = Tree5({"00", "01", "10", "11"}),
        !.certificates = <<[subject |-> <<0, 4>>, scene |-> "moved", parent |-> <<old.certificates[1]>>,
                            transition |-> <<Delta>>], Direct(<<4, 8>>, "moved")>>,
        !.repairs = {[id |-> 9, key |-> "01", bounds |-> <<2, 4>>]},
        !.version = [sequence |-> 1, parent |-> <<old.version.id>>, scene |-> "v1", transition |-> <<Delta>>]]
Touching == <<{2}, {1}>>
Separate == <<{}, {}>>

NoFiles == [files |-> <<>>]
Naming == INSTANCE AtlasFiles WITH Absent <- NoFiles, Saved <- {}
Named(old) == [old EXCEPT !.version = [sequence |-> old.version.sequence, parent |-> old.version.parent,
    scene |-> old.version.scene, transition |-> old.version.transition, id |-> Naming!VersionIdentity(old)]]
FirstAtlas == Named(InitialAtlas(2, Touching, {"00", "01"}))
FilePairs == {{FirstAtlas, Named(InitialAtlas(2, Separate, {"10", "11"}))}, {FirstAtlas, Named(Successor(FirstAtlas))},
              {Named(InitialAtlas(1, n, {})) : n \in {Touching, Separate}}}
Files == INSTANCE AtlasFiles WITH Absent <- NoFiles, Saved <- UNION FilePairs
ASSUME SavedAreFit == \A old \in UNION FilePairs : Naming!WellFormed(old)
fileVars == <<destination, aside, saving, older, step, reading, loaded>>

(* Regions of every kind around the same points. *)
Cell(b) == [kind |-> "aabb", box |-> b]
Rotated == [kind |-> "obb", center |-> <<2, 1>>, rows |-> <<<<1, 1>>, <<-1, 1>>>>, half |-> <<2, 1>>]
PortalOf(g, h) == [kind |-> "portal", first |-> g, second |-> h]
Zonotope(vectors) == [kind |-> "zonotope", center |-> <<2, 2>>, generators |-> vectors]
Taylor(vectors, remainder) == [kind |-> "taylor", center |-> <<2, 1>>, generators |-> vectors, remainder |-> remainder]
RegionRecords ==
    {Cell(Box(0, 0, 2, 2)), Cell(Box(3, 0, 3, 2)), Rotated,
     PortalOf(Cell(Box(0, 0, 2, 2)), Cell(Box(1, 1, 5, 3))), PortalOf(Rotated, Cell(Box(0, 0, 2, 2))),
     Zonotope(<<<<2, 0>>, <<1, 1>>>>), Zonotope(<<<<1, 1>>, <<2, 2>>>>), Zonotope(<<<<1, 0>>, <<0, 1>>, <<1, -1>>>>),
     Taylor(<<<<1, 1>>>>, <<1, 2>>), Taylor(<<<<1, -1>>>>, <<0, 1>>), Taylor(<<<<2, 1>>>>, <<0, 0>>), [kind |-> "tube"]}
ConstraintSamples == [first : RegionRecords, second : RegionRecords,
                      trajectory : UNION {[1..n -> {<<1, 1>>, <<4, 1>>, <<5, 4>>}] : n \in 1..2}]
ConstraintPoints == (-1..5) \X (-1..4)
Auxiliaries(g) == IF Len(Database!Generators(g)) < 3 THEN {-2, 0, 1} ELSE {-2, 1}

MCInit ==
    /\ looked = FALSE
    /\ part \in {"updates", "shield", "gate", "calibrated", "tree", "index", "corridor", "occupancy",
                 "planning", "files", "constraints"}
    /\ Init /\ GateInit /\ Trees!Init /\ Files!FilesInit
    /\ \/ part = "index" /\ sample \in Samples
       \/ part = "corridor" /\ sample \in PathSamples
       \/ part = "occupancy" /\ sample \in OccupancySamples
       \/ part = "planning" /\ sample \in PlanSamples
       \/ part = "files" /\ sample \in FilePairs
       \/ part = "constraints" /\ sample \in ConstraintSamples
       \/ part \notin {"index", "corridor", "occupancy", "planning", "files", "constraints"} /\ sample = <<>>
    /\ \/ part = "updates" /\ Updates!Init /\ monitor.atlas = Connected3
       \/ /\ part # "updates"
          /\ part \notin {"shield", "gate", "calibrated"} => monitor.atlas = Connected3
          /\ task = Updates!Idle /\ built = Updates!NoAtlas /\ first = Updates!NoAtlas /\ steady = TRUE

(* Significands of two bits; ties go to the even one. *)
TwoBits == {0, 1, 2, 3, 4, 6, 8, 12, 16, 24}
TwoBitNumber(n) == LET near == {m \in TwoBits : \A x \in TwoBits : Abs(m - n) <= Abs(x - n)}
              IN IF Cardinality(near) = 1 THEN Max(near) ELSE CHOOSE m \in near : m \in {4, 8, 16}
Coarse(n) == IF n < 0 THEN -TwoBitNumber(-n) ELSE TwoBitNumber(n)
Whole(n) == n

(* A caller who is at the bounds makes no more calls; a sample is looked at in *)
(* a step, so that the workers share them.                                   *)
MCNext ==
    /\ UNCHANGED <<part, sample>>
    /\ looked' = (part \in {"index", "corridor", "occupancy", "planning", "constraints"})
    /\ \/ part = "updates" /\ Updates!Next
       \/ UNCHANGED updateVars
    /\ \/ part = "shield" /\ Next
       \/ UNCHANGED vars
    /\ \/ part = "gate" /\ GateNext({<<1, 1>>})
       \/ part = "calibrated" /\ CalibratedNext({<<1, 1>>})
       \/ UNCHANGED gateVars
    /\ \/ part = "tree" /\ Trees!Next
       \/ UNCHANGED nodes
    /\ \/ part = "files" /\ Files!FilesNext(sample)
       \/ UNCHANGED fileVars

MCSpec == MCInit /\ [][MCNext]_<<part, looked, sample, nodes, vars, updateVars, gateVars, fileVars>>

Looked(what) == part = what /\ looked

(* save(), load() of an Atlas: see LoadsAreWhole of AtlasFiles. *)
LoadsAreWhole == part = "files" => Files!LoadsAreWhole

(* compile_region_constraint(), assign_trajectory_regions(): see             *)
(* ConstraintIsExact, ProjectionIsNearest and AssignmentIsSound of            *)
(* RegionDatabase; each kind of region is looked at once.                    *)
ConstraintsAreExact ==
    Looked("constraints") =>
        LET g == sample.first IN
        /\ Database!AssignmentIsSound(<<g, sample.second>>, sample.trajectory)
        /\ (g = sample.second /\ sample.trajectory = << <<1, 1>> >> /\ g.kind # "tube") =>
              /\ Database!ConstraintIsExact(g, ConstraintPoints, Auxiliaries(g))
              /\ Database!ProjectionIsNearest(g, ConstraintPoints)

(* The gate and the calibrated gate: see GateIsSound, ProfilesCover and       *)
(* CalibrationIsConservative of PolicyGate.                                  *)
ChoicesAreSound ==
    /\ part \in {"gate", "calibrated"} => GateIsSound
    /\ part = "calibrated" => CalibrationIsConservative
    /\ part = "calibrated" /\ report = NoReport => ProfilesCover

(* build(), update(), LectTree, RegionQueryIndex: see AtlasIsSafe and        *)
(* SpaceIsKept of SafeAtlas, KeysAreStable and IndexExactFor of BoxTrees.    *)
AtlasesAreSafe ==
    /\ Updates!AtlasIsSafe
    /\ Updates!SpaceIsKept
    /\ part = "tree" => Trees!KeysAreStable
    /\ Looked("index") => Trees!IndexExactFor(sample, SamplePoints)

(* HipacCorridorBuilder::build(), route(), save_corridor_directory(): see     *)
(* CorridorIsExact, RoutesStayInCells and CorridorIsSavable of Corridor.      *)
CorridorsAreCertified(corridor) ==
    /\ Database!RoutesStayInCells(corridor, PathPoints)
    /\ Database!CorridorIsExact(corridor, sample.path, sample.scene)
    /\ Database!CorridorIsSavable(corridor)

(* RegionDatabase: see DatabaseIsExact, CreationIsExact, ImportIsExact and    *)
(* ObbAtlasIsSafe there; an OBB Atlas is built around the waypoints of the    *)
(* path.                                                                     *)
DatabasesAreExact(corridor) ==
    LET samples == SetToSeq(Range(sample.path)) IN
    /\ Database!DatabaseIsExact(Database!FromCorridor(corridor), PathPoints, PathDomain)
    /\ Database!CreationIsExact(corridor, Box(-4, -4, 12, 12), PathPoints)
    /\ Database!ImportIsExact(corridor, sample.path, PathPoints)
    /\ (\A b \in Database!Bridges(samples) : Parallel(samples[b[1]], samples[b[2]])) =>
            /\ Database!ObbAtlasIsSafe(samples, sample.scene)
            /\ Database!DatabaseIsExact(Database!ObbAtlas(samples, sample.scene), PathPoints, PathDomain)

(* save(), load() of a corridor and of its database, one over another of the *)
(* same path in another scene: see CorridorsLoad, DatabasesLoad of           *)
(* RegionDatabase.                                                           *)
RegionFilesLoad ==
    LET load(a, s, b, t) == Database!CorridorsLoad(a, s, b, t) /\ Database!DatabasesLoad(a, s, b, t) IN
    \A s, t \in {sample.scene, {<<3, 0>>}} :
        load(Database!Built(sample.path, s), s, Database!Built(sample.path, t), t)

(* Corridors, the databases made of them and their files: the three above.   *)
RegionsAreCertified ==
    LET certified(corridor) == CorridorsAreCertified(corridor) /\ DatabasesAreExact(corridor) IN
    Looked("corridor") => certified(Database!Built(sample.path, sample.scene)) /\ RegionFilesLoad

(* build_robot_trajectory_occupancy(): see BuildsAreValid of Occupancy. *)
BuildsAreValid == Looked("occupancy") => Swept!BuildsAreValid(sample.robot)

(* analyze_continuous_fleet_occupancy(), .._robot_scene_occupancy(): see     *)
(* EnvelopesEnclose, SeparationIsReal, SceneIsReal and BundlesLoad there.    *)
OccupanciesAreCertified ==
    Looked("occupancy") =>
        LET robot == Swept!Build(sample.robot)
            other == Swept!Build(sample.other)
            moving == {Swept!BuildObstacle(Passing(0, end)).occupancy : end \in {2, 4}}
        IN /\ BuildsAreValid
           /\ Swept!EnvelopesEnclose(sample.robot)
           /\ (robot.status = "Success" /\ other.status = "Success") =>
                \A budget \in Budgets :
                    LET robots == {robot.occupancy, other.occupancy} IN
                    /\ Swept!SeparationIsReal(robots, sample.margin, budget)
                    /\ Swept!BundlesLoad(robots, moving, sample.margin, budget)
                    /\ \A o \in moving : Swept!SceneIsReal({robot.occupancy}, {o}, sample.margin, budget)

(* Roadmap, sampler, Safe IK, OMPL planner: see RoadmapIsExact,              *)
(* SamplesAreCertified, ReportsAreHonest and PathsPass of Planning.          *)
PlannersAreHonest ==
    Looked("planning") =>
        /\ RoadmapIsExact(sample.boxes)
        /\ \A square \in {0, 2, 4} : SamplesAreCertified(sample.boxes, sample.start, square)
        /\ \A target \in {1, 6}, required \in BOOLEAN, attempts \in {1, 4} :
                ReportsAreHonest(sample.boxes, sample.start, target, required, attempts)
        /\ \A path \in PathsOf(sample.start, sample.goal), exact \in BOOLEAN :
                PathsPass(sample.boxes, sample.start, sample.goal, path, exact, 3)
=============================================================================
