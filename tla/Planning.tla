------------------------------- MODULE Planning -------------------------------
(***************************************************************************)
(* What plans with a finished Atlas: the roadmap and the region sampler      *)
(* (src/planning.cpp), Safe IK (src/safe_ik.cpp), and the OMPL adapter and    *)
(* planner (src/ompl.cpp).  OMPL itself is external: it may return any path.  *)
(*                                                                           *)
(* A number that is drawn is any number of its range; a distance is the      *)
(* square of the Euclidean one, and a pose is one number.                     *)
(***************************************************************************)
EXTENDS RuntimeShield

CONSTANTS
    Pose(_),            \* external: forward kinematics
    PoseTolerance,      \* SafeIkOptions: position and orientation tolerance
    MaxStep,            \* maximum_step_norm, along each axis
    MaxIterations       \* maximum_iterations

Square(p, q) == FoldSet(LAMBDA i, n : n + (p[i] - q[i]) * (p[i] - q[i]), 0, Axes)
BoxSquare(p, b) == Square(p, Clamp(p, b))

-----------------------------------------------------------------------------
(* Mutant of Meeting: every pair of the adjacency lists. *)
MeetingWithinTolerance(atlas) ==
    {pair \in (DOMAIN atlas) \X (DOMAIN atlas) : pair[1] < pair[2] /\ pair[2] \in Adjacent(atlas, pair[1])}

(* build(): the pairs of the adjacency lists that really intersect. *)
Meeting(atlas) ==
    {pair \in (DOMAIN atlas) \X (DOMAIN atlas) :
        /\ pair[1] < pair[2] /\ pair[2] \in Adjacent(atlas, pair[1])
        /\ Overlap(atlas[pair[1]], atlas[pair[2]], 0)}

ById(a, b) == a[1] < b[1] \/ (a[1] = b[1] /\ a[2] < b[2])
Portals(atlas) == SetToSortSeq(Meeting(atlas), ById)

Node(configuration, supports) == [configuration |-> configuration, supports |-> supports]
Edge(first, second, region) == [first |-> first, second |-> second, region |-> region]

(* CertifiedRoadmapBuilder::build(): a node for the center of every region   *)
(* and one in every intersection, with an edge into either region.           *)
Roadmap(atlas) ==
    LET portals == Portals(atlas)
        node(k) == Len(atlas) + k
    IN [nodes |-> [k \in DOMAIN atlas |-> Node(Middle(atlas[k]), {k})]
                  \o [k \in DOMAIN portals |->
                        Node(Witness(atlas[portals[k][1]], atlas[portals[k][2]]), Range(portals[k]))],
        edges |-> FlattenSeq([k \in DOMAIN portals |->
                        <<Edge(portals[k][1], node(k), portals[k][1]), Edge(node(k), portals[k][2], portals[k][2])>>])]

-----------------------------------------------------------------------------
(* sample_near(): a region that the ball meets, then a point of both; after   *)
(* its attempts the nearest point of the candidates.                         *)
Candidates(atlas, p, square) == {k \in DOMAIN atlas : BoxSquare(p, atlas[k]) <= square}
PointsOf(b) == {q \in [Axes -> Min(Range(b.lower))..Max(Range(b.upper))] : InBox(q, b)}
Drawn(atlas, p, square) ==
    {q \in UNION {PointsOf(atlas[k]) : k \in Candidates(atlas, p, square)} : Square(p, q) <= square}
Closest(atlas, p, square) ==
    Clamp(p, atlas[CHOOSE k \in Candidates(atlas, p, square) :
        \A n \in Candidates(atlas, p, square) : BoxSquare(p, atlas[k]) <= BoxSquare(p, atlas[n])])
SampledNear(atlas, p, square) ==
    IF Candidates(atlas, p, square) = {} THEN {}
    ELSE Drawn(atlas, p, square) \cup {Closest(atlas, p, square)}

(* AtlasRegionStateSampler: without a candidate it gives the near state back, *)
(* which need not be certified.                                              *)
OmplSampled(atlas, p, square) ==
    LET clamped == {Clamp(p, atlas[k]) : k \in Candidates(atlas, p, square)} IN
    IF clamped = {} THEN {p} ELSE Drawn(atlas, p, square) \cup clamped

-----------------------------------------------------------------------------
Gap(q, target) == Abs(Pose(q) - target)
Converged(q, target) == Gap(q, target) <= PoseTolerance

(* solve_in_region(): where an iteration may go: the step is clamped to the   *)
(* region and its halves are tried until one comes closer to the target; the  *)
(* direction is numeric.                                                     *)
Steps(b, q, target) ==
    IF Converged(q, target) THEN {q}
    ELSE {q} \cup {x \in PointsOf(b) : /\ \A i \in Axes : Abs(x[i] - q[i]) <= MaxStep
                                       /\ Gap(x, target) < Gap(q, target)}

(* The configurations it converges at; unless the seed is one, it may give up. *)
Solutions(b, seed, target) ==
    LET at[n \in 0..MaxIterations] ==
            IF n = 0 THEN {Clamp(seed, b)} ELSE UNION {Steps(b, q, target) : q \in at[n - 1]}
    IN {q \in at[MaxIterations] : Converged(q, target)}
MayFail(b, seed, target) == ~Converged(Clamp(seed, b), target)

(* solve(): regions by their distance from the current configuration and id. *)
RegionOrder(atlas, current) ==
    LET square(k) == BoxSquare(current, atlas[k]) IN
    SetToSortSeq(DOMAIN atlas, LAMBDA j, k : square(j) < square(k) \/ (square(j) = square(k) /\ j < k))

(* Two seeds in a region unless they are the same one, up to the attempts. *)
Tries(atlas, current, attempts) ==
    LET seeds(k) == LET near == Clamp(current, atlas[k]) IN
                    IF near = Middle(atlas[k]) THEN <<near>> ELSE <<near, Middle(atlas[k])>>
        all == FlattenSeq([n \in DOMAIN atlas |->
                    LET k == RegionOrder(atlas, current)[n] IN
                    [s \in DOMAIN seeds(k) |-> [region |-> k, seed |-> seeds(k)[s]]]])
    IN SubSeq(all, 1, MinOf(attempts, Len(all)))

Report(status, solution, region) == [status |-> status, solution |-> solution, region |-> region]
Without(status) == Report(status, Nothing, 0)

(* One attempt: a solution with a route ends the search, the first one       *)
(* without is kept, and ends the search too unless a route is required.       *)
Attempted(atlas, current, target, required, attempt, state) ==
    LET b == atlas[attempt.region]
        found(q) == IF Connected(atlas, current, q)
                    THEN [done |-> TRUE, report |-> Report("SafeConnected", q, attempt.region)]
                    ELSE [done |-> ~required,
                          report |-> IF state.report.status = "SafeUnconnected" THEN state.report
                                     ELSE Report("SafeUnconnected", q, attempt.region)]
    IN IF state.done THEN {state}
       ELSE {found(q) : q \in Solutions(b, attempt.seed, target)}
            \cup (IF MayFail(b, attempt.seed, target) THEN {state} ELSE {})

(* SafeIkSolver::solve(): the reports it may give. *)
Reports(atlas, current, target, required, attempts) ==
    LET tries == Tries(atlas, current, attempts)
        after[n \in 0..Len(tries)] ==
            IF n = 0 THEN {[done |-> FALSE, report |-> Without("NoSolution")]}
            ELSE UNION {Attempted(atlas, current, target, required, tries[n], s) : s \in after[n - 1]}
    IN IF required /\ ~AtlasContains(atlas, current) THEN {Without("SeedNotCertified")}
       ELSE {s.report : s \in after[Len(tries)]}

-----------------------------------------------------------------------------
(* AtlasStateValidityChecker, AtlasMotionValidator *)
StateValid(atlas, p) == InBox(p, Root) /\ AtlasContains(atlas, p)
MotionValid(atlas, p, q) == Audited(atlas, <<p, q>>)

(* checkMotion() with last_valid: the start of the first gap. *)
LastValid(atlas, p, q) ==
    LET n == Parts(p, q)
        covered == UNION {PartsIn(p, q, atlas[k]) : k \in DOMAIN atlas}
        gap == Min((0..n) \ covered)
    IN [i \in Axes |-> p[i] + ((q[i] - p[i]) * gap) \div n]

(* make_seeded_prm() checks every node and edge with the installed Atlas. *)
Imports(roadmap, atlas) ==
    LET at(k) == roadmap.nodes[k].configuration IN
    /\ \A k \in DOMAIN roadmap.nodes : StateValid(atlas, at(k))
    /\ \A k \in DOMAIN roadmap.edges : MotionValid(atlas, at(roadmap.edges[k].first), at(roadmap.edges[k].second))

(* OmplPlanner::solve() with what OMPL has returned: no path, or one that is  *)
(* exact or only comes near the goal.                                        *)
OmplSolved(atlas, start, goal, path, exact, stateLimit) ==
    LET closed == Closed(path) IN
    CASE ~StateValid(atlas, start) -> "InvalidStart"
      [] StateValid(atlas, start) /\ ~StateValid(atlas, goal) -> "InvalidGoal"
      [] OTHER -> CASE path = Nothing -> "Timeout"
                    [] Len(path) > stateLimit -> "ResourceLimit"
                    [] path # Nothing /\ Len(path) <= stateLimit ->
                         IF ~Audited(atlas, closed) THEN "UncertifiedSolution"
                         ELSE IF exact THEN "CertifiedExactSolution" ELSE "ApproximateSolution"

-----------------------------------------------------------------------------
(* The nodes that the edges join with a node. *)
Joined(roadmap, from) ==
    LET edges == Range(roadmap.edges)
        next(s) == s \cup {e.first : e \in {x \in edges : x.second \in s}}
                     \cup {e.second : e \in {x \in edges : x.first \in s}}
        grown[n \in 0..Len(roadmap.nodes)] == IF n = 0 THEN from ELSE next(grown[n - 1])
    IN grown[Len(roadmap.nodes)]

(* CertifiedRoadmapBuilder::build(), make_seeded_prm(): every edge lies in    *)
(* its covering region, the Atlas's own roadmap can always be imported, and   *)
(* two centers are joined by the roadmap exactly when route() joins them,     *)
(* whatever the adjacency tolerance has put into the lists.                   *)
RoadmapIsExact(atlas) ==
    LET roadmap == Roadmap(atlas)
        at(k) == roadmap.nodes[k].configuration
    IN /\ \A e \in Range(roadmap.edges) :
            SegmentCovered(at(e.first), at(e.second), {atlas[e.region]})
       /\ Imports(roadmap, atlas)
       /\ \A j, k \in DOMAIN atlas : k \in Joined(roadmap, {j}) <=> Connected(atlas, at(j), at(k))

(* sample_near(), AtlasRegionStateSampler: a sample is certified and no       *)
(* farther than asked for, and there is one when some certified point is;     *)
(* OMPL's may be uncertified only when there is none.                         *)
SamplesAreCertified(atlas, p, square) ==
    /\ \A q \in SampledNear(atlas, p, square) : AtlasContains(atlas, q) /\ Square(p, q) <= square
    /\ Drawn(atlas, p, square) # {} => SampledNear(atlas, p, square) # {}
    /\ \A q \in OmplSampled(atlas, p, square) :
            \/ AtlasContains(atlas, q) /\ Square(p, q) <= square
            \/ q = p /\ SampledNear(atlas, p, square) = {}

(* SafeIkSolver::solve(): a report's solution reaches the target inside its   *)
(* region, SafeConnected means a route and SafeUnconnected none, and a robot  *)
(* that is at the target already is told to stay.                             *)
ReportsAreHonest(atlas, current, target, required, attempts) ==
    \A report \in Reports(atlas, current, target, required, attempts) :
        /\ report.solution # Nothing =>
              /\ InBox(report.solution, atlas[report.region]) /\ Converged(report.solution, target)
              /\ (report.status = "SafeConnected") <=> Connected(atlas, current, report.solution)
        /\ AtlasContains(atlas, current) /\ Converged(current, target) =>
              report.status = "SafeConnected" /\ report.solution = current

(* checkMotion(), OmplPlanner::solve(): the motion up to the last valid state  *)
(* is certified; and the shield accepts, without a repair, every path that    *)
(* was found to be certified.                                                *)
PathsPass(atlas, start, goal, path, exact, stateLimit) ==
    /\ StateValid(atlas, start) /\ ~MotionValid(atlas, start, goal) =>
            MotionValid(atlas, start, LastValid(atlas, start, goal))
    /\ OmplSolved(atlas, start, goal, path, exact, stateLimit) \in
            {"CertifiedExactSolution", "ApproximateSolution"} /\ path[1] = start =>
            \A d \in Checked(atlas, start, Tail(Closed(path))) : d.outcome = "accept"
=============================================================================
