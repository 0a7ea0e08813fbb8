---------------------------- MODULE RuntimeShield ----------------------------
(***************************************************************************)
(* RuntimeShield and RuntimeShieldMonitor (src/shield.cpp), with the routes  *)
(* of an Atlas (src/atlas.cpp) that they rest on.  The shield lets an action *)
(* pass, repairs it to a certified trajectory or rejects it; the monitor     *)
(* follows one armed decision.  Decisions and Atlases are kept by the        *)
(* caller, who may arm any decision on any monitor of the same scene: an     *)
(* Atlas's identity in a decision is its robot and its scene only.           *)
(*                                                                           *)
(* A region's number is its id.  A distance is the sum over the axes, whose  *)
(* nearest point of a box is the one the code clamps to.                     *)
(***************************************************************************)
EXTENDS Boxes, SequencesExt

CONSTANTS
    Atlases,            \* finished Atlases: sequences of boxes, all of one scene
    Tolerance,          \* adjacency_tolerance of the Atlases
    Starts,             \* current configurations
    Requests,           \* trajectories an action asks for
    WaypointLimit,      \* maximum_waypoint_repair_distance
    TotalLimit,         \* maximum_total_repair_distance
    TrackingTolerance,  \* RuntimeMonitorOptions::tracking_tolerance
    Times,              \* timestamps
    MaxDecisions        \* bound: decisions that are kept

VARIABLES
    decisions,          \* what check_action() returned
    monitor,            \* [atlas, active, last]: a RuntimeShieldMonitor
    seen                \* the state of its last MonitorObservation

vars == <<decisions, monitor, seen>>

Distance(p, q) == FoldSet(LAMBDA i, n : n + Abs(p[i] - q[i]), 0, Axes)
Nothing == <<>>
Never == -1

-----------------------------------------------------------------------------
At(atlas, p) == {k \in DOMAIN atlas : InBox(p, atlas[k])}
AtlasContains(atlas, p) == At(atlas, p) # {}

(* The adjacency lists, and their connected components. *)
Adjacent(atlas, k) == {n \in DOMAIN atlas \ {k} : Overlap(atlas[k], atlas[n], Tolerance)}
Spread(atlas, from) ==
    LET grown[n \in Nat] ==
            IF n = 0 THEN from ELSE grown[n - 1] \cup UNION {Adjacent(atlas, k) : k \in grown[n - 1]}
    IN grown[Len(atlas)]

(* route(): the neighbours with an intersection_witness(). *)
CertifiedNeighbours(atlas, k) == {n \in Adjacent(atlas, k) : Overlap(atlas[k], atlas[n], 0)}

(* route(): the shortest chains of regions from p to q; the code takes one   *)
(* of them, by region id.                                                    *)
Chains(atlas, p, q) ==
    LET of(n) == {s \in [1..n -> DOMAIN atlas] :
                    /\ InBox(p, atlas[s[1]]) /\ InBox(q, atlas[s[n]])
                    /\ \A k \in 1..(n - 1) : s[k + 1] \in CertifiedNeighbours(atlas, s[k])}
        lengths == {n \in 1..Len(atlas) : of(n) # {}}
    IN IF lengths = {} THEN {} ELSE of(Min(lengths))

Connected(atlas, p, q) == Chains(atlas, p, q) # {}

Waypoints(atlas, chain, p, q) ==
    <<p>> \o [k \in 1..(Len(chain) - 1) |-> Witness(atlas[chain[k]], atlas[chain[k + 1]])] \o <<q>>

(* SafeAtlas::route() *)
Routes(atlas, p, q) == {Waypoints(atlas, chain, p, q) : chain \in Chains(atlas, p, q)}

Audited(atlas, trajectory) == Certified(trajectory, {atlas[k] : k \in DOMAIN atlas})

-----------------------------------------------------------------------------
Clamp(p, b) == [i \in Axes |-> MaxOf(b.lower[i], MinOf(p[i], b.upper[i]))]

(* project_to_reachable_region(): the nearest point of the components that   *)
(* the current configuration is in, of the least region id.                  *)
Reachable(atlas, current) == Spread(atlas, At(atlas, current))
Nearest(atlas, current, p) ==
    LET gap(k) == Distance(p, Clamp(p, atlas[k])) IN
    CHOOSE k \in Reachable(atlas, current) :
        \A n \in Reachable(atlas, current) : gap(k) < gap(n) \/ (gap(k) = gap(n) /\ k <= n)
Projected(atlas, current, p) == Clamp(p, atlas[Nearest(atlas, current, p)])

Decision(outcome, reason, trajectory) ==
    [outcome |-> outcome, reason |-> reason, trajectory |-> trajectory]
Reject(reason) == Decision("reject", reason, Nothing)

(* certified_decision(): an output that does not pass the audit, or whose    *)
(* ends have no route, is an internal error.                                 *)
CertifiedDecision(atlas, outcome, reason, trajectory) ==
    IF /\ Audited(atlas, trajectory)
       /\ Connected(atlas, trajectory[1], trajectory[Len(trajectory)])
    THEN Decision(outcome, reason, trajectory)
    ELSE Decision("error", reason, trajectory)

(* append_route() leaves out a waypoint that repeats the last one. *)
Append1(output, waypoint) ==
    IF output # <<>> /\ output[Len(output)] = waypoint THEN output ELSE Append(output, waypoint)
Appended(output, route) == FoldLeft(Append1, output, route)
Closed(output) == IF Len(output) = 1 THEN output \o output ELSE output

(* The outputs of a repair that visits the targets from the cursor. *)
Visits(atlas, current, targets) ==
    LET reach[k \in 0..Len(targets)] ==
            IF k = 0 THEN {<<current>>}
            ELSE {Appended(output, route) : output \in reach[k - 1],
                     route \in Routes(atlas, IF k = 1 THEN current ELSE targets[k - 1], targets[k])}
    IN reach[Len(targets)]

(* check_joint() and check_trajectory(): the decisions the shield may come   *)
(* to.  A joint delta is a trajectory of one waypoint: the same tests in the *)
(* same order.                                                               *)
Checked(atlas, current, waypoints) ==
    LET direct == Closed(Appended(<<current>>, waypoints))
        targets == [k \in DOMAIN waypoints |-> Projected(atlas, current, waypoints[k])]
        gaps == [k \in DOMAIN waypoints |-> Distance(waypoints[k], targets[k])]
    IN IF ~AtlasContains(atlas, current) THEN {Reject("CurrentStateNotCertified")}
       ELSE IF Audited(atlas, direct) THEN {CertifiedDecision(atlas, "accept", "Certified", direct)}
       ELSE IF \/ \E k \in DOMAIN gaps : gaps[k] > WaypointLimit
               \/ FoldLeft(+, 0, gaps) > TotalLimit
            THEN {Reject("RepairLimitExceeded")}
       ELSE IF Visits(atlas, current, targets) = {} THEN {Reject("Disconnected")}
       ELSE {CertifiedDecision(atlas, "repair", "Repaired", Closed(output)) :
                output \in Visits(atlas, current, targets)}

(* check_end_effector(): SafeIkSolver::solve() (external) gives no solution, *)
(* one that no route reaches, or a configuration and a route to it.          *)
CheckedPose(atlas, current, solution) ==
    IF ~AtlasContains(atlas, current) THEN {Reject("CurrentStateNotCertified")}
    ELSE IF ~AtlasContains(atlas, solution) THEN {Reject("NoSafeIkSolution")}
    ELSE IF ~Connected(atlas, current, solution) THEN {Reject("Disconnected")}
    ELSE IF Distance(current, solution) > TotalLimit THEN {Reject("RepairLimitExceeded")}
    ELSE {CertifiedDecision(atlas, IF current = solution THEN "accept" ELSE "repair",
                            "SafeIkRoute", route) : route \in Routes(atlas, current, solution)}

-----------------------------------------------------------------------------
Init ==
    /\ decisions = {}
    /\ \E atlas \in Atlases : monitor = [atlas |-> atlas, active |-> Nothing, last |-> Never]
    /\ seen = "Inactive"

(* The decisions on the actions asked for, from each start. *)
Answers ==
    [atlas \in Atlases |-> [current \in Starts |->
        (UNION {Checked(atlas, current, request) : request \in Requests})
            \cup (UNION {CheckedPose(atlas, current, solution) : solution \in Starts})]]

(* RuntimeShield::check_action() with any of the Atlases of the scene. *)
CheckAction(atlas, current) ==
    /\ Cardinality(decisions) < MaxDecisions
    /\ \E d \in Answers[atlas][current] : decisions' = decisions \cup {d}
    /\ UNCHANGED <<monitor, seen>>

(* Mutant of MayArm: the identities are enough. *)
ArmsByIdentity(d) == d.outcome \in {"accept", "repair"}

(* RuntimeShieldMonitor::arm() audits the trajectory against its own Atlas. *)
MayArm(d) == d.outcome \in {"accept", "repair"} /\ Audited(monitor.atlas, d.trajectory)

Arm(d) ==
    /\ MayArm(d)
    /\ monitor' = [monitor EXCEPT !.active = d.trajectory, !.last = Never]
    /\ UNCHANGED <<decisions, seen>>

Disarm ==
    /\ monitor.active # Nothing
    /\ monitor' = [monitor EXCEPT !.active = Nothing, !.last = Never]
    /\ UNCHANGED <<decisions, seen>>

(* distance_to_trajectory() <= tracking_tolerance, without its divisions. *)
Dot(u, v) == FoldSet(LAMBDA i, n : n + u[i] * v[i], 0, Axes)
Minus(p, q) == [i \in Axes |-> p[i] - q[i]]
NearSegment(p, a, b) ==
    LET way == Minus(b, a)
        off == Minus(p, a)
        along == Dot(off, way)
        square == TrackingTolerance * TrackingTolerance
    IN IF along <= 0 THEN Dot(off, off) <= square
       ELSE IF along >= Dot(way, way) THEN Dot(Minus(p, b), Minus(p, b)) <= square
       ELSE Dot(off, off) * Dot(way, way) - along * along <= square * Dot(way, way)
OnPlan(p, trajectory) ==
    \E k \in 1..(Len(trajectory) - 1) : NearSegment(p, trajectory[k], trajectory[k + 1])

(* RuntimeShieldMonitor::observe() *)
Observe(p, timestamp) ==
    /\ timestamp > monitor.last
    /\ monitor' = [monitor EXCEPT !.last = timestamp]
    /\ seen' = IF monitor.active = Nothing THEN "Inactive"
               ELSE IF ~AtlasContains(monitor.atlas, p) THEN "UncertifiedState"
               ELSE IF OnPlan(p, monitor.active) THEN "OnCertifiedPlan"
               ELSE "CertifiedDeviation"
    /\ UNCHANGED decisions

Next ==
    \/ \E atlas \in Atlases, current \in Starts : CheckAction(atlas, current)
    \/ \E d \in decisions : Arm(d)
    \/ Disarm
    \/ \E p \in Starts, timestamp \in Times : Observe(p, timestamp)

Spec == Init /\ [][Next]_vars

(* certified_decision(), arm(): the shield never arrives at an output that   *)
(* its own audit refuses ("attempted to emit an uncertified trajectory") or  *)
(* whose ends its own Atlas does not connect; and the plan that a monitor    *)
(* follows lies in the regions of the monitor's Atlas, whichever Atlas of    *)
(* the scene the decision came from.                                         *)
PlansAreCertified ==
    /\ \A d \in decisions : d.outcome # "error"
    /\ monitor.active # Nothing => Audited(monitor.atlas, monitor.active)
=============================================================================
