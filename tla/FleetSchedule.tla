---------------------------- MODULE FleetSchedule ----------------------------
(***************************************************************************)
(* Fleet reservations, their analysis (src/memory.cpp) and the archive of    *)
(* analysed schedules (src/fleet_schedule_archive.cpp).                      *)
(*                                                                           *)
(* One fleet snapshot and scene; workspace boxes have one axis.  The memory  *)
(* enters by which source artifacts are active, and that stands for its      *)
(* identity.  Versions are appended to one object, so that a version id is   *)
(* the length of the archive it ends.                                        *)
(***************************************************************************)
EXTENDS Integers, Sequences, FiniteSets, Functions

CONSTANTS
    Deployments,
    Envelope,           \* operating envelope of a deployment
    Sources, SourceOf,  \* source artifacts, and the deployment of each
    Boxes,              \* occupancies <<lower, upper>>
    Windows,            \* <<begin_tick, end_tick>>
    Margins,
    Callers,
    MaxReservations, MaxPairs, MaxVersions

VARIABLES
    active,         \* the source artifacts that are active in the memory
    reservations,   \* the reservations that callers were given
    versions,       \* the archive
    seen            \* seen[c]: the head caller c expects, 0 when empty

vars == <<active, reservations, versions, seen>>

Reservations ==
    [deployment : Deployments, source : Sources, box : Boxes, window : Windows, margin : Margins]

(* Boxes, windows, margins and limits are numbers. *)
Measured ==
    /\ Boxes \subseteq Int \X Int /\ Windows \subseteq Int \X Int
    /\ Margins \subseteq Int
    /\ {MaxReservations, MaxPairs, MaxVersions} \subseteq Nat

Reasons == {"duplicate robot window", "workspace overlap", "separation margin violated"}
Larger(x, y) == IF x < y THEN y ELSE x

(* contains_box() and the checks of a reservation on its own *)
WellFormed(r) ==
    /\ r.box[1] <= r.box[2]
    /\ Envelope[r.deployment][1] <= r.box[1] /\ r.box[2] <= Envelope[r.deployment][2]
    /\ r.window[1] < r.window[2]
    /\ 0 <= r.margin

(* The source is active in the memory and of the reservation's deployment. *)
SourceIsCurrent(memory, r) == r.source \in memory /\ SourceOf[r.source] = r.deployment

-----------------------------------------------------------------------------
(* WorkspaceAabb::overlaps(): touching boxes overlap. *)
Overlap(a, b) == a[1] <= b[2] /\ b[1] <= a[2]

(* WorkspaceAabb::distance_lower_bound() *)
Distance(a, b) == Larger(0, Larger(b[1] - a[2], a[1] - b[2]))

TimeOverlaps(r, s) == r.window[1] < s.window[2] /\ s.window[1] < r.window[2]

RequiredMargin(r, s) == Larger(r.margin, s.margin)

(* One robot is planned twice, or two come closer than either margin allows. *)
InTheWay(r, s) ==
    \/ r.deployment = s.deployment
    \/ Overlap(r.box, s.box)
    \/ Distance(r.box, s.box) < RequiredMargin(r, s)

Reason(r, s) ==
    IF r.deployment = s.deployment THEN "duplicate robot window"
    ELSE IF Overlap(r.box, s.box) THEN "workspace overlap" ELSE "separation margin violated"

(* The conflicts of two reservations whose windows overlap: none or one. *)
Conflict(r, s) ==
    IF InTheWay(r, s) THEN {[pair |-> {r, s}, reason |-> Reason(r, s)]} ELSE {}

(* Mutant of Before: the earlier end comes first. *)
EndsBefore(r, s) ==
    \/ r.window[2] < s.window[2]
    \/ r.window[2] = s.window[2] /\ r.window[1] <= s.window[1]

(* Order of begin and end; the id, a hash, decides the rest arbitrarily. *)
Before(r, s) ==
    \/ r.window[1] < s.window[1]
    \/ r.window[1] = s.window[1] /\ r.window[2] <= s.window[2]

Sorted(R) ==
    CHOOSE q \in [1..Cardinality(R) -> R] :
        \A i, j \in DOMAIN q : i < j => q[i] # q[j] /\ Before(q[i], q[j])

(* The pairs that the two loops evaluate: the inner one breaks at the first  *)
(* reservation that begins when the outer one has ended.                     *)
Evaluated(q) ==
    {e \in (DOMAIN q) \X (DOMAIN q) :
        /\ e[1] < e[2]
        /\ \A k \in (e[1] + 1)..e[2] : q[k].window[1] < q[e[1]].window[2]
        /\ TimeOverlaps(q[e[1]], q[e[2]])}

(* The conflicts in the report of analyze_fleet_schedule(). *)
Conflicts(R) ==
    LET q == Sorted(R) IN UNION {Conflict(q[e[1]], q[e[2]]) : e \in Evaluated(q)}

(* Mutant of Analyzable: sources are not looked up again. *)
AnalyzableOnce(memory, R) ==
    /\ Cardinality(R) <= MaxReservations
    /\ \A r \in R : WellFormed(r)
    /\ Cardinality(Evaluated(Sorted(R))) <= MaxPairs

(* The analysis with this memory returns a report. *)
Analyzable(memory, R) ==
    /\ Cardinality(R) <= MaxReservations
    /\ \A r \in R : WellFormed(r) /\ SourceIsCurrent(memory, r)
    /\ Cardinality(Evaluated(Sorted(R))) <= MaxPairs

-----------------------------------------------------------------------------
(* validate_fleet_schedule_report(), of what is not an identity: nothing is  *)
(* looked up in a memory, and the sweep, done again with the number of pairs *)
(* that the report states as its limit, finds as many and the same conflicts.*)
ReportValid(v) ==
    /\ \A r \in v.reservations : WellFormed(r)
    /\ Cardinality(Evaluated(Sorted(v.reservations))) = v.pairs
    /\ Conflicts(v.reservations) = v.conflicts

(* valid(); sequence and parent of a version are its place in the archive. *)
ArchiveValid == \A i \in DOMAIN versions : ReportValid(versions[i])

Total(F(_)) == FoldFunction(+, 0, [i \in DOMAIN versions |-> F(versions[i])])

(* load() of the archive as it was saved: the limits, none of them zero, are  *)
(* limits of all versions together, each with the members of its fleet, while *)
(* those of publish() are limits of one schedule.                            *)
Loads(limits) ==
    /\ \A k \in DOMAIN limits : limits[k] > 0
    /\ Len(versions) <= limits.versions
    /\ Total(LAMBDA v : Cardinality(Deployments)) <= limits.members
    /\ Total(LAMBDA v : Cardinality(v.reservations)) <= limits.reservations
    /\ Total(LAMBDA v : Cardinality(v.conflicts)) <= limits.conflicts
    /\ Total(LAMBDA v : v.pairs) <= limits.pairs
    /\ ArchiveValid

(* verify_version() with this memory. *)
Replays(v, memory) ==
    /\ memory = v.memory
    /\ Analyzable(memory, v.reservations)
    /\ Conflicts(v.reservations) = v.conflicts

Init ==
    /\ active = Sources
    /\ reservations = {}
    /\ versions = <<>>
    /\ seen = [c \in Callers |-> 0]

(* SafetyMemory::transition() or invalidate_scene() ends a source. *)
SourceEnds(s) ==
    /\ s \in active
    /\ active' = active \ {s}
    /\ UNCHANGED <<reservations, versions, seen>>

(* make_fleet_reservation(); callers keep at most MaxReservations here. *)
MakeFleetReservation(r) ==
    /\ WellFormed(r)
    /\ SourceIsCurrent(active, r)
    /\ Cardinality(reservations \cup {r}) <= MaxReservations
    /\ reservations' = reservations \cup {r}
    /\ UNCHANGED <<active, versions, seen>>

ReadHead(c) ==
    /\ seen' = [seen EXCEPT ![c] = Len(versions)]
    /\ UNCHANGED <<active, reservations, versions>>

(* The head is of the same memory and of the same report. *)
IsCurrentVersion(R) ==
    /\ versions # <<>>
    /\ versions[Len(versions)].memory = active
    /\ versions[Len(versions)].reservations = R

(* FleetScheduleArchive::publish(); publishing the head again returns it. *)
Publish(c, R) ==
    /\ seen[c] = Len(versions)
    /\ ArchiveValid
    /\ Analyzable(active, R)
    /\ ~IsCurrentVersion(R)
    /\ Len(versions) < MaxVersions
    /\ versions' = Append(versions,
            [memory |-> active, reservations |-> R, conflicts |-> Conflicts(R),
             pairs |-> Cardinality(Evaluated(Sorted(R)))])
    /\ UNCHANGED <<active, reservations, seen>>

Next ==
    \/ \E s \in Sources : SourceEnds(s)
    \/ \E r \in Reservations : MakeFleetReservation(r)
    \/ \E c \in Callers : ReadHead(c) \/ \E R \in SUBSET reservations : Publish(c, R)

Spec == Init /\ [][Next]_vars

-----------------------------------------------------------------------------
(* Memory, reservations, archive and heads have their types. *)
TypeOK ==
    /\ active \subseteq Sources
    /\ reservations \subseteq Reservations /\ Cardinality(reservations) <= MaxReservations
    /\ Len(versions) <= MaxVersions
    /\ \A i \in DOMAIN versions :
          /\ versions[i].memory \subseteq Sources
          /\ versions[i].reservations \subseteq Reservations
          /\ versions[i].pairs \in 0..MaxPairs
          /\ versions[i].conflicts \subseteq [pair : SUBSET versions[i].reservations, reason : Reasons]
    /\ seen \in [Callers -> 0..Len(versions)]

At(r, t) == r.window[1] <= t /\ t < r.window[2]
Ticks(r, s) == {t \in r.window[1]..r.window[2] : At(r, t) /\ At(s, t)}

(* Two robots get in each other's way at a tick, or one robot is asked to    *)
(* follow two reservations: stated point by point, without boxes, distances  *)
(* or an order of the reservations.                                          *)
Clash(r, s) ==
    /\ Ticks(r, s) # {}
    /\ \/ r.deployment = s.deployment
       \/ \E x \in r.box[1]..r.box[2], y \in s.box[1]..s.box[2] :
             \/ x = y
             \/ \E m \in {r.margin, s.margin} : x - y < m /\ y - x < m

ClashingPairs(R) == {p \in R \X R : p[1] # p[2] /\ Clash(p[1], p[2])}

(* What the conflicts of a report on R have to be about. *)
Exact(R, conflicts) == {k.pair : k \in conflicts} = {{p[1], p[2]} : p \in ClashingPairs(R)}

(* The sweep, although it breaks off its inner loop, misses no clash and     *)
(* reports nothing else; a version without conflicts is therefore safe at    *)
(* every tick and every position (docs/safety-memory.md:82-90).              *)
ConflictsExact == \A i \in DOMAIN versions : Exact(versions[i].reservations, versions[i].conflicts)

(* A schedule is archived only while every source that its reservations were *)
(* derived from is still active, however long ago they were made             *)
(* (docs/safety-memory.md:82-84).                                            *)
SourcesAreCurrent ==
    [][\A i \in (DOMAIN versions') \ (DOMAIN versions) :
          /\ versions'[i].memory = active
          /\ \A r \in versions'[i].reservations : r.source \in active]_vars

(* Retries and callers with the same schedule leave one version of it in a   *)
(* row (docs/fleet-schedule-archive.md:32-33).                               *)
NoVersionTwice ==
    \A i \in 1..(Len(versions) - 1) : versions[i] # versions[i + 1]

(* However sources ended since, every version verifies against the revision  *)
(* of the memory that it was published with, if that was retained, and the   *)
(* archive is valid (docs/fleet-schedule-archive.md:74-80).                  *)
VersionsReplay ==
    /\ \A i \in DOMAIN versions : Replays(versions[i], versions[i].memory)
    /\ ArchiveValid

(* And the archive loads with limits of as many full schedules as it has     *)
(* versions, one at least: no publication makes the earlier ones unreadable. *)
ArchiveLasts ==
    /\ VersionsReplay
    /\ LET n == IF versions = <<>> THEN 1 ELSE Len(versions) IN
       Loads([versions |-> n, members |-> n * Cardinality(Deployments),
              reservations |-> n * MaxReservations,
              conflicts |-> n * MaxPairs, pairs |-> n * MaxPairs])
=============================================================================
