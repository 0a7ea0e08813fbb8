---------------------------- MODULE SafetyMemory ----------------------------
(***************************************************************************)
(* SafetyMemory (src/memory.cpp): the catalogue of artifacts and its audit   *)
(* log in one object.  Calls are serialised by the callers; what a caller    *)
(* read of an artifact may be old when it acts on it.                        *)
(*                                                                           *)
(* An artifact's id is a hash of its content, so deployment, scene and task  *)
(* are functions of it.  Ids are numbers, which order the catalogue.  Robot, *)
(* type, evidence and tags enter only by whether they satisfy a query.       *)
(***************************************************************************)
EXTENDS Naturals, Sequences, FiniteSets

CONSTANTS
    Artifacts,      \* artifact ids
    Deployments, Scenes, Tasks,
    DeploymentOf, SceneOf, TaskOf,      \* of an artifact
    Qualified,      \* artifacts of the robot, type, evidence and tags queried
    Callers,
    MaxArtifacts,   \* the maximum_artifacts argument
    EventLimits     \* the maximum_events arguments

ASSUME ArtifactsAssumption ==
    /\ Artifacts \subseteq Nat /\ IsFiniteSet(Artifacts)
    /\ DeploymentOf \in [Artifacts -> Deployments]
    /\ SceneOf \in [Artifacts -> Scenes]
    /\ TaskOf \in [Artifacts -> Tasks]
    /\ Qualified \subseteq Artifacts

(* The defaults of the arguments, which valid() takes for the most there may  *)
(* be; a caller who asks for more outgrows what save() and load() accept.    *)
MostArtifacts == 1000000
MostEvents == 4000000

ASSUME LimitsAssumption ==
    /\ MaxArtifacts \in 1..MostArtifacts
    /\ EventLimits \subseteq 1..MostEvents /\ IsFiniteSet(EventLimits) /\ EventLimits # {}

VARIABLES
    state,          \* of an artifact, or "absent"
    generation,     \* of an artifact
    registered,     \* registered_sequence of an artifact
    events,         \* the audit log; an event's sequence is its index
    seen            \* seen[c]: what caller c last read of an artifact

vars == <<state, generation, registered, events, seen>>

States == {"active", "stale", "quarantined", "retired"}
EventTypes == {"registered", "transition", "reuse", "invalidated"}
Events == [type : EventTypes, artifact : Artifacts, previous : States,
           current : States, task : Tasks, scene : Scenes]
Sights == [artifact : Artifacts, state : States, generation : Nat]

Catalogued == {a \in Artifacts : state[a] # "absent"}

(* make_event(); the scene is that of the query for a reuse. *)
Event(type, a, from, to) ==
    [type |-> type, artifact |-> a, previous |-> from, current |-> to,
     task |-> TaskOf[a], scene |-> SceneOf[a]]

(* A call with the limit n may log one more event. *)
Room(n) == Len(events) < n

(* transition_allowed() *)
TransitionAllowed ==
    {<<"active", "stale">>, <<"active", "quarantined">>, <<"active", "retired">>,
     <<"stale", "quarantined">>, <<"stale", "retired">>, <<"quarantined", "retired">>}

-----------------------------------------------------------------------------
Init ==
    /\ state = [a \in Artifacts |-> "absent"]
    /\ generation = [a \in Artifacts |-> 0]
    /\ registered = [a \in Artifacts |-> 0]
    /\ events = <<>>
    /\ seen = [c \in Callers |-> {}]

(* register_artifact() of a new artifact. *)
Register(a, n) ==
    /\ a \notin Catalogued
    /\ Cardinality(Catalogued) < MaxArtifacts
    /\ Room(n)
    /\ state' = [state EXCEPT ![a] = "active"]
    /\ generation' = [generation EXCEPT ![a] = 1]
    /\ registered' = [registered EXCEPT ![a] = Len(events) + 1]
    /\ events' = Append(events, Event("registered", a, "active", "active"))

(* register_artifact(): a known artifact, whatever its state, is returned as *)
(* it is and nothing is logged.                                              *)
RegisterArtifact(c, a, n) ==
    /\ \/ Register(a, n)
       \/ a \in Catalogued /\ UNCHANGED <<state, generation, registered, events>>
    /\ seen' = [seen EXCEPT ![c] =
                    {[artifact |-> a, state |-> state'[a], generation |-> generation'[a]]}]

(* artifact(), query_reuse() and the other readers. *)
Read(c, a) ==
    /\ a \in Catalogued
    /\ seen' = [seen EXCEPT ![c] =
                    {[artifact |-> a, state |-> state[a], generation |-> generation[a]]}]
    /\ UNCHANGED <<state, generation, registered, events>>

(* transition() with the generation that caller c has seen. *)
Transition(c, s, target, n) ==
    LET a == s.artifact IN
    /\ generation[a] = s.generation
    /\ <<state[a], target>> \in TransitionAllowed
    /\ Room(n)
    /\ state' = [state EXCEPT ![a] = target]
    /\ generation' = [generation EXCEPT ![a] = @ + 1]
    /\ events' = Append(events, Event("transition", a, state[a], target))
    /\ seen' = [seen EXCEPT ![c] = {}]
    /\ UNCHANGED registered

-----------------------------------------------------------------------------
(* The artifacts of S in the order of the catalogue. *)
InOrder(S) ==
    CHOOSE f \in [1..Cardinality(S) -> S] : \A i, j \in DOMAIN f : i < j => f[i] < f[j]

(* The active artifacts of a deployment and a scene. *)
Matching(d, s) ==
    {a \in Artifacts : state[a] = "active" /\ DeploymentOf[a] = d /\ SceneOf[a] = s}

(* Mutant of MakeStale: the generation stays. *)
MakeStaleSilently(S) ==
    /\ state' = [a \in Artifacts |-> IF a \in S THEN "stale" ELSE state[a]]
    /\ events' = events \o [i \in 1..Cardinality(S) |->
                                Event("invalidated", InOrder(S)[i], "active", "stale")]
    /\ UNCHANGED <<generation, registered, seen>>

(* Marks the artifacts of S stale, an event for each. *)
MakeStale(S) ==
    /\ state' = [a \in Artifacts |-> IF a \in S THEN "stale" ELSE state[a]]
    /\ generation' = [a \in Artifacts |-> generation[a] + IF a \in S THEN 1 ELSE 0]
    /\ events' = events \o [i \in 1..Cardinality(S) |->
                                Event("invalidated", InOrder(S)[i], "active", "stale")]
    /\ UNCHANGED <<registered, seen>>

(* Mutant of InvalidateScene: the loop stops when the log is full. *)
InvalidateSceneWhileRoom(d, s, n) ==
    \E S \in SUBSET Matching(d, s) :
        /\ \A a \in S, b \in Matching(d, s) \ S : a < b
        /\ S # {} => Len(events) + Cardinality(S) <= n
        /\ S # Matching(d, s) => Len(events) + Cardinality(S) = n
        /\ MakeStale(S)

(* invalidate_scene(): all the matching artifacts or, if the log has no room *)
(* for all their events, none; a log over the limit does no harm when there  *)
(* is nothing to invalidate.                                                 *)
InvalidateScene(d, s, n) ==
    /\ Matching(d, s) # {} => Len(events) + Cardinality(Matching(d, s)) <= n
    /\ MakeStale(Matching(d, s))

-----------------------------------------------------------------------------
(* Mutant of Direct: a stale artifact of the right scene is reused. *)
DirectUnlessRetired(a, q) ==
    /\ DeploymentOf[a] = q.deployment
    /\ a \in Qualified
    /\ q.sameTask \/ TaskOf[a] # q.task
    /\ state[a] \notin {"quarantined", "retired"}
    /\ SceneOf[a] = q.scene

(* assess(): the artifact may be reused without validating it again. *)
Direct(a, q) ==
    /\ DeploymentOf[a] = q.deployment
    /\ a \in Qualified
    /\ q.sameTask \/ TaskOf[a] # q.task
    /\ state[a] = "active"
    /\ SceneOf[a] = q.scene

Queries == [deployment : Deployments, scene : Scenes, task : Tasks, sameTask : BOOLEAN]

(* record_reuse(): assessed again, whatever the caller had been told. *)
RecordReuse(c, s, q, n) ==
    LET a == s.artifact IN
    /\ Direct(a, q)
    /\ Room(n)
    /\ events' = Append(events,
                    [Event("reuse", a, state[a], state[a]) EXCEPT !.task = q.task, !.scene = q.scene])
    /\ UNCHANGED <<state, generation, registered, seen>>

About(a) == {i \in 1..Len(events) : events[i].artifact = a}
Changes(a) == {i \in About(a) : events[i].type \in {"transition", "invalidated"}}

(* validate_memory_event() and what valid() asks of an event by itself. *)
EventValid(e) ==
    /\ e.type = "registered" => e.previous = "active" /\ e.current = "active"
    /\ e.type = "reuse" => e.current = e.previous
    /\ e.type \in {"transition", "invalidated"} => <<e.previous, e.current>> \in TransitionAllowed
    /\ e.type # "reuse" => e.task = TaskOf[e.artifact]

(* The replay of the events about an artifact: it is registered once and      *)
(* first, every event continues from where the one before it ended, and the   *)
(* catalogue shows where the last one ended and how many changed it.         *)
Replays(a) ==
    IF a \notin Catalogued THEN About(a) = {}
    ELSE /\ registered[a] \in About(a)
         /\ \A i \in About(a) : registered[a] <= i
         /\ \A i \in About(a) : events[i].type = "registered" <=> i = registered[a]
         /\ generation[a] = 1 + Cardinality(Changes(a))
         /\ \A i \in About(a) :
               LET later == {j \in About(a) : j > i} IN
               IF later = {} THEN events[i].current = state[a]
               ELSE \E j \in later : /\ \A k \in later : j <= k
                                     /\ events[j].previous = events[i].current

(* SafetyMemory::valid(), which save() and load() require. *)
Valid ==
    /\ Cardinality(Catalogued) <= MostArtifacts /\ Len(events) <= MostEvents
    /\ \A i \in 1..Len(events) : EventValid(events[i])
    /\ \A a \in Artifacts : Replays(a)

Next ==
    \E n \in EventLimits :
        \/ \E c \in Callers :
              \/ \E a \in Artifacts : RegisterArtifact(c, a, n) \/ Read(c, a)
              \/ \E s \in seen[c] : \/ \E target \in States : Transition(c, s, target, n)
                                    \/ \E q \in Queries : RecordReuse(c, s, q, n)
        \/ \E d \in Deployments, s \in Scenes : InvalidateScene(d, s, n)

Spec == Init /\ [][Next]_vars

-----------------------------------------------------------------------------
(* The members of SafetyMemory and what callers have read have their types.  *)
TypeOK ==
    /\ state \in [Artifacts -> States \cup {"absent"}]
    /\ generation \in [Artifacts -> Nat]
    /\ Cardinality(Catalogued) <= MaxArtifacts
    /\ registered \in [Artifacts -> 0..Len(events)]
    /\ events \in Seq(Events) /\ \E n \in EventLimits : Len(events) <= n
    /\ seen \in [Callers -> SUBSET Sights]

(* The log always replays to the catalogue: whatever the calls and in        *)
(* whatever order, save() accepts the memory and load() takes it back.       *)
LogReplays == Valid

(* An artifact is only ever reused while it is current: no reuse is logged   *)
(* after it left the active state or after its scene was invalidated for its *)
(* deployment, and none for another scene, however old the answer that the   *)
(* caller acts on (docs/safety-memory.md:42-55).                             *)
ReuseIsCurrent ==
    \A i \in 1..Len(events) : events[i].type = "reuse" =>
        LET a == events[i].artifact IN
        /\ events[i].scene = SceneOf[a]
        /\ \A j \in registered[a]..(i - 1) :
              /\ j \notin Changes(a)
              /\ events[j].type = "invalidated" /\ SceneOf[events[j].artifact] = SceneOf[a]
                    => DeploymentOf[events[j].artifact] # DeploymentOf[a]

(* Whoever changes an artifact's state had seen the state that it changes:   *)
(* the expected generation rules out a change in between, by another caller  *)
(* or by an invalidation of the scene (docs/safety-memory.md:30-33).         *)
(* And invalidate_scene() leaves no active artifact of the scene behind, or  *)
(* leaves everything as it was (docs/safety-memory.md:35-38).                *)
SawPrevious(c) == \A s \in seen[c] : seen'[c] = {} => s.state = events'[Len(events')].previous
InvalidatedWhole(d, s) ==
    (\E i \in (Len(events) + 1)..Len(events') :
        /\ events'[i].type = "invalidated"
        /\ events'[i].scene = s /\ DeploymentOf[events'[i].artifact] = d)
    => ~\E a \in Artifacts : state'[a] = "active" /\ DeploymentOf[a] = d /\ SceneOf[a] = s

ChangesAreSeenAndWhole ==
    [][/\ \A c \in Callers : SawPrevious(c)
       /\ \A d \in Deployments, s \in Scenes : InvalidatedWhole(d, s)]_vars
=============================================================================
