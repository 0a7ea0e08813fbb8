------------------------ MODULE CalibrationLifecycle ------------------------
(***************************************************************************)
(* PolicyCalibrationLifecycle (src/calibration_lifecycle.cpp): the history   *)
(* of one calibration profile, and the gate that consults it.                *)
(*                                                                           *)
(* An event id is a hash over the event and its parent's id, so the id of    *)
(* the head is modelled by the whole sequence of events, from which state,   *)
(* generation and reports follow.  An assessment enters by its status: the   *)
(* statistics are a function of the window and the options.                  *)
(***************************************************************************)
EXTENDS Naturals, Sequences

CONSTANTS
    Callers,        \* who assesses and who reviews
    Windows,        \* the sequence numbers of observation windows
    EventLimits,    \* the maximum_events arguments
    MaxReloads      \* bound on how often the object is lost and loaded again

ASSUME WindowsAssumption == Windows \subseteq Nat
ASSUME LimitsAssumption ==
    EventLimits \subseteq Nat \ {0} /\ EventLimits # {} /\ MaxReloads \in Nat

VARIABLES
    history,        \* events of the object in memory
    saved,          \* how many of them the saved file holds, or 0 without a file
    seen,           \* seen[c]: the head that caller c expects, or <<>>
    reloads         \* how often the object was loaded from the file

vars == <<history, saved, seen, reloads>>

States == {"pending", "active", "quarantined", "retired"}
Statuses == {"insufficient", "stable", "drift"}
Events ==
    [type : {"registered"}, current : {"pending"}]
        \cup [type : {"assessed"}, status : Statuses, window : Windows, current : States]
        \cup [type : {"transition"}, current : States]

Registered == [type |-> "registered", current |-> "pending"]

State(h) == h[Len(h)].current

Assessed(h, i, status) == h[i].type = "assessed" /\ h[i].status = status
Moved(h, i, state) == h[i].type = "transition" /\ h[i].current = state

(* There is a report, and the last one has this status. *)
LatestIs(h, status) ==
    \E i \in 1..Len(h) : /\ Assessed(h, i, status)
                        /\ \A j \in (i + 1)..Len(h) : h[j].type # "assessed"

(* state_after_assessment() *)
StateAfterAssessment(state, status) ==
    CASE status = "drift" -> "quarantined"
      [] status = "insufficient" /\ state = "active" -> "pending"
      [] OTHER -> state

(* Mutant of TransitionAllowed: a stable report ends a quarantine. *)
TransitionAllowedOnStable(h, target) ==
    /\ target # State(h)
    /\ State(h) # "retired"
    /\ target = "active" => LatestIs(h, "stable")

(* transition_allowed() *)
TransitionAllowed(h, target) ==
    /\ target # State(h)
    /\ State(h) # "retired"
    /\ State(h) = "pending" /\ target = "active" => LatestIs(h, "stable")
    /\ State(h) = "quarantined" => target # "active"

(* deployment_ready() *)
DeploymentReady(h) == State(h) = "active" /\ LatestIs(h, "stable")

-----------------------------------------------------------------------------
(* create(); a lifecycle begins with the registration of its profile. *)
Init ==
    /\ history = <<Registered>>
    /\ saved = 0
    /\ seen = [c \in Callers |-> <<>>]
    /\ reloads = 0

(* Callers read the head some time before they act on it. *)
ReadHead(c) ==
    /\ seen' = [seen EXCEPT ![c] = history]
    /\ UNCHANGED <<history, saved, reloads>>

(* Mutant of HeadIsExpected: any head of the same generation will do. *)
GenerationIsExpected(c) == Len(seen[c]) = Len(history)

(* The call is made for the head that the caller expects. *)
HeadIsExpected(c) == seen[c] = history

(* Mutant of Assess: a retired profile is assessed like any other. *)
AssessRetired(c, window, status, n) ==
    /\ HeadIsExpected(c)
    /\ Len(history) < n
    /\ \A i \in 1..Len(history) : history[i].type = "assessed" => history[i].window < window
    /\ history' = Append(history,
            [type |-> "assessed", status |-> status, window |-> window,
             current |-> StateAfterAssessment(State(history), status)])
    /\ UNCHANGED <<saved, seen, reloads>>

(* assess() *)
Assess(c, window, status, n) ==
    /\ HeadIsExpected(c)
    /\ State(history) # "retired"
    /\ Len(history) < n
    /\ \A i \in 1..Len(history) : history[i].type = "assessed" => history[i].window < window
    /\ history' = Append(history,
            [type |-> "assessed", status |-> status, window |-> window,
             current |-> StateAfterAssessment(State(history), status)])
    /\ UNCHANGED <<saved, seen, reloads>>

(* transition() *)
Transition(c, target, n) ==
    /\ HeadIsExpected(c)
    /\ Len(history) < n
    /\ TransitionAllowed(history, target)
    /\ history' = Append(history, [type |-> "transition", current |-> target])
    /\ UNCHANGED <<saved, seen, reloads>>

(* save() with overwrite; the file is replaced in one step here. *)
Save ==
    /\ saved' = Len(history)
    /\ UNCHANGED <<history, seen, reloads>>

(* The process ends or dies and load() starts from the saved file: later     *)
(* events are lost, but not the heads that callers have seen.                *)
Reload ==
    /\ saved # 0
    /\ reloads < MaxReloads
    /\ reloads' = reloads + 1
    /\ history' = SubSeq(history, 1, saved)
    /\ UNCHANGED <<saved, seen>>

Next ==
    \/ Save \/ Reload
    \/ \E c \in Callers :
          \/ ReadHead(c)
          \/ \E n \in EventLimits :
                \/ \E w \in Windows, s \in Statuses : Assess(c, w, s, n)
                \/ \E target \in States : Transition(c, target, n)

Spec == Init /\ [][Next]_vars
-----------------------------------------------------------------------------
(* check_proposals_guarded() lets proposals of caller c through to the       *)
(* checks of profile and geometry.                                           *)
GateOpen(c) == DeploymentReady(history) /\ seen[c] = history

(* The object, its file and what callers have seen have their types.         *)
TypeOK ==
    /\ history \in Seq(Events) /\ \E n \in EventLimits : Len(history) <= n
    /\ saved \in 0..Len(history)
    /\ seen \in [Callers -> Seq(Events)]
    /\ reloads \in 0..MaxReloads

(* In the first n events there is an activation k that followed a stable      *)
(* assessment, after which only stable windows were assessed, and before      *)
(* which every drift was answered by a reviewer and a stable window.          *)
Reviewed(h, n) ==
    \E k \in 2..n :
        /\ Moved(h, k, "active")
        /\ \E s \in 2..(k - 1) : Assessed(h, s, "stable")
        /\ \A i \in (k + 1)..n : Assessed(h, i, "stable")
        /\ \A i \in 2..n : Assessed(h, i, "drift") =>
               \E p, s \in (i + 1)..(k - 1) : Moved(h, p, "pending") /\ Assessed(h, s, "stable")

(* The gate opens only for a history in which every detected drift was       *)
(* answered: afterwards a reviewer took the profile out of quarantine, a     *)
(* stable window was assessed, and a reviewer activated it on that stable    *)
(* assessment; and nothing but stable windows was assessed since             *)
(* (docs/policy-calibration-lifecycle.md:98-103).                             *)
GateOpensAfterReview == \A c \in Callers : GateOpen(c) => Reviewed(history, Len(history))

(* A decision is made on the history that its caller has seen: no assessment *)
(* and no reload, not even one that leads to another history of the same     *)
(* generation, comes between the reading of a head and the event that        *)
(* follows it (docs/policy-calibration-lifecycle.md:105-111).                 *)
DecisionsAreInformed ==
    [][Len(history') > Len(history) => \E c \in Callers : seen[c] = SubSeq(history', 1, Len(history') - 1)]_vars

(* Retirement is final: only a reload of an older file, which the head that  *)
(* the callers saw exposes, takes a profile out of it.                       *)
RetiredIsFinal ==
    [][State(history) = "retired" => history' = history \/ reloads' > reloads]_vars
=============================================================================
