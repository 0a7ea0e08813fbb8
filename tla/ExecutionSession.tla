--------------------------- MODULE ExecutionSession ---------------------------
(***************************************************************************)
(* How a command comes to be authorized (src/deployment.cpp,                 *)
(* src/execution.cpp): reviewers approve a deployment profile under the head *)
(* of a trust history, the same reviewers approve a request for one bounded  *)
(* session, the controller acknowledges it and the runtime monitor signs an  *)
(* observation of it; a session that verifies all this grants commands.      *)
(*                                                                           *)
(* Every message that was signed stays available and may be presented with   *)
(* any request.  The digests of robot, scene, Atlas and runtime are those of *)
(* one deployment, and the command sequence is certified: what is left of a  *)
(* snapshot are the ages and delays.                                         *)
(***************************************************************************)
EXTENDS ServiceTrust, Sequences

CONSTANTS
    Rotations,          \* the tables of keys that the trust history goes through
    RequiredRoles,      \* of the review policy
    MinimumApprovals,
    DistinctServices,   \* require_distinct_services
    MaxAge,             \* maximum_observation_age_ns, and so on
    MaxLatency,
    MaxPeriod,
    Offsets,            \* scheduled_offset_ns of the commands, from the first
    MaxTime,            \* bound: monotonic time
    MaxReviews,         \* bound: reviewed profiles
    MaxRequests,        \* bound: requests made
    MaxObservations,    \* bound: observations signed
    MaxSessions,        \* bound: sessions built
    MaxGrants,          \* bound: commands authorized
    Reviewers           \* bound: <<key, role>> in which reviewers sign

VARIABLES
    head,               \* bundles in the trust history
    time,               \* the monotonic clock of monitor and controller
    approvals,          \* DeploymentProfileApproval: [profile, key, role]
    reviewed,           \* ReviewedDeploymentProfile: [profile, signers]
    requests,           \* ExecutionSessionRequest
    consents,           \* ExecutionSessionApproval: [request, key, role]
    acknowledged,       \* requests that the controller acknowledged
    observations,       \* ExecutionMonitorAcknowledgement
    sessions,           \* BoundedExecutionSession
    authorizations      \* ExecutionCommandAuthorization

(* Ages are numbers. *)
Aged == MaxAge \in Nat

signed == <<approvals, consents, acknowledged, observations>>
vars == <<head, time, signed, reviewed, requests, sessions, authorizations>>

(* A profile is bound to the checkpoint at one head of the history. *)
Profiles == 1..Len(Rotations)
Times == 1..MaxTime
MonitorStates == {"armed", "other"}

(* validate_profile_approval_policy(), validate_session_approval_policy():   *)
(* enough signers, from enough services, in all of the roles.                *)
MeetsPolicy(signers) ==
    /\ Cardinality(signers) >= MinimumApprovals
    /\ DistinctServices => Cardinality({ServiceOf[s[1]] : s \in signers}) >= MinimumApprovals
    /\ RequiredRoles \subseteq {s[2] : s \in signers}

OncePerKey(signers) == \A s, t \in signers : s[1] = t[1] => s = t

(* verify_deployment_profile_approvals() under the profile's own bundle. *)
ProfileApproved(profile, signers) ==
    /\ OncePerKey(signers) /\ MeetsPolicy(signers)
    /\ \A s \in signers :
          /\ TrustedAt(s[1], Rotations[profile][s[1]], profile)
          /\ [profile |-> profile, key |-> s[1], role |-> s[2]] \in approvals

(* ReviewedDeploymentProfile::create(): the checkpoint that the profile      *)
(* names is the one at the present head (verify_service_trust_checkpoint()). *)
Reviewable(profile, signers) == profile = head /\ ProfileApproved(profile, signers)

(* Mutant of RequestApproved: signatures for any request of the profile do. *)
RequestApprovedByProfile(request, signers) ==
    /\ OncePerKey(signers) /\ MeetsPolicy(signers)
    /\ signers \subseteq request.reviewed.signers
    /\ \A s \in signers :
          /\ TrustedAt(s[1], Rotations[request.reviewed.profile][s[1]], request.reviewed.profile)
          /\ \E r \in requests :
                /\ r.reviewed = request.reviewed
                /\ [request |-> r, key |-> s[1], role |-> s[2]] \in consents

(* verify_execution_session_approvals(): signers of the profile, in the same *)
(* roles, approve this request.                                              *)
RequestApproved(request, signers) ==
    /\ OncePerKey(signers) /\ MeetsPolicy(signers)
    /\ signers \subseteq request.reviewed.signers
    /\ \A s \in signers :
          /\ TrustedAt(s[1], Rotations[request.reviewed.profile][s[1]], request.reviewed.profile)
          /\ [request |-> request, key |-> s[1], role |-> s[2]] \in consents

(* ReviewedDeploymentProfile::assess() *)
Conformant(o) == o.age <= MaxAge /\ o.latency <= MaxLatency

(* create(): the session would go on when the observation is too old. *)
OutlivesObservation(request, o) ==
    o.age > MaxAge \/ request.duration > MaxAge - o.age

-----------------------------------------------------------------------------
Init ==
    /\ head = 1
    /\ time = 1
    /\ approvals = {} /\ reviewed = {} /\ requests = {} /\ consents = {}
    /\ acknowledged = {} /\ observations = {} /\ sessions = {} /\ authorizations = {}

(* External: the trust history gets its next bundle and checkpoint. *)
RotateTrust ==
    /\ head < Len(Rotations)
    /\ head' = head + 1
    /\ UNCHANGED <<time, signed, reviewed, requests, sessions, authorizations>>

(* External: time passes, which nothing looks at before an observation. *)
Tick ==
    /\ time < MaxTime
    /\ observations # {}
    /\ time' = time + 1
    /\ UNCHANGED <<head, signed, reviewed, requests, sessions, authorizations>>

(* sign_deployment_profile_approval(): a profile names a checkpoint. *)
ApproveProfile(profile, key, role) ==
    /\ profile <= head
    /\ approvals' = approvals \cup {[profile |-> profile, key |-> key, role |-> role]}
    /\ UNCHANGED <<head, time, reviewed, requests, consents, acknowledged, observations,
                   sessions, authorizations>>

Review(profile, signers) ==
    /\ Cardinality(reviewed) < MaxReviews
    /\ Reviewable(profile, signers)
    /\ reviewed' = reviewed \cup {[profile |-> profile, signers |-> signers]}
    /\ UNCHANGED <<head, time, signed, requests, sessions, authorizations>>

(* ExecutionSessionRequest::create(): the limits are those of the profile,   *)
(* and the commands are within them; the number is a fresh nonce.            *)
Request(r, start, duration) ==
    /\ Cardinality(requests) < MaxRequests
    /\ start <= duration
    /\ start <= MaxAge /\ duration <= MaxAge
    /\ \A i \in 2..Len(Offsets) : Offsets[i] - Offsets[i - 1] <= MaxPeriod
    /\ Offsets[Len(Offsets)] <= duration
    /\ requests' = requests \cup
          {[reviewed |-> r, nonce |-> Cardinality(requests), start |-> start, duration |-> duration]}
    /\ UNCHANGED <<head, time, signed, reviewed, sessions, authorizations>>

(* sign_execution_session_approval(): for a profile approval of the key. *)
ApproveRequest(request, approval) ==
    /\ consents' = consents \cup {[request |-> request, key |-> approval.key, role |-> approval.role]}
    /\ UNCHANGED <<head, time, approvals, reviewed, requests, acknowledged, observations,
                   sessions, authorizations>>

(* sign_execution_controller_acknowledgement() *)
Acknowledge(request) ==
    /\ acknowledged' = acknowledged \cup {request}
    /\ UNCHANGED <<head, time, approvals, reviewed, requests, consents, observations,
                   sessions, authorizations>>

(* ExecutionRuntimeObservation::create(),                                    *)
(* sign_execution_monitor_acknowledgement(): what the monitor sees now, with *)
(* a snapshot of the runtime that is some time old.                          *)
Observe(request, state, age, latency) ==
    /\ Cardinality(observations) < MaxObservations
    /\ observations' = observations \cup
          {[request |-> request, time |-> time, state |-> state, age |-> age, latency |-> latency]}
    /\ UNCHANGED <<head, time, approvals, reviewed, requests, consents, acknowledged,
                   sessions, authorizations>>

(* BoundedExecutionSession::create() can build the session of these parts. *)
Constructible(request, signers, o) ==
    /\ RequestApproved(request, signers)
    /\ request \in acknowledged
    /\ o.request = request
    /\ o.state = "armed"
    /\ Conformant(o)
    /\ ~OutlivesObservation(request, o)

CreateSession(request, signers, o) ==
    /\ Cardinality(sessions) < MaxSessions
    /\ Constructible(request, signers, o)
    /\ sessions' = sessions \cup {[request |-> request, signers |-> signers, observation |-> o]}
    /\ UNCHANGED <<head, time, signed, reviewed, requests, authorizations>>

(* authorize_command(): command i may be dispatched now. *)
Authorize(s, i) ==
    LET from == s.observation.time + Offsets[i] IN
    /\ Cardinality(authorizations) < MaxGrants
    /\ from <= time /\ time <= from + s.observation.latency
    /\ time <= s.observation.time + s.request.duration
    /\ i = 1 => time <= s.observation.time + s.request.start
    /\ authorizations' = authorizations \cup {[session |-> s, command |-> i, dispatch |-> time]}
    /\ UNCHANGED <<head, time, signed, reviewed, requests, sessions>>

(* load_bounded_execution_session(): the profile is reviewed again under the *)
(* caller's checkpoint and the session built again from its parts.           *)
Loads(s) ==
    /\ Reviewable(s.request.reviewed.profile, s.request.reviewed.signers)
    /\ Constructible(s.request, s.signers, s.observation)

Next ==
    \/ RotateTrust
    \/ Tick
    \/ \E profile \in Profiles :
          \/ \E reviewer \in Reviewers : ApproveProfile(profile, reviewer[1], reviewer[2])
          \/ \E signers \in SUBSET Reviewers : Review(profile, signers)
    \/ \E r \in reviewed, start, duration \in 1..MaxAge : Request(r, start, duration)
    \/ \E request \in requests :
          \/ \E approval \in approvals : ApproveRequest(request, approval)
          \/ Acknowledge(request)
          \/ \E state \in MonitorStates, age \in 0..MaxAge, latency \in 0..MaxLatency :
                Observe(request, state, age, latency)
          \/ \E signers \in SUBSET Reviewers, o \in observations :
                CreateSession(request, signers, o)
    \/ \E s \in sessions, i \in 1..Len(Offsets) : Authorize(s, i)

Spec == Init /\ [][Next]_vars

-----------------------------------------------------------------------------
(* authorize_command(): whatever was signed for which request and in which   *)
(* order, a command is granted only if signers that meet the review policy   *)
(* approved the profile and this very request, the controller acknowledged   *)
(* it, and the monitor saw it armed, no longer ago at dispatch than the      *)
(* reviewed age of an observation, the age it had when it was signed         *)
(* included (docs/bounded-execution-session-format.md:20-40).                *)
GrantsAreReviewed ==
    \A a \in authorizations :
        LET request == a.session.request
            o == a.session.observation
        IN /\ MeetsPolicy(a.session.signers)
           /\ \A s \in a.session.signers :
                 /\ [profile |-> request.reviewed.profile, key |-> s[1], role |-> s[2]] \in approvals
                 /\ [request |-> request, key |-> s[1], role |-> s[2]] \in consents
           /\ request \in acknowledged
           /\ o \in observations /\ o.request = request /\ o.state = "armed"
           /\ a.dispatch - (o.time - o.age) <= MaxAge

(* load_bounded_execution_session(): a session that was saved loads until    *)
(* the trust history moves past the checkpoint of its profile, and never     *)
(* after that.                                                               *)
SessionsLoad ==
    \A s \in sessions : Loads(s) <=> s.request.reviewed.profile = head
=============================================================================
