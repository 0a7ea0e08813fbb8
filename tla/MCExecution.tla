----------------------------- MODULE MCExecution ------------------------------
(* A session comes to be and a ledger records it, each in a part of the run   *)
(* that is chosen at the start.                                               *)
(*                                                                            *)
(* Ledger: two commands, due at times 1 and 2 and dispatched at once or one   *)
(* late; the first must start at 1, the session ends at 2 and time goes on    *)
(* to 3.  Session: two reviewers in two roles, of which one key is revoked    *)
(* by a rotation, two requests, and one session, observation and grant.       *)
EXTENDS ExecutionLedger, TLC

CONSTANTS p1, p2, k1, k2, s1, s2

VARIABLES part, head, time, approvals, reviewed, requests, consents,
          acknowledged, observations, sessions, authorizations

MCProcs == {p1, p2}
MCOffset == 0 :> 0 @@ 1 :> 1
MCSignings == {1, 2}

ServiceKeys == {k1, k2}
InUse == [state |-> "active", through |-> 0]
Revoked == [state |-> "revoked", through |-> 0]
Session == INSTANCE ExecutionSession WITH
    Keys <- ServiceKeys, ServiceOf <- k1 :> s1 @@ k2 :> s2, ValidFrom <- k1 :> 1 @@ k2 :> 1,
    MayRotate <- ServiceKeys, Quorum <- 1, Distinct <- FALSE,
    Rotations <- <<k1 :> InUse @@ k2 :> InUse, k1 :> Revoked @@ k2 :> InUse>>,
    RequiredRoles <- {"safety"}, MinimumApprovals <- 2, DistinctServices <- TRUE,
    MaxAge <- 2, MaxLatency <- 1, MaxPeriod <- 1, Offsets <- <<0, 1>>, MaxTime <- 4,
    MaxReviews <- 1, MaxRequests <- 2, MaxObservations <- 1, MaxSessions <- 1, MaxGrants <- 1,
    Reviewers <- {<<k1, "safety">>, <<k2, "controls">>}
ASSUME SessionAssumption == Session!Aged
sessionVars == <<head, time, approvals, reviewed, requests, consents,
                 acknowledged, observations, sessions, authorizations>>

MCInit ==
    /\ Init
    /\ Session!Init
    /\ part \in {"ledger", "session"}

(* A session ends when its bounds are reached. *)
MCNext ==
    /\ UNCHANGED part
    /\ \/ part = "ledger" /\ Next
       \/ part = "session" /\ UNCHANGED vars
    /\ \/ part = "session" /\ Session!Next
       \/ UNCHANGED sessionVars

MCSpec == MCInit /\ [][MCNext]_<<part, vars, sessionVars>>

(* Sound: no property of the run tells the processes apart or is a liveness   *)
(* property.                                                                  *)
Symmetric == Permutations(MCProcs)

(* authorize_command(), load_bounded_execution_session(): see                *)
(* GrantsAreReviewed and SessionsLoad of ExecutionSession.                   *)
GrantsAreReviewed == Session!GrantsAreReviewed /\ Session!SessionsLoad
=============================================================================
