----------------------------- MODULE MCCatalogue ------------------------------
(* What a fleet remembers and agrees on, in one run of which a part is chosen *)
(* at the start: the catalogue of a safety memory; the sweep over the         *)
(* reservations of a fleet; the archive of fleet schedules; the reservation   *)
(* agreements of two deployments; the artifact exchanges of a client and a    *)
(* service; and the journal of that client, with one request.                 *)
(*                                                                            *)
(* Catalogue: two artifacts of one deployment and scene, of different tasks,  *)
(* and a third of another deployment in the same scene, of which two fit; the *)
(* log ends after five events, too early to invalidate two artifacts after    *)
(* certain histories, and some calls want it to end after three.  Sweep: two  *)
(* robots whose envelopes share a point, three reservations over windows that *)
(* nest, meet and follow each other.  Archive: one box and two windows, but   *)
(* two callers and three versions.  Agreements: one history has a copy, and   *)
(* its publisher revokes its first key.                                       *)
EXTENDS SafetyMemory, TLC

CONSTANTS d1, d2, s1, s2, t1, t2, c1, c2, r1, r2, a1, a2, b1
CONSTANTS q1, q2, u1, u2, h1, h2, k1, k2, v1, plan, x1, x2, y1, y2, none

VARIABLES part, active, reservations, versions, heads
VARIABLES chain, bundles, candidate, accepted
VARIABLES memory, requests, responses, attestations, journal, saved,
          destination, aside, saving, older, step

MCArtifacts == 1..3
MCDeployments == {d1, d2}
MCScenes == {s1, s2}
MCTasks == {t1, t2}
MCDeploymentOf == 1 :> d1 @@ 2 :> d1 @@ 3 :> d2
MCSceneOf == [a \in MCArtifacts |-> s1]
MCTaskOf == 1 :> t1 @@ 2 :> t2 @@ 3 :> t1
MCQualified == {1, 3}
MCEventLimits == {3, 5}
MCCallers == {c1, c2}

Robots == {r1, r2}
RobotEnvelope == r1 :> <<0, 1>> @@ r2 :> <<1, 3>>
Sweep == INSTANCE FleetSchedule WITH
    seen <- heads, Deployments <- Robots, Envelope <- RobotEnvelope,
    Sources <- {a1, b1}, SourceOf <- a1 :> r1 @@ b1 :> r2,
    Boxes <- {<<0, 1>>, <<1, 1>>, <<2, 3>>},
    Windows <- {<<0, 1>>, <<1, 1>>, <<1, 2>>, <<0, 3>>, <<2, 3>>},
    Margins <- {0, 2}, Callers <- {c1},
    MaxReservations <- 3, MaxPairs <- 2, MaxVersions <- 1
Archive == INSTANCE FleetSchedule WITH
    seen <- heads, Deployments <- Robots, Envelope <- RobotEnvelope,
    Sources <- {a1, a2, b1}, SourceOf <- a1 :> r1 @@ a2 :> r1 @@ b1 :> r2,
    Boxes <- {<<1, 1>>}, Windows <- {<<0, 1>>, <<0, 2>>},
    Margins <- {0}, Callers <- MCCallers,
    MaxReservations <- 2, MaxPairs <- 1, MaxVersions <- 3
ASSUME FleetAssumption == Sweep!Measured /\ Archive!Measured
fleetVars == <<active, reservations, versions, heads>>

Partners == {q1, q2}
Copies == {h1, h2}
Payloads == {x1, x2}
InUse == [state |-> "active", through |-> 0]
Revoked == [state |-> "revoked", through |-> 0]
Missing == [state |-> "absent", through |-> 0]
Agreement == INSTANCE ReservationAgreement WITH
    Deployments <- Partners, Branches <- Copies, Publishers <- {u1, u2}, Copied <- {u1},
    Plans <- {plan}, Separated <- {plan}, Horizon <- plan :> <<1, 2>>,
    Program <- <<[plan |-> plan, from |-> 1, through |-> 1],
                 [plan |-> plan, from |-> 1, through |-> 2],
                 [plan |-> plan, from |-> 2, through |-> 2]>>,
    Rotations <- u1 :> <<k1 :> InUse @@ k2 :> Missing, k1 :> Revoked @@ k2 :> InUse>> @@
                 u2 :> <<k1 :> InUse @@ k2 :> Missing>>,
    Keys <- {k1, k2}, ServiceOf <- k1 :> v1 @@ k2 :> v1, ValidFrom <- k1 :> 1 @@ k2 :> 2,
    MayRotate <- {k1, k2}, Quorum <- 1, Distinct <- FALSE, MaxRounds <- 2
agreementVars == <<chain, bundles, candidate, accepted>>

Transfer == INSTANCE ArtifactTransfer WITH
    Contents <- Payloads, Policies <- {"none", "hmac"}, ServiceKeys <- {y1, y2},
    TrustedKey <- y1, MaxChanges <- 2, MaxRequests <- 2, MaxSequence <- 1,
    MaxRecords <- 2, Absent <- none
transferVars == <<memory, requests, responses, attestations, journal, saved,
                  destination, aside, saving, older, step>>

MCInit ==
    /\ Init /\ Agreement!Init /\ Transfer!Init
    /\ \/ part \in {"catalogue", "archive", "agreements", "exchanges", "journal"} /\ Archive!Init
       \/ part = "sweep" /\ Sweep!Init

(* Agreements and exchanges end where their bounds are reached. *)
MCNext ==
    /\ UNCHANGED part
    /\ \/ part = "catalogue" /\ Next
       \/ part # "catalogue" /\ UNCHANGED vars
    /\ \/ part = "sweep" /\ Sweep!Next
       \/ part = "archive" /\ Archive!Next
       \/ part \notin {"sweep", "archive"} /\ UNCHANGED fleetVars
    /\ \/ part = "agreements" /\ Agreement!Next
       \/ UNCHANGED agreementVars
    /\ \/ part = "exchanges" /\ Transfer!Exchange
       \/ part = "journal" /\ Transfer!Next /\ UNCHANGED memory /\ Cardinality(requests') <= 1
       \/ part # "journal" /\ UNCHANGED transferVars

MCSpec == MCInit /\ [][MCNext]_<<part, vars, fleetVars, agreementVars, transferVars>>

Symmetry == Permutations(Partners) \cup Permutations(Copies) \cup Permutations(Payloads)

(* analyze_fleet(), the archive: see ConflictsExact, NoVersionTwice,          *)
(* ArchiveLasts and SourcesAreCurrent of FleetSchedule.                       *)
SchedulesAreExact ==
    /\ Sweep!ConflictsExact /\ Archive!NoVersionTwice
    /\ part = "archive" => Archive!ArchiveLasts
SourcesAreCurrent == Archive!SourcesAreCurrent

(* Agreements: see AgreementsReplay and RoundsExtend of ReservationAgreement. *)
AgreementsHold == Agreement!AgreementsReplay /\ Agreement!RoundsExtend

(* ArtifactTransferJournal: see TransfersHappened and SavedIsKept there. *)
JournalIsTrue == Transfer!TransfersHappened /\ Transfer!SavedIsKept
=============================================================================
