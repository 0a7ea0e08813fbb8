--------------------------- MODULE MCTrustHistory ---------------------------
(* A trust history, and what its keys attest, each in a part of the run that  *)
(* is chosen at the start.                                                    *)
(*                                                                            *)
(* History: three keys of two services.  Two rotate keys are needed, one of   *)
(* each service; the third key starts at sequence 2 and may be added in any   *)
(* state.  Provenance: a truthful and a lying source and two statements of    *)
(* two attesters, with a rotation that retires one of them.                   *)
EXTENDS TrustHistory, TLC

CONSTANTS p1, p2, k1, k2, k3, s1, s2

VARIABLES part, head, time, statements, assertions

MCProcs == {p1, p2}
MCKeys == {k1, k2, k3}
MCServiceOf == k1 :> s1 @@ k2 :> s2 @@ k3 :> s2
MCValidFrom == k1 :> 1 @@ k2 :> 1 @@ k3 :> 2
MCMayRotate == MCKeys

InUse == [state |-> "active", through |-> 0]
MCRoots == {k1 :> InUse @@ k2 :> InUse @@ k3 :> Absent}

(* Windows are open or end at 2, so that a key may be in its last sequence    *)
(* when the third bundle needs authorising.                                  *)
Bounded(state) == [state |-> state, through |-> 2]
MCTables ==
    {k1 :> a @@ k2 :> b @@ k3 :> c :
        a \in {InUse, Bounded("active")},
        b \in {InUse, Bounded("active"), Bounded("retired")},
        c \in {Absent, [InUse EXCEPT !.state = "pending"], InUse, [InUse EXCEPT !.state = "revoked"]}}

Attesters == {k1, k2}
Attested == INSTANCE Provenance WITH
    Keys <- Attesters, ServiceOf <- k1 :> s1 @@ k2 :> s2, ValidFrom <- k1 :> 1 @@ k2 :> 1,
    MayRotate <- Attesters, Quorum <- 1, Distinct <- FALSE,
    Rotations <- <<k1 :> InUse @@ k2 :> InUse, k1 :> Bounded("retired") @@ k2 :> InUse>>,
    Scopes <- {"origin"}, RequiredScopes <- {"origin"}, Adapters <- {"pinned"}, AllowedAdapters <- {"pinned"},
    AllowedAuthorities <- Attesters, MinimumStatements <- 2, DistinctAttesters <- TRUE, MaximumChain <- 2,
    AllowedSources <- Attesters, MinimumSources <- 2, DistinctSources <- TRUE, MaximumAssertions <- 3,
    MaxAge <- 0, MaxSkew <- 0, MaxUncertainty <- 1, Truthful <- {k1}, Limit <- 3, MaxTime <- 2,
    Subjects <- {k1}, MaxStatements <- 2, MaxAssertions <- 2
attestedVars == <<head, time, statements, assertions>>

MCInit ==
    /\ Init
    /\ Attested!Init
    /\ part \in {"history", "provenance"}

(* Nothing is attested any more when the bounds are reached. *)
MCNext ==
    /\ UNCHANGED part
    /\ \/ part = "history" /\ Next
       \/ part = "provenance" /\ UNCHANGED vars
    /\ \/ part = "provenance" /\ Attested!Next
       \/ UNCHANGED attestedVars

MCSpec == MCInit /\ [][MCNext]_<<part, vars, attestedVars>>

(* Sound: the run checks invariants only. *)
Symmetric == Permutations(MCProcs)

ReadyIsRecent == Attested!ReadyIsRecent
=============================================================================
