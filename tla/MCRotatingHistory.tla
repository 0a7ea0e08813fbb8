-------------------------- MODULE MCRotatingHistory --------------------------
(* Two parts, chosen at the start: a rotating history, and two directories of *)
(* a history under one bundle.  In the first there are two keys: one may be   *)
(* retired, with a last sequence that it signs, or revoked, the other comes   *)
(* into use at 2.  The clone has one bundle or two.                           *)
EXTENDS RotatingHistory, TLC

CONSTANTS p1, p2, k1, k2, s1, m1, m2, d1, d2

VARIABLES part, fixedRecords, fixedPublications, fixedPayloads, staged, writerLock,
          place, object, chain, interruptions

MCProcs == {p1, p2}
MCKeys == {k1, k2}
MCServiceOf == k1 :> s1 @@ k2 :> s1
MCValidFrom == k1 :> 1 @@ k2 :> 2
MCPayloads == {m1, m2}

InUse == [state |-> "active", through |-> 0]
Retired == [state |-> "retired", through |-> 2]
Revoked == [state |-> "revoked", through |-> 0]
Pending == [state |-> "pending", through |-> 0]

Start == k1 :> InUse @@ k2 :> Absent
MCTables == {k1 :> Retired @@ k2 :> InUse, k1 :> Revoked @@ k2 :> InUse}
MCSources == {<<Start>>, <<Start, k1 :> InUse @@ k2 :> Pending>>}

Fixed == INSTANCE PublicationHistory WITH
    Dirs <- {d1, d2}, MaxPublications <- 3, MaxInterruptions <- 1,
    records <- fixedRecords, publications <- fixedPublications, payloads <- fixedPayloads,
    lock <- writerLock, pc <- place, draft <- chain
fixedVars == <<fixedRecords, fixedPublications, fixedPayloads, staged, writerLock,
               place, object, chain, interruptions>>

MCInit ==
    /\ part \in {"rotating", "fixed"}
    /\ Init
    /\ Fixed!Init

(* The fixed part stops where the files that dead writers left fill a limit. *)
MCNext ==
    /\ UNCHANGED part
    /\ \/ part = "rotating" /\ Next /\ UNCHANGED fixedVars
       \/ part = "fixed" /\ Fixed!Next /\ UNCHANGED vars
       \/ part = "fixed" /\ UNCHANGED <<vars, fixedVars>>

MCSpec == MCInit /\ [][MCNext]_<<part, vars, fixedVars>>

Symmetric ==
    Permutations(MCProcs) \cup Permutations(MCPayloads) \cup Permutations({d1, d2})

(* An audit is right: two objects of one rotating directory never fork and   *)
(* it says which is ahead; two directories of a history under one bundle     *)
(* open, whatever an interrupted publish() left in them, and it finds where  *)
(* they part (docs/occupancy-publication-history.md:100-103).                *)
ForksAreFound == AuditsAgree /\ Fixed!HistoryOpens /\ Fixed!ForksAreFound
=============================================================================
