--------------------------- MODULE MCTransparency ---------------------------
(* Three parts of the transparency layer in one run: writers and their log    *)
(* directories, archivists and the gossip they keep, and the Merkle proofs    *)
(* of pairs of logs.  Only the part that was chosen at the start moves.       *)
EXTENDS TransparencyLog, TLC

CONSTANTS d1, d2, w1, w2, a1, a2, s1, s2, k1, k2, k3, logService

VARIABLES part, pair, files, archiveLock, place, archive, offered

GossipDirs == {d1, d2}
MCOneDir == {d1}
MCWriters == {w1, w2}

(* The two directories of the gossip fork at the second leaf; the log's own   *)
(* service has a witness key.                                                 *)
Contents == d1 :> <<1, 1, 1>> @@ d2 :> <<1, 2, 1>>
MaxSize == 3
Senders == {s1, s2}
Witnesses == {k1, k2, k3}
ActiveKeys == Witnesses
Service == k1 :> s1 @@ k2 :> s2 @@ k3 :> logService
LogSigner == logService
MinimumWitnesses == 2
Archivists == {a1, a2}
MaxGossip == 3
Gossip == INSTANCE WitnessGossip WITH Dirs <- GossipDirs
gossipVars == <<files, archiveLock, place, archive, offered>>

(* A pair of logs, up to MaxPair leaves long, that differ from leaf f on. *)
MaxPair == 7
Log(n, f, shift) == [i \in 1..n |-> IF i < f THEN i ELSE i + shift]

MCInit ==
    /\ Init
    /\ Gossip!Init
    /\ \/ part = "log" /\ pair = <<>>
       \/ part = "gossip" /\ pair = <<>>
       \/ part = "proofs" /\ \E m, n \in 1..MaxPair, f \in 1..(MaxPair + 1) :
                                pair = <<Log(m, f, 0), Log(n, f, 10)>>

MCNext ==
    /\ UNCHANGED <<part, pair>>
    /\ \/ part = "log" /\ Next /\ UNCHANGED gossipVars
       \/ part = "gossip" /\ Gossip!Next /\ UNCHANGED vars
       \/ part = "proofs" /\ UNCHANGED <<vars, gossipVars>>

MCSpec == MCInit /\ [][MCNext]_<<part, pair, vars, gossipVars>>

Symmetry == Permutations(MCWriters) \cup Permutations(Archivists) \cup Permutations(Senders)

(* TransparencyLog::open(), WitnessGossipArchive::open(): whatever the        *)
(* interleaving of writers and their deaths, the directories of a log and of  *)
(* an archive open.                                                           *)
DirectoriesOpen == LogOpens /\ Gossip!ArchiveOpens

(* WitnessGossipArchive::audit(), build_transparency_inclusion_proof() and    *)
(* the rest: see AuditIsRight of WitnessGossip; transparency_merkle_root(),   *)
(* the frontier and verify_transparency_inclusion agree with the definition   *)
(* of the tree; verify_transparency_compact_consistency() and                 *)
(* verify_transparency_consistency() accept prefixes and nothing else.        *)
AuditsAreRight ==
    /\ Gossip!AuditIsRight
    /\ part = "proofs" => InclusionExactFor(pair[1], pair[2]) /\ PrefixExactFor(pair[1], pair[2])
=============================================================================
