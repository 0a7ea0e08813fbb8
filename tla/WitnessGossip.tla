---------------------------- MODULE WitnessGossip ----------------------------
(***************************************************************************)
(* Witnessed checkpoints, the gossip that carries them, the archive that     *)
(* keeps the gossip and the audit that looks for a split view                *)
(* (src/witness.cpp, src/witness_persistence.cpp).                           *)
(*                                                                           *)
(* One log identity may sign in several directories; each only grows         *)
(* (TransparencyLog), so what can be witnessed are the prefixes of their     *)
(* final contents.  A checkpoint is modelled by the leaves that its root     *)
(* hashes, a message by its checkpoint and by the old size of its compact    *)
(* proof (0 without one), a gossip by its sender and the chain of the        *)
(* sender's messages that it ends: its parent link determines the others.    *)
(***************************************************************************)
EXTENDS MerkleTree, Relation

CONSTANTS
    Dirs,               \* the directories in which the log signs
    Contents,           \* Contents[d]: the leaves that d holds in the end
    MaxSize,            \* the largest size of a log
    Senders,            \* a sender's service and key with its recipient
    Witnesses,          \* keys that may cosign
    Service,            \* Service[k]: the service that owns key k
    ActiveKeys,         \* witness keys that the archive's trust bundle has active
    LogSigner,          \* the service that signs the log
    MinimumWitnesses,   \* policy.minimum_witnesses
    Archivists,         \* processes, each with one archive object at most
    MaxGossip           \* options.maximum_records

VARIABLES
    files,          \* the record files of the archive: chains of gossip
    archiveLock,    \* .writer-lock exists
    place,          \* where each process is
    archive,        \* archive[a]: the chain that a's object holds
    offered         \* offered[a]: the gossip that a is about to publish

vars == <<files, archiveLock, place, archive, offered>>

NoGossip == [sender |-> "none", history |-> <<>>]

-----------------------------------------------------------------------------
(* Witnesses and messages. *)

Checkpoint(leaves) == [tree_size |-> Len(leaves), root_hash |-> MerkleRoot(leaves)]

(* assemble_witnessed_transparency_checkpoint(): enough cosignatures, of      *)
(* active keys, one for each service and none of the log's own signer.        *)
Witnessed(cosigners) ==
    /\ Cardinality(cosigners) >= MinimumWitnesses
    /\ cosigners \subseteq ActiveKeys
    /\ \A j, k \in cosigners : Service[j] = Service[k] => j = k
    /\ \A k \in cosigners : Service[k] # LogSigner

(* What a sender can sign: a witnessed checkpoint of one directory, with or   *)
(* without the proof that the log of that size gives from an older one; the   *)
(* proof may have been damaged, which signing does not look at.               *)
Messages ==
    {[leaves |-> SubSeq(Contents[t[1]], 1, t[2]), old |-> t[3], damaged |-> t[4]] :
        t \in {u \in Dirs \X (1..MaxSize) \X (0..MaxSize) \X BOOLEAN :
                  u[2] <= Len(Contents[u[1]]) /\ u[3] < u[2] /\ (u[4] => u[3] > 0)}}

(* A gossip may continue any chain of its sender that is in the archive, or   *)
(* start one, and a message may be lost and sent again: senders forget their  *)
(* counters, messages repeat and overtake.                                    *)
Gossips(chain) ==
    {[sender |-> s, history |-> h] : s \in Senders, h \in
        UNION {{Append(h, m), h \o <<m, m>>} : m \in Messages,
               h \in {<<>>} \cup {g.history : g \in Range(chain)}}}

-----------------------------------------------------------------------------
(* The archive. *)

(* validate_sender_chain(): no gossip twice, every sender's chain continuous. *)
EarlierOf(chain, i) == {j \in 1..(i - 1) : chain[j].sender = chain[i].sender}
SenderChains(chain) ==
    \A i \in DOMAIN chain :
        IF EarlierOf(chain, i) = {} THEN Len(chain[i].history) = 1
        ELSE Front(chain[i].history) = chain[Max(EarlierOf(chain, i))].history

(* The record with the largest sequence number; open() demands that all the   *)
(* records be the beginnings of its chain.                                    *)
ChainOf(set) == IF set = {} THEN <<>>
                ELSE CHOOSE c \in set : \A d \in set : Len(d) <= Len(c)
IsArchive(set) ==
    /\ set = {SubSeq(ChainOf(set), 1, i) : i \in DOMAIN ChainOf(set)}
    /\ Len(ChainOf(set)) <= MaxGossip
    /\ SenderChains(ChainOf(set))

Holding == {"locked", "checked", "written"}
At(a, p) == place' = [place EXCEPT ![a] = p]

Init ==
    /\ files = {}
    /\ archiveLock = FALSE
    /\ place = [a \in Archivists |-> "closed"]
    /\ archive = [a \in Archivists |-> <<>>]
    /\ offered = [a \in Archivists |-> NoGossip]

(* open(): the caller names the record that it expects at the head. *)
OpenArchive(a) ==
    /\ place[a] \in {"closed", "open"}
    /\ IsArchive(files)
    /\ archive' = [archive EXCEPT ![a] = ChainOf(files)]
    /\ At(a, "open")
    /\ UNCHANGED <<files, archiveLock, offered>>

(* publish() up to the lock. *)
OfferGossip(a) ==
    /\ place[a] = "open"
    /\ ~archiveLock
    /\ archiveLock' = TRUE
    /\ At(a, "locked")
    /\ UNCHANGED <<files, archive, offered>>

(* Mutant of CheckGossip: the sender chains are left to the next open(). *)
CheckGossipUnchained(a) ==
    /\ place[a] = "locked"
    /\ IsArchive(files) /\ ChainOf(files) = archive[a]
    /\ Len(ChainOf(files)) < MaxGossip
    /\ \E g \in Gossips(archive[a]) : offered' = [offered EXCEPT ![a] = g]
    /\ At(a, "checked")
    /\ UNCHANGED <<files, archiveLock, archive>>

(* The archive is opened again at the object's head; the candidate, with the  *)
(* caller's gossip at its end, must have room and continuous sender chains.   *)
CheckGossip(a) ==
    /\ place[a] = "locked"
    /\ IsArchive(files) /\ ChainOf(files) = archive[a]
    /\ Len(ChainOf(files)) < MaxGossip
    /\ \E cosigners \in SUBSET Witnesses : Witnessed(cosigners)
    /\ \E g \in Gossips(archive[a]) :
          /\ SenderChains(Append(archive[a], g))
          /\ offered' = [offered EXCEPT ![a] = g]
    /\ At(a, "checked")
    /\ UNCHANGED <<files, archiveLock, archive>>

(* Any refusal, a failed write or a cancellation. *)
OfferFails(a) ==
    /\ place[a] \in {"locked", "checked"}
    /\ archiveLock' = FALSE
    /\ offered' = [offered EXCEPT ![a] = NoGossip]
    /\ At(a, "open")
    /\ UNCHANGED <<files, archive>>

(* The record is written under a temporary name and renamed into place. *)
WriteGossip(a) ==
    /\ place[a] = "checked"
    /\ files' = files \cup {Append(archive[a], offered[a])}
    /\ At(a, "written")
    /\ UNCHANGED <<archiveLock, archive, offered>>

OfferReturns(a) ==
    /\ place[a] = "written"
    /\ archive' = [archive EXCEPT ![a] = Append(@, offered[a])]
    /\ archiveLock' = FALSE
    /\ offered' = [offered EXCEPT ![a] = NoGossip]
    /\ At(a, "open")
    /\ UNCHANGED <<files>>

ArchivistDies(a) ==
    /\ place[a] # "closed"
    /\ archive' = [archive EXCEPT ![a] = <<>>]
    /\ offered' = [offered EXCEPT ![a] = NoGossip]
    /\ At(a, "closed")
    /\ UNCHANGED <<files, archiveLock>>

OperatorClearsArchiveLock ==
    /\ archiveLock
    /\ \A a \in Archivists : place[a] \notin Holding
    /\ archiveLock' = FALSE
    /\ UNCHANGED <<files, place, archive, offered>>

Next ==
    \/ \E a \in Archivists : \/ OpenArchive(a) \/ OfferGossip(a) \/ CheckGossip(a) \/ OfferFails(a)
                             \/ WriteGossip(a) \/ OfferReturns(a) \/ ArchivistDies(a)
    \/ OperatorClearsArchiveLock

Spec == Init /\ [][Next]_vars

-----------------------------------------------------------------------------
(* audit_transparency_checkpoint_gossip() over the gossip of an archive.      *)

Carried(g) == Last(g.history)
OldLeaves(m) == SubSeq(m.leaves, 1, m.old)
ProofOf(m) == LET proof == CompactProof(m.leaves, m.old)
              IN  IF m.damaged THEN [proof EXCEPT !.appended[1].hash = LeafHash(0)] ELSE proof

(* Gossip whose proof starts at a known checkpoint: a link, or a conflict.    *)
Known(chain) == {Carried(g).leaves : g \in Range(chain)}
Proven(chain) == {m \in {Carried(g) : g \in Range(chain)} : m.old > 0 /\ OldLeaves(m) \in Known(chain)}
Links(m) == VerifyCompact(Checkpoint(OldLeaves(m)), Checkpoint(m.leaves), ProofOf(m))

Conflicts(chain) ==
    [equivocations |-> {p \in Known(chain) \X Known(chain) : p[1] # p[2] /\ Len(p[1]) = Len(p[2])},
     invalidProofs |-> {m \in Proven(chain) : ~Links(m)}]

(* Mutant of Unlinked: a proof from any smaller checkpoint is enough. *)
UnlinkedFromAll(chain) ==
    {c \in Known(chain) : (\E d \in Known(chain) : Len(d) < Len(c))
                          /\ ~ \E m \in Proven(chain) : Links(m) /\ m.leaves = c}

(* Pairs of different sizes that no path of verified proofs connects. *)
Unlinked(chain) ==
    LET edges == {m \in Proven(chain) : Links(m)}
        reachable == TransitiveClosure([c, d \in Known(chain) |->
                         \E m \in edges : OldLeaves(m) = c /\ m.leaves = d], Known(chain))
    IN  {p \in Known(chain) \X Known(chain) : Len(p[1]) < Len(p[2]) /\ ~reachable[p[1], p[2]]}

AuditStatus(chain) ==
    IF Conflicts(chain).equivocations \cup Conflicts(chain).invalidProofs # {} THEN "split_view"
    ELSE IF Unlinked(chain) # {} THEN "incomplete" ELSE "consistent"

-----------------------------------------------------------------------------
(* Archivists who work at the same time, or die, leave an archive that opens: *)
(* one chain of records in which every sender's messages are continuous and   *)
(* none is repeated (TransparencyGossipArchive::open, ::publish).             *)
ArchiveOpens == IsArchive(files)

(* The audit of an archive that has just grown says "consistent" only when    *)
(* all checkpoints in it are prefixes of one log, and "split view" only when  *)
(* two of them are not or a proof does not hold: neither a fork that stays    *)
(* unseen nor a false alarm (audit_transparency_checkpoint_gossip).           *)
AuditIsRight ==
    \A a \in Archivists :
        LET chain == Append(archive[a], offered[a])
            fork == \E c, d \in Known(chain) : ~IsPrefix(c, d) /\ ~IsPrefix(d, c)
            damaged == \E g \in Range(chain) : Carried(g).damaged
            status == AuditStatus(chain)
        IN  place[a] = "written" => /\ status = "consistent" => ~fork
                                    /\ status = "split_view" => fork \/ damaged
=============================================================================
