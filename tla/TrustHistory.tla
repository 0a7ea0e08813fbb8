---------------------------- MODULE TrustHistory ----------------------------
(***************************************************************************)
(* ServiceTrustHistory (src/identity_history.cpp) and its signed checkpoints *)
(* (src/identity_checkpoint.cpp): a directory of immutable bundle and record *)
(* files, one more of each per rotation of the service keys.                 *)
(*                                                                           *)
(* Ids are hashes over the parent's id, taken to be injective: a record is   *)
(* modelled by the sequence of rotations up to it, each with its bundle's    *)
(* key table and the signers that authorised it; a bundle by the sequence    *)
(* of tables up to it.  Temporary files are not state.  The records a reader *)
(* enumerates without the lock are a chain only if they are the directory at *)
(* some moment during the call, so opening is one step.                      *)
(***************************************************************************)
EXTENDS ServiceTrust, Sequences

CONSTANTS
    Procs,      \* processes, each with one ServiceTrustHistory object
    Roots,      \* key tables that a caller pins as root
    Tables,     \* key tables that successors are made of
    MaxLength,  \* bound: no history is longer than this
    MaxBundles  \* bound: no more bundle files, orphans included, than this

ASSUME RootsAssumption == \A t \in Roots : t \in [Keys -> Entries] /\ ValidTable(t)
ASSUME TablesAssumption == Tables \subseteq [Keys -> Entries]
ASSUME BoundsAssumption == MaxLength \in Nat \ {0} /\ MaxBundles \in Nat

VARIABLES
    records,    \* records/: each the history that the record ends
    bundles,    \* bundles/: each the sequence of tables that the bundle ends
    lock,       \* .writer-lock exists
    pc,         \* where each process is
    handle,     \* handle[p]: the history p's object has replayed, or <<>>
    draft,      \* draft[p]: the history p's publication in progress would end
    checkpoint  \* the signed checkpoint kept outside, with its history, if any

vars == <<records, bundles, lock, pc, handle, draft, checkpoint>>

Rotations == [table : [Keys -> Entries], signers : SUBSET Keys]
Histories == Seq(Rotations)

Last(h) == h[Len(h)]
BundleOf(h) == [i \in 1..Len(h) |-> h[i].table]
Root(t) == <<[table |-> t, signers |-> {}]>>

Publishing == {"checked", "saved", "committed"}
NoCheckpoint == [history |-> <<>>, signers |-> {}]

-----------------------------------------------------------------------------
(* Mutant of Follows: the successor's own keys authorise it. *)
FollowsItself(h, r) ==
    /\ Approves(r.signers, r.table, Len(h) + 1)
    /\ ValidSuccessor(Last(h).table, r.table)

(* verify_service_trust_bundle_successor(): r may follow history h. *)
Follows(h, r) ==
    /\ Approves(r.signers, Last(h).table, Len(h) + 1)
    /\ ValidSuccessor(Last(h).table, r.table)

(* open() and valid(): the records sorted by sequence, one per number, each  *)
(* naming the one before as its parent, replay to history h, with the bundle *)
(* of each present, the root authorised by nobody and every other rotation   *)
(* by the bundle before it.                                                  *)
Replays(h) ==
    /\ h # <<>>
    /\ records = {SubSeq(h, 1, i) : i \in 1..Len(h)}
    /\ \A i \in 1..Len(h) : BundleOf(SubSeq(h, 1, i)) \in bundles
    /\ ValidTable(h[1].table) /\ h[1].signers = {}
    /\ \A i \in 2..Len(h) :
          /\ ValidSuccessor(h[i - 1].table, h[i].table)
          /\ Approves(h[i].signers, h[i - 1].table, i)

-----------------------------------------------------------------------------
Init ==
    /\ records = {}
    /\ bundles = {}
    /\ lock = FALSE
    /\ pc = [p \in Procs |-> "closed"]
    /\ handle = [p \in Procs |-> <<>>]
    /\ draft = [p \in Procs |-> <<>>]
    /\ checkpoint = NoCheckpoint

(* create(): built in a temporary sibling and renamed into place. *)
Create(p, t) ==
    /\ pc[p] = "closed"
    /\ records = {}
    /\ records' = {Root(t)}
    /\ bundles' = {<<t>>}
    /\ handle' = [handle EXCEPT ![p] = Root(t)]
    /\ pc' = [pc EXCEPT ![p] = "open"]
    /\ UNCHANGED <<lock, draft, checkpoint>>

(* open(): the caller pins a head; it must be where the replay ends. *)
Open(p, h) ==
    /\ pc[p] \in {"closed", "open"}
    /\ Replays(h)
    /\ handle' = [handle EXCEPT ![p] = h]
    /\ pc' = [pc EXCEPT ![p] = "open"]
    /\ UNCHANGED <<records, bundles, lock, draft, checkpoint>>

-----------------------------------------------------------------------------
(* Mutant of PublishCheck: the caller's expected head is not compared. *)
PublishCheckAnyHead(p, h) ==
    /\ pc[p] = "open"
    /\ ~lock
    /\ \E r \in records : Replays(r)
    /\ Len(h) < MaxLength
    /\ \E r \in [table : Tables, signers : SUBSET Keys] :
          /\ Follows(h, r)
          /\ draft' = [draft EXCEPT ![p] = Append(h, r)]
    /\ lock' = TRUE
    /\ pc' = [pc EXCEPT ![p] = "checked"]
    /\ UNCHANGED <<records, bundles, handle, checkpoint>>

(* publish_impl() up to its first write: under the lock the directory is     *)
(* replayed against the expected head h and the successor verified.  A call   *)
(* that fails here releases the lock and leaves everything as it was.        *)
PublishCheck(p, h) ==
    /\ pc[p] = "open"
    /\ ~lock
    /\ Replays(h)
    /\ Len(h) < MaxLength
    /\ \E r \in [table : Tables, signers : SUBSET Keys] :
          /\ Follows(h, r)
          /\ draft' = [draft EXCEPT ![p] = Append(h, r)]
    /\ lock' = TRUE
    /\ pc' = [pc EXCEPT ![p] = "checked"]
    /\ UNCHANGED <<records, bundles, handle, checkpoint>>

(* The bundle is written, or the orphan of an interrupted attempt is reused, *)
(* whoever signed for that attempt.                                          *)
SaveBundle(p) ==
    /\ pc[p] = "checked"
    /\ BundleOf(draft[p]) \in bundles \/ Cardinality(bundles) < MaxBundles
    /\ bundles' = bundles \cup {BundleOf(draft[p])}
    /\ pc' = [pc EXCEPT ![p] = "saved"]
    /\ UNCHANGED <<records, lock, handle, draft, checkpoint>>

(* The record is renamed into place, never over an existing one. *)
CommitRecord(p) ==
    /\ pc[p] = "saved"
    /\ draft[p] \notin records
    /\ records' = records \cup {draft[p]}
    /\ pc' = [pc EXCEPT ![p] = "committed"]
    /\ UNCHANGED <<bundles, lock, handle, draft, checkpoint>>

PublishReturns(p) ==
    /\ pc[p] = "committed"
    /\ handle' = [handle EXCEPT ![p] = draft[p]]
    /\ lock' = FALSE
    /\ draft' = [draft EXCEPT ![p] = <<>>]
    /\ pc' = [pc EXCEPT ![p] = "open"]
    /\ UNCHANGED <<records, bundles, checkpoint>>

(* A file operation fails; the destructor releases the lock. *)
PublishFails(p) ==
    /\ pc[p] \in {"checked", "saved"}
    /\ lock' = FALSE
    /\ draft' = [draft EXCEPT ![p] = <<>>]
    /\ pc' = [pc EXCEPT ![p] = "open"]
    /\ UNCHANGED <<records, bundles, handle, checkpoint>>

-----------------------------------------------------------------------------
(* sign_ and assemble_service_trust_checkpoint(): keys of the head bundle of *)
(* the object, current or not, sign its head; the checkpoint kept before is  *)
(* replaced.                                                                 *)
AssembleCheckpoint(p, signers) ==
    /\ pc[p] = "open"
    /\ Approves(signers, Last(handle[p]).table, Len(handle[p]))
    /\ checkpoint' = [history |-> handle[p], signers |-> signers]
    /\ UNCHANGED <<records, bundles, lock, pc, handle, draft>>

(* verify_service_trust_checkpoint() accepts c for an object that holds h. *)
Verifies(c, h) ==
    /\ c.history = h
    /\ Approves(c.signers, Last(h).table, Len(h))

(* open() with a checkpoint instead of a bare head. *)
OpenAtCheckpoint(p) ==
    /\ pc[p] \in {"closed", "open"}
    /\ Replays(checkpoint.history)
    /\ Verifies(checkpoint, checkpoint.history)
    /\ handle' = [handle EXCEPT ![p] = checkpoint.history]
    /\ pc' = [pc EXCEPT ![p] = "open"]
    /\ UNCHANGED <<records, bundles, lock, draft, checkpoint>>

-----------------------------------------------------------------------------
Crash(p) ==
    /\ pc[p] # "closed"
    /\ pc' = [pc EXCEPT ![p] = "closed"]
    /\ handle' = [handle EXCEPT ![p] = <<>>]
    /\ draft' = [draft EXCEPT ![p] = <<>>]
    /\ UNCHANGED <<records, bundles, lock, checkpoint>>

(* External: the operator removes a lock left by a process that died. *)
OperatorClearsLock ==
    /\ lock
    /\ \A p \in Procs : pc[p] \notin Publishing
    /\ lock' = FALSE
    /\ UNCHANGED <<records, bundles, pc, handle, draft, checkpoint>>

Publish(p) ==
    \/ \E h \in records : PublishCheck(p, h)
    \/ SaveBundle(p)
    \/ CommitRecord(p)
    \/ PublishReturns(p)
    \/ PublishFails(p)

Next ==
    \/ \E p \in Procs :
          \/ \E t \in Roots : Create(p, t)
          \/ \E h \in records : Open(p, h)
          \/ Publish(p)
          \/ \E signers \in SUBSET Keys : AssembleCheckpoint(p, signers)
          \/ OpenAtCheckpoint(p)
          \/ Crash(p)
    \/ OperatorClearsLock

Spec == Init /\ [][Next]_vars

-----------------------------------------------------------------------------
(* What create(), open(), publish() and the checkpoint functions keep has    *)
(* its type.                                                                 *)
TypeOK ==
    /\ records \subseteq Histories \ {<<>>}
    /\ bundles \subseteq Seq([Keys -> Entries]) \ {<<>>}
    /\ lock \in BOOLEAN
    /\ pc \in [Procs -> Publishing \cup {"closed", "open"}]
    /\ handle \in [Procs -> Histories]
    /\ draft \in [Procs -> Histories]
    /\ checkpoint \in [history : Histories, signers : SUBSET Keys]

(* Whatever publish() leaves behind, interrupted or not, open() replays: one *)
(* chain, every bundle in place, every rotation valid and authorised by the  *)
(* bundle it replaces.                                                       *)
HistoryReplays == records # {} => \E h \in records : Replays(h)

(* The history never forks: of any two histories that objects have replayed  *)
(* or a checkpoint was signed for one continues the other, so an object or a *)
(* checkpoint that is out of date is only ever older, never on another       *)
(* branch, however many processes publish with heads read long before.       *)
IsPrefixOf(g, h) == Len(g) <= Len(h) /\ SubSeq(h, 1, Len(g)) = g

NeverForks ==
    LET Held == {handle[p] : p \in Procs} \cup {checkpoint.history} IN
    \A g, h \in Held : IsPrefixOf(g, h) \/ IsPrefixOf(h, g)

(* Along the whole history a key that has been in use is never trusted for a *)
(* sequence number that it had lost before: it comes back from no revocation *)
(* and once bounded its window never opens again, in however many rotations  *)
(* and whoever signs them (docs/public-service-identities.md:60-72).         *)
TrustOnlyShrinks ==
    \A h \in records : \A i, j \in 1..Len(h) : \A k \in Keys :
        i < j /\ h[i].table[k].state \notin {"absent", "pending"} =>
            \A n \in 1..(MaxLength + 1) :
                TrustedAt(k, h[j].table[k], n) => TrustedAt(k, h[i].table[k], n)
=============================================================================
