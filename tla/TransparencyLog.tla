--------------------------- MODULE TransparencyLog ---------------------------
(***************************************************************************)
(* TransparencyLog (src/transparency.cpp, src/transparency_persistence.cpp): *)
(* a directory of immutable records, each with one leaf and the signed        *)
(* checkpoint of the Merkle tree that ends with it.                           *)
(*                                                                            *)
(* A record is modelled by the leaves up to its own, which its parent link    *)
(* determines, and the root hash that its checkpoint signs.  A checkpoint's   *)
(* identity is that of its record.  The same log may live in several          *)
(* directories (a second create() with the same identity, a copied disk).     *)
(***************************************************************************)
EXTENDS MerkleTree

CONSTANTS
    Dirs,           \* directories made by create() for one log identity
    Writers,        \* processes, each with one log object at most
    Payloads,       \* what a leaf may hold: positive numbers
    MaxRecords      \* options.maximum_records

ASSUME PayloadsAssumption == Payloads \subseteq Nat \ {0}
ASSUME MaxRecordsAssumption == MaxRecords \in Nat \ {0}

VARIABLES
    records,        \* records[d]: the record files of directory d
    writerLock,     \* writerLock[d]: .writer-lock exists
    pc,             \* where each process is
    object,         \* object[w]: the log that w has open
    draft,          \* draft[w]: the record that w's publication would write
    acknowledged    \* records returned to callers, with their directory

vars == <<records, writerLock, pc, object, draft, acknowledged>>

NoRecord == [leaves |-> <<>>, root |-> NoHash]
Closed == [dir |-> "none", chain |-> <<>>, frontier |-> NoFrontier]

(* A log object holds its records in order, of which the leaves and the      *)
(* roots matter, and the frontier from which the next root is computed.      *)
Leaves(chain) == [i \in DOMAIN chain |-> Last(chain[i].leaves)]
HeadOf(chain) == IF chain = <<>> THEN NoRecord ELSE Last(chain)

(* The record files sorted by sequence number. *)
Sorted(files) ==
    CHOOSE chain \in [1..Cardinality(files) -> files] :
        \A i, j \in DOMAIN chain : i < j => /\ chain[i] # chain[j]
                                           /\ Len(chain[i].leaves) <= Len(chain[j].leaves)

(* What open() and valid() demand of them: one record for each sequence       *)
(* number, each extending the one before, each with the root of its leaves.   *)
IsChain(chain) ==
    /\ Len(chain) <= MaxRecords
    /\ \A i \in DOMAIN chain :
          /\ Len(chain[i].leaves) = i
          /\ i > 1 => chain[i - 1].leaves = SubSeq(chain[i].leaves, 1, i - 1)
          /\ chain[i].root = FrontierRoot(FrontierOf(Leaves(SubSeq(chain, 1, i))))

OpensAt(d, head) == IsChain(Sorted(records[d])) /\ HeadOf(Sorted(records[d])) = head

Opened(d) == LET chain == Sorted(records[d])
             IN  [dir |-> d, chain |-> chain, frontier |-> FrontierOf(Leaves(chain))]

Goto(w, place) == pc' = [pc EXCEPT ![w] = place]
Resting(w) == IF object[w] = Closed THEN "closed" ELSE "open"
Holding == {"locked", "built", "written"}

-----------------------------------------------------------------------------
(* create(): the directory appears whole, by a rename, without records. *)
Init ==
    /\ records = [d \in Dirs |-> {}]
    /\ writerLock = [d \in Dirs |-> FALSE]
    /\ pc = [w \in Writers |-> "closed"]
    /\ object = [w \in Writers |-> Closed]
    /\ draft = [w \in Writers |-> NoRecord]
    /\ acknowledged = {}

(* open(): the caller names the checkpoint it expects at the head. *)
Open(w) ==
    /\ pc[w] \in {"closed", "open"}
    /\ \E d \in Dirs :
          /\ OpensAt(d, HeadOf(Sorted(records[d])))
          /\ object' = [object EXCEPT ![w] = Opened(d)]
    /\ Goto(w, "open")
    /\ UNCHANGED <<records, writerLock, draft, acknowledged>>

(* publish_leaf() up to the lock. *)
AcquireLock(w) ==
    LET d == object[w].dir
    IN  /\ pc[w] = "open"
        /\ ~writerLock[d]
        /\ writerLock' = [writerLock EXCEPT ![d] = TRUE]
        /\ Goto(w, "locked")
        /\ UNCHANGED <<records, object, draft, acknowledged>>

(* Mutant of BuildRecord: the record is built from what the object holds. *)
BuildOnObject(w) ==
    LET leaves == Leaves(object[w].chain)
    IN  /\ pc[w] = "locked"
        /\ Len(leaves) < MaxRecords
        /\ \E p \in Payloads :
              draft' = [draft EXCEPT ![w] =
                  [leaves |-> Append(leaves, p),
                   root |-> FrontierRoot(AppendSubtree(object[w].frontier, LeafHash(p), 0, Len(leaves)))]]
        /\ Goto(w, "built")
        /\ UNCHANGED <<records, writerLock, object, acknowledged>>

(* The log is opened again, at the head that the object holds, and the next  *)
(* record is built from the fresh records and the fresh frontier.            *)
BuildRecord(w) ==
    LET d == object[w].dir
        fresh == Opened(d)
        leaves == Leaves(fresh.chain)
    IN  /\ pc[w] = "locked"
        /\ OpensAt(d, HeadOf(object[w].chain))
        /\ Len(fresh.chain) < MaxRecords
        /\ \E p \in Payloads :
              draft' = [draft EXCEPT ![w] =
                  [leaves |-> Append(leaves, p),
                   root |-> FrontierRoot(AppendSubtree(fresh.frontier, LeafHash(p), 0, Len(leaves)))]]
        /\ Goto(w, "built")
        /\ UNCHANGED <<records, writerLock, object, acknowledged>>

(* A head that moved, a full log, a key that does not sign or a failed        *)
(* write: the call returns its error, the lock goes, the object stays.        *)
PublishFails(w) ==
    /\ pc[w] \in {"locked", "built"}
    /\ writerLock' = [writerLock EXCEPT ![object[w].dir] = FALSE]
    /\ draft' = [draft EXCEPT ![w] = NoRecord]
    /\ Goto(w, "open")
    /\ UNCHANGED <<records, object, acknowledged>>

(* The record is written beside its destination and renamed into place; the  *)
(* temporary file carries .tmp- in its name, and no reader counts it.        *)
WriteRecord(w) ==
    LET d == object[w].dir
    IN  /\ pc[w] = "built"
        /\ records' = [records EXCEPT ![d] = @ \cup {draft[w]}]
        /\ Goto(w, "written")
        /\ UNCHANGED <<writerLock, object, draft, acknowledged>>

(* The object becomes the candidate, and the caller has the record. *)
PublishReturns(w) ==
    LET d == object[w].dir
        chain == Append(object[w].chain, draft[w])
    IN  /\ pc[w] = "written"
        /\ object' = [object EXCEPT ![w] =
              [dir |-> d, chain |-> chain,
               frontier |-> AppendSubtree(@.frontier, LeafHash(Last(draft[w].leaves)), 0, Len(chain) - 1)]]
        /\ acknowledged' = acknowledged \cup {[dir |-> d, record |-> draft[w]]}
        /\ writerLock' = [writerLock EXCEPT ![d] = FALSE]
        /\ draft' = [draft EXCEPT ![w] = NoRecord]
        /\ Goto(w, "open")
        /\ UNCHANGED records

(* A process dies: its object is gone, its lock directory stays. *)
Crash(w) ==
    /\ pc[w] # "closed"
    /\ object' = [object EXCEPT ![w] = Closed]
    /\ draft' = [draft EXCEPT ![w] = NoRecord]
    /\ Goto(w, "closed")
    /\ UNCHANGED <<records, writerLock, acknowledged>>

(* An operator who has made sure that nobody writes removes the lock. *)
OperatorClearsLock(d) ==
    /\ writerLock[d]
    /\ \A w \in Writers : pc[w] \in Holding => object[w].dir # d
    /\ writerLock' = [writerLock EXCEPT ![d] = FALSE]
    /\ UNCHANGED <<records, pc, object, draft, acknowledged>>

Next ==
    \/ \E w \in Writers : \/ Open(w) \/ AcquireLock(w) \/ BuildRecord(w) \/ PublishFails(w)
                          \/ WriteRecord(w) \/ PublishReturns(w) \/ Crash(w)
    \/ \E d \in Dirs : OperatorClearsLock(d)

Spec == Init /\ [][Next]_vars

-----------------------------------------------------------------------------
(* Whatever writers do at the same time and wherever they die, the directory *)
(* can be opened: one chain of records whose roots are those of its leaves,  *)
(* by the level-by-level definition and not by the frontier that was carried *)
(* from one publication to the next (TransparencyLog::open, ::valid).        *)
ChainsOpen == \A d \in Dirs : IsChain(Sorted(records[d]))
RootsAreMerkle == \A d \in Dirs : \A r \in records[d] : r.root = MerkleRoot(r.leaves)
LogOpens == ChainsOpen /\ RootsAreMerkle

(* publish_leaf() returns a record only of a log that keeps it: of two       *)
(* records returned for one directory, one extends the other, and the head   *)
(* extends both.                                                             *)
AcknowledgedIsKept ==
    \A a \in acknowledged :
        /\ a.record \in records[a.dir]
        /\ IsPrefix(a.record.leaves, HeadOf(Sorted(records[a.dir])).leaves)
=============================================================================
