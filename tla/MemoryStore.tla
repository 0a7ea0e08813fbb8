----------------------------- MODULE MemoryStore -----------------------------
(***************************************************************************)
(* SafetyMemoryStore (src/memory_store.cpp): a directory of immutable       *)
(* commit files and revision payloads, written by processes that serialise  *)
(* on a lock directory and may die between any two file operations.         *)
(*                                                                          *)
(* A revision id is the SHA-256 of (sequence, parent id, memory id).  SHA-  *)
(* 256 is taken to be injective, so an id is modelled by what it commits    *)
(* to: the sequence of memory ids from the root to that revision.  Its      *)
(* sequence number is its length minus one, its parent its front.           *)
(*                                                                          *)
(* Temporary files and directories have names that open() skips, so they    *)
(* are not state; a step that only writes one changes nothing but the pc.   *)
(***************************************************************************)
EXTENDS Naturals, Sequences

CONSTANTS
    Procs,          \* the processes, each with one SafetyMemoryStore object
    Memories,       \* identities of the SafetyMemory values they publish
    Limits,         \* the maximum_revisions arguments passed to publish()
    OpenLimit       \* OpenLimit[p]: options_.maximum_revisions of p's handle

ASSUME MemoriesAssumption == Memories # {}
ASSUME LimitsAssumption == Limits \subseteq Nat \ {0}
ASSUME OpenLimitAssumption == OpenLimit \in [Procs -> Nat \ {0}]

VARIABLES
    created,        \* the store directory exists under its final name
    commits,        \* ids whose commit file is in commits/
    payloads,       \* ids whose directory is in revisions/
    lock,           \* .writer-lock exists
    pc,             \* where each process is
    handle,         \* handle[p]: id of the head p's object holds, or <<>>
    req,            \* req[p]: arguments of the call in progress
    seen            \* seen[p]: commits present when p began to enumerate,
                    \*          or {} outside open()

vars == <<created, commits, payloads, lock, pc, handle, req, seen>>

Ids == Seq(Memories) \ {<<>>}
Parent(id) == SubSeq(id, 1, Len(id) - 1)
Newest(id) == id[Len(id)]
Prefixes(id) == {SubSeq(id, 1, k) : k \in 1..Len(id)}

(* A process holds the writer lock exactly in these places. *)
Writing == {"locked", "checked", "saved", "committed", "failed", "unchanged"}
Places == Writing \cup {"closed", "creating", "created", "opening", "idle"}

Requests == [expected : Seq(Memories), memory : Memories, limit : Nat]
NoRequest == [expected |-> <<>>, memory |-> CHOOSE m \in Memories : TRUE, limit |-> 0]

-----------------------------------------------------------------------------
(* The chain that open() accepts: sorted by sequence, commit number i has   *)
(* sequence i, so there is one commit per length; commit 0 is the root and  *)
(* every other commit names the one before it as parent.                    *)
ValidChain(S) ==
    /\ \A c \in S : Len(c) = 1 \/ Parent(c) \in S
    /\ \A c, d \in S : Len(c) = Len(d) => c = d

IsHead(h, S) == h \in S /\ \A c \in S : Len(c) <= Len(h)

(* open() succeeds on the enumerated commit files S and finds head h. *)
Openable(p, S, h) ==
    /\ ValidChain(S)
    /\ IsHead(h, S)
    /\ Len(h) <= OpenLimit[p]
    /\ S \subseteq payloads

-----------------------------------------------------------------------------
Init ==
    /\ created = FALSE
    /\ commits = {}
    /\ payloads = {}
    /\ lock = FALSE
    /\ pc = [p \in Procs |-> "closed"]
    /\ handle = [p \in Procs |-> <<>>]
    /\ req = [p \in Procs |-> NoRequest]
    /\ seen = [p \in Procs |-> {}]

(* create(): the destination does not exist; a complete store is built in a *)
(* temporary sibling.                                                       *)
CreateStage(p, m) ==
    /\ pc[p] = "closed"
    /\ ~created
    /\ req' = [req EXCEPT ![p] = [expected |-> <<>>, memory |-> m, limit |-> 0]]
    /\ pc' = [pc EXCEPT ![p] = "creating"]
    /\ UNCHANGED <<created, commits, payloads, lock, handle, seen>>

(* The rename that publishes the store. *)
CreateRename(p) ==
    /\ pc[p] = "creating"
    /\ ~created
    /\ created' = TRUE
    /\ commits' = {<<req[p].memory>>}
    /\ payloads' = {<<req[p].memory>>}
    /\ pc' = [pc EXCEPT ![p] = "created"]
    /\ UNCHANGED <<lock, handle, req, seen>>

(* It fails when another process created the store first, or on an I/O error. *)
CreateFails(p) ==
    /\ pc[p] = "creating"
    /\ pc' = [pc EXCEPT ![p] = "closed"]
    /\ req' = [req EXCEPT ![p] = NoRequest]
    /\ UNCHANGED <<created, commits, payloads, lock, handle, seen>>

CreateReturns(p) ==
    /\ pc[p] = "created"
    /\ handle' = [handle EXCEPT ![p] = <<req[p].memory>>]
    /\ pc' = [pc EXCEPT ![p] = "idle"]
    /\ req' = [req EXCEPT ![p] = NoRequest]
    /\ UNCHANGED <<created, commits, payloads, lock, seen>>

-----------------------------------------------------------------------------
(* open() outside the lock: the directory iterator certainly returns the    *)
(* entries present when it starts and may or may not return later ones.     *)
OpenBegin(p) ==
    /\ pc[p] \in {"closed", "idle"}
    /\ created
    /\ seen' = [seen EXCEPT ![p] = commits]
    /\ pc' = [pc EXCEPT ![p] = "opening"]
    /\ UNCHANGED <<created, commits, payloads, lock, handle, req>>

OpenEnd(p, later) ==
    /\ pc[p] = "opening"
    /\ \E h \in seen[p] \cup later :
          /\ Openable(p, seen[p] \cup later, h)
          /\ handle' = [handle EXCEPT ![p] = h]
    /\ pc' = [pc EXCEPT ![p] = "idle"]
    /\ seen' = [seen EXCEPT ![p] = {}]
    /\ UNCHANGED <<created, commits, payloads, lock, req>>

(* open() reports an error; an object obtained before stays as it was. *)
OpenFails(p, later) ==
    /\ pc[p] = "opening"
    /\ \A h \in seen[p] \cup later : ~Openable(p, seen[p] \cup later, h)
    /\ pc' = [pc EXCEPT ![p] = IF handle[p] = <<>> THEN "closed" ELSE "idle"]
    /\ seen' = [seen EXCEPT ![p] = {}]
    /\ UNCHANGED <<created, commits, payloads, lock, handle, req>>

-----------------------------------------------------------------------------
(* Mutant of AcquireLock: a lock directory that exists counts as acquired. *)
AcquireLockAnyway(p, e, m, n) ==
    /\ pc[p] = "idle"
    /\ lock' = TRUE
    /\ req' = [req EXCEPT ![p] = [expected |-> e, memory |-> m, limit |-> n]]
    /\ pc' = [pc EXCEPT ![p] = "locked"]
    /\ UNCHANGED <<created, commits, payloads, handle, seen>>

(* publish(), one step per file operation.  A process that finds the lock   *)
(* held returns ResourceLimit at once and changes nothing.                  *)
AcquireLock(p, e, m, n) ==
    /\ pc[p] = "idle"
    /\ ~lock
    /\ lock' = TRUE
    /\ req' = [req EXCEPT ![p] = [expected |-> e, memory |-> m, limit |-> n]]
    /\ pc' = [pc EXCEPT ![p] = "locked"]
    /\ UNCHANGED <<created, commits, payloads, handle, seen>>

Revision(p) == Append(req[p].expected, req[p].memory)

(* Mutant of HeadIsExpected: the expected revision only has to be known. *)
ExpectedIsKnown(p) ==
    /\ \E h \in commits : Openable(p, commits, h)
    /\ req[p].expected \in commits

(* The store is reopened under the lock and its head compared with the      *)
(* caller's: from here on the head is req[p].expected.                      *)
HeadIsExpected(p) == Openable(p, commits, req[p].expected)

(* The head already holds this memory: the handle is refreshed. *)
PublishUnchanged(p) ==
    /\ pc[p] = "locked"
    /\ HeadIsExpected(p)
    /\ Newest(req[p].expected) = req[p].memory
    /\ handle' = [handle EXCEPT ![p] = req[p].expected]
    /\ pc' = [pc EXCEPT ![p] = "unchanged"]
    /\ UNCHANGED <<created, commits, payloads, lock, req, seen>>

WithinLimit(p) ==
    Len(req[p].expected) < req[p].limit /\ Len(req[p].expected) < OpenLimit[p]

(* Mutant of PublishChecked: the test for an unchanged memory is missing. *)
PublishCheckedTwice(p) ==
    /\ pc[p] = "locked"
    /\ HeadIsExpected(p)
    /\ WithinLimit(p)
    /\ pc' = [pc EXCEPT ![p] = "checked"]
    /\ UNCHANGED <<created, commits, payloads, lock, handle, req, seen>>

PublishChecked(p) ==
    /\ pc[p] = "locked"
    /\ HeadIsExpected(p)
    /\ Newest(req[p].expected) # req[p].memory
    /\ WithinLimit(p)
    /\ pc' = [pc EXCEPT ![p] = "checked"]
    /\ UNCHANGED <<created, commits, payloads, lock, handle, req, seen>>

(* The payload is saved, or the orphan an earlier attempt left is reused: it *)
(* has the same id, so the same memory identity.                             *)
SavePayload(p) ==
    /\ pc[p] = "checked"
    /\ payloads' = payloads \cup {Revision(p)}
    /\ pc' = [pc EXCEPT ![p] = "saved"]
    /\ UNCHANGED <<created, commits, lock, handle, req, seen>>

(* The rename of the commit file, never over an existing one. *)
CommitRename(p) ==
    /\ pc[p] = "saved"
    /\ Revision(p) \notin commits
    /\ commits' = commits \cup {Revision(p)}
    /\ pc' = [pc EXCEPT ![p] = "committed"]
    /\ UNCHANGED <<created, payloads, lock, handle, req, seen>>

(* Every other way out of publish(): the store does not open, the head      *)
(* moved, the limit is reached, or a file operation fails.                  *)
PublishFails(p) ==
    /\ pc[p] \in {"locked", "checked", "saved"}
    /\ pc' = [pc EXCEPT ![p] = "failed"]
    /\ UNCHANGED <<created, commits, payloads, lock, handle, req, seen>>

(* The object is refreshed before the lock's destructor runs. *)
PublishReturns(p) ==
    /\ pc[p] = "committed"
    /\ handle' = [handle EXCEPT ![p] = Revision(p)]
    /\ lock' = FALSE
    /\ pc' = [pc EXCEPT ![p] = "idle"]
    /\ req' = [req EXCEPT ![p] = NoRequest]
    /\ UNCHANGED <<created, commits, payloads, seen>>

(* Mutant of ReleaseLock: an error return skips the destructor. *)
ReleaseLockOnSuccess(p) ==
    /\ pc[p] = "unchanged"
    /\ lock' = FALSE
    /\ pc' = [pc EXCEPT ![p] = "idle"]
    /\ req' = [req EXCEPT ![p] = NoRequest]
    /\ UNCHANGED <<created, commits, payloads, handle, seen>>

ReleaseLock(p) ==
    /\ pc[p] \in {"failed", "unchanged"}
    /\ lock' = FALSE
    /\ pc' = [pc EXCEPT ![p] = "idle"]
    /\ req' = [req EXCEPT ![p] = NoRequest]
    /\ UNCHANGED <<created, commits, payloads, handle, seen>>

-----------------------------------------------------------------------------
(* The process dies; its object is lost, its lock directory stays. *)
Crash(p) ==
    /\ pc[p] # "closed"
    /\ pc' = [pc EXCEPT ![p] = "closed"]
    /\ handle' = [handle EXCEPT ![p] = <<>>]
    /\ seen' = [seen EXCEPT ![p] = {}]
    /\ req' = [req EXCEPT ![p] = NoRequest]
    /\ UNCHANGED <<created, commits, payloads, lock>>

(* External: the operator removes a lock left behind, having first           *)
(* established that no writer is active (docs/safety-memory-store.md:54-57). *)
OperatorClearsLock ==
    /\ lock
    /\ \A p \in Procs : pc[p] \notin Writing
    /\ lock' = FALSE
    /\ UNCHANGED <<created, commits, payloads, pc, handle, req, seen>>

-----------------------------------------------------------------------------
Create(p) ==
    \/ \E m \in Memories : CreateStage(p, m)
    \/ CreateRename(p)
    \/ CreateFails(p)
    \/ CreateReturns(p)

Open(p) ==
    \/ OpenBegin(p)
    \/ \E later \in SUBSET (commits \ seen[p]) :
          OpenEnd(p, later) \/ OpenFails(p, later)

Publish(p) ==
    \/ \E e \in Prefixes(handle[p]), m \in Memories, n \in Limits :
          AcquireLock(p, e, m, n)
    \/ PublishUnchanged(p)
    \/ PublishChecked(p)
    \/ SavePayload(p)
    \/ CommitRename(p)
    \/ PublishFails(p)
    \/ PublishReturns(p)
    \/ ReleaseLock(p)

Next ==
    \/ \E p \in Procs : Create(p) \/ Open(p) \/ Publish(p) \/ Crash(p)
    \/ OperatorClearsLock

Spec == Init /\ [][Next]_vars

(* A call that has the lock runs to its end unless its process dies, and     *)
(* the operator eventually attends to a lock nobody holds.                   *)
Finish(p) ==
    \/ PublishUnchanged(p) \/ PublishChecked(p) \/ SavePayload(p)
    \/ CommitRename(p) \/ PublishFails(p) \/ PublishReturns(p) \/ ReleaseLock(p)

FairSpec ==
    /\ Spec
    /\ \A p \in Procs : WF_vars(Finish(p))
    /\ WF_vars(OperatorClearsLock)

-----------------------------------------------------------------------------
(* What create(), open() and publish() keep has its type: in particular no   *)
(* commit file and no payload is ever written without an id.                 *)
TypeOK ==
    /\ created \in BOOLEAN
    /\ commits \subseteq Ids
    /\ payloads \subseteq Ids
    /\ lock \in BOOLEAN
    /\ pc \in [Procs -> Places]
    /\ handle \in [Procs -> Seq(Memories)]
    /\ req \in [Procs -> Requests]
    /\ seen \in [Procs -> SUBSET Ids]

(* However writers interleave and wherever they die, the files on disk form  *)
(* one continuous chain with every payload in place: open() never reports    *)
(* CorruptData for what publish() and create() left behind.                  *)
StoreOpens ==
    created => /\ ValidChain(commits)
               /\ \E h \in commits : IsHead(h, commits)
               /\ commits \subseteq payloads

(* publish() is a compare-and-swap although the comparison and the rename    *)
(* are separate file operations: a commit is only ever added on top of the   *)
(* very revision its caller named, which is still the head at that moment.   *)
CommitIsCompareAndSwap ==
    [][\A c \in commits' \ commits :
          created => /\ IsHead(Parent(c), commits)
                     /\ \E p \in Procs : c = Revision(p) /\ pc[p] \in Writing]_vars

(* A lock directory that any process leaves behind, by finishing or by       *)
(* dying, is eventually gone, so publishers are not locked out for ever.     *)
LockReleased == lock ~> ~lock

-----------------------------------------------------------------------------
(* The store implements the abstract append-only log: its log is the chain   *)
(* that the longest commit names, its views are the heads in the objects.    *)
(* No crash loses a committed revision, no reader sees anything but a prefix *)
(* that only grows, and no retry commits an unchanged memory again.          *)
CurrentRevision == IF commits = {} THEN <<>> ELSE CHOOSE h \in commits : IsHead(h, commits)

Chain == INSTANCE AppendChain
            WITH Entry <- Memories, Client <- Procs, log <- CurrentRevision, view <- handle

ImplementsChain == Chain!Spec
=============================================================================
