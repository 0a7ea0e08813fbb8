--------------------------- MODULE RotatingHistory ---------------------------
(***************************************************************************)
(* RotatingOccupancyPublicationHistory                                       *)
(* (src/coordination_rotating_history.cpp): signed publications in immutable *)
(* files, next to an embedded trust history that says which keys may sign.   *)
(* The two chains move separately, each under a head that the caller names.  *)
(*                                                                           *)
(* A record file is modelled by the chain of publications that it ends, a    *)
(* bundle by its position in the trust history, of which there is one and    *)
(* which only grows; that one append to it is atomic is what TrustHistory    *)
(* shows.  Staged files have names that no reader looks for.  A reader takes *)
(* no lock and reads the trust history first; the records that it then       *)
(* enumerates are a chain only if they are the directory at some moment.     *)
(***************************************************************************)
EXTENDS ServiceTrust, Sequences

CONSTANTS
    Procs,              \* processes, each with one history object
    MayPublish,         \* keys with allow_publish
    Payloads,           \* contents of occupancy bundles
    Sources,            \* trust histories that create() may clone
    Tables,             \* key tables that successor bundles are made of
    MaxPublications,    \* options.maximum_publications
    MaxBundles          \* options.trust.maximum_bundles

ASSUME SourcesAssumption ==
    \A s \in Sources : s \in Seq([Keys -> Entries]) /\ Len(s) \in 1..MaxBundles
ASSUME SuccessorsAssumption == Tables \subseteq [Keys -> Entries]
ASSUME LimitsAssumption == MaxPublications \in Nat \ {0} /\ MaxBundles \in Nat \ {0}

VARIABLES
    records,        \* records/: each the chain that the file ends
    publications,   \* publications/: likewise, a publication names its parent
    payloads,       \* payloads/: <<sequence, content>>
    trust,          \* the bundles of the embedded trust history
    lock,           \* .writer-lock exists
    trustLock,      \* trust-history/.writer-lock exists
    pc,             \* where each process is
    handle,         \* handle[p]: what p's object replayed, or Nothing
    seen,           \* seen[p]: the trust history that an open() in progress read
    draft           \* draft[p]: the chain that p's publication would end

files == <<records, publications, payloads>>
locks == <<lock, trustLock>>
vars == <<files, trust, locks, pc, handle, seen, draft>>

Publications == [bundle : 1..MaxBundles, key : Keys, payload : Payloads]
Nothing == [trust |-> <<>>, chain |-> <<>>]
Writing == {"checked", "paid", "saved", "committed", "rotating", "entered", "rotated"}

Goto(p, place) == pc' = [pc EXCEPT ![p] = place]
Resting(p) == IF handle[p] = Nothing THEN "closed" ELSE "open"

-----------------------------------------------------------------------------
(* verify_publication_entry(): publication i of chain c is signed by a key   *)
(* that the bundle it names trusts at that sequence number.                  *)
Verified(T, c, i) ==
    /\ c[i].key \in MayPublish
    /\ TrustedAt(c[i].key, T[c[i].bundle][c[i].key], i)

(* open() accepts chain c, given the trust history T that it read before. *)
Opens(T, c) ==
    /\ c # <<>>
    /\ records = {SubSeq(c, 1, i) : i \in 1..Len(c)}
    /\ Len(c) <= MaxPublications
    /\ \A i \in 1..Len(c) :
          /\ SubSeq(c, 1, i) \in publications
          /\ <<i, c[i].payload>> \in payloads
          /\ c[i].bundle \in 1..Len(T)
          /\ i > 1 => c[i - 1].bundle <= c[i].bundle
          /\ Verified(T, c, i)

-----------------------------------------------------------------------------
Init ==
    /\ records = {}
    /\ publications = {}
    /\ payloads = {}
    /\ trust = <<>>
    /\ lock = FALSE
    /\ trustLock = FALSE
    /\ pc = [p \in Procs |-> "closed"]
    /\ handle = [p \in Procs |-> Nothing]
    /\ seen = [p \in Procs |-> <<>>]
    /\ draft = [p \in Procs |-> <<>>]

(* create(): the caller's trust history is cloned and the root publication,  *)
(* under its current bundle, stored in a sibling that is renamed into place; *)
(* then create() does as open() does.                                        *)
Create(p, source, root) ==
    /\ pc[p] = "closed"
    /\ records = {}
    /\ root.bundle = Len(source)
    /\ Verified(source, <<root>>, 1)
    /\ records' = {<<root>>}
    /\ publications' = {<<root>>}
    /\ payloads' = {<<1, root.payload>>}
    /\ trust' = source
    /\ UNCHANGED <<locks, pc, handle, seen, draft>>

(* open(), first half: the embedded trust history ends at the expected head. *)
OpenTrust(p) ==
    /\ pc[p] \in {"closed", "open"}
    /\ records # {}
    /\ seen' = [seen EXCEPT ![p] = trust]
    /\ Goto(p, "opening")
    /\ UNCHANGED <<files, trust, locks, handle, draft>>

(* Mutant of OpenRecords: bundles are looked up in the directory again. *)
OpenRecordsLooksAgain(p, c) ==
    /\ pc[p] = "opening"
    /\ Opens(trust, c)
    /\ handle' = [handle EXCEPT ![p] = [trust |-> seen[p], chain |-> c]]
    /\ seen' = [seen EXCEPT ![p] = <<>>]
    /\ Goto(p, "open")
    /\ UNCHANGED <<files, trust, locks, draft>>

(* open(), second half: the records replay to the expected publication.  An  *)
(* open() with a checkpoint verifies it afterwards and may fail.             *)
OpenRecords(p, c) ==
    /\ pc[p] = "opening"
    /\ Opens(seen[p], c)
    /\ handle' = [handle EXCEPT ![p] = [trust |-> seen[p], chain |-> c]]
    /\ seen' = [seen EXCEPT ![p] = <<>>]
    /\ Goto(p, "open")
    /\ UNCHANGED <<files, trust, locks, draft>>

(* A head has moved or a file cannot be read; an older object stays. *)
OpenFails(p) ==
    /\ pc[p] = "opening"
    /\ seen' = [seen EXCEPT ![p] = <<>>]
    /\ Goto(p, Resting(p))
    /\ UNCHANGED <<files, trust, locks, handle, draft>>

-----------------------------------------------------------------------------

(* publish() up to its first write: under the lock both chains end at the    *)
(* heads that the caller expects, and the publication follows under the      *)
(* current bundle.                                                           *)
PublishCheck(p, c, key, payload) ==
    /\ pc[p] = "open"
    /\ ~lock
    /\ Len(c) < MaxPublications
    /\ Opens(trust, c)
    /\ LET next == Append(c, [bundle |-> Len(trust), key |-> key, payload |-> payload]) IN
          /\ Verified(trust, next, Len(next))
          /\ draft' = [draft EXCEPT ![p] = next]
    /\ lock' = TRUE
    /\ Goto(p, "checked")
    /\ UNCHANGED <<files, trust, trustLock, handle, seen>>

(* Mutant of SavePayload: an orphan of the same sequence will do. *)
SavePayloadReusesAny(p) ==
    /\ pc[p] = "checked"
    /\ LET n == Len(draft[p]) IN
          payloads' = IF \E x \in payloads : x[1] = n THEN payloads
                      ELSE payloads \cup {<<n, draft[p][n].payload>>}
    /\ Goto(p, "paid")
    /\ UNCHANGED <<records, publications, trust, locks, handle, seen, draft>>

(* Payload, then publication, each written or, when an interrupted attempt   *)
(* left it, found equal: its name has the sequence and a hash of its content.*)
SavePayload(p) ==
    /\ pc[p] = "checked"
    /\ payloads' = payloads \cup {<<Len(draft[p]), draft[p][Len(draft[p])].payload>>}
    /\ Goto(p, "paid")
    /\ UNCHANGED <<records, publications, trust, locks, handle, seen, draft>>

SavePublication(p) ==
    /\ pc[p] = "paid"
    /\ publications' = publications \cup {draft[p]}
    /\ Goto(p, "saved")
    /\ UNCHANGED <<records, payloads, trust, locks, handle, seen, draft>>

(* The record is renamed into place, never over an existing one. *)
CommitRecord(p) ==
    /\ pc[p] = "saved"
    /\ draft[p] \notin records
    /\ records' = records \cup {draft[p]}
    /\ Goto(p, "committed")
    /\ UNCHANGED <<publications, payloads, trust, locks, handle, seen, draft>>

(* The history is opened again at the new head and becomes the object. *)
PublishReturns(p) ==
    /\ pc[p] = "committed"
    /\ Opens(trust, draft[p])
    /\ handle' = [handle EXCEPT ![p] = [trust |-> trust, chain |-> draft[p]]]
    /\ lock' = FALSE
    /\ draft' = [draft EXCEPT ![p] = <<>>]
    /\ Goto(p, "open")
    /\ UNCHANGED <<files, trust, trustLock, seen>>

-----------------------------------------------------------------------------
(* Mutant of RotateCheck: only the embedded history's own lock is taken. *)
RotateCheckNoLock(p) ==
    /\ pc[p] = "open"
    /\ Opens(trust, handle[p].chain)
    /\ lock' = lock
    /\ Goto(p, "rotating")
    /\ UNCHANGED <<files, trust, trustLock, handle, seen, draft>>

(* rotate_trust(): the trust history ends at the head that the caller        *)
(* expects, the publications at the one that the object holds.               *)
RotateCheck(p) ==
    /\ pc[p] = "open"
    /\ ~lock
    /\ Opens(trust, handle[p].chain)
    /\ lock' = TRUE
    /\ Goto(p, "rotating")
    /\ UNCHANGED <<files, trust, trustLock, handle, seen, draft>>

(* ServiceTrustHistory::publish() of the embedded history. *)
EnterTrust(p) ==
    /\ pc[p] = "rotating"
    /\ ~trustLock
    /\ Len(trust) < MaxBundles
    /\ trustLock' = TRUE
    /\ Goto(p, "entered")
    /\ UNCHANGED <<files, trust, lock, handle, seen, draft>>

CommitRotation(p, table) ==
    /\ pc[p] = "entered"
    /\ ValidSuccessor(trust[Len(trust)], table)
    /\ \E signers \in SUBSET Keys : Approves(signers, trust[Len(trust)], Len(trust) + 1)
    /\ trust' = Append(trust, table)
    /\ trustLock' = FALSE
    /\ Goto(p, "rotated")
    /\ UNCHANGED <<files, lock, handle, seen, draft>>

RotateReturns(p) ==
    /\ pc[p] = "rotated"
    /\ Opens(trust, handle[p].chain)
    /\ handle' = [handle EXCEPT ![p] = [trust |-> trust, chain |-> @.chain]]
    /\ lock' = FALSE
    /\ Goto(p, "open")
    /\ UNCHANGED <<files, trust, trustLock, seen, draft>>

(* A call that has the lock fails, before or after its commit, and its       *)
(* destructors release what it holds; the object is as before.               *)
WriteFails(p) ==
    /\ pc[p] \in Writing
    /\ lock' = FALSE
    /\ trustLock' = (trustLock /\ pc[p] # "entered")
    /\ draft' = [draft EXCEPT ![p] = <<>>]
    /\ Goto(p, "open")
    /\ UNCHANGED <<files, trust, handle, seen>>

-----------------------------------------------------------------------------
Crash(p) ==
    /\ pc[p] # "closed"
    /\ handle' = [handle EXCEPT ![p] = Nothing]
    /\ seen' = [seen EXCEPT ![p] = <<>>]
    /\ draft' = [draft EXCEPT ![p] = <<>>]
    /\ Goto(p, "closed")
    /\ UNCHANGED <<files, trust, locks>>

(* External: the operator removes the locks of writers that died. *)
OperatorClearsLocks ==
    /\ lock \/ trustLock
    /\ \A p \in Procs : pc[p] \notin Writing
    /\ lock' = FALSE
    /\ trustLock' = FALSE
    /\ UNCHANGED <<files, trust, pc, handle, seen, draft>>

Open(p) == OpenTrust(p) \/ OpenFails(p) \/ \E c \in records : OpenRecords(p, c)

Publish(p) ==
    \/ \E c \in records, key \in Keys, payload \in Payloads : PublishCheck(p, c, key, payload)
    \/ SavePayload(p)
    \/ SavePublication(p)
    \/ CommitRecord(p)
    \/ PublishReturns(p)

RotateTrust(p) ==
    \/ RotateCheck(p)
    \/ EnterTrust(p)
    \/ \E table \in Tables : CommitRotation(p, table)
    \/ RotateReturns(p)

Next ==
    \/ \E p \in Procs :
          \/ \E s \in Sources, r \in Publications : Create(p, s, r)
          \/ Open(p)
          \/ Publish(p)
          \/ RotateTrust(p)
          \/ WriteFails(p)
          \/ Crash(p)
    \/ OperatorClearsLocks

Spec == Init /\ [][Next]_vars

-----------------------------------------------------------------------------
(* How two chains with a common beginning are related. *)
Relation(s, t) ==
    CASE s = t -> "identical"
      [] Len(t) < Len(s) /\ t = SubSeq(s, 1, Len(t)) -> "first extends second"
      [] Len(s) < Len(t) /\ s = SubSeq(t, 1, Len(s)) -> "second extends first"
      [] OTHER -> "forked"

(* audit_rotating_occupancy_publication_histories() of the objects of p and  *)
(* q, which share their roots: one relation for each of the two chains.      *)
Audit(p, q) ==
    [publications |-> Relation(handle[p].chain, handle[q].chain),
     trust |-> Relation(handle[p].trust, handle[q].trust)]

(* What create(), open(), publish() and rotate_trust() keep has its type.    *)
TypeOK ==
    /\ records \subseteq Seq(Publications) \ {<<>>}
    /\ publications \subseteq Seq(Publications) \ {<<>>}
    /\ payloads \subseteq (1..MaxPublications) \X Payloads
    /\ trust \in Seq([Keys -> Entries])
    /\ lock \in BOOLEAN /\ trustLock \in BOOLEAN
    /\ pc \in [Procs -> Writing \cup {"closed", "open", "opening"}]
    /\ handle \in [Procs -> [trust : Seq([Keys -> Entries]), chain : Seq(Publications)]]
    /\ seen \in [Procs -> Seq([Keys -> Entries])]
    /\ draft \in [Procs -> Seq(Publications)]

(* Whatever publish() and rotate_trust() leave behind, interrupted or not,    *)
(* open() accepts under the trust history that is there: rotations never     *)
(* invalidate what was published before them.                                *)
HistoryOpens == records # {} => \E c \in records : Opens(trust, c)

(* A publication is committed only under the bundle that is current at that  *)
(* moment and by a key that it trusts: no rotation, not one that retires the *)
(* key either, comes between the check and the commit                        *)
(* (docs/rotating-occupancy-publication-history.md:80-87).                   *)
SignedUnderHead ==
    [][records # {} =>
          \A c \in records' \ records :
             c[Len(c)].bundle = Len(trust) /\ Verified(trust, c, Len(c))]_<<records, trust>>

(* What an object holds is a past of the directory, and one moment of it:    *)
(* though open() reads the two chains one after the other and without the    *)
(* lock, no publication of its chain was made under a bundle that its trust  *)
(* history lacks, and none that it lacks was made before its last bundle.    *)
ObjectsWereCurrent ==
    \A p \in Procs : handle[p] # Nothing =>
        LET held == handle[p]
            n == Len(held.chain)
        IN /\ held.trust = SubSeq(trust, 1, Len(held.trust))
           /\ held.chain \in records
           /\ held.chain[n].bundle <= Len(held.trust)
           /\ \A c \in records : Len(c) > n =>
                 SubSeq(c, 1, n) = held.chain /\ c[n + 1].bundle >= Len(held.trust)

(* The audit of two objects of one directory never detects a fork, and it    *)
(* orders the objects: the two chains do not say, one that the first object  *)
(* is ahead, the other that the second is                                    *)
(* (docs/rotating-occupancy-publication-history.md:94-108).                  *)
AuditsAgree ==
    \A p, q \in {x \in Procs : handle[x] # Nothing} :
        LET audit == Audit(p, q) IN
        /\ "forked" \notin {audit.publications, audit.trust}
        /\ {audit.publications, audit.trust} # {"first extends second", "second extends first"}
=============================================================================
