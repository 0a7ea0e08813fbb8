-------------------------- MODULE PublicationHistory --------------------------
(***************************************************************************)
(* OccupancyPublicationHistory (src/coordination_history.cpp): the signed    *)
(* publications of one stream under one trust bundle that never changes, in  *)
(* immutable files, and the audit that compares two objects.  A directory    *)
(* may be copied by its operator; writers of the copy and of the original    *)
(* know nothing of each other, and the audit is what finds out.              *)
(*                                                                           *)
(* A record file is modelled by the chain of publications that it ends: its  *)
(* id covers its parent's.  Staged record files stay in records/ and readers *)
(* count them, so the number of those that exist is state.                   *)
(***************************************************************************)
EXTENDS Naturals, FiniteSets, Sequences

CONSTANTS
    Dirs,               \* history directories
    Procs,              \* processes, each with one history object
    Payloads,           \* what a publication may be about
    MaxPublications,    \* options.maximum_publications
    MaxInterruptions    \* bound: calls that fail or die while they write

VARIABLES
    records,        \* records[d]: each the chain that the file ends
    publications,   \* publications[d]: likewise, a publication names its parent
    payloads,       \* payloads[d]: <<sequence, content>>
    staged,         \* staged[d]: how many .tmp- files are in records/
    lock,           \* lock[d]: .writer-lock exists
    pc,             \* where each process is
    object,         \* object[p]: directory and chain that p's object replayed
    draft,          \* draft[p]: the chain that p's publication would end
    interruptions   \* how many calls have failed or died

files == <<records, publications, payloads, staged>>
vars == <<files, lock, pc, object, draft, interruptions>>

Chains == UNION {[1..n -> Payloads] : n \in 1..MaxPublications}
NoObject == [dir |-> "none", chain |-> <<>>]
Writing == {"checked", "paid", "saved", "staged", "committed"}

Goto(p, place) == pc' = [pc EXCEPT ![p] = place]
Within(p, d) == pc[p] \in Writing /\ object[p].dir = d

-----------------------------------------------------------------------------
(* open() accepts chain c: the entries of records/ are within the limit, the *)
(* records are one chain that ends at the expected head, and what they name  *)
(* is there and verifies.                                                    *)
Opens(d, c) ==
    /\ c # <<>>
    /\ Cardinality(records[d]) + staged[d] <= MaxPublications
    /\ records[d] = {SubSeq(c, 1, i) : i \in 1..Len(c)}
    /\ \A i \in 1..Len(c) :
          SubSeq(c, 1, i) \in publications[d] /\ <<i, c[i]>> \in payloads[d]

-----------------------------------------------------------------------------
Init ==
    /\ records = [d \in Dirs |-> {}]
    /\ publications = [d \in Dirs |-> {}]
    /\ payloads = [d \in Dirs |-> {}]
    /\ staged = [d \in Dirs |-> 0]
    /\ lock = [d \in Dirs |-> FALSE]
    /\ pc = [p \in Procs |-> "idle"]
    /\ object = [p \in Procs |-> NoObject]
    /\ draft = [p \in Procs |-> <<>>]
    /\ interruptions = 0

(* create(): the root is stored in a sibling that is renamed into place. *)
Create(p, d, root) ==
    /\ pc[p] = "idle"
    /\ \A e \in Dirs : records[e] = {}
    /\ records' = [records EXCEPT ![d] = {<<root>>}]
    /\ publications' = [publications EXCEPT ![d] = {<<root>>}]
    /\ payloads' = [payloads EXCEPT ![d] = {<<1, root>>}]
    /\ object' = [object EXCEPT ![p] = [dir |-> d, chain |-> <<root>>]]
    /\ UNCHANGED <<staged, lock, pc, draft, interruptions>>

(* External: the operator copies a directory, a writer's lock included. *)
OperatorCopies(d, e) ==
    /\ records[d] # {}
    /\ records[e] = {}
    /\ records' = [records EXCEPT ![e] = records[d]]
    /\ publications' = [publications EXCEPT ![e] = publications[d]]
    /\ payloads' = [payloads EXCEPT ![e] = payloads[d]]
    /\ staged' = [staged EXCEPT ![e] = staged[d]]
    /\ lock' = [lock EXCEPT ![e] = lock[d]]
    /\ UNCHANGED <<pc, object, draft, interruptions>>

Open(p, d, c) ==
    /\ pc[p] = "idle"
    /\ Opens(d, c)
    /\ object' = [object EXCEPT ![p] = [dir |-> d, chain |-> c]]
    /\ UNCHANGED <<files, lock, pc, draft, interruptions>>

(* publish() up to its first write that lasts: under the lock the directory  *)
(* is opened again at the head c that the caller expects, there is room, and *)
(* the publication verifies as the successor of that head.                   *)
PublishCheck(p, c, payload) ==
    LET d == object[p].dir IN
    /\ pc[p] = "idle"
    /\ object[p] # NoObject
    /\ ~lock[d]
    /\ Opens(d, c)
    /\ Len(c) < MaxPublications
    /\ lock' = [lock EXCEPT ![d] = TRUE]
    /\ draft' = [draft EXCEPT ![p] = Append(c, payload)]
    /\ Goto(p, "checked")
    /\ UNCHANGED <<files, object, interruptions>>

(* publish_payload_bytes(): written, or found with the same bytes. *)
SavePayload(p) ==
    LET d == object[p].dir IN
    /\ pc[p] = "checked"
    /\ payloads' = [payloads EXCEPT
          ![d] = @ \cup {<<Len(draft[p]), draft[p][Len(draft[p])]>>}]
    /\ Goto(p, "paid")
    /\ UNCHANGED <<records, publications, staged, lock, object, draft, interruptions>>

(* publish_publication_file(): saved, or found with the same id. *)
SavePublication(p) ==
    /\ pc[p] = "paid"
    /\ publications' = [publications EXCEPT ![object[p].dir] = @ \cup {draft[p]}]
    /\ Goto(p, "saved")
    /\ UNCHANGED <<records, payloads, staged, lock, object, draft, interruptions>>

(* write_immutable_text(): a record goes next to its place ... *)
StageRecord(p) ==
    LET d == object[p].dir IN
    /\ pc[p] = "saved"
    /\ draft[p] \notin records[d]
    /\ staged' = [staged EXCEPT ![d] = @ + 1]
    /\ Goto(p, "staged")
    /\ UNCHANGED <<records, publications, payloads, lock, object, draft, interruptions>>

(* ... and is renamed into it. *)
CommitRecord(p) ==
    LET d == object[p].dir IN
    /\ pc[p] = "staged"
    /\ records' = [records EXCEPT ![d] = @ \cup {draft[p]}]
    /\ staged' = [staged EXCEPT ![d] = @ - 1]
    /\ Goto(p, "committed")
    /\ UNCHANGED <<publications, payloads, lock, object, draft, interruptions>>

(* publish() opens the history at its new head; the object is replaced. *)
PublishReturns(p) ==
    LET d == object[p].dir IN
    /\ pc[p] = "committed"
    /\ Opens(d, draft[p])
    /\ object' = [object EXCEPT ![p].chain = draft[p]]
    /\ lock' = [lock EXCEPT ![d] = FALSE]
    /\ draft' = [draft EXCEPT ![p] = <<>>]
    /\ Goto(p, "idle")
    /\ UNCHANGED <<files, interruptions>>

(* A call that has the lock fails, before or after its commit; the staged    *)
(* file and the lock are removed and the object is as before.                *)
WriteFails(p) ==
    LET d == object[p].dir IN
    /\ pc[p] \in Writing
    /\ interruptions < MaxInterruptions
    /\ interruptions' = interruptions + 1
    /\ staged' = [staged EXCEPT ![d] = IF pc[p] = "staged" THEN @ - 1 ELSE @]
    /\ lock' = [lock EXCEPT ![d] = FALSE]
    /\ draft' = [draft EXCEPT ![p] = <<>>]
    /\ Goto(p, "idle")
    /\ UNCHANGED <<records, publications, payloads, object>>

(* The process dies: its lock and its staged file stay. *)
Crash(p) ==
    /\ pc[p] \in Writing
    /\ interruptions < MaxInterruptions
    /\ interruptions' = interruptions + 1
    /\ object' = [object EXCEPT ![p] = NoObject]
    /\ draft' = [draft EXCEPT ![p] = <<>>]
    /\ Goto(p, "idle")
    /\ UNCHANGED <<files, lock>>

(* External: the operator removes the lock of a writer that died. *)
OperatorClearsLock(d) ==
    /\ lock[d]
    /\ \A p \in Procs : ~Within(p, d)
    /\ lock' = [lock EXCEPT ![d] = FALSE]
    /\ UNCHANGED <<files, pc, object, draft, interruptions>>

Publish(p) ==
    \/ \E c \in Chains, payload \in Payloads : PublishCheck(p, c, payload)
    \/ SavePayload(p)
    \/ SavePublication(p)
    \/ StageRecord(p)
    \/ CommitRecord(p)
    \/ PublishReturns(p)

Next ==
    \/ \E p \in Procs :
          \/ \E d \in Dirs, root \in Payloads : Create(p, d, root)
          \/ \E d \in Dirs, c \in Chains : Open(p, d, c)
          \/ Publish(p)
          \/ WriteFails(p)
          \/ Crash(p)
    \/ \E d, e \in Dirs : OperatorCopies(d, e)
    \/ \E d \in Dirs : OperatorClearsLock(d)

Spec == Init /\ [][Next]_vars

-----------------------------------------------------------------------------
CommonPrefix(s, t) ==
    LET agreed == {i \in 0..Len(s) : i <= Len(t) /\ SubSeq(s, 1, i) = SubSeq(t, 1, i)}
    IN CHOOSE i \in agreed : \A j \in agreed : j <= i

(* Mutant of Audit: a common prefix is all that it takes to extend. *)
AuditPrefixOnly(s, t) ==
    LET common == CommonPrefix(s, t) IN
    CASE common = Len(s) /\ common = Len(t) -> "identical"
      [] common >= 1 /\ Len(s) > Len(t) -> "first extends second"
      [] common >= 1 /\ Len(s) < Len(t) -> "second extends first"
      [] OTHER -> "forked"

(* audit_occupancy_publication_histories() of two objects with one root. *)
Audit(s, t) ==
    LET common == CommonPrefix(s, t) IN
    CASE common = Len(s) /\ common = Len(t) -> "identical"
      [] common = Len(t) /\ common # Len(s) -> "first extends second"
      [] common = Len(s) /\ common # Len(t) -> "second extends first"
      [] OTHER -> "forked"

Comparable(p, q) ==
    /\ object[p] # NoObject /\ object[q] # NoObject
    /\ object[p].chain[1] = object[q].chain[1]

(* publish() and open(): whatever writers that fail or die leave behind, the *)
(* history opens, as long as open() does not refuse it because of how many   *)
(* files, abandoned ones included, there are in records/.                    *)
HistoryOpens ==
    \A d \in Dirs :
        records[d] # {} /\ Cardinality(records[d]) + staged[d] <= MaxPublications
            => \E c \in Chains : Opens(d, c)

(* audit_occupancy_publication_histories(): two objects of one directory are *)
(* never found forked, however old; two objects are found forked exactly     *)
(* when no single chain has both as a past                                   *)
(* (docs/occupancy-publication-history.md:100-103).                          *)
ForksAreFound ==
    \A p, q \in Procs : Comparable(p, q) =>
        LET forked == Audit(object[p].chain, object[q].chain) = "forked"
        IN /\ object[p].dir = object[q].dir => ~forked
           /\ forked <=> ~\E c \in Chains :
                 /\ object[p].chain \in {SubSeq(c, 1, i) : i \in 1..Len(c)}
                 /\ object[q].chain \in {SubSeq(c, 1, i) : i \in 1..Len(c)}
=============================================================================
