------------------------- MODULE MemoryStoreProofs -------------------------
(***************************************************************************)
(* Proofs about MemoryStore for any number of processes, memories and       *)
(* revisions; and, at the end, about the two other directories of immutable *)
(* files that processes extend under a lock directory: the transparency log *)
(* (TransparencyLog) and the archive of gossip about it (WitnessGossip).    *)
(***************************************************************************)
EXTENDS MemoryStore, PrefixChains, FiniteSetTheorems

(* The writer lock is exclusive: whoever is inside publish() holds it. *)
WriterExclusion ==
    /\ \A p \in Procs : pc[p] \in Writing => lock
    /\ \A p, q \in Procs : pc[p] \in Writing /\ pc[q] \in Writing => p = q

(* Every ancestor of a commit is a commit.  ValidChain says it of parents   *)
(* only; stated for all ancestors it needs no induction over the chain.     *)
AncestorsCommitted ==
    \A c \in commits : \A k \in 1..Len(c) : SubSeq(c, 1, k) \in commits

OnePerSequence == \A c, d \in commits : Len(c) = Len(d) => c = d

HeadExists == created => \E h \in commits : IsHead(h, commits)

(* What a writer has established stays true until it uses it. *)
WriterKnows ==
    \A p \in Procs :
       /\ pc[p] \in {"checked", "saved"} =>
             /\ created
             /\ IsHead(req[p].expected, commits)
             /\ Newest(req[p].expected) # req[p].memory
       /\ pc[p] = "saved" => Revision(p) \in payloads
       /\ pc[p] = "committed" => IsHead(Revision(p), commits)
       /\ pc[p] = "created" => <<req[p].memory>> \in commits

NothingBeforeCreate ==
    ~created => /\ commits = {}
                /\ \A p \in Procs : pc[p] \in {"closed", "creating"}

(* Objects and enumerations only ever hold committed revisions. *)
ReadersKnow ==
    \A p \in Procs :
       /\ handle[p] # <<>> => handle[p] \in commits
       /\ pc[p] = "opening" => /\ seen[p] \subseteq commits
                               /\ handle[p] # <<>> => handle[p] \in seen[p]
       /\ pc[p] \in {"creating", "created", "closed"} => handle[p] = <<>>

ChainSound ==
    /\ AncestorsCommitted
    /\ OnePerSequence
    /\ HeadExists
    /\ commits \subseteq payloads

IInv ==
    /\ TypeOK
    /\ WriterExclusion
    /\ ChainSound
    /\ WriterKnows
    /\ NothingBeforeCreate
    /\ ReadersKnow

-----------------------------------------------------------------------------
(* A sequence taken to its full length is itself (ids are content hashes of *)
(* the whole chain, so two ids with the same chain are one id).             *)
LEMMA WholeSubSeq ==
    ASSUME NEW S, NEW s \in Seq(S)
    PROVE  SubSeq(s, 1, Len(s)) = s
  OBVIOUS

(* The ancestors of a new revision are those of the head it was put on. *)
LEMMA AppendAncestors ==
    ASSUME NEW S, NEW s \in Seq(S), NEW m \in S, NEW k \in 1..Len(s)
    PROVE  SubSeq(Append(s, m), 1, k) = SubSeq(s, 1, k)
  OBVIOUS

(* A new revision is a non-empty id, one longer than its parent. *)
LEMMA AppendParent ==
    ASSUME NEW s \in Seq(Memories), NEW m \in Memories
    PROVE  /\ Append(s, m) \in Ids
           /\ Len(Append(s, m)) = Len(s) + 1
           /\ Parent(Append(s, m)) = s
           /\ Newest(Append(s, m)) = m
  BY DEF Ids, Parent, Newest

(* The ids a publisher may name are sequences of memories. *)
LEMMA PrefixesTyped ==
    ASSUME NEW s \in Seq(Memories), NEW e \in Prefixes(s)
    PROVE  e \in Seq(Memories)
  BY DEF Prefixes

-----------------------------------------------------------------------------
(* Between calls a process holds the arguments of none. *)
LEMMA NoRequestTyped == NoRequest \in Requests
<1>1. \E m \in Memories : TRUE
  BY MemoriesAssumption
<1>2. (CHOOSE m \in Memories : TRUE) \in Memories
  BY <1>1
<1> QED
  BY <1>2 DEF NoRequest, Requests

(* Before create() there is no store, no lock and no call in progress. *)
LEMMA InitIInv == Init => IInv
<1> SUFFICES ASSUME Init PROVE IInv
  OBVIOUS
<1>1. NoRequest \in Requests
  BY NoRequestTyped
<1>2. TypeOK
  <2>1. <<>> \in Seq(Memories)
    OBVIOUS
  <2>2. /\ created \in BOOLEAN /\ lock \in BOOLEAN
        /\ commits \subseteq Ids /\ payloads \subseteq Ids
    BY DEF Init
  <2>3. pc \in [Procs -> Places] /\ seen \in [Procs -> SUBSET Ids]
    BY DEF Init, Places
  <2>4. handle \in [Procs -> Seq(Memories)] /\ req \in [Procs -> Requests]
    BY <1>1, <2>1 DEF Init
  <2> QED
    BY <2>2, <2>3, <2>4 DEF TypeOK
<1>3. WriterExclusion /\ NothingBeforeCreate /\ WriterKnows /\ ReadersKnow
  BY DEF Init, WriterExclusion, NothingBeforeCreate, WriterKnows, ReadersKnow, Writing
<1>4. AncestorsCommitted /\ OnePerSequence /\ HeadExists /\ commits \subseteq payloads
  BY DEF Init, AncestorsCommitted, OnePerSequence, HeadExists
<1> QED
  BY <1>2, <1>3, <1>4 DEF IInv, ChainSound

(* The arguments of a publication and the revision it would commit. *)
LEMMA RequestTyped ==
    ASSUME TypeOK, NEW p \in Procs
    PROVE  /\ req[p].expected \in Seq(Memories)
           /\ req[p].memory \in Memories
           /\ <<req[p].memory>> \in Ids
           /\ Revision(p) \in Ids
           /\ Revision(p) \in Seq(Memories)
           /\ Len(Revision(p)) = Len(req[p].expected) + 1
           /\ Parent(Revision(p)) = req[p].expected
           /\ Newest(Revision(p)) = req[p].memory
<1>1. req[p].expected \in Seq(Memories) /\ req[p].memory \in Memories
  BY DEF TypeOK, Requests
<1>2. <<req[p].memory>> \in Ids
  BY <1>1 DEF Ids
<1> QED
  BY <1>1, <1>2, AppendParent DEF Revision, Ids

(* create() and publish() build well-formed requests. *)
LEMMA NewRequestTyped ==
    ASSUME NEW e \in Seq(Memories), NEW m \in Memories, NEW n \in Nat
    PROVE  [expected |-> e, memory |-> m, limit |-> n] \in Requests
  BY DEF Requests

(* Every step of create(), open(), publish(), of a crash and of the operator  *)
(* keeps the types.                                                          *)
LEMMA TypeStep == TypeOK /\ [Next]_vars => TypeOK'
<1> SUFFICES ASSUME TypeOK, [Next]_vars PROVE TypeOK'
  OBVIOUS
<1> USE DEF TypeOK, Places, Writing
<1>1. ASSUME NEW p \in Procs, NEW m \in Memories, CreateStage(p, m)
      PROVE  TypeOK'
  <2>1. <<>> \in Seq(Memories)
    OBVIOUS
  <2>2. [expected |-> <<>>, memory |-> m, limit |-> 0] \in Requests
    BY <2>1, NewRequestTyped
  <2> QED
    BY <1>1, <2>2 DEF CreateStage
<1>2. ASSUME NEW p \in Procs, CreateRename(p)
      PROVE  TypeOK'
  BY <1>2, RequestTyped DEF CreateRename
<1>3. ASSUME NEW p \in Procs, CreateFails(p)
      PROVE  TypeOK'
  BY <1>3, NoRequestTyped DEF CreateFails
<1>4. ASSUME NEW p \in Procs, CreateReturns(p)
      PROVE  TypeOK'
  BY <1>4, RequestTyped, NoRequestTyped DEF CreateReturns, Ids
<1>5. ASSUME NEW p \in Procs, OpenBegin(p)
      PROVE  TypeOK'
  BY <1>5 DEF OpenBegin
<1>6. ASSUME NEW p \in Procs, NEW later \in SUBSET (commits \ seen[p]), OpenEnd(p, later)
      PROVE  TypeOK'
  <2>1. PICK h \in seen[p] \cup later : handle' = [handle EXCEPT ![p] = h]
    BY <1>6 DEF OpenEnd
  <2>2. h \in Seq(Memories)
    BY <2>1 DEF Ids
  <2> QED
    BY <1>6, <2>1, <2>2 DEF OpenEnd
<1>7. ASSUME NEW p \in Procs, NEW later \in SUBSET (commits \ seen[p]), OpenFails(p, later)
      PROVE  TypeOK'
  BY <1>7 DEF OpenFails
<1>8. ASSUME NEW p \in Procs, NEW e \in Prefixes(handle[p]), NEW m \in Memories, NEW n \in Limits, AcquireLock(p, e, m, n)
      PROVE  TypeOK'
  <2>1. e \in Seq(Memories) /\ n \in Nat
    BY PrefixesTyped, LimitsAssumption
  <2>2. [expected |-> e, memory |-> m, limit |-> n] \in Requests
    BY <2>1, NewRequestTyped
  <2> QED
    BY <1>8, <2>2 DEF AcquireLock
<1>9. ASSUME NEW p \in Procs, PublishUnchanged(p)
      PROVE  TypeOK'
  BY <1>9, RequestTyped DEF PublishUnchanged
<1>10. ASSUME NEW p \in Procs, PublishChecked(p)
      PROVE  TypeOK'
  BY <1>10 DEF PublishChecked
<1>11. ASSUME NEW p \in Procs, SavePayload(p)
      PROVE  TypeOK'
  BY <1>11, RequestTyped DEF SavePayload
<1>12. ASSUME NEW p \in Procs, CommitRename(p)
      PROVE  TypeOK'
  BY <1>12, RequestTyped DEF CommitRename
<1>13. ASSUME NEW p \in Procs, PublishFails(p)
      PROVE  TypeOK'
  BY <1>13 DEF PublishFails
<1>14. ASSUME NEW p \in Procs, PublishReturns(p)
      PROVE  TypeOK'
  BY <1>14, RequestTyped, NoRequestTyped DEF PublishReturns
<1>15. ASSUME NEW p \in Procs, ReleaseLock(p)
      PROVE  TypeOK'
  BY <1>15, NoRequestTyped DEF ReleaseLock
<1>16. ASSUME NEW p \in Procs, Crash(p)
      PROVE  TypeOK'
  BY <1>16, NoRequestTyped DEF Crash
<1>17. CASE OperatorClearsLock
  BY <1>17 DEF OperatorClearsLock
<1>18. CASE UNCHANGED vars
  BY <1>18 DEF vars
<1> QED
  BY <1>1, <1>2, <1>3, <1>4, <1>5, <1>6, <1>7, <1>8, <1>9, <1>10, <1>11, <1>12, <1>13, <1>14, <1>15, <1>16, <1>17, <1>18 DEF Next, Create, Open, Publish

(* The inductive step: one case per action, and under it one step per part    *)
(* of the invariant that the action can disturb.                             *)
LEMMA InvStep == IInv /\ [Next]_vars => IInv'
<1> SUFFICES ASSUME IInv, [Next]_vars PROVE IInv'
  OBVIOUS
<1>t. TypeOK /\ TypeOK'
  BY TypeStep DEF IInv
<1>q. ASSUME UNCHANGED <<created, commits, payloads>>
      PROVE  ChainSound'
  BY <1>q DEF IInv, ChainSound, AncestorsCommitted, OnePerSequence, HeadExists, IsHead
<1>1. ASSUME NEW p \in Procs, NEW m \in Memories,
             CreateStage(p, m)
      PROVE  IInv'
  <2>1. ChainSound'
    BY <1>1, <1>q DEF CreateStage
  <2>2. WriterExclusion'
    BY <1>1, <1>t DEF CreateStage, IInv, TypeOK, WriterExclusion, Writing
  <2>3. WriterKnows'
    BY <1>1, <1>t DEF CreateStage, IInv, TypeOK, WriterKnows, Revision
  <2>4. NothingBeforeCreate'
    BY <1>1, <1>t DEF CreateStage, IInv, TypeOK, NothingBeforeCreate
  <2>5. ReadersKnow'
    BY <1>1, <1>t DEF CreateStage, IInv, TypeOK, ReadersKnow
  <2> QED
    BY <1>t, <2>1, <2>2, <2>3, <2>4, <2>5 DEF IInv
<1>2. ASSUME NEW p \in Procs,
             CreateRename(p)
      PROVE  IInv'
  <2>1. ChainSound'
    <3>1. <<req[p].memory>> \in Ids /\ commits' = {<<req[p].memory>>} /\ payloads' = commits'
      BY <1>2, <1>t, RequestTyped DEF CreateRename
    <3>2. SubSeq(<<req[p].memory>>, 1, 1) = <<req[p].memory>> /\ Len(<<req[p].memory>>) = 1
      <4>1. <<req[p].memory>> \in Seq(Memories) /\ Len(<<req[p].memory>>) = 1
        BY <3>1 DEF Ids
      <4> QED
        BY <4>1, WholeSubSeq
    <3> QED
      BY <3>1, <3>2 DEF ChainSound, AncestorsCommitted, OnePerSequence, HeadExists, IsHead
  <2>2. WriterExclusion'
    BY <1>2, <1>t DEF CreateRename, IInv, TypeOK, WriterExclusion, Writing
  <2>3. WriterKnows'
    BY <1>2, <1>t DEF CreateRename, IInv, TypeOK, WriterKnows, NothingBeforeCreate
  <2>4. NothingBeforeCreate'
    BY <1>2, <1>t DEF CreateRename, IInv, TypeOK, NothingBeforeCreate
  <2>5. ReadersKnow'
    BY <1>2, <1>t DEF CreateRename, IInv, TypeOK, ReadersKnow, NothingBeforeCreate
  <2> QED
    BY <1>t, <2>1, <2>2, <2>3, <2>4, <2>5 DEF IInv
<1>3. ASSUME NEW p \in Procs,
             CreateFails(p)
      PROVE  IInv'
  <2>1. ChainSound'
    BY <1>3, <1>q DEF CreateFails
  <2>2. WriterExclusion'
    BY <1>3, <1>t DEF CreateFails, IInv, TypeOK, WriterExclusion, Writing
  <2>3. WriterKnows'
    BY <1>3, <1>t DEF CreateFails, IInv, TypeOK, WriterKnows, Revision
  <2>4. NothingBeforeCreate'
    BY <1>3, <1>t DEF CreateFails, IInv, TypeOK, NothingBeforeCreate
  <2>5. ReadersKnow'
    BY <1>3, <1>t DEF CreateFails, IInv, TypeOK, ReadersKnow
  <2> QED
    BY <1>t, <2>1, <2>2, <2>3, <2>4, <2>5 DEF IInv
<1>4. ASSUME NEW p \in Procs,
             CreateReturns(p)
      PROVE  IInv'
  <2>1. ChainSound'
    BY <1>4, <1>q DEF CreateReturns
  <2>2. WriterExclusion'
    BY <1>4, <1>t DEF CreateReturns, IInv, TypeOK, WriterExclusion, Writing
  <2>3. WriterKnows'
    BY <1>4, <1>t DEF CreateReturns, IInv, TypeOK, WriterKnows, Revision
  <2>4. NothingBeforeCreate'
    BY <1>4, <1>t DEF CreateReturns, IInv, TypeOK, NothingBeforeCreate
  <2>5. ReadersKnow'
    BY <1>4, <1>t DEF CreateReturns, IInv, TypeOK, ReadersKnow, WriterKnows
  <2> QED
    BY <1>t, <2>1, <2>2, <2>3, <2>4, <2>5 DEF IInv
<1>5. ASSUME NEW p \in Procs,
             OpenBegin(p)
      PROVE  IInv'
  <2>1. ChainSound'
    BY <1>5, <1>q DEF OpenBegin
  <2>2. WriterExclusion'
    BY <1>5, <1>t DEF OpenBegin, IInv, TypeOK, WriterExclusion, Writing
  <2>3. WriterKnows'
    BY <1>5, <1>t DEF OpenBegin, IInv, TypeOK, WriterKnows, Revision
  <2>4. NothingBeforeCreate'
    BY <1>5, <1>t DEF OpenBegin, IInv, TypeOK, NothingBeforeCreate
  <2>5. ReadersKnow'
    BY <1>5, <1>t DEF OpenBegin, IInv, TypeOK, ReadersKnow
  <2> QED
    BY <1>t, <2>1, <2>2, <2>3, <2>4, <2>5 DEF IInv
<1>6. ASSUME NEW p \in Procs, NEW later \in SUBSET (commits \ seen[p]),
             OpenEnd(p, later)
      PROVE  IInv'
  <2>1. ChainSound'
    BY <1>6, <1>q DEF OpenEnd
  <2>2. WriterExclusion'
    BY <1>6, <1>t DEF OpenEnd, IInv, TypeOK, WriterExclusion, Writing
  <2>3. WriterKnows'
    BY <1>6, <1>t DEF OpenEnd, IInv, TypeOK, WriterKnows, Revision
  <2>4. NothingBeforeCreate'
    BY <1>6, <1>t DEF OpenEnd, IInv, TypeOK, NothingBeforeCreate
  <2>5. ReadersKnow'
    BY <1>6, <1>t DEF OpenEnd, IInv, TypeOK, ReadersKnow
  <2> QED
    BY <1>t, <2>1, <2>2, <2>3, <2>4, <2>5 DEF IInv
<1>7. ASSUME NEW p \in Procs, NEW later \in SUBSET (commits \ seen[p]),
             OpenFails(p, later)
      PROVE  IInv'
  <2>1. ChainSound'
    BY <1>7, <1>q DEF OpenFails
  <2>2. WriterExclusion'
    BY <1>7, <1>t DEF OpenFails, IInv, TypeOK, WriterExclusion, Writing
  <2>3. WriterKnows'
    BY <1>7, <1>t DEF OpenFails, IInv, TypeOK, WriterKnows, Revision
  <2>4. NothingBeforeCreate'
    BY <1>7, <1>t DEF OpenFails, IInv, TypeOK, NothingBeforeCreate
  <2>5. ReadersKnow'
    BY <1>7, <1>t DEF OpenFails, IInv, TypeOK, ReadersKnow
  <2> QED
    BY <1>t, <2>1, <2>2, <2>3, <2>4, <2>5 DEF IInv
<1>8. ASSUME NEW p \in Procs, NEW e \in Prefixes(handle[p]), NEW m \in Memories, NEW n \in Limits,
             AcquireLock(p, e, m, n)
      PROVE  IInv'
  <2>1. ChainSound'
    BY <1>8, <1>q DEF AcquireLock
  <2>2. WriterExclusion'
    BY <1>8, <1>t DEF AcquireLock, IInv, TypeOK, WriterExclusion, Writing
  <2>3. WriterKnows'
    BY <1>8, <1>t DEF AcquireLock, IInv, TypeOK, WriterKnows, Revision
  <2>4. NothingBeforeCreate'
    BY <1>8, <1>t DEF AcquireLock, IInv, TypeOK, NothingBeforeCreate
  <2>5. ReadersKnow'
    BY <1>8, <1>t DEF AcquireLock, IInv, TypeOK, ReadersKnow
  <2> QED
    BY <1>t, <2>1, <2>2, <2>3, <2>4, <2>5 DEF IInv
<1>9. ASSUME NEW p \in Procs,
             PublishUnchanged(p)
      PROVE  IInv'
  <2>1. ChainSound'
    BY <1>9, <1>q DEF PublishUnchanged
  <2>2. WriterExclusion'
    BY <1>9, <1>t DEF PublishUnchanged, IInv, TypeOK, WriterExclusion, Writing
  <2>3. WriterKnows'
    BY <1>9, <1>t DEF PublishUnchanged, IInv, TypeOK, WriterKnows, Revision
  <2>4. NothingBeforeCreate'
    BY <1>9, <1>t DEF PublishUnchanged, IInv, TypeOK, NothingBeforeCreate
  <2>5. ReadersKnow'
    BY <1>9, <1>t DEF PublishUnchanged, IInv, TypeOK, ReadersKnow, HeadIsExpected,
                      Openable, IsHead
  <2> QED
    BY <1>t, <2>1, <2>2, <2>3, <2>4, <2>5 DEF IInv
<1>10. ASSUME NEW p \in Procs,
             PublishChecked(p)
      PROVE  IInv'
  <2>1. ChainSound'
    BY <1>10, <1>q DEF PublishChecked
  <2>2. WriterExclusion'
    BY <1>10, <1>t DEF PublishChecked, IInv, TypeOK, WriterExclusion, Writing
  <2>3. WriterKnows'
    <3>1. IsHead(req[p].expected, commits)
      BY <1>10 DEF PublishChecked, HeadIsExpected, Openable
    <3>2. created
      BY <3>1 DEF IInv, NothingBeforeCreate, IsHead
    <3> QED
      BY <1>10, <1>t, <3>1, <3>2
      DEF PublishChecked, IInv, TypeOK, WriterKnows, Revision, IsHead
  <2>4. NothingBeforeCreate'
    BY <1>10, <1>t DEF PublishChecked, IInv, TypeOK, NothingBeforeCreate
  <2>5. ReadersKnow'
    BY <1>10, <1>t DEF PublishChecked, IInv, TypeOK, ReadersKnow
  <2> QED
    BY <1>t, <2>1, <2>2, <2>3, <2>4, <2>5 DEF IInv
<1>11. ASSUME NEW p \in Procs,
             SavePayload(p)
      PROVE  IInv'
  <2>1. ChainSound'
    BY <1>11 DEF SavePayload, IInv, ChainSound, AncestorsCommitted, OnePerSequence,
                 HeadExists, IsHead
  <2>2. WriterExclusion'
    BY <1>11, <1>t DEF SavePayload, IInv, TypeOK, WriterExclusion, Writing
  <2>3. WriterKnows'
    BY <1>11, <1>t DEF SavePayload, IInv, TypeOK, WriterKnows, Revision
  <2>4. NothingBeforeCreate'
    BY <1>11, <1>t DEF SavePayload, IInv, TypeOK, NothingBeforeCreate
  <2>5. ReadersKnow'
    BY <1>11, <1>t DEF SavePayload, IInv, TypeOK, ReadersKnow
  <2> QED
    BY <1>t, <2>1, <2>2, <2>3, <2>4, <2>5 DEF IInv
<1>12. ASSUME NEW p \in Procs,
             CommitRename(p)
      PROVE  IInv'
  <2>1. ChainSound'
    <3> DEFINE r == Revision(p)
               e == req[p].expected
    <3>1. /\ commits' = commits \cup {r}
          /\ payloads' = payloads /\ created' = created /\ r \in payloads
          /\ IsHead(e, commits)
      BY <1>12 DEF CommitRename, IInv, WriterKnows
    <3>2. /\ r \in Ids /\ e \in Seq(Memories) /\ Len(r) = Len(e) + 1
          /\ commits \subseteq Ids
      BY <1>t, RequestTyped DEF TypeOK
    <3>3. \A c \in commits : Len(c) < Len(r)
      BY <3>1, <3>2 DEF IsHead, Ids
    <3>4. \A k \in 1..Len(r) : SubSeq(r, 1, k) \in commits'
      <4> TAKE k \in 1..Len(r)
      <4>1. CASE k = Len(r)
        BY <3>1, <3>2, <4>1, WholeSubSeq DEF Ids
      <4>2. CASE k \in 1..Len(e)
        <5>1. SubSeq(r, 1, k) = SubSeq(e, 1, k)
          BY <3>2, <4>2, <1>t, RequestTyped, AppendAncestors DEF Revision
        <5> QED
          BY <3>1, <4>2, <5>1 DEF IInv, ChainSound, AncestorsCommitted, IsHead
      <4> QED
        BY <3>2, <4>1, <4>2
    <3>5. AncestorsCommitted'
      BY <3>1, <3>4 DEF IInv, ChainSound, AncestorsCommitted
    <3>6. OnePerSequence'
      BY <3>1, <3>3 DEF IInv, ChainSound, OnePerSequence
    <3>7. IsHead(r, commits')
      BY <3>1, <3>2, <3>3 DEF IsHead, Ids
    <3> QED
      BY <3>1, <3>5, <3>6, <3>7 DEF IInv, ChainSound, HeadExists, IsHead
  <2>2. WriterExclusion'
    BY <1>12, <1>t DEF CommitRename, IInv, TypeOK, WriterExclusion, Writing
  <2>3. WriterKnows'
    <3>1. \A q \in Procs : q # p => pc[q] \notin {"checked", "saved", "committed"}
      BY <1>12 DEF CommitRename, IInv, WriterExclusion, Writing
    <3>2. /\ Len(Revision(p)) = Len(req[p].expected) + 1
          /\ req[p].expected \in Seq(Memories) /\ commits \subseteq Ids
          /\ IsHead(req[p].expected, commits)
      BY <1>12, <1>t, RequestTyped DEF CommitRename, TypeOK, IInv, WriterKnows
    <3>3. IsHead(Revision(p), commits')
      BY <1>12, <3>2 DEF CommitRename, IsHead, Ids
    <3>4. Revision(p)' = Revision(p)
      BY <1>12 DEF CommitRename, Revision
    <3> QED
      BY <1>12, <1>t, <3>1, <3>3, <3>4 DEF CommitRename, IInv, TypeOK, WriterKnows
  <2>4. NothingBeforeCreate'
    BY <1>12, <1>t DEF CommitRename, IInv, TypeOK, NothingBeforeCreate
  <2>5. ReadersKnow'
    BY <1>12, <1>t DEF CommitRename, IInv, TypeOK, ReadersKnow
  <2> QED
    BY <1>t, <2>1, <2>2, <2>3, <2>4, <2>5 DEF IInv
<1>13. ASSUME NEW p \in Procs,
             PublishFails(p)
      PROVE  IInv'
  <2>1. ChainSound'
    BY <1>13, <1>q DEF PublishFails
  <2>2. WriterExclusion'
    BY <1>13, <1>t DEF PublishFails, IInv, TypeOK, WriterExclusion, Writing
  <2>3. WriterKnows'
    BY <1>13, <1>t DEF PublishFails, IInv, TypeOK, WriterKnows, Revision
  <2>4. NothingBeforeCreate'
    BY <1>13, <1>t DEF PublishFails, IInv, TypeOK, NothingBeforeCreate
  <2>5. ReadersKnow'
    BY <1>13, <1>t DEF PublishFails, IInv, TypeOK, ReadersKnow
  <2> QED
    BY <1>t, <2>1, <2>2, <2>3, <2>4, <2>5 DEF IInv
<1>14. ASSUME NEW p \in Procs,
             PublishReturns(p)
      PROVE  IInv'
  <2>1. ChainSound'
    BY <1>14, <1>q DEF PublishReturns
  <2>2. WriterExclusion'
    BY <1>14, <1>t DEF PublishReturns, IInv, TypeOK, WriterExclusion, Writing
  <2>3. WriterKnows'
    BY <1>14, <1>t DEF PublishReturns, IInv, TypeOK, WriterKnows, Revision
  <2>4. NothingBeforeCreate'
    BY <1>14, <1>t DEF PublishReturns, IInv, TypeOK, NothingBeforeCreate
  <2>5. ReadersKnow'
    BY <1>14, <1>t DEF PublishReturns, IInv, TypeOK, ReadersKnow, WriterKnows, IsHead
  <2> QED
    BY <1>t, <2>1, <2>2, <2>3, <2>4, <2>5 DEF IInv
<1>15. ASSUME NEW p \in Procs,
             ReleaseLock(p)
      PROVE  IInv'
  <2>1. ChainSound'
    BY <1>15, <1>q DEF ReleaseLock
  <2>2. WriterExclusion'
    BY <1>15, <1>t DEF ReleaseLock, IInv, TypeOK, WriterExclusion, Writing
  <2>3. WriterKnows'
    BY <1>15, <1>t DEF ReleaseLock, IInv, TypeOK, WriterKnows, Revision
  <2>4. NothingBeforeCreate'
    BY <1>15, <1>t DEF ReleaseLock, IInv, TypeOK, NothingBeforeCreate
  <2>5. ReadersKnow'
    BY <1>15, <1>t DEF ReleaseLock, IInv, TypeOK, ReadersKnow
  <2> QED
    BY <1>t, <2>1, <2>2, <2>3, <2>4, <2>5 DEF IInv
<1>16. ASSUME NEW p \in Procs,
             Crash(p)
      PROVE  IInv'
  <2>1. ChainSound'
    BY <1>16, <1>q DEF Crash
  <2>2. WriterExclusion'
    BY <1>16, <1>t DEF Crash, IInv, TypeOK, WriterExclusion, Writing
  <2>3. WriterKnows'
    BY <1>16, <1>t DEF Crash, IInv, TypeOK, WriterKnows, Revision
  <2>4. NothingBeforeCreate'
    BY <1>16, <1>t DEF Crash, IInv, TypeOK, NothingBeforeCreate
  <2>5. ReadersKnow'
    BY <1>16, <1>t DEF Crash, IInv, TypeOK, ReadersKnow
  <2> QED
    BY <1>t, <2>1, <2>2, <2>3, <2>4, <2>5 DEF IInv
<1>17. CASE OperatorClearsLock
  <2>1. ChainSound'
    BY <1>17, <1>q DEF OperatorClearsLock
  <2>2. WriterExclusion'
    BY <1>17, <1>t DEF OperatorClearsLock, IInv, WriterExclusion
  <2>3. WriterKnows' /\ NothingBeforeCreate' /\ ReadersKnow'
    BY <1>17, <1>t DEF OperatorClearsLock, IInv, WriterKnows, NothingBeforeCreate, ReadersKnow, Revision, IsHead
  <2> QED
    BY <1>t, <2>1, <2>2, <2>3 DEF IInv
<1>18. CASE UNCHANGED vars
  <2>1. ChainSound'
    BY <1>18, <1>q DEF vars
  <2>2. WriterExclusion'
    BY <1>18, <1>t DEF vars, IInv, WriterExclusion
  <2>3. WriterKnows' /\ NothingBeforeCreate' /\ ReadersKnow'
    BY <1>18, <1>t DEF vars, IInv, WriterKnows, NothingBeforeCreate, ReadersKnow, Revision, IsHead
  <2> QED
    BY <1>t, <2>1, <2>2, <2>3 DEF IInv
<1> QED
  BY <1>1, <1>2, <1>3, <1>4, <1>5, <1>6, <1>7, <1>8, <1>9, <1>10, <1>11, <1>12, <1>13, <1>14, <1>15, <1>16, <1>17, <1>18 DEF Next, Create, Open, Publish

(* The strengthened invariant (one commit per sequence number, every parent   *)
(* and payload present, at most one writer, which holds the lock) always     *)
(* holds of the store that create() and publish() write.                     *)
THEOREM Invariance == Spec => []IInv
  BY InitIInv, InvStep, PTL DEF Spec

(* Every reachable state is well typed. *)
THEOREM TypeCorrect == Spec => []TypeOK
  BY Invariance, PTL DEF IInv

(* Whatever the interleaving and the crashes, publish() and create() leave   *)
(* behind a store that open() accepts.                                       *)
THEOREM StoreAlwaysOpens == Spec => []StoreOpens
<1>1. IInv => StoreOpens
  <2> SUFFICES ASSUME IInv, created PROVE StoreOpens
    BY DEF StoreOpens
  <2>1. \A c \in commits : Len(c) = 1 \/ Parent(c) \in commits
    <3> TAKE c \in commits
    <3>1. Len(c) \in Nat \ {0}
      BY DEF IInv, TypeOK, Ids
    <3>2. Len(c) # 1 => Len(c) - 1 \in 1..Len(c)
      BY <3>1
    <3> QED
      BY <3>2 DEF IInv, ChainSound, AncestorsCommitted, Parent
  <2> QED
    BY <2>1 DEF IInv, ChainSound, StoreOpens, ValidChain, OnePerSequence, HeadExists
<1> QED
  BY <1>1, Invariance, PTL

(* A commit is only added on top of the head its publisher named. *)
THEOREM PublishComparesAndSwaps == Spec => CommitIsCompareAndSwap
<1>1. IInv /\ [Next]_vars =>
        [\A c \in commits' \ commits :
            created => /\ IsHead(Parent(c), commits)
                       /\ \E p \in Procs : c = Revision(p) /\ pc[p] \in Writing]_vars
  <2> SUFFICES ASSUME IInv, [Next]_vars, created, NEW c \in commits' \ commits
               PROVE  /\ IsHead(Parent(c), commits)
                      /\ \E p \in Procs : c = Revision(p) /\ pc[p] \in Writing
    OBVIOUS
  <2>1. PICK p \in Procs : CommitRename(p)
    <3>1. commits' # commits
      OBVIOUS
    <3> QED
      BY <3>1 DEF Next, Create, Open, Publish, vars, CreateStage, CreateRename, CreateFails,
                  CreateReturns, OpenBegin, OpenEnd, OpenFails, AcquireLock,
                  PublishUnchanged, PublishChecked, SavePayload, PublishFails,
                  PublishReturns, ReleaseLock, Crash, OperatorClearsLock
  <2>2. c = Revision(p) /\ pc[p] = "saved"
    BY <2>1 DEF CommitRename
  <2>3. IsHead(req[p].expected, commits) /\ Parent(Revision(p)) = req[p].expected
    BY <2>2, RequestTyped DEF IInv, WriterKnows
  <2> QED
    BY <2>2, <2>3 DEF Writing
<1> QED
  BY <1>1, Invariance, PTL DEF Spec, CommitIsCompareAndSwap

-----------------------------------------------------------------------------
(* In a sound chain the head is unique, and every commit is a prefix of it. *)
LEMMA HeadIsCurrent ==
    ASSUME IInv, NEW h, IsHead(h, commits)
    PROVE  CurrentRevision = h
<1>1. commits # {} /\ \E g \in commits : IsHead(g, commits)
  BY DEF IsHead
<1> DEFINE g == CHOOSE x \in commits : IsHead(x, commits)
<1>2. IsHead(g, commits)
  BY <1>1
<1>3. Len(g) = Len(h) /\ g \in commits /\ h \in commits
  BY <1>2 DEF IsHead, IInv, TypeOK, Ids
<1> QED
  BY <1>1, <1>3 DEF CurrentRevision, IInv, ChainSound, OnePerSequence

(* Every commit open() can find is a revision on the current head's chain. *)
LEMMA CommitsPrefixHead ==
    ASSUME IInv, NEW c \in commits, NEW h \in commits, Len(c) <= Len(h)
    PROVE  /\ c = SubSeq(h, 1, Len(c)) /\ Len(c) \in 1..Len(h)
           /\ Chain!IsPrefixOf(c, h)
<1>1. /\ c \in Seq(Memories) /\ h \in Seq(Memories)
      /\ Len(c) \in 1..Len(h)
  BY DEF IInv, TypeOK, Ids
<1>2. SubSeq(h, 1, Len(c)) \in commits /\ Len(SubSeq(h, 1, Len(c))) = Len(c)
  BY <1>1 DEF IInv, ChainSound, AncestorsCommitted
<1>3. c = SubSeq(h, 1, Len(c))
  BY <1>2 DEF IInv, ChainSound, OnePerSequence
<1>4. \A i \in 1..Len(c) : SubSeq(h, 1, Len(c))[i] = h[i]
  BY <1>1
<1> QED
  BY <1>1, <1>3, <1>4 DEF Chain!IsPrefixOf

(* Replacing the head in an object by a newer commit is an abstract Observe. *)
LEMMA RefreshObserves ==
    ASSUME IInv, NEW p \in Procs, NEW h \in commits,
           handle[p] # <<>> => Len(handle[p]) <= Len(h),
           handle' = [handle EXCEPT ![p] = h],
           commits' = commits
    PROVE  Chain!Next
<1>1. PICK g \in commits : IsHead(g, commits)
  BY DEF IInv, ChainSound, HeadExists, NothingBeforeCreate
<1>2. CurrentRevision = g /\ CurrentRevision' = CurrentRevision
  BY <1>1, HeadIsCurrent DEF CurrentRevision
<1>3. h = SubSeq(g, 1, Len(h)) /\ Len(h) \in 1..Len(g)
  BY <1>1, CommitsPrefixHead DEF IsHead
<1>4. Chain!IsPrefixOf(handle[p], h)
  <2>1. CASE handle[p] = <<>>
    BY <2>1 DEF Chain!IsPrefixOf, IInv, TypeOK, Ids
  <2>2. CASE handle[p] # <<>>
    BY <2>2, CommitsPrefixHead DEF IInv, ReadersKnow
  <2> QED
    BY <2>1, <2>2
<1>5. Chain!Observe(p, Len(h))
  BY <1>2, <1>3, <1>4 DEF Chain!Observe
<1> QED
  BY <1>2, <1>3, <1>5 DEF Chain!Next

(* Each step of the store is a step of the abstract log or leaves it alone:   *)
(* create()'s and publish()'s renames extend it, the refreshes of an object  *)
(* observe it, a crash forgets a view.                                       *)
LEMMA RefineStep == IInv /\ [Next]_vars => [Chain!Next]_(Chain!vars)
<1> SUFFICES ASSUME IInv, [Next]_vars PROVE [Chain!Next]_(Chain!vars)
  OBVIOUS
<1>t. TypeOK /\ IInv'
  BY InvStep DEF IInv
<1>s. ASSUME commits' = commits, handle' = handle
      PROVE  UNCHANGED Chain!vars
  BY <1>s DEF Chain!vars, CurrentRevision
<1>1. ASSUME NEW p \in Procs, CreateRename(p)
      PROVE  Chain!Next
  <2> DEFINE r == <<req[p].memory>>
  <2>1. commits = {} /\ commits' = {r} /\ handle' = handle
    BY <1>1 DEF CreateRename, IInv, NothingBeforeCreate
  <2>2. CurrentRevision = <<>>
    BY <2>1 DEF CurrentRevision
  <2>3. CurrentRevision' = r
    BY <2>1, <1>t DEF CurrentRevision, IsHead, IInv, ChainSound, HeadExists, CreateRename, TypeOK, Ids
  <2>4. r = Append(<<>>, req[p].memory) /\ req[p].memory \in Memories
    <3>1. req[p].memory \in Memories
      BY <1>t, RequestTyped
    <3>2. \A x \in Memories : <<x>> = Append(<<>>, x)
      OBVIOUS
    <3> QED
      BY <3>1, <3>2
  <2> QED
    BY <2>1, <2>2, <2>3, <2>4 DEF Chain!Next, Chain!Extend
<1>2. ASSUME NEW p \in Procs, CommitRename(p)
      PROVE  Chain!Next
  <2>1. CurrentRevision = req[p].expected
    BY <1>2, HeadIsCurrent DEF CommitRename, IInv, WriterKnows
  <2>2. CurrentRevision' = Revision(p)
    <3> DEFINE r == Revision(p)
    <3>1. commits' = commits \cup {r} /\ r \in Ids
      BY <1>2, <1>t, RequestTyped DEF CommitRename
    <3>2. pc'[p] = "committed" /\ Revision(p)' = r
      BY <1>2, <1>t DEF CommitRename, Revision, TypeOK
    <3>3. IsHead(r, commits')
      BY <3>2, <1>t DEF IInv, WriterKnows, IsHead
    <3>4. \A g \in commits' : IsHead(g, commits') => g = r
      BY <3>3, <1>t DEF IsHead, IInv, ChainSound, OnePerSequence, TypeOK, Ids
    <3> QED
      BY <3>3, <3>4 DEF CurrentRevision, IsHead
  <2>3. req[p].memory \in Memories /\ Newest(req[p].expected) # req[p].memory
    BY <1>2, <1>t, RequestTyped DEF CommitRename, IInv, WriterKnows
  <2> QED
    BY <1>2, <2>1, <2>2, <2>3 DEF Chain!Next, Chain!Extend, CommitRename, Revision, Newest
<1>3. ASSUME NEW p \in Procs, CreateReturns(p)
      PROVE  Chain!Next
  BY <1>3, RefreshObserves DEF CreateReturns, IInv, WriterKnows, ReadersKnow
<1>4. ASSUME NEW p \in Procs, NEW later \in SUBSET (commits \ seen[p]),
             OpenEnd(p, later)
      PROVE  Chain!Next
  <2>1. PICK h \in seen[p] \cup later :
           /\ IsHead(h, seen[p] \cup later)
           /\ handle' = [handle EXCEPT ![p] = h]
    BY <1>4 DEF OpenEnd, Openable
  <2>2. h \in commits /\ (handle[p] # <<>> => Len(handle[p]) <= Len(h))
    BY <1>4, <2>1 DEF OpenEnd, IInv, ReadersKnow, IsHead
  <2> QED
    BY <1>4, <2>1, <2>2, RefreshObserves DEF OpenEnd
<1>5. ASSUME NEW p \in Procs, PublishUnchanged(p)
      PROVE  Chain!Next
  <2>1. IsHead(req[p].expected, commits)
    BY <1>5 DEF PublishUnchanged, HeadIsExpected, Openable
  <2> QED
    BY <1>5, <2>1, RefreshObserves DEF PublishUnchanged, IsHead, IInv, ReadersKnow
<1>6. ASSUME NEW p \in Procs, PublishReturns(p)
      PROVE  Chain!Next
  BY <1>6, RefreshObserves DEF PublishReturns, IsHead, IInv, ReadersKnow, WriterKnows
<1>7. ASSUME NEW p \in Procs, Crash(p)
      PROVE  Chain!Next
  <2>1. CurrentRevision' = CurrentRevision
    BY <1>7 DEF Crash, CurrentRevision
  <2> QED
    BY <1>7, <2>1 DEF Crash, Chain!Next, Chain!Forget
<1>8. CASE \/ UNCHANGED vars \/ OperatorClearsLock
           \/ \E p \in Procs :
                 \/ \E m \in Memories : CreateStage(p, m)
                 \/ CreateFails(p) \/ OpenBegin(p)
                 \/ \E later \in SUBSET (commits \ seen[p]) : OpenFails(p, later)
                 \/ \E e \in Prefixes(handle[p]), m \in Memories, n \in Limits :
                        AcquireLock(p, e, m, n)
                 \/ PublishChecked(p) \/ SavePayload(p) \/ PublishFails(p)
                 \/ ReleaseLock(p)
  BY <1>8, <1>s DEF vars, OperatorClearsLock, CreateStage, CreateFails, OpenBegin, OpenFails,
                    AcquireLock, PublishChecked, SavePayload, PublishFails, ReleaseLock
<1> QED
  BY <1>1, <1>2, <1>3, <1>4, <1>5, <1>6, <1>7, <1>8 DEF Next, Create, Open, Publish

(* The files, the lock and the objects together behave as one append-only   *)
(* log with clients that see growing prefixes of it.                        *)
THEOREM StoreImplementsChain == Spec => ImplementsChain
<1>1. Init => Chain!Init
  BY DEF Init, Chain!Init, CurrentRevision
<1> QED
  BY <1>1, RefineStep, Invariance, PTL DEF Spec, ImplementsChain, Chain!Spec
-----------------------------------------------------------------------------
(* The transparency log, for any number of directories, processes and       *)
(* records.  Its places are those of its own processes.                     *)
CONSTANTS Dirs, Writers, Payloads, MaxRecords, Levels
VARIABLES records, writerLock, place, object, draft, acknowledged

Log == INSTANCE TransparencyLog WITH pc <- place

LEMMA LogCounts == \A S : Log!Cardinality(S) = Cardinality(S)
BY DEF Log!Cardinality, Cardinality

(* f lists the frontiers that the first n leaves of a log leave behind. *)
Frontiers(f, log, n) ==
    f = [k \in 0..n |-> IF k = 0 THEN Log!NoFrontier
                        ELSE Log!AppendSubtree(f[k - 1], Log!LeafHash(log[k]), 0, k - 1)]

(* They can be listed however long the log is. *)
LEMMA FrontiersExist ==
    ASSUME NEW log, NEW m \in Nat
    PROVE  \E f : Frontiers(f, log, m)
<1> DEFINE T == {n \in Nat : \E f : Frontiers(f, log, n)}
<1>1. 0 \in T
  <2> DEFINE f == [k \in 0..0 |-> Log!NoFrontier]
  <2>1. f = [k \in 0..0 |-> IF k = 0 THEN Log!NoFrontier
                            ELSE Log!AppendSubtree(f[k - 1], Log!LeafHash(log[k]), 0, k - 1)]
    OBVIOUS
  <2> QED
    BY <2>1 DEF Frontiers
<1>2. \A n \in Nat : n \in T => n + 1 \in T
  <2> SUFFICES ASSUME NEW n \in Nat, n \in T PROVE n + 1 \in T
    OBVIOUS
  <2>1. PICK f : Frontiers(f, log, n)
    OBVIOUS
  <2> DEFINE step(k, before) == Log!AppendSubtree(before, Log!LeafHash(log[k]), 0, k - 1)
             g == [k \in 0..(n + 1) |-> IF k = n + 1 THEN step(k, f[n]) ELSE f[k]]
  <2>2. \A k \in 0..n : f[k] = IF k = 0 THEN Log!NoFrontier ELSE step(k, f[k - 1])
    BY <2>1 DEF Frontiers
  <2> HIDE DEF step
  <2>3. \A k \in 0..(n + 1) : g[k] = IF k = 0 THEN Log!NoFrontier ELSE step(k, g[k - 1])
    BY <2>2
  <2>4. g = [k \in 0..(n + 1) |-> g[k]]
    OBVIOUS
  <2> HIDE DEF g
  <2>5. g = [k \in 0..(n + 1) |-> IF k = 0 THEN Log!NoFrontier ELSE step(k, g[k - 1])]
    BY <2>3, <2>4
  <2>6. Frontiers(g, log, n + 1)
    BY <2>5 DEF Frontiers, step
  <2> QED
    BY <2>6
<1> QED
  BY <1>1, <1>2, EveryNumber

(* Lists of two logs that begin alike begin alike. *)
LEMMA FrontiersAgree ==
    ASSUME NEW a, NEW b, NEW n \in Nat, NEW m \in Nat, n <= m,
           \A k \in 1..n : a[k] = b[k],
           NEW f, Frontiers(f, a, n), NEW g, Frontiers(g, b, m)
    PROVE  f[n] = g[n]
<1> DEFINE step(x, k, before) == Log!AppendSubtree(before, Log!LeafHash(x[k]), 0, k - 1)
           T == {k \in Nat : k <= n => f[k] = g[k]}
<1>1. /\ \A k \in 0..n : f[k] = IF k = 0 THEN Log!NoFrontier ELSE step(a, k, f[k - 1])
      /\ \A k \in 0..m : g[k] = IF k = 0 THEN Log!NoFrontier ELSE step(b, k, g[k - 1])
  BY DEF Frontiers
<1>2. \A k \in 1..n : \A before : step(a, k, before) = step(b, k, before)
  OBVIOUS
<1> HIDE DEF step
<1>3. 0 \in T
  BY <1>1
<1>4. \A k \in Nat : k \in T => k + 1 \in T
  BY <1>1, <1>2
<1>5. Nat \subseteq T
  <2> HIDE DEF T
  <2> QED
    BY <1>3, <1>4, EveryNumber
<1> QED
  BY <1>5

(* The last of them is the frontier of the log. *)
LEMMA FrontierListed ==
    ASSUME NEW S, NEW log \in Seq(S)
    PROVE  \E f : Frontiers(f, log, Len(log)) /\ Log!FrontierOf(log) = f[Len(log)]
<1> DEFINE at == CHOOSE f : Frontiers(f, log, Len(log))
<1>1. Frontiers(at, log, Len(log))
  BY FrontiersExist
<1>2. Log!FrontierOf(log) = at[Len(log)]
  BY DEF Log!FrontierOf, Frontiers
<1> QED
  BY <1>1, <1>2

(* The frontier after one more leaf is the one that publish_leaf() computes. *)
LEMMA FrontierAppends ==
    ASSUME NEW S, NEW log \in Seq(S), NEW p \in S
    PROVE  Log!FrontierOf(Append(log, p)) =
               Log!AppendSubtree(Log!FrontierOf(log), Log!LeafHash(p), 0, Len(log))
<1> DEFINE longer == Append(log, p)
           n == Len(log)
<1>1. longer \in Seq(S) /\ n \in Nat /\ Len(longer) = n + 1 /\ longer[n + 1] = p
      /\ \A k \in 1..n : log[k] = longer[k]
  OBVIOUS
<1>2. PICK f : Frontiers(f, log, n) /\ Log!FrontierOf(log) = f[n]
  BY FrontierListed
<1>3. PICK g : Frontiers(g, longer, n + 1) /\ Log!FrontierOf(longer) = g[n + 1]
  BY <1>1, FrontierListed
<1> HIDE DEF longer, n
<1>4. f[n] = g[n]
  BY <1>1, <1>2, <1>3, FrontiersAgree
<1>5. g[n + 1] = Log!AppendSubtree(g[n], Log!LeafHash(longer[n + 1]), 0, n)
  BY <1>1, <1>3 DEF Frontiers
<1> QED
  BY <1>1, <1>2, <1>3, <1>4, <1>5 DEF longer, n

-----------------------------------------------------------------------------
(* The record with the first i leaves of a log, and all the records of one. *)
RecordOf(log, i) ==
    [leaves |-> SubSeq(log, 1, i),
     root |-> Log!FrontierRoot(Log!FrontierOf(SubSeq(log, 1, i)))]

RecordsOf(log) == {RecordOf(log, i) : i \in 1..Len(log)}

ListOf(log) == [i \in 1..Len(log) |-> RecordOf(log, i)]

(* A record tells its place by the number of its leaves. *)
LEMMA RecordLength ==
    ASSUME NEW S, NEW log \in Seq(S), NEW i \in 1..Len(log)
    PROVE  /\ RecordOf(log, i).leaves = SubSeq(log, 1, i)
           /\ Len(RecordOf(log, i).leaves) = i
           /\ RecordOf(log, i).leaves[i] = log[i]
  BY DEF RecordOf

(* Numbers that rise from 1 to n in n steps leave none out. *)
LEMMA RisingNumbers ==
    ASSUME NEW n \in Nat, NEW k \in [1..n -> 1..n],
           \A i, j \in 1..n : i < j => k[i] < k[j]
    PROVE  \A i \in 1..n : k[i] = i
<1> DEFINE Up == {m \in Nat : m + 1 \in 1..n => k[m + 1] >= m + 1}
           Down == {m \in Nat : n - m \in 1..n => k[n - m] <= n - m}
<1>1. \A i \in 1..n : k[i] \in 1..n
  OBVIOUS
<1>2. 0 \in Up /\ \A m \in Nat : m \in Up => m + 1 \in Up
  <2>1. 0 \in Up
    BY <1>1
  <2>2. ASSUME NEW m \in Nat, m \in Up, m + 2 \in 1..n
        PROVE  k[m + 2] >= m + 2
    <3>1. m + 1 \in 1..n /\ m + 1 < m + 2
      BY <2>2
    <3>2. k[m + 1] < k[m + 2] /\ k[m + 1] >= m + 1
      BY <2>2, <3>1
    <3> QED
      BY <1>1, <2>2, <3>1, <3>2
  <2> QED
    BY <2>1, <2>2
<1>3. 0 \in Down /\ \A m \in Nat : m \in Down => m + 1 \in Down
  <2>1. 0 \in Down
    BY <1>1
  <2>2. ASSUME NEW m \in Nat, m \in Down, n - (m + 1) \in 1..n
        PROVE  k[n - (m + 1)] <= n - (m + 1)
    <3>1. n - m \in 1..n /\ n - (m + 1) < n - m
      BY <2>2
    <3>2. k[n - (m + 1)] < k[n - m] /\ k[n - m] <= n - m
      BY <2>2, <3>1
    <3> QED
      BY <1>1, <2>2, <3>1, <3>2
  <2> QED
    BY <2>1, <2>2
<1>4. Nat \subseteq Up /\ Nat \subseteq Down
  <2> HIDE DEF Up, Down
  <2> QED
    BY <1>2, <1>3, EveryNumber
<1> SUFFICES ASSUME NEW i \in 1..n PROVE k[i] = i
  OBVIOUS
<1>5. i - 1 \in Nat /\ n - i \in Nat /\ (i - 1) + 1 = i /\ n - (n - i) = i
  OBVIOUS
<1>6. i - 1 \in Up /\ n - i \in Down
  <2> HIDE DEF Up, Down
  <2> QED
    BY <1>4, <1>5
<1> QED
  BY <1>1, <1>5, <1>6

(* There is one record for each leaf. *)
LEMMA RecordsCounted ==
    ASSUME NEW S, NEW log \in Seq(S)
    PROVE  Cardinality(RecordsOf(log)) = Len(log)
<1>1. Len(log) \in Nat
  OBVIOUS
<1>2. IsFiniteSet(1..Len(log)) /\ Cardinality(1..Len(log)) = Len(log)
  <2>1. /\ IsFiniteSet(1..Len(log))
        /\ Cardinality(1..Len(log)) = IF 1 > Len(log) THEN 0 ELSE Len(log) - 1 + 1
    BY <1>1, FS_Interval
  <2> QED
    BY <1>1, <2>1
<1>3. ListOf(log) \in Bijection(1..Len(log), RecordsOf(log))
  <2>1. ListOf(log) \in [1..Len(log) -> RecordsOf(log)]
    BY DEF ListOf, RecordsOf
  <2>2. \A i, j \in 1..Len(log) : ListOf(log)[i] = ListOf(log)[j] => i = j
    BY RecordLength DEF ListOf
  <2>3. \A r \in RecordsOf(log) : \E i \in 1..Len(log) : ListOf(log)[i] = r
    BY DEF ListOf, RecordsOf
  <2> QED
    BY <2>1, <2>2, <2>3 DEF Bijection, Injection, Surjection, IsInjective
<1> QED
  BY <1>2, <1>3, FS_Bijection DEF ExistsBijection

(* Sorted by sequence number, the records of a log are listed leaf by leaf. *)
LEMMA RecordsSorted ==
    ASSUME NEW S, NEW log \in Seq(S)
    PROVE  Log!Sorted(RecordsOf(log)) = ListOf(log)
<1> DEFINE n == Len(log)
           R == RecordsOf(log)
           Rising(q) == \A i, j \in DOMAIN q : i < j =>
                            q[i] # q[j] /\ Len(q[i].leaves) <= Len(q[j].leaves)
<1>1. n \in Nat /\ \A i \in 1..n : Len(RecordOf(log, i).leaves) = i
  BY RecordLength
<1>2. Log!Sorted(R) = CHOOSE q \in [1..n -> R] : Rising(q)
  BY LogCounts, RecordsCounted DEF Log!Sorted
<1>3. ListOf(log) \in [1..n -> R] /\ Rising(ListOf(log))
  BY <1>1 DEF ListOf, RecordsOf
<1> DEFINE s == Log!Sorted(R)
<1>4. s \in [1..n -> R] /\ Rising(s)
  <2> HIDE DEF Rising, n, R
  <2> QED
    BY <1>2, <1>3
<1> HIDE DEF s
<1> DEFINE k == [i \in 1..n |-> Len(s[i].leaves)]
<1>5. \A i \in 1..n : k[i] \in 1..n /\ s[i] = RecordOf(log, k[i])
  BY <1>1, <1>4 DEF RecordsOf
<1>6. \A i, j \in 1..n : i < j => k[i] < k[j]
  <2> SUFFICES ASSUME NEW i \in 1..n, NEW j \in 1..n, i < j PROVE k[i] < k[j]
    OBVIOUS
  <2>1. s[i] # s[j] /\ k[i] <= k[j]
    BY <1>4
  <2>2. k[i] # k[j]
    BY <1>5, <2>1
  <2> QED
    BY <1>1, <1>5, <2>1, <2>2
<1>7. k \in [1..n -> 1..n]
  BY <1>5
<1> HIDE DEF k
<1>8. \A i \in 1..n : k[i] = i
  BY <1>1, <1>6, <1>7, RisingNumbers
<1>9. s = [i \in 1..n |-> RecordOf(log, i)]
  BY <1>4, <1>5, <1>8
<1> QED
  BY <1>9 DEF ListOf, s
-----------------------------------------------------------------------------
(* What open() reads from the records of a log is that log. *)
LEMMA ListIsRead ==
    ASSUME NEW S, NEW log \in Seq(S), NEW i \in 0..Len(log)
    PROVE  /\ ListOf(log) \in Seq(RecordsOf(log))
           /\ Len(ListOf(log)) = Len(log)
           /\ Log!Leaves(SubSeq(ListOf(log), 1, i)) = SubSeq(log, 1, i)
<1>1. Len(log) \in Nat /\ i \in Nat /\ i <= Len(log)
  OBVIOUS
<1>2. ListOf(log) \in [1..Len(log) -> RecordsOf(log)]
  BY DEF ListOf, RecordsOf
<1>3. ListOf(log) \in Seq(RecordsOf(log)) /\ Len(ListOf(log)) = Len(log)
  BY <1>1, <1>2
<1> DEFINE part == SubSeq(ListOf(log), 1, i)
<1>4. DOMAIN part = 1..i /\ \A j \in 1..i : part[j] = RecordOf(log, j)
  <2>1. part = [j \in 1..i |-> ListOf(log)[j]]
    BY <1>1, <1>3
  <2> QED
    BY <1>1, <2>1 DEF ListOf
<1>5. \A j \in 1..i : Log!Last(part[j].leaves) = log[j]
  BY <1>1, <1>4, RecordLength DEF Log!Last
<1>6. SubSeq(log, 1, i) = [j \in 1..i |-> log[j]]
  BY <1>1
<1> HIDE DEF part
<1>7. Log!Leaves(part) = SubSeq(log, 1, i)
  BY <1>4, <1>5, <1>6 DEF Log!Leaves
<1> QED
  BY <1>3, <1>7 DEF part

(* open() accepts the records of a log that is short enough. *)
LEMMA ListIsChain ==
    ASSUME NEW S, NEW log \in Seq(S), Len(log) <= MaxRecords
    PROVE  Log!IsChain(ListOf(log))
<1> DEFINE list == ListOf(log)
<1>1. Len(list) = Len(log) /\ DOMAIN list = 1..Len(log)
  BY ListIsRead DEF ListOf
<1>2. \A i \in 1..Len(log) : list[i] = RecordOf(log, i)
  BY DEF ListOf
<1>3. ASSUME NEW i \in 1..Len(log)
      PROVE  /\ Len(list[i].leaves) = i
             /\ i > 1 => list[i - 1].leaves = SubSeq(list[i].leaves, 1, i - 1)
             /\ list[i].root = Log!FrontierRoot(Log!FrontierOf(Log!Leaves(SubSeq(list, 1, i))))
  <2>1. Log!Leaves(SubSeq(list, 1, i)) = SubSeq(log, 1, i)
    BY ListIsRead
  <2>2. Len(list[i].leaves) = i /\ list[i].leaves = SubSeq(log, 1, i)
    BY <1>2, RecordLength
  <2>3. i > 1 => list[i - 1].leaves = SubSeq(list[i].leaves, 1, i - 1)
    <3> SUFFICES ASSUME i > 1 PROVE list[i - 1].leaves = SubSeq(list[i].leaves, 1, i - 1)
      OBVIOUS
    <3>1. i - 1 \in 1..Len(log)
      OBVIOUS
    <3>2. list[i - 1].leaves = SubSeq(log, 1, i - 1)
      BY <1>2, <3>1, RecordLength
    <3>3. SubSeq(SubSeq(log, 1, i), 1, i - 1) = SubSeq(log, 1, i - 1)
      OBVIOUS
    <3> QED
      BY <2>2, <3>2, <3>3
  <2>4. list[i].root = Log!FrontierRoot(Log!FrontierOf(SubSeq(log, 1, i)))
    <3>1. RecordOf(log, i).root = Log!FrontierRoot(Log!FrontierOf(SubSeq(log, 1, i)))
      BY DEF RecordOf
    <3>2. list[i] = RecordOf(log, i)
      BY <1>2
    <3> QED
      BY <3>1, <3>2
  <2> QED
    BY <2>1, <2>2, <2>3, <2>4
<1> HIDE DEF list
<1>4. Log!IsChain(list)
  BY <1>1, <1>3 DEF Log!IsChain
<1> QED
  BY <1>4 DEF list

(* The head of a log carries all of its leaves. *)
LEMMA HeadHasAll ==
    ASSUME NEW S, NEW log \in Seq(S)
    PROVE  Log!HeadOf(ListOf(log)).leaves = log
<1>1. ListOf(log) \in Seq(RecordsOf(log)) /\ Len(ListOf(log)) = Len(log)
  BY ListIsRead
<1>2. CASE log = <<>>
  <2>1. ListOf(log) = <<>>
    BY <1>1, <1>2
  <2> QED
    BY <1>2, <2>1 DEF Log!HeadOf, Log!NoRecord
<1>3. CASE log # <<>>
  <2>1. Len(log) \in 1..Len(log) /\ ListOf(log) # <<>>
    BY <1>1, <1>3
  <2>2. Log!HeadOf(ListOf(log)) = RecordOf(log, Len(log))
    BY <1>1, <2>1 DEF Log!HeadOf, Log!Last, ListOf
  <2> QED
    BY <2>2 DEF RecordOf
<1> QED
  BY <1>2, <1>3

(* One more leaf adds the record that ends with it. *)
LEMMA RecordsAppend ==
    ASSUME NEW S, NEW log \in Seq(S), NEW p \in S
    PROVE  /\ Append(log, p) \in Seq(S)
           /\ RecordsOf(Append(log, p)) =
                  RecordsOf(log) \cup {RecordOf(Append(log, p), Len(log) + 1)}
<1> DEFINE longer == Append(log, p)
           n == Len(log)
<1>1. longer \in Seq(S) /\ n \in Nat /\ Len(longer) = n + 1
  OBVIOUS
<1>2. \A i \in 1..n : SubSeq(longer, 1, i) = SubSeq(log, 1, i)
  OBVIOUS
<1> HIDE DEF longer
<1>3. \A i \in 1..n : RecordOf(longer, i) = RecordOf(log, i)
  BY <1>2 DEF RecordOf
<1>4. 1..(n + 1) = (1..n) \cup {n + 1}
  BY <1>1
<1>5. RecordsOf(longer) = RecordsOf(log) \cup {RecordOf(longer, n + 1)}
  BY <1>1, <1>3, <1>4 DEF RecordsOf
<1> QED
  BY <1>1, <1>5 DEF longer
-----------------------------------------------------------------------------
(* The record files are those of log l. *)
Holds(files, l) == l \in Seq(Payloads) /\ Len(l) <= MaxRecords /\ files = RecordsOf(l)

LogPlaces == {"closed", "open", "locked", "built", "written"}

LogTyped ==
    /\ records \in [Dirs -> {records[d] : d \in Dirs}]
    /\ writerLock \in [Dirs -> BOOLEAN]
    /\ place \in [Writers -> LogPlaces]
    /\ object \in [Writers -> {object[w] : w \in Writers}]
    /\ draft \in [Writers -> {draft[w] : w \in Writers}]
    /\ \A w \in Writers :
          /\ object[w] = [dir |-> object[w].dir, chain |-> object[w].chain,
                          frontier |-> object[w].frontier]
          /\ place[w] # "closed" => object[w].dir \in Dirs

(* One writer at most is between the lock and the return of its call. *)
LogExclusion ==
    /\ \A w \in Writers : place[w] \in Log!Holding => writerLock[object[w].dir]
    /\ \A v, w \in Writers :
          place[v] \in Log!Holding /\ place[w] \in Log!Holding /\ object[v].dir = object[w].dir
              => v = w

EveryDirHolds == \A d \in Dirs : \E l : Holds(records[d], l)

(* A draft is the next record of the log that its directory holds now. *)
NextOf(files, r) == \E l, p : /\ Holds(files, l) /\ p \in Payloads /\ Len(l) < MaxRecords
                              /\ r = RecordOf(Append(l, p), Len(l) + 1)

DraftsFit ==
    \A w \in Writers :
       /\ place[w] = "built" => NextOf(records[object[w].dir], draft[w])
       /\ place[w] = "written" => draft[w] \in records[object[w].dir]

AnsweredRecords == \A a \in acknowledged : a.dir \in Dirs /\ a.record \in records[a.dir]

LogInv ==
    /\ LogTyped
    /\ LogExclusion
    /\ EveryDirHolds
    /\ DraftsFit
    /\ AnsweredRecords

(* create() leaves a directory that holds the empty log. *)
LEMMA LogInit ==
    ASSUME MaxRecords \in Nat, Log!Init
    PROVE  LogInv
<1>1. LogTyped /\ LogExclusion /\ DraftsFit /\ AnsweredRecords
  BY DEF Log!Init, LogTyped, LogPlaces, LogExclusion, DraftsFit, AnsweredRecords,
         Log!Holding, Log!Closed, Log!NoRecord, Log!NoHash
<1>2. ASSUME NEW d \in Dirs
      PROVE  Holds(records[d], <<>>)
  <2>1. <<>> \in Seq(Payloads) /\ Len(<<>>) = 0
    OBVIOUS
  <2>2. RecordsOf(<<>>) = {}
    BY <2>1 DEF RecordsOf
  <2>3. records[d] = {}
    BY DEF Log!Init
  <2> QED
    BY <2>1, <2>2, <2>3 DEF Holds
<1> QED
  BY <1>1, <1>2 DEF LogInv, EveryDirHolds

(* A directory that opens, opens at the log that it holds. *)
LEMMA HeldIsOpened ==
    ASSUME NEW d, NEW l, Holds(records[d], l)
    PROVE  /\ Log!Sorted(records[d]) = ListOf(l)
           /\ Log!IsChain(Log!Sorted(records[d]))
           /\ Len(Log!Opened(d).chain) = Len(l)
           /\ Log!Leaves(Log!Opened(d).chain) = l
           /\ Log!Opened(d).frontier = Log!FrontierOf(l)
           /\ Log!Opened(d).dir = d
           /\ Log!HeadOf(Log!Sorted(records[d])).leaves = l
<1>1. Log!Sorted(records[d]) = ListOf(l)
  BY RecordsSorted DEF Holds
<1>2. Log!IsChain(ListOf(l)) /\ Len(ListOf(l)) = Len(l) /\ Log!HeadOf(ListOf(l)).leaves = l
  BY ListIsChain, ListIsRead, HeadHasAll DEF Holds
<1>3. Log!Leaves(ListOf(l)) = l
  <2>1. /\ ListOf(l) \in Seq(RecordsOf(l)) /\ Len(ListOf(l)) = Len(l) /\ Len(l) \in 0..Len(l)
        /\ l \in Seq(Payloads)
    BY ListIsRead DEF Holds
  <2>2. SubSeq(ListOf(l), 1, Len(l)) = ListOf(l) /\ SubSeq(l, 1, Len(l)) = l
    BY <2>1
  <2>3. Log!Leaves(SubSeq(ListOf(l), 1, Len(l))) = SubSeq(l, 1, Len(l))
    BY <2>1, ListIsRead
  <2> QED
    BY <2>2, <2>3
<1>4. /\ Log!Opened(d).dir = d
      /\ Log!Opened(d).chain = ListOf(l)
      /\ Log!Opened(d).frontier = Log!FrontierOf(l)
  BY <1>1, <1>3 DEF Log!Opened
<1> QED
  BY <1>1, <1>2, <1>3, <1>4
LEMMA OpenKeepsLog ==
    ASSUME LogInv, NEW w \in Writers, Log!Open(w)
    PROVE  LogInv'
<1>1. PICK d \in Dirs : object' = [object EXCEPT ![w] = Log!Opened(d)]
  BY DEF Log!Open
<1>2. /\ place[w] \in {"closed", "open"} /\ place' = [place EXCEPT ![w] = "open"]
      /\ records' = records /\ writerLock' = writerLock /\ draft' = draft
      /\ acknowledged' = acknowledged
  BY DEF Log!Open, Log!Goto
<1>3. Log!Opened(d) = [dir |-> d, chain |-> Log!Opened(d).chain, frontier |-> Log!Opened(d).frontier]
  BY DEF Log!Opened
<1>4. Log!Opened(d).dir = d
  BY DEF Log!Opened
<1>5. LogTyped'
  BY <1>1, <1>2, <1>3, <1>4 DEF LogInv, LogTyped, LogPlaces
<1>6. \A v \in Writers : place'[v] \in Log!Holding \cup {"written", "built"} =>
          v # w /\ place'[v] = place[v] /\ object'[v] = object[v]
  BY <1>1, <1>2 DEF LogInv, LogTyped, Log!Holding
<1>7. LogExclusion' /\ DraftsFit' /\ AnsweredRecords'
  BY <1>2, <1>6 DEF LogInv, LogExclusion, DraftsFit, AnsweredRecords, Log!Holding
<1> QED
  BY <1>2, <1>5, <1>7 DEF LogInv, EveryDirHolds

LEMMA LockKeepsLog ==
    ASSUME LogInv, NEW w \in Writers, Log!AcquireLock(w)
    PROVE  LogInv'
<1> DEFINE d == object[w].dir
<1>1. /\ place[w] = "open" /\ place' = [place EXCEPT ![w] = "locked"] /\ ~writerLock[d]
      /\ writerLock' = [writerLock EXCEPT ![d] = TRUE]
      /\ records' = records /\ object' = object /\ draft' = draft /\ acknowledged' = acknowledged
  BY DEF Log!AcquireLock, Log!Goto
<1>2. d \in Dirs
  BY <1>1 DEF LogInv, LogTyped
<1>3. LogTyped'
  BY <1>1, <1>2 DEF LogInv, LogTyped, LogPlaces
<1>4. \A v \in Writers : v # w => place'[v] = place[v] /\ object'[v] = object[v]
  BY <1>1 DEF LogInv, LogTyped
<1>5. \A v \in Writers : place[v] \in Log!Holding => object[v].dir # d
  BY <1>1 DEF LogInv, LogExclusion
<1>6. place'[w] = "locked" /\ writerLock'[d] /\ \A e \in Dirs : writerLock[e] => writerLock'[e]
  BY <1>1, <1>2 DEF LogInv, LogTyped
<1>7. \A v \in Writers : place[v] # "closed" => object[v].dir \in Dirs
  BY DEF LogInv, LogTyped
<1>8. LogExclusion'
  <2>1. ASSUME NEW v \in Writers, place'[v] \in Log!Holding
        PROVE  writerLock'[object'[v].dir]
    <3>1. CASE v = w
      BY <1>1, <1>6, <3>1
    <3>2. CASE v # w
      BY <1>1, <1>4, <1>6, <1>7, <2>1, <3>2 DEF LogInv, LogExclusion, Log!Holding
    <3> QED
      BY <3>1, <3>2
  <2>2. ASSUME NEW v \in Writers, NEW u \in Writers, place'[v] \in Log!Holding,
               place'[u] \in Log!Holding, object'[v].dir = object'[u].dir
        PROVE  v = u
    BY <1>1, <1>4, <1>5, <2>2 DEF LogInv, LogExclusion
  <2> QED
    BY <2>1, <2>2 DEF LogExclusion
<1>9. DraftsFit' /\ AnsweredRecords'
  BY <1>1, <1>4, <1>6 DEF LogInv, DraftsFit, AnsweredRecords
<1> QED
  BY <1>1, <1>3, <1>8, <1>9 DEF LogInv, EveryDirHolds

LEMMA BuildKeepsLog ==
    ASSUME LogInv, NEW w \in Writers, Log!BuildRecord(w)
    PROVE  LogInv'
<1> DEFINE d == object[w].dir
           leaves == Log!Leaves(Log!Opened(d).chain)
           built(p) == [leaves |-> Append(leaves, p),
                        root |-> Log!FrontierRoot(Log!AppendSubtree(Log!Opened(d).frontier,
                                     Log!LeafHash(p), 0, Len(leaves)))]
<1>1. /\ place[w] = "locked" /\ place' = [place EXCEPT ![w] = "built"]
      /\ Len(Log!Opened(d).chain) < MaxRecords
      /\ records' = records /\ object' = object /\ writerLock' = writerLock
      /\ acknowledged' = acknowledged
      /\ \E p \in Payloads : draft' = [draft EXCEPT ![w] = built(p)]
  BY DEF Log!BuildRecord, Log!Goto
<1>2. PICK p \in Payloads : draft' = [draft EXCEPT ![w] = built(p)]
  BY <1>1
<1>3. d \in Dirs
  BY <1>1 DEF LogInv, LogTyped
<1>4. PICK l : Holds(records[d], l)
  BY <1>3 DEF LogInv, EveryDirHolds
<1>5. /\ leaves = l /\ Log!Opened(d).frontier = Log!FrontierOf(l)
      /\ Len(l) < MaxRecords /\ l \in Seq(Payloads)
  BY <1>1, <1>4, HeldIsOpened DEF Holds
<1>6. built(p) = RecordOf(Append(l, p), Len(l) + 1)
  <2>1. SubSeq(Append(l, p), 1, Len(l) + 1) = Append(l, p)
    BY <1>5
  <2>2. Log!FrontierOf(Append(l, p)) =
            Log!AppendSubtree(Log!FrontierOf(l), Log!LeafHash(p), 0, Len(l))
    BY <1>5, FrontierAppends
  <2> QED
    BY <1>5, <2>1, <2>2 DEF RecordOf
<1> HIDE DEF built
<1>7. NextOf(records[d], built(p))
  BY <1>4, <1>5, <1>6 DEF NextOf
<1>8. LogTyped'
  BY <1>1, <1>2 DEF LogInv, LogTyped, LogPlaces
<1>9. LogExclusion' /\ AnsweredRecords'
  <2>1. \A v \in Writers : place'[v] \in Log!Holding => place[v] \in Log!Holding
    BY <1>1 DEF LogInv, LogTyped, Log!Holding
  <2> QED
    BY <1>1, <2>1 DEF LogInv, LogExclusion, AnsweredRecords
<1>10. DraftsFit'
  <2>1. \A v \in Writers : v # w => place'[v] = place[v] /\ draft'[v] = draft[v]
    BY <1>1, <1>2 DEF LogInv, LogTyped
  <2>2. place'[w] = "built" /\ draft'[w] = built(p)
    BY <1>1, <1>2 DEF LogInv, LogTyped
  <2> QED
    BY <1>1, <1>7, <2>1, <2>2 DEF LogInv, DraftsFit
<1> QED
  BY <1>1, <1>8, <1>9, <1>10 DEF LogInv, EveryDirHolds
(* A writer that leaves takes no lock from another. *)
LEMMA LeavingKeepsExclusion ==
    ASSUME LogInv, NEW w \in Writers, place[w] \in Log!Holding,
           writerLock' = [writerLock EXCEPT ![object[w].dir] = FALSE],
           place' = [place EXCEPT ![w] = "open"],
           \A v \in Writers : object'[v].dir = object[v].dir
    PROVE  LogExclusion'
<1>1. \A v \in Writers : place'[v] \in Log!Holding =>
          /\ v # w /\ place[v] \in Log!Holding
          /\ object'[v].dir \in Dirs /\ object'[v].dir = object[v].dir
  BY DEF LogInv, LogTyped, Log!Holding
<1>2. \A v \in Writers : place'[v] \in Log!Holding => object[v].dir # object[w].dir
  BY <1>1 DEF LogInv, LogExclusion
<1>3. \A v \in Writers : place'[v] \in Log!Holding => writerLock'[object'[v].dir]
  <2> SUFFICES ASSUME NEW v \in Writers, place'[v] \in Log!Holding
               PROVE  writerLock'[object'[v].dir]
    OBVIOUS
  <2>1. writerLock[object[v].dir] /\ object[v].dir \in Dirs /\ object[v].dir # object[w].dir
    BY <1>1, <1>2 DEF LogInv, LogExclusion
  <2>2. writerLock'[object[v].dir]
    BY <2>1 DEF LogInv, LogTyped
  <2> QED
    BY <1>1, <2>2
<1>4. \A u, v \in Writers :
          place'[u] \in Log!Holding /\ place'[v] \in Log!Holding /\ object'[u].dir = object'[v].dir
              => u = v
  BY <1>1 DEF LogInv, LogExclusion
<1> QED
  BY <1>3, <1>4 DEF LogExclusion

LEMMA FailKeepsLog ==
    ASSUME LogInv, NEW w \in Writers, Log!PublishFails(w)
    PROVE  LogInv'
<1>1. /\ place[w] \in {"locked", "built"} /\ place' = [place EXCEPT ![w] = "open"]
      /\ writerLock' = [writerLock EXCEPT ![object[w].dir] = FALSE]
      /\ draft' = [draft EXCEPT ![w] = Log!NoRecord]
      /\ records' = records /\ object' = object /\ acknowledged' = acknowledged
  BY DEF Log!PublishFails, Log!Goto
<1>2. LogTyped'
  BY <1>1 DEF LogInv, LogTyped, LogPlaces
<1>3. LogExclusion'
  <2>1. place[w] \in Log!Holding
    BY <1>1 DEF Log!Holding
  <2> QED
    BY <1>1, <2>1, LeavingKeepsExclusion
<1>4. DraftsFit'
  <2>1. /\ place'[w] = "open"
        /\ \A v \in Writers : v # w => place'[v] = place[v] /\ draft'[v] = draft[v]
    BY <1>1 DEF LogInv, LogTyped
  <2> QED
    BY <1>1, <2>1 DEF LogInv, DraftsFit
<1> QED
  BY <1>1, <1>2, <1>3, <1>4 DEF LogInv, EveryDirHolds, AnsweredRecords

(* The rename into place makes the draft the last record of its directory, *)
(* and no other draft was meant for that directory.                         *)
LEMMA WriteKeepsLog ==
    ASSUME LogInv, MaxRecords \in Nat, NEW w \in Writers, Log!WriteRecord(w)
    PROVE  LogInv'
<1> DEFINE d == object[w].dir
<1>1. /\ place[w] = "built" /\ place' = [place EXCEPT ![w] = "written"]
      /\ records' = [records EXCEPT ![d] = @ \cup {draft[w]}]
      /\ writerLock' = writerLock /\ object' = object /\ draft' = draft
      /\ acknowledged' = acknowledged
  BY DEF Log!WriteRecord, Log!Goto
<1>2. d \in Dirs
  BY <1>1 DEF LogInv, LogTyped
<1>3. /\ DOMAIN records = Dirs
      /\ records'[d] = records[d] \cup {draft[w]}
      /\ \A e \in Dirs : e # d => records'[e] = records[e]
  BY <1>1, <1>2 DEF LogInv, LogTyped
<1>4. LogTyped'
  <2>1. records' \in [Dirs -> {records'[e] : e \in Dirs}]
    BY <1>1, <1>3
  <2> QED
    BY <1>1, <2>1, ZenonT(30) DEF LogInv, LogTyped, LogPlaces
<1>5. PICK l, p : /\ Holds(records[d], l) /\ p \in Payloads /\ Len(l) < MaxRecords
                  /\ draft[w] = RecordOf(Append(l, p), Len(l) + 1)
  BY <1>1 DEF LogInv, DraftsFit, NextOf
<1>6. Holds(records'[d], Append(l, p))
  <2>1. l \in Seq(Payloads) /\ records[d] = RecordsOf(l)
    BY <1>5 DEF Holds
  <2>2. /\ Append(l, p) \in Seq(Payloads) /\ records'[d] = RecordsOf(Append(l, p))
    BY <1>3, <1>5, <2>1, RecordsAppend
  <2>3. Len(Append(l, p)) = Len(l) + 1 /\ Len(l) \in Nat
    BY <2>1
  <2>4. Len(Append(l, p)) <= MaxRecords
    BY <1>5, <2>3
  <2> QED
    BY <2>2, <2>4 DEF Holds
<1>7. EveryDirHolds'
  BY <1>3, <1>6 DEF LogInv, EveryDirHolds
<1>8. place'[w] = "written" /\ \A v \in Writers : v # w => place'[v] = place[v]
  BY <1>1 DEF LogInv, LogTyped
<1>9. LogExclusion'
  <2>1. \A v \in Writers : place'[v] \in Log!Holding => place[v] \in Log!Holding
    BY <1>1, <1>8 DEF Log!Holding
  <2> QED
    BY <1>1, <2>1 DEF LogInv, LogExclusion
<1>10. DraftsFit'
  <2>1. \A v \in Writers : v # w /\ place[v] \in {"built", "written"} =>
            object[v].dir \in Dirs /\ object[v].dir # d
    BY <1>1 DEF LogInv, LogTyped, LogExclusion, Log!Holding
  <2>2. \A v \in Writers : v # w /\ place[v] \in {"built", "written"} =>
            records'[object[v].dir] = records[object[v].dir]
    BY <1>3, <2>1
  <2> QED
    BY <1>1, <1>3, <1>8, <2>2 DEF LogInv, DraftsFit
<1>11. AnsweredRecords'
  BY <1>1, <1>3 DEF LogInv, AnsweredRecords
<1> QED
  BY <1>4, <1>7, <1>9, <1>10, <1>11 DEF LogInv
LEMMA ReturnKeepsLog ==
    ASSUME LogInv, NEW w \in Writers, Log!PublishReturns(w)
    PROVE  LogInv'
<1> DEFINE d == object[w].dir
           answer == [dir |-> d, record |-> draft[w]]
<1>1. /\ place[w] = "written" /\ place' = [place EXCEPT ![w] = "open"]
      /\ writerLock' = [writerLock EXCEPT ![d] = FALSE]
      /\ draft' = [draft EXCEPT ![w] = Log!NoRecord]
      /\ acknowledged' = acknowledged \cup {answer} /\ records' = records
  BY DEF Log!PublishReturns, Log!Goto
<1>2. \E chain, frontier :
          object' = [object EXCEPT ![w] = [dir |-> d, chain |-> chain, frontier |-> frontier]]
  BY DEF Log!PublishReturns
<1>3. PICK chain, frontier :
          object' = [object EXCEPT ![w] = [dir |-> d, chain |-> chain, frontier |-> frontier]]
  BY <1>2
<1>4. DOMAIN object = Writers
  BY DEF LogInv, LogTyped
<1>5. /\ object'[w] = [dir |-> d, chain |-> chain, frontier |-> frontier]
      /\ \A v \in Writers : v # w => object'[v] = object[v]
      /\ \A v \in Writers : object'[v].dir = object[v].dir
  BY <1>3, <1>4
<1>6. LogTyped'
  <2>1. object' \in [Writers -> {object'[v] : v \in Writers}]
    BY <1>3, <1>4
  <2> QED
    BY <1>1, <1>5, <2>1 DEF LogInv, LogTyped, LogPlaces
<1>7. LogExclusion'
  <2>1. place[w] \in Log!Holding
    BY <1>1 DEF Log!Holding
  <2> QED
    BY <1>1, <1>5, <2>1, LeavingKeepsExclusion
<1>8. DraftsFit'
  <2>1. /\ place'[w] = "open"
        /\ \A v \in Writers : v # w => place'[v] = place[v] /\ draft'[v] = draft[v]
    BY <1>1 DEF LogInv, LogTyped
  <2> QED
    BY <1>1, <1>5, <2>1 DEF LogInv, DraftsFit
<1>9. AnsweredRecords'
  <2>1. answer.dir \in Dirs /\ answer.record \in records[answer.dir]
    BY <1>1 DEF LogInv, LogTyped, DraftsFit
  <2> HIDE DEF answer
  <2> QED
    BY <1>1, <2>1 DEF LogInv, AnsweredRecords
<1> QED
  BY <1>1, <1>6, <1>7, <1>8, <1>9 DEF LogInv, EveryDirHolds

(* Wherever a process dies, what it wrote and what it locked stay. *)
LEMMA CrashKeepsLog ==
    ASSUME LogInv, NEW w \in Writers, Log!Crash(w)
    PROVE  LogInv'
<1>1. /\ place' = [place EXCEPT ![w] = "closed"]
      /\ object' = [object EXCEPT ![w] = Log!Closed]
      /\ draft' = [draft EXCEPT ![w] = Log!NoRecord]
      /\ records' = records /\ writerLock' = writerLock /\ acknowledged' = acknowledged
  BY DEF Log!Crash, Log!Goto
<1>2. LogTyped'
  BY <1>1 DEF LogInv, LogTyped, LogPlaces, Log!Closed
<1>3. /\ place'[w] = "closed"
      /\ \A v \in Writers : v # w => /\ place'[v] = place[v] /\ draft'[v] = draft[v]
                                     /\ object'[v] = object[v]
  BY <1>1 DEF LogInv, LogTyped
<1>4. LogExclusion' /\ DraftsFit' /\ AnsweredRecords'
  BY <1>1, <1>3 DEF LogInv, LogExclusion, DraftsFit, AnsweredRecords, Log!Holding
<1> QED
  BY <1>1, <1>2, <1>4 DEF LogInv, EveryDirHolds

LEMMA ClearKeepsLog ==
    ASSUME LogInv, NEW d \in Dirs, Log!OperatorClearsLock(d)
    PROVE  LogInv'
<1>1. /\ \A w \in Writers : place[w] \in Log!Holding => object[w].dir # d
      /\ writerLock' = [writerLock EXCEPT ![d] = FALSE]
      /\ records' = records /\ place' = place /\ object' = object /\ draft' = draft
      /\ acknowledged' = acknowledged
  BY DEF Log!OperatorClearsLock
<1>2. LogTyped'
  BY <1>1 DEF LogInv, LogTyped
<1>3. LogExclusion'
  <2>1. \A w \in Writers : place[w] \in Log!Holding =>
            object[w].dir \in Dirs /\ object[w].dir # d /\ writerLock[object[w].dir]
    BY <1>1 DEF LogInv, LogTyped, LogExclusion, Log!Holding
  <2>2. \A e \in Dirs : e # d => writerLock'[e] = writerLock[e]
    BY <1>1 DEF LogInv, LogTyped
  <2> QED
    BY <1>1, <2>1, <2>2 DEF LogInv, LogExclusion
<1> QED
  BY <1>1, <1>2, <1>3 DEF LogInv, EveryDirHolds, DraftsFit, AnsweredRecords

(* Every step of a writer or of an operator keeps the invariant. *)
LEMMA LogStep ==
    ASSUME LogInv, MaxRecords \in Nat, [Log!Next]_(Log!vars)
    PROVE  LogInv'
<1>1. CASE UNCHANGED Log!vars
  BY <1>1 DEF Log!vars, LogInv, LogTyped, LogExclusion, EveryDirHolds, DraftsFit, AnsweredRecords
<1>2. CASE Log!Next
  BY <1>2, OpenKeepsLog, LockKeepsLog, BuildKeepsLog, FailKeepsLog, WriteKeepsLog, ReturnKeepsLog,
     CrashKeepsLog, ClearKeepsLog DEF Log!Next
<1> QED
  BY <1>1, <1>2

(* One writer at a time per directory, each directory the records of one      *)
(* log, each draft the next record of its directory's log                     *)
(* (TransparencyLog::publish_leaf under its writer lock).                     *)
THEOREM LogInvariance ==
    ASSUME MaxRecords \in Nat
    PROVE  Log!Spec => []LogInv
<1>1. Log!Init => LogInv
  BY LogInit
<1>2. LogInv /\ [Log!Next]_(Log!vars) => LogInv'
  BY LogStep
<1> QED
  BY <1>1, <1>2, PTL DEF Log!Spec

(* Whatever the writers do at the same time and wherever they die, the record *)
(* files of a directory are one chain that TransparencyLog::open() accepts,   *)
(* each root the one that the frontier carried so far gives it.               *)
THEOREM ChainsAlwaysOpen ==
    ASSUME MaxRecords \in Nat
    PROVE  Log!Spec => []Log!ChainsOpen
<1>1. LogInv => Log!ChainsOpen
  BY HeldIsOpened DEF LogInv, EveryDirHolds, Log!ChainsOpen
<1> QED
  BY <1>1, LogInvariance, PTL

(* A record that publish_leaf() returned stays in its directory, and the log  *)
(* that the directory holds extends it: no two callers ever hold records of   *)
(* one directory that disagree.                                               *)
THEOREM AcknowledgedAlwaysKept ==
    ASSUME MaxRecords \in Nat
    PROVE  Log!Spec => []Log!AcknowledgedIsKept
<1>1. LogInv => Log!AcknowledgedIsKept
  <2> SUFFICES ASSUME LogInv, NEW a \in acknowledged
               PROVE  /\ a.record \in records[a.dir]
                      /\ Log!IsPrefix(a.record.leaves, Log!HeadOf(Log!Sorted(records[a.dir])).leaves)
    BY DEF Log!AcknowledgedIsKept
  <2>1. a.dir \in Dirs /\ a.record \in records[a.dir]
    BY DEF LogInv, AnsweredRecords
  <2>2. PICK l : Holds(records[a.dir], l)
    BY <2>1 DEF LogInv, EveryDirHolds
  <2>3. Log!HeadOf(Log!Sorted(records[a.dir])).leaves = l
    BY <2>2, HeldIsOpened
  <2>4. PICK i \in 1..Len(l) : a.record = RecordOf(l, i)
    BY <2>1, <2>2 DEF Holds, RecordsOf
  <2>5. l \in Seq(Payloads) /\ a.record.leaves = SubSeq(l, 1, i)
    BY <2>2, <2>4, RecordLength DEF Holds
  <2>6. Log!IsPrefix(SubSeq(l, 1, i), l)
    BY <2>5 DEF Log!IsPrefix
  <2> QED
    BY <2>1, <2>3, <2>5, <2>6
<1> QED
  BY <1>1, LogInvariance, PTL
-----------------------------------------------------------------------------
(* The archive of gossip about such a log (witness_persistence.cpp), for any   *)
(* number of archivists and whatever the log's directories hold.               *)
CONSTANTS GossipDirs, FinalLeaves, MaxSize, Senders, Witnesses, Service, ActiveKeys, LogSigner,
          MinimumWitnesses, Archivists, MaxGossip

VARIABLES gossipFiles, archiveLock, desk, archive, offered

Gossip == INSTANCE WitnessGossip WITH
              Dirs <- GossipDirs, Contents <- FinalLeaves, files <- gossipFiles, place <- desk

Desks == {"closed", "open", "locked", "checked", "written"}

(* The files hold chain c, which open() accepts. *)
Archived(set, c) ==
    /\ \E S : c \in Seq(S)
    /\ set = PrefixesOf(c)
    /\ Len(c) <= MaxGossip
    /\ Gossip!SenderChains(c)

GossipInv ==
    /\ desk \in [Archivists -> Desks]
    /\ archive \in [Archivists -> {archive[a] : a \in Archivists}]
    /\ offered \in [Archivists -> {offered[a] : a \in Archivists}]
    /\ \A a \in Archivists : desk[a] \in Gossip!Holding => archiveLock
    /\ \A a, b \in Archivists : desk[a] \in Gossip!Holding /\ desk[b] \in Gossip!Holding => a = b
    /\ \E c : Archived(gossipFiles, c)
    /\ \A a \in Archivists : desk[a] = "checked" =>
          /\ Archived(gossipFiles, archive[a]) /\ Len(archive[a]) < MaxGossip
          /\ Gossip!SenderChains(Append(archive[a], offered[a]))

(* What open() takes for the archive's chain is the chain that it holds. *)
LEMMA ArchivedIsOpened ==
    ASSUME NEW c, Archived(gossipFiles, c)
    PROVE  Gossip!ChainOf(gossipFiles) = c /\ Gossip!IsArchive(gossipFiles)
<1>1. PICK S : c \in Seq(S)
  BY DEF Archived
<1>2. Gossip!ChainOf(gossipFiles) = c
  <2>1. CASE c = <<>>
    <3>1. PrefixesOf(c) = {}
      BY <1>1, <2>1 DEF PrefixesOf
    <3> QED
      BY <2>1, <3>1 DEF Archived, Gossip!ChainOf
  <2>2. CASE c # <<>>
    <3>1. c \in PrefixesOf(c) /\ PrefixesOf(c) # {}
      BY <1>1, <2>2, WholeIsPrefix
    <3>2. \A d \in PrefixesOf(c) : /\ Len(d) \in 1..Len(c) /\ d = SubSeq(c, 1, Len(d))
      BY <1>1, PrefixMember
    <3>3. SubSeq(c, 1, Len(c)) = c /\ Len(c) \in Nat
      BY <1>1, WholeIsPrefix
    <3>4. \A d \in PrefixesOf(c) : Len(d) <= Len(c)
      BY <3>2, <3>3
    <3>5. \A d \in PrefixesOf(c) : (\A e \in PrefixesOf(c) : Len(e) <= Len(d)) => d = c
      <4> SUFFICES ASSUME NEW d \in PrefixesOf(c), \A e \in PrefixesOf(c) : Len(e) <= Len(d)
                   PROVE  d = c
        OBVIOUS
      <4>1. Len(c) <= Len(d) /\ Len(d) <= Len(c) /\ Len(d) \in Nat
        BY <3>1, <3>2, <3>4
      <4>2. Len(d) = Len(c)
        BY <3>3, <4>1
      <4> QED
        BY <3>2, <3>3, <4>2
    <3>6. (CHOOSE d \in PrefixesOf(c) : \A e \in PrefixesOf(c) : Len(e) <= Len(d)) = c
      BY <3>1, <3>4, <3>5
    <3> QED
      BY <3>1, <3>6 DEF Archived, Gossip!ChainOf
  <2> QED
    BY <2>1, <2>2
<1>3. DOMAIN c = 1..Len(c)
  BY <1>1
<1>4. gossipFiles = {SubSeq(c, 1, i) : i \in DOMAIN c}
  BY <1>3 DEF Archived, PrefixesOf
<1>5. Gossip!IsArchive(gossipFiles)
  BY <1>2, <1>4 DEF Gossip!IsArchive, Archived
<1> QED
  BY <1>2, <1>5

LEMMA GossipInit ==
    ASSUME MaxGossip \in Nat, Gossip!Init
    PROVE  GossipInv
<1>1. <<>> \in Seq({}) /\ Len(<<>>) = 0 /\ DOMAIN <<>> = {}
  OBVIOUS
<1>2. Archived(gossipFiles, <<>>)
  BY <1>1 DEF Gossip!Init, Archived, PrefixesOf, Gossip!SenderChains
<1> QED
  BY <1>2 DEF Gossip!Init, GossipInv, Desks, Gossip!Holding

(* Steps that leave the record files alone. *)
LEMMA DeskKeepsGossip ==
    ASSUME GossipInv, NEW a \in Archivists,
           \/ Gossip!OpenArchive(a)
           \/ Gossip!OfferGossip(a)
           \/ Gossip!OfferFails(a)
           \/ Gossip!OfferReturns(a)
           \/ Gossip!ArchivistDies(a)
    PROVE  GossipInv'
<1> USE DEF Gossip!At
<1>1. gossipFiles' = gossipFiles
  BY DEF Gossip!OpenArchive, Gossip!OfferGossip, Gossip!OfferFails, Gossip!OfferReturns,
         Gossip!ArchivistDies
<1>2. PICK p \in {"open", "locked", "closed"} : desk' = [desk EXCEPT ![a] = p]
  BY DEF Gossip!OpenArchive, Gossip!OfferGossip, Gossip!OfferFails, Gossip!OfferReturns,
         Gossip!ArchivistDies
<1>3. /\ \E x : archive' = [archive EXCEPT ![a] = x]
      /\ \E x : offered' = [offered EXCEPT ![a] = x]
  <2>1. archive = [archive EXCEPT ![a] = archive[a]] /\ offered = [offered EXCEPT ![a] = offered[a]]
    BY DEF GossipInv
  <2> QED
    BY <2>1 DEF Gossip!OpenArchive, Gossip!OfferGossip, Gossip!OfferFails, Gossip!OfferReturns,
                Gossip!ArchivistDies
<1>4. /\ archive' \in [Archivists -> {archive'[b] : b \in Archivists}]
      /\ offered' \in [Archivists -> {offered'[b] : b \in Archivists}]
      /\ \A b \in Archivists : b # a => archive'[b] = archive[b] /\ offered'[b] = offered[b]
  BY <1>3 DEF GossipInv
<1>5. /\ desk' \in [Archivists -> Desks] /\ desk'[a] = p
      /\ \A b \in Archivists : b # a => desk'[b] = desk[b]
  BY <1>2 DEF GossipInv, Desks
<1>6. /\ \A b \in Archivists : desk'[b] \in Gossip!Holding => archiveLock'
      /\ \A b, d \in Archivists : desk'[b] \in Gossip!Holding /\ desk'[d] \in Gossip!Holding => b = d
  <2>1. CASE Gossip!OfferGossip(a)
    BY <1>5, <2>1 DEF Gossip!OfferGossip, GossipInv
  <2>2. CASE Gossip!OpenArchive(a) \/ Gossip!ArchivistDies(a)
    <3>1. archiveLock' = archiveLock /\ desk'[a] \notin Gossip!Holding
      BY <1>5, <2>2 DEF Gossip!OpenArchive, Gossip!ArchivistDies, Gossip!Holding, GossipInv
    <3> QED
      BY <1>5, <3>1 DEF GossipInv
  <2>3. CASE Gossip!OfferFails(a) \/ Gossip!OfferReturns(a)
    <3>1. desk[a] \in Gossip!Holding /\ desk'[a] \notin Gossip!Holding
      BY <1>5, <2>3 DEF Gossip!OfferFails, Gossip!OfferReturns, Gossip!Holding, GossipInv
    <3> QED
      BY <1>5, <3>1 DEF GossipInv
  <2> QED
    BY <2>1, <2>2, <2>3
<1>7. \A b \in Archivists : desk'[b] = "checked" =>
          /\ Archived(gossipFiles', archive'[b]) /\ Len(archive'[b]) < MaxGossip
          /\ Gossip!SenderChains(Append(archive'[b], offered'[b]))
  BY <1>1, <1>4, <1>5 DEF GossipInv
<1> QED
  BY <1>1, <1>4, <1>5, <1>6, <1>7 DEF GossipInv
(* What is checked is the next gossip of the chain on disk. *)
LEMMA CheckKeepsGossip ==
    ASSUME GossipInv, NEW a \in Archivists, Gossip!CheckGossip(a)
    PROVE  GossipInv'
<1>1. /\ desk[a] = "locked" /\ desk' = [desk EXCEPT ![a] = "checked"]
      /\ Gossip!ChainOf(gossipFiles) = archive[a] /\ Len(Gossip!ChainOf(gossipFiles)) < MaxGossip
      /\ UNCHANGED <<gossipFiles, archiveLock, archive>>
  BY DEF Gossip!CheckGossip, Gossip!At
<1>2. PICK g : Gossip!SenderChains(Append(archive[a], g)) /\ offered' = [offered EXCEPT ![a] = g]
  BY DEF Gossip!CheckGossip
<1>3. Archived(gossipFiles, archive[a]) /\ Len(archive[a]) < MaxGossip
  BY <1>1, ArchivedIsOpened DEF GossipInv
<1>4. /\ offered' \in [Archivists -> {offered'[b] : b \in Archivists}] /\ offered'[a] = g
      /\ \A b \in Archivists : b # a => offered'[b] = offered[b]
  BY <1>2 DEF GossipInv
<1>5. /\ desk' \in [Archivists -> Desks]
      /\ \A b \in Archivists : b # a => desk'[b] = desk[b]
  BY <1>1 DEF GossipInv, Desks
<1>6. \A b \in Archivists : desk'[b] \in Gossip!Holding => desk[b] \in Gossip!Holding
  BY <1>1, <1>5 DEF Gossip!Holding
<1>7. \A b \in Archivists : desk'[b] = "checked" =>
          /\ Archived(gossipFiles', archive'[b]) /\ Len(archive'[b]) < MaxGossip
          /\ Gossip!SenderChains(Append(archive'[b], offered'[b]))
  BY <1>1, <1>2, <1>3, <1>4, <1>5 DEF GossipInv
<1> QED
  BY <1>1, <1>4, <1>5, <1>6, <1>7 DEF GossipInv

(* The rename into place makes it so. *)
LEMMA WriteKeepsGossip ==
    ASSUME GossipInv, MaxGossip \in Nat, NEW a \in Archivists, Gossip!WriteGossip(a)
    PROVE  GossipInv'
<1> DEFINE c == archive[a]
           d == Append(archive[a], offered[a])
<1>1. /\ desk[a] = "checked" /\ desk' = [desk EXCEPT ![a] = "written"]
      /\ gossipFiles' = gossipFiles \cup {d}
      /\ UNCHANGED <<archiveLock, archive, offered>>
  BY DEF Gossip!WriteGossip, Gossip!At
<1>2. Archived(gossipFiles, c) /\ Len(c) < MaxGossip /\ Gossip!SenderChains(d)
  BY <1>1 DEF GossipInv
<1>3. PICK S : c \in Seq(S)
  BY <1>2 DEF Archived
<1> DEFINE T == S \cup {offered[a]}
<1>4. c \in Seq(T) /\ offered[a] \in T
  BY <1>3
<1> HIDE DEF T
<1>5. d \in Seq(T) /\ Len(d) = Len(c) + 1 /\ PrefixesOf(d) = PrefixesOf(c) \cup {d} /\ Len(c) \in Nat
  BY <1>4, AppendAddsOne
<1>6. Archived(gossipFiles', d)
  <2> HIDE DEF c, d
  <2> QED
    BY <1>1, <1>2, <1>5 DEF Archived
<1>7. /\ desk' \in [Archivists -> Desks] /\ desk'[a] = "written"
      /\ \A b \in Archivists : b # a => desk'[b] = desk[b]
  BY <1>1 DEF GossipInv, Desks
<1>8. \A b \in Archivists : desk'[b] \in Gossip!Holding => desk[b] \in Gossip!Holding
  BY <1>1, <1>7 DEF Gossip!Holding
<1>9. \A b \in Archivists : desk'[b] # "checked"
  <2>1. desk[a] \in Gossip!Holding
    BY <1>1 DEF Gossip!Holding
  <2>2. \A b \in Archivists : desk[b] \in Gossip!Holding => b = a
    BY <2>1 DEF GossipInv
  <2> QED
    BY <1>7, <2>2 DEF Gossip!Holding
<1>10. \E e : Archived(gossipFiles', e)
  BY <1>6
<1> QED
  BY <1>1, <1>7, <1>8, <1>9, <1>10, ZenonT(30) DEF GossipInv

LEMMA ClearKeepsGossip ==
    ASSUME GossipInv, Gossip!OperatorClearsArchiveLock
    PROVE  GossipInv'
  BY DEF Gossip!OperatorClearsArchiveLock, GossipInv

LEMMA GossipStep ==
    ASSUME GossipInv, MaxGossip \in Nat, [Gossip!Next]_(Gossip!vars)
    PROVE  GossipInv'
<1>1. CASE UNCHANGED Gossip!vars
  BY <1>1 DEF Gossip!vars, GossipInv
<1>2. CASE Gossip!Next
  BY <1>2, DeskKeepsGossip, CheckKeepsGossip, WriteKeepsGossip, ClearKeepsGossip DEF Gossip!Next
<1> QED
  BY <1>1, <1>2

(* One archivist at a time publishes, the record files are the beginnings of  *)
(* one chain with continuous sender chains, and what has been checked is what *)
(* comes after it (TransparencyGossipArchive::publish under its writer lock). *)
THEOREM GossipInvariance ==
    ASSUME MaxGossip \in Nat
    PROVE  Gossip!Spec => []GossipInv
<1>1. Gossip!Init => GossipInv
  BY GossipInit
<1>2. GossipInv /\ [Gossip!Next]_(Gossip!vars) => GossipInv'
  BY GossipStep
<1> QED
  BY <1>1, <1>2, PTL DEF Gossip!Spec

(* Archivists who work at the same time, or die anywhere, leave an archive    *)
(* that TransparencyGossipArchive::open() accepts, however many they are and  *)
(* whatever the senders sent.                                                 *)
THEOREM ArchiveAlwaysOpens ==
    ASSUME MaxGossip \in Nat
    PROVE  Gossip!Spec => []Gossip!ArchiveOpens
<1>1. GossipInv => Gossip!ArchiveOpens
  BY ArchivedIsOpened DEF GossipInv, Gossip!ArchiveOpens
<1> QED
  BY <1>1, GossipInvariance, PTL
=============================================================================
