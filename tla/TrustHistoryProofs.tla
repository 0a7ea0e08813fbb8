------------------------- MODULE TrustHistoryProofs -------------------------
(***************************************************************************)
(* Proofs about TrustHistory for any number of processes, keys, rotations    *)
(* and any policy; about the agreements that publishers with such histories  *)
(* make (ReservationAgreement), and about what signers with keys of such a   *)
(* history say of a key (Provenance).                                        *)
(***************************************************************************)
EXTENDS TrustHistory, PrefixChains, FiniteSetTheorems

(* The writer lock is exclusive: whoever is inside publish() holds it. *)
WriterExclusion ==
    /\ \A p \in Procs : pc[p] \in Publishing => lock
    /\ \A p, q \in Procs : pc[p] \in Publishing /\ pc[q] \in Publishing => p = q

(* An object, however old, is a record that is still in the directory. *)
ObjectsReplayed ==
    \A p \in Procs :
       /\ pc[p] = "closed" => handle[p] = <<>>
       /\ pc[p] # "closed" => handle[p] \in records

CheckpointReplayed == checkpoint.history # <<>> => checkpoint.history \in records

(* What publish() has established stays true until it uses it: nobody else   *)
(* adds a record while it has the lock.                                      *)
ExtendsHead(d) ==
    /\ d # <<>>
    /\ \E h \in records : Replays(h) /\ d = Append(h, Last(d)) /\ Follows(h, Last(d))

WriterKnowsAt(p) ==
    /\ pc[p] \in {"checked", "saved"} => ExtendsHead(draft[p])
    /\ pc[p] = "saved" => BundleOf(draft[p]) \in bundles
    /\ pc[p] = "committed" => Replays(draft[p])

WriterKnows == \A p \in Procs : WriterKnowsAt(p)

(* Any two entries of a key in use, not only neighbouring ones, are related  *)
(* as one rotation would relate them.                                        *)
RotationsCompose ==
    \A h \in records : \A i, j \in 1..Len(h) : \A k \in Keys :
        i < j /\ h[i].table[k].state \notin {"absent", "pending"} =>
            ValidRotation(h[i].table[k], h[j].table[k])

IInv ==
    /\ TypeOK
    /\ WriterExclusion
    /\ HistoryReplays
    /\ ObjectsReplayed
    /\ CheckpointReplayed
    /\ WriterKnows
    /\ RotationsCompose

-----------------------------------------------------------------------------
(* What a history is made of. *)
LEMMA RotationTyped ==
    ASSUME NEW h \in Histories, NEW i \in 1..Len(h)
    PROVE  /\ h[i] \in Rotations
           /\ h[i].table \in [Keys -> Entries]
           /\ h[i].signers \in SUBSET Keys
<1>1. h[i] \in Rotations
  BY DEF Histories
<1> QED
  BY <1>1 DEF Rotations

(* The bundle that a history ends is named after the tables up to it. *)
LEMMA BundleTyped ==
    ASSUME NEW h \in Histories
    PROVE  /\ BundleOf(h) \in Seq([Keys -> Entries])
           /\ Len(BundleOf(h)) = Len(h)
<1>1. Len(h) \in Nat
  BY DEF Histories
<1>2. BundleOf(h) \in [1..Len(h) -> [Keys -> Entries]]
  BY RotationTyped DEF BundleOf
<1> QED
  BY <1>1, <1>2 DEF BundleOf

(* A root that create() may be given is a history of one rotation. *)
LEMMA RootTyped ==
    ASSUME NEW t \in Roots
    PROVE  /\ t \in [Keys -> Entries]
           /\ ValidTable(t)
           /\ Root(t) \in Histories
           /\ Root(t) # <<>>
           /\ Len(Root(t)) = 1
           /\ Root(t)[1] = [table |-> t, signers |-> {}]
           /\ BundleOf(Root(t)) = <<t>>
<1>1. t \in [Keys -> Entries] /\ ValidTable(t)
  BY RootsAssumption
<1>2. [table |-> t, signers |-> {}] \in Rotations
  BY <1>1 DEF Rotations
<1>3. /\ Root(t) \in Histories /\ Root(t) # <<>> /\ Len(Root(t)) = 1
      /\ Root(t)[1] = [table |-> t, signers |-> {}]
  BY <1>2 DEF Root, Histories
<1>4. BundleOf(Root(t)) = [i \in 1..1 |-> t]
  BY <1>3 DEF BundleOf
<1>5. <<t>> = [i \in 1..1 |-> t]
  OBVIOUS
<1> QED
  BY <1>1, <1>3, <1>4, <1>5

(* A directory that replays to h holds the beginnings of h and h itself. *)
LEMMA ReplaysToChain ==
    ASSUME NEW h \in Histories, Replays(h)
    PROVE  /\ h # <<>>
           /\ records = PrefixesOf(h)
           /\ h \in records
<1>1. h # <<>> /\ records = PrefixesOf(h)
  BY DEF Replays, PrefixesOf
<1> QED
  BY <1>1, WholeIsPrefix DEF Histories

(* Bundles are only added: what replays goes on to, while no record is added. *)
LEMMA RecordsStay ==
    ASSUME records' = records, bundles \subseteq bundles'
    PROVE  /\ \A h : Replays(h) => Replays(h)'
           /\ \A d : ExtendsHead(d) => ExtendsHead(d)'
           /\ HistoryReplays => HistoryReplays'
           /\ RotationsCompose => RotationsCompose'
<1>1. \A h : Replays(h) => Replays(h)'
  BY DEF Replays
<1>2. \A d : ExtendsHead(d) => ExtendsHead(d)'
  BY <1>1 DEF ExtendsHead
<1>3. HistoryReplays => HistoryReplays'
  BY <1>1 DEF HistoryReplays
<1>4. RotationsCompose => RotationsCompose'
  BY DEF RotationsCompose
<1> QED
  BY <1>1, <1>2, <1>3, <1>4

(* The same for one process that the step leaves alone. *)
LEMMA WriterStillKnows ==
    ASSUME WriterKnows, records' = records, bundles \subseteq bundles',
           NEW q \in Procs, pc'[q] = pc[q], draft'[q] = draft[q]
    PROVE  WriterKnowsAt(q)'
<1> DEFINE d == draft[q]
<1>1. /\ pc[q] \in {"checked", "saved"} => ExtendsHead(d)'
      /\ pc[q] = "committed" => Replays(d)'
  BY RecordsStay DEF WriterKnows, WriterKnowsAt
<1>2. draft'[q] = d
  OBVIOUS
<1>3. pc[q] = "saved" => BundleOf(d) \in bundles'
  BY DEF WriterKnows, WriterKnowsAt
<1> QED
  BY <1>1, <1>2, <1>3 DEF WriterKnowsAt, ExtendsHead, Replays

-----------------------------------------------------------------------------
(* Before create() there is nothing to replay. *)
LEMMA InitIInv == Init => IInv
<1> SUFFICES ASSUME Init PROVE IInv
  OBVIOUS
<1>1. TypeOK
  <2>1. <<>> \in Histories
    BY DEF Histories
  <2>2. NoCheckpoint \in [history : Histories, signers : SUBSET Keys]
    BY <2>1 DEF NoCheckpoint
  <2> QED
    BY <2>1, <2>2 DEF Init, TypeOK
<1>2. WriterExclusion /\ ObjectsReplayed /\ WriterKnows
  BY DEF Init, WriterExclusion, ObjectsReplayed, WriterKnows, WriterKnowsAt, Publishing
<1>3. HistoryReplays /\ CheckpointReplayed /\ RotationsCompose
  BY DEF Init, HistoryReplays, CheckpointReplayed, NoCheckpoint, RotationsCompose
<1> QED
  BY <1>1, <1>2, <1>3 DEF IInv

(* create() makes a directory that replays to its root. *)
LEMMA CreateIInv ==
    ASSUME IInv, NEW p \in Procs, NEW t \in Roots, Create(p, t)
    PROVE  IInv'
<1> DEFINE root == Root(t)
<1>1. /\ root \in Histories /\ root # <<>> /\ Len(root) = 1
      /\ root[1] = [table |-> t, signers |-> {}]
      /\ BundleOf(root) = <<t>> /\ ValidTable(t) /\ t \in [Keys -> Entries]
  BY RootTyped
<1>2. records' = {root} /\ bundles' = {<<t>>}
  BY DEF Create
<1>3. PrefixesOf(root) = {root}
  <2>1. [table |-> t, signers |-> {}] \in Rotations
    BY <1>1 DEF Rotations
  <2> QED
    BY <2>1, RootPrefixes DEF Root
<1>4. records = {} /\ pc[p] = "closed"
  BY DEF Create
<1>5. \A q \in Procs : pc[q] = "closed"
  BY <1>4 DEF IInv, ObjectsReplayed
<1>6. TypeOK'
  <2>1. <<t>> \in Seq([Keys -> Entries]) \ {<<>>}
    BY <1>1
  <2> QED
    BY <1>1, <1>2, <2>1 DEF IInv, TypeOK, Create
<1>7. WriterExclusion'
  BY <1>5 DEF WriterExclusion, Create, IInv, TypeOK, Publishing
<1>8. Replays(root)'
  <2>1. \A i \in 1..Len(root) : BundleOf(SubSeq(root, 1, i)) \in bundles'
    <3>1. SubSeq(root, 1, 1) = root
      BY <1>1, WholeIsPrefix DEF Histories
    <3>2. 1..Len(root) = {1}
      BY <1>1
    <3> QED
      BY <1>1, <1>2, <3>1, <3>2
  <2>2. root[1].table = t /\ root[1].signers = {}
    BY <1>1
  <2>3. 2..Len(root) = {}
    BY <1>1
  <2>4. records' = {SubSeq(root, 1, i) : i \in 1..Len(root)}
    BY <1>2, <1>3 DEF PrefixesOf
  <2> QED
    BY <1>1, <2>1, <2>2, <2>3, <2>4 DEF Replays
<1>9. HistoryReplays'
  BY <1>2, <1>8 DEF HistoryReplays
<1>10. ObjectsReplayed'
  BY <1>2, <1>5 DEF ObjectsReplayed, Create, IInv, TypeOK
<1>11. CheckpointReplayed'
  BY <1>4 DEF CheckpointReplayed, IInv, Create
<1>12. WriterKnows'
  BY <1>5 DEF WriterKnows, WriterKnowsAt, Create, IInv, TypeOK
<1>13. RotationsCompose'
  <2>1. \A i, j \in 1..Len(root) : ~(i < j)
    BY <1>1
  <2> QED
    BY <1>2, <2>1 DEF RotationsCompose
<1> QED
  BY <1>6, <1>7, <1>9, <1>10, <1>11, <1>12, <1>13 DEF IInv

(* open(), with a bare head or with a checkpoint: the object is what the     *)
(* directory replays to.                                                     *)
LEMMA OpenIInv ==
    ASSUME IInv, NEW p \in Procs, NEW h \in Histories, Open(p, h)
    PROVE  IInv'
<1>1. h \in records
  BY ReplaysToChain DEF Open
<1>2. records' = records /\ bundles' = bundles
  BY DEF Open
<1>3. TypeOK'
  BY DEF IInv, TypeOK, Open
<1>4. WriterExclusion'
  BY DEF IInv, TypeOK, WriterExclusion, Open, Publishing
<1>5. ObjectsReplayed'
  BY <1>1 DEF IInv, TypeOK, ObjectsReplayed, Open
<1>6. CheckpointReplayed'
  BY DEF IInv, CheckpointReplayed, Open
<1>7. WriterKnows'
  <2> SUFFICES ASSUME NEW q \in Procs PROVE WriterKnowsAt(q)'
    BY DEF WriterKnows
  <2>1. CASE q = p
    BY <2>1 DEF IInv, TypeOK, Open, WriterKnowsAt
  <2>2. CASE q # p
    BY <1>2, <2>2, WriterStillKnows DEF IInv, TypeOK, Open
  <2> QED
    BY <2>1, <2>2
<1> QED
  BY <1>2, <1>3, <1>4, <1>5, <1>6, <1>7, RecordsStay DEF IInv

(* publish() under the lock: nobody else is inside, and the draft is a       *)
(* rotation more than what the directory replays to.                         *)
LEMMA PublishCheckIInv ==
    ASSUME IInv, NEW p \in Procs, NEW h \in records, PublishCheck(p, h)
    PROVE  IInv'
<1>1. PICK r \in [table : Tables, signers : SUBSET Keys] :
         Follows(h, r) /\ draft' = [draft EXCEPT ![p] = Append(h, r)]
  BY DEF PublishCheck
<1>2. h \in Histories /\ r \in Rotations
  BY TablesAssumption DEF IInv, TypeOK, Rotations
<1> DEFINE d == Append(h, r)
<1>3. d \in Histories /\ d # <<>> /\ Last(d) = r
  BY <1>2, AppendAddsOne DEF Histories, Last
<1>4. records' = records /\ bundles' = bundles
  BY DEF PublishCheck
<1>5. TypeOK'
  BY <1>1, <1>3 DEF IInv, TypeOK, PublishCheck, Publishing
<1>6. WriterExclusion'
  BY DEF IInv, TypeOK, WriterExclusion, PublishCheck, Publishing
<1>7. ObjectsReplayed' /\ CheckpointReplayed'
  BY DEF IInv, TypeOK, ObjectsReplayed, CheckpointReplayed, PublishCheck
<1>8. ExtendsHead(d)
  BY <1>1, <1>3 DEF ExtendsHead, PublishCheck
<1>9. WriterKnows'
  <2> SUFFICES ASSUME NEW q \in Procs PROVE WriterKnowsAt(q)'
    BY DEF WriterKnows
  <2>1. CASE q = p
    <3>1. ExtendsHead(d)'
      BY <1>4, <1>8, RecordsStay
    <3>2. draft'[q] = d /\ pc'[q] = "checked"
      BY <1>1, <2>1 DEF IInv, TypeOK, PublishCheck
    <3> QED
      BY <3>1, <3>2 DEF WriterKnowsAt, ExtendsHead
  <2>2. CASE q # p
    BY <1>1, <1>4, <2>2, WriterStillKnows DEF IInv, TypeOK, PublishCheck
  <2> QED
    BY <2>1, <2>2
<1> QED
  BY <1>4, <1>5, <1>6, <1>7, <1>9, RecordsStay DEF IInv

(* The bundle is there before the record that names it. *)
LEMMA SaveBundleIInv ==
    ASSUME IInv, NEW p \in Procs, SaveBundle(p)
    PROVE  IInv'
<1> DEFINE d == draft[p]
<1>1. d \in Histories /\ d # <<>> /\ ExtendsHead(d)
  BY DEF IInv, TypeOK, SaveBundle, WriterKnows, WriterKnowsAt, ExtendsHead
<1>2. records' = records /\ bundles' = bundles \cup {BundleOf(d)} /\ draft' = draft
  BY DEF SaveBundle
<1>3. BundleOf(d) \in Seq([Keys -> Entries]) \ {<<>>}
  <2>1. Len(d) # 0
    BY <1>1 DEF Histories
  <2> QED
    BY <1>1, <2>1, BundleTyped
<1>4. TypeOK'
  BY <1>3 DEF IInv, TypeOK, SaveBundle, Publishing
<1>5. WriterExclusion'
  BY DEF IInv, TypeOK, WriterExclusion, SaveBundle, Publishing
<1>6. ObjectsReplayed' /\ CheckpointReplayed'
  BY DEF IInv, TypeOK, ObjectsReplayed, CheckpointReplayed, SaveBundle
<1>7. WriterKnows'
  <2> SUFFICES ASSUME NEW q \in Procs PROVE WriterKnowsAt(q)'
    BY DEF WriterKnows
  <2>1. CASE q = p
    <3>1. ExtendsHead(d)'
      BY <1>1, <1>2, RecordsStay
    <3>2. draft'[q] = d /\ pc'[q] = "saved"
      BY <1>2, <2>1 DEF IInv, TypeOK, SaveBundle
    <3> QED
      BY <1>2, <3>1, <3>2 DEF WriterKnowsAt, ExtendsHead
  <2>2. CASE q # p
    BY <1>2, <2>2, WriterStillKnows DEF IInv, TypeOK, SaveBundle
  <2> QED
    BY <2>1, <2>2
<1> QED
  BY <1>2, <1>4, <1>5, <1>6, <1>7, RecordsStay DEF IInv

(* A rotation that follows what the directory replays to, with its bundle    *)
(* in place, replays with it.                                                *)
LEMMA ReplaysLonger ==
    ASSUME NEW h \in Histories, NEW r \in Rotations, Replays(h), Follows(h, r),
           BundleOf(Append(h, r)) \in bundles, bundles' = bundles,
           records' = records \cup {Append(h, r)}
    PROVE  Replays(Append(h, r))'
<1> DEFINE d == Append(h, r)
           n == Len(h)
<1>1. /\ d \in Histories /\ d # <<>> /\ Len(d) = n + 1 /\ d[n + 1] = r
      /\ \A i \in 1..n : d[i] = h[i]
      /\ \A i \in 1..n : SubSeq(d, 1, i) = SubSeq(h, 1, i)
      /\ PrefixesOf(d) = PrefixesOf(h) \cup {d}
  BY AppendAddsOne DEF Histories
<1>2. n \in Nat /\ n >= 1
  BY DEF Histories, Replays
<1>3. records' = {SubSeq(d, 1, i) : i \in 1..Len(d)}
  BY <1>1, ReplaysToChain DEF PrefixesOf
<1>4. \A i \in 1..Len(d) : BundleOf(SubSeq(d, 1, i)) \in bundles'
  <2>1. SubSeq(d, 1, Len(d)) = d
    BY <1>1, WholeIsPrefix DEF Histories
  <2>2. \A i \in 1..n : BundleOf(SubSeq(d, 1, i)) \in bundles
    BY <1>1 DEF Replays
  <2>3. \A i \in 1..Len(d) : i \in 1..n \/ i = Len(d)
    BY <1>1, <1>2
  <2> QED
    BY <2>1, <2>2, <2>3
<1>5. ValidTable(d[1].table) /\ d[1].signers = {}
  BY <1>1, <1>2 DEF Replays
<1>6. ASSUME NEW i \in 2..Len(d)
      PROVE  ValidSuccessor(d[i - 1].table, d[i].table) /\ Approves(d[i].signers, d[i - 1].table, i)
  <2>1. CASE i \in 2..n
    <3>1. d[i - 1] = h[i - 1] /\ d[i] = h[i]
      BY <1>1, <1>2, <2>1
    <3> QED
      BY <2>1, <3>1 DEF Replays
  <2>2. CASE i = n + 1
    <3>1. d[i - 1] = Last(h) /\ d[i] = r
      BY <1>1, <1>2, <2>2 DEF Last
    <3> QED
      BY <2>2, <3>1 DEF Follows
  <2> QED
    BY <1>1, <1>2, <2>1, <2>2
<1> QED
  BY <1>1, <1>3, <1>4, <1>5, <1>6 DEF Replays

(* The permitted changes of a key in use compose. *)
LEMMA RotationsTransitive ==
    ASSUME NEW a \in Entries, NEW b \in Entries, NEW c \in Entries,
           a.state \notin {"absent", "pending"},
           ValidRotation(a, b), ValidRotation(b, c)
    PROVE  ValidRotation(a, c) /\ b.state \notin {"absent", "pending"}
  BY DEF ValidRotation, StateTransitions, Entries, KeyStates

(* The rename of the record: the directory replays to the draft. *)
LEMMA CommitRecordIInv ==
    ASSUME IInv, NEW p \in Procs, CommitRecord(p)
    PROVE  IInv'
<1> DEFINE d == draft[p]
           r == Last(d)
<1>1. /\ d \in Histories /\ d # <<>> /\ BundleOf(d) \in bundles
      /\ \E h \in records : Replays(h) /\ d = Append(h, r) /\ Follows(h, r)
  BY DEF IInv, TypeOK, CommitRecord, WriterKnows, WriterKnowsAt, ExtendsHead
<1>2. PICK h \in records : Replays(h) /\ d = Append(h, r) /\ Follows(h, r)
  BY <1>1
<1>3. h \in Histories /\ r \in Rotations
  BY <1>1 DEF IInv, TypeOK, Histories, Last
<1>4. /\ records' = records \cup {d} /\ bundles' = bundles /\ draft' = draft
      /\ pc' = [pc EXCEPT ![p] = "committed"]
  BY DEF CommitRecord
<1>5. Replays(d)'
  <2>1. Replays(Append(h, r))'
    BY <1>1, <1>2, <1>3, <1>4, ReplaysLonger
  <2> QED
    BY <1>2, <1>4, <2>1 DEF Replays
<1>6. TypeOK'
  BY <1>1, <1>4 DEF IInv, TypeOK, CommitRecord, Publishing
<1>7. WriterExclusion'
  BY DEF IInv, TypeOK, WriterExclusion, CommitRecord, Publishing
<1>8. HistoryReplays'
  BY <1>4, <1>5 DEF HistoryReplays
<1>9. ObjectsReplayed' /\ CheckpointReplayed'
  BY DEF IInv, TypeOK, ObjectsReplayed, CheckpointReplayed, CommitRecord
<1>10. WriterKnows'
  <2> SUFFICES ASSUME NEW q \in Procs PROVE WriterKnowsAt(q)'
    BY DEF WriterKnows
  <2>1. CASE q = p
    BY <1>4, <1>5, <2>1 DEF IInv, TypeOK, WriterKnowsAt
  <2>2. CASE q # p
    <3>1. pc[p] \in Publishing
      BY DEF CommitRecord, Publishing
    <3>2. pc[q] \notin Publishing
      BY <2>2, <3>1 DEF IInv, WriterExclusion
    <3>3. pc'[q] = pc[q]
      BY <1>4, <2>2 DEF IInv, TypeOK
    <3> QED
      BY <3>2, <3>3 DEF WriterKnowsAt, Publishing
  <2> QED
    BY <2>1, <2>2
<1>11. RotationsCompose'
  <2>1. /\ Len(d) = Len(h) + 1 /\ d[Len(h) + 1] = r /\ Len(h) \in Nat
        /\ \A i \in 1..Len(h) : d[i] = h[i]
    BY <1>2, <1>3, AppendAddsOne DEF Histories
  <2>2. ValidSuccessor(Last(h).table, r.table) /\ Last(h) = h[Len(h)]
    BY <1>2 DEF Follows, Last
  <2>3. ASSUME NEW i \in 1..Len(d), NEW j \in 1..Len(d), NEW k \in Keys,
               i < j, d[i].table[k].state \notin {"absent", "pending"}
        PROVE  ValidRotation(d[i].table[k], d[j].table[k])
    <3>1. CASE j \in 1..Len(h)
      <4>1. d[i] = h[i] /\ d[j] = h[j] /\ i \in 1..Len(h)
        BY <2>1, <2>3, <3>1
      <4> QED
        BY <2>3, <3>1, <4>1 DEF IInv, RotationsCompose
    <3>2. CASE j = Len(h) + 1
      <4>1. d[i] = h[i] /\ d[j] = r /\ i \in 1..Len(h) /\ Len(h) \in 1..Len(h)
        BY <2>1, <2>3, <3>2
      <4>2. /\ h[i].table[k] \in Entries /\ Last(h).table[k] \in Entries
            /\ r.table[k] \in Entries
        BY <1>3, <2>2, <4>1, RotationTyped DEF Rotations
      <4>3. ASSUME Last(h).table[k] # Absent PROVE ValidRotation(Last(h).table[k], r.table[k])
        BY <2>2, <4>3 DEF ValidSuccessor
      <4>4. CASE i = Len(h)
        <5>1. Last(h).table[k] # Absent
          BY <2>2, <2>3, <4>1, <4>4 DEF Absent
        <5> QED
          BY <2>2, <4>1, <4>3, <4>4, <5>1
      <4>5. CASE i < Len(h)
        <5>1. ValidRotation(h[i].table[k], Last(h).table[k])
          BY <2>2, <2>3, <4>1, <4>5 DEF IInv, RotationsCompose
        <5>2. Last(h).table[k].state \notin {"absent", "pending"}
          BY <2>3, <4>1, <4>2, <5>1 DEF ValidRotation, StateTransitions
        <5>3. Last(h).table[k] # Absent
          BY <5>2 DEF Absent
        <5>4. ValidRotation(Last(h).table[k], r.table[k])
          BY <4>3, <5>3
        <5> QED
          BY <2>3, <4>1, <4>2, <5>1, <5>4, RotationsTransitive
      <4> QED
        BY <2>1, <4>1, <4>4, <4>5
    <3> QED
      BY <2>1, <3>1, <3>2
  <2> QED
    BY <1>4, <2>3 DEF IInv, RotationsCompose
<1> QED
  BY <1>6, <1>7, <1>8, <1>9, <1>10, <1>11 DEF IInv

(* The object becomes what it has just written. *)
LEMMA PublishReturnsIInv ==
    ASSUME IInv, NEW p \in Procs, PublishReturns(p)
    PROVE  IInv'
<1>1. /\ records' = records /\ bundles' = bundles
      /\ draft' = [draft EXCEPT ![p] = <<>>] /\ pc' = [pc EXCEPT ![p] = "open"]
  BY DEF PublishReturns
<1>2. draft[p] \in Histories /\ draft[p] \in records
  <2>1. draft[p] \in Histories
    BY DEF IInv, TypeOK
  <2>2. Replays(draft[p])
    BY DEF IInv, WriterKnows, WriterKnowsAt, PublishReturns
  <2> QED
    BY <2>1, <2>2, ReplaysToChain
<1>3. TypeOK'
  <2>1. <<>> \in Histories
    BY DEF Histories
  <2> QED
    BY <1>2, <2>1 DEF IInv, TypeOK, PublishReturns
<1>4. WriterExclusion'
  BY DEF IInv, TypeOK, WriterExclusion, PublishReturns, Publishing
<1>5. ObjectsReplayed' /\ CheckpointReplayed'
  BY <1>2 DEF IInv, TypeOK, ObjectsReplayed, CheckpointReplayed, PublishReturns
<1>6. WriterKnows'
  <2> SUFFICES ASSUME NEW q \in Procs PROVE WriterKnowsAt(q)'
    BY DEF WriterKnows
  <2>1. CASE q = p
    BY <1>1, <2>1 DEF IInv, TypeOK, WriterKnowsAt
  <2>2. CASE q # p
    BY <1>1, <2>2, WriterStillKnows DEF IInv, TypeOK
  <2> QED
    BY <2>1, <2>2
<1> QED
  BY <1>1, <1>3, <1>4, <1>5, <1>6, RecordsStay DEF IInv

(* A call that fails leaves at most a bundle that no record names. *)
LEMMA PublishFailsIInv ==
    ASSUME IInv, NEW p \in Procs, PublishFails(p)
    PROVE  IInv'
<1>1. /\ records' = records /\ bundles' = bundles
      /\ draft' = [draft EXCEPT ![p] = <<>>] /\ pc' = [pc EXCEPT ![p] = "open"]
  BY DEF PublishFails
<1>2. TypeOK'
  <2>1. <<>> \in Histories
    BY DEF Histories
  <2> QED
    BY <2>1 DEF IInv, TypeOK, PublishFails
<1>3. WriterExclusion'
  BY DEF IInv, TypeOK, WriterExclusion, PublishFails, Publishing
<1>4. ObjectsReplayed' /\ CheckpointReplayed'
  BY DEF IInv, TypeOK, ObjectsReplayed, CheckpointReplayed, PublishFails
<1>5. WriterKnows'
  <2> SUFFICES ASSUME NEW q \in Procs PROVE WriterKnowsAt(q)'
    BY DEF WriterKnows
  <2>1. CASE q = p
    BY <1>1, <2>1 DEF IInv, TypeOK, WriterKnowsAt
  <2>2. CASE q # p
    BY <1>1, <2>2, WriterStillKnows DEF IInv, TypeOK
  <2> QED
    BY <2>1, <2>2
<1> QED
  BY <1>1, <1>2, <1>3, <1>4, <1>5, RecordsStay DEF IInv

(* Steps that move no process: a checkpoint of an object's head is signed, a *)
(* lock that nobody holds is removed, or nothing happens.                    *)
LEMMA WritersUndisturbed ==
    ASSUME IInv, UNCHANGED <<records, bundles, pc, handle, draft>>
    PROVE  HistoryReplays' /\ ObjectsReplayed' /\ WriterKnows' /\ RotationsCompose'
<1>1. HistoryReplays' /\ RotationsCompose'
  BY RecordsStay DEF IInv
<1>2. ObjectsReplayed'
  BY DEF IInv, ObjectsReplayed
<1>3. WriterKnows'
  BY WriterStillKnows DEF IInv, WriterKnows
<1> QED
  BY <1>1, <1>2, <1>3

LEMMA AssembleCheckpointIInv ==
    ASSUME IInv, NEW p \in Procs, NEW signers \in SUBSET Keys, AssembleCheckpoint(p, signers)
    PROVE  IInv'
<1>1. handle[p] \in Histories /\ handle[p] \in records
  BY DEF IInv, TypeOK, ObjectsReplayed, AssembleCheckpoint
<1>2. TypeOK'
  BY <1>1 DEF IInv, TypeOK, AssembleCheckpoint
<1>3. WriterExclusion' /\ CheckpointReplayed'
  BY <1>1 DEF IInv, WriterExclusion, CheckpointReplayed, AssembleCheckpoint
<1>4. UNCHANGED <<records, bundles, pc, handle, draft>>
  BY DEF AssembleCheckpoint
<1> QED
  BY <1>2, <1>3, <1>4, WritersUndisturbed DEF IInv

LEMMA OperatorClearsLockIInv ==
    ASSUME IInv, OperatorClearsLock
    PROVE  IInv'
<1>1. TypeOK'
  BY DEF IInv, TypeOK, OperatorClearsLock
<1>2. WriterExclusion' /\ CheckpointReplayed'
  BY DEF IInv, WriterExclusion, CheckpointReplayed, OperatorClearsLock
<1>3. UNCHANGED <<records, bundles, pc, handle, draft>>
  BY DEF OperatorClearsLock
<1> QED
  BY <1>1, <1>2, <1>3, WritersUndisturbed DEF IInv

LEMMA StutterIInv ==
    ASSUME IInv, UNCHANGED vars
    PROVE  IInv'
<1>1. TypeOK'
  BY DEF IInv, TypeOK, vars
<1>2. WriterExclusion' /\ CheckpointReplayed'
  BY DEF IInv, WriterExclusion, CheckpointReplayed, vars
<1>3. UNCHANGED <<records, bundles, pc, handle, draft>>
  BY DEF vars
<1> QED
  BY <1>1, <1>2, <1>3, WritersUndisturbed DEF IInv

(* open() with a checkpoint changes what open() with its head would. *)
LEMMA OpenAtCheckpointIInv ==
    ASSUME IInv, NEW p \in Procs, OpenAtCheckpoint(p)
    PROVE  IInv'
<1>1. checkpoint.history \in Histories
  BY DEF IInv, TypeOK
<1>2. Open(p, checkpoint.history)
  BY DEF OpenAtCheckpoint, Open
<1> QED
  BY <1>1, <1>2, OpenIInv

(* A crash loses the object; the lock and the files stay. *)
LEMMA CrashIInv ==
    ASSUME IInv, NEW p \in Procs, Crash(p)
    PROVE  IInv'
<1>1. /\ records' = records /\ bundles' = bundles
      /\ draft' = [draft EXCEPT ![p] = <<>>] /\ pc' = [pc EXCEPT ![p] = "closed"]
  BY DEF Crash
<1>2. TypeOK'
  <2>1. <<>> \in Histories
    BY DEF Histories
  <2> QED
    BY <2>1 DEF IInv, TypeOK, Crash
<1>3. WriterExclusion'
  BY DEF IInv, TypeOK, WriterExclusion, Crash, Publishing
<1>4. ObjectsReplayed' /\ CheckpointReplayed'
  BY DEF IInv, TypeOK, ObjectsReplayed, CheckpointReplayed, Crash
<1>5. WriterKnows'
  <2> SUFFICES ASSUME NEW q \in Procs PROVE WriterKnowsAt(q)'
    BY DEF WriterKnows
  <2>1. CASE q = p
    BY <1>1, <2>1 DEF IInv, TypeOK, WriterKnowsAt
  <2>2. CASE q # p
    BY <1>1, <2>2, WriterStillKnows DEF IInv, TypeOK
  <2> QED
    BY <2>1, <2>2
<1> QED
  BY <1>1, <1>2, <1>3, <1>4, <1>5, RecordsStay DEF IInv

LEMMA NextIInv == IInv /\ [Next]_vars => IInv'
<1> SUFFICES ASSUME IInv, [Next]_vars PROVE IInv'
  OBVIOUS
<1>1. ASSUME NEW p \in Procs, NEW t \in Roots, Create(p, t) PROVE IInv'
  BY <1>1, CreateIInv
<1>2. ASSUME NEW p \in Procs, NEW h \in records, Open(p, h) PROVE IInv'
  <2>1. h \in Histories
    BY DEF IInv, TypeOK
  <2> QED
    BY <1>2, <2>1, OpenIInv
<1>3. ASSUME NEW p \in Procs, Publish(p) PROVE IInv'
  BY <1>3, PublishCheckIInv, SaveBundleIInv, CommitRecordIInv, PublishReturnsIInv,
     PublishFailsIInv DEF Publish
<1>4. ASSUME NEW p \in Procs, NEW signers \in SUBSET Keys, AssembleCheckpoint(p, signers)
      PROVE  IInv'
  BY <1>4, AssembleCheckpointIInv
<1>5. ASSUME NEW p \in Procs, OpenAtCheckpoint(p) \/ Crash(p) PROVE IInv'
  BY <1>5, OpenAtCheckpointIInv, CrashIInv
<1>6. CASE OperatorClearsLock
  BY <1>6, OperatorClearsLockIInv
<1>7. CASE UNCHANGED vars
  BY <1>7, StutterIInv
<1> QED
  BY <1>1, <1>2, <1>3, <1>4, <1>5, <1>6, <1>7 DEF Next

THEOREM Invariance == Spec => []IInv
  BY InitIInv, NextIInv, PTL DEF Spec

-----------------------------------------------------------------------------
(* What the files, objects and checkpoints hold has its type, at every       *)
(* moment of create(), open(), publish() and the checkpoint functions.       *)
THEOREM TypeCorrect == Spec => []TypeOK
<1>1. IInv => TypeOK
  BY DEF IInv
<1> QED
  BY Invariance, <1>1, PTL

(* open() accepts whatever publish(), interrupted anywhere by a failure or a *)
(* crash, by one process or by several, has left behind.                     *)
THEOREM AlwaysReplays == Spec => []HistoryReplays
<1>1. IInv => HistoryReplays
  BY DEF IInv
<1> QED
  BY Invariance, <1>1, PTL

(* No two objects, however old, and no checkpoint are on different branches  *)
(* of the history: all are beginnings of the chain that the directory        *)
(* replays to.                                                               *)
THEOREM NoForks == Spec => []NeverForks
<1>1. IInv => NeverForks
  <2> SUFFICES ASSUME IInv PROVE NeverForks
    OBVIOUS
  <2> DEFINE Held == {handle[p] : p \in Procs} \cup {checkpoint.history}
  <2>1. \A g \in Held : g \in Histories /\ (g = <<>> \/ g \in records)
    BY DEF IInv, TypeOK, ObjectsReplayed, CheckpointReplayed
  <2>2. SUFFICES ASSUME NEW g \in Held, NEW h \in Held
                 PROVE  IsPrefixOf(g, h) \/ IsPrefixOf(h, g)
    BY DEF NeverForks
  <2>3. ASSUME NEW s \in Histories PROVE IsPrefixOf(<<>>, s)
    BY <2>3 DEF IsPrefixOf, Histories
  <2>4. CASE g = <<>> \/ h = <<>>
    BY <2>1, <2>3, <2>4
  <2>5. CASE g \in records /\ h \in records
    <3>1. PICK c \in Histories : records = PrefixesOf(c)
      <4>1. PICK c \in records : Replays(c)
        BY <2>5 DEF IInv, HistoryReplays
      <4>2. c \in Histories
        BY DEF IInv, TypeOK
      <4> QED
        BY <4>1, <4>2, ReplaysToChain
    <3>2. Len(g) <= Len(h) => SubSeq(h, 1, Len(g)) = g
      BY <2>5, <3>1, PrefixesAreOrdered DEF Histories
    <3>3. Len(h) <= Len(g) => SubSeq(g, 1, Len(h)) = h
      BY <2>5, <3>1, PrefixesAreOrdered DEF Histories
    <3>4. Len(g) \in Nat /\ Len(h) \in Nat
      BY <2>1 DEF Histories
    <3> QED
      BY <3>2, <3>3, <3>4 DEF IsPrefixOf
  <2> QED
    BY <2>1, <2>4, <2>5
<1> QED
  BY Invariance, <1>1, PTL

(* Whatever rotations are published, in however many steps and by whoever,   *)
(* a key that has been in use regains no sequence number that it had lost.   *)
THEOREM TrustNeverReturns == Spec => []TrustOnlyShrinks
<1>1. IInv => TrustOnlyShrinks
  <2> SUFFICES ASSUME IInv, NEW h \in records, NEW i \in 1..Len(h), NEW j \in 1..Len(h),
                      NEW k \in Keys, i < j, h[i].table[k].state \notin {"absent", "pending"},
                      NEW n \in 1..(MaxLength + 1), TrustedAt(k, h[j].table[k], n)
               PROVE  TrustedAt(k, h[i].table[k], n)
    BY DEF TrustOnlyShrinks
  <2>1. ValidRotation(h[i].table[k], h[j].table[k])
    BY DEF IInv, RotationsCompose
  <2>2. h[i].table[k] \in Entries /\ h[j].table[k] \in Entries
    BY RotationTyped DEF IInv, TypeOK
  <2>3. n \in Nat /\ ValidFrom[k] \in Nat
    BY BoundsAssumption, ValidFromAssumption
  <2> QED
    BY <2>1, <2>2, <2>3
       DEF ValidRotation, StateTransitions, TrustedAt, InWindow, Entries, KeyStates
<1> QED
  BY Invariance, <1>1, PTL

-----------------------------------------------------------------------------
(* Reservation agreements (coordination_reservation.cpp), which rest on       *)
(* histories and on the trust in the keys of their publishers.                *)
CONSTANTS Deployments, Publishers, Branches, Plans, Separated, Horizon, Program, Copied,
          KeyTables, MaxRounds

VARIABLES chain, tables, candidate, accepted

Agreements == INSTANCE ReservationAgreement WITH Rotations <- KeyTables, bundles <- tables

Publications ==
    [plan : {Program[n].plan : n \in Nat}, from : {Program[n].from : n \in Nat},
     through : {Program[n].through : n \in Nat}, key : Keys, bundle : Nat \ {0}]

(* What a member states in an agreement. *)
IsAgreement(a) ==
    /\ a.publisher \in [Deployments -> Publishers]
    /\ a.head \in [Deployments -> Seq(Publications)]
    /\ a.trust \in [Deployments -> Nat \ {0}]

Branching == [Deployments -> Branches]
Replayed(a) == \E branch \in Branching : Agreements!Verifies(a, branch)

(* b is a later round of a's members. *)
Extends(a, b) ==
    \A d \in Deployments :
        /\ b.publisher[d] = a.publisher[d]
        /\ Agreements!IsPrefixOf(a.head[d], b.head[d])
        /\ a.head[d] # b.head[d]
        /\ a.trust[d] <= b.trust[d]

AgreementInv ==
    /\ chain \in [Publishers -> [Branches -> Seq(Publications)]]
    /\ tables \in [Publishers -> [Branches -> Nat \ {0}]]
    /\ candidate # Agreements!NoAgreement => IsAgreement(candidate) /\ Replayed(candidate)
    /\ \E S : accepted \in Seq(S)
    /\ \A i \in 1..Len(accepted) : IsAgreement(accepted[i]) /\ Replayed(accepted[i])
    /\ \A i, j \in 1..Len(accepted) : i < j => Extends(accepted[i], accepted[j])

LEMMA PrefixesOf3 ==
    ASSUME NEW a \in Seq(Publications), NEW b \in Seq(Publications), NEW c \in Seq(Publications)
    PROVE  /\ Agreements!IsPrefixOf(a, b) /\ Agreements!IsPrefixOf(b, c) => Agreements!IsPrefixOf(a, c)
           /\ Agreements!IsPrefixOf(a, c) /\ Agreements!IsPrefixOf(b, c) /\ Len(a) <= Len(b) =>
                 Agreements!IsPrefixOf(a, b)
           /\ Agreements!IsPrefixOf(a, b) => Len(a) <= Len(b)
           /\ Agreements!IsPrefixOf(a, <<>>) => a = <<>>
<1>1. ASSUME Len(a) <= Len(b), Len(b) <= Len(c), SubSeq(c, 1, Len(b)) = b
      PROVE  SubSeq(b, 1, Len(a)) = SubSeq(c, 1, Len(a))
  <2>1. SubSeq(SubSeq(c, 1, Len(b)), 1, Len(a)) = SubSeq(c, 1, Len(a))
    BY <1>1
  <2> QED
    BY <1>1, <2>1
<1>2. Len(a) \in Nat /\ Len(b) \in Nat /\ Len(c) \in Nat /\ Len(<<>>) = 0
  OBVIOUS
<1>3. Len(a) <= 0 => a = <<>>
  OBVIOUS
<1> QED
  BY <1>1, <1>2, <1>3 DEF Agreements!IsPrefixOf

(* While histories only grow, what was replayed replays. *)
LEMMA ReplayedStays ==
    ASSUME AgreementInv,
           \A u \in Publishers, b \in Branches :
              /\ chain[u][b] # <<>> => Agreements!IsPrefixOf(chain[u][b], chain'[u][b])
                                       /\ tables[u][b] <= tables'[u][b],
           chain' \in [Publishers -> [Branches -> Seq(Publications)]],
           tables' \in [Publishers -> [Branches -> Nat \ {0}]],
           NEW a, IsAgreement(a), Replayed(a)
    PROVE  Replayed(a)'
<1>1. PICK branch \in Branching : Agreements!Verifies(a, branch)
  BY DEF Replayed
<1>2. ASSUME NEW d \in Deployments
      PROVE  Agreements!Participates(a.publisher[d], branch[d], a.head[d], a.trust[d], a.tick)'
  <2> DEFINE u == a.publisher[d]
             b == branch[d]
  <2>1. /\ a.head[d] # <<>> /\ Agreements!IsPrefixOf(a.head[d], chain[u][b])
        /\ a.trust[d] \in 1..tables[u][b]
        /\ Agreements!LastOf(a.head[d]).bundle <= a.trust[d]
        /\ Agreements!VerifiedAt(u, a.head[d], a.tick)
    BY <1>1 DEF Agreements!Verifies, Agreements!Participates
  <2>2. /\ u \in Publishers /\ b \in Branches /\ a.head[d] \in Seq(Publications)
        /\ chain[u][b] \in Seq(Publications) /\ chain'[u][b] \in Seq(Publications)
        /\ tables[u][b] \in Nat \ {0} /\ tables'[u][b] \in Nat \ {0} /\ a.trust[d] \in Nat \ {0}
    BY <1>1 DEF Branching, IsAgreement, AgreementInv
  <2> HIDE DEF u, b
  <2>3. chain[u][b] # <<>>
    BY <2>1, <2>2, PrefixesOf3
  <2>4. Agreements!IsPrefixOf(a.head[d], chain'[u][b]) /\ tables[u][b] <= tables'[u][b]
    BY <2>1, <2>2, <2>3, PrefixesOf3
  <2>5. a.trust[d] \in 1..tables'[u][b]
    BY <2>1, <2>2, <2>4
  <2> QED
    BY <2>1, <2>4, <2>5
       DEF Agreements!Participates, Agreements!IsPrefixOf, Agreements!VerifiedAt, Agreements!LastOf,
           Agreements!Within, u, b
<1>3. (a.plan \in Separated /\ Agreements!ValidAgreement(a)
         /\ \A d \in Deployments : Agreements!LastOf(a.head[d]).plan = a.plan)'
  BY <1>1 DEF Agreements!Verifies, Agreements!ValidAgreement, Agreements!LastOf, Agreements!Within
<1>4. Agreements!Verifies(a, branch)'
  BY <1>2, <1>3 DEF Agreements!Verifies
<1>5. Branching' = Branching
  BY DEF Branching
<1> QED
  BY <1>4, <1>5 DEF Replayed

(* A history grows, a bundle follows or a history is copied: what was made    *)
(* and accepted stays.                                                        *)
LEMMA HistoriesGrow ==
    ASSUME AgreementInv, UNCHANGED <<candidate, accepted>>,
           \A u \in Publishers, b \in Branches :
              /\ chain[u][b] # <<>> => Agreements!IsPrefixOf(chain[u][b], chain'[u][b])
                                       /\ tables[u][b] <= tables'[u][b],
           chain' \in [Publishers -> [Branches -> Seq(Publications)]],
           tables' \in [Publishers -> [Branches -> Nat \ {0}]]
    PROVE  AgreementInv'
<1>1. candidate # Agreements!NoAgreement => IsAgreement(candidate) /\ Replayed(candidate)'
  <2>1. PICK a : a = candidate
    OBVIOUS
  <2>2. a # Agreements!NoAgreement => IsAgreement(a) /\ Replayed(a)
    BY <2>1 DEF AgreementInv
  <2>3. a # Agreements!NoAgreement => Replayed(a)'
    BY <2>2, ReplayedStays
  <2>4. candidate' = a
    BY <2>1
  <2> QED
    BY <2>1, <2>2, <2>3, <2>4 DEF Replayed, Agreements!Verifies, Agreements!ValidAgreement
<1>2. ASSUME NEW i \in 1..Len(accepted)
      PROVE  IsAgreement(accepted[i]) /\ Replayed(accepted[i])'
  <2>1. PICK a : a = accepted[i]
    OBVIOUS
  <2>2. IsAgreement(a) /\ Replayed(a)
    BY <2>1 DEF AgreementInv
  <2>3. Replayed(a)'
    BY <2>2, ReplayedStays
  <2>4. (accepted[i])' = a
    BY <2>1
  <2> QED
    BY <2>1, <2>2, <2>3, <2>4 DEF Replayed, Agreements!Verifies, Agreements!ValidAgreement
<1>3. /\ \E S : accepted \in Seq(S)
      /\ \A i, j \in 1..Len(accepted) : i < j => Extends(accepted[i], accepted[j])
  BY DEF AgreementInv
<1>4. \A i \in 1..Len(accepted) : IsAgreement(accepted[i])' <=> IsAgreement(accepted[i])
  BY DEF IsAgreement, Publications
<1>5. IsAgreement(candidate)' <=> IsAgreement(candidate)
  BY DEF IsAgreement, Publications
<1>6. (\A i, j \in 1..Len(accepted) : i < j => Extends(accepted[i], accepted[j]))'
  BY <1>3 DEF Extends, Agreements!IsPrefixOf
<1> QED
  BY <1>1, <1>2, <1>3, <1>4, <1>5, <1>6 DEF AgreementInv, Agreements!NoAgreement

LEMMA AgreementInit ==
    ASSUME Agreements!Init
    PROVE  AgreementInv
<1>1. /\ chain = [u \in Publishers |-> [b \in Branches |-> <<>>]]
      /\ tables = [u \in Publishers |-> [b \in Branches |-> 1]]
      /\ candidate = Agreements!NoAgreement /\ accepted = <<>>
  BY DEF Agreements!Init
<1>2. <<>> \in Seq(Publications) /\ Len(<<>>) = 0 /\ 1..0 = {}
  OBVIOUS
<1>3. /\ chain \in [Publishers -> [Branches -> Seq(Publications)]]
      /\ tables \in [Publishers -> [Branches -> Nat \ {0}]]
  BY <1>1, <1>2
<1>4. accepted \in Seq(Publications) /\ 1..Len(accepted) = {}
  BY <1>1, <1>2
<1> QED
  BY <1>1, <1>3, <1>4 DEF AgreementInv

LEMMA AgreementPublish ==
    ASSUME AgreementInv, NEW u \in Publishers, NEW b \in Branches, NEW key \in Keys,
           Agreements!Publish(u, b, key)
    PROVE  AgreementInv'
<1> DEFINE n == Len(chain[u][b]) + 1
<1>1. /\ chain \in [Publishers -> [Branches -> Seq(Publications)]]
      /\ tables \in [Publishers -> [Branches -> Nat \ {0}]]
      /\ chain[u][b] \in Seq(Publications) /\ tables[u][b] \in Nat \ {0} /\ n \in Nat
  BY DEF AgreementInv
<1> PICK publication :
       publication = [plan |-> Program[n].plan, from |-> Program[n].from,
                      through |-> Program[n].through, key |-> key, bundle |-> tables[u][b]]
  OBVIOUS
<1>2. publication \in Publications
  BY <1>1 DEF Publications
<1>3. /\ chain' = [chain EXCEPT ![u][b] = Append(@, publication)]
      /\ UNCHANGED <<tables, candidate, accepted>>
  BY DEF Agreements!Publish
<1>4. Append(chain[u][b], publication) \in Seq(Publications)
  BY <1>1, <1>2
<1>5. /\ chain' \in [Publishers -> [Branches -> Seq(Publications)]]
      /\ \A v \in Publishers, c \in Branches :
            chain'[v][c] = IF v = u /\ c = b THEN Append(chain[u][b], publication) ELSE chain[v][c]
  BY <1>1, <1>3, <1>4
<1>6. ASSUME NEW v \in Publishers, NEW c \in Branches
      PROVE  /\ Agreements!IsPrefixOf(chain[v][c], chain'[v][c]) /\ tables[v][c] <= tables'[v][c]
  <2>1. chain[v][c] \in Seq(Publications) /\ tables[v][c] \in Nat
    BY <1>1
  <2>2. CASE v = u /\ c = b
    <3> PICK s \in Seq(Publications) : s = chain[u][b]
      BY <1>1
    <3>1. Len(s) <= Len(Append(s, publication)) /\ SubSeq(Append(s, publication), 1, Len(s)) = s
      BY <1>2
    <3> QED
      BY <1>3, <1>5, <2>1, <2>2, <3>1 DEF Agreements!IsPrefixOf
  <2>3. CASE ~(v = u /\ c = b)
    BY <1>3, <1>5, <2>1, <2>3 DEF Agreements!IsPrefixOf
  <2> QED
    BY <2>2, <2>3
<1>7. tables' \in [Publishers -> [Branches -> Nat \ {0}]]
  BY <1>1, <1>3
<1> QED
  BY <1>3, <1>5, <1>6, <1>7, HistoriesGrow

LEMMA AgreementRotate ==
    ASSUME AgreementInv, NEW u \in Publishers, NEW b \in Branches, Agreements!RotateTrust(u, b)
    PROVE  AgreementInv'
<1>1. /\ chain \in [Publishers -> [Branches -> Seq(Publications)]]
      /\ tables \in [Publishers -> [Branches -> Nat \ {0}]]
      /\ tables' = [tables EXCEPT ![u][b] = @ + 1] /\ UNCHANGED <<chain, candidate, accepted>>
  BY DEF AgreementInv, Agreements!RotateTrust
<1>2. /\ tables' \in [Publishers -> [Branches -> Nat \ {0}]]
      /\ \A v \in Publishers, c \in Branches :
            tables'[v][c] = tables[v][c] \/ tables'[v][c] = tables[v][c] + 1
  BY <1>1
<1>3. ASSUME NEW v \in Publishers, NEW c \in Branches
      PROVE  Agreements!IsPrefixOf(chain[v][c], chain'[v][c]) /\ tables[v][c] <= tables'[v][c]
  <2>1. chain[v][c] \in Seq(Publications) /\ tables[v][c] \in Nat
    BY <1>1
  <2> QED
    BY <1>1, <1>2, <2>1 DEF Agreements!IsPrefixOf
<1> QED
  BY <1>1, <1>2, <1>3, HistoriesGrow

LEMMA AgreementCopy ==
    ASSUME AgreementInv, NEW u \in Publishers, NEW b \in Branches, NEW c \in Branches,
           Agreements!CopyHistory(u, b, c)
    PROVE  AgreementInv'
<1>1. /\ chain \in [Publishers -> [Branches -> Seq(Publications)]]
      /\ tables \in [Publishers -> [Branches -> Nat \ {0}]]
      /\ chain[u][c] = <<>>
      /\ chain' = [chain EXCEPT ![u][c] = chain[u][b]]
      /\ tables' = [tables EXCEPT ![u][c] = tables[u][b]] /\ UNCHANGED <<candidate, accepted>>
  BY DEF AgreementInv, Agreements!CopyHistory
<1>2. /\ chain' \in [Publishers -> [Branches -> Seq(Publications)]]
      /\ tables' \in [Publishers -> [Branches -> Nat \ {0}]]
  BY <1>1
<1>3. ASSUME NEW v \in Publishers, NEW d \in Branches, chain[v][d] # <<>>
      PROVE  Agreements!IsPrefixOf(chain[v][d], chain'[v][d]) /\ tables[v][d] <= tables'[v][d]
  <2>1. chain'[v][d] = chain[v][d] /\ tables'[v][d] = tables[v][d]
    BY <1>1, <1>3
  <2>2. chain[v][d] \in Seq(Publications) /\ tables[v][d] \in Nat
    BY <1>1
  <2> QED
    BY <2>1, <2>2 DEF Agreements!IsPrefixOf
<1> QED
  BY <1>1, <1>2, <1>3, HistoriesGrow

LEMMA ReplayedUnchanged ==
    ASSUME UNCHANGED <<chain, tables>>, NEW a, IsAgreement(a), Replayed(a)
    PROVE  IsAgreement(a)' /\ Replayed(a)'
BY DEF IsAgreement, Publications, Replayed, Branching, Agreements!Verifies,
       Agreements!Participates, Agreements!ValidAgreement, Agreements!IsPrefixOf,
       Agreements!VerifiedAt, Agreements!LastOf, Agreements!Within

LEMMA AgreementMake ==
    ASSUME AgreementInv, NEW branch \in Branching, NEW tick, NEW plan, NEW parent, NEW round,
           NEW publisher \in [Deployments -> Publishers],
           Agreements!Make(round, parent, tick, plan, publisher, branch)
    PROVE  AgreementInv'
<1> DEFINE head == [d \in Deployments |-> chain[publisher[d]][branch[d]]]
           trust == [d \in Deployments |-> tables[publisher[d]][branch[d]]]
<1> PICK a : a = Agreements!Agreement(round, parent, tick, plan, publisher, head, trust)
  OBVIOUS
<1>1. /\ plan \in Separated
      /\ \A d \in Deployments :
            /\ Agreements!Participates(publisher[d], branch[d], head[d], trust[d], tick)
            /\ Agreements!LastOf(head[d]).plan = plan
      /\ Agreements!ValidAgreement(a) /\ candidate' = a
      /\ UNCHANGED <<chain, tables, accepted>>
  BY DEF Agreements!Make
<1>2. /\ a.tick = tick /\ a.plan = plan /\ a.publisher = publisher /\ a.head = head /\ a.trust = trust
  BY DEF Agreements!Agreement
<1>3. /\ head \in [Deployments -> Seq(Publications)] /\ trust \in [Deployments -> Nat \ {0}]
  BY DEF AgreementInv, Branching
<1> HIDE DEF head, trust
<1>4. IsAgreement(a)
  BY <1>2, <1>3 DEF IsAgreement
<1>5. Agreements!Verifies(a, branch)
  BY <1>1, <1>2 DEF Agreements!Verifies
<1>6. Replayed(a)
  BY <1>5 DEF Replayed
<1>7. IsAgreement(a)' /\ Replayed(a)'
  BY <1>1, <1>4, <1>6, ReplayedUnchanged
<1>8. (IsAgreement(candidate) /\ Replayed(candidate))'
  BY <1>1, <1>7 DEF IsAgreement, Replayed, Agreements!Verifies, Agreements!ValidAgreement
<1>9. ASSUME NEW i \in 1..Len(accepted)
      PROVE  IsAgreement(accepted[i])' /\ Replayed(accepted[i])'
  <2>1. PICK b : b = accepted[i]
    OBVIOUS
  <2>2. IsAgreement(b) /\ Replayed(b)
    BY <2>1 DEF AgreementInv
  <2>3. IsAgreement(b)' /\ Replayed(b)'
    BY <1>1, <2>2, ReplayedUnchanged
  <2>4. (accepted[i])' = b
    BY <1>1, <2>1
  <2> QED
    BY <2>3, <2>4 DEF IsAgreement, Replayed, Agreements!Verifies, Agreements!ValidAgreement
<1>10. (\E S : accepted \in Seq(S))'
  BY <1>1 DEF AgreementInv
<1>11. (\A i, j \in 1..Len(accepted) : i < j => Extends(accepted[i], accepted[j]))'
  BY <1>1 DEF AgreementInv, Extends, Agreements!IsPrefixOf
<1>12. /\ (chain \in [Publishers -> [Branches -> Seq(Publications)]])'
       /\ (tables \in [Publishers -> [Branches -> Nat \ {0}]])'
  BY <1>1 DEF AgreementInv, Publications
<1>13. (\A i \in 1..Len(accepted) : IsAgreement(accepted[i]) /\ Replayed(accepted[i]))'
  BY <1>1, <1>9
<1> QED
  BY <1>8, <1>10, <1>11, <1>12, <1>13 DEF AgreementInv

LEMMA ExtendsThrough ==
    ASSUME NEW a, NEW b, NEW c, IsAgreement(a), IsAgreement(b), IsAgreement(c),
           Extends(a, b), Extends(b, c)
    PROVE  Extends(a, c)
<1> SUFFICES ASSUME NEW d \in Deployments
             PROVE  /\ c.publisher[d] = a.publisher[d]
                    /\ Agreements!IsPrefixOf(a.head[d], c.head[d])
                    /\ a.head[d] # c.head[d] /\ a.trust[d] <= c.trust[d]
  BY DEF Extends
<1>1. /\ a.head[d] \in Seq(Publications) /\ b.head[d] \in Seq(Publications)
      /\ c.head[d] \in Seq(Publications)
      /\ a.trust[d] \in Nat /\ b.trust[d] \in Nat /\ c.trust[d] \in Nat
  BY DEF IsAgreement
<1>2. /\ b.publisher[d] = a.publisher[d] /\ c.publisher[d] = b.publisher[d]
      /\ Agreements!IsPrefixOf(a.head[d], b.head[d]) /\ Agreements!IsPrefixOf(b.head[d], c.head[d])
      /\ a.head[d] # b.head[d] /\ a.trust[d] <= b.trust[d] /\ b.trust[d] <= c.trust[d]
  BY DEF Extends
<1>3. Agreements!IsPrefixOf(a.head[d], c.head[d])
  BY <1>1, <1>2, PrefixesOf3
<1>4. a.head[d] # c.head[d]
  <2> SUFFICES ASSUME a.head[d] = c.head[d] PROVE FALSE
    OBVIOUS
  <2>1. Len(a.head[d]) = Len(b.head[d])
    BY <1>1, <1>2, PrefixesOf3
  <2> QED
    BY <1>1, <1>2, <2>1, SMTT(30) DEF Agreements!IsPrefixOf
<1> QED
  BY <1>1, <1>2, <1>3, <1>4

(* A successor extends what it succeeds: both are in the given histories. *)
LEMMA SuccessorExtends ==
    ASSUME AgreementInv, NEW a, NEW b, IsAgreement(a), IsAgreement(b), NEW branch \in Branching,
           Agreements!Succeeds(a, b, branch)
    PROVE  Extends(a, b)
<1> SUFFICES ASSUME NEW d \in Deployments
             PROVE  /\ b.publisher[d] = a.publisher[d]
                    /\ Agreements!IsPrefixOf(a.head[d], b.head[d])
                    /\ a.head[d] # b.head[d] /\ a.trust[d] <= b.trust[d]
  BY DEF Extends
<1>1. /\ b.publisher = a.publisher /\ Len(b.head[d]) > Len(a.head[d]) /\ a.trust[d] <= b.trust[d]
      /\ Agreements!IsPrefixOf(a.head[d], chain[a.publisher[d]][branch[d]])
      /\ Agreements!IsPrefixOf(b.head[d], chain[a.publisher[d]][branch[d]])
  BY DEF Agreements!Succeeds, Agreements!Stands, Agreements!Participates
<1>2. /\ a.head[d] \in Seq(Publications) /\ b.head[d] \in Seq(Publications)
      /\ chain[a.publisher[d]][branch[d]] \in Seq(Publications)
  BY DEF IsAgreement, AgreementInv, Branching
<1>3. Len(a.head[d]) <= Len(b.head[d]) /\ a.head[d] # b.head[d]
  BY <1>1, <1>2
<1> QED
  BY <1>1, <1>2, <1>3, PrefixesOf3

LEMMA AgreementAccept ==
    ASSUME AgreementInv, NEW branch \in Branching, Agreements!Accept(branch)
    PROVE  AgreementInv'
<1> DEFINE n == Len(accepted)
<1> PICK c : c = candidate
  OBVIOUS
<1>1. /\ c # Agreements!NoAgreement
      /\ accepted # <<>> => Agreements!Succeeds(Agreements!LastOf(accepted), c, branch)
      /\ accepted' = Append(accepted, c) /\ candidate' = Agreements!NoAgreement
      /\ UNCHANGED <<chain, tables>>
  BY DEF Agreements!Accept
<1>2. IsAgreement(c) /\ Replayed(c)
  BY <1>1 DEF AgreementInv
<1>3. PICK S : accepted \in Seq(S)
  BY DEF AgreementInv
<1>4. /\ accepted' \in Seq(S \cup {c}) /\ Len(accepted') = n + 1 /\ n \in Nat
      /\ accepted'[n + 1] = c /\ \A i \in 1..n : accepted'[i] = accepted[i]
      /\ 1..(n + 1) = 1..n \cup {n + 1} /\ n + 1 \notin 1..n
      /\ accepted # <<>> => n \in 1..n
  BY <1>1, <1>3
<1>5. \A i \in 1..n : IsAgreement(accepted[i]) /\ Replayed(accepted[i])
  BY DEF AgreementInv
<1>6. ASSUME NEW b, IsAgreement(b), Replayed(b)
      PROVE  IsAgreement(b)' /\ Replayed(b)'
  BY <1>1, <1>6, ReplayedUnchanged
<1>7. ASSUME NEW i \in 1..(n + 1)
      PROVE  (IsAgreement(accepted[i]) /\ Replayed(accepted[i]))'
  <2>1. PICK b : b = accepted'[i]
    OBVIOUS
  <2>2. IsAgreement(b) /\ Replayed(b)
    BY <1>2, <1>4, <1>5, <2>1
  <2>3. IsAgreement(b)' /\ Replayed(b)'
    BY <1>6, <2>2
  <2> QED
    BY <2>1, <2>3 DEF IsAgreement, Replayed, Agreements!Verifies, Agreements!ValidAgreement
<1>8. ASSUME NEW i \in 1..n
      PROVE  Extends(accepted[i], c)
  <2>1. n \in 1..n /\ accepted # <<>> /\ i <= n
    BY <1>3, <1>4
  <2>2. Extends(accepted[n], c)
    BY <1>1, <1>2, <1>5, <2>1, SuccessorExtends DEF Agreements!LastOf
  <2>3. i # n => Extends(accepted[i], accepted[n])
    BY <1>4, <2>1 DEF AgreementInv
  <2> QED
    BY <1>2, <1>5, <2>1, <2>2, <2>3, ExtendsThrough
<1>9. ASSUME NEW i \in 1..(n + 1), NEW j \in 1..(n + 1), i < j
      PROVE  Extends(accepted'[i], accepted'[j])
  <2>1. i \in 1..n
    BY <1>4, <1>9
  <2>2. CASE j = n + 1
    BY <1>4, <1>8, <2>1, <2>2
  <2>3. CASE j \in 1..n
    <3>1. Extends(accepted[i], accepted[j])
      BY <1>9, <2>1, <2>3 DEF AgreementInv
    <3> QED
      BY <1>4, <2>1, <2>3, <3>1
  <2> QED
    BY <1>4, <2>2, <2>3
<1>10. (\A i, j \in 1..Len(accepted) : i < j => Extends(accepted[i], accepted[j]))'
  BY <1>4, <1>9 DEF Extends, Agreements!IsPrefixOf
<1>11. /\ (chain \in [Publishers -> [Branches -> Seq(Publications)]])'
       /\ (tables \in [Publishers -> [Branches -> Nat \ {0}]])'
       /\ (candidate # Agreements!NoAgreement => IsAgreement(candidate) /\ Replayed(candidate))'
  BY <1>1 DEF AgreementInv, Publications, Agreements!NoAgreement
<1>12. (\E T : accepted \in Seq(T))'
  BY <1>4
<1>13. (\A i \in 1..Len(accepted) : IsAgreement(accepted[i]) /\ Replayed(accepted[i]))'
  BY <1>4, <1>7
<1> QED
  BY <1>10, <1>11, <1>12, <1>13 DEF AgreementInv

LEMMA AgreementNext ==
    AgreementInv /\ [Agreements!Next]_Agreements!vars => AgreementInv'
<1> SUFFICES ASSUME AgreementInv, [Agreements!Next]_Agreements!vars
             PROVE  AgreementInv'
  OBVIOUS
<1>1. CASE UNCHANGED Agreements!vars
  <2>1. UNCHANGED <<chain, tables, candidate, accepted>>
    BY <1>1 DEF Agreements!vars
  <2>2. \A u \in Publishers, b \in Branches :
           /\ chain[u][b] \in Seq(Publications) /\ tables[u][b] \in Nat
    BY DEF AgreementInv
  <2>3. \A u \in Publishers, b \in Branches :
           /\ Agreements!IsPrefixOf(chain[u][b], chain'[u][b]) /\ tables[u][b] <= tables'[u][b]
    BY <2>1, <2>2 DEF Agreements!IsPrefixOf
  <2>4. /\ chain' \in [Publishers -> [Branches -> Seq(Publications)]]
        /\ tables' \in [Publishers -> [Branches -> Nat \ {0}]]
    BY <2>1 DEF AgreementInv
  <2> QED
    BY <2>1, <2>3, <2>4, HistoriesGrow
<1>2. CASE Agreements!Next
  BY <1>2, AgreementPublish, AgreementRotate, AgreementCopy, AgreementMake, AgreementAccept
     DEF Agreements!Next, Branching
<1> QED
  BY <1>1, <1>2

(* The invariant of agreements: what was made replays with some histories,   *)
(* and each accepted round extends all before it.                            *)
THEOREM AgreementInvariance == Agreements!Spec => []AgreementInv
<1>1. Agreements!Init => AgreementInv
  BY AgreementInit
<1> QED
  BY <1>1, AgreementNext, PTL DEF Agreements!Spec

(* verify_coordinated_reservation_agreement(): what was made replays for      *)
(* ever with some branch of each publisher's history, whatever is published,  *)
(* rotated or copied after it.                                                *)
THEOREM AgreementsAlwaysReplay == Agreements!Spec => []Agreements!AgreementsReplay
<1>1. AgreementInv => Agreements!AgreementsReplay
  <2> SUFFICES ASSUME AgreementInv,
                      NEW a \in {accepted[i] : i \in 1..Len(accepted)}
                                  \cup ({candidate} \ {Agreements!NoAgreement})
               PROVE  \E branch \in [Deployments -> Branches] : Agreements!Verifies(a, branch)
    BY DEF Agreements!AgreementsReplay
  <2>1. Replayed(a)
    BY DEF AgreementInv
  <2> QED
    BY <2>1 DEF Replayed, Branching
<1> QED
  BY <1>1, AgreementInvariance, PTL

(* verify_coordinated_reservation_successor(): over any number of rounds, a   *)
(* member's publications continue one another, whichever branch each round    *)
(* was checked against.                                                       *)
THEOREM RoundsAlwaysExtend == Agreements!Spec => []Agreements!RoundsExtend
<1>1. AgreementInv => Agreements!RoundsExtend
  BY DEF AgreementInv, Extends, Agreements!RoundsExtend
<1> QED
  BY <1>1, AgreementInvariance, PTL
-----------------------------------------------------------------------------
(* Provenance of a key (provenance.cpp): statements and assertions that keys  *)
(* of a trust history signed, whichever of them are presented.                *)
CONSTANTS Scopes, RequiredScopes, Adapters, AllowedAdapters, AllowedAuthorities,
          MinimumStatements, DistinctAttesters, MaximumChain, AllowedSources, MinimumSources,
          DistinctSources, MaximumAssertions, MaxAge, MaxSkew, MaxUncertainty, Truthful, Limit,
          MaxTime, Subjects, MaxStatements, MaxAssertions

VARIABLES bundle, time, statements, assertions

Attested == INSTANCE Provenance WITH Rotations <- KeyTables, head <- bundle

LEMMA AttestedCounts == \A S : Attested!Cardinality(S) = Cardinality(S)
BY DEF Attested!Cardinality, Cardinality

(* The policies' numbers are numbers. *)
PoliciesCount ==
    /\ MaxAge \in Nat /\ MaxUncertainty \in Nat /\ MaxTime \in Nat /\ Limit \in Nat
    /\ MinimumStatements \in Nat

(* A truthful source's assertion is right about when it was signed. *)
ProvenanceInv ==
    /\ time \in Nat
    /\ IsFiniteSet(statements)
    /\ \A a \in assertions :
          /\ a.asserted \in Nat /\ a.uncertainty \in Nat /\ a.signed \in Nat
          /\ a.key \in Truthful => a.asserted <= a.signed + a.uncertainty

LEMMA ProvenanceStep ==
    ASSUME ProvenanceInv, PoliciesCount, [Attested!Next]_(Attested!vars)
    PROVE  ProvenanceInv'
<1>1. CASE UNCHANGED Attested!vars \/ Attested!RotateTrust \/ Attested!Tick
  BY <1>1 DEF Attested!vars, Attested!RotateTrust, Attested!Tick, ProvenanceInv
<1>2. ASSUME NEW key, NEW n, NEW subject, NEW sequence, NEW parent, NEW adapter, NEW scopes,
             Attested!SignStatement(key, n, subject, sequence, parent, adapter, scopes)
      PROVE  ProvenanceInv'
  <2>1. /\ \E s : statements' = statements \cup {s}
        /\ UNCHANGED <<time, assertions>>
    BY <1>2 DEF Attested!SignStatement
  <2>2. IsFiniteSet(statements')
    BY <2>1, FS_AddElement DEF ProvenanceInv
  <2> QED
    BY <2>1, <2>2 DEF ProvenanceInv
<1>3. ASSUME NEW key, NEW n, NEW subject, NEW sequence, NEW parent, NEW asserted \in 0..MaxTime,
             NEW uncertainty \in 0..MaxUncertainty,
             Attested!SignAssertion(key, n, subject, sequence, parent, asserted, uncertainty)
      PROVE  ProvenanceInv'
  <2> DEFINE a == [key |-> key, bundle |-> n, subject |-> subject, sequence |-> sequence,
                   parent |-> parent, asserted |-> asserted, uncertainty |-> uncertainty,
                   signed |-> time]
  <2>1. /\ key \in Truthful => asserted - uncertainty <= time
        /\ assertions' = assertions \cup {a}
        /\ UNCHANGED <<time, statements>>
    BY <1>3 DEF Attested!SignAssertion
  <2>2. asserted \in Nat /\ uncertainty \in Nat /\ time \in Nat
    BY DEF PoliciesCount, ProvenanceInv
  <2>3. a.key = key /\ a.asserted = asserted /\ a.uncertainty = uncertainty /\ a.signed = time
    OBVIOUS
  <2>4. key \in Truthful => asserted <= time + uncertainty
    BY <2>1, <2>2
  <2> HIDE DEF a
  <2> QED
    BY <2>1, <2>2, <2>3, <2>4 DEF ProvenanceInv
<1> QED
  BY <1>1, <1>2, <1>3 DEF Attested!Next

(* Services counted among some statements are counted among more. *)
LEMMA MoreStatementsMoreServices ==
    ASSUME NEW A, NEW B, IsFiniteSet(B), A \subseteq B
    PROVE  /\ Cardinality({ServiceOf[s.key] : s \in A}) \in Nat
           /\ Cardinality({ServiceOf[s.key] : s \in B}) \in Nat
           /\ Cardinality({ServiceOf[s.key] : s \in A}) <= Cardinality({ServiceOf[s.key] : s \in B})
<1> DEFINE T == {ServiceOf[s.key] : s \in B}
           U == {ServiceOf[s.key] : s \in A}
           f == [s \in B |-> ServiceOf[s.key]]
<1>1. f \in Surjection(B, T)
  BY DEF Surjection
<1>2. IsFiniteSet(T)
  <2> HIDE DEF f, T
  <2> QED
    BY <1>1, FS_Surjection
<1>3. U \in SUBSET T
  OBVIOUS
<1> HIDE DEF T, U
<1>4. IsFiniteSet(U) /\ Cardinality(U) <= Cardinality(T)
  BY <1>2, <1>3, FS_Subset
<1>5. Cardinality(U) \in Nat /\ Cardinality(T) \in Nat
  BY <1>2, <1>4, FS_CardinalityType
<1> QED
  BY <1>4, <1>5 DEF T, U

(* saturating_add() never exceeds the sum. *)
LEMMA PlusBounded ==
    ASSUME PoliciesCount, NEW a \in Nat, NEW b \in Nat
    PROVE  Attested!Plus(a, b) \in Nat /\ Attested!Plus(a, b) <= a + b
  BY DEF PoliciesCount, Attested!Plus

(* The upper end of what all sources allow is no later than any of theirs. *)
LEMMA UpperBounded ==
    ASSUME PoliciesCount, NEW set, NEW a \in Attested!Latest(set),
           \A b \in set : b.asserted \in Nat /\ b.uncertainty \in Nat
    PROVE  Attested!Upper(set) \in Nat /\ Attested!Upper(set) <= a.asserted + a.uncertainty
<1> DEFINE N == {Attested!Plus(b.asserted, b.uncertainty) : b \in Attested!Latest(set)}
<1>1. \A b \in Attested!Latest(set) : b \in set /\ b.asserted \in Nat /\ b.uncertainty \in Nat
  BY DEF Attested!Latest
<1>2. N \subseteq Nat /\ Attested!Plus(a.asserted, a.uncertainty) \in N
  BY <1>1, PlusBounded
<1> HIDE DEF N
<1>3. \E m \in N : \A j \in N : m <= j
  BY <1>2, LeastExists
<1>4. Attested!Min(N) \in N /\ \A j \in N : Attested!Min(N) <= j
  BY <1>3 DEF Attested!Min
<1>5. Attested!Upper(set) = Attested!Min(N)
  BY DEF Attested!Upper, N
<1>6. PICK u \in Nat : u = Attested!Min(N)
  BY <1>2, <1>4
<1>7. PICK p \in Nat : p = Attested!Plus(a.asserted, a.uncertainty) /\ p <= a.asserted + a.uncertainty
  BY <1>1, PlusBounded
<1>8. u <= p /\ a.asserted \in Nat /\ a.uncertainty \in Nat
  BY <1>1, <1>2, <1>4, <1>6, <1>7
<1>9. u <= a.asserted + a.uncertainty
  BY <1>7, <1>8
<1> QED
  BY <1>5, <1>6, <1>9
(* The signed statements are finitely many, and what a truthful source       *)
(* asserted was right, within its uncertainty, when it signed                 *)
(* (sign_external_time_assertion()).                                          *)
THEOREM ProvenanceInvariance ==
    ASSUME PoliciesCount
    PROVE  Attested!Spec => []ProvenanceInv
<1>1. Attested!Init => ProvenanceInv
  BY FS_EmptySet DEF Attested!Init, ProvenanceInv
<1>2. ProvenanceInv /\ [Attested!Next]_(Attested!vars) => ProvenanceInv'
  BY ProvenanceStep
<1> QED
  BY <1>1, <1>2, PTL DEF Attested!Spec

(* A fresh report is recent for every truthful source that it rests on. *)
LEMMA FreshIsRecent ==
    ASSUME PoliciesCount, ProvenanceInv, NEW set \in SUBSET assertions,
           Attested!FreshnessStatus(set, time) = "fresh",
           NEW a \in Attested!Latest(set), a.key \in Truthful
    PROVE  time <= a.signed + MaxAge + 2 * a.uncertainty
<1>1. /\ \A b \in set : b.asserted \in Nat /\ b.uncertainty \in Nat /\ b.signed \in Nat
      /\ a \in set /\ a.asserted <= a.signed + a.uncertainty
      /\ time \in Nat
  BY DEF ProvenanceInv, Attested!Latest
<1>2. PICK u \in Nat : u = Attested!Upper(set) /\ u <= a.asserted + a.uncertainty
  BY <1>1, UpperBounded
<1>3. ~(Attested!Plus(u, MaxAge) < time)
  BY <1>2 DEF Attested!FreshnessStatus
<1>4. PICK p \in Nat : p = Attested!Plus(u, MaxAge) /\ p <= u + MaxAge
  BY PlusBounded DEF PoliciesCount
<1>5. time <= p /\ MaxAge \in Nat
  BY <1>1, <1>3, <1>4 DEF PoliciesCount
<1>6. a.asserted \in Nat /\ a.uncertainty \in Nat /\ a.signed \in Nat
  BY <1>1
<1> QED
  BY <1>1, <1>2, <1>4, <1>5, <1>6

(* Whichever of the signed statements and assertions are presented, and       *)
(* whatever the clocks of the sources that lie, a bundle is ready only if     *)
(* enough services vouched for the key and every truthful source in it spoke  *)
(* recently (replay_verifiable_provenance()).                                 *)
THEOREM ReadyIsAlwaysRecent ==
    ASSUME PoliciesCount
    PROVE  Attested!Spec => []Attested!ReadyIsRecent
<1>1. ProvenanceInv => Attested!ReadyIsRecent
  <2> SUFFICES ASSUME ProvenanceInv, NEW subject \in Subjects, NEW n \in 1..bundle,
                      NEW held \in SUBSET statements, NEW set \in SUBSET assertions,
                      Attested!Ready(subject, n, held, set)
               PROVE  /\ DistinctAttesters =>
                            Cardinality({ServiceOf[s.key] :
                                s \in {t \in statements : t.subject = subject}}) >= MinimumStatements
                      /\ \A a \in Attested!Latest(set) :
                            a.key \in Truthful => time <= a.signed + MaxAge + 2 * a.uncertainty
    BY AttestedCounts DEF Attested!ReadyIsRecent, Attested!Bundles
  <2>1. /\ Attested!FreshnessStatus(set, time) = "fresh"
        /\ Attested!HardwareStatus(held) = "satisfied"
        /\ \A s \in held : s.subject = subject
    BY DEF Attested!Ready, Attested!HardwareReplays
  <2>2. \A a \in Attested!Latest(set) :
            a.key \in Truthful => time <= a.signed + MaxAge + 2 * a.uncertainty
    BY <2>1, FreshIsRecent
  <2>3. ASSUME DistinctAttesters
        PROVE  Cardinality({ServiceOf[s.key] :
                   s \in {t \in statements : t.subject = subject}}) >= MinimumStatements
    <3> DEFINE A == {ServiceOf[s.key] : s \in held}
               about == {t \in statements : t.subject = subject}
               B == {ServiceOf[s.key] : s \in about}
    <3>1. Cardinality(A) >= MinimumStatements
      <4>1. Attested!Attesters(held) = A
        BY <2>3 DEF Attested!Attesters
      <4>2. Attested!Cardinality(Attested!Attesters(held)) >= MinimumStatements
        BY <2>1, <2>3 DEF Attested!HardwareStatus
      <4> QED
        BY <4>1, <4>2, AttestedCounts
    <3>2. IsFiniteSet(about) /\ held \subseteq about
      <4>1. IsFiniteSet(statements) /\ about \in SUBSET statements
        BY DEF ProvenanceInv
      <4>2. IsFiniteSet(about)
        <5> HIDE DEF about
        <5> QED
          BY <4>1, FS_Subset
      <4> QED
        BY <2>1, <4>2
    <3>3. /\ Cardinality(A) \in Nat /\ Cardinality(B) \in Nat
          /\ Cardinality(A) <= Cardinality(B)
      <4> HIDE DEF about
      <4> QED
        BY <3>2, MoreStatementsMoreServices
    <3>4. Cardinality(B) >= MinimumStatements
      <4> HIDE DEF A, B
      <4> QED
        BY <3>1, <3>3 DEF PoliciesCount
    <3> QED
      BY <3>4
  <2> QED
    BY <2>2, <2>3
<1> QED
  BY <1>1, ProvenanceInvariance, PTL
=============================================================================
