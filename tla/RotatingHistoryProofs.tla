----------------------- MODULE RotatingHistoryProofs ------------------------
(***************************************************************************)
(* Proofs about RotatingHistory for any number of processes, keys, payloads, *)
(* publications and rotations, and, from the section on publications under   *)
(* one bundle, about PublicationHistory for any number of directories.       *)
(***************************************************************************)
EXTENDS RotatingHistory, PrefixChains, Integers

Trusts == Seq([Keys -> Entries])
Chains == Seq(Publications) \ {<<>>}

(* The writer lock is exclusive: whoever publishes or rotates holds it. *)
WriterExclusion ==
    /\ \A p \in Procs : pc[p] \in Writing => lock
    /\ \A p, q \in Procs : pc[p] \in Writing /\ pc[q] \in Writing => p = q

(* Publications were made in the order of the bundles that they name. *)
BundlesInOrder ==
    \A c \in records : \A i, j \in 1..Len(c) : i <= j => c[i].bundle <= c[j].bundle

(* T is a past of the embedded trust history. *)
IsPast(T) == Len(T) <= Len(trust) /\ T = SubSeq(trust, 1, Len(T))

SeenIsPast == \A p \in Procs : IsPast(seen[p])

(* What publish() has tested: draft d is one publication more than what the  *)
(* directory replays to, made under the bundle that is current.              *)
ExtendsHead(d) ==
    /\ d # <<>>
    /\ Len(d) <= MaxPublications
    /\ d[Len(d)].bundle = Len(trust)
    /\ Verified(trust, d, Len(d))
    /\ \E c \in records : Opens(trust, c) /\ d = Append(c, d[Len(d)])

(* It stays true until the record is renamed: no rotation comes between; nor *)
(* does another rotation between the two steps of one.                       *)
WriterKnowsAt(p) ==
    LET d == draft[p] IN
    /\ pc[p] = "entered" => Len(trust) < MaxBundles
    /\ pc[p] \in {"checked", "paid", "saved"} => ExtendsHead(d)
    /\ pc[p] \in {"paid", "saved"} => <<Len(d), d[Len(d)].payload>> \in payloads
    /\ pc[p] = "saved" => d \in publications

WriterKnows == \A p \in Procs : WriterKnowsAt(p)

(* What an object holds is a past of the directory, and one moment of it. *)
WasCurrent(held) ==
    LET n == Len(held.chain) IN
    /\ IsPast(held.trust)
    /\ held.chain \in records
    /\ held.chain[n].bundle <= Len(held.trust)
    /\ \A c \in records : Len(c) > n =>
          SubSeq(c, 1, n) = held.chain /\ c[n + 1].bundle >= Len(held.trust)

ObjectsCurrent == \A p \in Procs : handle[p] # Nothing => WasCurrent(handle[p])

NothingBeforeCreate ==
    records = {} => \A p \in Procs : seen[p] = <<>> /\ pc[p] \notin Writing

IInv ==
    /\ TypeOK
    /\ Len(trust) <= MaxBundles
    /\ NothingBeforeCreate
    /\ WriterExclusion
    /\ HistoryOpens
    /\ BundlesInOrder
    /\ SeenIsPast
    /\ WriterKnows
    /\ ObjectsCurrent

-----------------------------------------------------------------------------
LEMMA ChainTyped ==
    ASSUME NEW c \in Chains
    PROVE  /\ Len(c) \in Nat \ {0}
           /\ Len(c) \in 1..Len(c)
           /\ \A i \in 1..Len(c) : c[i] \in Publications /\ c[i].bundle \in Nat
<1>1. c \in Seq(Publications) /\ c # <<>>
  BY DEF Chains
<1>2. Len(c) \in Nat /\ Len(c) # 0
  BY <1>1
<1>3. ASSUME NEW i \in 1..Len(c)
      PROVE  c[i] \in Publications
  BY <1>1
<1>4. \A x \in Publications : x.bundle \in Nat
  BY LimitsAssumption DEF Publications
<1>5. Len(c) \in Nat \ {0} /\ Len(c) \in 1..Len(c)
  BY <1>2
<1> QED
  BY <1>3, <1>4, <1>5

(* What a publication appended to a chain leaves and what it adds. *)
LEMMA AppendTyped ==
    ASSUME NEW c \in Chains, NEW x \in Publications
    PROVE  /\ Append(c, x) \in Chains
           /\ Len(Append(c, x)) = Len(c) + 1
           /\ Append(c, x)[Len(c) + 1] = x
           /\ \A i \in 1..Len(c) : Append(c, x)[i] = c[i]
           /\ \A i \in 1..Len(c) : SubSeq(Append(c, x), 1, i) = SubSeq(c, 1, i)
           /\ PrefixesOf(Append(c, x)) = PrefixesOf(c) \cup {Append(c, x)}
           /\ 1..Len(Append(c, x)) = 1..Len(c) \cup {Len(c) + 1}
<1>1. /\ Append(c, x) \in Chains
      /\ Len(Append(c, x)) = Len(c) + 1
      /\ Append(c, x)[Len(c) + 1] = x
      /\ \A i \in 1..Len(c) : Append(c, x)[i] = c[i]
      /\ \A i \in 1..Len(c) : SubSeq(Append(c, x), 1, i) = SubSeq(c, 1, i)
      /\ PrefixesOf(Append(c, x)) = PrefixesOf(c) \cup {Append(c, x)}
  BY AppendAddsOne DEF Chains
<1> QED
  BY <1>1, ChainTyped

(* A directory that replays to chain c. *)
LEMMA OpensChain ==
    ASSUME NEW T, NEW c \in Chains, Opens(T, c)
    PROVE  /\ records = PrefixesOf(c)
           /\ c \in records
           /\ \A g \in records : /\ g \in Chains
                                 /\ Len(g) \in 1..Len(c)
                                 /\ g = SubSeq(c, 1, Len(g))
                                 /\ \A i \in 1..Len(g) : g[i] = c[i]
<1>1. records = PrefixesOf(c)
  BY DEF Opens, PrefixesOf
<1>2. c \in records
  BY <1>1, WholeIsPrefix DEF Chains
<1>3. ASSUME NEW g \in records
      PROVE  /\ g \in Chains /\ Len(g) \in 1..Len(c) /\ g = SubSeq(c, 1, Len(g))
             /\ \A i \in 1..Len(g) : g[i] = c[i]
  <2>1. /\ g \in Seq(Publications) /\ Len(g) \in 1..Len(c) /\ g = SubSeq(c, 1, Len(g))
        /\ \A i \in 1..Len(g) : g[i] = c[i]
    BY <1>1, PrefixMember DEF Chains
  <2>2. g # <<>>
    BY <2>1, ChainTyped
  <2> QED
    BY <2>1, <2>2 DEF Chains
<1> QED
  BY <1>1, <1>2, <1>3

(* Payloads and publications are only added: what opens goes on to. *)
LEMMA OpensStays ==
    ASSUME records' = records, publications \subseteq publications',
           payloads \subseteq payloads', NEW T, NEW c, Opens(T, c)
    PROVE  Opens(T, c)'
  BY DEF Opens

(* A rotation changes nothing about the bundles before it, which are the     *)
(* ones that the publications name.                                          *)
LEMMA OpensUnderLonger ==
    ASSUME NEW T \in Trusts, NEW t \in [Keys -> Entries], NEW c, Opens(T, c)
    PROVE  Opens(Append(T, t), c)
<1>1. /\ Len(Append(T, t)) = Len(T) + 1 /\ Len(T) \in Nat
      /\ \A b \in 1..Len(T) : Append(T, t)[b] = T[b]
  BY DEF Trusts
<1>2. ASSUME NEW i \in 1..Len(c)
      PROVE  c[i].bundle \in 1..Len(Append(T, t)) /\ Verified(Append(T, t), c, i)
  <2>1. c[i].bundle \in 1..Len(T) /\ Verified(T, c, i)
    BY DEF Opens
  <2> QED
    BY <1>1, <2>1 DEF Verified
<1> QED
  BY <1>2 DEF Opens

(* The pasts of a trust history that grows are pasts of it still. *)
LEMMA PastStays ==
    ASSUME trust \in Trusts, NEW t \in [Keys -> Entries], trust' = Append(trust, t),
           NEW T \in Trusts, IsPast(T)
    PROVE  IsPast(T)'
<1>1. Len(trust') = Len(trust) + 1 /\ Len(trust) \in Nat /\ Len(T) \in 0..Len(trust)
  BY DEF Trusts, IsPast
<1>2. SubSeq(trust', 1, Len(T)) = SubSeq(trust, 1, Len(T))
  BY <1>1 DEF Trusts
<1> QED
  BY <1>1, <1>2 DEF IsPast

LEMMA PastOfItself ==
    ASSUME trust \in Trusts
    PROVE  IsPast(trust) /\ IsPast(<<>>)
  BY DEF Trusts, IsPast

(* What open() finds, under a past of the trust history, is current. *)
LEMMA OpenedIsCurrent ==
    ASSUME NEW T, IsPast(T), NEW c \in Chains, Opens(T, c)
    PROVE  WasCurrent([trust |-> T, chain |-> c])
<1>1. c \in records /\ \A g \in records : Len(g) \in 1..Len(c)
  BY OpensChain
<1>2. Len(c) \in Nat /\ Len(c) \in 1..Len(c)
  BY ChainTyped
<1>3. \A g \in records : ~(Len(g) > Len(c))
  BY <1>1, <1>2
<1>4. c[Len(c)].bundle \in 1..Len(T)
  BY <1>2 DEF Opens
<1>5. c[Len(c)].bundle <= Len(T)
  BY <1>4
<1> QED
  BY <1>1, <1>3, <1>5 DEF WasCurrent

-----------------------------------------------------------------------------
(* What only depends on the records and the trust history, while files that *)
(* they do not name yet are added.                                           *)
FilesStay ==
    /\ records' = records
    /\ trust' = trust
    /\ publications \subseteq publications'
    /\ payloads \subseteq payloads'

LEMMA DirectoryStays ==
    ASSUME IInv, FilesStay
    PROVE  HistoryOpens' /\ BundlesInOrder' /\ (Len(trust) <= MaxBundles)'
<1>1. HistoryOpens'
  <2> SUFFICES ASSUME records # {} PROVE \E c \in records' : Opens(trust, c)'
    BY DEF HistoryOpens, FilesStay
  <2>1. PICK c \in records : Opens(trust, c)
    BY DEF IInv, HistoryOpens
  <2>2. Opens(trust, c)'
    BY <2>1 DEF Opens, FilesStay
  <2> QED
    BY <2>2 DEF FilesStay
<1>2. BundlesInOrder' /\ (Len(trust) <= MaxBundles)'
  BY DEF IInv, BundlesInOrder, FilesStay
<1> QED
  BY <1>1, <1>2

LEMMA ExtensionStays ==
    ASSUME FilesStay, NEW d, ExtendsHead(d)
    PROVE  ExtendsHead(d)'
<1>1. PICK c \in records : Opens(trust, c) /\ d = Append(c, d[Len(d)])
  BY DEF ExtendsHead
<1>2. Opens(trust, c)'
  BY <1>1 DEF Opens, FilesStay
<1>3. c \in records' /\ trust' = trust
  BY DEF FilesStay
<1> QED
  BY <1>1, <1>2, <1>3 DEF ExtendsHead, Verified

(* A step of process p that is neither a commit nor a rotation keeps the     *)
(* invariant if it keeps what the invariant says of p.                       *)
LEMMA StepOfOne ==
    ASSUME IInv, TypeOK', FilesStay, NEW p \in Procs,
           \A q \in Procs \ {p} : /\ pc'[q] = pc[q]
                                  /\ handle'[q] = handle[q]
                                  /\ seen'[q] = seen[q]
                                  /\ draft'[q] = draft[q],
           records # {} \/ (seen'[p] = <<>> /\ pc'[p] \notin Writing),
           lock => lock' \/ pc[p] \in Writing,
           pc'[p] \in Writing => lock' /\ (pc[p] \in Writing \/ ~lock),
           WriterKnowsAt(p)',
           IsPast(seen[p])',
           handle'[p] # Nothing => WasCurrent(handle[p])'
    PROVE  IInv'
<1>1. HistoryOpens' /\ BundlesInOrder' /\ (Len(trust) <= MaxBundles)'
  BY DirectoryStays
<1>2. NothingBeforeCreate'
  BY DEF IInv, NothingBeforeCreate, FilesStay
<1>3. WriterExclusion'
  BY DEF IInv, WriterExclusion
<1>4. SeenIsPast'
  BY DEF IInv, SeenIsPast, FilesStay, IsPast
<1>5. WriterKnows'
  <2> SUFFICES ASSUME NEW q \in Procs PROVE WriterKnowsAt(q)'
    BY DEF WriterKnows
  <2>1. CASE q = p
    BY <2>1
  <2>2. CASE q # p
    <3>1. WriterKnowsAt(q) /\ pc'[q] = pc[q] /\ draft'[q] = draft[q]
      BY <2>2 DEF IInv, WriterKnows
    <3>2. PICK d : d = draft[q]
      OBVIOUS
    <3>3. ExtendsHead(d) => ExtendsHead(d)'
      BY ExtensionStays
    <3>4. d = draft'[q] /\ (pc[q] \in {"checked", "paid", "saved"} => ExtendsHead(d))
      BY <3>1, <3>2 DEF WriterKnowsAt
    <3>5. pc'[q] \in {"checked", "paid", "saved"} => ExtendsHead(draft[q])'
      BY <3>1, <3>3, <3>4 DEF ExtendsHead
    <3> QED
      BY <3>1, <3>5 DEF WriterKnowsAt, FilesStay
  <2> QED
    BY <2>1, <2>2
<1>6. ObjectsCurrent'
  <2> SUFFICES ASSUME NEW q \in Procs, handle'[q] # Nothing PROVE WasCurrent(handle[q])'
    BY DEF ObjectsCurrent
  <2>1. CASE q = p
    BY <2>1
  <2>2. CASE q # p
    BY <2>2 DEF IInv, ObjectsCurrent, WasCurrent, FilesStay, IsPast
  <2> QED
    BY <2>1, <2>2
<1> QED
  BY <1>1, <1>2, <1>3, <1>4, <1>5, <1>6 DEF IInv

-----------------------------------------------------------------------------
LEMMA InitIInv == Init => IInv
<1> SUFFICES ASSUME Init PROVE IInv
  OBVIOUS
<1>1. TypeOK
  <2>1. <<>> \in Seq(Publications) /\ <<>> \in Seq([Keys -> Entries])
    OBVIOUS
  <2>2. Nothing \in [trust : Seq([Keys -> Entries]), chain : Seq(Publications)]
    BY <2>1 DEF Nothing
  <2> QED
    BY <2>1, <2>2 DEF Init, TypeOK
<1>2. Len(trust) <= MaxBundles
  BY LimitsAssumption DEF Init
<1>3. NothingBeforeCreate /\ WriterExclusion /\ WriterKnows
  BY DEF Init, NothingBeforeCreate, WriterExclusion, WriterKnows, WriterKnowsAt, Writing
<1>4. HistoryOpens /\ BundlesInOrder /\ ObjectsCurrent
  BY DEF Init, HistoryOpens, BundlesInOrder, ObjectsCurrent
<1>5. SeenIsPast
  BY <1>1, PastOfItself DEF Init, SeenIsPast, TypeOK, Trusts
<1> QED
  BY <1>1, <1>2, <1>3, <1>4, <1>5 DEF IInv

(* create() makes a directory that opens with its root. *)
LEMMA CreateIInv ==
    ASSUME IInv, NEW p \in Procs, NEW source \in Sources, NEW root \in Publications,
           Create(p, source, root)
    PROVE  IInv'
<1> DEFINE c == <<root>>
<1>1. c \in Chains /\ Len(c) = 1 /\ c[1] = root /\ 1..Len(c) = {1} /\ SubSeq(c, 1, 1) = c
  <2>1. c \in Seq(Publications) /\ Len(c) = 1 /\ c[1] = root
    OBVIOUS
  <2>2. SubSeq(c, 1, 1) = c
    BY <2>1, WholeIsPrefix
  <2>3. 1..1 = {1}
    OBVIOUS
  <2> QED
    BY <2>1, <2>2, <2>3 DEF Chains
<1>2. source \in Trusts /\ Len(source) \in 1..MaxBundles /\ root.bundle = Len(source)
  BY SourcesAssumption DEF Create, Trusts
<1>3. records' = {c} /\ publications' = {c} /\ payloads' = {<<1, root.payload>>} /\ trust' = source
  BY DEF Create
<1>4. \A q \in Procs : handle[q] = Nothing /\ seen[q] = <<>> /\ pc[q] \notin Writing
  BY DEF IInv, NothingBeforeCreate, ObjectsCurrent, WasCurrent, Create
<1>5. TypeOK'
  <2>1. <<1, root.payload>> \in (1..MaxPublications) \X Payloads
    BY LimitsAssumption DEF Publications
  <2> QED
    BY <1>1, <1>2, <1>3, <2>1 DEF IInv, TypeOK, Create, Chains, Trusts, locks
<1>6. Opens(source, c)'
  <2>1. records' = {SubSeq(c, 1, i) : i \in 1..Len(c)}
    BY <1>1, <1>3
  <2>2. Len(c) <= MaxPublications
    BY <1>1, LimitsAssumption
  <2>3. c[1].bundle \in 1..Len(source) /\ Verified(source, c, 1)
    BY <1>1, <1>2 DEF Create
  <2> QED
    BY <1>1, <1>3, <2>1, <2>2, <2>3 DEF Opens, Chains
<1>7. HistoryOpens'
  BY <1>3, <1>6 DEF HistoryOpens
<1>8. BundlesInOrder'
  <2>1. root.bundle <= root.bundle
    BY <1>2
  <2> QED
    BY <1>1, <1>3, <2>1 DEF BundlesInOrder
<1>9. /\ pc' = pc /\ handle' = handle /\ seen' = seen /\ draft' = draft
      /\ lock' = lock /\ trustLock' = trustLock
  BY DEF Create, locks
<1>10. NothingBeforeCreate' /\ WriterExclusion' /\ WriterKnows' /\ ObjectsCurrent'
  BY <1>3, <1>4, <1>9 DEF NothingBeforeCreate, WriterExclusion, WriterKnows,
     WriterKnowsAt, ObjectsCurrent, Writing
<1>11. SeenIsPast'
  <2>1. Len(<<>>) <= Len(source) /\ <<>> = SubSeq(source, 1, Len(<<>>))
    BY <1>2 DEF Trusts
  <2> QED
    BY <1>3, <1>4, <1>9, <2>1 DEF SeenIsPast, IsPast
<1>12. (Len(trust) <= MaxBundles)'
  BY <1>2, <1>3, LimitsAssumption
<1> QED
  BY <1>5, <1>7, <1>8, <1>10, <1>11, <1>12 DEF IInv

(* open() reads the trust history, which is a past of what it becomes. *)
LEMMA OpenTrustIInv ==
    ASSUME IInv, NEW p \in Procs, OpenTrust(p)
    PROVE  IInv'
<1>1. TypeOK'
  BY DEF IInv, TypeOK, OpenTrust, Goto, files, locks, Writing
<1>2. FilesStay
  BY DEF OpenTrust, files, FilesStay
<1>3. IsPast(seen[p])'
  BY PastOfItself DEF IInv, TypeOK, OpenTrust, IsPast, Trusts
<1>4. handle'[p] # Nothing => WasCurrent(handle[p])'
  BY <1>2 DEF IInv, ObjectsCurrent, WasCurrent, OpenTrust, IsPast, FilesStay, files
<1>5. WriterKnowsAt(p)' /\ pc'[p] \notin Writing
  BY DEF WriterKnowsAt, OpenTrust, Goto, IInv, TypeOK, Writing
<1>6. \A q \in Procs \ {p} : /\ pc'[q] = pc[q] /\ handle'[q] = handle[q]
                            /\ seen'[q] = seen[q] /\ draft'[q] = draft[q]
  BY DEF IInv, TypeOK, OpenTrust, Goto
<1>7. records # {} /\ (lock => lock')
  BY DEF OpenTrust, locks
<1> QED
  BY <1>1, <1>2, <1>3, <1>4, <1>5, <1>6, <1>7, StepOfOne

(* It reads the records afterwards, under that past of the trust history. *)
LEMMA OpenRecordsIInv ==
    ASSUME IInv, NEW p \in Procs, NEW c \in records, OpenRecords(p, c)
    PROVE  IInv'
<1>1. c \in Chains
  BY DEF IInv, TypeOK, Chains
<1>2. TypeOK'
  BY <1>1 DEF IInv, TypeOK, OpenRecords, Chains, Goto, files, locks, Writing
<1>3. FilesStay
  BY DEF OpenRecords, files, FilesStay
<1>4. IsPast(seen[p])'
  BY PastOfItself DEF IInv, TypeOK, OpenRecords, IsPast, Trusts
<1>5. handle'[p] # Nothing => WasCurrent(handle[p])'
  <2>1. PICK T : T = seen[p]
    OBVIOUS
  <2>2. IsPast(T) /\ Opens(T, c)
    BY <2>1 DEF IInv, SeenIsPast, OpenRecords
  <2>3. WasCurrent([trust |-> T, chain |-> c])
    BY <1>1, <2>2, OpenedIsCurrent
  <2>4. handle'[p] = [trust |-> T, chain |-> c]
    BY <2>1 DEF IInv, TypeOK, OpenRecords
  <2> QED
    BY <1>3, <2>3, <2>4 DEF WasCurrent, IsPast, FilesStay
<1>6. WriterKnowsAt(p)' /\ pc'[p] \notin Writing
  BY DEF WriterKnowsAt, OpenRecords, Goto, IInv, TypeOK, Writing
<1>7. \A q \in Procs \ {p} : /\ pc'[q] = pc[q] /\ handle'[q] = handle[q]
                            /\ seen'[q] = seen[q] /\ draft'[q] = draft[q]
  BY DEF IInv, TypeOK, OpenRecords, Goto
<1>8. records # {} /\ (lock => lock')
  BY DEF OpenRecords, locks
<1> QED
  BY <1>2, <1>3, <1>4, <1>5, <1>6, <1>7, <1>8, StepOfOne

LEMMA OpenFailsIInv ==
    ASSUME IInv, NEW p \in Procs, OpenFails(p)
    PROVE  IInv'
<1>1. TypeOK'
  BY DEF IInv, TypeOK, OpenFails, Resting, Goto, files, locks, Writing
<1>2. FilesStay
  BY DEF OpenFails, files, FilesStay
<1>3. IsPast(seen[p])' /\ seen'[p] = <<>>
  BY PastOfItself DEF IInv, TypeOK, OpenFails, IsPast, Trusts
<1>4. handle'[p] # Nothing => WasCurrent(handle[p])'
  BY <1>2 DEF IInv, ObjectsCurrent, WasCurrent, OpenFails, IsPast, FilesStay
<1>5. WriterKnowsAt(p)' /\ pc'[p] \notin Writing
  BY DEF WriterKnowsAt, OpenFails, Resting, Goto, IInv, TypeOK, Writing
<1>6. \A q \in Procs \ {p} : /\ pc'[q] = pc[q] /\ handle'[q] = handle[q]
                            /\ seen'[q] = seen[q] /\ draft'[q] = draft[q]
  BY DEF IInv, TypeOK, OpenFails, Goto
<1>7. lock => lock'
  BY DEF OpenFails, locks
<1> QED
  BY <1>1, <1>2, <1>3, <1>4, <1>5, <1>6, <1>7, StepOfOne

-----------------------------------------------------------------------------
(* publish() under the lock: nobody else is inside, and the draft is a       *)
(* publication more than what the directory opens with.                      *)
LEMMA PublishCheckIInv ==
    ASSUME IInv, NEW p \in Procs, NEW c \in records, NEW key \in Keys,
           NEW payload \in Payloads, PublishCheck(p, c, key, payload)
    PROVE  IInv'
<1> DEFINE x == [bundle |-> Len(trust), key |-> key, payload |-> payload]
           d == Append(c, x)
<1>1. c \in Chains /\ Opens(trust, c) /\ Len(c) < MaxPublications
  BY DEF IInv, TypeOK, Chains, PublishCheck
<1>2. Len(trust) \in 1..MaxBundles
  <2>1. Len(c) \in 1..Len(c)
    BY <1>1, ChainTyped
  <2>2. c[Len(c)].bundle \in 1..Len(trust)
    BY <1>1, <2>1 DEF Opens
  <2>3. Len(trust) \in Nat
    BY DEF IInv, TypeOK
  <2> QED
    BY <2>2, <2>3, LimitsAssumption DEF IInv
<1>3. x \in Publications
  BY <1>2 DEF Publications
<1>4. d \in Chains /\ Len(d) = Len(c) + 1 /\ d[Len(d)] = x /\ Len(c) \in Nat
  BY <1>1, <1>3, AppendTyped, ChainTyped
<1>5. Verified(trust, d, Len(d)) /\ draft' = [draft EXCEPT ![p] = d]
  BY DEF PublishCheck
<1>6. TypeOK'
  BY <1>4, <1>5 DEF IInv, TypeOK, PublishCheck, Goto, files, Writing, Chains
<1>7. FilesStay
  BY DEF PublishCheck, files, FilesStay
<1>8. ExtendsHead(d)
  <2>1. d # <<>> /\ d[Len(d)].bundle = Len(trust) /\ d = Append(c, d[Len(d)])
    BY <1>4 DEF Chains
  <2>2. Len(d) <= MaxPublications
    BY <1>1, <1>4, LimitsAssumption
  <2> QED
    BY <1>1, <1>5, <2>1, <2>2 DEF ExtendsHead
<1>9. WriterKnowsAt(p)'
  <2>1. PICK e : e = d
    OBVIOUS
  <2>2. ExtendsHead(e)'
    BY <1>7, <1>8, <2>1, ExtensionStays
  <2>3. draft'[p] = e /\ pc'[p] = "checked"
    BY <1>5, <2>1 DEF IInv, TypeOK, PublishCheck, Goto
  <2>4. ExtendsHead(draft[p])'
    BY <2>2, <2>3 DEF ExtendsHead
  <2> QED
    BY <2>3, <2>4 DEF WriterKnowsAt
<1>10. IsPast(seen[p])'
  BY DEF IInv, SeenIsPast, PublishCheck, IsPast
<1>11. handle'[p] # Nothing => WasCurrent(handle[p])'
  BY <1>7 DEF IInv, ObjectsCurrent, WasCurrent, PublishCheck, IsPast, FilesStay
<1>12. \A q \in Procs \ {p} : /\ pc'[q] = pc[q] /\ handle'[q] = handle[q]
                            /\ seen'[q] = seen[q] /\ draft'[q] = draft[q]
  BY DEF IInv, TypeOK, PublishCheck, Goto
<1>13. records # {} /\ ~lock /\ lock'
  BY DEF PublishCheck
<1> QED
  BY <1>6, <1>7, <1>9, <1>10, <1>11, <1>12, <1>13, StepOfOne

(* The files are there before the record that names them. *)
LEMMA SavePayloadIInv ==
    ASSUME IInv, NEW p \in Procs, SavePayload(p)
    PROVE  IInv'
<1>1. PICK d : d = draft[p]
  OBVIOUS
<1>2. ExtendsHead(d) /\ d \in Chains
  BY <1>1 DEF IInv, TypeOK, WriterKnows, WriterKnowsAt, SavePayload, ExtendsHead, Chains
<1>3. <<Len(d), d[Len(d)].payload>> \in (1..MaxPublications) \X Payloads
  <2>1. Len(d) \in Nat \ {0} /\ d[Len(d)] \in Publications
    BY <1>2, ChainTyped
  <2>2. Len(d) \in 1..MaxPublications
    BY <1>2, <2>1, LimitsAssumption DEF ExtendsHead
  <2>3. d[Len(d)].payload \in Payloads
    BY <2>1 DEF Publications
  <2> QED
    BY <2>2, <2>3
<1>4. payloads' = payloads \cup {<<Len(d), d[Len(d)].payload>>}
  BY <1>1 DEF SavePayload
<1>5. TypeOK'
  BY <1>3, <1>4 DEF IInv, TypeOK, SavePayload, Goto, locks, Writing
<1>6. FilesStay
  BY <1>4 DEF SavePayload, FilesStay
<1>7. WriterKnowsAt(p)'
  <2>1. ExtendsHead(d)'
    BY <1>2, <1>6, ExtensionStays
  <2>2. draft'[p] = d /\ pc'[p] = "paid"
    BY <1>1 DEF IInv, TypeOK, SavePayload, Goto
  <2>3. ExtendsHead(draft[p])'
    BY <2>1, <2>2 DEF ExtendsHead
  <2> QED
    BY <1>4, <2>2, <2>3 DEF WriterKnowsAt
<1>8. IsPast(seen[p])'
  BY DEF IInv, SeenIsPast, SavePayload, IsPast
<1>9. handle'[p] # Nothing => WasCurrent(handle[p])'
  BY <1>6 DEF IInv, ObjectsCurrent, WasCurrent, SavePayload, IsPast, FilesStay
<1>10. \A q \in Procs \ {p} : /\ pc'[q] = pc[q] /\ handle'[q] = handle[q]
                            /\ seen'[q] = seen[q] /\ draft'[q] = draft[q]
  BY DEF IInv, TypeOK, SavePayload, Goto
<1>11. records # {} /\ pc[p] \in Writing /\ lock /\ lock'
  BY DEF IInv, NothingBeforeCreate, WriterExclusion, SavePayload, locks, Writing
<1> QED
  BY <1>5, <1>6, <1>7, <1>8, <1>9, <1>10, <1>11, StepOfOne

LEMMA SavePublicationIInv ==
    ASSUME IInv, NEW p \in Procs, SavePublication(p)
    PROVE  IInv'
<1>1. PICK d : d = draft[p]
  OBVIOUS
<1>2. ExtendsHead(d) /\ d \in Chains
  BY <1>1 DEF IInv, TypeOK, WriterKnows, WriterKnowsAt, SavePublication, ExtendsHead, Chains
<1>3. publications' = publications \cup {d}
  BY <1>1 DEF SavePublication
<1>4. TypeOK'
  BY <1>2, <1>3 DEF IInv, TypeOK, SavePublication, Goto, locks, Writing, Chains
<1>5. FilesStay
  BY <1>3 DEF SavePublication, FilesStay
<1>6. WriterKnowsAt(p)'
  <2>1. ExtendsHead(d)'
    BY <1>2, <1>5, ExtensionStays
  <2>2. draft'[p] = d /\ pc'[p] = "saved"
    BY <1>1 DEF IInv, TypeOK, SavePublication, Goto
  <2>3. ExtendsHead(draft[p])'
    BY <2>1, <2>2 DEF ExtendsHead
  <2>4. <<Len(d), d[Len(d)].payload>> \in payloads'
    BY <1>1 DEF IInv, WriterKnows, WriterKnowsAt, SavePublication
  <2> QED
    BY <1>3, <2>2, <2>3, <2>4 DEF WriterKnowsAt
<1>7. IsPast(seen[p])'
  BY DEF IInv, SeenIsPast, SavePublication, IsPast
<1>8. handle'[p] # Nothing => WasCurrent(handle[p])'
  BY <1>5 DEF IInv, ObjectsCurrent, WasCurrent, SavePublication, IsPast, FilesStay
<1>9. \A q \in Procs \ {p} : /\ pc'[q] = pc[q] /\ handle'[q] = handle[q]
                            /\ seen'[q] = seen[q] /\ draft'[q] = draft[q]
  BY DEF IInv, TypeOK, SavePublication, Goto
<1>10. records # {} /\ pc[p] \in Writing /\ lock /\ lock'
  BY DEF IInv, NothingBeforeCreate, WriterExclusion, SavePublication, locks, Writing
<1> QED
  BY <1>4, <1>5, <1>6, <1>7, <1>8, <1>9, <1>10, StepOfOne

(* The record of a draft that extends the directory: what opens afterwards,  *)
(* and what the record says.                                                 *)
LEMMA CommitExtends ==
    ASSUME TypeOK, NEW d \in Chains, ExtendsHead(d), d \in publications,
           <<Len(d), d[Len(d)].payload>> \in payloads,
           records' = records \cup {d}, publications' = publications,
           payloads' = payloads, trust' = trust
    PROVE  /\ Opens(trust, d)'
           /\ \A g \in records : /\ Len(g) < Len(d)
                                 /\ SubSeq(d, 1, Len(g)) = g
                                 /\ \A i \in 1..Len(g) : g[i] = d[i]
           /\ \E g \in records : Len(d) = Len(g) + 1
           /\ \A i \in 1..Len(d) : d[i].bundle <= Len(trust)
<1> DEFINE x == d[Len(d)]
<1>1. PICK c \in records : Opens(trust, c) /\ d = Append(c, x)
  BY DEF ExtendsHead
<1>2. c \in Chains /\ x \in Publications /\ Len(d) \in Nat \ {0} /\ Len(d) \in 1..Len(d)
  <2>1. c \in Chains
    BY DEF TypeOK, Chains
  <2> QED
    BY <2>1, ChainTyped
<1>3. /\ Len(Append(c, x)) = Len(c) + 1 /\ Append(c, x)[Len(c) + 1] = x
      /\ \A i \in 1..Len(c) : Append(c, x)[i] = c[i]
      /\ \A i \in 1..Len(c) : SubSeq(Append(c, x), 1, i) = SubSeq(c, 1, i)
      /\ PrefixesOf(Append(c, x)) = PrefixesOf(c) \cup {Append(c, x)}
      /\ 1..Len(Append(c, x)) = 1..Len(c) \cup {Len(c) + 1}
  BY <1>2, AppendTyped
<1> HIDE DEF x
<1>4. /\ Len(d) = Len(c) + 1 /\ d[Len(d)] = x /\ x.bundle = Len(trust)
      /\ \A i \in 1..Len(c) : d[i] = c[i] /\ SubSeq(d, 1, i) = SubSeq(c, 1, i)
      /\ PrefixesOf(d) = PrefixesOf(c) \cup {d}
      /\ 1..Len(d) = 1..Len(c) \cup {Len(d)}
  BY <1>1, <1>3 DEF ExtendsHead, x
<1>5. /\ records = PrefixesOf(c)
      /\ \A g \in records : /\ g \in Chains
                            /\ Len(g) \in 1..Len(c)
                            /\ g = SubSeq(c, 1, Len(g))
                            /\ \A i \in 1..Len(g) : g[i] = c[i]
  BY <1>1, <1>2, OpensChain
<1>6. /\ Len(c) \in Nat \ {0} /\ Len(trust) \in Nat
      /\ \A i \in 1..Len(c) : c[i].bundle \in 1..Len(trust)
  <2>1. \A i \in 1..Len(c) : c[i].bundle \in 1..Len(trust)
    BY <1>1 DEF Opens
  <2>2. Len(trust) \in Nat
    BY DEF TypeOK
  <2>3. Len(c) \in Nat \ {0}
    BY <1>2, ChainTyped
  <2> QED
    BY <2>1, <2>2, <2>3
<1>7. Len(trust) \in 1..Len(trust)
  BY <1>6
<1>8. \A i \in 1..Len(d) : d[i].bundle \in 1..Len(trust)
  BY <1>4, <1>6, <1>7
<1>9. \A i \in 1..Len(d) : i > 1 => d[i - 1].bundle <= d[i].bundle
  <2> SUFFICES ASSUME NEW i \in 1..Len(d), i > 1 PROVE d[i - 1].bundle <= d[i].bundle
    OBVIOUS
  <2>1. i - 1 \in 1..Len(c)
    BY <1>4, <1>6
  <2>2. CASE i = Len(d)
    BY <1>4, <1>6, <2>1, <2>2
  <2>3. CASE i # Len(d)
    <3>1. i \in 1..Len(c)
      BY <1>4, <2>3
    <3> QED
      BY <1>1, <1>4, <2>1, <3>1 DEF Opens
  <2> QED
    BY <2>2, <2>3
<1>10. \A i \in 1..Len(d) : Verified(trust, d, i)
  BY <1>1, <1>4 DEF Opens, Verified, ExtendsHead
<1>11. \A i \in 1..Len(d) : SubSeq(d, 1, i) \in publications
  <2>1. SubSeq(d, 1, Len(d)) = d
    BY WholeIsPrefix DEF Chains
  <2> QED
    BY <1>1, <1>4, <2>1 DEF Opens
<1>12. \A i \in 1..Len(d) : <<i, d[i].payload>> \in payloads
  BY <1>1, <1>4 DEF Opens
<1>13. records' = {SubSeq(d, 1, i) : i \in 1..Len(d)}
  BY <1>4, <1>5 DEF PrefixesOf
<1>14. Opens(trust, d)'
  BY <1>8, <1>9, <1>10, <1>11, <1>12, <1>13 DEF Opens, ExtendsHead, Verified
<1>15. \A g \in records : /\ Len(g) < Len(d) /\ SubSeq(d, 1, Len(g)) = g
                          /\ \A i \in 1..Len(g) : g[i] = d[i]
  <2> TAKE g \in records
  <2>1. Len(g) \in 1..Len(c) /\ Len(g) < Len(d)
    BY <1>4, <1>5, <1>6
  <2>2. \A i \in 1..Len(g) : i \in 1..Len(c)
    BY <2>1, <1>6
  <2> QED
    BY <1>4, <1>5, <2>1, <2>2
<1>16. \E g \in records : Len(d) = Len(g) + 1
  BY <1>4
<1>17. \A i \in 1..Len(d) : d[i].bundle <= Len(trust)
  BY <1>6, <1>8
<1> QED
  BY <1>14, <1>15, <1>16, <1>17

(* The objects that are older than the record stay a moment of the           *)
(* directory: the record comes after all that was there, under a bundle that *)
(* is not before theirs.                                                     *)
LEMMA CommitRecordIInv ==
    ASSUME IInv, NEW p \in Procs, CommitRecord(p)
    PROVE  IInv'
<1>1. PICK d : d = draft[p]
  OBVIOUS
<1>2. /\ d \in Chains /\ ExtendsHead(d) /\ d \in publications
      /\ <<Len(d), d[Len(d)].payload>> \in payloads
  BY <1>1 DEF IInv, TypeOK, WriterKnows, WriterKnowsAt, CommitRecord, ExtendsHead, Chains
<1>3. /\ records' = records \cup {d} /\ publications' = publications
      /\ payloads' = payloads /\ trust' = trust /\ handle' = handle /\ seen' = seen
      /\ draft' = draft /\ lock' = lock /\ trustLock' = trustLock
  BY <1>1 DEF CommitRecord, locks
<1>4. TypeOK'
  BY <1>2, <1>3 DEF IInv, TypeOK, CommitRecord, Goto, Writing, Chains
<1>5. /\ Opens(trust, d)'
      /\ \A g \in records : /\ Len(g) < Len(d)
                            /\ SubSeq(d, 1, Len(g)) = g
                            /\ \A i \in 1..Len(g) : g[i] = d[i]
      /\ \E g \in records : Len(d) = Len(g) + 1
      /\ \A i \in 1..Len(d) : d[i].bundle <= Len(trust)
  BY <1>2, <1>3, CommitExtends DEF IInv
<1>6. HistoryOpens'
  BY <1>3, <1>5 DEF HistoryOpens
<1>7. \A g \in records : g \in Chains /\ Len(g) \in Nat \ {0} /\ Len(g) \in 1..Len(g)
  <2>1. \A g \in records : g \in Chains
    BY DEF IInv, TypeOK, Chains
  <2> QED
    BY <2>1, ChainTyped
<1>8. Len(d) \in Nat \ {0} /\ \A i \in 1..Len(d) : d[i].bundle \in Nat
  BY <1>2, ChainTyped
<1>9. BundlesInOrder'
  <2> SUFFICES ASSUME NEW i \in 1..Len(d), NEW j \in 1..Len(d), i <= j
               PROVE  d[i].bundle <= d[j].bundle
    BY <1>3 DEF IInv, BundlesInOrder
  <2>1. CASE j = Len(d)
    BY <1>2, <1>5, <2>1 DEF ExtendsHead
  <2>2. CASE j # Len(d)
    <3>1. PICK g \in records : Len(d) = Len(g) + 1
      BY <1>5
    <3>2. i \in 1..Len(g) /\ j \in 1..Len(g)
      BY <1>7, <1>8, <2>2, <3>1
    <3>3. g[i].bundle <= g[j].bundle
      BY <3>2 DEF IInv, BundlesInOrder
    <3> QED
      BY <1>5, <3>2, <3>3
  <2> QED
    BY <2>1, <2>2
<1>10. ObjectsCurrent'
  <2> SUFFICES ASSUME NEW q \in Procs, handle[q] # Nothing PROVE WasCurrent(handle[q])'
    BY <1>3 DEF ObjectsCurrent
  <2>1. PICK held : held = handle[q]
    OBVIOUS
  <2>2. WasCurrent(held) /\ held.trust \in Trusts
    BY <2>1 DEF IInv, ObjectsCurrent, TypeOK, Trusts
  <2>3. PICK n : n = Len(held.chain)
    OBVIOUS
  <2>4. held.chain \in records /\ n \in 1..n /\ n < Len(d) /\ SubSeq(d, 1, n) = held.chain
    BY <1>5, <1>7, <2>2, <2>3 DEF WasCurrent
  <2>5. d[n + 1].bundle >= Len(held.trust)
    <3>1. PICK g \in records : Len(d) = Len(g) + 1
      BY <1>5
    <3>2. Len(g) \in Nat /\ Len(held.trust) <= Len(trust) /\ n \in Nat
      BY <1>7, <2>2, <2>3 DEF WasCurrent, IsPast
    <3>3. CASE Len(g) > n
      <4>1. g[n + 1].bundle >= Len(held.trust) /\ n + 1 \in 1..Len(g)
        BY <2>2, <2>3, <3>2, <3>3 DEF WasCurrent
      <4> QED
        BY <1>5, <4>1
    <3>4. CASE ~(Len(g) > n)
      <4>1. n + 1 = Len(d)
        BY <1>8, <2>4, <3>1, <3>2, <3>4
      <4>2. d[n + 1].bundle = Len(trust)
        BY <1>2, <4>1 DEF ExtendsHead
      <4>3. Len(held.trust) \in Nat /\ Len(trust) \in Nat
        BY <2>2 DEF Trusts, IInv, TypeOK
      <4> QED
        BY <3>2, <4>2, <4>3
    <3> QED
      BY <3>3, <3>4
  <2>6. WasCurrent(held)'
    BY <1>3, <2>2, <2>3, <2>4, <2>5 DEF WasCurrent, IsPast
  <2> QED
    BY <1>3, <2>1, <2>6 DEF WasCurrent, IsPast
<1>11. pc[p] = "saved" /\ pc' = [pc EXCEPT ![p] = "committed"]
  BY DEF CommitRecord, Goto
<1>12. WriterExclusion'
  BY <1>3, <1>11 DEF IInv, TypeOK, WriterExclusion, Writing
<1>13. WriterKnows'
  BY <1>11, <1>12 DEF IInv, TypeOK, WriterExclusion, WriterKnows, WriterKnowsAt, Writing
<1>14. NothingBeforeCreate' /\ SeenIsPast' /\ (Len(trust) <= MaxBundles)'
  BY <1>3 DEF IInv, NothingBeforeCreate, SeenIsPast, IsPast
<1> QED
  BY <1>4, <1>6, <1>9, <1>10, <1>12, <1>13, <1>14 DEF IInv

(* The object becomes what the directory opens with. *)
LEMMA PublishReturnsIInv ==
    ASSUME IInv, NEW p \in Procs, PublishReturns(p)
    PROVE  IInv'
<1>1. PICK d, T : d = draft[p] /\ T = trust
  OBVIOUS
<1>2. d \in Chains /\ Opens(T, d) /\ IsPast(T)
  BY <1>1, PastOfItself DEF IInv, TypeOK, PublishReturns, Opens, Chains, Trusts
<1>3. TypeOK'
  <2>1. /\ <<>> \in Seq(Publications)
        /\ [trust |-> T, chain |-> d] \in [trust : Seq([Keys -> Entries]), chain : Seq(Publications)]
    BY <1>1 DEF IInv, TypeOK
  <2>2. /\ handle' = [handle EXCEPT ![p] = [trust |-> T, chain |-> d]]
        /\ draft' = [draft EXCEPT ![p] = <<>>] /\ pc' = [pc EXCEPT ![p] = "open"]
        /\ lock' = FALSE /\ trustLock' = trustLock /\ seen' = seen /\ trust' = trust
        /\ records' = records /\ publications' = publications /\ payloads' = payloads
    BY <1>1 DEF PublishReturns, Goto, files
  <2> QED
    BY <2>1, <2>2 DEF IInv, TypeOK
<1>4. FilesStay
  BY DEF PublishReturns, files, FilesStay
<1>5. handle'[p] # Nothing => WasCurrent(handle[p])'
  <2>1. WasCurrent([trust |-> T, chain |-> d])
    BY <1>2, OpenedIsCurrent
  <2>2. handle'[p] = [trust |-> T, chain |-> d]
    BY <1>1 DEF IInv, TypeOK, PublishReturns
  <2> QED
    BY <1>4, <2>1, <2>2 DEF WasCurrent, IsPast, FilesStay
<1>6. WriterKnowsAt(p)' /\ pc'[p] \notin Writing
  BY DEF WriterKnowsAt, PublishReturns, Goto, IInv, TypeOK, Writing
<1>7. IsPast(seen[p])'
  BY DEF IInv, SeenIsPast, PublishReturns, IsPast
<1>8. \A q \in Procs \ {p} : /\ pc'[q] = pc[q] /\ handle'[q] = handle[q]
                            /\ seen'[q] = seen[q] /\ draft'[q] = draft[q]
  BY DEF IInv, TypeOK, PublishReturns, Goto
<1>9. records # {} /\ pc[p] \in Writing
  BY DEF IInv, NothingBeforeCreate, PublishReturns, Writing
<1> QED
  BY <1>3, <1>4, <1>5, <1>6, <1>7, <1>8, <1>9, StepOfOne

-----------------------------------------------------------------------------
(* rotate_trust() under the lock of the directory. *)
LEMMA RotateCheckIInv ==
    ASSUME IInv, NEW p \in Procs, RotateCheck(p)
    PROVE  IInv'
<1>1. TypeOK'
  BY DEF IInv, TypeOK, RotateCheck, Goto, files, Writing
<1>2. FilesStay
  BY DEF RotateCheck, files, FilesStay
<1>3. IsPast(seen[p])'
  BY DEF IInv, SeenIsPast, RotateCheck, IsPast
<1>4. handle'[p] # Nothing => WasCurrent(handle[p])'
  BY <1>2 DEF IInv, ObjectsCurrent, WasCurrent, RotateCheck, IsPast, FilesStay
<1>5. WriterKnowsAt(p)'
  BY DEF WriterKnowsAt, RotateCheck, Goto, IInv, TypeOK
<1>6. \A q \in Procs \ {p} : /\ pc'[q] = pc[q] /\ handle'[q] = handle[q]
                            /\ seen'[q] = seen[q] /\ draft'[q] = draft[q]
  BY DEF IInv, TypeOK, RotateCheck, Goto
<1>7. records # {} /\ ~lock /\ lock'
  <2>1. PICK c : c = handle[p].chain
    OBVIOUS
  <2>2. Opens(trust, c) /\ c \in Chains
    BY <2>1 DEF RotateCheck, Opens, Chains, IInv, TypeOK
  <2>3. records # {}
    BY <2>2, OpensChain
  <2> QED
    BY <2>3 DEF RotateCheck
<1> QED
  BY <1>1, <1>2, <1>3, <1>4, <1>5, <1>6, <1>7, StepOfOne

LEMMA EnterTrustIInv ==
    ASSUME IInv, NEW p \in Procs, EnterTrust(p)
    PROVE  IInv'
<1>1. TypeOK'
  BY DEF IInv, TypeOK, EnterTrust, Goto, files, Writing
<1>2. FilesStay
  BY DEF EnterTrust, files, FilesStay
<1>3. IsPast(seen[p])'
  BY DEF IInv, SeenIsPast, EnterTrust, IsPast
<1>4. handle'[p] # Nothing => WasCurrent(handle[p])'
  BY <1>2 DEF IInv, ObjectsCurrent, WasCurrent, EnterTrust, IsPast, FilesStay
<1>5. WriterKnowsAt(p)'
  BY DEF WriterKnowsAt, EnterTrust, Goto, IInv, TypeOK
<1>6. \A q \in Procs \ {p} : /\ pc'[q] = pc[q] /\ handle'[q] = handle[q]
                            /\ seen'[q] = seen[q] /\ draft'[q] = draft[q]
  BY DEF IInv, TypeOK, EnterTrust, Goto
<1>7. records # {} /\ pc[p] \in Writing /\ lock'
  BY DEF IInv, NothingBeforeCreate, WriterExclusion, EnterTrust, Writing
<1> QED
  BY <1>1, <1>2, <1>3, <1>4, <1>5, <1>6, <1>7, StepOfOne

(* A rotation: what was published before it opens under it, and nobody is    *)
(* between the check of a publication and its commit.                        *)
LEMMA CommitRotationIInv ==
    ASSUME IInv, NEW p \in Procs, NEW table \in Tables, CommitRotation(p, table)
    PROVE  IInv'
<1>1. table \in [Keys -> Entries]
  BY SuccessorsAssumption
<1>2. /\ trust' = Append(trust, table) /\ trustLock' = FALSE /\ lock' = lock
      /\ records' = records /\ publications' = publications /\ payloads' = payloads
      /\ handle' = handle /\ seen' = seen /\ draft' = draft
      /\ pc[p] = "entered" /\ pc' = [pc EXCEPT ![p] = "rotated"]
  BY DEF CommitRotation, Goto, files
<1>3. trust \in Trusts /\ Len(trust') = Len(trust) + 1 /\ Len(trust) \in Nat
  BY <1>1, <1>2 DEF IInv, TypeOK, Trusts
<1>4. TypeOK'
  <2>1. Append(trust, table) \in Seq([Keys -> Entries])
    BY <1>1, <1>3 DEF Trusts
  <2>2. pc' \in [Procs -> Writing \cup {"closed", "open", "opening"}]
    BY <1>2 DEF IInv, TypeOK, Writing
  <2> QED
    BY <1>2, <2>1, <2>2 DEF IInv, TypeOK
<1>5. (Len(trust) <= MaxBundles)'
  <2>1. Len(trust) < MaxBundles
    BY <1>2 DEF IInv, WriterKnows, WriterKnowsAt
  <2> QED
    BY <1>3, <2>1, LimitsAssumption
<1>6. HistoryOpens'
  <2> SUFFICES ASSUME records # {} PROVE \E c \in records' : Opens(trust, c)'
    BY <1>2 DEF HistoryOpens
  <2>1. PICK T : T = trust
    OBVIOUS
  <2>2. PICK c \in records : Opens(T, c)
    BY <2>1 DEF IInv, HistoryOpens
  <2>3. Opens(Append(T, table), c)
    BY <1>1, <1>3, <2>1, <2>2, OpensUnderLonger
  <2> QED
    BY <1>2, <2>1, <2>3 DEF Opens
<1>7. \A T \in Trusts : IsPast(T) => IsPast(T)'
  BY <1>1, <1>2, <1>3, PastStays
<1>8. SeenIsPast'
  <2> SUFFICES ASSUME NEW q \in Procs PROVE IsPast(seen[q])'
    BY DEF SeenIsPast
  <2>1. PICK T : T = seen[q]
    OBVIOUS
  <2>2. IsPast(T)'
    BY <1>7, <2>1 DEF IInv, SeenIsPast, TypeOK, Trusts
  <2> QED
    BY <1>2, <2>1, <2>2 DEF IsPast
<1>9. ObjectsCurrent'
  <2> SUFFICES ASSUME NEW q \in Procs, handle[q] # Nothing PROVE WasCurrent(handle[q])'
    BY <1>2 DEF ObjectsCurrent
  <2>1. PICK held : held = handle[q]
    OBVIOUS
  <2>2. WasCurrent(held) /\ held.trust \in Trusts
    BY <2>1 DEF IInv, ObjectsCurrent, TypeOK, Trusts
  <2>3. IsPast(held.trust)'
    BY <1>7, <2>2 DEF WasCurrent
  <2>4. WasCurrent(held)'
    BY <1>2, <2>2, <2>3 DEF WasCurrent
  <2> QED
    BY <1>2, <2>1, <2>4 DEF WasCurrent, IsPast
<1>10. WriterExclusion'
  BY <1>2 DEF IInv, TypeOK, WriterExclusion, Writing
<1>11. WriterKnows'
  BY <1>2, <1>10 DEF IInv, TypeOK, WriterExclusion, WriterKnows, WriterKnowsAt, Writing
<1>12. BundlesInOrder' /\ NothingBeforeCreate'
  BY <1>2 DEF IInv, BundlesInOrder, NothingBeforeCreate, Writing
<1> QED
  BY <1>4, <1>5, <1>6, <1>8, <1>9, <1>10, <1>11, <1>12 DEF IInv

LEMMA RotateReturnsIInv ==
    ASSUME IInv, NEW p \in Procs, RotateReturns(p)
    PROVE  IInv'
<1>1. PICK c, T : c = handle[p].chain /\ T = trust
  OBVIOUS
<1>2. c \in Chains /\ Opens(T, c) /\ IsPast(T) /\ T \in Trusts
  BY <1>1, PastOfItself DEF IInv, TypeOK, RotateReturns, Opens, Chains, Trusts
<1>3. handle' = [handle EXCEPT ![p] = [trust |-> T, chain |-> c]]
  BY <1>1 DEF IInv, TypeOK, RotateReturns
<1>4. TypeOK'
  <2>1. [trust |-> T, chain |-> c] \in [trust : Seq([Keys -> Entries]), chain : Seq(Publications)]
    BY <1>2 DEF Chains, Trusts
  <2>2. /\ pc' = [pc EXCEPT ![p] = "open"] /\ lock' = FALSE /\ trustLock' = trustLock
        /\ seen' = seen /\ trust' = trust /\ draft' = draft
        /\ records' = records /\ publications' = publications /\ payloads' = payloads
    BY DEF RotateReturns, Goto, files
  <2> QED
    BY <1>3, <2>1, <2>2 DEF IInv, TypeOK
<1>5. FilesStay
  BY DEF RotateReturns, files, FilesStay
<1>6. handle'[p] # Nothing => WasCurrent(handle[p])'
  <2>1. WasCurrent([trust |-> T, chain |-> c])
    BY <1>2, OpenedIsCurrent
  <2>2. handle'[p] = [trust |-> T, chain |-> c]
    BY <1>3 DEF IInv, TypeOK
  <2> QED
    BY <1>5, <2>1, <2>2 DEF WasCurrent, IsPast, FilesStay
<1>7. WriterKnowsAt(p)' /\ pc'[p] \notin Writing
  BY DEF WriterKnowsAt, RotateReturns, Goto, IInv, TypeOK, Writing
<1>8. IsPast(seen[p])'
  BY DEF IInv, SeenIsPast, RotateReturns, IsPast
<1>9. \A q \in Procs \ {p} : /\ pc'[q] = pc[q] /\ handle'[q] = handle[q]
                            /\ seen'[q] = seen[q] /\ draft'[q] = draft[q]
  BY DEF IInv, TypeOK, RotateReturns, Goto
<1>10. records # {} /\ pc[p] \in Writing
  BY DEF IInv, NothingBeforeCreate, RotateReturns, Writing
<1> QED
  BY <1>4, <1>5, <1>6, <1>7, <1>8, <1>9, <1>10, StepOfOne

(* A failed call leaves its files and releases its locks. *)
LEMMA WriteFailsIInv ==
    ASSUME IInv, NEW p \in Procs, WriteFails(p)
    PROVE  IInv'
<1>1. TypeOK'
  <2>1. <<>> \in Seq(Publications)
    OBVIOUS
  <2>2. /\ pc' = [pc EXCEPT ![p] = "open"] /\ lock' = FALSE /\ trustLock' \in BOOLEAN
        /\ seen' = seen /\ trust' = trust /\ draft' = [draft EXCEPT ![p] = <<>>]
        /\ records' = records /\ publications' = publications /\ payloads' = payloads
        /\ handle' = handle
    BY DEF WriteFails, Goto, files
  <2> QED
    BY <2>1, <2>2 DEF IInv, TypeOK
<1>2. FilesStay
  BY DEF WriteFails, files, FilesStay
<1>3. IsPast(seen[p])'
  BY DEF IInv, SeenIsPast, WriteFails, IsPast
<1>4. handle'[p] # Nothing => WasCurrent(handle[p])'
  BY <1>2 DEF IInv, ObjectsCurrent, WasCurrent, WriteFails, IsPast, FilesStay
<1>5. WriterKnowsAt(p)' /\ pc'[p] \notin Writing
  BY DEF WriterKnowsAt, WriteFails, Goto, IInv, TypeOK, Writing
<1>6. \A q \in Procs \ {p} : /\ pc'[q] = pc[q] /\ handle'[q] = handle[q]
                            /\ seen'[q] = seen[q] /\ draft'[q] = draft[q]
  BY DEF IInv, TypeOK, WriteFails, Goto
<1>7. records # {} /\ pc[p] \in Writing
  BY DEF IInv, NothingBeforeCreate, WriteFails
<1> QED
  BY <1>1, <1>2, <1>3, <1>4, <1>5, <1>6, <1>7, StepOfOne

-----------------------------------------------------------------------------
(* A process that dies leaves its files and its locks. *)
LEMMA CrashIInv ==
    ASSUME IInv, NEW p \in Procs, Crash(p)
    PROVE  IInv'
<1>1. TypeOK'
  <2>1. /\ <<>> \in Seq(Publications) /\ <<>> \in Seq([Keys -> Entries])
        /\ Nothing \in [trust : Seq([Keys -> Entries]), chain : Seq(Publications)]
    BY DEF Nothing
  <2>2. /\ pc' = [pc EXCEPT ![p] = "closed"] /\ lock' = lock /\ trustLock' = trustLock
        /\ seen' = [seen EXCEPT ![p] = <<>>] /\ draft' = [draft EXCEPT ![p] = <<>>]
        /\ handle' = [handle EXCEPT ![p] = Nothing] /\ trust' = trust
        /\ records' = records /\ publications' = publications /\ payloads' = payloads
    BY DEF Crash, Goto, files, locks
  <2> QED
    BY <2>1, <2>2 DEF IInv, TypeOK
<1>2. FilesStay
  BY DEF Crash, files, FilesStay
<1>3. IsPast(seen[p])' /\ seen'[p] = <<>>
  BY PastOfItself DEF IInv, TypeOK, Crash, IsPast, Trusts
<1>4. handle'[p] = Nothing
  BY DEF IInv, TypeOK, Crash
<1>5. WriterKnowsAt(p)' /\ pc'[p] \notin Writing
  BY DEF WriterKnowsAt, Crash, Goto, IInv, TypeOK, Writing
<1>6. \A q \in Procs \ {p} : /\ pc'[q] = pc[q] /\ handle'[q] = handle[q]
                            /\ seen'[q] = seen[q] /\ draft'[q] = draft[q]
  BY DEF IInv, TypeOK, Crash, Goto
<1>7. lock => lock'
  BY DEF Crash, locks
<1> QED
  BY <1>1, <1>2, <1>3, <1>4, <1>5, <1>6, <1>7, StepOfOne

(* The operator clears locks that nobody holds. *)
LEMMA OperatorIInv ==
    ASSUME IInv, OperatorClearsLocks
    PROVE  IInv'
<1>1. /\ \A p \in Procs : pc[p] \notin Writing
      /\ pc' = pc /\ handle' = handle /\ seen' = seen /\ draft' = draft /\ trust' = trust
      /\ records' = records /\ publications' = publications /\ payloads' = payloads
      /\ lock' = FALSE /\ trustLock' = FALSE
  BY DEF OperatorClearsLocks, files
<1>2. TypeOK'
  BY <1>1 DEF IInv, TypeOK
<1>3. FilesStay
  BY <1>1 DEF FilesStay
<1>4. HistoryOpens' /\ BundlesInOrder' /\ (Len(trust) <= MaxBundles)'
  BY <1>3, DirectoryStays
<1>5. WriterExclusion' /\ NothingBeforeCreate' /\ SeenIsPast' /\ ObjectsCurrent'
  BY <1>1 DEF IInv, WriterExclusion, NothingBeforeCreate, SeenIsPast, ObjectsCurrent,
     WasCurrent, IsPast
<1>6. WriterKnows'
  BY <1>1 DEF WriterKnows, WriterKnowsAt, Writing
<1> QED
  BY <1>2, <1>4, <1>5, <1>6 DEF IInv

LEMMA StutterIInv ==
    ASSUME IInv, UNCHANGED vars
    PROVE  IInv'
BY DEF IInv, TypeOK, NothingBeforeCreate, WriterExclusion, HistoryOpens, BundlesInOrder,
   SeenIsPast, WriterKnows, WriterKnowsAt, ObjectsCurrent, WasCurrent, IsPast,
   ExtendsHead, Opens, vars, files, locks

LEMMA NextIInv == IInv /\ [Next]_vars => IInv'
<1> SUFFICES ASSUME IInv, [Next]_vars PROVE IInv'
  OBVIOUS
<1>1. ASSUME NEW p \in Procs, NEW s \in Sources, NEW r \in Publications, Create(p, s, r)
      PROVE  IInv'
  BY <1>1, CreateIInv
<1>2. ASSUME NEW p \in Procs, Open(p) PROVE IInv'
  BY <1>2, OpenTrustIInv, OpenFailsIInv, OpenRecordsIInv DEF Open
<1>3. ASSUME NEW p \in Procs, Publish(p) PROVE IInv'
  BY <1>3, PublishCheckIInv, SavePayloadIInv, SavePublicationIInv, CommitRecordIInv,
     PublishReturnsIInv DEF Publish
<1>4. ASSUME NEW p \in Procs, RotateTrust(p) PROVE IInv'
  BY <1>4, RotateCheckIInv, EnterTrustIInv, CommitRotationIInv, RotateReturnsIInv
     DEF RotateTrust
<1>5. ASSUME NEW p \in Procs, WriteFails(p) \/ Crash(p) PROVE IInv'
  BY <1>5, WriteFailsIInv, CrashIInv
<1> QED
  BY <1>1, <1>2, <1>3, <1>4, <1>5, OperatorIInv, StutterIInv DEF Next

(* The invariant holds in every state that the program reaches. *)
THEOREM Invariance == Spec => []IInv
<1> QED
  BY InitIInv, NextIInv, PTL DEF Spec

(* What create(), open(), publish() and rotate_trust() keep has its type. *)
THEOREM TypeCorrect == Spec => []TypeOK
<1>1. IInv => TypeOK
  BY DEF IInv
<1> QED
  BY <1>1, Invariance, PTL

(* Whatever publish() and rotate_trust() leave behind, interrupted or not,   *)
(* open() accepts.                                                           *)
THEOREM AlwaysOpens == Spec => []HistoryOpens
<1>1. IInv => HistoryOpens
  BY DEF IInv
<1> QED
  BY <1>1, Invariance, PTL

(* What open() read in two halves and without the lock is one moment of the  *)
(* directory, however many rotations and publications came between.          *)
THEOREM ObjectsAreOneMoment == Spec => []ObjectsWereCurrent
<1>1. IInv => ObjectsWereCurrent
  BY DEF IInv, ObjectsCurrent, WasCurrent, IsPast, ObjectsWereCurrent
<1> QED
  BY <1>1, Invariance, PTL

(* No rotation comes between the check of a publication and its commit. *)
THEOREM SignedUnderCurrentBundle == Spec => SignedUnderHead
<1> DEFINE A == records # {} =>
                   \A c \in records' \ records :
                      c[Len(c)].bundle = Len(trust) /\ Verified(trust, c, Len(c))
<1>1. IInv /\ [Next]_vars => [A]_<<records, trust>>
  <2> SUFFICES ASSUME IInv, [Next]_vars, records # {}, NEW c \in records' \ records
               PROVE  c[Len(c)].bundle = Len(trust) /\ Verified(trust, c, Len(c))
    OBVIOUS
  <2>1. PICK p \in Procs : CommitRecord(p)
    BY ZenonT(30) DEF Next, vars, files, Create, Open, OpenTrust, OpenRecords, OpenFails, Publish,
       PublishCheck, SavePayload, SavePublication, PublishReturns, RotateTrust,
       RotateCheck, EnterTrust, CommitRotation, RotateReturns, WriteFails, Crash,
       OperatorClearsLocks
  <2>2. c = draft[p] /\ ExtendsHead(draft[p])
    BY <2>1 DEF CommitRecord, IInv, WriterKnows, WriterKnowsAt
  <2> QED
    BY <2>2 DEF ExtendsHead
<1> QED
  BY <1>1, Invariance, PTL DEF Spec, SignedUnderHead

-----------------------------------------------------------------------------
(* What the audit says of two beginnings of one chain. *)
LEMMA RelationOfPrefixes ==
    ASSUME NEW S, NEW c \in Seq(S), NEW m \in 0..Len(c), NEW n \in 0..Len(c),
           NEW s, s = SubSeq(c, 1, m), NEW t, t = SubSeq(c, 1, n)
    PROVE  /\ Relation(s, t) # "forked"
           /\ Relation(s, t) = "first extends second" => Len(t) < Len(s)
           /\ Relation(s, t) = "second extends first" => Len(s) < Len(t)
<1>1. Len(s) = m /\ Len(t) = n /\ m \in Nat /\ n \in Nat
  OBVIOUS
<1>2. CASE m = n
  <2>1. s = t
    BY <1>2
  <2>2. ~(Len(t) < Len(s)) /\ ~(Len(s) < Len(t))
    BY <1>1, <1>2
  <2>3. Relation(s, t) = "identical"
    BY <2>1, <2>2, Zenon DEF Relation
  <2> QED
    BY <2>3
<1>3. CASE n < m
  <2>1. Len(t) < Len(s) /\ ~(Len(s) < Len(t)) /\ s # t
    BY <1>1, <1>3
  <2>2. t = SubSeq(s, 1, Len(t))
    BY <1>1, <1>3
  <2>3. Relation(s, t) = "first extends second"
    BY <2>1, <2>2, Zenon DEF Relation
  <2> QED
    BY <2>1, <2>3
<1>4. CASE m < n
  <2>1. Len(s) < Len(t) /\ ~(Len(t) < Len(s)) /\ s # t
    BY <1>1, <1>4
  <2>2. s = SubSeq(t, 1, Len(s))
    BY <1>1, <1>4
  <2>3. Relation(s, t) = "second extends first"
    BY <2>1, <2>2, Zenon DEF Relation
  <2> QED
    BY <2>1, <2>3
<1>5. m = n \/ n < m \/ m < n
  BY <1>1
<1> QED
  BY <1>2, <1>3, <1>4, <1>5

(* An object with more publications than another knows all of its bundles.   *)
LEMMA MorePublicationsMoreTrust ==
    ASSUME IInv, NEW a, NEW b, WasCurrent(a), WasCurrent(b), b.trust \in Trusts,
           Len(b.chain) < Len(a.chain)
    PROVE  Len(b.trust) <= Len(a.trust)
<1> DEFINE n == Len(b.chain)
           m == Len(a.chain)
<1>1. a.chain \in records /\ b.chain \in records /\ a.chain \in Chains /\ b.chain \in Chains
  BY DEF IInv, TypeOK, Chains, WasCurrent
<1>2. n \in Nat /\ m \in 1..m /\ n + 1 \in 1..m /\ n + 1 <= m
  BY <1>1, ChainTyped
<1>3. a.chain[n + 1].bundle \in Nat /\ a.chain[m].bundle \in Nat
  BY <1>1, <1>2, ChainTyped
<1>4. a.chain[n + 1].bundle >= Len(b.trust)
  BY <1>1 DEF WasCurrent
<1>5. a.chain[n + 1].bundle <= a.chain[m].bundle
  BY <1>1, <1>2 DEF IInv, BundlesInOrder
<1>6. a.chain[m].bundle <= Len(a.trust) /\ Len(a.trust) <= Len(trust) /\ Len(a.trust) \in Nat
  BY DEF WasCurrent, IsPast, IInv, TypeOK
<1>7. Len(b.trust) \in Nat
  BY DEF Trusts
<1>8. \A x, y, u, v \in Nat : x >= u /\ x <= y /\ y <= v => u <= v
  OBVIOUS
<1> QED
  BY <1>3, <1>4, <1>5, <1>6, <1>7, <1>8, SMTT(30)

(* The audit of two objects of one directory detects no fork and does not    *)
(* contradict itself about which of them is ahead.                           *)
THEOREM AuditsNeverFork == Spec => []AuditsAgree
<1>1. IInv => AuditsAgree
  <2> SUFFICES ASSUME IInv, NEW p \in Procs, NEW q \in Procs,
                      handle[p] # Nothing, handle[q] # Nothing
               PROVE  /\ "forked" \notin {Audit(p, q).publications, Audit(p, q).trust}
                      /\ {Audit(p, q).publications, Audit(p, q).trust}
                            # {"first extends second", "second extends first"}
    BY DEF AuditsAgree
  <2>1. PICK a, b : a = handle[p] /\ b = handle[q]
    OBVIOUS
  <2>2. /\ WasCurrent(a) /\ WasCurrent(b) /\ a.trust \in Trusts /\ b.trust \in Trusts
    BY <2>1 DEF IInv, ObjectsCurrent, TypeOK, Trusts
  <2> DEFINE ps == Relation(a.chain, b.chain)
             ts == Relation(a.trust, b.trust)
  <2>3. Audit(p, q).publications = ps /\ Audit(p, q).trust = ts
    BY <2>1 DEF Audit
  <2>4. /\ ps # "forked"
        /\ ps = "first extends second" => Len(b.chain) < Len(a.chain)
        /\ ps = "second extends first" => Len(a.chain) < Len(b.chain)
    <3>1. PICK c \in records : Opens(trust, c)
      BY <2>2 DEF IInv, HistoryOpens, WasCurrent
    <3>2. c \in Chains
      BY DEF IInv, TypeOK, Chains
    <3>3. \A g \in records : Len(g) \in 1..Len(c) /\ g = SubSeq(c, 1, Len(g))
      BY <3>1, <3>2, OpensChain
    <3>4. a.chain \in records /\ b.chain \in records
      BY <2>2 DEF WasCurrent
    <3>5. Len(a.chain) \in 0..Len(c) /\ Len(b.chain) \in 0..Len(c)
      BY <3>3, <3>4
    <3> QED
      BY <3>2, <3>3, <3>4, <3>5, RelationOfPrefixes DEF Chains
  <2>5. /\ ts # "forked"
        /\ ts = "first extends second" => Len(b.trust) < Len(a.trust)
        /\ ts = "second extends first" => Len(a.trust) < Len(b.trust)
    <3>1. trust \in Trusts
      BY DEF IInv, TypeOK, Trusts
    <3>2. PICK c \in Trusts : c = trust
      BY <3>1
    <3>3. /\ Len(a.trust) \in 0..Len(c) /\ a.trust = SubSeq(c, 1, Len(a.trust))
          /\ Len(b.trust) \in 0..Len(c) /\ b.trust = SubSeq(c, 1, Len(b.trust))
      BY <2>2, <3>2 DEF WasCurrent, IsPast, Trusts
    <3> QED
      BY <3>3, RelationOfPrefixes DEF Trusts
  <2>6. ~(ps = "first extends second" /\ ts = "second extends first")
    <3> SUFFICES ASSUME Len(b.chain) < Len(a.chain), Len(a.trust) < Len(b.trust) PROVE FALSE
      BY <2>4, <2>5
    <3>1. Len(b.trust) <= Len(a.trust)
      BY <2>2, MorePublicationsMoreTrust
    <3> QED
      BY <2>2, <3>1 DEF Trusts
  <2>7. ~(ts = "first extends second" /\ ps = "second extends first")
    <3> SUFFICES ASSUME Len(a.chain) < Len(b.chain), Len(b.trust) < Len(a.trust) PROVE FALSE
      BY <2>4, <2>5
    <3>1. Len(a.trust) <= Len(b.trust)
      BY <2>2, MorePublicationsMoreTrust
    <3> QED
      BY <2>2, <3>1 DEF Trusts
  <2> QED
    BY <2>3, <2>4, <2>5, <2>6, <2>7
<1> QED
  BY <1>1, Invariance, PTL
-----------------------------------------------------------------------------
(* Publications under one bundle, in a directory that may be copied          *)
(* (coordination_history.cpp).                                               *)
CONSTANTS Dirs, MaxInterruptions

VARIABLES fixedRecords, fixedPublications, fixedPayloads, stagedFiles, writerLock,
          place, object, chain, interruptions

Fixed == INSTANCE PublicationHistory WITH
    records <- fixedRecords, publications <- fixedPublications, payloads <- fixedPayloads,
    staged <- stagedFiles, lock <- writerLock, pc <- place, draft <- chain

(* The files of directory d are those of chain c, however many are staged.   *)
Replays(d, c) ==
    /\ fixedRecords[d] = PrefixesOf(c)
    /\ \A i \in 1..Len(c) :
          SubSeq(c, 1, i) \in fixedPublications[d] /\ <<i, c[i]>> \in fixedPayloads[d]

DirectoryReplays(d) == fixedRecords[d] = {} \/ \E c \in Fixed!Chains : Replays(d, c)

FixedTypes ==
    /\ fixedRecords \in [Dirs -> SUBSET Fixed!Chains]
    /\ fixedPublications \in [Dirs -> SUBSET Fixed!Chains]
    /\ fixedPayloads \in [Dirs -> SUBSET (Nat \X Payloads)]
    /\ stagedFiles \in [Dirs -> Int] /\ interruptions \in Nat
    /\ writerLock \in [Dirs -> BOOLEAN]
    /\ place \in [Procs -> Fixed!Writing \cup {"idle"}]
    /\ object \in [Procs -> [dir : Dirs, chain : Fixed!Chains] \cup {Fixed!NoObject}]
    /\ chain \in [Procs -> Fixed!Chains \cup {<<>>}]

(* An object was the directory once; only who has one writes, under the lock. *)
ObjectStands(p) ==
    object[p] # Fixed!NoObject => object[p].chain \in fixedRecords[object[p].dir]
HoldsLock(p) ==
    place[p] \in Fixed!Writing => object[p] # Fixed!NoObject /\ writerLock[object[p].dir]
OneWriter ==
    \A p, q \in Procs :
        /\ place[p] \in Fixed!Writing /\ place[q] \in Fixed!Writing
        /\ object[p].dir = object[q].dir
        => p = q

(* Until its record is in place, a draft is the directory and one more. *)
DraftExtends(p) ==
    place[p] \in {"checked", "paid", "saved", "staged"} =>
        \E c \in Fixed!Chains, e \in Payloads :
            /\ Replays(object[p].dir, c) /\ Len(c) < MaxPublications
            /\ chain[p] = Append(c, e)
            /\ place[p] # "checked" => <<Len(c) + 1, e>> \in fixedPayloads[object[p].dir]
            /\ place[p] \in {"saved", "staged"} => chain[p] \in fixedPublications[object[p].dir]

WritesAt(p) == ObjectStands(p) /\ HoldsLock(p) /\ DraftExtends(p)

FixedInv ==
    /\ FixedTypes
    /\ \A d \in Dirs : DirectoryReplays(d)
    /\ \A p \in Procs : WritesAt(p)
    /\ OneWriter

LEMMA FixedChains ==
    /\ \A c : c \in Fixed!Chains <=> c \in Seq(Payloads) /\ Len(c) \in 1..MaxPublications
    /\ \A c \in Fixed!Chains : c # <<>>
    /\ \A c \in Fixed!Chains, e \in Payloads :
          Len(c) < MaxPublications => Append(c, e) \in Fixed!Chains
    /\ \A e \in Payloads : <<e>> \in Fixed!Chains
<1>1. ASSUME NEW c \in Fixed!Chains
      PROVE  c \in Seq(Payloads) /\ Len(c) \in 1..MaxPublications
  <2>1. PICK n \in 1..MaxPublications : c \in [1..n -> Payloads]
    BY DEF Fixed!Chains
  <2> QED
    BY <2>1, LimitsAssumption
<1>2. ASSUME NEW c \in Seq(Payloads), Len(c) \in 1..MaxPublications
      PROVE  c \in Fixed!Chains
  <2>1. c \in [1..Len(c) -> Payloads]
    OBVIOUS
  <2> QED
    BY <1>2, <2>1 DEF Fixed!Chains
<1>3. \A c : c \in Fixed!Chains <=> c \in Seq(Payloads) /\ Len(c) \in 1..MaxPublications
  BY <1>1, <1>2
<1>4. \A c \in Fixed!Chains : c # <<>>
  BY <1>3
<1>5. ASSUME NEW c \in Fixed!Chains, NEW e \in Payloads, Len(c) < MaxPublications
      PROVE  Append(c, e) \in Fixed!Chains
  <2>1. Append(c, e) \in Seq(Payloads) /\ Len(Append(c, e)) = Len(c) + 1 /\ Len(c) \in Nat
    BY <1>3
  <2>2. Len(Append(c, e)) \in 1..MaxPublications
    BY <1>5, <2>1, LimitsAssumption
  <2> QED
    BY <1>3, <2>1, <2>2
<1>6. ASSUME NEW e \in Payloads
      PROVE  <<e>> \in Fixed!Chains
  <2>1. <<e>> \in Seq(Payloads) /\ Len(<<e>>) = 1
    OBVIOUS
  <2>2. Len(<<e>>) \in 1..MaxPublications
    BY <2>1, LimitsAssumption
  <2> QED
    BY <1>3, <2>1, <2>2
<1> QED
  BY <1>3, <1>4, <1>5, <1>6

(* Publications and payloads are only added. *)
LEMMA ReplaysOn ==
    ASSUME NEW d, NEW c, Replays(d, c), fixedRecords'[d] = fixedRecords[d],
           fixedPublications[d] \subseteq fixedPublications'[d],
           fixedPayloads[d] \subseteq fixedPayloads'[d]
    PROVE  Replays(d, c)'
BY DEF Replays

(* The chain of a directory is in it, and everything in it is its beginning. *)
LEMMA ReplaysTo ==
    ASSUME NEW d, NEW c \in Fixed!Chains, Replays(d, c)
    PROVE  /\ c \in fixedRecords[d]
           /\ \A g \in fixedRecords[d] : g \in Fixed!Chains /\ g \in PrefixesOf(c)
<1>1. c \in Seq(Payloads) /\ c # <<>> /\ Len(c) \in 1..MaxPublications
  BY FixedChains
<1>2. fixedRecords[d] = PrefixesOf(c) /\ c \in PrefixesOf(c)
  BY <1>1, WholeIsPrefix DEF Replays
<1>3. ASSUME NEW g \in PrefixesOf(c)
      PROVE  g \in Fixed!Chains
  <2>1. g \in Seq(Payloads) /\ Len(g) \in 1..Len(c)
    BY <1>1, PrefixMember
  <2> QED
    BY <1>1, <2>1, FixedChains, LimitsAssumption
<1> QED
  BY <1>2, <1>3

(* Steps of one process that commit nothing. *)
LEMMA QuietStep ==
    ASSUME FixedInv, FixedTypes', NEW p \in Procs,
           \A q \in Procs \ {p} :
              /\ place'[q] = place[q] /\ object'[q] = object[q] /\ chain'[q] = chain[q]
              /\ place[q] \in Fixed!Writing => writerLock'[object[q].dir],
           fixedRecords' = fixedRecords,
           \A d \in Dirs : /\ fixedPublications[d] \subseteq fixedPublications'[d]
                           /\ fixedPayloads[d] \subseteq fixedPayloads'[d],
           WritesAt(p)',
           \A q \in Procs \ {p} :
              place'[p] \in Fixed!Writing /\ place[q] \in Fixed!Writing
                => object'[p].dir # object[q].dir
    PROVE  FixedInv'
<1>1. ASSUME NEW d \in Dirs
      PROVE  DirectoryReplays(d)'
  BY ReplaysOn DEF FixedInv, DirectoryReplays, Fixed!Chains
<1>2. ASSUME NEW q \in Procs
      PROVE  WritesAt(q)'
  <2>1. CASE q = p
    BY <2>1
  <2>2. CASE q # p
    <3>1. /\ WritesAt(q) /\ q \in Procs \ {p}
          /\ place[q] \in Fixed!Writing => object[q].dir \in Dirs
      BY <2>2 DEF FixedInv, FixedTypes, WritesAt, HoldsLock
    <3>2. ObjectStands(q)' /\ HoldsLock(q)'
      BY <3>1 DEF WritesAt, ObjectStands, HoldsLock, Fixed!Writing, Fixed!NoObject
    <3>3. DraftExtends(q)'
      <4> SUFFICES ASSUME place[q] \in {"checked", "paid", "saved", "staged"}
                   PROVE  DraftExtends(q)'
        BY <3>1 DEF DraftExtends
      <4>1. PICK c \in Fixed!Chains, e \in Payloads :
               /\ Replays(object[q].dir, c) /\ Len(c) < MaxPublications
               /\ chain[q] = Append(c, e)
               /\ place[q] # "checked" => <<Len(c) + 1, e>> \in fixedPayloads[object[q].dir]
               /\ place[q] \in {"saved", "staged"} => chain[q] \in fixedPublications[object[q].dir]
        BY <3>1 DEF WritesAt, DraftExtends
      <4>2. /\ object[q].dir \in Dirs /\ object'[q] = object[q] /\ chain'[q] = chain[q]
            /\ place'[q] = place[q]
        BY <3>1 DEF Fixed!Writing
      <4>3. Replays(object[q].dir, c)'
        BY <4>1, <4>2 DEF Replays
      <4>4. /\ c \in Fixed!Chains'
            /\ place'[q] # "checked" => <<Len(c) + 1, e>> \in fixedPayloads'[object'[q].dir]
            /\ place'[q] \in {"saved", "staged"} => chain'[q] \in fixedPublications'[object'[q].dir]
        BY <4>1, <4>2 DEF Fixed!Chains
      <4> QED
        BY <4>1, <4>2, <4>3, <4>4 DEF DraftExtends
    <3> QED
      BY <3>2, <3>3 DEF WritesAt
  <2> QED
    BY <2>1, <2>2
<1>3. OneWriter'
  BY DEF FixedInv, OneWriter, Fixed!Writing
<1> QED
  BY <1>1, <1>2, <1>3 DEF FixedInv

LEMMA FixedInit == Fixed!Init => FixedInv
<1> SUFFICES ASSUME Fixed!Init PROVE FixedInv
  OBVIOUS
<1>1. FixedTypes
  BY DEF Fixed!Init, FixedTypes
<1> QED
  BY <1>1 DEF Fixed!Init, FixedInv, DirectoryReplays, WritesAt, ObjectStands, HoldsLock,
              DraftExtends, OneWriter, Fixed!Writing

(* Nobody has an object, and nobody writes, where there are no records. *)
LEMMA NobodyWhereNothing ==
    ASSUME FixedInv, NEW p \in Procs, object[p] # Fixed!NoObject
    PROVE  object[p].dir \in Dirs /\ fixedRecords[object[p].dir] # {}
BY DEF FixedInv, FixedTypes, WritesAt, ObjectStands

LEMMA FixedCreate ==
    ASSUME FixedInv, NEW p \in Procs, NEW d \in Dirs, NEW root \in Payloads,
           Fixed!Create(p, d, root)
    PROVE  FixedInv'
<1>1. <<root>> \in Fixed!Chains /\ 1 \in Nat
  BY FixedChains
<1>2. FixedTypes'
  <2>1. /\ Fixed!Chains' = Fixed!Chains /\ Fixed!NoObject' = Fixed!NoObject
        /\ Fixed!Writing' = Fixed!Writing
        /\ {<<root>>} \in SUBSET Fixed!Chains /\ {<<1, root>>} \in SUBSET (Nat \X Payloads)
        /\ [dir |-> d, chain |-> <<root>>] \in [dir : Dirs, chain : Fixed!Chains]
    BY <1>1 DEF Fixed!Chains, Fixed!NoObject, Fixed!Writing
  <2> QED
    BY <2>1 DEF FixedInv, FixedTypes, Fixed!Create
<1>3. \A q \in Procs : object[q] = Fixed!NoObject /\ place[q] \notin Fixed!Writing
  BY NobodyWhereNothing DEF Fixed!Create, FixedInv, WritesAt, HoldsLock
<1>4. /\ fixedRecords'[d] = {<<root>>}
      /\ \A e \in Dirs \ {d} : fixedRecords'[e] = {}
      /\ fixedPublications'[d] = {<<root>>} /\ fixedPayloads'[d] = {<<1, root>>}
      /\ object'[p] = [dir |-> d, chain |-> <<root>>]
      /\ \A q \in Procs \ {p} : object'[q] = Fixed!NoObject
      /\ place' = place
  BY <1>3 DEF Fixed!Create, FixedInv, FixedTypes
<1>5. Replays(d, <<root>>)'
  <2>1. <<root>> \in Seq(Payloads) /\ Len(<<root>>) = 1 /\ <<root>>[1] = root
    OBVIOUS
  <2>2. SubSeq(<<root>>, 1, Len(<<root>>)) = <<root>>
    BY <2>1, WholeIsPrefix
  <2>3. 1..1 = {1}
    OBVIOUS
  <2> QED
    BY <1>4, <2>1, <2>2, <2>3, RootPrefixes DEF Replays
<1>6. ASSUME NEW e \in Dirs
      PROVE  DirectoryReplays(e)'
  BY <1>1, <1>4, <1>5 DEF DirectoryReplays, Fixed!Chains
<1>7. ASSUME NEW q \in Procs
      PROVE  WritesAt(q)'
  <2>1. ObjectStands(q)'
    BY <1>4 DEF ObjectStands, Fixed!NoObject
  <2>2. place'[q] \notin Fixed!Writing
    BY <1>3, <1>4
  <2> QED
    BY <2>1, <2>2 DEF WritesAt, HoldsLock, DraftExtends, Fixed!Writing
<1>8. OneWriter'
  BY <1>3, <1>4 DEF OneWriter, Fixed!Writing
<1> QED
  BY <1>2, <1>6, <1>7, <1>8 DEF FixedInv

LEMMA FixedCopy ==
    ASSUME FixedInv, NEW d \in Dirs, NEW e \in Dirs, Fixed!OperatorCopies(d, e)
    PROVE  FixedInv'
<1>1. FixedTypes'
  BY DEF FixedInv, FixedTypes, Fixed!OperatorCopies, Fixed!Chains, Fixed!NoObject, Fixed!Writing
<1>2. /\ fixedRecords'[e] = fixedRecords[d] /\ fixedPublications'[e] = fixedPublications[d]
      /\ fixedPayloads'[e] = fixedPayloads[d]
      /\ \A f \in Dirs \ {e} :
            /\ fixedRecords'[f] = fixedRecords[f] /\ fixedPublications'[f] = fixedPublications[f]
            /\ fixedPayloads'[f] = fixedPayloads[f] /\ writerLock'[f] = writerLock[f]
      /\ place' = place /\ object' = object /\ chain' = chain
  BY DEF Fixed!OperatorCopies, FixedInv, FixedTypes
<1>3. ASSUME NEW f \in Dirs
      PROVE  DirectoryReplays(f)'
  <2>1. CASE f = e
    BY <1>2, <2>1 DEF FixedInv, DirectoryReplays, Replays, Fixed!Chains
  <2>2. CASE f # e
    BY <1>2, <2>2 DEF FixedInv, DirectoryReplays, Replays, Fixed!Chains
  <2> QED
    BY <2>1, <2>2
<1>4. ASSUME NEW q \in Procs
      PROVE  WritesAt(q)'
  <2>1. object[q] # Fixed!NoObject => object[q].dir \in Dirs \ {e}
    BY NobodyWhereNothing DEF Fixed!OperatorCopies
  <2>2. WritesAt(q)
    BY DEF FixedInv
  <2>3. ObjectStands(q)' /\ HoldsLock(q)'
    BY <1>2, <2>1, <2>2 DEF WritesAt, ObjectStands, HoldsLock, Fixed!NoObject, Fixed!Writing
  <2>4. DraftExtends(q)'
    <3>1. place[q] \in {"checked", "paid", "saved", "staged"} => object[q].dir \in Dirs \ {e}
      BY <2>1, <2>2 DEF WritesAt, HoldsLock, Fixed!Writing
    <3> QED
      BY <1>2, <2>2, <3>1 DEF WritesAt, DraftExtends, Replays, Fixed!Chains
  <2> QED
    BY <2>3, <2>4 DEF WritesAt
<1>5. OneWriter'
  BY <1>2 DEF FixedInv, OneWriter, Fixed!Writing
<1> QED
  BY <1>1, <1>3, <1>4, <1>5 DEF FixedInv

LEMMA FixedOpen ==
    ASSUME FixedInv, NEW p \in Procs, NEW d \in Dirs, NEW c \in Fixed!Chains, Fixed!Open(p, d, c)
    PROVE  FixedInv'
<1>1. FixedTypes'
  <2>1. [dir |-> d, chain |-> c] \in [dir : Dirs, chain : Fixed!Chains]
    OBVIOUS
  <2> QED
    BY <2>1 DEF FixedInv, FixedTypes, Fixed!Open, Fixed!files, Fixed!Chains, Fixed!NoObject, Fixed!Writing
<1>2. /\ object'[p] = [dir |-> d, chain |-> c] /\ place'[p] = "idle"
      /\ \A q \in Procs \ {p} : object'[q] = object[q]
      /\ UNCHANGED <<fixedRecords, fixedPublications, fixedPayloads, writerLock, place, chain>>
  BY DEF Fixed!Open, Fixed!files, FixedInv, FixedTypes
<1>3. WritesAt(p)'
  <2>1. c \in fixedRecords[d]
    <3>1. fixedRecords[d] = PrefixesOf(c)
      BY DEF Fixed!Open, Fixed!Opens, PrefixesOf
    <3> QED
      BY <3>1, FixedChains, WholeIsPrefix
  <2> QED
    BY <1>2, <2>1 DEF WritesAt, ObjectStands, HoldsLock, DraftExtends, Fixed!Writing
<1>4. \A q \in Procs \ {p} : place[q] \in Fixed!Writing => writerLock'[object[q].dir]
  BY <1>2 DEF FixedInv, WritesAt, HoldsLock
<1> QED
  BY <1>1, <1>2, <1>3, <1>4, QuietStep DEF Fixed!Writing

LEMMA FixedCheck ==
    ASSUME FixedInv, NEW p \in Procs, NEW c \in Fixed!Chains, NEW e \in Payloads,
           Fixed!PublishCheck(p, c, e)
    PROVE  FixedInv'
<1> DEFINE d == object[p].dir
<1>1. /\ d \in Dirs /\ object[p] # Fixed!NoObject /\ ~writerLock[d]
      /\ Replays(d, c) /\ Len(c) < MaxPublications /\ Append(c, e) \in Fixed!Chains
  <2>1. Replays(d, c)
    BY DEF Fixed!PublishCheck, Fixed!Opens, Replays, PrefixesOf
  <2> QED
    BY <2>1, NobodyWhereNothing, FixedChains DEF Fixed!PublishCheck
<1>2. FixedTypes'
  BY <1>1 DEF FixedInv, FixedTypes, Fixed!PublishCheck, Fixed!Goto, Fixed!files, Fixed!Chains,
              Fixed!NoObject, Fixed!Writing
<1>3. /\ place'[p] = "checked" /\ writerLock'[d] /\ chain'[p] = Append(c, e)
      /\ \A f \in Dirs : writerLock[f] => writerLock'[f]
      /\ \A q \in Procs \ {p} : place'[q] = place[q] /\ chain'[q] = chain[q]
      /\ UNCHANGED <<fixedRecords, fixedPublications, fixedPayloads, object>>
  BY <1>1 DEF FixedInv, FixedTypes, Fixed!PublishCheck, Fixed!Goto, Fixed!files
<1>4. WritesAt(p)'
  <2>1. Replays(d, c)'
    BY <1>1, <1>3 DEF Replays
  <2> QED
    BY <1>1, <1>3, <2>1 DEF FixedInv, WritesAt, ObjectStands, HoldsLock, DraftExtends,
                            Fixed!Writing, Fixed!NoObject, Fixed!Chains
<1>5. \A q \in Procs \ {p} : place[q] \in Fixed!Writing =>
          /\ object[q].dir \in Dirs /\ writerLock[object[q].dir] /\ object[q].dir # d
  BY <1>1, NobodyWhereNothing DEF FixedInv, WritesAt, HoldsLock
<1> QED
  BY <1>2, <1>3, <1>4, <1>5, QuietStep

(* What a draft extends, for the steps up to the commit. *)
LEMMA DraftOf ==
    ASSUME FixedInv, NEW p \in Procs, place[p] \in {"checked", "paid", "saved", "staged"}
    PROVE  /\ object[p] # Fixed!NoObject /\ object[p].dir \in Dirs
           /\ chain[p] \in Fixed!Chains
           /\ \E c \in Fixed!Chains, e \in Payloads :
                 /\ Replays(object[p].dir, c) /\ Len(c) < MaxPublications
                 /\ chain[p] = Append(c, e)
                 /\ Len(chain[p]) = Len(c) + 1 /\ chain[p][Len(c) + 1] = e
                 /\ place[p] # "checked" => <<Len(c) + 1, e>> \in fixedPayloads[object[p].dir]
                 /\ place[p] \in {"saved", "staged"} => chain[p] \in fixedPublications[object[p].dir]
<1>1. WritesAt(p)
  BY DEF FixedInv
<1>2. object[p] # Fixed!NoObject
  BY <1>1 DEF WritesAt, HoldsLock, Fixed!Writing
<1>3. PICK c \in Fixed!Chains, e \in Payloads :
         /\ Replays(object[p].dir, c) /\ Len(c) < MaxPublications
         /\ chain[p] = Append(c, e)
         /\ place[p] # "checked" => <<Len(c) + 1, e>> \in fixedPayloads[object[p].dir]
         /\ place[p] \in {"saved", "staged"} => chain[p] \in fixedPublications[object[p].dir]
  BY <1>1 DEF WritesAt, DraftExtends
<1>4. c \in Seq(Payloads)
  BY FixedChains
<1>5. Len(chain[p]) = Len(c) + 1 /\ chain[p][Len(c) + 1] = e
  BY <1>3, <1>4, AppendAddsOne
<1>6. chain[p] \in Fixed!Chains
  BY <1>3, FixedChains
<1> QED
  BY <1>2, <1>3, <1>5, <1>6, NobodyWhereNothing

(* Steps before the commit that add to publications and payloads only. *)
LEMMA FixedAdds ==
    ASSUME FixedInv, FixedTypes', NEW p \in Procs,
           place[p] \in {"checked", "paid", "saved"}, place'[p] \in {"paid", "saved", "staged"},
           \A q \in Procs \ {p} : place'[q] = place[q],
           UNCHANGED <<fixedRecords, writerLock, object, chain>>,
           \A d \in Dirs : /\ fixedPublications[d] \subseteq fixedPublications'[d]
                           /\ fixedPayloads[d] \subseteq fixedPayloads'[d],
           place[p] = "checked" =>
              <<Len(chain[p]), chain[p][Len(chain[p])]>> \in fixedPayloads'[object[p].dir],
           place'[p] # "paid" =>
              place[p] # "checked" /\ chain[p] \in fixedPublications'[object[p].dir]
    PROVE  FixedInv'
<1> DEFINE d == object[p].dir
<1>1. PICK c \in Fixed!Chains, e \in Payloads :
         /\ object[p] # Fixed!NoObject /\ d \in Dirs
         /\ Replays(d, c) /\ Len(c) < MaxPublications
         /\ chain[p] = Append(c, e)
         /\ Len(chain[p]) = Len(c) + 1 /\ chain[p][Len(c) + 1] = e
         /\ place[p] # "checked" => <<Len(c) + 1, e>> \in fixedPayloads[d]
  BY DraftOf
<1>2. place'[p] \in Fixed!Writing
  BY DEF Fixed!Writing
<1>3. Replays(d, c)'
  BY <1>1 DEF Replays
<1>4. <<Len(c) + 1, e>> \in fixedPayloads'[d]
  BY <1>1
<1>5. WritesAt(p)
  BY DEF FixedInv
<1>6. ObjectStands(p)' /\ HoldsLock(p)'
  BY <1>1, <1>2, <1>5 DEF WritesAt, ObjectStands, HoldsLock, Fixed!NoObject, Fixed!Writing
<1>7. DraftExtends(p)'
  BY <1>1, <1>2, <1>3, <1>4 DEF DraftExtends, Fixed!Chains
<1>8. \A q \in Procs \ {p} :
         /\ place[q] \in Fixed!Writing => writerLock[object[q].dir]
         /\ place[q] \in Fixed!Writing => object[q].dir # d
  BY DEF FixedInv, WritesAt, HoldsLock, OneWriter, Fixed!Writing
<1> QED
  BY <1>2, <1>6, <1>7, <1>8, QuietStep DEF WritesAt

LEMMA FixedPrepares ==
    ASSUME FixedInv, NEW p \in Procs,
           Fixed!SavePayload(p) \/ Fixed!SavePublication(p) \/ Fixed!StageRecord(p)
    PROVE  FixedInv'
<1> DEFINE d == object[p].dir
<1>1. /\ d \in Dirs /\ chain[p] \in Fixed!Chains /\ Len(chain[p]) \in Nat
      /\ chain[p][Len(chain[p])] \in Payloads
      /\ place[p] \in {"saved", "staged"} => chain[p] \in fixedPublications[d]
  <2>1. place[p] \in {"checked", "paid", "saved"}
    BY DEF Fixed!SavePayload, Fixed!SavePublication, Fixed!StageRecord
  <2>2. /\ d \in Dirs /\ chain[p] \in Fixed!Chains
        /\ place[p] \in {"saved", "staged"} => chain[p] \in fixedPublications[d]
    BY <2>1, DraftOf
  <2>3. chain[p] \in Seq(Payloads) /\ Len(chain[p]) \in 1..MaxPublications
    BY <2>2, FixedChains
  <2>4. Len(chain[p]) \in Nat /\ chain[p][Len(chain[p])] \in Payloads
    BY <2>3, LimitsAssumption
  <2> QED
    BY <2>2, <2>4
<1>2. Fixed!Chains' = Fixed!Chains /\ Fixed!NoObject' = Fixed!NoObject /\ Fixed!Writing' = Fixed!Writing
  BY DEF Fixed!Chains, Fixed!NoObject, Fixed!Writing
<1>3. CASE Fixed!SavePayload(p)
  <2>1. FixedTypes'
    <3>1. {<<Len(chain[p]), chain[p][Len(chain[p])]>>} \in SUBSET (Nat \X Payloads)
      BY <1>1
    <3>2. "paid" \in Fixed!Writing
      BY DEF Fixed!Writing
    <3>3. fixedPayloads' \in [Dirs -> SUBSET (Nat \X Payloads)]
      BY <1>1, <1>3, <3>1 DEF FixedInv, FixedTypes, Fixed!SavePayload
    <3> QED
      BY <1>2, <1>3, <3>2, <3>3 DEF FixedInv, FixedTypes, Fixed!SavePayload, Fixed!Goto
  <2>2. /\ place[p] = "checked" /\ place'[p] = "paid" /\ \A q \in Procs \ {p} : place'[q] = place[q]
        /\ UNCHANGED <<fixedRecords, fixedPublications, writerLock, object, chain>>
        /\ \A f \in Dirs : fixedPayloads[f] \subseteq fixedPayloads'[f]
        /\ \A f \in Dirs : fixedPublications[f] \subseteq fixedPublications'[f]
        /\ <<Len(chain[p]), chain[p][Len(chain[p])]>> \in fixedPayloads'[d]
    BY <1>1, <1>3 DEF Fixed!SavePayload, Fixed!Goto, FixedInv, FixedTypes
  <2> QED
    BY <2>1, <2>2, FixedAdds
<1>4. CASE Fixed!SavePublication(p)
  <2>1. FixedTypes'
    <3>1. fixedPublications' \in [Dirs -> SUBSET Fixed!Chains]
      BY <1>1, <1>4 DEF FixedInv, FixedTypes, Fixed!SavePublication
    <3>2. "saved" \in Fixed!Writing
      BY DEF Fixed!Writing
    <3> QED
      BY <1>2, <1>4, <3>1, <3>2 DEF FixedInv, FixedTypes, Fixed!SavePublication, Fixed!Goto
  <2>2. /\ place[p] = "paid" /\ place'[p] = "saved" /\ \A q \in Procs \ {p} : place'[q] = place[q]
        /\ UNCHANGED <<fixedRecords, fixedPayloads, writerLock, object, chain>>
        /\ \A f \in Dirs : fixedPublications[f] \subseteq fixedPublications'[f]
        /\ chain[p] \in fixedPublications'[d]
    BY <1>1, <1>4 DEF Fixed!SavePublication, Fixed!Goto, FixedInv, FixedTypes
  <2> QED
    BY <2>1, <2>2, FixedAdds
<1>5. CASE Fixed!StageRecord(p)
  <2>1. FixedTypes'
    <3>1. "staged" \in Fixed!Writing
      BY DEF Fixed!Writing
    <3>2. stagedFiles' \in [Dirs -> Int]
      BY <1>1, <1>5 DEF FixedInv, FixedTypes, Fixed!StageRecord
    <3> QED
      BY <1>2, <1>5, <3>1, <3>2 DEF FixedInv, FixedTypes, Fixed!StageRecord, Fixed!Goto
  <2>2. /\ place[p] = "saved" /\ place'[p] = "staged" /\ \A q \in Procs \ {p} : place'[q] = place[q]
        /\ UNCHANGED <<fixedRecords, fixedPayloads, fixedPublications, writerLock, object, chain>>
    BY <1>5 DEF Fixed!StageRecord, Fixed!Goto, FixedInv, FixedTypes
  <2>3. chain[p] \in fixedPublications'[d]
    BY <1>1, <2>2
  <2>4. \A f \in Dirs : /\ fixedPublications[f] \subseteq fixedPublications'[f]
                       /\ fixedPayloads[f] \subseteq fixedPayloads'[f]
    BY <2>2
  <2> QED
    BY <2>1, <2>2, <2>3, <2>4, FixedAdds
<1> QED
  BY <1>3, <1>4, <1>5

(* The rename puts the draft at the end of the directory's chain. *)
LEMMA FixedCommit ==
    ASSUME FixedInv, NEW p \in Procs, Fixed!CommitRecord(p)
    PROVE  FixedInv'
<1> DEFINE d == object[p].dir
<1>1. PICK c \in Fixed!Chains, e \in Payloads :
         /\ object[p] # Fixed!NoObject /\ d \in Dirs /\ chain[p] \in Fixed!Chains
         /\ Replays(d, c) /\ Len(c) < MaxPublications
         /\ chain[p] = Append(c, e)
         /\ Len(chain[p]) = Len(c) + 1 /\ chain[p][Len(c) + 1] = e
         /\ <<Len(c) + 1, e>> \in fixedPayloads[d] /\ chain[p] \in fixedPublications[d]
  BY DraftOf DEF Fixed!CommitRecord
<1>2. /\ fixedRecords'[d] = fixedRecords[d] \cup {chain[p]}
      /\ \A f \in Dirs \ {d} : fixedRecords'[f] = fixedRecords[f]
      /\ place'[p] = "committed" /\ \A q \in Procs \ {p} : place'[q] = place[q]
      /\ UNCHANGED <<fixedPublications, fixedPayloads, writerLock, object, chain>>
  BY <1>1 DEF Fixed!CommitRecord, Fixed!Goto, FixedInv, FixedTypes
<1>3. FixedTypes'
  <2>1. Fixed!Chains' = Fixed!Chains /\ Fixed!NoObject' = Fixed!NoObject /\ Fixed!Writing' = Fixed!Writing
        /\ "committed" \in Fixed!Writing
    BY DEF Fixed!Chains, Fixed!NoObject, Fixed!Writing
  <2>2. fixedRecords' \in [Dirs -> SUBSET Fixed!Chains]
    <3>1. fixedRecords[d] \cup {chain[p]} \in SUBSET Fixed!Chains
      BY <1>1 DEF FixedInv, FixedTypes
    <3> QED
      BY <1>1, <3>1 DEF FixedInv, FixedTypes, Fixed!CommitRecord
  <2>3. stagedFiles' \in [Dirs -> Int]
    BY <1>1 DEF FixedInv, FixedTypes, Fixed!CommitRecord
  <2> QED
    BY <2>1, <2>2, <2>3 DEF FixedInv, FixedTypes, Fixed!CommitRecord, Fixed!Goto
<1>4. Replays(d, chain[p])'
  <2>1. c \in Seq(Payloads)
    BY FixedChains
  <2>2. PrefixesOf(chain[p]) = fixedRecords'[d]
    BY <1>1, <1>2, <2>1, AppendAddsOne DEF Replays
  <2>3. 1..Len(chain[p]) = 1..Len(c) \cup {Len(c) + 1}
    BY <1>1, <2>1
  <2>4. \A i \in 1..Len(c) : SubSeq(chain[p], 1, i) = SubSeq(c, 1, i) /\ chain[p][i] = c[i]
    BY <1>1, <2>1, AppendAddsOne
  <2>5. SubSeq(chain[p], 1, Len(c) + 1) = chain[p]
    BY <1>1, FixedChains, WholeIsPrefix
  <2> QED
    BY <1>1, <1>2, <2>2, <2>3, <2>4, <2>5 DEF Replays
<1>5. ASSUME NEW f \in Dirs
      PROVE  DirectoryReplays(f)'
  <2>1. CASE f = d
    BY <1>1, <1>4, <1>2, <2>1 DEF DirectoryReplays, Fixed!Chains
  <2>2. CASE f # d
    BY <1>2, <2>2 DEF FixedInv, DirectoryReplays, Replays, Fixed!Chains
  <2> QED
    BY <2>1, <2>2
<1>6. ASSUME NEW q \in Procs
      PROVE  WritesAt(q)'
  <2>1. WritesAt(q) /\ place[p] \in Fixed!Writing
    BY DEF FixedInv, Fixed!CommitRecord, Fixed!Writing
  <2>2. object[q] # Fixed!NoObject => object[q].dir \in Dirs
    BY NobodyWhereNothing
  <2>3. ObjectStands(q)' /\ HoldsLock(q)'
    BY <1>2, <2>1, <2>2 DEF WritesAt, ObjectStands, HoldsLock, Fixed!NoObject, Fixed!Writing
  <2>4. DraftExtends(q)'
    <3>1. CASE q = p
      BY <1>2, <3>1 DEF DraftExtends
    <3>2. CASE q # p
      <4>1. place[q] \in {"checked", "paid", "saved", "staged"} => object[q].dir \in Dirs \ {d}
        BY <2>1, <2>2, <3>2 DEF FixedInv, OneWriter, WritesAt, HoldsLock, Fixed!Writing
      <4> QED
        BY <1>2, <2>1, <3>2, <4>1 DEF WritesAt, DraftExtends, Replays, Fixed!Chains
    <3> QED
      BY <3>1, <3>2
  <2> QED
    BY <2>3, <2>4 DEF WritesAt
<1>7. OneWriter'
  BY <1>2 DEF FixedInv, OneWriter, Fixed!CommitRecord, Fixed!Writing
<1> QED
  BY <1>3, <1>5, <1>6, <1>7 DEF FixedInv

LEMMA FixedLeaves ==
    ASSUME FixedInv, NEW p \in Procs,
           Fixed!PublishReturns(p) \/ Fixed!WriteFails(p) \/ Fixed!Crash(p)
    PROVE  FixedInv'
<1> DEFINE d == object[p].dir
<1>1. /\ place[p] \in Fixed!Writing /\ WritesAt(p) /\ d \in Dirs
      /\ object[p] # Fixed!NoObject /\ object[p] \in [dir : Dirs, chain : Fixed!Chains]
  <2>1. place[p] \in Fixed!Writing /\ WritesAt(p)
    BY DEF FixedInv, Fixed!PublishReturns, Fixed!WriteFails, Fixed!Crash, Fixed!Writing
  <2>2. object[p] # Fixed!NoObject
    BY <2>1 DEF WritesAt, HoldsLock
  <2> QED
    BY <2>1, <2>2, NobodyWhereNothing DEF FixedInv, FixedTypes
<1>2. /\ Fixed!Chains' = Fixed!Chains /\ Fixed!NoObject' = Fixed!NoObject
      /\ Fixed!Writing' = Fixed!Writing
  BY DEF Fixed!Chains, Fixed!NoObject, Fixed!Writing
<1>3. \A q \in Procs \ {p} : place[q] \in Fixed!Writing =>
          writerLock[object[q].dir] /\ object[q].dir # d /\ object[q].dir \in Dirs
  BY <1>1, NobodyWhereNothing DEF FixedInv, WritesAt, HoldsLock, OneWriter
<1>4. /\ place' = [place EXCEPT ![p] = "idle"] /\ chain' = [chain EXCEPT ![p] = <<>>]
      /\ UNCHANGED <<fixedRecords, fixedPublications, fixedPayloads>>
  BY DEF Fixed!PublishReturns, Fixed!WriteFails, Fixed!Crash, Fixed!Goto, Fixed!files
<1>5. /\ place'[p] = "idle" /\ \A q \in Procs \ {p} : place'[q] = place[q] /\ chain'[q] = chain[q]
      /\ place' \in [Procs -> Fixed!Writing \cup {"idle"}]
      /\ chain' \in [Procs -> Fixed!Chains \cup {<<>>}]
  BY <1>4 DEF FixedInv, FixedTypes
<1>6. /\ stagedFiles' \in [Dirs -> Int] /\ interruptions' \in Nat
      /\ writerLock' \in [Dirs -> BOOLEAN]
      /\ \A f \in Dirs \ {d} : writerLock'[f] = writerLock[f]
  <2>1. CASE Fixed!PublishReturns(p)
    BY <1>1, <2>1 DEF FixedInv, FixedTypes, Fixed!PublishReturns, Fixed!files
  <2>2. CASE Fixed!WriteFails(p)
    BY <1>1, <2>2 DEF FixedInv, FixedTypes, Fixed!WriteFails
  <2>3. CASE Fixed!Crash(p)
    BY <1>1, <2>3 DEF FixedInv, FixedTypes, Fixed!Crash, Fixed!files
  <2> QED
    BY <2>1, <2>2, <2>3
<1>7. /\ object' \in [Procs -> [dir : Dirs, chain : Fixed!Chains] \cup {Fixed!NoObject}]
      /\ \A q \in Procs \ {p} : object'[q] = object[q]
      /\ object'[p] # Fixed!NoObject => object'[p].chain \in fixedRecords[object'[p].dir]
  <2>1. CASE Fixed!PublishReturns(p)
    <3>1. chain[p] \in Fixed!Chains /\ chain[p] \in fixedRecords[d]
      <4>1. chain[p] \in Fixed!Chains /\ fixedRecords[d] = PrefixesOf(chain[p])
        BY <2>1 DEF Fixed!PublishReturns, Fixed!Opens, PrefixesOf, FixedInv, FixedTypes
      <4> QED
        BY <4>1, FixedChains, WholeIsPrefix
    <3>2. object' = [object EXCEPT ![p].chain = chain[p]]
      BY <2>1 DEF Fixed!PublishReturns
    <3>3. object'[p] = [dir |-> d, chain |-> chain[p]]
      BY <1>1, <3>2 DEF FixedInv, FixedTypes
    <3>4. object'[p] \in [dir : Dirs, chain : Fixed!Chains]
      BY <1>1, <3>1, <3>3
    <3>5. object' = [object EXCEPT ![p] = object'[p]]
      BY <3>2, <3>3 DEF FixedInv, FixedTypes
    <3> QED
      BY <3>1, <3>3, <3>4, <3>5 DEF FixedInv, FixedTypes
  <2>2. CASE Fixed!WriteFails(p)
    BY <1>1, <2>2 DEF FixedInv, FixedTypes, Fixed!WriteFails, WritesAt, ObjectStands
  <2>3. CASE Fixed!Crash(p)
    BY <2>3 DEF FixedInv, FixedTypes, Fixed!Crash
  <2> QED
    BY <2>1, <2>2, <2>3
<1>8. FixedTypes'
  BY <1>2, <1>4, <1>5, <1>6, <1>7 DEF FixedInv, FixedTypes
<1>9. WritesAt(p)'
  BY <1>4, <1>5, <1>7 DEF WritesAt, ObjectStands, HoldsLock, DraftExtends, Fixed!Writing,
                          Fixed!NoObject
<1>10. \A q \in Procs \ {p} : place[q] \in Fixed!Writing => writerLock'[object[q].dir]
  BY <1>3, <1>6
<1>11. /\ \A f \in Dirs : /\ fixedPublications[f] \subseteq fixedPublications'[f]
                          /\ fixedPayloads[f] \subseteq fixedPayloads'[f]
       /\ fixedRecords' = fixedRecords
  BY <1>4
<1>12. place'[p] \notin Fixed!Writing
  BY <1>5 DEF Fixed!Writing
<1> QED
  BY <1>5, <1>7, <1>8, <1>9, <1>10, <1>11, <1>12, QuietStep

LEMMA FixedClears ==
    ASSUME FixedInv, NEW d \in Dirs, Fixed!OperatorClearsLock(d)
    PROVE  FixedInv'
<1>1. /\ writerLock' = [writerLock EXCEPT ![d] = FALSE]
      /\ \A p \in Procs : place[p] \in Fixed!Writing => object[p].dir # d
      /\ UNCHANGED <<fixedRecords, fixedPublications, fixedPayloads, stagedFiles, place, object,
                     chain, interruptions>>
  BY DEF Fixed!OperatorClearsLock, Fixed!Within, Fixed!files
<1>2. FixedTypes'
  BY <1>1 DEF FixedInv, FixedTypes, Fixed!Chains, Fixed!NoObject, Fixed!Writing
<1>3. \A e \in Dirs : DirectoryReplays(e)'
  BY <1>1 DEF FixedInv, DirectoryReplays, Replays, Fixed!Chains
<1>4. ASSUME NEW p \in Procs
      PROVE  WritesAt(p)'
  <2>1. WritesAt(p)
    BY DEF FixedInv
  <2>2. HoldsLock(p)'
    BY <1>1, <2>1, NobodyWhereNothing DEF FixedInv, FixedTypes, WritesAt, HoldsLock, Fixed!Writing,
        Fixed!NoObject
  <2> QED
    BY <1>1, <2>1, <2>2 DEF WritesAt, ObjectStands, DraftExtends, Replays, Fixed!Chains,
        Fixed!NoObject
<1>5. OneWriter'
  BY <1>1 DEF FixedInv, OneWriter, Fixed!Writing
<1> QED
  BY <1>2, <1>3, <1>4, <1>5 DEF FixedInv

LEMMA FixedNext == FixedInv /\ [Fixed!Next]_Fixed!vars => FixedInv'
<1> SUFFICES ASSUME FixedInv, [Fixed!Next]_Fixed!vars
             PROVE  FixedInv'
  OBVIOUS
<1>1. CASE UNCHANGED Fixed!vars
  <2>1. UNCHANGED <<fixedRecords, fixedPublications, fixedPayloads, stagedFiles, writerLock, place,
                    object, chain, interruptions>>
    BY <1>1 DEF Fixed!vars, Fixed!files
  <2>2. FixedTypes' /\ OneWriter'
    BY <2>1 DEF FixedInv, FixedTypes, OneWriter, Fixed!Chains, Fixed!NoObject, Fixed!Writing
  <2>3. \A d \in Dirs : DirectoryReplays(d)'
    BY <2>1 DEF FixedInv, DirectoryReplays, Replays, Fixed!Chains
  <2>4. \A p \in Procs : WritesAt(p)'
    BY <2>1 DEF FixedInv, WritesAt, ObjectStands, HoldsLock, DraftExtends, Replays, Fixed!Chains,
        Fixed!NoObject, Fixed!Writing
  <2> QED
    BY <2>2, <2>3, <2>4 DEF FixedInv
<1>2. ASSUME NEW p \in Procs, NEW d \in Dirs, NEW root \in Payloads, Fixed!Create(p, d, root)
      PROVE  FixedInv'
  BY <1>2, FixedCreate
<1>3. ASSUME NEW p \in Procs, NEW d \in Dirs, NEW c \in Fixed!Chains, Fixed!Open(p, d, c)
      PROVE  FixedInv'
  BY <1>3, FixedOpen
<1>4. ASSUME NEW p \in Procs, Fixed!Publish(p)
      PROVE  FixedInv'
  BY <1>4, FixedCheck, FixedPrepares, FixedCommit, FixedLeaves DEF Fixed!Publish
<1>5. ASSUME NEW p \in Procs, Fixed!WriteFails(p) \/ Fixed!Crash(p)
      PROVE  FixedInv'
  BY <1>5, FixedLeaves
<1> QED
  BY <1>1, <1>2, <1>3, <1>4, <1>5, FixedCopy, FixedClears DEF Fixed!Next

(* The invariant of publications under one bundle: what is in a directory    *)
(* replays to one chain, and a draft is that chain and one more.             *)
THEOREM FixedInvariance == Fixed!Spec => []FixedInv
BY FixedInit, FixedNext, PTL DEF Fixed!Spec

(* publish() and open(): whatever writers that fail or die leave behind, a   *)
(* history under one bundle opens, unless open() refuses it because of how   *)
(* many files there are in records/ (coordination_history.cpp).              *)
THEOREM FixedAlwaysOpens == Fixed!Spec => []Fixed!HistoryOpens
<1>1. FixedInv => Fixed!HistoryOpens
  BY FixedChains DEF FixedInv, Fixed!HistoryOpens, DirectoryReplays, Replays, Fixed!Opens, PrefixesOf
<1> QED
  BY <1>1, FixedInvariance, PTL

LEMMA CommonPrefixIs ==
    ASSUME NEW s \in Seq(Payloads), NEW t \in Seq(Payloads)
    PROVE  /\ Fixed!CommonPrefix(s, t) \in 0..Len(s)
           /\ Fixed!CommonPrefix(s, t) <= Len(t)
           /\ SubSeq(s, 1, Fixed!CommonPrefix(s, t)) = SubSeq(t, 1, Fixed!CommonPrefix(s, t))
           /\ \A j \in 0..Len(s) :
                 j <= Len(t) /\ SubSeq(s, 1, j) = SubSeq(t, 1, j) => j <= Fixed!CommonPrefix(s, t)
<1> DEFINE agreed == {i \in 0..Len(s) : i <= Len(t) /\ SubSeq(s, 1, i) = SubSeq(t, 1, i)}
<1>1. 0 \in agreed
  OBVIOUS
<1>2. PICK m \in agreed : \A j \in agreed : j <= m
  <2>1. agreed # {} /\ agreed \subseteq 0..Len(s) /\ Len(s) \in Nat
    BY <1>1
  <2> HIDE DEF agreed
  <2> QED
    BY <2>1, GreatestExists
<1>3. Fixed!CommonPrefix(s, t) = CHOOSE i \in agreed : \A j \in agreed : j <= i
  BY DEF Fixed!CommonPrefix
<1> HIDE DEF agreed
<1>4. Fixed!CommonPrefix(s, t) \in agreed /\ \A j \in agreed : j <= Fixed!CommonPrefix(s, t)
  BY <1>2, <1>3
<1> QED
  BY <1>4 DEF agreed

(* Two chains are audited as forked when no chain has both as beginnings. *)
LEMMA ForkedMeans ==
    ASSUME NEW s \in Fixed!Chains, NEW t \in Fixed!Chains
    PROVE  Fixed!Audit(s, t) = "forked"
              <=> ~\E c \in Fixed!Chains : s \in PrefixesOf(c) /\ t \in PrefixesOf(c)
<1> DEFINE m == Fixed!CommonPrefix(s, t)
<1>1. /\ s \in Seq(Payloads) /\ t \in Seq(Payloads) /\ s # <<>> /\ t # <<>>
      /\ Len(s) \in Nat /\ Len(t) \in Nat
  BY FixedChains
<1>2. /\ m \in 0..Len(s) /\ m <= Len(t) /\ SubSeq(s, 1, m) = SubSeq(t, 1, m)
      /\ \A j \in 0..Len(s) : j <= Len(t) /\ SubSeq(s, 1, j) = SubSeq(t, 1, j) => j <= m
  BY <1>1, CommonPrefixIs
<1>3. Fixed!Audit(s, t) = "forked" <=> m # Len(s) /\ m # Len(t)
  <2>1. Fixed!Audit(s, t) =
          CASE m = Len(s) /\ m = Len(t) -> "identical"
            [] m = Len(t) /\ m # Len(s) -> "first extends second"
            [] m = Len(s) /\ m # Len(t) -> "second extends first"
            [] OTHER -> "forked"
    BY DEF Fixed!Audit
  <2> HIDE DEF m
  <2>2. CASE m = Len(s) /\ m = Len(t)
    BY <2>1, <2>2, Zenon
  <2>3. CASE m = Len(t) /\ m # Len(s)
    BY <2>1, <2>3, Zenon
  <2>4. CASE m = Len(s) /\ m # Len(t)
    BY <2>1, <2>4, Zenon
  <2>5. CASE m # Len(s) /\ m # Len(t)
    BY <2>1, <2>5, Zenon
  <2> QED
    BY <2>2, <2>3, <2>4, <2>5
<1> HIDE DEF m
<1>4. ASSUME NEW c \in Fixed!Chains, s \in PrefixesOf(c), t \in PrefixesOf(c)
      PROVE  m = Len(s) \/ m = Len(t)
  <2>1. c \in Seq(Payloads)
    BY FixedChains
  <2>2. CASE Len(s) <= Len(t)
    <3>1. SubSeq(t, 1, Len(s)) = s /\ SubSeq(s, 1, Len(s)) = s
      BY <1>1, <1>4, <2>1, <2>2, PrefixesAreOrdered, WholeIsPrefix
    <3>2. Len(s) <= m
      BY <1>1, <1>2, <2>2, <3>1
    <3> QED
      BY <1>1, <1>2, <3>2
  <2>3. CASE Len(t) <= Len(s)
    <3>1. SubSeq(s, 1, Len(t)) = t /\ SubSeq(t, 1, Len(t)) = t
      BY <1>1, <1>4, <2>1, <2>3, PrefixesAreOrdered, WholeIsPrefix
    <3>2. Len(t) <= m
      BY <1>1, <1>2, <2>3, <3>1
    <3> QED
      BY <1>1, <1>2, <3>2
  <2> QED
    BY <1>1, <2>2, <2>3
<1>5. ASSUME m = Len(s) \/ m = Len(t)
      PROVE  \E c \in Fixed!Chains : s \in PrefixesOf(c) /\ t \in PrefixesOf(c)
  <2>1. s \in PrefixesOf(s) /\ t \in PrefixesOf(t) /\ Len(s) \in 1..Len(s) /\ Len(t) \in 1..Len(t)
    BY <1>1, WholeIsPrefix
  <2>2. CASE m = Len(s)
    <3>1. s = SubSeq(t, 1, Len(s)) /\ Len(s) \in 1..Len(t)
      BY <1>1, <1>2, <2>1, <2>2, WholeIsPrefix
    <3>2. s \in PrefixesOf(t)
      BY <3>1 DEF PrefixesOf
    <3> QED
      BY <2>1, <3>2
  <2>3. CASE m = Len(t)
    <3>1. t = SubSeq(s, 1, Len(t)) /\ Len(t) \in 1..Len(s)
      BY <1>1, <1>2, <2>1, <2>3, WholeIsPrefix
    <3>2. t \in PrefixesOf(s)
      BY <3>1 DEF PrefixesOf
    <3> QED
      BY <2>1, <3>2
  <2> QED
    BY <1>5, <2>2, <2>3
<1> QED
  BY <1>3, <1>4, <1>5

(* audit_occupancy_publication_histories() of two objects under one bundle:  *)
(* objects of one directory, however old, are never found forked, and two    *)
(* objects are exactly when no single chain has both as a past.              *)
THEOREM FixedForksAreFound == Fixed!Spec => []Fixed!ForksAreFound
<1>1. FixedInv => Fixed!ForksAreFound
  <2> SUFFICES ASSUME FixedInv, NEW p \in Procs, NEW q \in Procs,
                      object[p] # Fixed!NoObject, object[q] # Fixed!NoObject
               PROVE  LET forked == Fixed!Audit(object[p].chain, object[q].chain) = "forked"
                      IN /\ object[p].dir = object[q].dir => ~forked
                         /\ forked <=> ~\E c \in Fixed!Chains :
                               object[p].chain \in PrefixesOf(c) /\ object[q].chain \in PrefixesOf(c)
    BY DEF Fixed!ForksAreFound, Fixed!Comparable, PrefixesOf
  <2> DEFINE s == object[p].chain
             t == object[q].chain
  <2>1. /\ object[p].dir \in Dirs /\ object[q].dir \in Dirs
        /\ s \in Fixed!Chains /\ t \in Fixed!Chains
        /\ s \in fixedRecords[object[p].dir] /\ t \in fixedRecords[object[q].dir]
    BY DEF FixedInv, FixedTypes, WritesAt, ObjectStands
  <2>2. Fixed!Audit(s, t) = "forked"
          <=> ~\E c \in Fixed!Chains : s \in PrefixesOf(c) /\ t \in PrefixesOf(c)
    BY <2>1, ForkedMeans
  <2>3. object[p].dir = object[q].dir =>
          \E c \in Fixed!Chains : s \in PrefixesOf(c) /\ t \in PrefixesOf(c)
    BY <2>1 DEF FixedInv, DirectoryReplays, Replays
  <2> QED
    BY <2>2, <2>3
<1> QED
  BY <1>1, FixedInvariance, PTL
=============================================================================
