------------------------- MODULE VersionStoreProofs -------------------------
(***************************************************************************)
(* Proofs about VersionStore for any processes, any of them writing, any     *)
(* scenes and any limits, and about the Atlases that the versions are made   *)
(* of (SafeAtlas) for any joint domain, obstacles and validator.             *)
(***************************************************************************)
EXTENDS VersionStore, PrefixChains, SequenceTheorems, FiniteSetTheorems, TLAPS

(* A manifest that open() accepts, of which every version loads. *)
Whole(m) == m # NoManifest => Openable(m) /\ \A v \in m.versions : Loadable(m, v)

(* What the files and the objects list. *)
Lists == {manifest, stray} \cup {backup[p] : p \in Procs} \cup {handle[p] : p \in Procs}

(* p's call has passed its checks; target[p] is what it will have written. *)
Busy(p) == pc[p] \in {"staging", "swapping", "swapped"}

PublishTarget(m, s) ==
    [current |-> Append(m.current, s), versions |-> m.versions \cup {Append(m.current, s)}]
RollbackTarget(m, v) == [current |-> v, versions |-> m.versions]

(* p's call will write what the checks of publish() or rollback() have made   *)
(* of the list that its object has cached.                                   *)
Proposed(p) ==
    \E s \in Scenes : /\ target[p] = PublishTarget(handle[p], s)
                      /\ Append(handle[p].current, s) \notin handle[p].versions
Reverting(p) == \E v \in handle[p].versions : target[p] = RollbackTarget(handle[p], v)

FitsAt(p) ==
    /\ pc[p] # "closed" => handle[p] # NoManifest
    /\ pc[p] = "saving" => Proposed(p)
    /\ Busy(p) => /\ target[p] # NoManifest /\ Whole(target[p])
                  /\ Proposed(p) \/ Reverting(p)

(* A version whose directory a failing publish() will remove is listed by no *)
(* file and no object, and by no other call that has passed its checks.      *)
Undoing(p) == pc[p] \in {"staging", "swapping"}

AloneAt(p) ==
    Undoing(p) =>
        \A v \in AddedBy(p) :
            /\ \A m \in Lists : v \notin m.versions
            /\ \A q \in Procs \ {p} : Busy(q) => v \notin target[q].versions

(* Before create() there is nothing. *)
NothingBeforeCreate ==
    ~created => /\ \A m \in Lists : m = NoManifest
                /\ \A p \in Procs : pc[p] = "closed"

IInv ==
    /\ TypeOK
    /\ \A m \in Lists : Whole(m)
    /\ \A p \in Procs : FitsAt(p) /\ AloneAt(p)
    /\ NothingBeforeCreate

-----------------------------------------------------------------------------
LEMMA ChildOf ==
    ASSUME NEW c \in Versions, NEW s \in Scenes
    PROVE  /\ Append(c, s) \in Versions /\ Append(c, s) # c
           /\ Len(c) \in Nat /\ Len(c) >= 1 /\ Len(Append(c, s)) = Len(c) + 1
           /\ Parent(Append(c, s)) = c
           /\ Ancestry(Append(c, s)) = Ancestry(c) \cup {Append(c, s)}
<1> DEFINE v == Append(c, s)
<1>1. c \in Seq(Scenes) /\ c # <<>>
  BY DEF Versions
<1>2. /\ v \in Seq(Scenes) /\ Len(v) = Len(c) + 1 /\ Len(c) \in Nat /\ v # <<>>
      /\ Len(c) # 0
  BY <1>1
<1>3. \A k \in 1..Len(c) : SubSeq(v, 1, k) = SubSeq(c, 1, k)
  <2> SUFFICES ASSUME NEW k \in 1..Len(c) PROVE SubSeq(v, 1, k) = SubSeq(c, 1, k)
    OBVIOUS
  <2>1. /\ SubSeq(v, 1, k) \in Seq(Scenes) /\ Len(SubSeq(v, 1, k)) = k
        /\ SubSeq(c, 1, k) \in Seq(Scenes) /\ Len(SubSeq(c, 1, k)) = k
    BY <1>1, <1>2
  <2>2. \A i \in 1..k : SubSeq(v, 1, k)[i] = SubSeq(c, 1, k)[i]
    BY <1>1, <1>2
  <2> QED
    BY <2>1, <2>2, SeqEqual
<1>4. SubSeq(c, 1, Len(c)) = c /\ SubSeq(v, 1, Len(v)) = v
  BY <1>1, <1>2, SubSeqFull
<1>5. Parent(v) = c
  BY <1>2, <1>3, <1>4 DEF Parent
<1>6. Ancestry(v) = Ancestry(c) \cup {v}
  BY <1>2, <1>3, <1>4 DEF Ancestry
<1> QED
  BY <1>1, <1>2, <1>5, <1>6 DEF Versions

(* A manifest stays whole as long as no directory of its versions is removed. *)
LEMMA WholeStays ==
    ASSUME NEW m, Whole(m), \A v \in m.versions : v \in dirs => v \in dirs'
    PROVE  Whole(m)'
<1> SUFFICES ASSUME m # NoManifest PROVE (Openable(m) /\ \A v \in m.versions : Loadable(m, v))'
  BY DEF Whole
<1>1. Openable(m) /\ \A v \in m.versions : Loadable(m, v)
  BY DEF Whole
<1>2. \A v \in m.versions : Loadable(m, v)'
  BY <1>1 DEF Loadable
<1> QED
  BY <1>1, <1>2 DEF Openable, Loadable

(* Whole manifests list versions whose directories are there. *)
LEMMA WholeIsThere ==
    ASSUME NEW m \in Manifests, Whole(m), m # NoManifest
    PROVE  /\ m.current \in m.versions /\ m.current \in Versions
           /\ \A v \in m.versions : v \in dirs /\ v \in Versions
<1>1. ASSUME NEW v \in m.versions
      PROVE  v \in dirs /\ v \in Versions
  <2>1. v \in Versions /\ v \in Seq(Scenes) /\ v # <<>>
    BY DEF Manifests, Versions
  <2>2. Len(v) \in 1..Len(v) /\ SubSeq(v, 1, Len(v)) = v
    BY <2>1, SubSeqFull
  <2>3. v \in Ancestry(v)
    BY <2>2 DEF Ancestry
  <2> QED
    BY <2>1, <2>3 DEF Whole, Loadable
<1>2. m.current \in m.versions
  BY DEF Whole, Openable, Loadable
<1> QED
  BY <1>1, <1>2

LEMMA PublishedIsWhole ==
    ASSUME NEW m \in Manifests, Whole(m), m # NoManifest, NEW s \in Scenes,
           dirs \subseteq dirs', Append(m.current, s) \in dirs'
    PROVE  /\ Whole(PublishTarget(m, s))' /\ PublishTarget(m, s) # NoManifest
           /\ PublishTarget(m, s) \in Manifests
<1> DEFINE c == m.current
           v == Append(c, s)
           t == PublishTarget(m, s)
<1>1. c \in m.versions /\ c \in Versions /\ \A w \in m.versions : w \in dirs /\ w \in Versions
  BY WholeIsThere
<1>2. /\ v \in Versions /\ Len(c) \in Nat /\ Len(c) >= 1 /\ Len(v) = Len(c) + 1
      /\ Parent(v) = c /\ Ancestry(v) = Ancestry(c) \cup {v}
  BY <1>1, ChildOf
<1>3. Openable(m) /\ \A w \in m.versions : Loadable(m, w)
  BY DEF Whole
<1>4. t.current = v /\ t.versions = m.versions \cup {v}
  BY DEF PublishTarget
<1>5. t \in Manifests /\ t # NoManifest
  BY <1>1, <1>2, <1>4 DEF PublishTarget, Manifests, Versions, NoManifest
<1> HIDE DEF t, v, c
<1>6. ASSUME NEW w \in t.versions
      PROVE  Loadable(t, w)'
  <2>1. CASE w \in m.versions
    <3>1. Ancestry(w) \subseteq m.versions /\ Ancestry(w) \subseteq dirs
      BY <1>3, <2>1 DEF Loadable
    <3> QED
      BY <1>4, <2>1, <3>1 DEF Loadable
  <2>2. CASE w = v
    <3>1. Ancestry(c) \subseteq m.versions /\ Ancestry(c) \subseteq dirs
      BY <1>1, <1>3 DEF Loadable
    <3>2. v \in dirs'
      BY DEF v, c
    <3> QED
      BY <1>2, <1>4, <2>2, <3>1, <3>2 DEF Loadable
  <2> QED
    BY <1>4, <2>1, <2>2
<1>7. Openable(t)'
  <2>1. PICK r \in m.versions : \A w \in m.versions : Len(w) = 1 <=> w = r
    BY <1>3 DEF Openable
  <2>2. Len(v) # 1
    BY <1>2
  <2>3. v # r
    BY <2>1, <2>2
  <2>4. \A w \in t.versions : Len(w) = 1 <=> w = r
    BY <1>4, <2>1, <2>2, <2>3
  <2>5. \A w \in t.versions : Len(w) = 1 \/ Parent(w) \in t.versions
    BY <1>1, <1>2, <1>3, <1>4 DEF Openable
  <2> QED
    BY <1>4, <1>5, <1>6, <2>1, <2>4, <2>5 DEF Openable
<1> QED
  BY <1>5, <1>6, <1>7 DEF Whole, t

LEMMA RollbackIsWhole ==
    ASSUME NEW m \in Manifests, Whole(m), m # NoManifest, NEW v \in m.versions,
           dirs' = dirs
    PROVE  /\ Whole(RollbackTarget(m, v))' /\ RollbackTarget(m, v) # NoManifest
           /\ RollbackTarget(m, v) \in Manifests
<1> DEFINE t == RollbackTarget(m, v)
<1>1. Openable(m) /\ \A w \in m.versions : Loadable(m, w)
  BY DEF Whole
<1>2. t.current = v /\ t.versions = m.versions
  BY DEF RollbackTarget
<1>3. v \in Versions
  BY WholeIsThere
<1>4. t \in Manifests /\ t # NoManifest
  BY <1>2, <1>3 DEF RollbackTarget, Manifests, Versions, NoManifest
<1> HIDE DEF t
<1>5. \A w \in t.versions : Loadable(t, w)'
  BY <1>1, <1>2 DEF Loadable
<1>6. Openable(t)'
  BY <1>1, <1>2, <1>4, <1>5 DEF Openable
<1> QED
  BY <1>4, <1>5, <1>6 DEF Whole, t

-----------------------------------------------------------------------------
LEMMA ListsAreManifests ==
    ASSUME TypeOK
    PROVE  /\ \A m \in Lists : m \in Manifests
           /\ \A p \in Procs : /\ handle[p] \in Lists /\ backup[p] \in Lists
                               /\ target[p] \in Manifests
           /\ manifest \in Lists /\ stray \in Lists
BY DEF TypeOK, Lists

LEMMA ListedIsThere ==
    ASSUME IInv
    PROVE  /\ \A m \in Lists : \A v \in m.versions : v \in dirs
           /\ \A p \in Procs : Busy(p) => \A v \in target[p].versions : v \in dirs
<1>1. TypeOK
  BY DEF IInv
<1>2. ASSUME NEW m \in Lists, NEW v \in m.versions
      PROVE  v \in dirs
  <2>1. m # NoManifest
    BY <1>2 DEF NoManifest
  <2> QED
    BY <1>1, <1>2, <2>1, ListsAreManifests, WholeIsThere DEF IInv
<1>3. ASSUME NEW p \in Procs, Busy(p), NEW v \in target[p].versions
      PROVE  v \in dirs
  <2>1. Whole(target[p]) /\ target[p] # NoManifest
    BY <1>3 DEF IInv, FitsAt
  <2>2. PICK t \in Manifests : t = target[p]
    BY <1>1, ListsAreManifests
  <2> QED
    BY <1>3, <2>1, <2>2, WholeIsThere
<1> QED
  BY <1>2, <1>3

(* What one process does. *)
LEMMA OneCall ==
    ASSUME IInv, TypeOK', created, created', NEW p \in Procs,
           \A q \in Procs \ {p} : /\ pc'[q] = pc[q] /\ handle'[q] = handle[q]
                                  /\ target'[q] = target[q],
           \A v \in dirs : v \in dirs' \/ (Undoing(p) /\ v \in AddedBy(p)),
           \A m \in Lists' :
              \/ m \in Lists
              \/ m = NoManifest
              \/ /\ Busy(p) /\ m = target[p]
                 /\ pc'[p] \notin {"staging", "swapping"} /\ dirs \subseteq dirs',
           Busy(p)' => \/ Busy(p) /\ target'[p] = target[p]
                       \/ \A v \in target'[p].versions : v \in handle[p].versions \/ v \notin dirs,
           Undoing(p)' => \/ /\ Undoing(p)
                             /\ target'[p] = target[p] /\ handle'[p] = handle[p]
                          \/ \A v \in AddedBy(p)' : v \notin dirs,
           FitsAt(p)'
    PROVE  IInv'
<1>1. /\ TypeOK /\ \A q \in Procs : FitsAt(q) /\ AloneAt(q)
      /\ \A m \in Lists : Whole(m)
  BY DEF IInv
<1>2. NoManifest.versions = {}
  BY DEF NoManifest
<1>3. ASSUME NEW m \in Lists'
      PROVE  Whole(m)'
  <2>1. CASE m \in Lists
    <3>1. \A v \in m.versions : v \in dirs => v \in dirs'
      BY <1>1, <2>1 DEF AloneAt
    <3> QED
      BY <1>1, <2>1, <3>1, WholeStays
  <2>2. CASE m = NoManifest
    BY <2>2 DEF Whole
  <2>3. CASE Busy(p) /\ m = target[p] /\ dirs \subseteq dirs'
    <3>1. Whole(m)
      BY <1>1, <2>3 DEF FitsAt
    <3> QED
      BY <2>3, <3>1, WholeStays
  <2> QED
    BY <2>1, <2>2, <2>3
<1>4. ASSUME NEW q \in Procs \ {p}
      PROVE  FitsAt(q)'
  <2>1. PICK t, h : t = target[q] /\ h = handle[q]
    OBVIOUS
  <2>2. target'[q] = t /\ handle'[q] = h /\ pc'[q] = pc[q]
    BY <2>1
  <2>3. Busy(q) => Whole(t)'
    <3>1. SUFFICES ASSUME Busy(q) PROVE Whole(t)'
      OBVIOUS
    <3>2. Whole(t)
      BY <1>1, <2>1, <3>1 DEF FitsAt
    <3>3. \A v \in t.versions : v \in dirs => v \in dirs'
      BY <1>1, <2>1, <3>1 DEF AloneAt
    <3> QED
      BY <3>2, <3>3, WholeStays
  <2>4. FitsAt(q)
    BY <1>1
  <2>5. (Busy(q)' <=> Busy(q)) /\ (Proposed(q)' <=> Proposed(q)) /\ (Reverting(q)' <=> Reverting(q))
    BY <2>1, <2>2 DEF Busy, Proposed, Reverting
  <2> QED
    BY <2>1, <2>2, <2>3, <2>4, <2>5 DEF FitsAt
<1>5. ASSUME NEW q \in Procs \ {p}
      PROVE  AloneAt(q)'
  <2> SUFFICES ASSUME Undoing(q)', NEW v \in AddedBy(q)'
               PROVE  /\ \A m \in Lists' : v \notin m.versions
                      /\ \A r \in Procs \ {q} : Busy(r)' => v \notin target'[r].versions
    BY DEF AloneAt
  <2>1. Undoing(q) /\ v \in AddedBy(q)
    BY DEF Undoing, AddedBy
  <2>2. /\ \A m \in Lists : v \notin m.versions
        /\ \A r \in Procs \ {q} : Busy(r) => v \notin target[r].versions
    BY <1>1, <2>1 DEF AloneAt
  <2>3. \A m \in Lists' : v \notin m.versions
    BY <1>2, <2>2
  <2>4. ASSUME NEW r \in Procs \ {q}, Busy(r)'
        PROVE  v \notin target'[r].versions
    <3>1. CASE r # p
      <4>1. Busy(r)
        BY <2>4, <3>1 DEF Busy
      <4> QED
        BY <2>2, <3>1, <4>1
    <3>2. CASE r = p
      <4>1. v \in dirs
        BY <2>1, ListedIsThere DEF Undoing, Busy, AddedBy
      <4>2. v \notin handle[p].versions
        BY <1>1, <2>2, ListsAreManifests
      <4> QED
        BY <2>2, <2>4, <3>2, <4>1, <4>2
    <3> QED
      BY <3>1, <3>2
  <2> QED
    BY <2>3, <2>4
<1>6. AloneAt(p)'
  <2> SUFFICES ASSUME Undoing(p)', NEW v \in AddedBy(p)'
               PROVE  /\ \A m \in Lists' : v \notin m.versions
                      /\ \A r \in Procs \ {p} : Busy(r)' => v \notin target'[r].versions
    BY DEF AloneAt
  <2>1. \A m \in Lists' : m \in Lists \/ m = NoManifest
    BY DEF Undoing
  <2>2. \A r \in Procs \ {p} : Busy(r)' => Busy(r) /\ target'[r] = target[r]
    BY DEF Busy
  <2>3. CASE Undoing(p) /\ target'[p] = target[p] /\ handle'[p] = handle[p]
    <3>1. v \in AddedBy(p)
      BY <2>3 DEF AddedBy
    <3>2. /\ \A m \in Lists : v \notin m.versions
          /\ \A r \in Procs \ {p} : Busy(r) => v \notin target[r].versions
      BY <1>1, <2>3, <3>1 DEF AloneAt
    <3> QED
      BY <1>2, <2>1, <2>2, <3>2
  <2>4. CASE v \notin dirs
    BY <1>2, <2>1, <2>2, <2>4, ListedIsThere
  <2> QED
    BY <2>3, <2>4
<1> QED
  BY <1>3, <1>4, <1>5, <1>6 DEF IInv, NothingBeforeCreate

-----------------------------------------------------------------------------
(* A call has been made of a store that was created. *)
LEMMA CalledIsCreated ==
    ASSUME IInv, NEW p \in Procs, pc[p] # "closed"
    PROVE  created /\ created \in BOOLEAN
BY DEF IInv, NothingBeforeCreate, TypeOK

LEMMA CreateStep ==
    ASSUME IInv, UNCHANGED writers, NEW p \in Procs, NEW s \in Scenes, Create(p, s)
    PROVE  IInv'
<1>1. PICK m : m = [current |-> <<s>>, versions |-> {<<s>>}]
  OBVIOUS
<1>2. /\ <<s>> \in Versions /\ m \in Manifests /\ m # NoManifest
      /\ m.current = <<s>> /\ m.versions = {<<s>>}
  BY <1>1 DEF Versions, Manifests, NoManifest
<1>3. /\ TypeOK /\ ~created /\ created' /\ \A q \in Procs : pc[q] = "closed"
      /\ manifest' = m /\ UNCHANGED <<backup, stray, target>> /\ dirs' = {<<s>>}
      /\ handle' = [handle EXCEPT ![p] = m] /\ pc' = [pc EXCEPT ![p] = "open"]
  BY <1>1 DEF Create, IInv, NothingBeforeCreate
<1>4. TypeOK'
  BY <1>2, <1>3 DEF TypeOK, Places, Create
<1>5. \A x \in Lists' : x = NoManifest \/ x = m
  <2>1. \A x \in Lists : x = NoManifest
    BY <1>3 DEF IInv, NothingBeforeCreate
  <2>2. \A q \in Procs : handle'[q] = handle[q] \/ handle'[q] = m
    BY <1>3 DEF TypeOK
  <2> QED
    BY <1>3, <2>1, <2>2 DEF Lists
<1>6. Whole(m)'
  <2>1. Ancestry(<<s>>) = {<<s>>}
    <3>1. <<s>> \in Seq(Scenes) /\ Len(<<s>>) = 1
      OBVIOUS
    <3>2. SubSeq(<<s>>, 1, 1) = <<s>>
      BY <3>1, SubSeqFull
    <3>3. 1..1 = {1}
      OBVIOUS
    <3> QED
      BY <3>1, <3>2, <3>3 DEF Ancestry
  <2>2. \A v \in m.versions : Loadable(m, v)'
    BY <1>2, <1>3, <2>1 DEF Loadable
  <2>3. Openable(m)'
    BY <1>2, <2>2 DEF Openable
  <2> QED
    BY <2>2, <2>3 DEF Whole
<1>7. \A x \in Lists' : Whole(x)'
  BY <1>5, <1>6 DEF Whole
<1>8. ASSUME NEW q \in Procs
      PROVE  FitsAt(q)' /\ AloneAt(q)'
  <2>1. pc'[q] = "closed" \/ (pc'[q] = "open" /\ handle'[q] = m)
    BY <1>3 DEF TypeOK
  <2> QED
    BY <1>2, <2>1 DEF FitsAt, AloneAt, Busy, Undoing
<1> QED
  BY <1>3, <1>4, <1>7, <1>8 DEF IInv, NothingBeforeCreate

LEMMA OpenStep ==
    ASSUME IInv, UNCHANGED writers, NEW p \in Procs, Open(p)
    PROVE  IInv'
<1>1. TypeOK /\ manifest # NoManifest /\ manifest \in Lists
  BY ListsAreManifests DEF Open, Openable, IInv
<1>2. created /\ created'
  BY <1>1 DEF Open, IInv, NothingBeforeCreate, TypeOK
<1>3. TypeOK'
  BY <1>1 DEF TypeOK, Open, Places
<1>4. /\ \A q \in Procs \ {p} : pc'[q] = pc[q] /\ handle'[q] = handle[q]
      /\ pc'[p] = "open" /\ handle'[p] = manifest /\ target' = target
      /\ UNCHANGED <<manifest, backup, stray, dirs>>
  BY <1>1 DEF Open, TypeOK
<1>5. \A m \in Lists' : m \in Lists
  <2>1. \A q \in Procs : handle'[q] = handle[q] \/ handle'[q] = manifest
    BY <1>4
  <2> QED
    BY <1>4, <2>1 DEF Lists
<1>6. FitsAt(p)'
  BY <1>1, <1>4 DEF FitsAt, Busy
<1> QED
  BY <1>2, <1>3, <1>4, <1>5, <1>6, OneCall DEF Busy, Undoing

LEMMA PublishCheckStep ==
    ASSUME IInv, UNCHANGED writers, NEW p \in Procs, NEW s \in Scenes, PublishCheck(p, s)
    PROVE  IInv'
<1>1. TypeOK /\ created /\ created' /\ pc[p] = "open"
  BY CalledIsCreated DEF PublishCheck, IInv
<1>2. handle[p] # NoManifest /\ handle[p] \in Manifests /\ Whole(handle[p])
  BY <1>1, ListsAreManifests DEF IInv, FitsAt
<1>3. PublishTarget(handle[p], s) \in Manifests
  <2>1. handle[p].current \in Versions
    BY <1>2, WholeIsThere
  <2>2. Append(handle[p].current, s) \in Versions
    BY <2>1, ChildOf
  <2> QED
    BY <1>2, <2>2 DEF PublishTarget, Manifests, Versions
<1>4. /\ target' = [target EXCEPT ![p] = PublishTarget(handle[p], s)]
      /\ Append(handle[p].current, s) \notin handle[p].versions
      /\ pc' = [pc EXCEPT ![p] = "saving"]
      /\ UNCHANGED <<manifest, backup, stray, created, dirs, handle>>
  BY DEF PublishCheck, PublishTarget
<1>5. TypeOK'
  BY <1>1, <1>3, <1>4 DEF TypeOK, Places
<1>6. /\ pc'[p] = "saving" /\ target'[p] = PublishTarget(handle[p], s)
      /\ \A q \in Procs \ {p} : pc'[q] = pc[q] /\ target'[q] = target[q]
  BY <1>1, <1>4 DEF TypeOK
<1>7. Lists' = Lists
  BY <1>4 DEF Lists
<1>8. FitsAt(p)'
  BY <1>2, <1>4, <1>6 DEF FitsAt, Busy, Proposed
<1> QED
  BY <1>1, <1>4, <1>5, <1>6, <1>7, <1>8, OneCall DEF Busy, Undoing

LEMMA SaveAtlasStep ==
    ASSUME IInv, UNCHANGED writers, NEW p \in Procs, SaveAtlas(p)
    PROVE  IInv'
<1>1. TypeOK /\ created /\ created' /\ pc[p] = "saving"
  BY CalledIsCreated DEF SaveAtlas, IInv
<1>2. PICK s \in Scenes : /\ target[p] = PublishTarget(handle[p], s)
                          /\ Append(handle[p].current, s) \notin handle[p].versions
  BY <1>1 DEF IInv, FitsAt, Proposed
<1>3. PICK m \in Manifests : m = handle[p] /\ m # NoManifest /\ Whole(m)
  BY <1>1, ListsAreManifests DEF IInv, FitsAt
<1> DEFINE v == Append(m.current, s)
<1>4. target[p].current = v /\ target[p].versions = m.versions \cup {v}
  BY <1>2, <1>3 DEF PublishTarget
<1>5. /\ v \notin dirs /\ dirs' = dirs \cup {v}
      /\ pc' = [pc EXCEPT ![p] = "staging"]
      /\ UNCHANGED <<manifest, backup, stray, created, handle, target>>
  BY <1>4 DEF SaveAtlas
<1>6. /\ Whole(PublishTarget(m, s))' /\ PublishTarget(m, s) # NoManifest
      /\ PublishTarget(m, s) \in Manifests
  BY <1>3, <1>5, PublishedIsWhole
<1>7. TypeOK'
  <2>1. v \in Versions
    BY <1>6 DEF PublishTarget, Manifests
  <2> QED
    BY <1>1, <1>5, <2>1 DEF TypeOK, Places
<1>8. pc'[p] = "staging" /\ \A q \in Procs \ {p} : pc'[q] = pc[q]
  BY <1>1, <1>5 DEF TypeOK
<1>9. Lists' = Lists
  BY <1>5 DEF Lists
<1>10. FitsAt(p)'
  <2>1. target'[p] = PublishTarget(m, s) /\ handle'[p] = m
    BY <1>2, <1>3, <1>5
  <2>2. Proposed(p)'
    BY <1>2, <1>3, <2>1 DEF Proposed
  <2>3. Whole(target[p])'
    BY <1>6, <2>1
  <2> QED
    BY <1>3, <1>6, <1>8, <2>1, <2>2, <2>3 DEF FitsAt
<1>11. AddedBy(p)' = {v}
  BY <1>2, <1>3, <1>4, <1>5 DEF AddedBy
<1>12. \A w \in target'[p].versions : w \in handle[p].versions \/ w \notin dirs
  BY <1>3, <1>4, <1>5
<1> QED
  BY <1>1, <1>5, <1>7, <1>8, <1>9, <1>10, <1>11, <1>12, OneCall

LEMMA SaveFailsStep ==
    ASSUME IInv, UNCHANGED writers, NEW p \in Procs, SaveFails(p)
    PROVE  IInv'
<1>1. TypeOK /\ created /\ created' /\ pc[p] = "saving" /\ FitsAt(p)
  BY CalledIsCreated DEF SaveFails, IInv
<1>2. TypeOK'
  BY <1>1 DEF TypeOK, SaveFails, Places, Manifests, NoManifest
<1>3. /\ pc'[p] = "open" /\ handle' = handle /\ dirs' = dirs
      /\ \A q \in Procs \ {p} : pc'[q] = pc[q] /\ target'[q] = target[q]
  BY <1>1 DEF SaveFails, TypeOK
<1>4. Lists' = Lists
  BY DEF SaveFails, Lists
<1>5. FitsAt(p)'
  BY <1>1, <1>3 DEF FitsAt, Busy
<1> QED
  BY <1>1, <1>2, <1>3, <1>4, <1>5, OneCall DEF Busy, Undoing

LEMMA RollbackCheckStep ==
    ASSUME IInv, UNCHANGED writers, NEW p \in Procs, NEW v \in handle[p].versions,
           RollbackCheck(p, v)
    PROVE  IInv'
<1>1. TypeOK /\ created /\ created' /\ pc[p] = "open"
  BY CalledIsCreated DEF RollbackCheck, IInv
<1>2. PICK m \in Manifests : m = handle[p] /\ m # NoManifest /\ Whole(m)
  BY <1>1, ListsAreManifests DEF IInv, FitsAt
<1>3. PICK t : t = RollbackTarget(m, v)
  OBVIOUS
<1>4. /\ target' = [target EXCEPT ![p] = t] /\ pc' = [pc EXCEPT ![p] = "staging"]
      /\ UNCHANGED <<manifest, backup, stray, created, dirs, handle>>
  BY <1>2, <1>3 DEF RollbackCheck, RollbackTarget
<1>5. Whole(t)' /\ t # NoManifest /\ t \in Manifests /\ t.versions = m.versions
  <2>1. t.versions = m.versions
    BY <1>3 DEF RollbackTarget
  <2> QED
    BY <1>2, <1>3, <1>4, <2>1, RollbackIsWhole
<1>6. TypeOK'
  BY <1>1, <1>4, <1>5 DEF TypeOK, Places
<1>7. /\ pc'[p] = "staging" /\ target'[p] = t /\ handle'[p] = m
      /\ \A q \in Procs \ {p} : pc'[q] = pc[q] /\ target'[q] = target[q]
  BY <1>1, <1>2, <1>4 DEF TypeOK
<1>8. Lists' = Lists
  BY <1>4 DEF Lists
<1>9. FitsAt(p)'
  <2>1. Reverting(p)'
    BY <1>2, <1>3, <1>7 DEF Reverting
  <2> QED
    BY <1>2, <1>5, <1>7, <2>1 DEF FitsAt
<1>10. AddedBy(p)' = {}
  BY <1>5, <1>7 DEF AddedBy
<1> QED
  BY <1>1, <1>2, <1>4, <1>5, <1>6, <1>7, <1>8, <1>9, <1>10, OneCall

LEMMA StageStep ==
    ASSUME IInv, UNCHANGED writers, NEW p \in Procs, Stage(p)
    PROVE  IInv'
<1>1. TypeOK /\ created /\ created' /\ pc[p] = "staging" /\ FitsAt(p)
  BY CalledIsCreated DEF Stage, IInv
<1>2. TypeOK'
  BY <1>1 DEF TypeOK, Stage, Places, Manifests, NoManifest
<1>3. /\ pc'[p] = "swapping" /\ \A q \in Procs \ {p} : pc'[q] = pc[q]
      /\ manifest' = NoManifest /\ UNCHANGED <<stray, dirs, handle, target>>
      /\ \A q \in Procs : backup'[q] = backup[q] \/ backup'[q] = manifest
  BY <1>1 DEF Stage, TypeOK
<1>4. \A m \in Lists' : m \in Lists \/ m = NoManifest
  BY <1>3 DEF Lists
<1>5. FitsAt(p)'
  <2>1. PICK t : t = target[p] /\ target'[p] = t
    BY <1>3
  <2>2. Whole(t)
    BY <1>1, <2>1 DEF FitsAt, Busy
  <2>3. Whole(t)'
    BY <1>3, <2>2, WholeStays
  <2>4. (Proposed(p)' <=> Proposed(p)) /\ (Reverting(p)' <=> Reverting(p))
    BY <1>3 DEF Proposed, Reverting
  <2> QED
    BY <1>1, <1>3, <2>1, <2>3, <2>4 DEF FitsAt, Busy
<1> QED
  BY <1>1, <1>2, <1>3, <1>4, <1>5, OneCall DEF Busy, Undoing

LEMMA SwapStep ==
    ASSUME IInv, UNCHANGED writers, NEW p \in Procs, Swap(p)
    PROVE  IInv'
<1>1. TypeOK /\ created /\ created' /\ pc[p] = "swapping" /\ FitsAt(p)
  BY CalledIsCreated DEF Swap, IInv
<1>2. TypeOK'
  BY <1>1 DEF TypeOK, Swap, Places
<1>3. /\ pc'[p] = "swapped" /\ \A q \in Procs \ {p} : pc'[q] = pc[q]
      /\ manifest' = target[p] /\ UNCHANGED <<backup, stray, dirs, handle, target>>
  BY <1>1 DEF Swap, TypeOK
<1>4. \A m \in Lists' : m \in Lists \/ m = target[p]
  BY <1>3 DEF Lists
<1>5. FitsAt(p)'
  <2>1. PICK t : t = target[p] /\ target'[p] = t
    BY <1>3
  <2>2. Whole(t)
    BY <1>1, <2>1 DEF FitsAt, Busy
  <2>3. Whole(t)'
    BY <1>3, <2>2, WholeStays
  <2>4. (Proposed(p)' <=> Proposed(p)) /\ (Reverting(p)' <=> Reverting(p))
    BY <1>3 DEF Proposed, Reverting
  <2> QED
    BY <1>1, <1>3, <2>1, <2>3, <2>4 DEF FitsAt, Busy
<1> QED
  BY <1>1, <1>2, <1>3, <1>4, <1>5, OneCall DEF Busy, Undoing

LEMMA WriteReturnsStep ==
    ASSUME IInv, UNCHANGED writers, NEW p \in Procs, WriteReturns(p)
    PROVE  IInv'
<1>1. TypeOK /\ created /\ created' /\ pc[p] = "swapped" /\ FitsAt(p)
  BY CalledIsCreated DEF WriteReturns, IInv
<1>2. TypeOK'
  BY <1>1 DEF TypeOK, WriteReturns, Places, Manifests, NoManifest
<1>3. /\ pc'[p] = "open" /\ handle'[p] = target[p]
      /\ \A q \in Procs \ {p} : /\ pc'[q] = pc[q] /\ handle'[q] = handle[q]
                                /\ target'[q] = target[q]
      /\ \A q \in Procs : backup'[q] = backup[q] \/ backup'[q] = NoManifest
      /\ UNCHANGED <<manifest, stray, dirs>>
  BY <1>1 DEF WriteReturns, TypeOK
<1>4. \A m \in Lists' : m \in Lists \/ m = NoManifest \/ m = target[p]
  BY <1>3 DEF Lists
<1>5. FitsAt(p)'
  BY <1>1, <1>3 DEF FitsAt, Busy
<1> QED
  BY <1>1, <1>2, <1>3, <1>4, <1>5, OneCall DEF Busy, Undoing

(* A write that fails, whether or not it gets the old file back. *)
LEMMA WriteFailsStep ==
    ASSUME IInv, UNCHANGED writers, NEW p \in Procs, WriteFails(p) \/ RestoreFails(p)
    PROVE  IInv'
<1>1. TypeOK /\ created /\ created' /\ Undoing(p) /\ FitsAt(p)
  BY CalledIsCreated DEF WriteFails, RestoreFails, Undoing, IInv
<1>2. TypeOK'
  <2>1. CASE WriteFails(p)
    BY <1>1, <2>1 DEF TypeOK, WriteFails, Places, Manifests, NoManifest
  <2>2. CASE RestoreFails(p)
    BY <1>1, <2>2 DEF TypeOK, RestoreFails, Places, Manifests, NoManifest
  <2> QED
    BY <2>1, <2>2
<1>3. /\ pc'[p] = "open" /\ handle' = handle /\ dirs' = dirs \ AddedBy(p)
      /\ \A q \in Procs \ {p} : pc'[q] = pc[q] /\ target'[q] = target[q]
      /\ \A q \in Procs : backup'[q] = backup[q] \/ backup'[q] = NoManifest
      /\ manifest' = manifest \/ manifest' = backup[p]
      /\ stray' = stray \/ stray' = backup[p]
  BY <1>1 DEF WriteFails, RestoreFails, TypeOK
<1>4. \A m \in Lists' : m \in Lists \/ m = NoManifest
  BY <1>3 DEF Lists
<1>5. FitsAt(p)'
  BY <1>1, <1>3 DEF FitsAt, Busy, Undoing
<1> QED
  BY <1>1, <1>2, <1>3, <1>4, <1>5, OneCall DEF Busy, Undoing

LEMMA CrashStep ==
    ASSUME IInv, UNCHANGED writers, NEW p \in Procs, Crash(p)
    PROVE  IInv'
<1>1. TypeOK /\ created /\ created'
  BY CalledIsCreated DEF Crash, IInv
<1>2. TypeOK'
  BY <1>1 DEF TypeOK, Crash, Places, Manifests, NoManifest
<1>3. /\ pc'[p] = "closed"
      /\ \A q \in Procs \ {p} : /\ pc'[q] = pc[q] /\ target'[q] = target[q]
                                /\ handle'[q] = handle[q]
      /\ \A q \in Procs : /\ backup'[q] = backup[q] \/ backup'[q] = NoManifest
                          /\ handle'[q] = handle[q] \/ handle'[q] = NoManifest
      /\ manifest' = manifest /\ dirs' = dirs
      /\ stray' = stray \/ stray' = backup[p]
  BY <1>1 DEF Crash, TypeOK
<1>4. \A m \in Lists' : m \in Lists \/ m = NoManifest
  BY <1>3 DEF Lists
<1>5. FitsAt(p)'
  BY <1>3 DEF FitsAt, Busy
<1> QED
  BY <1>1, <1>2, <1>3, <1>4, <1>5, OneCall DEF Busy, Undoing

LEMMA StutterStep ==
    ASSUME IInv, UNCHANGED vars
    PROVE  IInv'
<1>1. TypeOK'
  BY DEF IInv, TypeOK, vars
<1>2. Lists' = Lists
  BY DEF Lists, vars
<1>3. \A m \in Lists' : Whole(m)'
  BY <1>2, WholeStays DEF IInv, vars
<1>4. ASSUME NEW p \in Procs
      PROVE  FitsAt(p)' /\ AloneAt(p)'
  <2>1. FitsAt(p) /\ AloneAt(p)
    BY DEF IInv
  <2>2. PICK t : t = target[p] /\ target'[p] = t
    BY DEF vars
  <2>3. Whole(t) => Whole(t)'
    BY WholeStays DEF vars
  <2>4. FitsAt(p)'
    BY <2>1, <2>2, <2>3 DEF FitsAt, Busy, Proposed, Reverting, vars
  <2>5. AloneAt(p)'
    BY <1>2, <2>1 DEF AloneAt, Undoing, Busy, AddedBy, vars
  <2> QED
    BY <2>4, <2>5
<1>5. NothingBeforeCreate'
  BY <1>2 DEF IInv, NothingBeforeCreate, vars
<1> QED
  BY <1>1, <1>3, <1>4, <1>5 DEF IInv

LEMMA NextStep ==
    ASSUME IInv, [Next]_vars
    PROVE  IInv'
<1>1. CASE UNCHANGED vars
  BY <1>1, StutterStep
<1>2. ASSUME UNCHANGED writers, NEW p \in Procs, Open(p) \/ Crash(p)
      PROVE  IInv'
  BY <1>2, OpenStep, CrashStep
<1>3. ASSUME UNCHANGED writers, NEW p \in Procs, NEW s \in Scenes, Create(p, s)
      PROVE  IInv'
  BY <1>3, CreateStep
<1>4. ASSUME UNCHANGED writers, NEW p \in Procs, Publish(p)
      PROVE  IInv'
  BY <1>4, PublishCheckStep, SaveAtlasStep, SaveFailsStep DEF Publish
<1>5. ASSUME UNCHANGED writers, NEW p \in Procs, NEW v \in handle[p].versions,
             RollbackCheck(p, v)
      PROVE  IInv'
  BY <1>5, RollbackCheckStep
<1>6. ASSUME UNCHANGED writers, NEW p \in Procs, WriteManifest(p)
      PROVE  IInv'
  BY <1>6, StageStep, SwapStep, WriteReturnsStep, WriteFailsStep DEF WriteManifest
<1>7. writers \subseteq Procs
  BY DEF IInv, TypeOK
<1> QED
  BY <1>1, <1>2, <1>3, <1>4, <1>5, <1>6, <1>7 DEF Next

LEMMA InitStep ==
    ASSUME Init
    PROVE  IInv
<1>1. NoManifest \in Manifests
  BY DEF NoManifest, Manifests
<1>2. TypeOK
  BY <1>1 DEF Init, TypeOK, Places
<1>3. \A m \in Lists : m = NoManifest
  BY DEF Init, Lists
<1>4. \A p \in Procs : FitsAt(p) /\ AloneAt(p)
  BY DEF Init, FitsAt, AloneAt, Busy, Undoing
<1> QED
  BY <1>2, <1>3, <1>4 DEF IInv, Whole, NothingBeforeCreate, Init

LEMMA Invariance == Spec => []IInv
<1>1. Init => IInv
  BY InitStep
<1>2. IInv /\ [Next]_vars => IInv'
  BY NextStep
<1> QED
  BY <1>1, <1>2, PTL DEF Spec

-----------------------------------------------------------------------------
(* One writer w.  The others have nothing aside, and what w's object has     *)
(* cached is what the files say unless it has just replaced store.json.      *)
OthersOpen(w) == \A q \in Procs \ {w} : pc[q] \in {"closed", "open"} /\ backup[q] = NoManifest

LoneAt(w) ==
    /\ OthersOpen(w)
    /\ pc[w] \notin {"swapping", "swapped"} => backup[w] = NoManifest
    /\ pc[w] \notin {"closed", "swapped"} => handle[w] = Durable
    /\ pc[w] = "swapping" => manifest = NoManifest
    /\ pc[w] = "swapped" => manifest = target[w]
    /\ HandlesNotAhead

LoneInv == \A w \in Procs : writers = {w} => LoneAt(w)

FileOf(m, b, s) == IF m # NoManifest THEN m ELSE IF b # NoManifest THEN b ELSE s

LEMMA DurableOf ==
    ASSUME NEW w \in Procs
    PROVE  /\ OthersOpen(w) => Durable = FileOf(manifest, backup[w], stray)
           /\ OthersOpen(w)' => Durable' = FileOf(manifest', backup'[w], stray')
<1>1. OthersOpen(w) => Durable = FileOf(manifest, backup[w], stray)
  <2>1. ASSUME OthersOpen(w)
        PROVE  \A p \in Procs : backup[p] # NoManifest <=> p = w /\ backup[w] # NoManifest
    BY <2>1 DEF OthersOpen
  <2> QED
    BY <2>1 DEF Durable, FileOf
<1>2. OthersOpen(w)' => Durable' = FileOf(manifest', backup'[w], stray')
  <2>1. ASSUME OthersOpen(w)'
        PROVE  \A p \in Procs : backup'[p] # NoManifest <=> p = w /\ backup'[w] # NoManifest
    BY <2>1 DEF OthersOpen
  <2> QED
    BY <2>1 DEF Durable, FileOf
<1> QED
  BY <1>1, <1>2

(* A step that leaves what the files say. *)
LEMMA HandlesStay ==
    ASSUME HandlesNotAhead, Durable.versions \subseteq Durable'.versions,
           \A q \in Procs : \/ handle'[q] = handle[q] \/ handle'[q] = NoManifest
                            \/ handle'[q] = Durable'
    PROVE  HandlesNotAhead'
BY DEF HandlesNotAhead, NoManifest

(* What another process than the writer does. *)
LEMMA OtherStep ==
    ASSUME IInv, NEW w \in Procs, LoneAt(w), NEW p \in Procs \ {w}, Open(p) \/ Crash(p)
    PROVE  LoneAt(w)' /\ Durable' = Durable
<1>1. TypeOK /\ OthersOpen(w)
  BY DEF IInv, LoneAt
<1>2. /\ UNCHANGED <<manifest, backup, stray>> /\ pc'[w] = pc[w] /\ handle'[w] = handle[w]
      /\ target'[w] = target[w] /\ pc'[p] \in {"closed", "open"}
      /\ \A q \in Procs \ {p} : pc'[q] = pc[q] /\ handle'[q] = handle[q]
      /\ handle'[p] = NoManifest \/ (manifest # NoManifest /\ handle'[p] = manifest)
  <2>1. CASE Open(p)
    BY <1>1, <2>1 DEF Open, TypeOK, Openable
  <2>2. CASE Crash(p)
    <3>1. backup[p] = NoManifest
      BY <1>1 DEF OthersOpen
    <3>2. backup' = backup
      BY <1>1, <2>2, <3>1 DEF Crash, TypeOK
    <3> QED
      BY <1>1, <2>2, <3>1, <3>2 DEF Crash, TypeOK
  <2> QED
    BY <2>1, <2>2
<1>3. OthersOpen(w)'
  BY <1>1, <1>2 DEF OthersOpen
<1>4. Durable' = Durable
  BY <1>1, <1>2, <1>3, DurableOf
<1>5. manifest # NoManifest => Durable = manifest
  BY DEF Durable
<1>6. HandlesNotAhead'
  BY <1>2, <1>4, <1>5, HandlesStay DEF LoneAt
<1> QED
  BY <1>2, <1>3, <1>4, <1>6 DEF LoneAt

(* What the writer does without changing what the files say. *)
LEMMA QuietWriterStep ==
    ASSUME IInv, NEW w \in Procs, LoneAt(w),
           \/ Open(w) \/ Crash(w) \/ Publish(w)
           \/ \E v \in handle[w].versions : RollbackCheck(w, v)
           \/ Stage(w) \/ WriteReturns(w) \/ WriteFails(w) \/ RestoreFails(w)
    PROVE  LoneAt(w)' /\ Durable' = Durable
<1>1. TypeOK /\ FitsAt(w) /\ OthersOpen(w) /\ Durable = FileOf(manifest, backup[w], stray)
  BY DurableOf DEF IInv, LoneAt
<1>2. \A q \in Procs \ {w} : /\ pc'[q] = pc[q] /\ handle'[q] = handle[q]
                             /\ backup'[q] = backup[q]
  BY <1>1 DEF TypeOK, Open, Crash, Publish, PublishCheck, SaveAtlas, SaveFails,
              RollbackCheck, Stage, WriteReturns, WriteFails, RestoreFails
<1>3. OthersOpen(w)'
  BY <1>1, <1>2 DEF OthersOpen
<1>4. Durable' = FileOf(manifest', backup'[w], stray')
  BY <1>3, DurableOf
<1> DEFINE Settled ==
        /\ Durable' = Durable
        /\ handle'[w] = handle[w] \/ handle'[w] = NoManifest \/ handle'[w] = Durable'
        /\ pc'[w] \notin {"swapping", "swapped"} => backup'[w] = NoManifest
        /\ pc'[w] \notin {"closed", "swapped"} => handle'[w] = Durable'
        /\ pc'[w] = "swapping" => manifest' = NoManifest
        /\ pc'[w] # "swapped"
<1>5. ASSUME Open(w) PROVE Settled
  <2>1. /\ pc'[w] = "open" /\ manifest # NoManifest /\ handle'[w] = manifest
        /\ UNCHANGED <<manifest, backup, stray>> /\ pc[w] \in {"closed", "open"}
    BY <1>1, <1>5 DEF Open, Openable, TypeOK
  <2> QED
    BY <1>1, <1>4, <2>1 DEF LoneAt, FileOf
<1>6. ASSUME Publish(w) PROVE Settled
  <2>1. /\ pc'[w] \in {"saving", "staging", "open"} /\ pc[w] \in {"open", "saving"}
        /\ UNCHANGED <<manifest, backup, stray, handle>>
    BY <1>1, <1>6 DEF Publish, PublishCheck, SaveAtlas, SaveFails, TypeOK
  <2> QED
    BY <1>1, <1>4, <2>1 DEF LoneAt
<1>7. ASSUME \E v \in handle[w].versions : RollbackCheck(w, v) PROVE Settled
  <2>1. /\ pc'[w] = "staging" /\ pc[w] = "open" /\ UNCHANGED <<manifest, backup, stray, handle>>
    BY <1>1, <1>7 DEF RollbackCheck, TypeOK
  <2> QED
    BY <1>1, <1>4, <2>1 DEF LoneAt
<1>8. ASSUME Stage(w) PROVE Settled
  <2>1. /\ pc'[w] = "swapping" /\ pc[w] = "staging" /\ UNCHANGED <<stray, handle>>
        /\ manifest' = NoManifest /\ backup'[w] = manifest
    BY <1>1, <1>8 DEF Stage, TypeOK
  <2>2. backup[w] = NoManifest /\ handle[w] = Durable
    BY <2>1 DEF LoneAt
  <2> QED
    BY <1>1, <1>4, <2>1, <2>2 DEF FileOf
<1>9. ASSUME WriteReturns(w) PROVE Settled
  <2>1. /\ pc'[w] = "open" /\ pc[w] = "swapped" /\ UNCHANGED <<manifest, stray>>
        /\ backup'[w] = NoManifest /\ handle'[w] = target[w]
    BY <1>1, <1>9 DEF WriteReturns, TypeOK
  <2>2. manifest = target[w] /\ target[w] # NoManifest
    BY <1>1, <2>1 DEF LoneAt, FitsAt, Busy
  <2> QED
    BY <1>1, <1>4, <2>1, <2>2 DEF FileOf
<1>10. ASSUME WriteFails(w) PROVE Settled
  <2>1. /\ pc'[w] = "open" /\ pc[w] \in {"staging", "swapping"} /\ UNCHANGED <<stray, handle>>
        /\ backup'[w] = NoManifest
        /\ manifest' = IF backup[w] = NoManifest THEN manifest ELSE backup[w]
    BY <1>1, <1>10 DEF WriteFails, TypeOK
  <2>2. /\ handle[w] = Durable
        /\ backup[w] # NoManifest => manifest = NoManifest
    BY <2>1 DEF LoneAt
  <2> QED
    BY <1>1, <1>4, <2>1, <2>2 DEF FileOf
<1>11. ASSUME RestoreFails(w) PROVE Settled
  <2>1. /\ pc'[w] = "open" /\ pc[w] = "swapping" /\ UNCHANGED <<manifest, handle>>
        /\ backup'[w] = NoManifest /\ stray' = backup[w] /\ backup[w] # NoManifest
    BY <1>1, <1>11 DEF RestoreFails, TypeOK
  <2>2. handle[w] = Durable /\ manifest = NoManifest
    BY <2>1 DEF LoneAt
  <2> QED
    BY <1>1, <1>4, <2>1, <2>2 DEF FileOf
<1>12. ASSUME Crash(w) PROVE Settled
  <2>1. /\ pc'[w] = "closed" /\ UNCHANGED manifest /\ handle'[w] = NoManifest
        /\ backup'[w] = NoManifest
        /\ stray' = IF backup[w] = NoManifest THEN stray ELSE backup[w]
    BY <1>1, <1>12 DEF Crash, TypeOK
  <2> QED
    BY <1>1, <1>4, <2>1 DEF FileOf
<1>13. Settled
  BY <1>5, <1>6, <1>7, <1>8, <1>9, <1>10, <1>11, <1>12
<1>14. HandlesNotAhead'
  BY <1>2, <1>13, HandlesStay DEF LoneAt
<1> QED
  BY <1>3, <1>13, <1>14 DEF LoneAt

(* create() is the first step of the tree. *)
LEMMA CreateLone ==
    ASSUME IInv, NEW w \in Procs, LoneAt(w), NEW s \in Scenes, Create(w, s)
    PROVE  LoneAt(w)' /\ Tree!Create(s)
<1>1. TypeOK /\ OthersOpen(w) /\ \A m \in Lists : m = NoManifest
  BY DEF IInv, LoneAt, NothingBeforeCreate, Create
<1>2. PICK m : m = [current |-> <<s>>, versions |-> {<<s>>}]
  OBVIOUS
<1>3. m # NoManifest /\ m.current = <<s>> /\ m.versions = {<<s>>}
  BY <1>2 DEF NoManifest
<1>4. /\ manifest' = m /\ handle'[w] = m /\ pc'[w] = "open" /\ UNCHANGED <<backup, stray>>
      /\ \A q \in Procs \ {w} : pc'[q] = pc[q] /\ handle'[q] = handle[q]
  BY <1>1, <1>2 DEF Create, TypeOK
<1>5. manifest = NoManifest /\ stray = NoManifest /\ \A q \in Procs : backup[q] = NoManifest
  BY <1>1 DEF Lists
<1>6. OthersOpen(w)'
  BY <1>1, <1>4 DEF OthersOpen
<1>7. Durable = NoManifest /\ Durable' = m
  BY <1>1, <1>3, <1>4, <1>5, <1>6, DurableOf DEF FileOf
<1>8. HandlesNotAhead'
  <2>1. \A q \in Procs : handle'[q] = handle[q] \/ handle'[q] = Durable'
    BY <1>4, <1>7
  <2>2. Durable.versions \subseteq Durable'.versions
    BY <1>7 DEF NoManifest
  <2> QED
    BY <2>1, <2>2, HandlesStay DEF LoneAt
<1>9. LoneAt(w)'
  BY <1>4, <1>5, <1>6, <1>7, <1>8 DEF LoneAt
<1>10. Tree!Create(s)
  BY <1>3, <1>7 DEF Tree!Create, NoManifest
<1> QED
  BY <1>9, <1>10

(* The rename that puts the new store.json into place is the step of the     *)
(* tree that publish() or rollback() makes.                                  *)
LEMMA SwapLone ==
    ASSUME IInv, NEW w \in Procs, LoneAt(w), Swap(w)
    PROVE  LoneAt(w)' /\ Tree!Next
<1>1. TypeOK /\ OthersOpen(w) /\ FitsAt(w) /\ pc[w] = "swapping"
  BY DEF IInv, LoneAt, Swap
<1>2. PICK t, h : t = target[w] /\ h = handle[w]
  OBVIOUS
<1>3. t # NoManifest /\ h # NoManifest /\ h = Durable /\ h \in Manifests /\ Whole(h)
  BY <1>1, <1>2, ListsAreManifests DEF FitsAt, Busy, LoneAt, IInv
<1>4. /\ manifest' = t /\ target'[w] = t /\ pc'[w] = "swapped"
      /\ UNCHANGED <<backup, stray, handle>> /\ \A q \in Procs \ {w} : pc'[q] = pc[q]
  BY <1>1, <1>2 DEF Swap, TypeOK
<1>5. OthersOpen(w)'
  BY <1>1, <1>4 DEF OthersOpen
<1>6. Durable' = t
  BY <1>3, <1>4, <1>5, DurableOf DEF FileOf
<1>7. /\ h.versions \subseteq t.versions
      /\ \/ \E s \in Scenes : Tree!Publish(s)
         \/ \E v \in Durable.versions : Tree!Rollback(v)
  <2>1. h.current \in h.versions
    BY <1>3, WholeIsThere
  <2>2. CASE Proposed(w)
    <3>1. PICK s \in Scenes : t = PublishTarget(h, s) /\ Append(h.current, s) \notin h.versions
      BY <1>2, <2>2 DEF Proposed
    <3>2. t.current = Append(h.current, s) /\ t.versions = h.versions \cup {Append(h.current, s)}
      BY <3>1 DEF PublishTarget
    <3>3. Tree!Publish(s)
      BY <1>3, <1>6, <2>1, <3>1, <3>2 DEF Tree!Publish
    <3> QED
      BY <3>2, <3>3
  <2>3. CASE Reverting(w)
    <3>1. PICK v \in h.versions : t = RollbackTarget(h, v)
      BY <1>2, <2>3 DEF Reverting
    <3>2. t.current = v /\ t.versions = h.versions
      BY <3>1 DEF RollbackTarget
    <3>3. Tree!Rollback(v)
      BY <1>3, <1>6, <3>2 DEF Tree!Rollback
    <3> QED
      BY <1>3, <3>2, <3>3
  <2> QED
    BY <1>1, <2>2, <2>3 DEF FitsAt, Busy
<1>8. Tree!Next
  BY <1>7 DEF Tree!Next
<1>9. HandlesNotAhead'
  BY <1>3, <1>4, <1>6, <1>7, HandlesStay DEF LoneAt
<1> QED
  BY <1>2, <1>4, <1>5, <1>8, <1>9 DEF LoneAt

LEMMA LoneStep ==
    ASSUME IInv, LoneInv, [Next]_vars
    PROVE  /\ LoneInv'
           /\ LoneWriter => Tree!Next \/ Durable' = Durable
<1>1. writers \subseteq Procs /\ writers' = writers
  BY DEF IInv, TypeOK, Next, vars
<1>2. ASSUME NEW w \in Procs, writers = {w}
      PROVE  LoneAt(w)' /\ (Tree!Next \/ Durable' = Durable)
  <2>1. LoneAt(w)
    BY <1>2 DEF LoneInv
  <2>2. CASE UNCHANGED vars
    <3>1. Durable' = Durable
      BY <2>2 DEF Durable, vars
    <3>2. LoneAt(w)'
      BY <2>1, <2>2, <3>1 DEF LoneAt, OthersOpen, HandlesNotAhead, vars
    <3> QED
      BY <3>1, <3>2
  <2>3. ASSUME NEW p \in Procs, Open(p) \/ Crash(p)
        PROVE  LoneAt(w)' /\ Durable' = Durable
    <3>1. CASE p = w
      BY <2>1, <2>3, <3>1, QuietWriterStep
    <3>2. CASE p # w
      BY <2>1, <2>3, <3>2, OtherStep
    <3> QED
      BY <3>1, <3>2
  <2>4. ASSUME NEW s \in Scenes, Create(w, s)
        PROVE  LoneAt(w)' /\ Tree!Next
    BY <2>1, <2>4, CreateLone DEF Tree!Next
  <2>5. ASSUME Publish(w) \/ \E v \in handle[w].versions : RollbackCheck(w, v)
        PROVE  LoneAt(w)' /\ Durable' = Durable
    BY <2>1, <2>5, QuietWriterStep
  <2>6. ASSUME WriteManifest(w)
        PROVE  LoneAt(w)' /\ (Tree!Next \/ Durable' = Durable)
    <3>1. CASE Swap(w)
      BY <2>1, <3>1, SwapLone
    <3>2. CASE Stage(w) \/ WriteReturns(w) \/ WriteFails(w) \/ RestoreFails(w)
      BY <2>1, <3>2, QuietWriterStep
    <3> QED
      BY <2>6, <3>1, <3>2 DEF WriteManifest
  <2>7. CASE Next
    <3>1. \/ \E p \in Procs : Open(p) \/ Crash(p)
          \/ \E s \in Scenes : Create(w, s)
          \/ Publish(w)
          \/ \E v \in handle[w].versions : RollbackCheck(w, v)
          \/ WriteManifest(w)
      BY <1>2, <2>7 DEF Next
    <3> QED
      BY <2>3, <2>4, <2>5, <2>6, <3>1
  <2> QED
    BY <2>2, <2>7
<1>3. LoneInv'
  BY <1>1, <1>2 DEF LoneInv
<1> QED
  BY <1>2, <1>3 DEF LoneWriter

LEMMA LoneInvariance == Spec => []LoneInv
<1>1. Init => LoneInv
  <2> SUFFICES ASSUME Init, NEW w \in Procs PROVE LoneAt(w)
    BY DEF LoneInv
  <2>1. OthersOpen(w) /\ pc[w] = "closed" /\ backup[w] = NoManifest
    BY DEF Init, OthersOpen
  <2>2. HandlesNotAhead
    BY DEF Init, HandlesNotAhead, NoManifest
  <2> QED
    BY <2>1, <2>2 DEF LoneAt
<1>2. IInv /\ LoneInv /\ [Next]_vars => LoneInv'
  BY LoneStep
<1> QED
  BY <1>1, <1>2, Invariance, PTL DEF Spec

-----------------------------------------------------------------------------
(* The files, objects and calls of a version store have their types.         *)
THEOREM TypeCorrect == Spec => []TypeOK
<1>1. IInv => TypeOK
  BY DEF IInv
<1> QED
  BY <1>1, Invariance, PTL

(* publish(), rollback(): every version that any file or object lists stays  *)
(* loadable, for any number of writers with stale objects, failures and      *)
(* deaths; with a lone writer no object is ahead of the files.               *)
THEOREM VersionsStay == Spec => []VersionsAreKept
<1>1. IInv => VersionsStayLoadable
  BY DEF IInv, VersionsStayLoadable, Lists, Whole
<1>2. IInv /\ LoneInv => VersionsAreKept
  BY <1>1 DEF LoneInv, LoneWriter, LoneAt, VersionsAreKept
<1> QED
  BY <1>2, Invariance, LoneInvariance, PTL

(* A lone writer's files start as the empty tree, and publish(), rollback()  *)
(* and create() change them by the steps of the tree.                        *)
THEOREM StoreImplementsTree == Spec => Tree!Init /\ LoneWriterImplementsTree
<1>1. Init => Tree!Init
  BY DEF Init, Durable, Tree!Init, NoManifest
<1>2. IInv /\ LoneInv /\ [Next]_vars
        => [LoneWriter => Tree!Next]_<<Durable.versions, Durable.current>>
  BY LoneStep
<1> QED
  BY <1>1, <1>2, Invariance, LoneInvariance, PTL DEF Spec, LoneWriterImplementsTree

-----------------------------------------------------------------------------
(* The Atlases that the versions are made of (atlas.cpp, dynamic.cpp).       *)
CONSTANTS Root, Obstacles, Shapes, Paddings, Envelope(_, _), Tolerance, MaxDepth,
          SampleSets, MaxUpdates

VARIABLES atlas, task, first, steady

Updates == INSTANCE SafeAtlas

Axes == Updates!Axes
BoxType == {b \in [lower : [Axes -> Int], upper : [Axes -> Int]] :
               \A i \in Axes : b.lower[i] <= b.upper[i]}

(* What the validator promises: an envelope encloses its box and the padding. *)
EnvelopesEnclose ==
    \A b \in BoxType, padding \in Paddings :
        /\ Envelope(b, padding) \in BoxType
        /\ Updates!ContainsBox(Envelope(b, padding), Updates!Inflate(b, padding))

(* The inputs of build() and update(): boxes of numbers, in one axis or more. *)
InputsFit ==
    /\ Axes # {} /\ Root \in BoxType /\ Shapes \subseteq BoxType
    /\ Paddings \subseteq Nat

Points == [Axes -> Int] \cup UNION SampleSets
Items == [box : BoxType, depth : Nat, samples : SUBSET Points]
Regions == [box : BoxType, padding : Paddings, envelope : BoxType]

AtlasType == [scene : Updates!Scenes, regions : SUBSET Regions, domains : SUBSET BoxType,
              padding : Paddings, version : Nat \ {0}]
BuildType == [kind : {"build"}, scene : Updates!Scenes, padding : Paddings, work : Seq(Items),
              regions : SUBSET Regions, domains : SUBSET BoxType]
UpdateType == [kind : {"update"}, scene : Updates!Scenes, padding : Paddings, repair : BOOLEAN,
               samples : SampleSets, regions : SUBSET Regions, domains : SUBSET BoxType,
               todo : SUBSET BoxType, root : BoxType \cup {Updates!Nowhere},
               unresolved : BOOLEAN, work : Seq(Items)]

AtlasTypes ==
    /\ atlas \in AtlasType \cup {Updates!NoAtlas}
    /\ task \in BuildType \cup UpdateType \cup {Updates!Idle}

(* Every region is what its certificate says, in this scene. *)
Stand(regions, scene) ==
    \A r \in regions : /\ r.envelope = Envelope(r.box, r.padding)
                       /\ Updates!CertifiedFree(r.box, scene, r.padding)

Within(c, boxes) == \E b \in boxes : Updates!ContainsBox(b, c)
Fill(boxes) == \A c \in Updates!Cells : Within(c, boxes)
WorkBoxes(w) == {w[k].box : k \in 1..Len(w)}

(* The domain of which a local tree is being grown. *)
Begun(t) == IF t.root = Updates!Nowhere THEN {} ELSE {t.root}

AtlasInv ==
    /\ AtlasTypes
    /\ atlas # Updates!NoAtlas =>
          /\ Stand(atlas.regions, atlas.scene)
          /\ Fill(Updates!BoxesOf(atlas.regions) \cup atlas.domains)
    /\ task.kind = "build" =>
          /\ Stand(task.regions, task.scene)
          /\ Fill(Updates!BoxesOf(task.regions) \cup task.domains \cup WorkBoxes(task.work))
    /\ task.kind = "update" =>
          /\ atlas # Updates!NoAtlas
          /\ Stand(task.regions, task.scene)
          /\ Fill(Updates!BoxesOf(task.regions) \cup task.domains \cup task.todo \cup Begun(task))
          /\ (task.root # Updates!Nowhere /\ ~task.unresolved) =>
                \A c \in Updates!Cells : Updates!ContainsBox(task.root, c) =>
                    Within(c, Updates!BoxesOf(task.regions) \cup WorkBoxes(task.work))

LEMMA CellShape ==
    ASSUME InputsFit, NEW c \in Updates!Cells
    PROVE  /\ c \in BoxType /\ Updates!ContainsBox(Root, c)
           /\ \A i \in Axes : c.upper[i] = c.lower[i] + 1
<1>1. PICK p \in [Axes -> Int] :
         /\ c = [lower |-> p, upper |-> [i \in Axes |-> p[i] + 1]]
         /\ \A i \in Axes : Root.lower[i] <= p[i] /\ p[i] < Root.upper[i]
  <2> DEFINE low == Updates!Min({Root.lower[i] : i \in Axes})
             high == Updates!Max({Root.upper[i] : i \in Axes})
  <2>1. PICK p \in [Axes -> low..high] :
           /\ c = [lower |-> p, upper |-> [i \in Axes |-> p[i] + 1]]
           /\ \A i \in Axes : Root.lower[i] <= p[i] /\ p[i] < Root.upper[i]
    BY Zenon DEF Updates!Cells, Axes
  <2>2. p \in [Axes -> Int]
    <3> HIDE DEF low, high
    <3> QED
      BY <2>1
  <2> QED
    BY <2>1, <2>2
<1>2. /\ c.lower = p /\ c.upper = [i \in Axes |-> p[i] + 1]
      /\ c \in BoxType
  BY <1>1 DEF BoxType
<1>3. \A i \in Axes : Root.upper[i] \in Int /\ Root.lower[i] \in Int
  BY DEF InputsFit, BoxType
<1> QED
  BY <1>1, <1>2, <1>3 DEF Updates!ContainsBox, Axes

LEMMA BoxFacts ==
    ASSUME InputsFit
    PROVE  /\ Updates!Nowhere \notin BoxType
           /\ \A b \in BoxType : b.lower \in [Axes -> Int] /\ b.upper \in [Axes -> Int]
           /\ Updates!NoAtlas \notin AtlasType
<1>1. Updates!Nowhere \notin BoxType
  <2> SUFFICES ASSUME Updates!Nowhere \in BoxType PROVE FALSE
    OBVIOUS
  <2>1. Updates!Nowhere.lower \in [Axes -> Int] /\ Updates!Nowhere.lower = <<>>
    BY DEF BoxType, Updates!Nowhere
  <2>2. DOMAIN <<>> = {}
    OBVIOUS
  <2> QED
    BY <2>1, <2>2 DEF InputsFit
<1>2. Updates!NoAtlas \notin AtlasType
  BY DEF Updates!NoAtlas, AtlasType
<1> QED
  BY <1>1, <1>2 DEF BoxType

(* The halves of a box are boxes, and what fits the box in unit steps fits one. *)
LEMMA HalvesFill ==
    ASSUME InputsFit, NEW b \in BoxType, NEW root
    PROVE  /\ Updates!LowerHalf(b, root) \in BoxType /\ Updates!UpperHalf(b, root) \in BoxType
           /\ \A c \in Updates!Cells : Updates!ContainsBox(b, c) =>
                 \/ Updates!ContainsBox(Updates!LowerHalf(b, root), c)
                 \/ Updates!ContainsBox(Updates!UpperHalf(b, root), c)
<1> DEFINE i == Updates!SplitAxis(b, root)
           m == Updates!Middle(b)
<1>1. m \in [Axes -> Int] /\ b.lower \in [Axes -> Int] /\ b.upper \in [Axes -> Int]
  BY DEF BoxType, Updates!Middle, Axes, Updates!Axes
<1>0. \A j \in Axes : b.lower[j] <= m[j] /\ m[j] <= b.upper[j]
  <2>1. \A j \in Axes : b.lower[j] <= b.upper[j]
    BY DEF BoxType
  <2>2. \A j \in Axes : m[j] = (b.lower[j] + b.upper[j]) \div 2
    BY DEF Updates!Middle, Axes
  <2> HIDE DEF m
  <2> QED
    BY <1>1, <2>1, <2>2
<1> HIDE DEF m
<1>2. PICK low, high :
         /\ low = Updates!LowerHalf(b, root) /\ high = Updates!UpperHalf(b, root)
         /\ low = [b EXCEPT !.upper[i] = m[i]] /\ high = [b EXCEPT !.lower[i] = m[i]]
  BY DEF Updates!LowerHalf, Updates!UpperHalf, m
<1> HIDE DEF i
<1>3. /\ low.lower = b.lower /\ low.upper = [b.upper EXCEPT ![i] = m[i]]
      /\ high.upper = b.upper /\ high.lower = [b.lower EXCEPT ![i] = m[i]]
      /\ low = [lower |-> low.lower, upper |-> low.upper]
      /\ high = [lower |-> high.lower, upper |-> high.upper]
  BY <1>2 DEF BoxType
<1>4. low.upper \in [Axes -> Int] /\ high.lower \in [Axes -> Int]
  BY <1>1, <1>3
<1>5. low \in BoxType /\ high \in BoxType
  <2>1. \A j \in Axes : low.lower[j] <= low.upper[j] /\ high.lower[j] <= high.upper[j]
    <3>1. \A j \in Axes : b.lower[j] <= b.upper[j]
      BY DEF BoxType
    <3> QED
      BY <1>0, <1>1, <1>3, <3>1
  <2> QED
    BY <1>1, <1>3, <1>4, <2>1 DEF BoxType
<1>6. ASSUME NEW c \in Updates!Cells, Updates!ContainsBox(b, c)
      PROVE  Updates!ContainsBox(low, c) \/ Updates!ContainsBox(high, c)
  <2>1. /\ c.lower \in [Axes -> Int] /\ c.upper \in [Axes -> Int]
        /\ \A j \in Axes : c.upper[j] = c.lower[j] + 1
    BY CellShape DEF BoxType
  <2>2. \A j \in Axes : b.lower[j] <= c.lower[j] /\ c.upper[j] <= b.upper[j]
    BY <1>6 DEF Updates!ContainsBox, Axes
  <2>3. CASE i \in Axes /\ c.upper[i] <= m[i]
    <3>1. \A j \in Axes : low.lower[j] <= c.lower[j] /\ c.upper[j] <= low.upper[j]
      BY <1>1, <1>3, <2>2, <2>3
    <3> QED
      BY <3>1 DEF Updates!ContainsBox, Axes
  <2>4. CASE i \in Axes /\ ~(c.upper[i] <= m[i])
    <3>1. m[i] <= c.lower[i]
      BY <1>1, <2>1, <2>4
    <3>2. \A j \in Axes : high.lower[j] <= c.lower[j] /\ c.upper[j] <= high.upper[j]
      BY <1>1, <1>3, <2>2, <2>4, <3>1
    <3> QED
      BY <3>2 DEF Updates!ContainsBox, Axes
  <2>5. CASE i \notin Axes
    <3>1. low.upper = b.upper
      BY <1>1, <1>3, <2>5
    <3> QED
      BY <1>3, <2>2, <3>1 DEF Updates!ContainsBox, Axes
  <2> QED
    BY <2>3, <2>4, <2>5
<1> QED
  BY <1>2, <1>5, <1>6

LEMMA HullHolds ==
    ASSUME NEW a \in BoxType, NEW b \in BoxType
    PROVE  /\ Updates!Hull(a, b) \in BoxType
           /\ \A c \in BoxType : Updates!ContainsBox(a, c) \/ Updates!ContainsBox(b, c) =>
                 Updates!ContainsBox(Updates!Hull(a, b), c)
<1> DEFINE h == Updates!Hull(a, b)
<1>1. /\ h.lower = [i \in Axes |-> Updates!MinOf(a.lower[i], b.lower[i])]
      /\ h.upper = [i \in Axes |-> Updates!MaxOf(a.upper[i], b.upper[i])]
      /\ h = [lower |-> h.lower, upper |-> h.upper]
  BY DEF Updates!Hull, Axes
<1>2. \A i \in Axes : /\ a.lower[i] \in Int /\ b.lower[i] \in Int
                      /\ a.upper[i] \in Int /\ b.upper[i] \in Int
  BY DEF BoxType
<1>3. h.lower \in [Axes -> Int] /\ h.upper \in [Axes -> Int]
  BY <1>1, <1>2 DEF Updates!MinOf, Updates!MaxOf
<1>4. h \in BoxType
  <2>1. \A i \in Axes : a.lower[i] <= a.upper[i] /\ b.lower[i] <= b.upper[i]
    BY DEF BoxType
  <2>2. \A i \in Axes : h.lower[i] <= h.upper[i]
    BY <1>1, <1>2, <2>1 DEF Updates!MinOf, Updates!MaxOf
  <2> QED
    BY <1>1, <1>3, <2>2 DEF BoxType
<1>5. ASSUME NEW c \in BoxType, Updates!ContainsBox(a, c) \/ Updates!ContainsBox(b, c)
      PROVE  Updates!ContainsBox(h, c)
  <2> SUFFICES ASSUME NEW i \in Axes
               PROVE  h.lower[i] <= c.lower[i] /\ c.upper[i] <= h.upper[i]
    BY DEF Updates!ContainsBox, Axes
  <2>1. c.lower[i] \in Int /\ c.upper[i] \in Int
    BY DEF BoxType
  <2>2. \/ a.lower[i] <= c.lower[i] /\ c.upper[i] <= a.upper[i]
        \/ b.lower[i] <= c.lower[i] /\ c.upper[i] <= b.upper[i]
    BY <1>5 DEF Updates!ContainsBox, Axes
  <2> QED
    BY <1>1, <1>2, <2>1, <2>2 DEF Updates!MinOf, Updates!MaxOf
<1> QED
  BY <1>4, <1>5

LEMMA ContainsThrough ==
    ASSUME NEW a \in BoxType, NEW b \in BoxType, NEW c \in BoxType,
           Updates!ContainsBox(a, b), Updates!ContainsBox(b, c)
    PROVE  Updates!ContainsBox(a, c)
<1> SUFFICES ASSUME NEW i \in Axes
             PROVE  a.lower[i] <= c.lower[i] /\ c.upper[i] <= a.upper[i]
  BY DEF Updates!ContainsBox, Axes
<1>1. /\ a.lower[i] \in Int /\ b.lower[i] \in Int /\ c.lower[i] \in Int
      /\ a.upper[i] \in Int /\ b.upper[i] \in Int /\ c.upper[i] \in Int
  BY DEF BoxType
<1> QED
  BY <1>1 DEF Updates!ContainsBox, Axes

(* Work: its first item, and what takes its place. *)
LEMMA WorkOf ==
    ASSUME NEW w \in Seq(Items), w # <<>>
    PROVE  /\ Head(w) \in Items /\ Tail(w) \in Seq(Items)
           /\ WorkBoxes(w) = {Head(w).box} \cup WorkBoxes(Tail(w))
<1>1. /\ Head(w) = w[1] /\ Len(w) \in Nat \ {0} /\ Tail(w) \in Seq(Items)
      /\ Len(Tail(w)) = Len(w) - 1
      /\ \A k \in 1..(Len(w) - 1) : Tail(w)[k] = w[k + 1]
  OBVIOUS
<1>2. \A k \in 1..Len(w) : k = 1 \/ k - 1 \in 1..(Len(w) - 1)
  BY <1>1
<1>3. \A k \in 1..(Len(w) - 1) : k + 1 \in 1..Len(w)
  BY <1>1
<1>4. WorkBoxes(w) \subseteq {Head(w).box} \cup WorkBoxes(Tail(w))
  <2> SUFFICES ASSUME NEW k \in 1..Len(w)
               PROVE  w[k].box \in {Head(w).box} \cup WorkBoxes(Tail(w))
    BY DEF WorkBoxes
  <2>1. CASE k = 1
    BY <1>1, <2>1
  <2>2. CASE k # 1
    <3>1. k - 1 \in 1..Len(Tail(w)) /\ Tail(w)[k - 1] = w[k]
      BY <1>1, <1>2, <2>2
    <3> QED
      BY <3>1 DEF WorkBoxes
  <2> QED
    BY <2>1, <2>2
<1>5. {Head(w).box} \cup WorkBoxes(Tail(w)) \subseteq WorkBoxes(w)
  BY <1>1, <1>3 DEF WorkBoxes
<1> QED
  BY <1>1, <1>4, <1>5

LEMMA WorkWith ==
    ASSUME NEW w \in Seq(Items), NEW x \in Items, NEW y \in Items
    PROVE  /\ w \o <<x, y>> \in Seq(Items)
           /\ WorkBoxes(w \o <<x, y>>) = WorkBoxes(w) \cup {x.box, y.box}
<1> DEFINE v == w \o <<x, y>>
           n == Len(w)
<1>1. /\ v \in Seq(Items) /\ Len(v) = n + 2 /\ n \in Nat
      /\ \A k \in 1..n : v[k] = w[k]
      /\ v[n + 1] = x /\ v[n + 2] = y
  OBVIOUS
<1> HIDE DEF v
<1>2. 1..(n + 2) = 1..n \cup {n + 1, n + 2}
  BY <1>1
<1>3. WorkBoxes(v) = {v[k].box : k \in 1..n} \cup {v[n + 1].box, v[n + 2].box}
  BY <1>1, <1>2 DEF WorkBoxes
<1> QED
  BY <1>1, <1>3 DEF WorkBoxes, v

LEMMA TaskKinds ==
    ASSUME AtlasTypes
    PROVE  /\ task.kind = "build" => task \in BuildType
           /\ task.kind = "update" => task \in UpdateType
           /\ Updates!Idle.kind = "idle"
BY DEF AtlasTypes, BuildType, UpdateType, Updates!Idle

LEMMA RegionOf ==
    ASSUME EnvelopesEnclose, NEW b \in BoxType, NEW padding \in Paddings
    PROVE  /\ Updates!Region(b, padding) \in Regions
           /\ Updates!Region(b, padding).box = b
           /\ Updates!Region(b, padding).padding = padding
           /\ Updates!Region(b, padding).envelope = Envelope(b, padding)
<1>1. Envelope(b, padding) \in BoxType
  BY DEF EnvelopesEnclose
<1> QED
  BY <1>1 DEF Updates!Region, Regions

(* Where a region is added, those that were there stand and so does it. *)
LEMMA StandsWith ==
    ASSUME EnvelopesEnclose, NEW regions, NEW scene, Stand(regions, scene),
           NEW b \in BoxType, NEW padding \in Paddings,
           Updates!CertifiedFree(b, scene, padding),
           NEW more, more \subseteq regions \cup {Updates!Region(b, padding)}
    PROVE  Stand(more, scene)
BY RegionOf DEF Stand

LEMMA ItemOf ==
    ASSUME NEW b \in BoxType, NEW n \in Nat, NEW s \in SUBSET Points
    PROVE  /\ Updates!Item(b, n, s) \in Items
           /\ Updates!Item(b, n, s).box = b
BY DEF Updates!Item, Items

(* The two children of an item fill what it fills. *)
LEMMA ChildrenOf ==
    ASSUME InputsFit, NEW item \in Items, NEW root, NEW w \in Seq(Items)
    PROVE  /\ w \o Updates!Children(item, root) \in Seq(Items)
           /\ WorkBoxes(w) \subseteq WorkBoxes(w \o Updates!Children(item, root))
           /\ \A c \in Updates!Cells : Updates!ContainsBox(item.box, c) =>
                 Within(c, WorkBoxes(w \o Updates!Children(item, root)))
<1>1. item.box \in BoxType /\ item.depth + 1 \in Nat /\ item.samples \in SUBSET Points
  BY DEF Items
<1> DEFINE low == Updates!LowerHalf(item.box, root)
           high == Updates!UpperHalf(item.box, root)
<1>2. PICK below \in SUBSET item.samples :
         Updates!Children(item, root)
           = <<Updates!Item(low, item.depth + 1, below),
               Updates!Item(high, item.depth + 1, item.samples \ below)>>
  BY DEF Updates!Children
<1>3. low \in BoxType /\ high \in BoxType
  BY <1>1, HalvesFill
<1> HIDE DEF low, high
<1> DEFINE x == Updates!Item(low, item.depth + 1, below)
           y == Updates!Item(high, item.depth + 1, item.samples \ below)
<1>4. x \in Items /\ y \in Items /\ x.box = low /\ y.box = high
  BY <1>1, <1>3, ItemOf
<1> HIDE DEF x, y
<1>5. /\ w \o <<x, y>> \in Seq(Items)
      /\ WorkBoxes(w \o <<x, y>>) = WorkBoxes(w) \cup {low, high}
  BY <1>4, WorkWith
<1>6. \A c \in Updates!Cells : Updates!ContainsBox(item.box, c) =>
         Updates!ContainsBox(low, c) \/ Updates!ContainsBox(high, c)
  BY <1>1, HalvesFill DEF low, high
<1> QED
  BY <1>2, <1>5, <1>6 DEF Within, x, y

LEMMA AtlasInit ==
    ASSUME InputsFit, Updates!Init
    PROVE  AtlasInv
<1>1. PICK scene \in Updates!Scenes, padding \in Paddings, samples \in SampleSets :
         task = [kind |-> "build", scene |-> scene, padding |-> padding,
                 work |-> <<Updates!Item(Root, 0, samples)>>, regions |-> {}, domains |-> {}]
  BY DEF Updates!Init
<1> DEFINE item == Updates!Item(Root, 0, samples)
<1>2. item \in Items /\ item.box = Root
  BY ItemOf DEF InputsFit, Points
<1> HIDE DEF item
<1>3. /\ <<item>> \in Seq(Items) /\ Len(<<item>>) = 1 /\ <<item>>[1] = item /\ 1..1 = {1}
  BY <1>2
<1>4. WorkBoxes(<<item>>) = {Root}
  BY <1>2, <1>3 DEF WorkBoxes
<1>5. task \in BuildType /\ task.kind = "build" /\ task.work = <<item>> /\ task.regions = {}
  BY <1>1, <1>3 DEF BuildType, item
<1>6. atlas = Updates!NoAtlas
  BY DEF Updates!Init
<1>7. \A c \in Updates!Cells : Updates!ContainsBox(Root, c)
  BY CellShape
<1> QED
  BY <1>4, <1>5, <1>6, <1>7 DEF AtlasInv, AtlasTypes, Stand, Fill, Within

LEMMA AtlasBuildVisit ==
    ASSUME InputsFit, EnvelopesEnclose, AtlasInv, Updates!BuildVisit
    PROVE  AtlasInv'
<1> DEFINE item == Head(task.work)
           rest == Tail(task.work)
<1>1. /\ task \in BuildType /\ task.kind = "build" /\ task.work # <<>> /\ task.work \in Seq(Items)
      /\ task.padding \in Paddings /\ task.regions \in SUBSET Regions /\ task.domains \in SUBSET BoxType
      /\ Stand(task.regions, task.scene)
      /\ Fill(Updates!BoxesOf(task.regions) \cup task.domains \cup WorkBoxes(task.work))
  BY TaskKinds DEF AtlasInv, Updates!BuildVisit, Updates!Working, BuildType
<1>2. item \in Items /\ item.box \in BoxType /\ rest \in Seq(Items)
      /\ WorkBoxes(task.work) = {item.box} \cup WorkBoxes(rest)
  BY <1>1, WorkOf DEF Items
<1>3. UNCHANGED atlas
  BY DEF Updates!BuildVisit
<1> SUFFICES /\ task' \in BuildType /\ task'.scene = task.scene
             /\ Stand(task'.regions, task'.scene)
             /\ Fill(Updates!BoxesOf(task'.regions) \cup task'.domains \cup WorkBoxes(task'.work))
  BY <1>3 DEF AtlasInv, AtlasTypes, BuildType, UpdateType, AtlasType, Stand, Fill, Within,
              Updates!NoAtlas, Updates!Idle, Updates!BoxesOf, Updates!CertifiedFree, WorkBoxes,
              Updates!Cells, Updates!ContainsBox
<1>4. CASE /\ Updates!Free1
           /\ task' = [task EXCEPT !.work = Tail(@),
                          !.regions = @ \cup {Updates!Region(Updates!Item1.box, task.padding)}]
  <2> DEFINE new == Updates!Region(item.box, task.padding)
  <2>1. new \in Regions /\ new.box = item.box
    BY <1>1, <1>2, RegionOf
  <2>2. Updates!CertifiedFree(item.box, task.scene, task.padding)
    BY <1>4 DEF Updates!Free1, Updates!Item1
  <2>3. task' = [task EXCEPT !.work = rest, !.regions = task.regions \cup {new}]
    BY <1>4 DEF Updates!Item1
  <2>4. Stand(task.regions \cup {new}, task.scene)
    BY <1>1, <1>2, <2>2, StandsWith
  <2> HIDE DEF new
  <2>5. /\ task' \in BuildType /\ task'.scene = task.scene /\ task'.domains = task.domains
        /\ task'.regions = task.regions \cup {new} /\ task'.work = rest
    BY <1>1, <1>2, <2>1, <2>3 DEF BuildType
  <2> QED
    BY <1>1, <1>2, <2>1, <2>4, <2>5 DEF Fill, Within, Updates!BoxesOf
<1>5. CASE task' = [task EXCEPT !.work = Tail(@), !.domains = @ \cup {Updates!Item1.box}]
  <2>1. /\ task' \in BuildType /\ task'.scene = task.scene /\ task'.regions = task.regions
        /\ task'.domains = task.domains \cup {item.box} /\ task'.work = rest
    BY <1>1, <1>2, <1>5 DEF BuildType, Updates!Item1
  <2> QED
    BY <1>1, <1>2, <2>1 DEF Fill, Within
<1>6. CASE task' = [task EXCEPT !.work = Tail(@) \o Updates!Children(Updates!Item1, Root)]
  <2> DEFINE work == rest \o Updates!Children(item, Root)
  <2>1. /\ work \in Seq(Items) /\ WorkBoxes(rest) \subseteq WorkBoxes(work)
        /\ \A c \in Updates!Cells : Updates!ContainsBox(item.box, c) => Within(c, WorkBoxes(work))
    BY <1>2, ChildrenOf
  <2>2. task' = [task EXCEPT !.work = work]
    BY <1>6 DEF Updates!Item1
  <2> HIDE DEF work
  <2>3. /\ task' \in BuildType /\ task'.scene = task.scene /\ task'.regions = task.regions
        /\ task'.domains = task.domains /\ task'.work = work
    BY <1>1, <2>1, <2>2 DEF BuildType
  <2> QED
    BY <1>1, <1>2, <2>1, <2>3 DEF Fill, Within
<1> QED
  BY <1>4, <1>5, <1>6 DEF Updates!BuildVisit

LEMMA AtlasMerge ==
    ASSUME InputsFit, EnvelopesEnclose, AtlasInv, task.kind = "build",
           NEW r \in task.regions, NEW s \in task.regions, Updates!Merge(r, s)
    PROVE  AtlasInv'
<1>1. /\ task \in BuildType /\ task.work \in Seq(Items)
      /\ task.padding \in Paddings /\ task.regions \in SUBSET Regions
      /\ Stand(task.regions, task.scene)
      /\ Fill(Updates!BoxesOf(task.regions) \cup task.domains \cup WorkBoxes(task.work))
  BY TaskKinds DEF AtlasInv, BuildType
<1> DEFINE hull == Updates!Hull(r.box, s.box)
           new == Updates!Region(hull, task.padding)
<1>2. /\ hull \in BoxType
      /\ \A c \in BoxType : Updates!ContainsBox(r.box, c) \/ Updates!ContainsBox(s.box, c) =>
            Updates!ContainsBox(hull, c)
  BY <1>1, HullHolds DEF Regions
<1>3. Updates!CertifiedFree(hull, task.scene, task.padding)
  BY DEF Updates!Merge, Updates!Mergeable
<1>4. task' = [task EXCEPT !.regions = (task.regions \ {r, s}) \cup {new}] /\ UNCHANGED atlas
  BY DEF Updates!Merge
<1> HIDE DEF hull
<1>5. new \in Regions /\ new.box = hull
  BY <1>1, <1>2, RegionOf
<1>6. Stand((task.regions \ {r, s}) \cup {new}, task.scene)
  BY <1>1, <1>2, <1>3, StandsWith
<1> HIDE DEF new
<1>7. /\ task' \in BuildType /\ task'.scene = task.scene /\ task'.domains = task.domains
      /\ task'.regions = (task.regions \ {r, s}) \cup {new} /\ task'.work = task.work
  BY <1>1, <1>4, <1>5 DEF BuildType
<1>8. \A c \in Updates!Cells : c \in BoxType
  BY CellShape
<1>9. ASSUME NEW c \in Updates!Cells, NEW b \in Updates!BoxesOf(task.regions),
             Updates!ContainsBox(b, c)
      PROVE  Within(c, Updates!BoxesOf(task'.regions))
  <2>1. PICK x \in task.regions : x.box = b
    BY DEF Updates!BoxesOf
  <2>2. CASE x \in {r, s}
    BY <1>2, <1>5, <1>7, <1>8, <1>9, <2>1, <2>2 DEF Within, Updates!BoxesOf
  <2>3. CASE x \notin {r, s}
    BY <1>7, <1>9, <2>1, <2>3 DEF Within, Updates!BoxesOf
  <2> QED
    BY <2>2, <2>3
<1>10. Fill(Updates!BoxesOf(task'.regions) \cup task'.domains \cup WorkBoxes(task'.work))
  BY <1>1, <1>7, <1>9 DEF Fill, Within
<1> QED
  BY <1>4, <1>6, <1>7, <1>10
     DEF AtlasInv, AtlasTypes, BuildType, UpdateType, AtlasType, Stand, Fill, Within,
         Updates!NoAtlas, Updates!Idle, Updates!BoxesOf, Updates!CertifiedFree, WorkBoxes,
         Updates!Cells, Updates!ContainsBox

LEMMA AtlasFinishBuild ==
    ASSUME AtlasInv, Updates!FinishBuild
    PROVE  AtlasInv'
<1>1. /\ task \in BuildType /\ task.work = <<>> /\ Stand(task.regions, task.scene)
      /\ Fill(Updates!BoxesOf(task.regions) \cup task.domains \cup WorkBoxes(task.work))
  BY TaskKinds DEF AtlasInv, Updates!FinishBuild, Updates!Worked
<1>2. /\ atlas' = [scene |-> task.scene, regions |-> task.regions, domains |-> task.domains,
                   padding |-> task.padding, version |-> 1]
      /\ task' = Updates!Idle
  BY DEF Updates!FinishBuild
<1>3. WorkBoxes(task.work) = {}
  BY <1>1 DEF WorkBoxes
<1>4. /\ atlas' \in AtlasType /\ atlas'.scene = task.scene /\ atlas'.regions = task.regions
      /\ atlas'.domains = task.domains /\ task'.kind = "idle"
  BY <1>1, <1>2 DEF AtlasType, BuildType, Updates!Idle
<1> QED
  BY <1>1, <1>2, <1>3, <1>4
     DEF AtlasInv, AtlasTypes, BuildType, UpdateType, AtlasType, Stand, Fill, Within,
         Updates!NoAtlas, Updates!Idle, Updates!BoxesOf, Updates!CertifiedFree, Updates!Cells,
         Updates!ContainsBox

(* What a change of the scene cannot touch stands as it did. *)
LEMMA InheritedStands ==
    ASSUME NEW old \in Updates!Scenes, NEW new \in Updates!Scenes, NEW r, NEW padding,
           Updates!CertifiedFree(r.box, old, r.padding), r.envelope = Envelope(r.box, r.padding),
           Updates!Inherits(r, old, new, padding)
    PROVE  Updates!CertifiedFree(r.box, new, r.padding)
<1> SUFFICES ASSUME NEW o \in Obstacles, new[o] # Updates!Nowhere
             PROVE  ~Updates!Overlap(r.envelope, new[o], 0)
  BY DEF Updates!CertifiedFree, Updates!Present
<1>1. CASE old[o] = new[o]
  BY <1>1 DEF Updates!CertifiedFree, Updates!Present
<1>2. CASE old[o] # new[o]
  BY <1>2 DEF Updates!Inherits, Updates!Changed
<1> QED
  BY <1>1, <1>2

LEMMA AtlasStartUpdate ==
    ASSUME InputsFit, EnvelopesEnclose, AtlasInv,
           NEW scene \in Updates!Scenes, NEW padding \in Paddings, NEW repair \in BOOLEAN,
           NEW samples \in SampleSets, Updates!StartUpdate(scene, padding, repair, samples)
    PROVE  AtlasInv'
<1> DEFINE inherited == {r \in atlas.regions : Updates!Inherits(r, atlas.scene, scene, padding)}
           free == {r \in atlas.regions : Updates!CertifiedFree(r.box, scene, padding)}
           renewed == {Updates!Region(r.box, padding) : r \in free \ inherited}
           invalidated == Updates!BoxesOf(atlas.regions \ (inherited \cup free))
           again == IF Updates!MayRecoverSpace(atlas.scene, scene) THEN atlas.domains ELSE {}
           todo == again \cup invalidated
           regions == inherited \cup renewed
           domains == (atlas.domains \ again) \cup (IF repair THEN {} ELSE todo)
           left == IF repair THEN todo ELSE {}
<1>1. /\ atlas \in AtlasType /\ atlas # Updates!NoAtlas /\ Stand(atlas.regions, atlas.scene)
      /\ Fill(Updates!BoxesOf(atlas.regions) \cup atlas.domains)
      /\ UNCHANGED atlas
  BY DEF AtlasInv, AtlasTypes, Updates!StartUpdate
<1>2. atlas.regions \in SUBSET Regions /\ atlas.domains \in SUBSET BoxType
      /\ atlas.scene \in Updates!Scenes
  BY <1>1 DEF AtlasType
<1>3. task' = [kind |-> "update", scene |-> scene, padding |-> padding, repair |-> repair,
               samples |-> samples, regions |-> regions, domains |-> domains, todo |-> left,
               root |-> Updates!Nowhere, unresolved |-> FALSE, work |-> <<>>]
  BY DEF Updates!StartUpdate
<1>4. \A r \in atlas.regions : r.box \in BoxType
  BY <1>2 DEF Regions
<1>5. /\ inherited \subseteq Regions /\ free \subseteq atlas.regions
      /\ \A x \in renewed : x \in Regions
      /\ \A r \in free \ inherited : Updates!Region(r.box, padding) \in renewed
                                     /\ Updates!Region(r.box, padding).box = r.box
  BY <1>2, <1>4, RegionOf
<1>6. invalidated \subseteq BoxType /\ again \subseteq BoxType
  BY <1>2, <1>4 DEF Updates!BoxesOf
<1>7. Stand(regions, scene)
  <2>1. ASSUME NEW r \in inherited
        PROVE  r.envelope = Envelope(r.box, r.padding) /\ Updates!CertifiedFree(r.box, scene, r.padding)
    BY <1>1, <1>2, InheritedStands DEF Stand
  <2>2. ASSUME NEW r \in free
        PROVE  LET x == Updates!Region(r.box, padding) IN
               x.envelope = Envelope(x.box, x.padding) /\ Updates!CertifiedFree(x.box, scene, x.padding)
    BY <1>4, RegionOf
  <2> HIDE DEF inherited, free
  <2> QED
    BY <2>1, <2>2 DEF Stand
<1>8. ASSUME NEW b \in Updates!BoxesOf(atlas.regions) \cup atlas.domains
      PROVE  b \in Updates!BoxesOf(regions) \cup domains \cup left
  <2>1. CASE b \in atlas.domains
    BY <2>1
  <2>2. CASE b \in Updates!BoxesOf(atlas.regions)
    <3>1. PICK r \in atlas.regions : r.box = b
      BY <2>2 DEF Updates!BoxesOf
    <3>2. CASE r \in inherited
      BY <3>1, <3>2 DEF Updates!BoxesOf
    <3>3. CASE r \in free \ inherited
      <4> HIDE DEF inherited, free, renewed
      <4> QED
        BY <1>5, <3>1, <3>3 DEF Updates!BoxesOf
    <3>4. CASE r \notin inherited \cup free
      BY <3>1, <3>4 DEF Updates!BoxesOf
    <3> QED
      BY <3>2, <3>3, <3>4
  <2> QED
    BY <2>1, <2>2
<1>9. regions \in SUBSET Regions
  BY <1>5
<1>10. domains \in SUBSET BoxType /\ left \in SUBSET BoxType
  <2> HIDE DEF again, invalidated
  <2> QED
    BY <1>2, <1>6
<1>11. Fill(Updates!BoxesOf(regions) \cup domains \cup left)
  <2> HIDE DEF regions, domains, left
  <2> QED
    BY <1>1, <1>8 DEF Fill, Within
<1> HIDE DEF regions, domains, left
<1>12. /\ task' \in UpdateType /\ task'.kind = "update" /\ task'.regions = regions
       /\ task'.domains = domains /\ task'.todo = left /\ task'.scene = scene
       /\ task'.root = Updates!Nowhere
  <2>1. <<>> \in Seq(Items)
    OBVIOUS
  <2> QED
    BY <1>3, <1>9, <1>10, <2>1 DEF UpdateType
<1> QED
  BY <1>1, <1>7, <1>11, <1>12
     DEF AtlasInv, AtlasTypes, BuildType, UpdateType, AtlasType, Stand, Fill, Within, Begun,
         Updates!NoAtlas, Updates!Idle, Updates!BoxesOf, Updates!CertifiedFree, Updates!Cells,
         Updates!ContainsBox, Updates!Nowhere

LEMMA AtlasStartDomain ==
    ASSUME InputsFit, AtlasInv, Updates!StartDomain
    PROVE  AtlasInv'
<1>1. /\ task \in UpdateType /\ task.kind = "update" /\ atlas # Updates!NoAtlas
      /\ Stand(task.regions, task.scene)
      /\ task.root = Updates!Nowhere /\ task.todo # {} /\ UNCHANGED atlas
      /\ Fill(Updates!BoxesOf(task.regions) \cup task.domains \cup task.todo \cup Begun(task))
  BY TaskKinds DEF AtlasInv, Updates!StartDomain, Updates!Worked
<1>2. PICK d \in task.todo :
         task' = [task EXCEPT !.todo = @ \ {d}, !.root = d, !.unresolved = FALSE,
                     !.work = <<Updates!Item(d, 0, {Updates!Middle(d)} \cup
                                             {s \in task.samples : Updates!InBox(s, d)})>>]
  BY <1>1 DEF Updates!StartDomain
<1> DEFINE samples == {Updates!Middle(d)} \cup {s \in task.samples : Updates!InBox(s, d)}
           item == Updates!Item(d, 0, samples)
<1>3. d \in BoxType /\ task.samples \in SampleSets
  BY <1>1 DEF UpdateType
<1>4. Updates!Middle(d) \in [Axes -> Int]
  BY <1>3 DEF BoxType, Updates!Middle, Axes
<1>5. samples \in SUBSET Points
  BY <1>3, <1>4 DEF Points
<1> HIDE DEF samples
<1>6. item \in Items /\ item.box = d
  BY <1>3, <1>5, ItemOf
<1>7. task' = [task EXCEPT !.todo = task.todo \ {d}, !.root = d, !.unresolved = FALSE,
                           !.work = <<item>>]
  BY <1>2 DEF samples
<1> HIDE DEF item
<1>8. <<item>> \in Seq(Items) /\ Len(<<item>>) = 1 /\ <<item>>[1] = item /\ 1..1 = {1}
  BY <1>6
<1>9. WorkBoxes(<<item>>) = {d}
  BY <1>6, <1>8 DEF WorkBoxes
<1>10. /\ task' \in UpdateType /\ task'.kind = "update" /\ task'.regions = task.regions
       /\ task'.domains = task.domains /\ task'.todo = task.todo \ {d} /\ task'.scene = task.scene
       /\ task'.root = d /\ task'.work = <<item>>
  BY <1>1, <1>3, <1>7, <1>8 DEF UpdateType
<1>11. Begun(task) = {} /\ d # Updates!Nowhere
  BY <1>1, <1>3, BoxFacts DEF Begun
<1>12. Fill(Updates!BoxesOf(task'.regions) \cup task'.domains \cup task'.todo \cup {d})
  BY <1>1, <1>10, <1>11 DEF Fill, Within
<1>13. \A c \in Updates!Cells : Updates!ContainsBox(d, c) => Within(c, WorkBoxes(task'.work))
  BY <1>9, <1>10 DEF Within
<1> QED
  BY <1>1, <1>10, <1>11, <1>12, <1>13, ZenonT(30)
     DEF AtlasInv, AtlasTypes, BuildType, UpdateType, AtlasType, Stand, Fill, Within, Begun,
         Updates!NoAtlas, Updates!Idle, Updates!BoxesOf, Updates!CertifiedFree, Updates!Cells,
         Updates!ContainsBox, Updates!Nowhere

(* A repaired box loses nothing that the regions cover, and is covered. *)
LEMMA RepairedCovers ==
    ASSUME InputsFit, EnvelopesEnclose, NEW regions \in SUBSET Regions, NEW b \in BoxType,
           NEW padding \in Paddings, NEW scene, Stand(regions, scene),
           Updates!CertifiedFree(b, scene, padding)
    PROVE  LET more == Updates!WithRepaired(regions, b, padding) IN
           /\ more \in SUBSET Regions /\ Stand(more, scene)
           /\ \A c \in Updates!Cells :
                 Within(c, Updates!BoxesOf(regions)) \/ Updates!ContainsBox(b, c) =>
                    Within(c, Updates!BoxesOf(more))
<1> DEFINE more == Updates!WithRepaired(regions, b, padding)
           new == Updates!Region(b, padding)
<1>1. new \in Regions /\ new.box = b
  BY RegionOf
<1>2. more \subseteq regions \cup {new}
  BY DEF Updates!WithRepaired
<1>3. more \in SUBSET Regions
  BY <1>1, <1>2
<1>4. Stand(more, scene)
  BY <1>2, StandsWith
<1>5. \A r \in regions : r.box \in BoxType
  BY DEF Regions
<1>6. ASSUME NEW c \in Updates!Cells,
             Within(c, Updates!BoxesOf(regions)) \/ Updates!ContainsBox(b, c)
      PROVE  \E r \in more : Updates!ContainsBox(r.box, c)
  <2>1. c \in BoxType
    BY CellShape
  <2>2. CASE \E r \in regions : Updates!ContainsBox(r.box, b)
    <3>1. more = regions
      BY <2>2 DEF Updates!WithRepaired
    <3> HIDE DEF more
    <3> QED
      BY <1>5, <1>6, <2>1, <2>2, <3>1, ContainsThrough DEF Within, Updates!BoxesOf
  <2>3. CASE ~\E r \in regions : Updates!ContainsBox(r.box, b)
    <3>1. more = {r \in regions : ~Updates!ContainsBox(b, r.box)} \cup {new}
      BY <2>3 DEF Updates!WithRepaired
    <3> HIDE DEF more, new
    <3>2. CASE Updates!ContainsBox(b, c)
      BY <1>1, <3>1, <3>2
    <3>3. CASE Within(c, Updates!BoxesOf(regions))
      <4>1. PICK r \in regions : Updates!ContainsBox(r.box, c)
        BY <3>3 DEF Within, Updates!BoxesOf
      <4>2. CASE Updates!ContainsBox(b, r.box)
        <5>1. Updates!ContainsBox(b, c)
          BY <1>5, <2>1, <4>1, <4>2, ContainsThrough
        <5> QED
          BY <3>2, <5>1
      <4>3. CASE ~Updates!ContainsBox(b, r.box)
        BY <3>1, <4>1, <4>3
      <4> QED
        BY <4>2, <4>3
    <3> QED
      BY <1>6, <3>2, <3>3
  <2> QED
    BY <2>2, <2>3
<1> HIDE DEF more
<1>7. \A c \in Updates!Cells :
         Within(c, Updates!BoxesOf(regions)) \/ Updates!ContainsBox(b, c) =>
            Within(c, Updates!BoxesOf(more))
  BY <1>6 DEF Within, Updates!BoxesOf
<1> QED
  BY <1>3, <1>4, <1>7 DEF more

LEMMA AtlasRepairVisit ==
    ASSUME InputsFit, EnvelopesEnclose, AtlasInv, Updates!RepairVisit
    PROVE  AtlasInv'
<1> DEFINE item == Head(task.work)
           rest == Tail(task.work)
<1>1. /\ task \in UpdateType /\ task.kind = "update" /\ task.work # <<>> /\ task.work \in Seq(Items)
      /\ task.padding \in Paddings /\ task.regions \in SUBSET Regions /\ task.domains \in SUBSET BoxType
      /\ atlas # Updates!NoAtlas /\ Stand(task.regions, task.scene) /\ UNCHANGED atlas
  BY TaskKinds DEF AtlasInv, Updates!RepairVisit, Updates!Working, UpdateType
<1>2. /\ Fill(Updates!BoxesOf(task.regions) \cup task.domains \cup task.todo \cup Begun(task))
      /\ (task.root # Updates!Nowhere /\ ~task.unresolved) =>
            \A c \in Updates!Cells : Updates!ContainsBox(task.root, c) =>
                Within(c, Updates!BoxesOf(task.regions) \cup WorkBoxes(task.work))
  BY <1>1 DEF AtlasInv
<1>3. item \in Items /\ item.box \in BoxType /\ rest \in Seq(Items)
      /\ WorkBoxes(task.work) = {item.box} \cup WorkBoxes(rest)
  BY <1>1, WorkOf DEF Items
<1> SUFFICES /\ task' \in UpdateType /\ task'.scene = task.scene /\ task'.root = task.root
             /\ Stand(task'.regions, task'.scene)
             /\ Fill(Updates!BoxesOf(task'.regions) \cup task'.domains \cup task'.todo \cup Begun(task))
             /\ (task.root # Updates!Nowhere /\ ~task'.unresolved) =>
                   \A c \in Updates!Cells : Updates!ContainsBox(task.root, c) =>
                       Within(c, Updates!BoxesOf(task'.regions) \cup WorkBoxes(task'.work))
  BY <1>1 DEF AtlasInv, AtlasTypes, BuildType, UpdateType, AtlasType, Stand, Fill, Within, Begun,
              Updates!NoAtlas, Updates!Idle, Updates!BoxesOf, Updates!CertifiedFree, WorkBoxes,
              Updates!Cells, Updates!ContainsBox, Updates!Nowhere
<1>4. CASE /\ Updates!Free1
           /\ task' = [task EXCEPT !.work = Tail(@),
                          !.regions = Updates!WithRepaired(@, Updates!Item1.box, task.padding)]
  <2> DEFINE more == Updates!WithRepaired(task.regions, item.box, task.padding)
  <2>1. Updates!CertifiedFree(item.box, task.scene, task.padding)
    BY <1>4 DEF Updates!Free1, Updates!Item1
  <2>2. /\ more \in SUBSET Regions /\ Stand(more, task.scene)
        /\ \A c \in Updates!Cells :
              Within(c, Updates!BoxesOf(task.regions)) \/ Updates!ContainsBox(item.box, c) =>
                 Within(c, Updates!BoxesOf(more))
    BY <1>1, <1>3, <2>1, RepairedCovers
  <2>3. task' = [task EXCEPT !.work = rest, !.regions = more]
    BY <1>4 DEF Updates!Item1
  <2> HIDE DEF more
  <2>4. /\ task' \in UpdateType /\ task'.scene = task.scene /\ task'.domains = task.domains
        /\ task'.regions = more /\ task'.work = rest /\ task'.root = task.root
        /\ task'.todo = task.todo /\ task'.unresolved = task.unresolved
    BY <1>1, <1>3, <2>2, <2>3 DEF UpdateType
  <2>5. Fill(Updates!BoxesOf(more) \cup task.domains \cup task.todo \cup Begun(task))
    BY <1>2, <2>2 DEF Fill, Within
  <2>6. \A c \in Updates!Cells :
           Within(c, Updates!BoxesOf(task.regions) \cup WorkBoxes(task.work)) =>
              Within(c, Updates!BoxesOf(more) \cup WorkBoxes(rest))
    BY <1>3, <2>2 DEF Within
  <2> QED
    BY <1>2, <2>2, <2>4, <2>5, <2>6
<1>5. CASE task' = [task EXCEPT !.work = Tail(@), !.unresolved = TRUE]
  <2>1. /\ task' \in UpdateType /\ task'.scene = task.scene /\ task'.domains = task.domains
        /\ task'.regions = task.regions /\ task'.work = rest /\ task'.root = task.root
        /\ task'.todo = task.todo /\ task'.unresolved
    BY <1>1, <1>3, <1>5 DEF UpdateType
  <2> QED
    BY <1>1, <1>2, <2>1
<1>6. CASE task' = [task EXCEPT !.work = Tail(@) \o Updates!Children(Updates!Item1, task.root)]
  <2> DEFINE work == rest \o Updates!Children(item, task.root)
  <2>1. /\ work \in Seq(Items) /\ WorkBoxes(rest) \subseteq WorkBoxes(work)
        /\ \A c \in Updates!Cells : Updates!ContainsBox(item.box, c) => Within(c, WorkBoxes(work))
    BY <1>3, ChildrenOf
  <2>2. task' = [task EXCEPT !.work = work]
    BY <1>6 DEF Updates!Item1
  <2> HIDE DEF work
  <2>3. /\ task' \in UpdateType /\ task'.scene = task.scene /\ task'.domains = task.domains
        /\ task'.regions = task.regions /\ task'.work = work /\ task'.root = task.root
        /\ task'.todo = task.todo /\ task'.unresolved = task.unresolved
    BY <1>1, <2>1, <2>2 DEF UpdateType
  <2>4. \A c \in Updates!Cells :
           Within(c, Updates!BoxesOf(task.regions) \cup WorkBoxes(task.work)) =>
              Within(c, Updates!BoxesOf(task.regions) \cup WorkBoxes(work))
    BY <1>3, <2>1 DEF Within
  <2> QED
    BY <1>1, <1>2, <2>3, <2>4
<1> QED
  BY <1>4, <1>5, <1>6 DEF Updates!RepairVisit

LEMMA AtlasEndDomain ==
    ASSUME AtlasInv, Updates!EndDomain
    PROVE  AtlasInv'
<1>1. /\ task \in UpdateType /\ task.kind = "update" /\ task.work = <<>> /\ task.root # Updates!Nowhere
      /\ task.root \in BoxType /\ task.domains \in SUBSET BoxType
      /\ atlas # Updates!NoAtlas /\ Stand(task.regions, task.scene) /\ UNCHANGED atlas
  BY TaskKinds DEF AtlasInv, Updates!EndDomain, Updates!Worked, UpdateType
<1>2. /\ Fill(Updates!BoxesOf(task.regions) \cup task.domains \cup task.todo \cup Begun(task))
      /\ ~task.unresolved =>
            \A c \in Updates!Cells : Updates!ContainsBox(task.root, c) =>
                Within(c, Updates!BoxesOf(task.regions) \cup WorkBoxes(task.work))
  BY <1>1 DEF AtlasInv
<1>3. WorkBoxes(task.work) = {} /\ Begun(task) = {task.root}
  BY <1>1 DEF WorkBoxes, Begun
<1> DEFINE domains == IF task.unresolved THEN task.domains \cup {task.root} ELSE task.domains
<1>4. Fill(Updates!BoxesOf(task.regions) \cup domains \cup task.todo)
  BY <1>2, <1>3 DEF Fill, Within
<1>5. domains \in SUBSET BoxType
  BY <1>1
<1>6. task' = [task EXCEPT !.root = Updates!Nowhere, !.domains = domains]
  BY DEF Updates!EndDomain
<1> HIDE DEF domains
<1>7. /\ task' \in UpdateType /\ task'.kind = "update" /\ task'.scene = task.scene
      /\ task'.domains = domains /\ task'.regions = task.regions
      /\ task'.root = Updates!Nowhere /\ task'.todo = task.todo
  BY <1>1, <1>5, <1>6 DEF UpdateType
<1> QED
  BY <1>1, <1>4, <1>7
     DEF AtlasInv, AtlasTypes, BuildType, UpdateType, AtlasType, Stand, Fill, Within, Begun,
         Updates!NoAtlas, Updates!Idle, Updates!BoxesOf, Updates!CertifiedFree, Updates!Cells,
         Updates!ContainsBox, Updates!Nowhere

LEMMA AtlasFinishUpdate ==
    ASSUME InputsFit, AtlasInv, Updates!FinishUpdate
    PROVE  AtlasInv'
<1>1. /\ task \in UpdateType /\ task.kind = "update" /\ task.root = Updates!Nowhere /\ task.todo = {}
      /\ atlas # Updates!NoAtlas /\ atlas \in AtlasType /\ Stand(task.regions, task.scene)
      /\ Fill(Updates!BoxesOf(task.regions) \cup task.domains \cup task.todo \cup Begun(task))
  BY TaskKinds DEF AtlasInv, AtlasTypes, Updates!FinishUpdate, Updates!Worked
<1>2. /\ atlas' = [scene |-> task.scene, regions |-> task.regions, domains |-> task.domains,
                   padding |-> task.padding, version |-> atlas.version + 1]
      /\ task' = Updates!Idle
  BY DEF Updates!FinishUpdate
<1>3. Begun(task) = {}
  BY <1>1 DEF Begun
<1>4. /\ atlas' \in AtlasType /\ atlas'.scene = task.scene /\ atlas'.regions = task.regions
      /\ atlas'.domains = task.domains /\ task'.kind = "idle"
  BY <1>1, <1>2 DEF AtlasType, UpdateType, Updates!Idle
<1> QED
  BY <1>1, <1>2, <1>3, <1>4
     DEF AtlasInv, AtlasTypes, BuildType, UpdateType, AtlasType, Stand, Fill, Within,
         Updates!NoAtlas, Updates!Idle, Updates!BoxesOf, Updates!CertifiedFree, Updates!Cells,
         Updates!ContainsBox

LEMMA AtlasUnchanged ==
    ASSUME AtlasInv, UNCHANGED atlas, task' = task \/ task' = Updates!Idle
    PROVE  AtlasInv'
<1>1. CASE task' = task
  <2>1. AtlasTypes'
    BY <1>1 DEF AtlasInv, AtlasTypes, BuildType, UpdateType, AtlasType, Updates!NoAtlas, Updates!Idle,
                Updates!Nowhere, Updates!Scenes
  <2>2. /\ Stand(atlas.regions, atlas.scene) => Stand(atlas.regions, atlas.scene)'
        /\ Stand(task.regions, task.scene) => Stand(task.regions, task.scene)'
    BY <1>1 DEF Stand, Updates!CertifiedFree
  <2>3. /\ Updates!NoAtlas' = Updates!NoAtlas /\ Updates!Nowhere' = Updates!Nowhere
        /\ Updates!Cells' = Updates!Cells
        /\ Fill(Updates!BoxesOf(atlas.regions) \cup atlas.domains) =>
              Fill(Updates!BoxesOf(atlas.regions) \cup atlas.domains)'
        /\ Fill(Updates!BoxesOf(task.regions) \cup task.domains \cup WorkBoxes(task.work)) =>
              Fill(Updates!BoxesOf(task.regions) \cup task.domains \cup WorkBoxes(task.work))'
    BY <1>1, ZenonT(30) DEF Updates!NoAtlas, Updates!Nowhere, Updates!Cells, Fill, Within, WorkBoxes,
                Updates!ContainsBox, Updates!BoxesOf
  <2>4. Fill(Updates!BoxesOf(task.regions) \cup task.domains \cup task.todo \cup Begun(task)) =>
           Fill(Updates!BoxesOf(task.regions) \cup task.domains \cup task.todo \cup Begun(task))'
    BY <1>1 DEF Updates!Nowhere, Updates!Cells, Fill, Within, Begun, Updates!ContainsBox,
                Updates!BoxesOf
  <2>5. (\A c \in Updates!Cells : Updates!ContainsBox(task.root, c) =>
            Within(c, Updates!BoxesOf(task.regions) \cup WorkBoxes(task.work))) =>
        (\A c \in Updates!Cells : Updates!ContainsBox(task.root, c) =>
            Within(c, Updates!BoxesOf(task.regions) \cup WorkBoxes(task.work)))'
    BY <1>1 DEF Updates!Cells, Within, WorkBoxes, Updates!ContainsBox, Updates!BoxesOf
  <2> QED
    BY <1>1, <2>1, <2>2, <2>3, <2>4, <2>5 DEF AtlasInv
<1>2. CASE task' = Updates!Idle
  <2>1. task'.kind = "idle"
    BY <1>2 DEF Updates!Idle
  <2> QED
    BY <1>2, <2>1
       DEF AtlasInv, AtlasTypes, BuildType, UpdateType, AtlasType, Stand, Fill, Within,
           Updates!NoAtlas, Updates!Idle, Updates!BoxesOf, Updates!CertifiedFree,
           Updates!Cells, Updates!ContainsBox
<1> QED
  BY <1>1, <1>2

LEMMA AtlasNext ==
    ASSUME InputsFit, EnvelopesEnclose
    PROVE  AtlasInv /\ [Updates!Next]_Updates!vars => AtlasInv'
<1> SUFFICES ASSUME AtlasInv, [Updates!Next]_Updates!vars
             PROVE  AtlasInv'
  OBVIOUS
<1>1. CASE UNCHANGED Updates!vars
  BY <1>1, AtlasUnchanged DEF Updates!vars
<1>2. CASE Updates!Abandon
  BY <1>2, AtlasUnchanged DEF Updates!Abandon
<1> QED
  BY <1>1, <1>2, AtlasBuildVisit, AtlasMerge, AtlasFinishBuild, AtlasStartUpdate, AtlasStartDomain,
     AtlasRepairVisit, AtlasEndDomain, AtlasFinishUpdate DEF Updates!Next

(* The invariant of builds and updates: every region that a finished or an   *)
(* unfinished Atlas lists stands in the scene it is for, and what is not     *)
(* covered by regions is in a domain, in what is left of a list or in the    *)
(* tree that is being grown.                                                 *)
THEOREM AtlasInvariance ==
    ASSUME InputsFit, EnvelopesEnclose
    PROVE  Updates!Spec => []AtlasInv
<1>1. Updates!Init => AtlasInv
  BY AtlasInit
<1>2. AtlasInv /\ [Updates!Next]_Updates!vars => AtlasInv'
  BY AtlasNext
<1> QED
  BY <1>1, <1>2, PTL DEF Updates!Spec

(* A box that an envelope encloses, with the padding, keeps from what the    *)
(* envelope keeps from.                                                      *)
LEMMA EnvelopeKeepsAway ==
    ASSUME InputsFit, EnvelopesEnclose, NEW b \in BoxType, NEW padding \in Paddings,
           NEW shape \in BoxType, ~Updates!Overlap(Envelope(b, padding), shape, 0)
    PROVE  ~Updates!Overlap(Updates!Inflate(b, padding), shape, 0)
<1> SUFFICES ASSUME Updates!Overlap(Updates!Inflate(b, padding), shape, 0)
             PROVE  Updates!Overlap(Envelope(b, padding), shape, 0)
  OBVIOUS
<1> PICK e : e = Envelope(b, padding)
  OBVIOUS
<1>1. e \in BoxType /\ Updates!ContainsBox(e, Updates!Inflate(b, padding))
  BY DEF EnvelopesEnclose
<1>2. PICK f : f = Updates!Inflate(b, padding)
  OBVIOUS
<1>3. /\ f.lower = [i \in Axes |-> b.lower[i] - padding]
      /\ f.upper = [i \in Axes |-> b.upper[i] + padding]
  BY <1>2 DEF Updates!Inflate, Axes
<1> SUFFICES ASSUME NEW i \in Axes
             PROVE  e.lower[i] <= shape.upper[i] + 0 /\ shape.lower[i] <= e.upper[i] + 0
  BY DEF Updates!Overlap, Axes
<1>4. f.lower[i] <= shape.upper[i] + 0 /\ shape.lower[i] <= f.upper[i] + 0
  BY <1>2 DEF Updates!Overlap, Axes
<1>5. e.lower[i] <= f.lower[i] /\ f.upper[i] <= e.upper[i]
  BY <1>1, <1>2 DEF Updates!ContainsBox, Axes
<1>6. /\ e.lower[i] \in Int /\ e.upper[i] \in Int /\ shape.lower[i] \in Int /\ shape.upper[i] \in Int
      /\ f.lower[i] \in Int /\ f.upper[i] \in Int
  BY <1>1, <1>3 DEF BoxType, InputsFit
<1> QED
  BY <1>4, <1>5, <1>6

(* AtlasUpdater::update(): however a region came into the Atlas, certified,  *)
(* merged, inherited or repaired, what it holds keeps the padding of its     *)
(* certificate from every obstacle of the Atlas's own scene.                 *)
THEOREM AtlasAlwaysSafe ==
    ASSUME InputsFit, EnvelopesEnclose
    PROVE  Updates!Spec => []Updates!AtlasIsSafe
<1>1. AtlasInv => Updates!AtlasIsSafe
  <2> SUFFICES ASSUME AtlasInv, atlas # Updates!NoAtlas, NEW r \in atlas.regions,
                      NEW shape \in Updates!Present(atlas.scene)
               PROVE  ~Updates!Overlap(Updates!Inflate(r.box, r.padding), shape, 0)
    BY DEF Updates!AtlasIsSafe
  <2>1. atlas \in AtlasType /\ Stand(atlas.regions, atlas.scene)
    BY DEF AtlasInv, AtlasTypes
  <2>2. r.box \in BoxType /\ r.padding \in Paddings
    BY <2>1 DEF AtlasType, Regions
  <2>3. shape \in BoxType
    BY <2>1 DEF AtlasType, Updates!Scenes, Updates!Present, InputsFit
  <2>4. ~Updates!Overlap(Envelope(r.box, r.padding), shape, 0)
    BY <2>1 DEF Stand, Updates!CertifiedFree
  <2> QED
    BY <2>2, <2>3, <2>4, EnvelopeKeepsAway
<1> QED
  BY <1>1, AtlasInvariance, PTL

(* build(), update(): no part of the joint domain is forgotten, whatever     *)
(* updates are repaired, left for later or given up.                         *)
THEOREM AtlasListsSpace ==
    ASSUME InputsFit, EnvelopesEnclose
    PROVE  Updates!Spec => []Updates!SpaceIsListed
<1>1. AtlasInv => Updates!SpaceIsListed
  BY DEF AtlasInv, Fill, Within, Updates!SpaceIsListed, Updates!CoveredBy
<1> QED
  BY <1>1, AtlasInvariance, PTL

(* What it takes for coverage to come back: the axes are numbered, the joint *)
(* domain is not flat in any of them, the tolerance is below the resolution  *)
(* of the numbers and the envelope of a box encloses those of its parts.     *)
DomainFits ==
    /\ \E n \in Nat \ {0} : Axes = 1..n
    /\ \A i \in Axes : Root.lower[i] < Root.upper[i]
EnvelopesGrow ==
    \A a, b \in BoxType, padding \in Paddings :
        Updates!ContainsBox(a, b) => Updates!ContainsBox(Envelope(a, padding), Envelope(b, padding))
Premises == InputsFit /\ EnvelopesEnclose /\ DomainFits /\ EnvelopesGrow /\ Tolerance = 0

LEMMA Cross ==
    ASSUME NEW aj \in Nat, NEW ai \in Nat, NEW ak \in Nat,
           NEW rj \in Nat \ {0}, NEW ri \in Nat \ {0}, NEW rk \in Nat \ {0},
           aj * ri <= ai * rj, ai * rk < ak * ri
    PROVE  aj * rk < ak * rj
<1>1. \A x, y, z \in Nat : x <= y => x * z <= y * z
  OBVIOUS
<1>2. \A x, y \in Nat, z \in Nat \ {0} : x < y => x * z < y * z
  OBVIOUS
<1>3. (aj * ri) * rk <= (ai * rj) * rk
  BY <1>1
<1>4. (ai * rk) * rj < (ak * ri) * rj
  BY <1>2
<1>5. /\ (aj * ri) * rk = (aj * rk) * ri /\ (ai * rj) * rk = (ai * rk) * rj
      /\ (ak * ri) * rj = (ak * rj) * ri
  OBVIOUS
<1>6. (aj * rk) * ri < (ak * rj) * ri
  BY <1>3, <1>4, <1>5
<1>7. ~(ak * rj <= aj * rk)
  BY <1>1, <1>6
<1> QED
  BY <1>7

(* LectTree::choose_split_dimension() finds an axis. *)
LEMMA SplitsAnAxis ==
    ASSUME Premises, NEW b \in BoxType
    PROVE  Updates!SplitAxis(b, Root) \in Axes
<1>1. PICK n \in Nat \ {0} : Axes = 1..n
  BY DEF Premises, DomainFits
<1> DEFINE w == [i \in Axes |-> Updates!Width(b, i)]
           v == [i \in Axes |-> Updates!Width(Root, i)]
<1>2. /\ \A i \in Axes : w[i] \in Nat /\ v[i] \in Nat \ {0}
      /\ \A i \in Axes : w[i] = Updates!Width(b, i) /\ v[i] = Updates!Width(Root, i)
  <2>1. \A i \in Axes : /\ b.lower[i] \in Int /\ b.upper[i] \in Int /\ b.lower[i] <= b.upper[i]
                        /\ Root.lower[i] \in Int /\ Root.upper[i] \in Int /\ Root.lower[i] < Root.upper[i]
    BY DEF BoxType, Premises, InputsFit, DomainFits
  <2> QED
    BY <2>1 DEF Updates!Width
<1> HIDE DEF w, v
<1> DEFINE Best(m, i) == /\ \A j \in 1..m : w[j] * v[i] <= w[i] * v[j]
                         /\ \A j \in 1..(i - 1) : w[j] * v[i] < w[i] * v[j]
           Found == {m \in Nat : m + 1 <= n => \E i \in 1..(m + 1) : Best(m + 1, i)}
<1>3. 0 \in Found
  <2>1. Best(1, 1)
    <3>1. 1..1 = {1} /\ 1..(1 - 1) = {} /\ w[1] * v[1] \in Nat
      BY <1>1, <1>2
    <3> QED
      BY <3>1
  <2> QED
    BY <2>1
<1>4. ASSUME NEW m \in Nat, m \in Found
      PROVE  m + 1 \in Found
  <2> SUFFICES ASSUME m + 2 <= n
               PROVE  \E i \in 1..(m + 2) : Best(m + 2, i)
    OBVIOUS
  <2>1. PICK i \in 1..(m + 1) : Best(m + 1, i)
    BY <1>4
  <2> DEFINE k == m + 2
  <2>2. i \in Axes /\ k \in Axes /\ 1..k = 1..(m + 1) \cup {k} /\ 1..(k - 1) = 1..(m + 1)
        /\ \A j \in 1..(m + 1) : j \in Axes
    BY <1>1
  <2>3. CASE w[k] * v[i] <= w[i] * v[k]
    <3>1. Best(k, i)
      BY <2>1, <2>2, <2>3
    <3> QED
      BY <3>1
  <2>4. CASE ~(w[k] * v[i] <= w[i] * v[k])
    <3>1. /\ w[i] \in Nat /\ w[k] \in Nat /\ v[i] \in Nat \ {0} /\ v[k] \in Nat \ {0}
          /\ w[k] * v[i] \in Nat /\ w[i] * v[k] \in Nat
      BY <1>2, <2>2
    <3>2. w[i] * v[k] < w[k] * v[i]
      BY <2>4, <3>1
    <3>3. ASSUME NEW j \in 1..(m + 1)
          PROVE  w[j] * v[k] < w[k] * v[j]
      <4>1. w[j] \in Nat /\ v[j] \in Nat \ {0} /\ w[j] * v[i] <= w[i] * v[j]
        BY <1>2, <2>1, <2>2
      <4> QED
        BY <3>1, <3>2, <4>1, Cross
    <3>4. \A j \in 1..(m + 1) : w[j] * v[k] \in Nat /\ w[k] * v[j] \in Nat
      BY <1>2, <2>2
    <3>5. Best(k, k)
      BY <2>2, <3>1, <3>3, <3>4
    <3> QED
      BY <3>5
  <2> QED
    BY <2>3, <2>4
<1>5. n - 1 \in Found
  <2> HIDE DEF Found
  <2>1. Nat \subseteq Found
    BY <1>3, <1>4, EveryNumber
  <2> QED
    BY <2>1
<1>6. PICK i \in Axes : Best(n, i)
  BY <1>1, <1>5
<1>7. /\ \A j \in Axes : Updates!Width(b, j) * Updates!Width(Root, i)
                            <= Updates!Width(b, i) * Updates!Width(Root, j)
      /\ \A j \in 1..(i - 1) : Updates!Width(b, j) * Updates!Width(Root, i)
                                  < Updates!Width(b, i) * Updates!Width(Root, j)
  <2>1. /\ \A j \in Axes : w[j] * v[i] <= w[i] * v[j]
        /\ \A j \in 1..(i - 1) : w[j] * v[i] < w[i] * v[j]
    BY <1>1, <1>6
  <2>2. \A j \in 1..(i - 1) : j \in Axes
    BY <1>1
  <2> HIDE DEF Best
  <2> QED
    BY <1>2, <2>1, <2>2, Zenon
<1> QED
  BY <1>7 DEF Updates!SplitAxis, Axes

(* Halves are parts of their box, and have no unit of it in common. *)
LEMMA HalvesAreParts ==
    ASSUME InputsFit, NEW b \in BoxType, NEW root
    PROVE  /\ Updates!ContainsBox(b, Updates!LowerHalf(b, root))
           /\ Updates!ContainsBox(b, Updates!UpperHalf(b, root))
           /\ Updates!SplitAxis(b, root) \in Axes =>
                 \A c \in Updates!Cells :
                    ~(/\ Updates!ContainsBox(Updates!LowerHalf(b, root), c)
                      /\ Updates!ContainsBox(Updates!UpperHalf(b, root), c))
<1> DEFINE i == Updates!SplitAxis(b, root)
           m == Updates!Middle(b)
<1>1. /\ m \in [Axes -> Int] /\ b.lower \in [Axes -> Int] /\ b.upper \in [Axes -> Int]
      /\ \A j \in Axes : b.lower[j] <= b.upper[j]
  BY DEF BoxType, Updates!Middle, Axes, Updates!Axes
<1>2. \A j \in Axes : b.lower[j] <= m[j] /\ m[j] <= b.upper[j]
  <2>1. \A j \in Axes : m[j] = (b.lower[j] + b.upper[j]) \div 2
    BY DEF Updates!Middle, Axes
  <2> HIDE DEF m
  <2> QED
    BY <1>1, <2>1
<1> HIDE DEF m
<1>3. PICK low, high :
         /\ low = Updates!LowerHalf(b, root) /\ high = Updates!UpperHalf(b, root)
         /\ low = [b EXCEPT !.upper[i] = m[i]] /\ high = [b EXCEPT !.lower[i] = m[i]]
  BY DEF Updates!LowerHalf, Updates!UpperHalf, m
<1> HIDE DEF i
<1>4. /\ low.lower = b.lower /\ low.upper = [b.upper EXCEPT ![i] = m[i]]
      /\ high.upper = b.upper /\ high.lower = [b.lower EXCEPT ![i] = m[i]]
  BY <1>3 DEF BoxType
<1>5. \A j \in Axes : /\ b.lower[j] <= low.lower[j] /\ low.upper[j] <= b.upper[j]
                      /\ b.lower[j] <= high.lower[j] /\ high.upper[j] <= b.upper[j]
  BY <1>1, <1>2, <1>4
<1>6. ASSUME i \in Axes, NEW c \in Updates!Cells,
             Updates!ContainsBox(low, c), Updates!ContainsBox(high, c)
      PROVE  FALSE
  <2>1. low.upper[i] = m[i] /\ high.lower[i] = m[i] /\ m[i] \in Int
    BY <1>1, <1>4, <1>6
  <2>2. c.upper[i] <= low.upper[i] /\ high.lower[i] <= c.lower[i]
    BY <1>6 DEF Updates!ContainsBox, Axes
  <2>3. c.upper[i] = c.lower[i] + 1 /\ c.lower[i] \in Int
    BY <1>6, CellShape DEF BoxType
  <2> QED
    BY <2>1, <2>2, <2>3
<1> QED
  BY <1>3, <1>5, <1>6 DEF Updates!ContainsBox, Axes, i

(* What a box certified as free contains is certified as free. *)
LEMMA PartsAreFree ==
    ASSUME Premises, NEW a \in BoxType, NEW b \in BoxType, NEW padding \in Paddings,
           NEW scene \in Updates!Scenes,
           Updates!ContainsBox(a, b), Updates!CertifiedFree(a, scene, padding)
    PROVE  Updates!CertifiedFree(b, scene, padding)
<1> SUFFICES ASSUME NEW shape \in Updates!Present(scene),
                    Updates!Overlap(Envelope(b, padding), shape, 0)
             PROVE  FALSE
  BY DEF Updates!CertifiedFree
<1>1. shape \in BoxType
  BY DEF Updates!Scenes, Updates!Present, Premises, InputsFit
<1> PICK e, f : e = Envelope(a, padding) /\ f = Envelope(b, padding)
  OBVIOUS
<1>2. e \in BoxType /\ f \in BoxType /\ Updates!ContainsBox(e, f)
  BY DEF Premises, EnvelopesEnclose, EnvelopesGrow
<1>3. Updates!Overlap(e, shape, 0)
  <2> SUFFICES ASSUME NEW i \in Axes
               PROVE  e.lower[i] <= shape.upper[i] + 0 /\ shape.lower[i] <= e.upper[i] + 0
    BY DEF Updates!Overlap, Axes
  <2>1. f.lower[i] <= shape.upper[i] + 0 /\ shape.lower[i] <= f.upper[i] + 0
    BY DEF Updates!Overlap, Axes
  <2>2. e.lower[i] <= f.lower[i] /\ f.upper[i] <= e.upper[i]
    BY <1>2 DEF Updates!ContainsBox, Axes
  <2>3. /\ e.lower[i] \in Int /\ e.upper[i] \in Int /\ f.lower[i] \in Int /\ f.upper[i] \in Int
        /\ shape.lower[i] \in Int /\ shape.upper[i] \in Int
    BY <1>1, <1>2 DEF BoxType
  <2> QED
    BY <2>1, <2>2, <2>3
<1> QED
  BY <1>3 DEF Updates!CertifiedFree

(* When boxes differ in one axis and overlap there, a unit of their hull is  *)
(* a unit of one of them.                                                    *)
LEMMA HullIsUnion ==
    ASSUME Premises, NEW a \in BoxType, NEW b \in BoxType,
           Updates!HaveRectangularUnion(a, b, 0),
           NEW c \in Updates!Cells, Updates!ContainsBox(Updates!Hull(a, b), c)
    PROVE  Updates!ContainsBox(a, c) \/ Updates!ContainsBox(b, c)
<1>1. /\ \A i \in Axes : /\ a.lower[i] \in Int /\ a.upper[i] \in Int
                         /\ b.lower[i] \in Int /\ b.upper[i] \in Int
      /\ c \in BoxType /\ \A i \in Axes : c.upper[i] = c.lower[i] + 1 /\ c.lower[i] \in Int
  BY CellShape DEF BoxType, Premises
<1> DEFINE differing == {i \in Axes : \/ Updates!Abs(a.lower[i] - b.lower[i]) > 0
                                      \/ Updates!Abs(a.upper[i] - b.upper[i]) > 0}
<1>2. /\ Updates!Cardinality(differing) <= 1
      /\ \A i \in differing : a.lower[i] <= b.upper[i] + 0 /\ b.lower[i] <= a.upper[i] + 0
  BY Zenon DEF Updates!HaveRectangularUnion, Axes
<1>3. \A i \in Axes \ differing : a.lower[i] = b.lower[i] /\ a.upper[i] = b.upper[i]
  BY <1>1 DEF Updates!Abs
<1>4. \A i, j \in differing : i = j
  <2> SUFFICES ASSUME NEW i \in differing, NEW j \in differing, i # j
               PROVE  FALSE
    OBVIOUS
  <2>1. IsFiniteSet(differing)
    <3>1. IsFiniteSet(Axes)
      BY FS_Interval DEF Premises, DomainFits
    <3> QED
      BY <3>1, FS_Subset
  <2>2. Cardinality({i, j}) = 2 /\ {i, j} \subseteq differing
    <3>1. IsFiniteSet({i}) /\ Cardinality({i}) = 1
      BY FS_Singleton
    <3>2. {i, j} = {i} \cup {j} /\ j \notin {i}
      OBVIOUS
    <3>3. Cardinality({i} \cup {j}) = Cardinality({i}) + 1
      BY <3>1, <3>2, FS_AddElement
    <3> QED
      BY <3>1, <3>2, <3>3
  <2>3. Cardinality(differing) >= 2
    <3> HIDE DEF differing
    <3> QED
      BY <2>1, <2>2, FS_Subset, FS_CardinalityType
  <2>4. Updates!Cardinality(differing) = Cardinality(differing)
    BY DEF Updates!Cardinality, Cardinality
  <2>5. Cardinality(differing) \in Nat
    BY <2>1, FS_CardinalityType
  <2> QED
    BY <1>2, <2>3, <2>4, <2>5
<1>5. \A i \in Axes :
         /\ Updates!MinOf(a.lower[i], b.lower[i]) <= c.lower[i]
         /\ c.upper[i] <= Updates!MaxOf(a.upper[i], b.upper[i])
  BY DEF Updates!ContainsBox, Updates!Hull, Axes
<1> HIDE DEF differing
<1>6. \A i \in Axes \ differing :
         /\ a.lower[i] <= c.lower[i] /\ c.upper[i] <= a.upper[i]
         /\ b.lower[i] <= c.lower[i] /\ c.upper[i] <= b.upper[i]
  BY <1>1, <1>3, <1>5 DEF Updates!MinOf, Updates!MaxOf
<1>7. \A i \in Axes \cap differing :
         \/ a.lower[i] <= c.lower[i] /\ c.upper[i] <= a.upper[i]
         \/ b.lower[i] <= c.lower[i] /\ c.upper[i] <= b.upper[i]
  BY <1>1, <1>2, <1>5 DEF Updates!MinOf, Updates!MaxOf
<1> QED
  BY <1>4, <1>6, <1>7 DEF Updates!ContainsBox, Axes

NoShare(A, B) ==
    \A c \in Updates!Cells, a \in A, b \in B :
        ~(Updates!ContainsBox(a, c) /\ Updates!ContainsBox(b, c))
WorkApart(w) ==
    \A c \in Updates!Cells, k, l \in 1..Len(w) :
        Updates!ContainsBox(w[k].box, c) /\ Updates!ContainsBox(w[l].box, c) => k = l
PartsOf(boxes, whole) == \A b \in boxes : \E f \in whole : Updates!ContainsBox(f, b)
Blocked(boxes, scene, padding) == \A b \in boxes : ~Updates!CertifiedFree(b, scene, padding)
Padded(regions, padding) == \A r \in regions : r.padding = padding

FirstBoxes == Updates!BoxesOf(first.regions) \cup first.domains

(* A build cuts the domain up, and gives up where it is not free. *)
BuildApart(t) ==
    /\ NoShare(Updates!BoxesOf(t.regions), t.domains)
    /\ NoShare(Updates!BoxesOf(t.regions) \cup t.domains, WorkBoxes(t.work))
    /\ WorkApart(t.work)
    /\ Padded(t.regions, t.padding)
    /\ Blocked(t.domains, t.scene, t.padding)

(* What the first Atlas certified is apart from what it did not; what came   *)
(* later are parts of it; and what still waits is not free.                  *)
Descends ==
    /\ first \in AtlasType
    /\ NoShare(Updates!BoxesOf(first.regions), first.domains)
    /\ Stand(first.regions, first.scene) /\ Padded(first.regions, first.padding)
    /\ PartsOf(Updates!BoxesOf(atlas.regions) \cup atlas.domains, FirstBoxes)
    /\ steady => /\ atlas.padding = first.padding
                 /\ Blocked(atlas.domains, atlas.scene, atlas.padding)

UpdateDescends(t) ==
    /\ PartsOf(Updates!BoxesOf(t.regions) \cup t.domains \cup t.todo \cup Begun(t), FirstBoxes)
    /\ t.root = Updates!Nowhere => t.work = <<>>
    /\ t.root # Updates!Nowhere => PartsOf(WorkBoxes(t.work), {t.root})
    /\ (steady /\ t.repair /\ t.padding = atlas.padding) =>
          /\ Blocked(t.domains, t.scene, t.padding)
          /\ t.root # Updates!Nowhere /\ t.unresolved => Blocked({t.root}, t.scene, t.padding)

HistoryInv ==
    /\ steady \in BOOLEAN
    /\ task.kind = "build" => BuildApart(task)
    /\ atlas # Updates!NoAtlas => Descends
    /\ task.kind = "update" => UpdateDescends(task)

LEMMA WorkApartOf ==
    ASSUME NEW w \in Seq(Items), w # <<>>, WorkApart(w)
    PROVE  WorkApart(Tail(w)) /\ NoShare({Head(w).box}, WorkBoxes(Tail(w)))
<1>1. /\ Head(w) = w[1] /\ Len(w) \in Nat \ {0} /\ Len(Tail(w)) = Len(w) - 1
      /\ \A k \in 1..(Len(w) - 1) : Tail(w)[k] = w[k + 1]
  OBVIOUS
<1>2. \A k \in 1..(Len(w) - 1) : k + 1 \in 1..Len(w) /\ k + 1 # 1
  BY <1>1
<1>3. 1 \in 1..Len(w)
  BY <1>1
<1>4. \A k, l \in 1..(Len(w) - 1) : k + 1 = l + 1 => k = l
  BY <1>1
<1> QED
  BY <1>1, <1>2, <1>3, <1>4 DEF WorkApart, NoShare, WorkBoxes

LEMMA WorkApartWith ==
    ASSUME NEW w \in Seq(Items), NEW x \in Items, NEW y \in Items, WorkApart(w),
           NoShare({x.box, y.box}, WorkBoxes(w)), NoShare({x.box}, {y.box})
    PROVE  WorkApart(w \o <<x, y>>)
<1> DEFINE v == w \o <<x, y>>
           n == Len(w)
<1>1. /\ v \in Seq(Items) /\ Len(v) = n + 2 /\ n \in Nat
      /\ \A k \in 1..n : v[k] = w[k]
      /\ v[n + 1] = x /\ v[n + 2] = y
  OBVIOUS
<1> HIDE DEF v
<1>2. 1..(n + 2) = 1..n \cup {n + 1, n + 2}
  BY <1>1
<1> SUFFICES ASSUME NEW c \in Updates!Cells, NEW k \in 1..(n + 2), NEW l \in 1..(n + 2),
                    Updates!ContainsBox(v[k].box, c), Updates!ContainsBox(v[l].box, c)
             PROVE  k = l
  BY <1>1 DEF WorkApart, v
<1>3. \A j \in 1..n : v[j].box \in WorkBoxes(w)
  BY <1>1 DEF WorkBoxes
<1>4. CASE k \in 1..n /\ l \in 1..n
  BY <1>1, <1>4 DEF WorkApart
<1>5. CASE k \in 1..n /\ l \in {n + 1, n + 2}
  BY <1>1, <1>3, <1>5 DEF NoShare
<1>6. CASE k \in {n + 1, n + 2} /\ l \in 1..n
  BY <1>1, <1>3, <1>6 DEF NoShare
<1>7. CASE k \in {n + 1, n + 2} /\ l \in {n + 1, n + 2}
  BY <1>1, <1>7 DEF NoShare
<1> QED
  BY <1>2, <1>4, <1>5, <1>6, <1>7

(* The children of an item: their boxes. *)
LEMMA ChildBoxes ==
    ASSUME InputsFit, NEW item \in Items, NEW root
    PROVE  \E x \in Items, y \in Items :
              /\ Updates!Children(item, root) = <<x, y>>
              /\ x.box = Updates!LowerHalf(item.box, root)
              /\ y.box = Updates!UpperHalf(item.box, root)
<1>1. item.box \in BoxType /\ item.depth + 1 \in Nat /\ item.samples \in SUBSET Points
  BY DEF Items
<1> DEFINE low == Updates!LowerHalf(item.box, root)
           high == Updates!UpperHalf(item.box, root)
<1>2. PICK below \in SUBSET item.samples :
         Updates!Children(item, root)
           = <<Updates!Item(low, item.depth + 1, below),
               Updates!Item(high, item.depth + 1, item.samples \ below)>>
  BY DEF Updates!Children
<1>3. low \in BoxType /\ high \in BoxType
  BY <1>1, HalvesFill
<1> HIDE DEF low, high
<1>4. /\ Updates!Item(low, item.depth + 1, below) \in Items
      /\ Updates!Item(high, item.depth + 1, item.samples \ below) \in Items
      /\ Updates!Item(low, item.depth + 1, below).box = low
      /\ Updates!Item(high, item.depth + 1, item.samples \ below).box = high
  BY <1>1, <1>3, ItemOf
<1> QED
  BY <1>2, <1>4 DEF low, high

LEMMA HistoryInit ==
    ASSUME InputsFit, Updates!Init
    PROVE  HistoryInv
<1>1. PICK scene \in Updates!Scenes, padding \in Paddings, samples \in SampleSets :
         task = [kind |-> "build", scene |-> scene, padding |-> padding,
                 work |-> <<Updates!Item(Root, 0, samples)>>, regions |-> {}, domains |-> {}]
  BY DEF Updates!Init
<1>2. /\ task.kind = "build" /\ task.regions = {} /\ task.domains = {}
      /\ Len(task.work) = 1 /\ 1..1 = {1}
  BY <1>1
<1>3. BuildApart(task)
  BY <1>2 DEF BuildApart, NoShare, WorkApart, Padded, Blocked, Updates!BoxesOf
<1> QED
  BY <1>2, <1>3 DEF HistoryInv, Updates!Init

(* While a build goes on, what was built before stays as it is. *)
LEMMA BuildHistory ==
    ASSUME HistoryInv, UNCHANGED <<atlas, first, steady>>, task'.kind = "build", BuildApart(task')
    PROVE  HistoryInv'
<1>1. Descends => Descends'
  BY DEF Descends, FirstBoxes, PartsOf, Blocked, NoShare, Padded, Stand, Updates!BoxesOf,
         Updates!CertifiedFree, Updates!ContainsBox, Updates!Cells, AtlasType, Updates!Scenes
<1>2. BuildApart(task)'
  BY DEF BuildApart, Blocked, NoShare, Padded, WorkApart, WorkBoxes, Updates!BoxesOf,
         Updates!CertifiedFree, Updates!ContainsBox, Updates!Cells
<1> QED
  BY <1>1, <1>2 DEF HistoryInv, Updates!NoAtlas

LEMMA HistoryBuildVisit ==
    ASSUME Premises, AtlasInv, HistoryInv, Updates!BuildVisit
    PROVE  HistoryInv'
<1> DEFINE item == Head(task.work)
           rest == Tail(task.work)
           R == Updates!BoxesOf(task.regions)
           D == task.domains
<1>1. /\ task \in BuildType /\ task.kind = "build" /\ task.work # <<>> /\ task.work \in Seq(Items)
      /\ task.padding \in Paddings /\ UNCHANGED <<atlas, first, steady>>
  BY TaskKinds DEF AtlasInv, Updates!BuildVisit, Updates!Working, BuildType
<1>2. /\ NoShare(R, D) /\ NoShare(R \cup D, WorkBoxes(task.work)) /\ WorkApart(task.work)
      /\ Padded(task.regions, task.padding) /\ Blocked(D, task.scene, task.padding)
  BY <1>1 DEF HistoryInv, BuildApart
<1>3. item \in Items /\ item.box \in BoxType /\ rest \in Seq(Items)
      /\ WorkBoxes(task.work) = {item.box} \cup WorkBoxes(rest)
  BY <1>1, WorkOf DEF Items
<1>4. WorkApart(rest) /\ NoShare({item.box}, WorkBoxes(rest))
  BY <1>1, <1>2, WorkApartOf
<1> SUFFICES task'.kind = "build" /\ BuildApart(task')
  BY <1>1, BuildHistory
<1>5. CASE task' = [task EXCEPT !.work = Tail(@),
                       !.regions = @ \cup {Updates!Region(Updates!Item1.box, task.padding)}]
  <2> DEFINE new == Updates!Region(item.box, task.padding)
  <2>1. new.box = item.box /\ new.padding = task.padding
    BY <1>1, <1>3, RegionOf DEF Premises
  <2>2. task' = [task EXCEPT !.work = rest, !.regions = task.regions \cup {new}]
    BY <1>5 DEF Updates!Item1
  <2> HIDE DEF new
  <2>3. /\ task'.kind = "build" /\ task'.scene = task.scene /\ task'.domains = D
        /\ task'.padding = task.padding
        /\ task'.regions = task.regions \cup {new} /\ task'.work = rest
    BY <1>1, <2>2 DEF BuildType
  <2>4. Updates!BoxesOf(task.regions \cup {new}) = R \cup {item.box}
    BY <2>1 DEF Updates!BoxesOf
  <2>5. Padded(task.regions \cup {new}, task.padding)
    BY <1>2, <2>1 DEF Padded
  <2> HIDE DEF R, D
  <2>6. NoShare(R \cup {item.box}, D) /\ NoShare(R \cup {item.box} \cup D, WorkBoxes(rest))
    BY <1>2, <1>3, <1>4 DEF NoShare
  <2> QED
    BY <1>2, <1>4, <2>3, <2>4, <2>5, <2>6 DEF BuildApart, D
<1>6. CASE /\ ~Updates!Free1
           /\ task' = [task EXCEPT !.work = Tail(@), !.domains = @ \cup {Updates!Item1.box}]
  <2>1. ~Updates!CertifiedFree(item.box, task.scene, task.padding)
    BY <1>6 DEF Updates!Free1, Updates!Item1
  <2>2. /\ task'.kind = "build" /\ task'.scene = task.scene /\ task'.regions = task.regions
        /\ task'.padding = task.padding
        /\ task'.domains = task.domains \cup {item.box} /\ task'.work = rest
    BY <1>1, <1>3, <1>6 DEF BuildType, Updates!Item1
  <2>3. Blocked(task.domains \cup {item.box}, task.scene, task.padding)
    BY <1>2, <2>1 DEF Blocked
  <2> HIDE DEF R
  <2>4. NoShare(R, D \cup {item.box}) /\ NoShare(R \cup (D \cup {item.box}), WorkBoxes(rest))
    BY <1>2, <1>3, <1>4 DEF NoShare
  <2> QED
    BY <1>2, <1>4, <2>2, <2>3, <2>4 DEF BuildApart, R
<1>7. CASE task' = [task EXCEPT !.work = Tail(@) \o Updates!Children(Updates!Item1, Root)]
  <2>1. PICK x \in Items, y \in Items :
           /\ Updates!Children(item, Root) = <<x, y>>
           /\ x.box = Updates!LowerHalf(item.box, Root)
           /\ y.box = Updates!UpperHalf(item.box, Root)
    BY <1>3, ChildBoxes DEF Premises
  <2>2. /\ task'.kind = "build" /\ task'.scene = task.scene /\ task'.regions = task.regions
        /\ task'.padding = task.padding
        /\ task'.domains = task.domains /\ task'.work = rest \o <<x, y>>
    BY <1>1, <1>7, <2>1 DEF BuildType, Updates!Item1
  <2>3. /\ Updates!ContainsBox(item.box, x.box) /\ Updates!ContainsBox(item.box, y.box)
        /\ NoShare({x.box}, {y.box})
    BY <1>3, <2>1, HalvesAreParts, SplitsAnAxis DEF NoShare, Premises
  <2>4. /\ x.box \in BoxType /\ y.box \in BoxType
        /\ \A c \in Updates!Cells : c \in BoxType
    BY CellShape DEF Items, Premises
  <2>5. \A c \in Updates!Cells :
           Updates!ContainsBox(x.box, c) \/ Updates!ContainsBox(y.box, c)
              => Updates!ContainsBox(item.box, c)
    BY <1>3, <2>3, <2>4, ContainsThrough
  <2>6. NoShare({x.box, y.box}, WorkBoxes(rest))
    BY <1>4, <2>5 DEF NoShare
  <2>7. WorkApart(rest \o <<x, y>>) /\ WorkBoxes(rest \o <<x, y>>) = WorkBoxes(rest) \cup {x.box, y.box}
    BY <1>3, <1>4, <2>3, <2>6, WorkApartWith, WorkWith
  <2> HIDE DEF R, D
  <2>8. NoShare(R \cup D, WorkBoxes(rest) \cup {x.box, y.box})
    BY <1>2, <1>3, <2>5 DEF NoShare
  <2> QED
    BY <1>2, <2>2, <2>7, <2>8 DEF BuildApart, R, D
<1> QED
  BY <1>5, <1>6, <1>7 DEF Updates!BuildVisit

LEMMA HistoryMerge ==
    ASSUME Premises, AtlasInv, HistoryInv, task.kind = "build",
           NEW r \in task.regions, NEW s \in task.regions, Updates!Merge(r, s)
    PROVE  HistoryInv'
<1>1. /\ task \in BuildType /\ task.work = <<>> /\ task.padding \in Paddings
      /\ task.regions \in SUBSET Regions /\ UNCHANGED <<atlas, first, steady>>
  BY TaskKinds DEF AtlasInv, BuildType, Updates!Merge, Updates!Worked
<1> DEFINE hull == Updates!Hull(r.box, s.box)
           new == Updates!Region(hull, task.padding)
<1>2. r.box \in BoxType /\ s.box \in BoxType
  BY <1>1 DEF Regions
<1>3. hull \in BoxType
  BY <1>2, HullHolds
<1>4. \A c \in Updates!Cells : Updates!ContainsBox(hull, c) =>
         Updates!ContainsBox(r.box, c) \/ Updates!ContainsBox(s.box, c)
  BY <1>2, HullIsUnion DEF Updates!Merge, Updates!Mergeable, Premises
<1>5. task' = [task EXCEPT !.regions = (task.regions \ {r, s}) \cup {new}]
  BY DEF Updates!Merge
<1> HIDE DEF hull
<1>6. new.box = hull /\ new.padding = task.padding
  BY <1>1, <1>3, RegionOf DEF Premises
<1> HIDE DEF new
<1>7. /\ task'.kind = "build" /\ task'.scene = task.scene /\ task'.domains = task.domains
      /\ task'.padding = task.padding
      /\ task'.regions = (task.regions \ {r, s}) \cup {new} /\ task'.work = task.work
  BY <1>1, <1>5 DEF BuildType
<1>8. /\ NoShare(Updates!BoxesOf(task.regions), task.domains) /\ WorkApart(task.work)
      /\ Padded(task.regions, task.padding) /\ Blocked(task.domains, task.scene, task.padding)
      /\ WorkBoxes(task.work) = {}
  BY <1>1 DEF HistoryInv, BuildApart, WorkBoxes
<1>9. NoShare(Updates!BoxesOf(task'.regions), task.domains)
  <2>1. r.box \in Updates!BoxesOf(task.regions) /\ s.box \in Updates!BoxesOf(task.regions)
    BY DEF Updates!BoxesOf
  <2>2. Updates!BoxesOf(task'.regions) \subseteq Updates!BoxesOf(task.regions) \cup {hull}
    BY <1>6, <1>7 DEF Updates!BoxesOf
  <2> QED
    BY <1>4, <1>8, <2>1, <2>2 DEF NoShare
<1>10. Padded(task'.regions, task.padding)
  BY <1>6, <1>7, <1>8 DEF Padded
<1>11. BuildApart(task')
  BY <1>7, <1>8, <1>9, <1>10 DEF BuildApart, NoShare
<1> QED
  BY <1>1, <1>7, <1>11, BuildHistory

LEMMA HistoryFinishBuild ==
    ASSUME Premises, AtlasInv, HistoryInv, Updates!FinishBuild
    PROVE  HistoryInv'
<1>1. /\ task \in BuildType /\ task.kind = "build" /\ task.work = <<>>
      /\ task.regions \in SUBSET Regions /\ task.domains \in SUBSET BoxType
      /\ Stand(task.regions, task.scene) /\ BuildApart(task) /\ steady' = steady
  BY TaskKinds DEF AtlasInv, HistoryInv, BuildType, Updates!FinishBuild, Updates!Worked
<1> PICK new : new = [scene |-> task.scene, regions |-> task.regions, domains |-> task.domains,
                      padding |-> task.padding, version |-> 1]
  OBVIOUS
<1>2. atlas' = new /\ first' = new /\ task' = Updates!Idle
  BY DEF Updates!FinishBuild
<1>3. /\ new \in AtlasType /\ new.scene = task.scene /\ new.regions = task.regions
      /\ new.domains = task.domains /\ new.padding = task.padding
  BY <1>1 DEF AtlasType, BuildType
<1> DEFINE boxes == Updates!BoxesOf(task.regions) \cup task.domains
<1>4. PartsOf(boxes, boxes)
  <2>1. boxes \subseteq BoxType
    BY <1>1 DEF Updates!BoxesOf, Regions
  <2>2. \A b \in BoxType : Updates!ContainsBox(b, b)
    BY DEF BoxType, Updates!ContainsBox, Axes, Updates!Axes
  <2> QED
    BY <2>1, <2>2 DEF PartsOf
<1> HIDE DEF boxes
<1>5. /\ NoShare(Updates!BoxesOf(task.regions), task.domains)
      /\ Padded(task.regions, task.padding) /\ Blocked(task.domains, task.scene, task.padding)
  BY <1>1 DEF BuildApart
<1>6. Descends'
  BY <1>1, <1>2, <1>3, <1>4, <1>5, ZenonT(30)
     DEF Descends, FirstBoxes, PartsOf, Blocked, NoShare, Padded, Stand, Updates!BoxesOf,
         Updates!CertifiedFree, Updates!ContainsBox, Updates!Cells, AtlasType, Updates!Scenes, boxes
<1>7. task'.kind = "idle"
  BY <1>2 DEF Updates!Idle
<1> QED
  BY <1>1, <1>6, <1>7 DEF HistoryInv

(* While an update goes on, the Atlas stays as it is. *)
LEMMA UpdateHistory ==
    ASSUME HistoryInv, UNCHANGED <<atlas, first, steady>>, task'.kind = "update",
           UpdateDescends(task')
    PROVE  HistoryInv'
<1>1. Descends => Descends'
  BY DEF Descends, FirstBoxes, PartsOf, Blocked, NoShare, Padded, Stand, Updates!BoxesOf,
         Updates!CertifiedFree, Updates!ContainsBox, Updates!Cells, AtlasType, Updates!Scenes
<1>2. UpdateDescends(task)'
  BY DEF UpdateDescends, FirstBoxes, PartsOf, Blocked, WorkBoxes, Begun, Updates!BoxesOf,
         Updates!CertifiedFree, Updates!ContainsBox, Updates!Nowhere
<1> QED
  BY <1>1, <1>2 DEF HistoryInv, Updates!NoAtlas

(* Where no obstacle went, what was in the way is in the way. *)
LEMMA BlockedStays ==
    ASSUME NEW boxes, NEW old \in Updates!Scenes, NEW new \in Updates!Scenes, NEW padding,
           Blocked(boxes, old, padding), ~Updates!MayRecoverSpace(old, new)
    PROVE  Blocked(boxes, new, padding)
<1>1. Updates!Present(old) \subseteq Updates!Present(new)
  BY DEF Updates!Present, Updates!MayRecoverSpace, Updates!Changed
<1> QED
  BY <1>1 DEF Blocked, Updates!CertifiedFree

LEMMA HistoryStartUpdate ==
    ASSUME Premises, AtlasInv, HistoryInv,
           NEW scene \in Updates!Scenes, NEW padding \in Paddings, NEW repair \in BOOLEAN,
           NEW samples \in SampleSets, Updates!StartUpdate(scene, padding, repair, samples)
    PROVE  HistoryInv'
<1> DEFINE inherited == {r \in atlas.regions : Updates!Inherits(r, atlas.scene, scene, padding)}
           free == {r \in atlas.regions : Updates!CertifiedFree(r.box, scene, padding)}
           renewed == {Updates!Region(r.box, padding) : r \in free \ inherited}
           invalidated == Updates!BoxesOf(atlas.regions \ (inherited \cup free))
           again == IF Updates!MayRecoverSpace(atlas.scene, scene) THEN atlas.domains ELSE {}
           todo == again \cup invalidated
           regions == inherited \cup renewed
           domains == (atlas.domains \ again) \cup (IF repair THEN {} ELSE todo)
           left == IF repair THEN todo ELSE {}
           old == Updates!BoxesOf(atlas.regions) \cup atlas.domains
<1>1. /\ atlas \in AtlasType /\ atlas # Updates!NoAtlas /\ Descends
      /\ UNCHANGED <<atlas, first, steady>>
  BY DEF AtlasInv, AtlasTypes, HistoryInv, Updates!StartUpdate
<1>2. atlas.scene \in Updates!Scenes
  BY <1>1 DEF AtlasType
<1>3. task' = [kind |-> "update", scene |-> scene, padding |-> padding, repair |-> repair,
               samples |-> samples, regions |-> regions, domains |-> domains, todo |-> left,
               root |-> Updates!Nowhere, unresolved |-> FALSE, work |-> <<>>]
  BY DEF Updates!StartUpdate
<1>4. Updates!BoxesOf(regions) \subseteq old
  <2>1. \A x \in renewed : \E r \in atlas.regions : x.box = r.box
    BY DEF Updates!Region
  <2> HIDE DEF renewed
  <2>2. \A x \in regions : \E r \in atlas.regions : x.box = r.box
    BY <2>1
  <2> HIDE DEF regions
  <2> QED
    BY <2>2 DEF Updates!BoxesOf
<1>5. domains \subseteq old /\ left \subseteq old
  <2>1. invalidated \subseteq old /\ again \subseteq old
    BY DEF Updates!BoxesOf
  <2> HIDE DEF invalidated, again, old
  <2>2. atlas.domains \subseteq old
    BY DEF old
  <2> QED
    BY <2>1, <2>2
<1>6. (steady /\ repair /\ padding = atlas.padding) => Blocked(domains, scene, padding)
  <2> SUFFICES ASSUME steady, repair, padding = atlas.padding
               PROVE  Blocked(domains, scene, padding)
    OBVIOUS
  <2>1. CASE Updates!MayRecoverSpace(atlas.scene, scene)
    <3>1. domains = {}
      BY <2>1
    <3> QED
      BY <3>1 DEF Blocked
  <2>2. CASE ~Updates!MayRecoverSpace(atlas.scene, scene)
    <3>1. domains = atlas.domains
      BY <2>2
    <3>2. Blocked(atlas.domains, atlas.scene, padding)
      BY <1>1 DEF Descends
    <3> QED
      BY <1>2, <2>2, <3>1, <3>2, BlockedStays
  <2> QED
    BY <2>1, <2>2
<1>7. PartsOf(old, FirstBoxes)
  BY <1>1 DEF Descends
<1> HIDE DEF regions, domains, left, old
<1>8. PartsOf(Updates!BoxesOf(regions) \cup domains \cup left, FirstBoxes)
  BY <1>4, <1>5, <1>7 DEF PartsOf
<1>9. /\ task'.kind = "update" /\ task'.regions = regions /\ task'.domains = domains
      /\ task'.todo = left /\ task'.scene = scene /\ task'.padding = padding
      /\ task'.repair = repair /\ task'.root = Updates!Nowhere /\ task'.work = <<>>
      /\ Begun(task') = {}
  BY <1>3 DEF Begun
<1>10. UpdateDescends(task')
  BY <1>6, <1>8, <1>9 DEF UpdateDescends
<1> QED
  BY <1>1, <1>9, <1>10, UpdateHistory

LEMMA HistoryStartDomain ==
    ASSUME Premises, AtlasInv, HistoryInv, Updates!StartDomain
    PROVE  HistoryInv'
<1>1. /\ task \in UpdateType /\ task.kind = "update" /\ task.root = Updates!Nowhere
      /\ task.todo # {} /\ UpdateDescends(task) /\ UNCHANGED <<atlas, first, steady>>
  BY TaskKinds DEF AtlasInv, HistoryInv, Updates!StartDomain, Updates!Worked
<1>2. PICK d \in task.todo :
         task' = [task EXCEPT !.todo = @ \ {d}, !.root = d, !.unresolved = FALSE,
                     !.work = <<Updates!Item(d, 0, {Updates!Middle(d)} \cup
                                             {s \in task.samples : Updates!InBox(s, d)})>>]
  BY <1>1 DEF Updates!StartDomain
<1>3. d \in BoxType
  BY <1>1 DEF UpdateType
<1> PICK item : item = Updates!Item(d, 0, {Updates!Middle(d)} \cup
                                          {s \in task.samples : Updates!InBox(s, d)})
  OBVIOUS
<1>4. item.box = d
  BY DEF Updates!Item
<1>5. /\ task'.kind = "update" /\ task'.regions = task.regions /\ task'.domains = task.domains
      /\ task'.todo = task.todo \ {d} /\ task'.scene = task.scene /\ task'.root = d
      /\ task'.padding = task.padding /\ task'.repair = task.repair
      /\ task'.unresolved = FALSE /\ task'.work = <<item>>
  BY <1>1, <1>2 DEF UpdateType
<1>6. Len(<<item>>) = 1 /\ <<item>>[1] = item /\ 1..1 = {1}
  OBVIOUS
<1>7. WorkBoxes(task'.work) = {d}
  BY <1>4, <1>5, <1>6 DEF WorkBoxes
<1>8. Updates!ContainsBox(d, d)
  BY <1>3 DEF BoxType, Updates!ContainsBox, Axes, Updates!Axes
<1>9. d # Updates!Nowhere /\ Begun(task') = {d}
  BY <1>3, <1>5, BoxFacts DEF Begun, Premises
<1>10. PartsOf(Updates!BoxesOf(task.regions) \cup task.domains \cup (task.todo \ {d}) \cup {d},
               FirstBoxes)
  BY <1>1, <1>2 DEF UpdateDescends, PartsOf
<1>11. PartsOf({d}, {d})
  BY <1>8 DEF PartsOf
<1>12. UpdateDescends(task')
  BY <1>1, <1>5, <1>7, <1>9, <1>10, <1>11 DEF UpdateDescends
<1> QED
  BY <1>1, <1>5, <1>12, UpdateHistory

LEMMA HistoryRepairVisit ==
    ASSUME Premises, AtlasInv, HistoryInv, Updates!RepairVisit
    PROVE  HistoryInv'
<1> DEFINE item == Head(task.work)
           rest == Tail(task.work)
<1>1. /\ task \in UpdateType /\ task.kind = "update" /\ task.work # <<>> /\ task.work \in Seq(Items)
      /\ task.padding \in Paddings /\ task.scene \in Updates!Scenes /\ task.regions \in SUBSET Regions
      /\ atlas # Updates!NoAtlas /\ UpdateDescends(task) /\ UNCHANGED <<atlas, first, steady>>
  BY TaskKinds DEF AtlasInv, HistoryInv, Updates!RepairVisit, Updates!Working, UpdateType
<1>2. item \in Items /\ item.box \in BoxType /\ rest \in Seq(Items)
      /\ WorkBoxes(task.work) = {item.box} \cup WorkBoxes(rest)
  BY <1>1, WorkOf DEF Items
<1>3. task.root # Updates!Nowhere /\ task.root \in BoxType
  BY <1>1 DEF UpdateDescends, UpdateType
<1>4. PartsOf({item.box}, {task.root}) /\ PartsOf(WorkBoxes(rest), {task.root})
  BY <1>1, <1>2, <1>3 DEF UpdateDescends, PartsOf
<1>5. Updates!ContainsBox(task.root, item.box)
  BY <1>4 DEF PartsOf
<1> DEFINE parts == Updates!BoxesOf(task.regions) \cup task.domains \cup task.todo \cup Begun(task)
<1>6. PartsOf(parts, FirstBoxes) /\ task.root \in parts /\ FirstBoxes \subseteq BoxType
  <2>1. first \in AtlasType
    BY <1>1 DEF HistoryInv, Descends
  <2> QED
    BY <1>1, <1>3, <2>1 DEF UpdateDescends, Begun, FirstBoxes, AtlasType, Regions, Updates!BoxesOf
<1>7. PartsOf(parts \cup {item.box}, FirstBoxes)
  <2> HIDE DEF parts
  <2>1. PICK f \in FirstBoxes : Updates!ContainsBox(f, task.root)
    BY <1>6 DEF PartsOf
  <2>2. Updates!ContainsBox(f, item.box)
    BY <1>2, <1>3, <1>5, <1>6, <2>1, ContainsThrough
  <2> QED
    BY <1>6, <2>2 DEF PartsOf
<1>8. (steady /\ task.repair /\ task.padding = atlas.padding) =>
         /\ Blocked(task.domains, task.scene, task.padding)
         /\ task.unresolved => Blocked({task.root}, task.scene, task.padding)
  BY <1>1, <1>3 DEF UpdateDescends
<1>9. CASE /\ Updates!Free1
           /\ task' = [task EXCEPT !.work = Tail(@),
                          !.regions = Updates!WithRepaired(@, Updates!Item1.box, task.padding)]
  <2> DEFINE more == Updates!WithRepaired(task.regions, item.box, task.padding)
  <2>1. Updates!BoxesOf(more) \subseteq Updates!BoxesOf(task.regions) \cup {item.box}
    BY DEF Updates!WithRepaired, Updates!BoxesOf, Updates!Region
  <2>2. task' = [task EXCEPT !.work = rest, !.regions = more]
    BY <1>9 DEF Updates!Item1
  <2> HIDE DEF more
  <2>3. /\ task'.kind = "update" /\ task'.scene = task.scene /\ task'.domains = task.domains
        /\ task'.regions = more /\ task'.work = rest /\ task'.root = task.root
        /\ task'.padding = task.padding /\ task'.repair = task.repair
        /\ task'.todo = task.todo /\ task'.unresolved = task.unresolved
        /\ Begun(task') = Begun(task)
    BY <1>1, <2>2 DEF UpdateType, Begun
  <2>4. PartsOf(Updates!BoxesOf(more) \cup task.domains \cup task.todo \cup Begun(task), FirstBoxes)
    BY <1>7, <2>1 DEF PartsOf
  <2>5. UpdateDescends(task')
    BY <1>3, <1>4, <1>8, <2>3, <2>4 DEF UpdateDescends
  <2> QED
    BY <1>1, <2>3, <2>5, UpdateHistory
<1>10. CASE /\ ~Updates!Free1
            /\ task' = [task EXCEPT !.work = Tail(@), !.unresolved = TRUE]
  <2>1. ~Updates!CertifiedFree(item.box, task.scene, task.padding)
    BY <1>10 DEF Updates!Free1, Updates!Item1
  <2>2. Blocked({task.root}, task.scene, task.padding)
    <3>1. ~Updates!CertifiedFree(task.root, task.scene, task.padding)
      BY <1>1, <1>2, <1>3, <1>5, <2>1, PartsAreFree
    <3> QED
      BY <3>1 DEF Blocked
  <2>3. /\ task'.kind = "update" /\ task'.scene = task.scene /\ task'.domains = task.domains
        /\ task'.regions = task.regions /\ task'.work = rest /\ task'.root = task.root
        /\ task'.padding = task.padding /\ task'.repair = task.repair
        /\ task'.todo = task.todo /\ Begun(task') = Begun(task)
    BY <1>1, <1>10 DEF UpdateType, Begun
  <2>4. UpdateDescends(task')
    BY <1>3, <1>4, <1>6, <1>8, <2>2, <2>3 DEF UpdateDescends
  <2> QED
    BY <1>1, <2>3, <2>4, UpdateHistory
<1>11. CASE task' = [task EXCEPT !.work = Tail(@) \o Updates!Children(Updates!Item1, task.root)]
  <2>1. PICK x \in Items, y \in Items :
           /\ Updates!Children(item, task.root) = <<x, y>>
           /\ x.box = Updates!LowerHalf(item.box, task.root)
           /\ y.box = Updates!UpperHalf(item.box, task.root)
    BY <1>2, ChildBoxes DEF Premises
  <2>2. /\ Updates!ContainsBox(item.box, x.box) /\ Updates!ContainsBox(item.box, y.box)
        /\ x.box \in BoxType /\ y.box \in BoxType
    BY <1>2, <2>1, HalvesAreParts DEF Premises, Items
  <2>3. Updates!ContainsBox(task.root, x.box) /\ Updates!ContainsBox(task.root, y.box)
    BY <1>2, <1>3, <1>5, <2>2, ContainsThrough
  <2>4. WorkBoxes(rest \o <<x, y>>) = WorkBoxes(rest) \cup {x.box, y.box}
    <3> HIDE DEF item, rest, parts
    <3> QED
      BY <1>2, WorkWith
  <2>5. PartsOf(WorkBoxes(rest \o <<x, y>>), {task.root})
    BY <1>4, <2>3, <2>4 DEF PartsOf
  <2>6. /\ task'.kind = "update" /\ task'.scene = task.scene /\ task'.domains = task.domains
        /\ task'.regions = task.regions /\ task'.work = rest \o <<x, y>> /\ task'.root = task.root
        /\ task'.padding = task.padding /\ task'.repair = task.repair
        /\ task'.todo = task.todo /\ task'.unresolved = task.unresolved
        /\ Begun(task') = Begun(task)
    BY <1>1, <1>11, <2>1 DEF UpdateType, Begun, Updates!Item1
  <2>7. UpdateDescends(task')
    BY <1>3, <1>6, <1>8, <2>5, <2>6 DEF UpdateDescends
  <2> QED
    BY <1>1, <2>6, <2>7, UpdateHistory
<1> QED
  BY <1>9, <1>10, <1>11 DEF Updates!RepairVisit

LEMMA HistoryEndDomain ==
    ASSUME AtlasInv, HistoryInv, Updates!EndDomain
    PROVE  HistoryInv'
<1>1. /\ task \in UpdateType /\ task.kind = "update" /\ task.work = <<>>
      /\ task.root # Updates!Nowhere /\ UpdateDescends(task) /\ UNCHANGED <<atlas, first, steady>>
  BY TaskKinds DEF AtlasInv, HistoryInv, Updates!EndDomain, Updates!Worked
<1> DEFINE domains == IF task.unresolved THEN task.domains \cup {task.root} ELSE task.domains
<1>2. Begun(task) = {task.root}
  BY <1>1 DEF Begun
<1>3. domains \subseteq task.domains \cup {task.root}
  OBVIOUS
<1>4. PartsOf(Updates!BoxesOf(task.regions) \cup domains \cup task.todo, FirstBoxes)
  BY <1>1, <1>2, <1>3 DEF UpdateDescends, PartsOf
<1>5. (steady /\ task.repair /\ task.padding = atlas.padding) =>
         Blocked(domains, task.scene, task.padding)
  BY <1>1 DEF UpdateDescends, Blocked
<1>6. task' = [task EXCEPT !.root = Updates!Nowhere, !.domains = domains]
  BY DEF Updates!EndDomain
<1> HIDE DEF domains
<1>7. /\ task'.kind = "update" /\ task'.scene = task.scene /\ task'.domains = domains
      /\ task'.regions = task.regions /\ task'.work = task.work /\ task'.root = Updates!Nowhere
      /\ task'.padding = task.padding /\ task'.repair = task.repair /\ task'.todo = task.todo
      /\ Begun(task') = {}
  BY <1>1, <1>6 DEF UpdateType, Begun
<1>8. UpdateDescends(task')
  BY <1>1, <1>4, <1>5, <1>7 DEF UpdateDescends
<1> QED
  BY <1>1, <1>7, <1>8, UpdateHistory

LEMMA HistoryFinishUpdate ==
    ASSUME Premises, AtlasInv, HistoryInv, Updates!FinishUpdate
    PROVE  HistoryInv'
<1>1. /\ task \in UpdateType /\ task.root = Updates!Nowhere /\ task.todo = {}
      /\ atlas # Updates!NoAtlas /\ Descends /\ UpdateDescends(task) /\ first' = first
      /\ task.repair \in BOOLEAN /\ steady \in BOOLEAN
  BY TaskKinds DEF AtlasInv, HistoryInv, UpdateType, Updates!FinishUpdate, Updates!Worked
<1> PICK new : new = [scene |-> task.scene, regions |-> task.regions, domains |-> task.domains,
                      padding |-> task.padding, version |-> atlas.version + 1]
  OBVIOUS
<1>2. /\ atlas' = new /\ task' = Updates!Idle
      /\ steady' = (steady /\ task.repair /\ task.padding = atlas.padding)
  BY DEF Updates!FinishUpdate
<1>3. /\ new.scene = task.scene /\ new.regions = task.regions
      /\ new.domains = task.domains /\ new.padding = task.padding
  OBVIOUS
<1>4. PartsOf(Updates!BoxesOf(new.regions) \cup new.domains, FirstBoxes)
  BY <1>1, <1>3 DEF UpdateDescends, PartsOf
<1>5. (steady /\ task.repair /\ task.padding = atlas.padding) =>
         new.padding = first.padding /\ Blocked(new.domains, new.scene, new.padding)
  BY <1>1, <1>3 DEF UpdateDescends, Descends
<1>6. PartsOf(Updates!BoxesOf(atlas.regions) \cup atlas.domains, FirstBoxes)'
  BY <1>1, <1>2, <1>4 DEF PartsOf, FirstBoxes, Updates!BoxesOf, Updates!ContainsBox
<1>7. (steady => atlas.padding = first.padding
                 /\ Blocked(atlas.domains, atlas.scene, atlas.padding))'
  BY <1>1, <1>2, <1>5 DEF Blocked, Updates!CertifiedFree
<1>8. /\ (first \in AtlasType)'
      /\ NoShare(Updates!BoxesOf(first.regions), first.domains)'
      /\ Stand(first.regions, first.scene)' /\ Padded(first.regions, first.padding)'
  BY <1>1 DEF Descends, NoShare, Stand, Padded, Updates!BoxesOf, Updates!CertifiedFree,
              Updates!ContainsBox, Updates!Cells, AtlasType, Updates!Scenes
<1>9. Descends'
  BY <1>6, <1>7, <1>8 DEF Descends
<1>10. steady' \in BOOLEAN /\ task'.kind = "idle"
  BY <1>2 DEF Updates!Idle
<1> QED
  BY <1>9, <1>10 DEF HistoryInv

LEMMA HistoryUnchanged ==
    ASSUME HistoryInv, UNCHANGED <<atlas, first, steady>>, task' = task \/ task' = Updates!Idle
    PROVE  HistoryInv'
<1>1. Descends => Descends'
  BY DEF Descends, FirstBoxes, PartsOf, Blocked, NoShare, Padded, Stand, Updates!BoxesOf,
         Updates!CertifiedFree, Updates!ContainsBox, Updates!Cells, AtlasType, Updates!Scenes
<1>2. CASE task' = task
  <2>1. BuildApart(task) => BuildApart(task)'
    <3>1. /\ Updates!BoxesOf(task.regions)' = Updates!BoxesOf(task.regions)
          /\ WorkBoxes(task.work)' = WorkBoxes(task.work)
          /\ WorkApart(task.work) => WorkApart(task.work)'
          /\ Padded(task.regions, task.padding) => Padded(task.regions, task.padding)'
      BY <1>2 DEF WorkApart, WorkBoxes, Padded, Updates!BoxesOf, Updates!ContainsBox, Updates!Cells
    <3>2. Blocked(task.domains, task.scene, task.padding) =>
             Blocked(task.domains, task.scene, task.padding)'
      BY <1>2 DEF Blocked, Updates!CertifiedFree
    <3>3. /\ NoShare(Updates!BoxesOf(task.regions), task.domains) =>
                NoShare(Updates!BoxesOf(task.regions), task.domains)'
          /\ NoShare(Updates!BoxesOf(task.regions) \cup task.domains, WorkBoxes(task.work)) =>
                NoShare(Updates!BoxesOf(task.regions) \cup task.domains, WorkBoxes(task.work))'
      BY <1>2, <3>1 DEF NoShare, Updates!ContainsBox, Updates!Cells
    <3> QED
      BY <3>1, <3>2, <3>3 DEF BuildApart
  <2>2. UpdateDescends(task) => UpdateDescends(task)'
    BY <1>2 DEF UpdateDescends, FirstBoxes, PartsOf, Blocked, WorkBoxes, Begun, Updates!BoxesOf,
                Updates!CertifiedFree, Updates!ContainsBox, Updates!Nowhere
  <2> QED
    BY <1>1, <1>2, <2>1, <2>2 DEF HistoryInv, Updates!NoAtlas
<1>3. CASE task' = Updates!Idle
  <2>1. task'.kind = "idle"
    BY <1>3 DEF Updates!Idle
  <2> QED
    BY <1>1, <2>1 DEF HistoryInv, Updates!NoAtlas
<1> QED
  BY <1>2, <1>3

LEMMA HistoryNext ==
    ASSUME Premises
    PROVE  AtlasInv /\ HistoryInv /\ [Updates!Next]_Updates!vars => HistoryInv'
<1> SUFFICES ASSUME AtlasInv, HistoryInv, [Updates!Next]_Updates!vars
             PROVE  HistoryInv'
  OBVIOUS
<1>1. CASE UNCHANGED Updates!vars
  BY <1>1, HistoryUnchanged DEF Updates!vars
<1>2. CASE Updates!Abandon
  BY <1>2, HistoryUnchanged DEF Updates!Abandon
<1> QED
  BY <1>1, <1>2, HistoryBuildVisit, HistoryMerge, HistoryFinishBuild, HistoryStartUpdate,
     HistoryStartDomain, HistoryRepairVisit, HistoryEndDomain, HistoryFinishUpdate DEF Updates!Next

(* What the Atlases have of the first one: every region and every domain is  *)
(* a part of one of its regions or domains, which share no space, and while  *)
(* updates repair under its padding, what waits in a domain is not free.     *)
THEOREM HistoryInvariance ==
    ASSUME Premises
    PROVE  Updates!Spec => [](AtlasInv /\ HistoryInv)
<1>1. Updates!Init => HistoryInv
  BY HistoryInit DEF Premises
<1>2. AtlasInv /\ HistoryInv /\ [Updates!Next]_Updates!vars => HistoryInv'
  BY HistoryNext
<1>3. Updates!Spec => []AtlasInv
  BY AtlasInvariance DEF Premises
<1> QED
  BY <1>1, <1>2, <1>3, PTL DEF Updates!Spec

(* update(): coverage comes back.  When every update has repaired under the  *)
(* padding of the first Atlas and its scene is back, whatever that Atlas     *)
(* covered is covered, whichever obstacles came and went between.            *)
THEOREM AtlasKeepsSpace ==
    ASSUME Premises
    PROVE  Updates!Spec => []Updates!SpaceIsKept
<1>1. AtlasInv /\ HistoryInv => Updates!SpaceIsKept
  <2> SUFFICES ASSUME AtlasInv, HistoryInv, atlas # Updates!NoAtlas
               PROVE  Updates!SpaceIsKept
    BY DEF Updates!SpaceIsKept, Updates!SpaceIsListed
  <2>1. /\ atlas \in AtlasType /\ Descends /\ first \in AtlasType
        /\ Fill(Updates!BoxesOf(atlas.regions) \cup atlas.domains)
    BY DEF AtlasInv, AtlasTypes, HistoryInv, Descends
  <2>2. Updates!SpaceIsListed
    BY <2>1 DEF Fill, Within, Updates!SpaceIsListed, Updates!CoveredBy
  <2>3. ASSUME steady, atlas.scene = first.scene, NEW c \in Updates!Cells,
               Within(c, Updates!BoxesOf(first.regions)),
               ~Within(c, Updates!BoxesOf(atlas.regions))
        PROVE  FALSE
    <3>1. PICK b \in atlas.domains : Updates!ContainsBox(b, c)
      BY <2>1, <2>3 DEF Fill, Within
    <3>2. PICK g \in FirstBoxes : Updates!ContainsBox(g, b)
      BY <2>1 DEF Descends, PartsOf
    <3>3. b \in BoxType /\ g \in BoxType /\ c \in BoxType
      BY <2>1, CellShape DEF AtlasType, Regions, FirstBoxes, Updates!BoxesOf, Premises
    <3>4. Updates!ContainsBox(g, c)
      BY <3>1, <3>2, <3>3, ContainsThrough
    <3>5. g \notin first.domains
      BY <2>1, <2>3, <3>4 DEF Descends, NoShare, Within
    <3>6. PICK r \in first.regions : r.box = g
      BY <3>5 DEF FirstBoxes, Updates!BoxesOf
    <3>7. /\ Updates!CertifiedFree(g, first.scene, first.padding)
          /\ first.padding \in Paddings /\ first.scene \in Updates!Scenes
      BY <2>1, <3>6 DEF Descends, Stand, Padded, AtlasType
    <3>8. Updates!CertifiedFree(b, first.scene, first.padding)
      BY <3>2, <3>3, <3>7, PartsAreFree
    <3>9. ~Updates!CertifiedFree(b, atlas.scene, atlas.padding) /\ atlas.padding = first.padding
      BY <2>1, <2>3 DEF Descends, Blocked
    <3> QED
      BY <2>3, <3>8, <3>9
  <2>4. (steady /\ atlas.scene = first.scene) =>
           \A c \in Updates!Cells : Within(c, Updates!BoxesOf(first.regions)) =>
               Within(c, Updates!BoxesOf(atlas.regions))
    BY <2>3
  <2> QED
    BY <2>2, <2>4 DEF Updates!SpaceIsKept, Updates!CoveredBy, Within
<1> QED
  BY <1>1, HistoryInvariance, PTL

=============================================================================
