------------------------- MODULE SafetyMemoryProofs --------------------------
(***************************************************************************)
(* Proofs about SafetyMemory for any catalogue of artifacts, any number of   *)
(* callers and any limits of the log; about the fleet schedules made of its  *)
(* artifacts (FleetSchedule), about the journal of the exchanges that are    *)
(* checked against it (ArtifactTransfer), and about an Atlas's files, which  *)
(* are replaced in the way the journal is (AtlasFiles).                      *)
(***************************************************************************)
EXTENDS SafetyMemory, FiniteSetTheorems, SequenceTheorems, TLAPS

-----------------------------------------------------------------------------
(* A finite set can be listed in any strict order of its elements: of ids,   *)
(* as invalidate_scene() goes through the catalogue, or of windows, as the   *)
(* analysis of a fleet goes through its reservations.                        *)
StrictOrder(S, T) ==
    \A a, b, c \in S :
       /\ <<a, a>> \notin T
       /\ a # b => <<a, b>> \in T \/ <<b, a>> \in T
       /\ <<a, b>> \in T /\ <<b, c>> \in T => <<a, c>> \in T

UpTo(S, T, a) == {b \in S : b = a \/ <<b, a>> \in T}

LEMMA RankIsPlace ==
    ASSUME NEW S, IsFiniteSet(S), NEW T, StrictOrder(S, T)
    PROVE  /\ \A a \in S : Cardinality(UpTo(S, T, a)) \in 1..Cardinality(S)
           /\ \A a, b \in S : <<a, b>> \in T =>
                 Cardinality(UpTo(S, T, a)) < Cardinality(UpTo(S, T, b))
<1>1. /\ Cardinality(S) \in Nat
      /\ \A a \in S : /\ IsFiniteSet(UpTo(S, T, a)) /\ Cardinality(UpTo(S, T, a)) \in Nat
                      /\ Cardinality(UpTo(S, T, a)) <= Cardinality(S)
  <2>1. \A a \in S : UpTo(S, T, a) \in SUBSET S
    BY DEF UpTo
  <2> QED
    BY <2>1, FS_Subset, FS_CardinalityType
<1>2. ASSUME NEW a \in S
      PROVE  Cardinality(UpTo(S, T, a)) # 0
  <2>1. a \in UpTo(S, T, a)
    BY DEF UpTo
  <2> QED
    BY <1>1, <2>1, FS_EmptySet
<1>3. ASSUME NEW a \in S, NEW b \in S, <<a, b>> \in T
      PROVE  Cardinality(UpTo(S, T, a)) < Cardinality(UpTo(S, T, b))
  <2>1. UpTo(S, T, a) \in SUBSET UpTo(S, T, b)
    BY <1>3 DEF UpTo, StrictOrder
  <2>2. b \in UpTo(S, T, b) /\ b \notin UpTo(S, T, a)
    BY <1>3 DEF UpTo, StrictOrder
  <2>3. Cardinality(UpTo(S, T, a)) <= Cardinality(UpTo(S, T, b))
    BY <1>1, <2>1, FS_Subset
  <2>4. Cardinality(UpTo(S, T, a)) # Cardinality(UpTo(S, T, b))
    BY <1>1, <2>1, <2>2, FS_Subset
  <2> QED
    BY <1>1, <2>3, <2>4
<1> QED
  BY <1>1, <1>2, <1>3

LEMMA OrderListsSet ==
    ASSUME NEW S, IsFiniteSet(S), NEW T, StrictOrder(S, T)
    PROVE  \E q \in [1..Cardinality(S) -> S] :
              \A i, j \in 1..Cardinality(S) : i < j => <<q[i], q[j]>> \in T
<1> DEFINE n == Cardinality(S)
           rank == [a \in S |-> Cardinality(UpTo(S, T, a))]
           place == [i \in 1..n |-> CHOOSE a \in S : rank[a] = i]
<1>1. n \in Nat
  BY FS_CardinalityType
<1>2. IsFiniteSet(1..n) /\ Cardinality(1..n) = n
  <2>1. /\ IsFiniteSet(1..n)
        /\ Cardinality(1..n) = IF 1 > n THEN 0 ELSE n - 1 + 1
    BY <1>1, FS_Interval
  <2> QED
    BY <1>1, <2>1
<1>3. \A a \in S : rank[a] \in 1..n
  BY RankIsPlace
<1>4. \A a, b \in S : <<a, b>> \in T => rank[a] < rank[b]
  BY RankIsPlace
<1>5. rank \in Surjection(S, 1..n)
  <2>1. rank \in [S -> 1..n]
    BY <1>3
  <2>2. \A a, b \in S : rank[a] = rank[b] => a = b
    <3> SUFFICES ASSUME NEW a \in S, NEW b \in S, rank[a] = rank[b], a # b PROVE FALSE
      OBVIOUS
    <3>1. <<a, b>> \in T \/ <<b, a>> \in T
      BY DEF StrictOrder
    <3>2. rank[a] \in Nat /\ rank[b] \in Nat
      BY <1>1, <1>3
    <3> HIDE DEF rank
    <3> QED
      BY <1>4, <3>1, <3>2
  <2>3. rank \in Injection(S, 1..n)
    BY <2>1, <2>2 DEF Injection, IsInjective
  <2> QED
    BY <1>2, <2>3, FS_Injection
<1>6. \A i \in 1..n : place[i] \in S /\ rank[place[i]] = i
  BY <1>5 DEF Surjection
<1>7. place \in [1..n -> S]
  BY <1>6
<1>8. ASSUME NEW i \in 1..n, NEW j \in 1..n, i < j
      PROVE  <<place[i], place[j]>> \in T
  <2>1. PICK a, b : a = place[i] /\ b = place[j]
    OBVIOUS
  <2>2. a \in S /\ b \in S /\ rank[a] = i /\ rank[b] = j
    BY <1>6, <2>1
  <2>3. a # b /\ <<b, a>> \notin T
    <3> HIDE DEF rank
    <3> QED
      BY <1>1, <1>4, <1>8, <2>2
  <2>4. <<a, b>> \in T
    BY <2>2, <2>3 DEF StrictOrder
  <2> QED
    BY <2>1, <2>4
<1> HIDE DEF place, rank, n
<1> QED
  BY <1>7, <1>8 DEF n

(* A list without repetitions that is as long as the set has all of it. *)
LEMMA ListIsOnto ==
    ASSUME NEW S, IsFiniteSet(S), NEW q \in [1..Cardinality(S) -> S],
           \A i, j \in 1..Cardinality(S) : i < j => q[i] # q[j]
    PROVE  \A a \in S : \E i \in 1..Cardinality(S) : q[i] = a
<1> DEFINE n == Cardinality(S)
<1>1. n \in Nat
  BY FS_CardinalityType
<1>2. IsFiniteSet(1..n) /\ Cardinality(1..n) = n
  <2>1. /\ IsFiniteSet(1..n)
        /\ Cardinality(1..n) = IF 1 > n THEN 0 ELSE n - 1 + 1
    BY <1>1, FS_Interval
  <2> QED
    BY <1>1, <2>1
<1>3. \A i, j \in 1..n : q[i] = q[j] => i = j
  <2> SUFFICES ASSUME NEW i \in 1..n, NEW j \in 1..n, q[i] = q[j], i # j PROVE FALSE
    OBVIOUS
  <2>1. i < j \/ j < i
    BY <1>1
  <2> QED
    BY <2>1
<1>4. q \in Injection(1..n, S)
  BY <1>3 DEF Injection, IsInjective
<1>5. q \in Surjection(1..n, S)
  BY <1>2, <1>4, FS_Injection
<1> QED
  BY <1>5 DEF Surjection

LEMMA InOrderIsOrder ==
    ASSUME NEW S \in SUBSET Nat, IsFiniteSet(S)
    PROVE  /\ Cardinality(S) \in Nat
           /\ InOrder(S) \in [1..Cardinality(S) -> S]
           /\ \A i, j \in 1..Cardinality(S) : i < j => InOrder(S)[i] < InOrder(S)[j]
           /\ \A a \in S : \E i \in 1..Cardinality(S) : InOrder(S)[i] = a
<1> DEFINE n == Cardinality(S)
           T == {p \in S \X S : p[1] < p[2]}
           Increasing(f) == \A i, j \in DOMAIN f : i < j => f[i] < f[j]
<1>1. n \in Nat
  BY FS_CardinalityType
<1>2. StrictOrder(S, T)
  BY DEF StrictOrder
<1>3. PICK q \in [1..n -> S] : \A i, j \in 1..n : i < j => <<q[i], q[j]>> \in T
  <2> HIDE DEF T
  <2> QED
    BY <1>2, OrderListsSet
<1>4. Increasing(q)
  BY <1>3
<1>5. InOrder(S) = CHOOSE f \in [1..n -> S] : Increasing(f)
  BY DEF InOrder
<1> HIDE DEF n, Increasing
<1>6. InOrder(S) \in [1..n -> S] /\ Increasing(InOrder(S))
  BY <1>3, <1>4, <1>5
<1>7. PICK f \in [1..n -> S] : f = InOrder(S)
  BY <1>6
<1>8. \A i, j \in 1..n : i < j => f[i] < f[j]
  BY <1>6, <1>7 DEF Increasing
<1>9. \A i, j \in 1..n : i < j => f[i] # f[j]
  <2> SUFFICES ASSUME NEW i \in 1..n, NEW j \in 1..n, i < j PROVE f[i] # f[j]
    OBVIOUS
  <2>1. f[i] \in Nat /\ f[i] < f[j]
    BY <1>8
  <2> QED
    BY <2>1
<1>10. \A a \in S : \E i \in 1..n : f[i] = a
  BY <1>9, ListIsOnto DEF n
<1> QED
  BY <1>1, <1>7, <1>8, <1>10 DEF n

-----------------------------------------------------------------------------
(* An event that ends the reuse of artifact a. *)
Ends(e, a) ==
    \/ e.type \in {"transition", "invalidated"} /\ e.artifact = a
    \/ /\ e.type = "invalidated" /\ SceneOf[e.artifact] = SceneOf[a]
       /\ DeploymentOf[e.artifact] = DeploymentOf[a]

(* An artifact is active as long as no event has ended its reuse. *)
ActiveAt(a) ==
    state[a] = "active" => \A j \in registered[a]..Len(events) : ~Ends(events[j], a)

ReuseAt(i) ==
    events[i].type = "reuse" =>
        /\ events[i].scene = SceneOf[events[i].artifact]
        /\ \A j \in registered[events[i].artifact]..(i - 1) :
              ~Ends(events[j], events[i].artifact)

(* What a caller has seen of an artifact is one state of it, and the state   *)
(* of now if the generation is that of now.                                  *)
SightsAgree ==
    \A c \in Callers : \A s \in seen[c] :
        /\ \A t \in seen[c] : s = t
        /\ s.artifact \in Catalogued
        /\ s.generation <= generation[s.artifact]
        /\ s.generation = generation[s.artifact] => s.state = state[s.artifact]

IInv ==
    /\ TypeOK
    /\ \A a \in Artifacts : Replays(a) /\ ActiveAt(a)
    /\ \A i \in 1..Len(events) : ReuseAt(i) /\ EventValid(events[i])
    /\ SightsAgree

(* What every call does to the log: it only adds to it. *)
LogGrows ==
    /\ events \in Seq(Events) /\ events' \in Seq(Events)
    /\ Len(events) <= Len(events')
    /\ \A i \in 1..Len(events) : events'[i] = events[i]

NewEvents == (Len(events) + 1)..Len(events')

LEMMA LogSplits ==
    ASSUME LogGrows
    PROVE  /\ Len(events) \in Nat /\ Len(events') \in Nat
           /\ \A i \in 1..Len(events') : i \in 1..Len(events) \/ i \in NewEvents
           /\ \A i \in 1..Len(events) : i \in 1..Len(events') /\ i \notin NewEvents
           /\ \A i \in NewEvents : i \in 1..Len(events') /\ i \in Nat /\ i > Len(events)
BY DEF LogGrows, NewEvents

(* A log whose new events are valid stays valid. *)
LEMMA EventsStayValid ==
    ASSUME LogGrows, \A i \in 1..Len(events) : EventValid(events[i]),
           \A k \in NewEvents : EventValid(events'[k])
    PROVE  \A i \in 1..Len(events') : EventValid(events'[i])
BY LogSplits DEF LogGrows

(* An artifact that a call leaves alone. *)
LEMMA UntouchedStaysValid ==
    ASSUME LogGrows, NEW a \in Artifacts, Replays(a),
           state'[a] = state[a], generation'[a] = generation[a],
           registered'[a] = registered[a],
           \A k \in NewEvents : events'[k].artifact # a
    PROVE  Replays(a)'
<1>1. About(a)' = About(a) /\ \A i \in About(a) : i \in 1..Len(events) /\ events'[i] = events[i]
  BY LogSplits DEF About, LogGrows
<1>2. Changes(a)' = Changes(a)
  BY <1>1 DEF Changes
<1>3. (a \in Catalogued)' <=> a \in Catalogued
  BY DEF Catalogued
<1>4. CASE a \notin Catalogued
  BY <1>1, <1>3, <1>4 DEF Replays
<1>5. CASE a \in Catalogued
  BY <1>1, <1>2, <1>3, <1>5, ZenonT(30) DEF Replays
<1> QED
  BY <1>4, <1>5

(* An artifact that gets one event, which continues from its state and shows *)
(* the state that it gets.                                                   *)
LEMMA OneEventMore ==
    ASSUME LogGrows, NEW a \in Catalogued, Replays(a), state'[a] # "absent",
           registered'[a] = registered[a], generation[a] \in Nat,
           NEW k \in NewEvents, events'[k].artifact = a,
           \A m \in NewEvents : events'[m].artifact = a => m = k,
           events'[k].type # "registered",
           events'[k].previous = state[a], events'[k].current = state'[a],
           generation'[a] = generation[a] +
               IF events'[k].type \in {"transition", "invalidated"} THEN 1 ELSE 0
    PROVE  Replays(a)'
<1>1. /\ About(a)' = About(a) \cup {k}
      /\ \A i \in About(a) : i \in 1..Len(events) /\ events'[i] = events[i] /\ i < k
      /\ k \in Nat /\ k \notin About(a)
  BY LogSplits DEF About, LogGrows
<1>2. (a \in Catalogued)' /\ a \in Artifacts
  BY DEF Catalogued
<1>3. generation'[a] = 1 + Cardinality(Changes(a)')
  <2>1. IsFiniteSet(Changes(a)) /\ Cardinality(Changes(a)) \in Nat
    <3>1. Changes(a) \in SUBSET (1..Len(events))
      BY DEF Changes, About
    <3>2. IsFiniteSet(1..Len(events))
      BY LogSplits, FS_Interval
    <3> QED
      BY <3>1, <3>2, FS_Subset, FS_CardinalityType
  <2>2. generation[a] = 1 + Cardinality(Changes(a))
    BY DEF Replays
  <2>3. CASE events'[k].type \in {"transition", "invalidated"}
    <3>1. Changes(a)' = Changes(a) \cup {k} /\ k \notin Changes(a)
      BY <1>1, <2>3 DEF Changes
    <3>2. Cardinality(Changes(a) \cup {k}) = Cardinality(Changes(a)) + 1
      BY <2>1, <3>1, FS_AddElement
    <3> QED
      BY <2>1, <2>2, <2>3, <3>1, <3>2
  <2>4. CASE events'[k].type \notin {"transition", "invalidated"}
    <3>1. Changes(a)' = Changes(a)
      BY <1>1, <2>4 DEF Changes
    <3> QED
      BY <2>1, <2>2, <2>4, <3>1
  <2> QED
    BY <2>3, <2>4
<1>4. /\ registered'[a] \in About(a)'
      /\ \A i \in About(a)' : registered'[a] <= i
      /\ \A i \in About(a)' : events'[i].type = "registered" <=> i = registered'[a]
  <2>1. /\ registered[a] \in About(a)
        /\ \A i \in About(a) : registered[a] <= i
        /\ \A i \in About(a) : events[i].type = "registered" <=> i = registered[a]
    BY DEF Replays
  <2>2. registered[a] \in Nat /\ registered[a] < k
    BY <1>1, <2>1
  <2> QED
    BY <1>1, <2>1, <2>2
<1>5. ASSUME NEW i \in About(a)'
      PROVE  LET later == {j \in About(a)' : j > i} IN
             IF later = {} THEN events'[i].current = state'[a]
             ELSE \E j \in later : /\ \A m \in later : j <= m
                                   /\ events'[j].previous = events'[i].current
  <2> DEFINE newer == {j \in About(a)' : j > i}
             later == {j \in About(a) : j > i}
  <2>1. CASE i = k
    <3>1. newer = {}
      BY <1>1, <2>1
    <3> QED
      BY <2>1, <3>1
  <2>2. CASE i \in About(a)
    <3>1. newer = later \cup {k} /\ k \in newer /\ events'[i] = events[i]
      BY <1>1, <2>2
    <3>2. IF later = {} THEN events[i].current = state[a]
          ELSE \E j \in later : /\ \A m \in later : j <= m
                                /\ events[j].previous = events[i].current
      BY <2>2 DEF Replays
    <3>3. CASE later = {}
      <4>1. newer = {k} /\ k <= k
        BY <1>1, <3>1, <3>3
      <4> QED
        BY <3>1, <3>2, <3>3, <4>1
    <3>4. CASE later # {}
      <4>1. PICK j \in later : /\ \A m \in later : j <= m
                               /\ events[j].previous = events[i].current
        BY <3>2, <3>4
      <4>2. j \in newer /\ j <= k /\ events'[j] = events[j]
        BY <1>1, <3>1
      <4>3. \A m \in newer : j <= m
        BY <3>1, <4>1, <4>2
      <4> HIDE DEF newer, later
      <4>4. newer # {}
        BY <4>2
      <4>5. events'[j].previous = events'[i].current
        BY <3>1, <4>1, <4>2
      <4>6. IF newer = {} THEN events'[i].current = state'[a]
            ELSE \E x \in newer : /\ \A m \in newer : x <= m
                                  /\ events'[x].previous = events'[i].current
        BY <4>2, <4>3, <4>4, <4>5
      <4> QED
        BY <4>6 DEF newer
    <3> QED
      BY <3>3, <3>4
  <2> QED
    BY <1>1, <2>1, <2>2
<1> QED
  BY <1>2, <1>3, <1>4, <1>5 DEF Replays

(* An artifact that is registered. *)
LEMMA FirstEvent ==
    ASSUME LogGrows, NEW a \in Artifacts, About(a) = {}, state'[a] = "active",
           Len(events') = Len(events) + 1, registered'[a] = Len(events'),
           generation'[a] = 1,
           events'[Len(events')].artifact = a, events'[Len(events')].type = "registered",
           events'[Len(events')].current = "active"
    PROVE  Replays(a)' /\ ActiveAt(a)'
<1> DEFINE k == Len(events')
<1>1. About(a)' = {k} /\ k \in Nat
  BY LogSplits DEF About, LogGrows
<1>2. (a \in Catalogued)'
  BY DEF Catalogued
<1>3. Changes(a)' = {}
  BY <1>1 DEF Changes
<1>4. Cardinality(Changes(a)') = 0
  BY <1>3, FS_EmptySet
<1>5. {j \in About(a)' : j > k} = {}
  BY <1>1
<1>6. Replays(a)'
  BY <1>1, <1>2, <1>4, <1>5 DEF Replays
<1>7. registered'[a]..Len(events') = {k}
  BY <1>1
<1>8. ActiveAt(a)'
  BY <1>7 DEF ActiveAt, Ends
<1> QED
  BY <1>6, <1>8

(* The state that an artifact is registered with, and the events since.       *)
LEMMA Registration ==
    ASSUME TypeOK, NEW a \in Artifacts, Replays(a), a \in Catalogued
    PROVE  /\ registered[a] \in 1..Len(events)
           /\ events[registered[a]].type = "registered"
           /\ events[registered[a]].artifact = a
BY DEF Replays, About, TypeOK

(* An artifact that is or becomes inactive, or that no new event ends. *)
LEMMA ActiveStays ==
    ASSUME TypeOK, LogGrows, NEW a \in Artifacts, Replays(a), ActiveAt(a),
           state'[a] = "active" => state[a] = "active", registered'[a] = registered[a],
           \A k \in NewEvents : state'[a] = "active" => ~Ends(events'[k], a)
    PROVE  ActiveAt(a)'
<1> SUFFICES ASSUME state'[a] = "active", NEW j \in registered[a]..Len(events')
             PROVE  ~Ends(events'[j], a)
  BY DEF ActiveAt
<1>1. registered[a] \in 1..Len(events)
  BY Registration DEF Catalogued
<1>2. CASE j \in NewEvents
  BY <1>2
<1>3. CASE j \notin NewEvents
  <2>1. j \in registered[a]..Len(events) /\ j \in 1..Len(events)
    BY <1>1, <1>3, LogSplits DEF NewEvents
  <2>2. ~Ends(events[j], a)
    BY <2>1 DEF ActiveAt
  <2> QED
    BY <2>1, <2>2 DEF LogGrows
<1> QED
  BY <1>2, <1>3

(* What was reused stays reused as it was. *)
LEMMA ReusesStay ==
    ASSUME IInv, LogGrows,
           \A a \in Catalogued : registered'[a] = registered[a],
           \A k \in NewEvents : ReuseAt(k)'
    PROVE  \A i \in 1..Len(events') : ReuseAt(i)'
<1> SUFFICES ASSUME NEW i \in 1..Len(events), events'[i].type = "reuse"
             PROVE  ReuseAt(i)'
  BY LogSplits DEF ReuseAt
<1>1. events'[i] = events[i] /\ ReuseAt(i) /\ events \in Seq(Events)
  BY DEF LogGrows, IInv
<1>2. PICK a \in Artifacts : a = events[i].artifact
  <2>1. events[i] \in Events
    BY <1>1
  <2> QED
    BY <2>1 DEF Events
<1>3. a \in Catalogued
  BY <1>2 DEF IInv, Replays, About
<1>4. registered[a] \in 1..Len(events) /\ registered'[a] = registered[a]
  BY <1>3, Registration DEF IInv
<1>5. \A j \in registered[a]..(i - 1) : j \in 1..Len(events) /\ events'[j] = events[j]
  BY <1>4, LogSplits DEF LogGrows
<1> QED
  BY <1>1, <1>2, <1>4, <1>5 DEF ReuseAt

-----------------------------------------------------------------------------
(* A call that logs one event, that changes no artifact but perhaps the one  *)
(* the event is about. *)
LEMMA OneEvent ==
    ASSUME events \in Seq(Events), NEW e \in Events, events' = Append(events, e)
    PROVE  /\ LogGrows /\ Len(events') = Len(events) + 1 /\ Len(events) \in Nat
           /\ NewEvents = {Len(events')} /\ events'[Len(events')] = e
BY DEF LogGrows, NewEvents

(* What callers have seen: of an artifact as it is, or as it was before the  *)
(* generation went up.                                                       *)
LEMMA SightsStay ==
    ASSUME TypeOK, SightsAgree, TypeOK',
           \A b \in Catalogued :
              /\ state'[b] # "absent"
              /\ \/ generation'[b] > generation[b]
                 \/ generation'[b] = generation[b] /\ state'[b] = state[b],
           \A c \in Callers :
              \/ seen'[c] = seen[c]
              \/ seen'[c] = {}
              \/ \E a \in Artifacts :
                    /\ state'[a] # "absent"
                    /\ seen'[c] = {[artifact |-> a, state |-> state'[a],
                                    generation |-> generation'[a]]}
    PROVE  SightsAgree'
<1> SUFFICES ASSUME NEW c \in Callers, NEW s \in seen'[c]
             PROVE  /\ \A t \in seen'[c] : s = t
                    /\ s.artifact \in Catalogued'
                    /\ s.generation <= generation'[s.artifact]
                    /\ s.generation = generation'[s.artifact] => s.state = state'[s.artifact]
  BY DEF SightsAgree
<1>1. CASE seen'[c] = seen[c]
  <2>1. /\ \A t \in seen[c] : s = t
        /\ s.artifact \in Catalogued
        /\ s.generation <= generation[s.artifact]
        /\ s.generation = generation[s.artifact] => s.state = state[s.artifact]
    BY <1>1 DEF SightsAgree
  <2>2. PICK a \in Artifacts : a = s.artifact /\ a \in Catalogued
    BY <2>1 DEF Catalogued
  <2>3. s.generation \in Nat /\ generation[a] \in Nat /\ generation'[a] \in Nat
    BY <1>1 DEF TypeOK, Sights
  <2>4. a \in Catalogued'
    BY <2>2 DEF Catalogued
  <2> QED
    BY <1>1, <2>1, <2>2, <2>3, <2>4
<1>2. CASE seen'[c] # seen[c]
  <2>1. PICK a \in Artifacts : /\ state'[a] # "absent"
                               /\ s = [artifact |-> a, state |-> state'[a],
                                       generation |-> generation'[a]]
                               /\ \A t \in seen'[c] : s = t
    BY <1>2
  <2>2. a \in Catalogued' /\ generation'[a] \in Nat
    BY <2>1 DEF Catalogued, TypeOK
  <2> QED
    BY <2>1, <2>2
<1> QED
  BY <1>1, <1>2

(* A call that changes nothing of the memory. *)
LEMMA QuietStep ==
    ASSUME IInv, UNCHANGED <<state, generation, registered, events>>,
           seen' \in [Callers -> SUBSET Sights],
           \A c \in Callers :
              \/ seen'[c] = seen[c]
              \/ \E a \in Catalogued :
                    seen'[c] = {[artifact |-> a, state |-> state[a],
                                 generation |-> generation[a]]}
    PROVE  IInv'
<1>1. TypeOK'
  BY DEF IInv, TypeOK, Catalogued
<1>2. SightsAgree'
  BY <1>1, SightsStay DEF IInv, Catalogued
<1>3. ASSUME NEW a \in Artifacts
      PROVE  Replays(a)' /\ ActiveAt(a)'
  <2>1. Replays(a) /\ ActiveAt(a)
    BY DEF IInv
  <2>2. Replays(a)'
    <3>1. About(a)' = About(a) /\ Changes(a)' = Changes(a) /\ Catalogued' = Catalogued
      BY DEF About, Changes, Catalogued
    <3> QED
      BY <2>1, <3>1 DEF Replays
  <2>3. ActiveAt(a)'
    BY <2>1 DEF ActiveAt
  <2> QED
    BY <2>2, <2>3
<1>4. \A i \in 1..Len(events') : ReuseAt(i)' /\ EventValid(events[i])'
  BY DEF IInv, ReuseAt, EventValid
<1> QED
  BY <1>1, <1>2, <1>3, <1>4 DEF IInv

LEMMA ReadStep ==
    ASSUME IInv, NEW c \in Callers, NEW a \in Catalogued,
           UNCHANGED <<state, generation, registered, events>>,
           seen' = [seen EXCEPT ![c] =
                      {[artifact |-> a, state |-> state[a], generation |-> generation[a]]}]
    PROVE  IInv'
<1>1. [artifact |-> a, state |-> state[a], generation |-> generation[a]] \in Sights
  BY DEF IInv, TypeOK, Catalogued, Sights
<1>2. seen' \in [Callers -> SUBSET Sights]
  BY <1>1 DEF IInv, TypeOK
<1>3. \A d \in Callers : seen'[d] = seen[d] \/
         seen'[d] = {[artifact |-> a, state |-> state[a], generation |-> generation[a]]}
  BY DEF IInv, TypeOK
<1> QED
  BY <1>2, <1>3, QuietStep

(* No call takes away room. *)
LEMMA RoomLeft ==
    ASSUME events \in Seq(Events), NEW n \in EventLimits, Room(n),
           NEW e \in Events, events' = Append(events, e)
    PROVE  \E m \in EventLimits : Len(events') <= m
BY LimitsAssumption DEF Room

LEMMA IsEvent ==
    ASSUME NEW type \in EventTypes, NEW a \in Artifacts, NEW from \in States,
           NEW to \in States
    PROVE  Event(type, a, from, to) \in Events
BY ArtifactsAssumption DEF Event, Events

LEMMA RegisterStep ==
    ASSUME IInv, NEW c \in Callers, NEW a \in Artifacts, NEW n \in EventLimits,
           Register(a, n),
           seen' = [seen EXCEPT ![c] =
                      {[artifact |-> a, state |-> state'[a], generation |-> generation'[a]]}]
    PROVE  IInv'
<1> DEFINE e == Event("registered", a, "active", "active")
<1>1. e \in Events
  BY IsEvent DEF EventTypes, States
<1>2. e.type = "registered" /\ e.artifact = a /\ e.current = "active" /\ EventValid(e)
  BY DEF Event, EventValid
<1>3. events \in Seq(Events) /\ events' = Append(events, e) /\ a \notin Catalogued
  BY DEF Register, IInv, TypeOK
<1> HIDE DEF e
<1>4. /\ LogGrows /\ Len(events') = Len(events) + 1 /\ Len(events) \in Nat
      /\ NewEvents = {Len(events')} /\ events'[Len(events')] = e
  BY <1>1, <1>3, OneEvent
<1>5. /\ state' \in [Artifacts -> States \cup {"absent"}] /\ state'[a] = "active"
      /\ generation' \in [Artifacts -> Nat] /\ generation'[a] = 1
      /\ registered' \in [Artifacts -> 0..Len(events')] /\ registered'[a] = Len(events')
      /\ \A b \in Artifacts \ {a} : /\ state'[b] = state[b] /\ generation'[b] = generation[b]
                                    /\ registered'[b] = registered[b]
  BY <1>4 DEF Register, IInv, TypeOK, States
<1>6. TypeOK'
  <2>1. Cardinality(Catalogued') <= MaxArtifacts
    <3>1. Catalogued' = Catalogued \cup {a}
      BY <1>5 DEF Catalogued
    <3>2. IsFiniteSet(Catalogued)
      BY ArtifactsAssumption, FS_Subset DEF Catalogued
    <3>3. Cardinality(Catalogued) \in Nat /\ Cardinality(Catalogued') = Cardinality(Catalogued) + 1
      BY <1>3, <3>1, <3>2, FS_AddElement, FS_CardinalityType
    <3>4. Cardinality(Catalogued) < MaxArtifacts
      BY DEF Register
    <3> QED
      BY <3>3, <3>4, LimitsAssumption
  <2>2. \E m \in EventLimits : Len(events') <= m
    <3>1. Room(n)
      BY DEF Register
    <3> QED
      BY <1>1, <1>3, <3>1, RoomLeft
  <2>3. events' \in Seq(Events)
    BY <1>4 DEF LogGrows
  <2>4. seen' \in [Callers -> SUBSET Sights]
    <3>1. [artifact |-> a, state |-> state'[a], generation |-> generation'[a]] \in Sights
      BY <1>5 DEF Sights, States
    <3> QED
      BY <3>1 DEF IInv, TypeOK
  <2> QED
    BY <1>5, <2>1, <2>2, <2>3, <2>4 DEF TypeOK
<1>7. ASSUME NEW b \in Artifacts
      PROVE  Replays(b)' /\ ActiveAt(b)'
  <2>1. CASE b = a
    <3>1. About(a) = {}
      BY <1>3 DEF IInv, Replays
    <3> QED
      BY <1>2, <1>4, <1>5, <2>1, <3>1, FirstEvent
  <2>2. CASE b # a
    <3>1. Replays(b) /\ ActiveAt(b) /\ TypeOK
      BY DEF IInv
    <3>2. \A k \in NewEvents : events'[k].artifact # b /\ ~Ends(events'[k], b)
      BY <1>2, <1>4, <2>2 DEF Ends
    <3>3. state'[b] = state[b] /\ generation'[b] = generation[b] /\ registered'[b] = registered[b]
      BY <1>5, <2>2
    <3>4. Replays(b)'
      BY <1>4, <3>1, <3>2, <3>3, UntouchedStaysValid
    <3>5. ActiveAt(b)'
      BY <1>4, <3>1, <3>2, <3>3, ActiveStays
    <3> QED
      BY <3>4, <3>5
  <2> QED
    BY <2>1, <2>2
<1>8. \A i \in 1..Len(events') : ReuseAt(i)'
  <2>1. \A k \in NewEvents : ReuseAt(k)'
    BY <1>2, <1>4 DEF ReuseAt
  <2>2. \A b \in Catalogued : registered'[b] = registered[b]
    BY <1>3, <1>5 DEF Catalogued
  <2> QED
    BY <1>4, <2>1, <2>2, ReusesStay
<1>9. \A i \in 1..Len(events') : EventValid(events'[i])
  BY <1>2, <1>4, EventsStayValid DEF IInv
<1>10. SightsAgree'
  <2>1. \A b \in Catalogued : /\ state'[b] # "absent" /\ state'[b] = state[b]
                              /\ generation'[b] = generation[b]
    BY <1>3, <1>5 DEF Catalogued
  <2>2. \A d \in Callers :
           \/ seen'[d] = seen[d]
           \/ seen'[d] = {[artifact |-> a, state |-> state'[a], generation |-> generation'[a]]}
    BY DEF IInv, TypeOK
  <2> QED
    BY <1>5, <1>6, <2>1, <2>2, SightsStay DEF IInv
<1> QED
  BY <1>6, <1>7, <1>8, <1>9, <1>10 DEF IInv

LEMMA TransitionStep ==
    ASSUME IInv, NEW c \in Callers, NEW s \in seen[c], NEW target \in States,
           NEW n \in EventLimits, Transition(c, s, target, n)
    PROVE  IInv'
<1>1. s.artifact \in Catalogued /\ TypeOK
  BY DEF IInv, SightsAgree
<1>2. PICK a \in Artifacts : a = s.artifact /\ a \in Catalogued
  BY <1>1 DEF Catalogued
<1> DEFINE e == Event("transition", a, state[a], target)
<1>3. e \in Events
  BY <1>1, <1>2, IsEvent DEF EventTypes, States, Catalogued, TypeOK
<1>4. /\ e.type = "transition" /\ e.artifact = a /\ e.previous = state[a] /\ e.current = target
      /\ EventValid(e)
  BY <1>2 DEF Event, EventValid, Transition
<1>5. events \in Seq(Events) /\ events' = Append(events, e)
  BY <1>1, <1>2 DEF Transition, TypeOK
<1> HIDE DEF e
<1>6. /\ LogGrows /\ Len(events') = Len(events) + 1 /\ Len(events) \in Nat
      /\ NewEvents = {Len(events')} /\ events'[Len(events')] = e
  BY <1>3, <1>5, OneEvent
<1>7. /\ state' \in [Artifacts -> States \cup {"absent"}] /\ state'[a] = target
      /\ generation' \in [Artifacts -> Nat] /\ generation'[a] = generation[a] + 1
      /\ \A b \in Artifacts \ {a} : state'[b] = state[b] /\ generation'[b] = generation[b]
      /\ registered' = registered
  BY <1>1, <1>2 DEF Transition, TypeOK
<1>8. target # "absent" /\ target # "active"
  BY <1>2 DEF Transition, TransitionAllowed
<1>9. TypeOK'
  <2>1. Catalogued' = Catalogued
    BY <1>2, <1>7, <1>8 DEF Catalogued
  <2>2. \E m \in EventLimits : Len(events') <= m
    <3>1. Room(n)
      BY DEF Transition
    <3> QED
      BY <1>3, <1>5, <3>1, RoomLeft
  <2>3. events' \in Seq(Events) /\ seen' \in [Callers -> SUBSET Sights]
    BY <1>1, <1>6 DEF LogGrows, Transition, TypeOK
  <2>4. registered' \in [Artifacts -> 0..Len(events')]
    BY <1>1, <1>6, <1>7 DEF TypeOK
  <2> QED
    BY <1>1, <1>7, <2>1, <2>2, <2>3, <2>4 DEF TypeOK
<1>10. ASSUME NEW b \in Artifacts
       PROVE  Replays(b)' /\ ActiveAt(b)'
  <2>1. Replays(b) /\ ActiveAt(b)
    BY DEF IInv
  <2>2. CASE b = a
    <3>1. Replays(a)'
      <4>1. Len(events') \in NewEvents /\ \A m \in NewEvents : m = Len(events')
        BY <1>6
      <4>2. generation[a] \in Nat
        BY <1>1 DEF TypeOK
      <4> QED
        BY <1>2, <1>4, <1>6, <1>7, <1>8, <2>1, <2>2, <4>1, <4>2, OneEventMore
    <3>2. ActiveAt(a)'
      BY <1>7, <1>8 DEF ActiveAt
    <3> QED
      BY <2>2, <3>1, <3>2
  <2>3. CASE b # a
    <3>1. \A k \in NewEvents : events'[k].artifact # b /\ ~Ends(events'[k], b)
      BY <1>4, <1>6, <2>3 DEF Ends
    <3>2. state'[b] = state[b] /\ generation'[b] = generation[b] /\ registered'[b] = registered[b]
      BY <1>7, <2>3
    <3>3. Replays(b)'
      BY <1>6, <2>1, <3>1, <3>2, UntouchedStaysValid
    <3>4. ActiveAt(b)'
      BY <1>1, <1>6, <2>1, <3>1, <3>2, ActiveStays
    <3> QED
      BY <3>3, <3>4
  <2> QED
    BY <2>2, <2>3
<1>11. \A i \in 1..Len(events') : ReuseAt(i)'
  <2>1. \A k \in NewEvents : ReuseAt(k)'
    BY <1>4, <1>6 DEF ReuseAt
  <2> QED
    BY <1>6, <1>7, <2>1, ReusesStay
<1>12. \A i \in 1..Len(events') : EventValid(events'[i])
  BY <1>4, <1>6, EventsStayValid DEF IInv
<1>13. SightsAgree'
  <2>1. ASSUME NEW b \in Catalogued
        PROVE  /\ state'[b] # "absent"
               /\ \/ generation'[b] > generation[b]
                  \/ generation'[b] = generation[b] /\ state'[b] = state[b]
    <3>1. b \in Artifacts /\ generation[b] \in Nat /\ state[b] # "absent"
      BY <1>1 DEF Catalogued, TypeOK
    <3> QED
      BY <1>7, <1>8, <3>1
  <2>2. \A d \in Callers : seen'[d] = seen[d] \/ seen'[d] = {}
    BY <1>1 DEF Transition, TypeOK
  <2> QED
    BY <1>9, <2>1, <2>2, SightsStay DEF IInv
<1> QED
  BY <1>9, <1>10, <1>11, <1>12, <1>13 DEF IInv

LEMMA RecordReuseStep ==
    ASSUME IInv, NEW c \in Callers, NEW s \in seen[c], NEW q \in Queries,
           NEW n \in EventLimits, RecordReuse(c, s, q, n)
    PROVE  IInv'
<1>1. s.artifact \in Catalogued /\ TypeOK
  BY DEF IInv, SightsAgree
<1>2. PICK a \in Artifacts : a = s.artifact /\ a \in Catalogued
  BY <1>1 DEF Catalogued
<1>3. state[a] = "active" /\ q.scene = SceneOf[a]
  BY <1>2 DEF RecordReuse, Direct
<1> DEFINE e == [Event("reuse", a, state[a], state[a]) EXCEPT !.task = q.task, !.scene = q.scene]
<1>4. /\ e \in Events /\ e.type = "reuse" /\ e.artifact = a /\ e.previous = state[a]
      /\ e.current = state[a] /\ e.scene = SceneOf[a]
  <2>1. q.task \in Tasks /\ q.scene \in Scenes
    BY DEF Queries
  <2> QED
    BY <1>3, <2>1, ArtifactsAssumption DEF Event, Events, EventTypes, States
<1>5. events \in Seq(Events) /\ events' = Append(events, e)
  BY <1>1, <1>2 DEF RecordReuse, TypeOK
<1> HIDE DEF e
<1>6. /\ LogGrows /\ Len(events') = Len(events) + 1 /\ Len(events) \in Nat
      /\ NewEvents = {Len(events')} /\ events'[Len(events')] = e
  BY <1>4, <1>5, OneEvent
<1>7. UNCHANGED <<state, generation, registered, seen>>
  BY DEF RecordReuse
<1>8. TypeOK'
  <2>1. \E m \in EventLimits : Len(events') <= m
    <3>1. Room(n)
      BY DEF RecordReuse
    <3> QED
      BY <1>4, <1>5, <3>1, RoomLeft
  <2>2. registered' \in [Artifacts -> 0..Len(events')]
    BY <1>1, <1>6, <1>7 DEF TypeOK
  <2>3. events' \in Seq(Events) /\ Catalogued' = Catalogued
    BY <1>6, <1>7 DEF LogGrows, Catalogued
  <2> QED
    BY <1>1, <1>7, <2>1, <2>2, <2>3 DEF TypeOK
<1>9. \A b \in Artifacts : \A k \in NewEvents : ~Ends(events'[k], b)
  BY <1>4, <1>6 DEF Ends
<1>10. ASSUME NEW b \in Artifacts
       PROVE  Replays(b)' /\ ActiveAt(b)'
  <2>1. Replays(b) /\ ActiveAt(b)
    BY DEF IInv
  <2>2. ActiveAt(b)'
    BY <1>1, <1>6, <1>7, <1>9, <2>1, ActiveStays
  <2>3. CASE b = a
    <3>1. Len(events') \in NewEvents /\ \A m \in NewEvents : m = Len(events')
      BY <1>6
    <3>2. generation[a] \in Nat /\ generation[a] = generation[a] + 0
      BY <1>1 DEF TypeOK
    <3>3. Replays(a)'
      BY <1>2, <1>3, <1>4, <1>6, <1>7, <2>1, <2>3, <3>1, <3>2, OneEventMore
    <3> QED
      BY <2>2, <2>3, <3>3
  <2>4. CASE b # a
    <3>1. \A k \in NewEvents : events'[k].artifact # b
      BY <1>4, <1>6, <2>4
    <3>2. Replays(b)'
      BY <1>6, <1>7, <2>1, <3>1, UntouchedStaysValid
    <3> QED
      BY <2>2, <3>2
  <2> QED
    BY <2>3, <2>4
<1>11. \A i \in 1..Len(events') : ReuseAt(i)'
  <2>1. \A j \in registered[a]..Len(events) : ~Ends(events[j], a)
    BY <1>3 DEF IInv, ActiveAt
  <2>2. registered[a] \in 1..Len(events)
    BY <1>1, <1>2, Registration DEF IInv
  <2>3. ASSUME NEW k \in NewEvents
        PROVE  ReuseAt(k)'
    <3>1. k = Len(events) + 1 /\ events'[k] = e
      BY <1>6
    <3>2. \A j \in registered'[a]..(k - 1) :
             j \in registered[a]..Len(events) /\ events'[j] = events[j]
      BY <1>6, <1>7, <2>2, <3>1 DEF LogGrows
    <3>3. \A j \in registered'[a]..(k - 1) : ~Ends(events'[j], a)
      BY <2>1, <3>2
    <3> QED
      BY <1>4, <3>1, <3>3 DEF ReuseAt
  <2> QED
    BY <1>6, <1>7, <2>3, ReusesStay
<1>12. \A i \in 1..Len(events') : EventValid(events'[i])
  BY <1>4, <1>6, EventsStayValid DEF IInv, EventValid
<1>13. SightsAgree'
  BY <1>7, <1>8, SightsStay DEF IInv, Catalogued
<1> QED
  BY <1>8, <1>10, <1>11, <1>12, <1>13 DEF IInv

(* invalidate_scene(): the new events are those of the matching artifacts,   *)
(* one for each.                                                             *)
LEMMA Invalidated ==
    ASSUME TypeOK, NEW d \in Deployments, NEW s \in Scenes, MakeStale(Matching(d, s))
    PROVE  /\ LogGrows
           /\ Len(events') = Len(events) + Cardinality(Matching(d, s))
           /\ Cardinality(Matching(d, s)) \in Nat
           /\ \A k \in NewEvents : /\ events'[k].type = "invalidated"
                                   /\ events'[k].artifact \in Matching(d, s)
                                   /\ events'[k].scene = s
                                   /\ events'[k].previous = "active"
                                   /\ events'[k].current = "stale"
                                   /\ EventValid(events'[k])
           /\ \A k, m \in NewEvents : events'[k].artifact = events'[m].artifact => k = m
           /\ \A a \in Matching(d, s) : \E k \in NewEvents : events'[k].artifact = a
<1> DEFINE S == Matching(d, s)
           m == Cardinality(S)
<1>1. S \in SUBSET Artifacts /\ S \in SUBSET Nat /\ IsFiniteSet(S)
  <2>1. S \in SUBSET Artifacts
    BY DEF Matching
  <2> QED
    BY <2>1, ArtifactsAssumption, FS_Subset
<1>2. \A a \in S : SceneOf[a] = s
  BY DEF Matching
<1>3. MakeStale(S)
  OBVIOUS
<1> HIDE DEF S
<1>4. /\ m \in Nat
      /\ InOrder(S) \in [1..m -> S]
      /\ \A i, j \in 1..m : i < j => InOrder(S)[i] < InOrder(S)[j]
      /\ \A a \in S : \E i \in 1..m : InOrder(S)[i] = a
  BY <1>1, InOrderIsOrder
<1>5. PICK f \in [1..m -> S] : f = InOrder(S)
  BY <1>4
<1>6. PICK g : g = [i \in 1..m |-> Event("invalidated", f[i], "active", "stale")]
  OBVIOUS
<1>7. events' = events \o g /\ events \in Seq(Events)
  BY <1>3, <1>5, <1>6 DEF MakeStale, TypeOK
<1> HIDE DEF m
<1>8. g \in Seq(Events) /\ Len(g) = m
  <2>1. \A i \in 1..m : Event("invalidated", f[i], "active", "stale") \in Events
    BY <1>1, IsEvent DEF EventTypes, States
  <2>2. g \in [1..m -> Events]
    BY <1>6, <2>1
  <2> QED
    BY <1>4, <2>2
<1>9. /\ events' \in Seq(Events) /\ Len(events') = Len(events) + m /\ Len(events) \in Nat
      /\ \A i \in 1..Len(events) : events'[i] = events[i]
      /\ \A i \in 1..m : events'[Len(events) + i] = g[i]
  <2>1. /\ events' \in Seq(Events) /\ Len(events') = Len(events) + Len(g)
        /\ Len(events) \in Nat
        /\ \A i \in 1..Len(events) : events'[i] = events[i]
    BY <1>7, <1>8
  <2>2. \A i \in 1..Len(g) : events'[Len(events) + i] = g[i]
    BY <1>7, <1>8
  <2> QED
    BY <1>8, <2>1, <2>2
<1>10. LogGrows
  BY <1>4, <1>7, <1>9 DEF LogGrows
<1>11. ASSUME NEW k \in NewEvents
       PROVE  /\ k - Len(events) \in 1..m
              /\ events'[k] = Event("invalidated", f[k - Len(events)], "active", "stale")
  <2>1. k - Len(events) \in 1..m /\ k = Len(events) + (k - Len(events))
    BY <1>4, <1>9 DEF NewEvents
  <2> QED
    BY <1>6, <1>9, <2>1
<1>12. ASSUME NEW k \in NewEvents
       PROVE  /\ events'[k].type = "invalidated" /\ events'[k].artifact = f[k - Len(events)]
              /\ events'[k].artifact \in S /\ events'[k].scene = s
              /\ events'[k].previous = "active" /\ events'[k].current = "stale"
              /\ EventValid(events'[k])
  <2>1. PICK a \in S : a = f[k - Len(events)]
    BY <1>11
  <2>2. events'[k] = Event("invalidated", a, "active", "stale") /\ SceneOf[a] = s
    BY <1>2, <1>11, <2>1
  <2> QED
    BY <2>1, <2>2 DEF Event, EventValid, TransitionAllowed
<1>13. ASSUME NEW k \in NewEvents, NEW l \in NewEvents, events'[k].artifact = events'[l].artifact
       PROVE  k = l
  <2>1. PICK i, j \in 1..m : i = k - Len(events) /\ j = l - Len(events)
    BY <1>11
  <2>2. f[i] = f[j] /\ f[i] \in Nat /\ f[j] \in Nat
    BY <1>1, <1>12, <1>13, <2>1
  <2>3. ~(i < j) /\ ~(j < i)
    BY <1>4, <1>5, <2>2
  <2>4. k \in Nat /\ l \in Nat
    BY <1>9 DEF NewEvents
  <2> QED
    BY <1>4, <1>9, <2>1, <2>3, <2>4
<1>14. ASSUME NEW a \in S
       PROVE  \E k \in NewEvents : events'[k].artifact = a
  <2>1. PICK i \in 1..m : f[i] = a
    BY <1>4, <1>5
  <2>2. Len(events) + i \in NewEvents /\ (Len(events) + i) - Len(events) = i
    BY <1>4, <1>9 DEF NewEvents
  <2> QED
    BY <1>12, <2>1, <2>2
<1> QED
  BY <1>4, <1>9, <1>10, <1>12, <1>13, <1>14 DEF S, m

LEMMA InvalidateStep ==
    ASSUME IInv, NEW d \in Deployments, NEW s \in Scenes, NEW n \in EventLimits,
           InvalidateScene(d, s, n)
    PROVE  IInv'
<1> DEFINE S == Matching(d, s)
<1>1. TypeOK /\ MakeStale(S)
  BY DEF IInv, InvalidateScene
<1>2. /\ LogGrows
      /\ Len(events') = Len(events) + Cardinality(S)
      /\ Cardinality(S) \in Nat
      /\ \A k \in NewEvents : /\ events'[k].type = "invalidated"
                              /\ events'[k].artifact \in S
                              /\ events'[k].previous = "active"
                              /\ events'[k].current = "stale"
                              /\ EventValid(events'[k])
      /\ \A k, m \in NewEvents : events'[k].artifact = events'[m].artifact => k = m
      /\ \A a \in S : \E k \in NewEvents : events'[k].artifact = a
  BY <1>1, Invalidated
<1>3. S \in SUBSET Artifacts /\ IsFiniteSet(S)
      /\ \A a \in Artifacts : a \in S <=> /\ state[a] = "active" /\ DeploymentOf[a] = d
                                          /\ SceneOf[a] = s
  <2>1. S \in SUBSET Artifacts
    BY DEF Matching
  <2> QED
    BY <2>1, ArtifactsAssumption, FS_Subset DEF Matching
<1>4. S # {} => Len(events') <= n
  BY <1>2 DEF InvalidateScene
<1> HIDE DEF S
<1>5. /\ state' \in [Artifacts -> States \cup {"absent"}]
      /\ generation' \in [Artifacts -> Nat]
      /\ registered' = registered /\ seen' = seen
      /\ \A a \in S : state'[a] = "stale" /\ generation'[a] = generation[a] + 1
      /\ \A a \in Artifacts \ S : state'[a] = state[a] /\ generation'[a] = generation[a]
  <2>1. \A a \in Artifacts : /\ state[a] \in States \cup {"absent"} /\ generation[a] \in Nat
                             /\ generation[a] + 0 = generation[a]
    BY <1>1 DEF TypeOK
  <2> QED
    BY <1>1, <1>3, <2>1 DEF MakeStale, States
<1>6. TypeOK'
  <2>1. Catalogued' = Catalogued
    BY <1>3, <1>5 DEF Catalogued
  <2>2. \E m \in EventLimits : Len(events') <= m
    <3>1. CASE S = {}
      <4>1. Cardinality(S) = 0
        BY <3>1, FS_EmptySet
      <4>2. Len(events') = Len(events)
        BY <1>2, <4>1, LogSplits
      <4> QED
        BY <1>1, <4>2 DEF TypeOK
    <3>2. CASE S # {}
      BY <1>4, <3>2
    <3> QED
      BY <3>1, <3>2
  <2>3. registered' \in [Artifacts -> 0..Len(events')]
    BY <1>1, <1>2, <1>5, LogSplits DEF TypeOK, LogGrows
  <2>4. events' \in Seq(Events) /\ seen' \in [Callers -> SUBSET Sights]
    BY <1>1, <1>2, <1>5 DEF LogGrows, TypeOK
  <2> QED
    BY <1>1, <1>5, <2>1, <2>2, <2>3, <2>4 DEF TypeOK
<1>7. ASSUME NEW b \in Artifacts
      PROVE  Replays(b)' /\ ActiveAt(b)'
  <2>1. Replays(b) /\ ActiveAt(b)
    BY DEF IInv
  <2>2. CASE b \in S
    <3>1. Replays(b)'
      <4>1. b \in Catalogued /\ state[b] = "active"
        BY <1>3, <2>2 DEF Catalogued
      <4>2. PICK k \in NewEvents : events'[k].artifact = b
        BY <1>2, <2>2
      <4>3. \A m \in NewEvents : events'[m].artifact = b => m = k
        BY <1>2, <4>2
      <4>4. generation[b] \in Nat
        BY <1>1 DEF TypeOK
      <4>5. state'[b] = "stale" /\ generation'[b] = generation[b] + 1
            /\ registered'[b] = registered[b]
        BY <1>5, <2>2
      <4> QED
        BY <1>2, <2>1, <4>1, <4>2, <4>3, <4>4, <4>5, OneEventMore
    <3>2. ActiveAt(b)'
      BY <1>5, <2>2 DEF ActiveAt
    <3> QED
      BY <3>1, <3>2
  <2>3. CASE b \notin S
    <3>1. \A k \in NewEvents : events'[k].artifact # b
      BY <1>2, <2>3
    <3>2. state'[b] = state[b] /\ generation'[b] = generation[b] /\ registered'[b] = registered[b]
      BY <1>5, <2>3
    <3>3. Replays(b)'
      BY <1>2, <2>1, <3>1, <3>2, UntouchedStaysValid
    <3>4. ASSUME NEW k \in NewEvents, state'[b] = "active"
          PROVE  ~Ends(events'[k], b)
      <4>1. PICK x \in S : events'[k].artifact = x
        BY <1>2
      <4>2. DeploymentOf[x] = d /\ SceneOf[x] = s
        BY <1>3
      <4>3. x # b /\ (DeploymentOf[b] # d \/ SceneOf[b] # s)
        BY <1>3, <2>3, <3>2, <3>4
      <4> QED
        BY <4>1, <4>2, <4>3 DEF Ends
    <3>5. ActiveAt(b)'
      BY <1>1, <1>2, <2>1, <3>2, <3>4, ActiveStays
    <3> QED
      BY <3>3, <3>5
  <2> QED
    BY <2>2, <2>3
<1>8. \A i \in 1..Len(events') : ReuseAt(i)'
  <2>1. \A k \in NewEvents : ReuseAt(k)'
    BY <1>2 DEF ReuseAt
  <2> QED
    BY <1>2, <1>5, <2>1, ReusesStay
<1>9. \A i \in 1..Len(events') : EventValid(events'[i])
  BY <1>2, EventsStayValid DEF IInv
<1>10. SightsAgree'
  <2>1. ASSUME NEW b \in Catalogued
        PROVE  /\ state'[b] # "absent"
               /\ \/ generation'[b] > generation[b]
                  \/ generation'[b] = generation[b] /\ state'[b] = state[b]
    <3>1. b \in Artifacts /\ generation[b] \in Nat /\ state[b] # "absent"
      BY <1>1 DEF Catalogued, TypeOK
    <3>2. CASE b \in S
      BY <1>5, <3>1, <3>2
    <3>3. CASE b \notin S
      BY <1>5, <3>1, <3>3
    <3> QED
      BY <3>2, <3>3
  <2> QED
    BY <1>5, <1>6, <2>1, SightsStay DEF IInv
<1> QED
  BY <1>6, <1>7, <1>8, <1>9, <1>10 DEF IInv

LEMMA NextStep ==
    ASSUME IInv, [Next]_vars
    PROVE  IInv'
<1>1. CASE UNCHANGED vars
  <2>1. seen' \in [Callers -> SUBSET Sights]
    BY <1>1 DEF vars, IInv, TypeOK
  <2> QED
    BY <1>1, <2>1, QuietStep DEF vars
<1>2. ASSUME NEW n \in EventLimits, NEW c \in Callers, NEW a \in Artifacts,
             RegisterArtifact(c, a, n)
      PROVE  IInv'
  <2>1. CASE Register(a, n)
    BY <1>2, <2>1, RegisterStep DEF RegisterArtifact
  <2>2. CASE a \in Catalogued /\ UNCHANGED <<state, generation, registered, events>>
    BY <1>2, <2>2, ReadStep DEF RegisterArtifact
  <2> QED
    BY <1>2, <2>1, <2>2 DEF RegisterArtifact
<1>3. ASSUME NEW c \in Callers, NEW a \in Artifacts, Read(c, a)
      PROVE  IInv'
  BY <1>3, ReadStep DEF Read
<1>4. ASSUME Next
      PROVE  IInv'
  BY <1>2, <1>3, <1>4, TransitionStep, RecordReuseStep, InvalidateStep DEF Next
<1> QED
  BY <1>1, <1>4

LEMMA LimitsAreNaturals ==
    /\ MostArtifacts \in Nat /\ MostEvents \in Nat
    /\ MaxArtifacts \in Nat /\ EventLimits \subseteq Nat
<1>1. MostArtifacts \in Nat /\ MostEvents \in Nat
  BY SMT DEF MostArtifacts, MostEvents
<1> QED
  BY <1>1, LimitsAssumption

LEMMA InitStep ==
    ASSUME Init
    PROVE  IInv
<1>1. Catalogued = {} /\ Len(events) = 0 /\ events \in Seq(Events)
  BY DEF Init, Catalogued
<1>2. TypeOK
  <2>1. Cardinality(Catalogued) <= MaxArtifacts
    BY <1>1, FS_EmptySet, LimitsAssumption
  <2>2. \E n \in EventLimits : Len(events) <= n
    <3>1. PICK n \in EventLimits : n \in Nat
      BY LimitsAreNaturals, LimitsAssumption
    <3>2. 0 <= n
      BY <3>1
    <3> QED
      BY <1>1, <3>2
  <2>3. 0 \in 0..Len(events)
    BY <1>1
  <2> QED
    BY <1>1, <2>1, <2>2, <2>3 DEF Init, TypeOK
<1>3. \A a \in Artifacts : Replays(a) /\ ActiveAt(a)
  BY <1>1 DEF Init, Replays, ActiveAt, About
<1>4. \A i \in 1..Len(events) : ReuseAt(i) /\ EventValid(events[i])
  BY <1>1
<1>5. SightsAgree
  BY DEF Init, SightsAgree
<1> QED
  BY <1>2, <1>3, <1>4, <1>5 DEF IInv

LEMMA Invariance == Spec => []IInv
<1>1. Init => IInv
  BY InitStep
<1>2. IInv /\ [Next]_vars => IInv'
  BY NextStep
<1> QED
  BY <1>1, <1>2, PTL DEF Spec

(* The members of SafetyMemory and what callers have read have their types,  *)
(* and neither the catalogue nor the log passes its limit.                   *)
THEOREM TypeCorrect == Spec => []TypeOK
<1>1. IInv => TypeOK
  BY DEF IInv
<1> QED
  BY <1>1, Invariance, PTL

(* The log always replays to the catalogue (SafetyMemory::valid()).          *)
THEOREM LogAlwaysReplays == Spec => []LogReplays
<1>1. ASSUME IInv
      PROVE  LogReplays
  <2>1. Cardinality(Catalogued) <= MostArtifacts
    <3>1. Cardinality(Catalogued) \in Nat
      BY ArtifactsAssumption, FS_Subset, FS_CardinalityType DEF Catalogued
    <3> QED
      BY <1>1, <3>1, LimitsAreNaturals, LimitsAssumption DEF IInv, TypeOK
  <2>2. Len(events) <= MostEvents
    BY <1>1, LimitsAreNaturals, LimitsAssumption DEF IInv, TypeOK
  <2> QED
    BY <1>1, <2>1, <2>2 DEF IInv, LogReplays, Valid
<1> QED
  BY <1>1, Invariance, PTL

(* No reuse is recorded of an artifact that was changed or invalidated since *)
(* it was registered (record_reuse(), docs/safety-memory.md:42-55).          *)
THEOREM OnlyCurrentIsReused == Spec => []ReuseIsCurrent
<1>1. ASSUME IInv, NEW i \in 1..Len(events), events[i].type = "reuse"
      PROVE  LET a == events[i].artifact IN
             /\ events[i].scene = SceneOf[a]
             /\ \A j \in registered[a]..(i - 1) :
                   /\ j \notin Changes(a)
                   /\ events[j].type = "invalidated" /\ SceneOf[events[j].artifact] = SceneOf[a]
                         => DeploymentOf[events[j].artifact] # DeploymentOf[a]
  <2>1. ReuseAt(i)
    BY <1>1 DEF IInv
  <2> QED
    BY <1>1, <2>1 DEF ReuseAt, Ends, Changes, About
<1>2. IInv => ReuseIsCurrent
  BY <1>1 DEF ReuseIsCurrent
<1> QED
  BY <1>2, Invariance, PTL

(* Calls that leave every sight, or replace one by another. *)
LEMMA SightsKept ==
    ASSUME TypeOK, NEW c \in Callers, NEW d \in Callers, NEW x,
           seen' = seen \/ seen' = [seen EXCEPT ![c] = {x}]
    PROVE  SawPrevious(d)
<1>1. \A s \in seen[d] : seen'[d] # {}
  BY DEF TypeOK
<1> QED
  BY <1>1 DEF SawPrevious

(* Calls that log no invalidation. *)
LEMMA NoneInvalidated ==
    ASSUME NEW d, NEW s, \A k \in NewEvents : events'[k].type # "invalidated"
    PROVE  InvalidatedWhole(d, s)
BY DEF InvalidatedWhole, NewEvents

LEMMA LogKept ==
    ASSUME TypeOK, events' = events
    PROVE  NewEvents = {}
BY DEF TypeOK, NewEvents

(* Whoever changes an artifact's state had seen the state that it changes,   *)
(* and an invalidation leaves no active artifact of its scene behind         *)
(* (transition(), invalidate_scene(), docs/safety-memory.md:30-38).          *)
THEOREM NothingChangesUnseen == Spec => ChangesAreSeenAndWhole
<1> DEFINE Seen == \A c \in Callers : SawPrevious(c)
           Whole == \A d \in Deployments, s \in Scenes : InvalidatedWhole(d, s)
<1>1. ASSUME IInv, NEW n \in EventLimits, NEW c \in Callers, NEW a \in Artifacts,
             RegisterArtifact(c, a, n)
      PROVE  Seen /\ Whole
  <2>1. Seen
    BY <1>1, SightsKept DEF RegisterArtifact, IInv
  <2>2. \A k \in NewEvents : events'[k].type # "invalidated"
    <3>1. CASE events' = events
      BY <1>1, <3>1, LogKept DEF IInv
    <3>2. CASE Register(a, n)
      <4> DEFINE e == Event("registered", a, "active", "active")
      <4>1. e \in Events /\ e.type = "registered"
        <5>1. e \in Events
          BY IsEvent DEF EventTypes, States
        <5> QED
          BY <5>1 DEF Event
      <4>2. events \in Seq(Events) /\ events' = Append(events, e)
        BY <1>1, <3>2 DEF Register, IInv, TypeOK
      <4> HIDE DEF e
      <4> QED
        BY <4>1, <4>2, OneEvent
    <3> QED
      BY <1>1, <3>1, <3>2 DEF RegisterArtifact
  <2> QED
    BY <2>1, <2>2, NoneInvalidated
<1>2. ASSUME IInv, NEW c \in Callers, NEW a \in Artifacts, Read(c, a)
      PROVE  Seen /\ Whole
  <2>1. Seen
    BY <1>2, SightsKept DEF Read, IInv
  <2>2. NewEvents = {}
    BY <1>2, LogKept DEF Read, IInv
  <2> QED
    BY <2>1, <2>2, NoneInvalidated
<1>3. ASSUME IInv, NEW n \in EventLimits, NEW c \in Callers, NEW s \in seen[c],
             NEW target \in States, Transition(c, s, target, n)
      PROVE  Seen /\ Whole
  <2>1. PICK a \in Artifacts : a = s.artifact /\ a \in Catalogued
    BY <1>3 DEF IInv, SightsAgree, Catalogued
  <2> DEFINE e == Event("transition", a, state[a], target)
  <2>2. e \in Events
    BY <1>3, <2>1, IsEvent DEF EventTypes, States, Catalogued, IInv, TypeOK
  <2>3. e.type = "transition" /\ e.previous = state[a]
    BY DEF Event
  <2>4. events \in Seq(Events) /\ events' = Append(events, e)
    BY <1>3, <2>1 DEF Transition, IInv, TypeOK
  <2> HIDE DEF e
  <2>5. NewEvents = {Len(events')} /\ events'[Len(events')] = e
    BY <2>2, <2>4, OneEvent
  <2>6. ASSUME NEW b \in Callers, NEW t \in seen[b], seen'[b] = {}
        PROVE  t.state = events'[Len(events')].previous
    <3>1. CASE b = c
      <4>1. t = s /\ (s.generation = generation[a] => s.state = state[a])
        BY <1>3, <2>1, <2>6, <3>1 DEF IInv, SightsAgree
      <4>2. s.generation = generation[a]
        BY <1>3, <2>1 DEF Transition
      <4> QED
        BY <2>3, <2>5, <4>1, <4>2
    <3>2. CASE b # c
      BY <1>3, <2>6, <3>2 DEF Transition, IInv, TypeOK
    <3> QED
      BY <3>1, <3>2
  <2>7. Seen
    BY <2>6 DEF SawPrevious
  <2> QED
    BY <2>3, <2>5, <2>7, NoneInvalidated
<1>4. ASSUME IInv, NEW n \in EventLimits, NEW c \in Callers, NEW s \in seen[c],
             NEW q \in Queries, RecordReuse(c, s, q, n)
      PROVE  Seen /\ Whole
  <2>1. PICK a \in Artifacts : a = s.artifact /\ state[a] = "active"
    BY <1>4 DEF IInv, SightsAgree, RecordReuse, Direct, Catalogued
  <2> DEFINE e == [Event("reuse", a, state[a], state[a]) EXCEPT !.task = q.task, !.scene = q.scene]
  <2>2. e \in Events /\ e.type = "reuse"
    <3>1. q.task \in Tasks /\ q.scene \in Scenes
      BY DEF Queries
    <3> QED
      BY <2>1, <3>1, ArtifactsAssumption DEF Event, Events, EventTypes, States
  <2>3. events \in Seq(Events) /\ events' = Append(events, e)
    BY <1>4, <2>1 DEF RecordReuse, IInv, TypeOK
  <2> HIDE DEF e
  <2>4. NewEvents = {Len(events')} /\ events'[Len(events')] = e
    BY <2>2, <2>3, OneEvent
  <2>5. Seen
    BY <1>4, SightsKept DEF RecordReuse, IInv
  <2> QED
    BY <2>2, <2>4, <2>5, NoneInvalidated
<1>5. ASSUME IInv, NEW n \in EventLimits, NEW d \in Deployments, NEW s \in Scenes,
             InvalidateScene(d, s, n)
      PROVE  Seen /\ Whole
  <2>1. TypeOK /\ MakeStale(Matching(d, s))
    BY <1>5 DEF IInv, InvalidateScene
  <2>2. Seen
    BY <2>1, SightsKept DEF MakeStale
  <2>3. ASSUME NEW e \in Deployments, NEW t \in Scenes, NEW k \in NewEvents,
               events'[k].scene = t, DeploymentOf[events'[k].artifact] = e,
               NEW a \in Artifacts, state'[a] = "active", DeploymentOf[a] = e, SceneOf[a] = t
        PROVE  FALSE
    <3>1. PICK x \in Matching(d, s) : events'[k].artifact = x /\ events'[k].scene = s
      BY <2>1, Invalidated
    <3>2. e = d /\ t = s
      BY <2>3, <3>1 DEF Matching
    <3>3. a \notin Matching(d, s) /\ state[a] = "active"
      BY <2>1, <2>3 DEF MakeStale
    <3> QED
      BY <2>3, <3>2, <3>3 DEF Matching
  <2>4. Whole
    BY <2>3 DEF InvalidatedWhole, NewEvents
  <2> QED
    BY <2>2, <2>4
<1>6. IInv /\ Next => Seen /\ Whole
  BY <1>1, <1>2, <1>3, <1>4, <1>5 DEF Next
<1>7. IInv /\ [Next]_vars => [Seen /\ Whole]_vars
  BY <1>6
<1> QED
  BY <1>7, Invariance, PTL DEF Spec, ChangesAreSeenAndWhole

-----------------------------------------------------------------------------
(* Fleet schedules, made of reservations whose sources are in the memory     *)
(* (the other half of src/memory.cpp, and fleet_schedule_archive.cpp).       *)
CONSTANTS Envelope, Sources, SourceOf, Boxes, Windows, Margins,
          MaxReservations, MaxPairs, MaxVersions

VARIABLES active, reservations, versions, heads

Fleet == INSTANCE FleetSchedule WITH seen <- heads

(* The instance counts as this module does. *)
LEMMA FleetCounts == \A S : Fleet!Cardinality(S) = Cardinality(S)
BY DEF Fleet!Cardinality, Cardinality

(* The numbers of a reservation that is well formed. *)
Sound(r) == r \in Fleet!Reservations /\ Fleet!WellFormed(r)

LEMMA SoundNumbers ==
    ASSUME Fleet!Measured, NEW r, Sound(r)
    PROVE  /\ r.box[1] \in Int /\ r.box[2] \in Int /\ r.box[1] <= r.box[2]
           /\ r.window[1] \in Int /\ r.window[2] \in Int /\ r.window[1] < r.window[2]
           /\ r.margin \in Int /\ 0 <= r.margin
<1>1. r.box \in Int \X Int /\ r.window \in Int \X Int /\ r.margin \in Int
  BY DEF Fleet!Measured, Sound, Fleet!Reservations
<1> QED
  BY <1>1 DEF Sound, Fleet!WellFormed

(* The reservations of a schedule can be sorted, equal windows in some order. *)
LEMMA SortedExists ==
    ASSUME Fleet!Measured, NEW R, IsFiniteSet(R), \A r \in R : Sound(r)
    PROVE  /\ Cardinality(R) \in Nat
           /\ Fleet!Sorted(R) \in [1..Cardinality(R) -> R]
           /\ \A i, j \in 1..Cardinality(R) : i < j =>
                 /\ Fleet!Sorted(R)[i] # Fleet!Sorted(R)[j]
                 /\ Fleet!Before(Fleet!Sorted(R)[i], Fleet!Sorted(R)[j])
           /\ \A r \in R : \E i \in 1..Cardinality(R) : Fleet!Sorted(R)[i] = r
<1> DEFINE n == Cardinality(R)
           InOrderOf(q) == \A i, j \in DOMAIN q : i < j => q[i] # q[j] /\ Fleet!Before(q[i], q[j])
<1>1. n \in Nat /\ ExistsBijection(1..n, R)
  BY FS_CardinalityType
<1>2. PICK f \in Bijection(1..n, R) : TRUE
  BY <1>1 DEF ExistsBijection
<1> DEFINE place == [r \in R |-> CHOOSE i \in 1..n : f[i] = r]
<1>3. \A r \in R : place[r] \in 1..n /\ f[place[r]] = r
  BY <1>2 DEF Bijection, Surjection
<1> HIDE DEF place
<1> DEFINE T == {p \in R \X R :
                   \/ p[1].window[1] < p[2].window[1]
                   \/ /\ p[1].window[1] = p[2].window[1]
                      /\ \/ p[1].window[2] < p[2].window[2]
                         \/ p[1].window[2] = p[2].window[2] /\ place[p[1]] < place[p[2]]}
<1>4. \A r \in R : /\ r.window[1] \in Int /\ r.window[2] \in Int /\ place[r] \in Int
                   /\ \A s \in R : place[r] = place[s] => r = s
  BY <1>1, <1>3, SoundNumbers
<1>5. StrictOrder(R, T)
  BY <1>4 DEF StrictOrder
<1>6. PICK q \in [1..n -> R] : \A i, j \in 1..n : i < j => <<q[i], q[j]>> \in T
  <2> HIDE DEF T
  <2> QED
    BY <1>5, OrderListsSet
<1>7. \A r, s \in R : <<r, s>> \in T => r # s /\ Fleet!Before(r, s)
  BY <1>4 DEF Fleet!Before
<1>8. InOrderOf(q)
  <2> HIDE DEF T
  <2> QED
    BY <1>6, <1>7
<1>9. Fleet!Sorted(R) = CHOOSE g \in [1..n -> R] : InOrderOf(g)
  BY FleetCounts DEF Fleet!Sorted
<1> HIDE DEF n, InOrderOf, T
<1>10. Fleet!Sorted(R) \in [1..n -> R] /\ InOrderOf(Fleet!Sorted(R))
  BY <1>6, <1>8, <1>9
<1>11. PICK g \in [1..n -> R] : g = Fleet!Sorted(R)
  BY <1>10
<1>12. \A i, j \in 1..n : i < j => g[i] # g[j] /\ Fleet!Before(g[i], g[j])
  BY <1>10, <1>11 DEF InOrderOf
<1>13. \A r \in R : \E i \in 1..n : g[i] = r
  <2>1. \A i, j \in 1..n : i < j => g[i] # g[j]
    BY <1>12
  <2> QED
    BY <2>1, ListIsOnto DEF n
<1> QED
  BY <1>1, <1>11, <1>12, <1>13 DEF n

(* The boxes, distances and margins that the sweep compares say whether two  *)
(* robots may come too close at some position.                               *)
LEMMA BoxesTellClash ==
    ASSUME Fleet!Measured, NEW r, NEW s, Sound(r), Sound(s)
    PROVE  Fleet!Clash(r, s) <=> Fleet!TimeOverlaps(r, s) /\ Fleet!InTheWay(r, s)
<1> DEFINE Close(x, y) == x = y \/ \E m \in {r.margin, s.margin} : x - y < m /\ y - x < m
<1>1. /\ r.box[1] \in Int /\ r.box[2] \in Int /\ r.box[1] <= r.box[2]
      /\ s.box[1] \in Int /\ s.box[2] \in Int /\ s.box[1] <= s.box[2]
      /\ r.window[1] \in Int /\ r.window[2] \in Int /\ r.window[1] < r.window[2]
      /\ s.window[1] \in Int /\ s.window[2] \in Int /\ s.window[1] < s.window[2]
      /\ r.margin \in Int /\ 0 <= r.margin /\ s.margin \in Int /\ 0 <= s.margin
  BY SoundNumbers
<1>2. Fleet!Ticks(r, s) # {} <=> Fleet!TimeOverlaps(r, s)
  <2>1. ASSUME NEW t \in Fleet!Ticks(r, s)
        PROVE  Fleet!TimeOverlaps(r, s)
    BY <1>1, <2>1 DEF Fleet!Ticks, Fleet!At, Fleet!TimeOverlaps
  <2>2. ASSUME Fleet!TimeOverlaps(r, s)
        PROVE  Fleet!Ticks(r, s) # {}
    <3> DEFINE t == IF r.window[1] < s.window[1] THEN s.window[1] ELSE r.window[1]
    <3>1. t \in Fleet!Ticks(r, s)
      BY <1>1, <2>2 DEF Fleet!Ticks, Fleet!At, Fleet!TimeOverlaps
    <3> QED
      BY <3>1
  <2> QED
    BY <2>1, <2>2
<1>3. ASSUME NEW x \in r.box[1]..r.box[2], NEW y \in s.box[1]..s.box[2], Close(x, y)
      PROVE  Fleet!Overlap(r.box, s.box) \/ Fleet!Distance(r.box, s.box) < Fleet!RequiredMargin(r, s)
  BY <1>1, <1>3 DEF Fleet!Overlap, Fleet!Distance, Fleet!RequiredMargin, Fleet!Larger
<1>4. ASSUME Fleet!Overlap(r.box, s.box) \/ Fleet!Distance(r.box, s.box) < Fleet!RequiredMargin(r, s)
      PROVE  \E x \in r.box[1]..r.box[2], y \in s.box[1]..s.box[2] : Close(x, y)
  <2>1. CASE Fleet!Overlap(r.box, s.box)
    <3> DEFINE x == IF r.box[1] < s.box[1] THEN s.box[1] ELSE r.box[1]
    <3>1. x \in r.box[1]..r.box[2] /\ x \in s.box[1]..s.box[2]
      BY <1>1, <2>1 DEF Fleet!Overlap
    <3> QED
      BY <3>1
  <2>2. CASE Fleet!Distance(r.box, s.box) < Fleet!RequiredMargin(r, s) /\ r.box[2] < s.box[1]
    <3>1. Close(r.box[2], s.box[1])
      BY <1>1, <2>2 DEF Fleet!Distance, Fleet!RequiredMargin, Fleet!Larger
    <3> QED
      BY <1>1, <3>1
  <2>3. CASE Fleet!Distance(r.box, s.box) < Fleet!RequiredMargin(r, s) /\ s.box[2] < r.box[1]
    <3>1. Close(r.box[1], s.box[2])
      BY <1>1, <2>3 DEF Fleet!Distance, Fleet!RequiredMargin, Fleet!Larger
    <3> QED
      BY <1>1, <3>1
  <2> QED
    BY <1>1, <1>4, <2>1, <2>2, <2>3 DEF Fleet!Overlap
<1> QED
  BY <1>2, <1>3, <1>4 DEF Fleet!Clash, Fleet!InTheWay

(* The pairs that the sweep evaluates are the pairs whose windows overlap,   *)
(* though its inner loop breaks at the first window that begins too late.    *)
LEMMA SweepFindsOverlaps ==
    ASSUME Fleet!Measured, NEW R, IsFiniteSet(R), \A r \in R : Sound(r)
    PROVE  LET q == Fleet!Sorted(R) IN
           /\ \A e \in Fleet!Evaluated(q) :
                 /\ q[e[1]] \in R /\ q[e[2]] \in R /\ q[e[1]] # q[e[2]]
                 /\ Fleet!TimeOverlaps(q[e[1]], q[e[2]])
           /\ \A r, s \in R : r # s /\ Fleet!TimeOverlaps(r, s) =>
                 \E e \in Fleet!Evaluated(q) : {q[e[1]], q[e[2]]} = {r, s}
<1> DEFINE n == Cardinality(R)
<1>1. n \in Nat
  BY FS_CardinalityType
<1>2. PICK q \in [1..n -> R] : q = Fleet!Sorted(R)
  BY SortedExists
<1>3. /\ \A i, j \in 1..n : i < j => q[i] # q[j] /\ Fleet!Before(q[i], q[j])
      /\ \A r \in R : \E i \in 1..n : q[i] = r
  BY <1>2, SortedExists
<1> HIDE DEF n
<1>4. ASSUME NEW e \in Fleet!Evaluated(q)
      PROVE  /\ q[e[1]] \in R /\ q[e[2]] \in R /\ q[e[1]] # q[e[2]]
             /\ Fleet!TimeOverlaps(q[e[1]], q[e[2]])
  <2>1. e[1] \in 1..n /\ e[2] \in 1..n /\ e[1] < e[2] /\ Fleet!TimeOverlaps(q[e[1]], q[e[2]])
    BY DEF Fleet!Evaluated
  <2> QED
    BY <1>3, <2>1
<1>5. ASSUME NEW i \in 1..n, NEW j \in 1..n, i < j, Fleet!TimeOverlaps(q[i], q[j])
      PROVE  <<i, j>> \in Fleet!Evaluated(q)
  <2>1. ASSUME NEW k \in (i + 1)..j
        PROVE  q[k].window[1] < q[i].window[2]
    <3>1. k \in 1..n
      BY <1>1
    <3>2. /\ q[k].window[1] \in Int /\ q[j].window[1] \in Int /\ q[i].window[2] \in Int
      BY <3>1, SoundNumbers
    <3>3. q[k].window[1] <= q[j].window[1]
      <4>1. CASE k = j
        BY <3>2, <4>1
      <4>2. CASE k < j
        BY <1>3, <3>1, <3>2, <4>2 DEF Fleet!Before
      <4> QED
        BY <1>1, <3>1, <4>1, <4>2
    <3> QED
      BY <1>5, <3>2, <3>3 DEF Fleet!TimeOverlaps
  <2> QED
    BY <1>5, <2>1 DEF Fleet!Evaluated
<1>6. ASSUME NEW r \in R, NEW s \in R, r # s, Fleet!TimeOverlaps(r, s)
      PROVE  \E e \in Fleet!Evaluated(q) : {q[e[1]], q[e[2]]} = {r, s}
  <2>1. PICK i \in 1..n : q[i] = r
    BY <1>3
  <2>2. PICK j \in 1..n : q[j] = s
    BY <1>3
  <2>3. Fleet!TimeOverlaps(s, r)
    BY <1>6 DEF Fleet!TimeOverlaps
  <2>4. CASE i < j
    <3>1. <<i, j>> \in Fleet!Evaluated(q)
      BY <1>5, <1>6, <2>1, <2>2, <2>4
    <3> QED
      BY <2>1, <2>2, <3>1
  <2>5. CASE j < i
    <3>1. <<j, i>> \in Fleet!Evaluated(q)
      BY <1>5, <2>1, <2>2, <2>3, <2>5
    <3> QED
      BY <2>1, <2>2, <3>1
  <2>6. i < j \/ j < i
    <3>1. i # j
      BY <1>6, <2>1, <2>2
    <3> QED
      BY <1>1, <3>1
  <2> QED
    BY <2>4, <2>5, <2>6
<1> QED
  BY <1>2, <1>4, <1>6, ZenonT(30)

(* analyze_fleet_schedule() reports the pairs of reservations that clash at  *)
(* some tick and position, all of them and no other.                         *)
THEOREM SweepIsExact ==
    ASSUME Fleet!Measured, NEW R, IsFiniteSet(R), \A r \in R : Sound(r)
    PROVE  Fleet!Exact(R, Fleet!Conflicts(R))
<1> DEFINE q == Fleet!Sorted(R)
           K == Fleet!Conflicts(R)
<1>1. \A k : k \in K <=>
         \E e \in Fleet!Evaluated(q) :
            /\ Fleet!InTheWay(q[e[1]], q[e[2]])
            /\ k = [pair |-> {q[e[1]], q[e[2]]}, reason |-> Fleet!Reason(q[e[1]], q[e[2]])]
  BY DEF Fleet!Conflicts, Fleet!Conflict
<1> HIDE DEF q, K
<1>2. /\ \A e \in Fleet!Evaluated(q) :
            /\ q[e[1]] \in R /\ q[e[2]] \in R /\ q[e[1]] # q[e[2]]
            /\ Fleet!TimeOverlaps(q[e[1]], q[e[2]])
      /\ \A r, s \in R : r # s /\ Fleet!TimeOverlaps(r, s) =>
            \E e \in Fleet!Evaluated(q) : {q[e[1]], q[e[2]]} = {r, s}
  BY SweepFindsOverlaps DEF q
<1>3. ASSUME NEW k \in K
      PROVE  \E p \in Fleet!ClashingPairs(R) : k.pair = {p[1], p[2]}
  <2>1. PICK e \in Fleet!Evaluated(q) :
           /\ Fleet!InTheWay(q[e[1]], q[e[2]])
           /\ k = [pair |-> {q[e[1]], q[e[2]]}, reason |-> Fleet!Reason(q[e[1]], q[e[2]])]
    BY <1>1
  <2>2. PICK r \in R, s \in R : r = q[e[1]] /\ s = q[e[2]]
    BY <1>2
  <2>3. r # s /\ Fleet!Clash(r, s)
    BY <1>2, <2>1, <2>2, BoxesTellClash
  <2>4. <<r, s>> \in Fleet!ClashingPairs(R)
    BY <2>3 DEF Fleet!ClashingPairs
  <2> QED
    BY <2>1, <2>2, <2>4
<1>4. ASSUME NEW p \in Fleet!ClashingPairs(R)
      PROVE  \E k \in K : k.pair = {p[1], p[2]}
  <2>1. PICK r \in R, s \in R : r = p[1] /\ s = p[2] /\ r # s /\ Fleet!Clash(r, s)
    BY DEF Fleet!ClashingPairs
  <2>2. Fleet!TimeOverlaps(r, s) /\ Fleet!InTheWay(r, s)
    BY <2>1, BoxesTellClash
  <2>3. PICK e \in Fleet!Evaluated(q) : {q[e[1]], q[e[2]]} = {r, s}
    BY <1>2, <2>1, <2>2
  <2>4. Fleet!InTheWay(s, r)
    <3>1. /\ r.box[1] \in Int /\ r.box[2] \in Int /\ s.box[1] \in Int /\ s.box[2] \in Int
          /\ r.margin \in Int /\ s.margin \in Int
      BY SoundNumbers
    <3> QED
      BY <2>2, <3>1 DEF Fleet!InTheWay, Fleet!Overlap, Fleet!Distance,
                        Fleet!RequiredMargin, Fleet!Larger
  <2>5. PICK a, b : a = q[e[1]] /\ b = q[e[2]]
    OBVIOUS
  <2>6. (a = r /\ b = s) \/ (a = s /\ b = r)
    BY <2>1, <2>3, <2>5
  <2>7. Fleet!InTheWay(a, b)
    BY <2>2, <2>4, <2>6
  <2>8. [pair |-> {a, b}, reason |-> Fleet!Reason(a, b)] \in K
    BY <1>1, <2>5, <2>7
  <2> QED
    BY <2>1, <2>3, <2>5, <2>8
<1> QED
  <2>1. {k.pair : k \in K} \subseteq {{p[1], p[2]} : p \in Fleet!ClashingPairs(R)}
    BY <1>3
  <2>2. {{p[1], p[2]} : p \in Fleet!ClashingPairs(R)} \subseteq {k.pair : k \in K}
    BY <1>4
  <2> QED
    BY <2>1, <2>2 DEF Fleet!Exact, K

(* Every version of an archive, at all times, is what the analysis of its    *)
(* reservations with the memory of its moment reports.                       *)
Schedules ==
    [memory : SUBSET Sources, reservations : SUBSET Fleet!Reservations,
     conflicts : SUBSET [pair : SUBSET Fleet!Reservations, reason : Fleet!Reasons], pairs : Nat]

Analyzed(v) ==
    /\ IsFiniteSet(v.reservations) /\ \A r \in v.reservations : Sound(r)
    /\ Fleet!Analyzable(v.memory, v.reservations)
    /\ v.conflicts = Fleet!Conflicts(v.reservations)
    /\ v.pairs = Fleet!Cardinality(Fleet!Evaluated(Fleet!Sorted(v.reservations)))

FleetInv ==
    /\ active \in SUBSET Sources
    /\ IsFiniteSet(reservations) /\ Fleet!Cardinality(reservations) <= MaxReservations
    /\ \A r \in reservations : Sound(r)
    /\ versions \in Seq(Schedules) /\ Len(versions) <= MaxVersions
    /\ \A i \in 1..Len(versions) : Analyzed(versions[i])
    /\ \A i \in 1..(Len(versions) - 1) : versions[i] # versions[i + 1]
    /\ heads \in [Callers -> 0..Len(versions)]

(* What a report contains. *)
LEMMA ReportTyped ==
    ASSUME Fleet!Measured, NEW R, IsFiniteSet(R), \A r \in R : Sound(r)
    PROVE  /\ Fleet!Conflicts(R) \subseteq [pair : SUBSET R, reason : Fleet!Reasons]
           /\ Fleet!Cardinality(Fleet!Evaluated(Fleet!Sorted(R))) \in Nat
<1> DEFINE q == Fleet!Sorted(R)
           n == Cardinality(R)
<1>1. \A e \in Fleet!Evaluated(q) : q[e[1]] \in R /\ q[e[2]] \in R
  BY SweepFindsOverlaps
<1>2. \A r, s \in R : Fleet!Conflict(r, s) \subseteq [pair : SUBSET R, reason : Fleet!Reasons]
  <2> SUFFICES ASSUME NEW r \in R, NEW s \in R
               PROVE  Fleet!Conflict(r, s) \subseteq [pair : SUBSET R, reason : Fleet!Reasons]
    OBVIOUS
  <2>1. Fleet!Reason(r, s) \in Fleet!Reasons
    BY DEF Fleet!Reason, Fleet!Reasons
  <2>2. [pair |-> {r, s}, reason |-> Fleet!Reason(r, s)] \in [pair : SUBSET R, reason : Fleet!Reasons]
    BY <2>1
  <2> QED
    BY <2>2 DEF Fleet!Conflict
<1>3. n \in Nat /\ q \in [1..n -> R]
  BY SortedExists
<1>4. Fleet!Evaluated(q) \in SUBSET ((1..n) \X (1..n))
  BY <1>3 DEF Fleet!Evaluated
<1>5. IsFiniteSet((1..n) \X (1..n))
  <2>1. IsFiniteSet(1..n)
    BY <1>3, FS_Interval
  <2> HIDE DEF n
  <2> QED
    BY <2>1, FS_Product
<1>6. Cardinality(Fleet!Evaluated(q)) \in Nat
  BY <1>4, <1>5, FS_Subset, FS_CardinalityType
<1> HIDE DEF q, n
<1> QED
  BY <1>1, <1>2, <1>6, FleetCounts DEF Fleet!Conflicts, q

LEMMA FleetInit == Fleet!Measured /\ Fleet!Init => FleetInv
<1> SUFFICES ASSUME Fleet!Measured, Fleet!Init PROVE FleetInv
  OBVIOUS
<1>1. IsFiniteSet({}) /\ Fleet!Cardinality({}) = 0
  BY FS_EmptySet, FleetCounts
<1>2. MaxReservations \in Nat /\ MaxVersions \in Nat
  BY DEF Fleet!Measured
<1>3. versions = <<>> /\ reservations = {} /\ active = Sources /\ heads = [c \in Callers |-> 0]
  BY DEF Fleet!Init
<1> QED
  BY <1>1, <1>2, <1>3 DEF FleetInv

(* publish() adds one version, of the present memory and not the head again. *)
LEMMA PublishStep ==
    ASSUME Fleet!Measured, FleetInv, NEW c \in Callers, NEW R \in SUBSET reservations,
           Fleet!Publish(c, R)
    PROVE  FleetInv'
<1> DEFINE v == [memory |-> active, reservations |-> R, conflicts |-> Fleet!Conflicts(R),
                 pairs |-> Fleet!Cardinality(Fleet!Evaluated(Fleet!Sorted(R)))]
           n == Len(versions)
<1>1. /\ versions' = Append(versions, v) /\ n < MaxVersions /\ ~Fleet!IsCurrentVersion(R)
      /\ Fleet!Analyzable(active, R)
      /\ UNCHANGED <<active, reservations, heads>>
  BY DEF Fleet!Publish
<1>2. /\ active \in SUBSET Sources /\ versions \in Seq(Schedules) /\ n \in Nat
      /\ heads \in [Callers -> 0..n] /\ MaxVersions \in Nat
  BY DEF FleetInv, Fleet!Measured
<1>3. IsFiniteSet(R) /\ (\A r \in R : Sound(r)) /\ R \in SUBSET Fleet!Reservations
  BY FS_Subset DEF FleetInv, Sound
<1>4. /\ Fleet!Conflicts(R) \subseteq [pair : SUBSET R, reason : Fleet!Reasons]
      /\ Fleet!Cardinality(Fleet!Evaluated(Fleet!Sorted(R))) \in Nat
  BY <1>3, ReportTyped
<1>5. v \in Schedules /\ Analyzed(v)
  BY <1>1, <1>2, <1>3, <1>4 DEF Schedules, Analyzed
<1>6. n # 0 => versions[n] # v
  <2>1. v.memory = active /\ v.reservations = R
    OBVIOUS
  <2> HIDE DEF v
  <2> QED
    BY <1>1, <1>2, <2>1 DEF Fleet!IsCurrentVersion
<1> HIDE DEF v
<1>7. /\ versions' \in Seq(Schedules) /\ Len(versions') = n + 1
      /\ \A i \in 1..n : versions'[i] = versions[i]
      /\ versions'[n + 1] = v
  BY <1>1, <1>2, <1>5
<1>8. \A i \in 1..Len(versions') : Analyzed(versions'[i])
  <2>1. \A i \in 1..Len(versions') : i \in 1..n \/ i = n + 1
    BY <1>2, <1>7
  <2> QED
    BY <1>5, <1>7, <2>1 DEF FleetInv
<1>9. \A i \in 1..(Len(versions') - 1) : versions'[i] # versions'[i + 1]
  <2> SUFFICES ASSUME NEW i \in 1..n PROVE versions'[i] # versions'[i + 1]
    BY <1>2, <1>7
  <2>1. CASE i = n
    BY <1>2, <1>6, <1>7, <2>1
  <2>2. CASE i # n
    <3>1. i \in 1..(n - 1) /\ i + 1 \in 1..n
      BY <1>2, <2>2
    <3> QED
      BY <1>7, <3>1 DEF FleetInv
  <2> QED
    BY <2>1, <2>2
<1>10. heads' \in [Callers -> 0..Len(versions')] /\ Len(versions') <= MaxVersions
  BY <1>1, <1>2, <1>7
<1> QED
  BY <1>1, <1>7, <1>8, <1>9, <1>10 DEF FleetInv

LEMMA FleetNext == Fleet!Measured /\ FleetInv /\ [Fleet!Next]_(Fleet!vars) => FleetInv'
<1> SUFFICES ASSUME Fleet!Measured, FleetInv, [Fleet!Next]_(Fleet!vars) PROVE FleetInv'
  OBVIOUS
<1>1. ASSUME NEW s \in Sources, Fleet!SourceEnds(s)
      PROVE  FleetInv'
  BY <1>1 DEF Fleet!SourceEnds, FleetInv
<1>2. ASSUME NEW r \in Fleet!Reservations, Fleet!MakeFleetReservation(r)
      PROVE  FleetInv'
  <2>1. IsFiniteSet(reservations \cup {r})
    BY FS_AddElement DEF FleetInv
  <2> QED
    BY <1>2, <2>1 DEF Fleet!MakeFleetReservation, FleetInv, Sound
<1>3. ASSUME NEW c \in Callers, Fleet!ReadHead(c)
      PROVE  FleetInv'
  <2>1. Len(versions) \in 0..Len(versions)
    BY DEF FleetInv
  <2> QED
    BY <1>3, <2>1 DEF Fleet!ReadHead, FleetInv
<1>4. ASSUME NEW c \in Callers, NEW R \in SUBSET reservations, Fleet!Publish(c, R)
      PROVE  FleetInv'
  BY <1>4, PublishStep
<1>5. CASE UNCHANGED Fleet!vars
  BY <1>5 DEF Fleet!vars, FleetInv
<1> QED
  BY <1>1, <1>2, <1>3, <1>4, <1>5 DEF Fleet!Next

LEMMA FleetInvariance == Fleet!Measured => (Fleet!Spec => []FleetInv)
<1> SUFFICES ASSUME Fleet!Measured PROVE Fleet!Spec => []FleetInv
  OBVIOUS
<1>1. Fleet!Init => FleetInv
  BY FleetInit
<1>2. FleetInv /\ [Fleet!Next]_(Fleet!vars) => FleetInv'
  BY FleetNext
<1> QED
  BY <1>1, <1>2, PTL DEF Fleet!Spec

(* However many reservations a schedule has: no version of an archive misses *)
(* a clash or reports another, none is published twice in a row, and every   *)
(* one verifies with the memory that it was made from, whatever became of    *)
(* its sources (analyze_fleet_schedule(), FleetScheduleArchive::publish()    *)
(* and verify_version()).                                                    *)
THEOREM ArchiveIsExact ==
    Fleet!Measured =>
        (Fleet!Spec => [](Fleet!TypeOK /\ Fleet!ConflictsExact
                             /\ Fleet!NoVersionTwice /\ Fleet!VersionsReplay))
<1> SUFFICES ASSUME Fleet!Measured
             PROVE  Fleet!Spec => [](Fleet!TypeOK /\ Fleet!ConflictsExact
                                        /\ Fleet!NoVersionTwice /\ Fleet!VersionsReplay)
  OBVIOUS
<1>1. FleetInv => Fleet!TypeOK /\ Fleet!ConflictsExact /\ Fleet!NoVersionTwice /\ Fleet!VersionsReplay
  <2> SUFFICES ASSUME FleetInv
               PROVE  Fleet!TypeOK /\ Fleet!ConflictsExact /\ Fleet!NoVersionTwice /\ Fleet!VersionsReplay
    OBVIOUS
  <2>1. versions \in Seq(Schedules) /\ DOMAIN versions = 1..Len(versions)
    BY DEF FleetInv
  <2>2. ASSUME NEW i \in DOMAIN versions
        PROVE  /\ versions[i] \in Schedules /\ Analyzed(versions[i])
               /\ Fleet!Cardinality(Fleet!Evaluated(Fleet!Sorted(versions[i].reservations))) \in Nat
               /\ versions[i].conflicts \subseteq
                     [pair : SUBSET versions[i].reservations, reason : Fleet!Reasons]
    <3>1. versions[i] \in Schedules /\ Analyzed(versions[i])
      BY <2>1 DEF FleetInv
    <3> QED
      BY <3>1, ReportTyped DEF Analyzed
  <2>3. Fleet!ConflictsExact
    BY <2>2, SweepIsExact DEF Fleet!ConflictsExact, Analyzed
  <2>4. Fleet!NoVersionTwice
    BY DEF Fleet!NoVersionTwice, FleetInv
  <2>5. Fleet!VersionsReplay
    BY <2>2 DEF Fleet!VersionsReplay, Fleet!Replays, Fleet!ArchiveValid, Fleet!ReportValid,
                Analyzed, Sound
  <2>6. ASSUME NEW i \in DOMAIN versions
        PROVE  versions[i].pairs \in 0..MaxPairs
    <3>1. MaxPairs \in Nat
      BY DEF Fleet!Measured
    <3> QED
      BY <2>2, <3>1 DEF Analyzed, Fleet!Analyzable
  <2>7. Fleet!TypeOK
    BY <2>2, <2>6 DEF Fleet!TypeOK, FleetInv, Schedules, Sound
  <2> QED
    BY <2>3, <2>4, <2>5, <2>7
<1> QED
  BY <1>1, FleetInvariance, PTL

(* publish() archives a schedule only while every source of its reservations *)
(* is active, however long ago they were made (docs/safety-memory.md:82-84). *)
THEOREM SourcesStayCurrent == Fleet!Measured => (Fleet!Spec => Fleet!SourcesAreCurrent)
<1> SUFFICES ASSUME Fleet!Measured PROVE Fleet!Spec => Fleet!SourcesAreCurrent
  OBVIOUS
<1> DEFINE Published ==
        \A i \in (DOMAIN versions') \ (DOMAIN versions) :
           /\ versions'[i].memory = active
           /\ \A r \in versions'[i].reservations : r.source \in active
<1>1. FleetInv /\ [Fleet!Next]_(Fleet!vars) => [Published]_(Fleet!vars)
  <2> SUFFICES ASSUME FleetInv, Fleet!Next PROVE Published
    OBVIOUS
  <2>1. CASE versions' = versions
    BY <2>1
  <2>2. ASSUME NEW c \in Callers, NEW R \in SUBSET reservations, Fleet!Publish(c, R)
        PROVE  Published
    <3> DEFINE v == [memory |-> active, reservations |-> R, conflicts |-> Fleet!Conflicts(R),
                     pairs |-> Fleet!Cardinality(Fleet!Evaluated(Fleet!Sorted(R)))]
    <3>1. versions' = Append(versions, v) /\ \A r \in R : r.source \in active
      BY <2>2 DEF Fleet!Publish, Fleet!Analyzable, Fleet!SourceIsCurrent
    <3>2. v.memory = active /\ v.reservations = R
      OBVIOUS
    <3> HIDE DEF v
    <3>3. \A i \in (DOMAIN versions') \ (DOMAIN versions) : versions'[i] = v
      BY <3>1 DEF FleetInv
    <3> QED
      BY <3>1, <3>2, <3>3
  <2> QED
    BY <2>1, <2>2 DEF Fleet!Next, Fleet!SourceEnds, Fleet!MakeFleetReservation, Fleet!ReadHead
<1> QED
  BY <1>1, FleetInvariance, PTL DEF Fleet!Spec, Fleet!SourcesAreCurrent
-----------------------------------------------------------------------------
(* Exchanges with remote services, which are checked against the memory, and  *)
(* the journal of those that passed (src/remote.cpp), for any number of       *)
(* requests, keys and contents.                                               *)
CONSTANTS Contents, Policies, ServiceKeys, TrustedKey, MaxChanges, MaxRequests, MaxSequence,
          MaxRecords, Absent

VARIABLES memory, requests, responses, attestations, journal, saved,
          destination, aside, saving, older, step

Transfer == INSTANCE ArtifactTransfer

(* No journal is what stands for a missing file. *)
NotAJournal == \A S : Absent \notin Seq(S)

Entries == [generation : Nat, state : {"active", "stale"}, digest : Contents]

(* Transfer t happened, given what the memory was and what was sent. *)
HappenedIn(t, m, asked, answered, attested) ==
    /\ t.request \in asked
    /\ t.request.memory \in 1..Len(m) /\ m[t.request.memory] = t.request.entry
    /\ t.request.entry.state = "active"
    /\ t.response \in answered /\ t.response.request = t.request
    /\ t.response.digest = t.request.entry.digest
    /\ t.authentication # "none" =>
          [operation |-> t.request.operation, response |-> t.response, key |-> TrustedKey] \in attested

TrueIn(j, m, asked, answered, attested) ==
    /\ \E S : j \in Seq(S)
    /\ \A i \in 1..Len(j) : HappenedIn(j[i], m, asked, answered, attested)

(* Every journal there is, as an object or a file, under whatever name. *)
Journals == ({journal, saved, destination, saving, older} \cup aside) \ {Absent}

(* A request names the memory that it was made from; an attestation says    *)
(* what it is of.                                                            *)
ExchangesTyped ==
    /\ memory \in Seq(Entries) /\ memory # <<>>
    /\ \A r \in requests : r.memory \in 1..Len(memory) /\ memory[r.memory] = r.entry
    /\ \A a \in attestations : a = [operation |-> a.operation, response |-> a.response, key |-> a.key]

JournalsTrue ==
    /\ journal # Absent /\ saved # Absent
    /\ \A j \in Journals : TrueIn(j, memory, requests, responses, attestations)

(* Where save() is says what is under the name. *)
SaveKnows ==
    /\ step \in {"idle", "staged", "aside", "placed"}
    /\ step # "idle" => saving # Absent
    /\ step = "aside" => destination = Absent
    /\ step = "placed" => destination = saving

TransferInv ==
    /\ ExchangesTyped
    /\ JournalsTrue
    /\ SaveKnows
    /\ Transfer!SavedIsKept

(* What happened stays so when the memory moves on and messages are added. *)
LEMMA HappenedStays ==
    ASSUME NEW t, NEW m \in Seq(Entries), NEW n \in Seq(Entries), NEW rq, NEW rs, NEW at,
           NEW rq2, NEW rs2, NEW at2,
           Len(m) <= Len(n), \A i \in 1..Len(m) : n[i] = m[i],
           rq \subseteq rq2, rs \subseteq rs2, at \subseteq at2,
           HappenedIn(t, m, rq, rs, at)
    PROVE  HappenedIn(t, n, rq2, rs2, at2)
<1>1. t.request.memory \in 1..Len(n) /\ n[t.request.memory] = t.request.entry
  BY DEF HappenedIn
<1> QED
  BY <1>1 DEF HappenedIn

LEMMA TransferInit ==
    ASSUME NotAJournal, Transfer!Init
    PROVE  TransferInv
<1>1. PICK c \in Contents : memory = <<[generation |-> 1, state |-> "active", digest |-> c]>>
  BY DEF Transfer!Init
<1>2. ExchangesTyped
  <2>1. [generation |-> 1, state |-> "active", digest |-> c] \in Entries
    BY DEF Entries
  <2>2. memory \in Seq(Entries) /\ memory # <<>>
    BY <1>1, <2>1
  <2> QED
    BY <2>2 DEF Transfer!Init, ExchangesTyped
<1>3. JournalsTrue
  <2>1. <<>> \in Seq({}) /\ Len(<<>>) = 0
    OBVIOUS
  <2>2. <<>> # Absent
    BY <2>1 DEF NotAJournal
  <2>3. TrueIn(<<>>, memory, requests, responses, attestations)
    BY <2>1 DEF TrueIn
  <2>4. Journals = {<<>>} /\ journal = <<>> /\ saved = <<>>
    BY <2>2 DEF Journals, Transfer!Init, Transfer!SaverInit
  <2> QED
    BY <2>2, <2>3, <2>4 DEF JournalsTrue
<1>4. SaveKnows /\ Transfer!SavedIsKept
  BY DEF Transfer!Init, Transfer!SaverInit, SaveKnows, Transfer!SavedIsKept
<1> QED
  BY <1>2, <1>3, <1>4 DEF TransferInv

(* A step that only adds messages, or changes of the memory, keeps all that   *)
(* is known of the journals.                                                  *)
LEMMA ExchangeKeepsTransfers ==
    ASSUME TransferInv, ExchangesTyped', Len(memory) <= Len(memory'),
           \A i \in 1..Len(memory) : memory'[i] = memory[i],
           requests \subseteq requests', responses \subseteq responses',
           attestations \subseteq attestations',
           UNCHANGED <<journal, saved, destination, aside, saving, older, step>>
    PROVE  TransferInv'
<1>1. memory \in Seq(Entries) /\ memory' \in Seq(Entries)
  BY DEF TransferInv, ExchangesTyped
<1>2. ASSUME NEW j, TrueIn(j, memory, requests, responses, attestations)
      PROVE  TrueIn(j, memory', requests', responses', attestations')
  BY <1>1, <1>2, HappenedStays DEF TrueIn
<1>3. JournalsTrue'
  BY <1>2 DEF TransferInv, JournalsTrue, Journals
<1>4. SaveKnows' /\ Transfer!SavedIsKept'
  BY DEF TransferInv, SaveKnows, Transfer!SavedIsKept
<1> QED
  BY <1>3, <1>4 DEF TransferInv
LEMMA MemoryKeepsTransfers ==
    ASSUME TransferInv, NEW state2 \in {"active", "stale"}, NEW c \in Contents,
           Transfer!MemoryChanges(state2, c)
    PROVE  TransferInv'
<1> DEFINE entry == [generation |-> memory[Len(memory)].generation + 1, state |-> state2, digest |-> c]
<1>1. /\ memory' = Append(memory, entry)
      /\ UNCHANGED <<requests, responses, attestations>>
      /\ UNCHANGED <<journal, saved, destination, aside, saving, older, step>>
  BY DEF Transfer!MemoryChanges, Transfer!Entry, Transfer!Now, Transfer!disk, Transfer!saver
<1>2. entry \in Entries
  <2>1. Len(memory) \in 1..Len(memory) /\ memory \in Seq(Entries)
    BY DEF TransferInv, ExchangesTyped
  <2>2. memory[Len(memory)] \in Entries
    BY <2>1
  <2> QED
    BY <2>2 DEF Entries
<1> HIDE DEF entry
<1>3. /\ memory' \in Seq(Entries) /\ memory' # <<>> /\ Len(memory') = Len(memory) + 1
      /\ \A i \in 1..Len(memory) : memory'[i] = memory[i]
      /\ Len(memory) \in Nat
  BY <1>1, <1>2 DEF TransferInv, ExchangesTyped
<1>4. ExchangesTyped'
  BY <1>1, <1>3 DEF TransferInv, ExchangesTyped
<1> QED
  BY <1>1, <1>3, <1>4, ExchangeKeepsTransfers

LEMMA PrepareKeepsTransfers ==
    ASSUME TransferInv, NEW operation, NEW c, NEW policy, Transfer!Prepare(operation, c, policy)
    PROVE  TransferInv'
<1> DEFINE n == Len(memory)
           r == [operation |-> operation, sequence |-> Transfer!Cardinality(requests) + 1, memory |-> n,
                 entry |-> memory[n], policy |-> policy]
<1>1. /\ requests' = requests \cup {r}
      /\ UNCHANGED <<memory, responses, attestations>>
      /\ UNCHANGED <<journal, saved, destination, aside, saving, older, step>>
  BY DEF Transfer!Prepare, Transfer!Entry, Transfer!Now, Transfer!disk, Transfer!saver
<1>2. memory \in Seq(Entries) /\ n \in 1..n
  BY DEF TransferInv, ExchangesTyped
<1>3. r.memory = n /\ r.entry = memory[n]
  OBVIOUS
<1> HIDE DEF r
<1>4. ExchangesTyped'
  BY <1>1, <1>2, <1>3 DEF TransferInv, ExchangesTyped
<1> QED
  BY <1>1, <1>2, <1>4, ExchangeKeepsTransfers

LEMMA MessageKeepsTransfers ==
    ASSUME TransferInv,
           \/ \E request, c, n : Transfer!Respond(request, c, n)
           \/ \E response, key : Transfer!Authenticate(response, key)
    PROVE  TransferInv'
<1>1. /\ responses \subseteq responses' /\ attestations \subseteq attestations'
      /\ UNCHANGED <<memory, requests>>
      /\ UNCHANGED <<journal, saved, destination, aside, saving, older, step>>
  BY DEF Transfer!Respond, Transfer!Authenticate, Transfer!disk, Transfer!saver
<1>2. \A a \in attestations' \ attestations :
          a = [operation |-> a.operation, response |-> a.response, key |-> a.key]
  BY DEF Transfer!Respond, Transfer!Authenticate
<1>3. ExchangesTyped'
  BY <1>1, <1>2 DEF TransferInv, ExchangesTyped
<1>4. memory \in Seq(Entries)
  BY DEF TransferInv, ExchangesTyped
<1> QED
  BY <1>1, <1>3, <1>4, ExchangeKeepsTransfers

(* append(): what was verified is what happened. *)
LEMMA JournalKeepsTransfers ==
    ASSUME TransferInv, NotAJournal, NEW request \in requests, NEW response \in responses,
           NEW attestation \in attestations \cup {Transfer!Unsigned}, NEW c,
           Transfer!Journal(request, response, attestation, c)
    PROVE  TransferInv'
<1> DEFINE t == [request |-> request, response |-> response, authentication |-> request.policy]
<1>1. /\ Transfer!Verified(request, response, attestation, c)
      /\ journal' = Append(journal, t)
      /\ UNCHANGED <<memory, requests, responses, attestations>>
      /\ UNCHANGED <<saved, destination, aside, saving, older, step>>
  BY DEF Transfer!Journal, Transfer!exchange, Transfer!disk, Transfer!saver
<1>2. /\ request.memory = Len(memory) /\ memory[Len(memory)] = request.entry
      /\ request.entry.state = "active"
      /\ Len(memory) \in 1..Len(memory)
  BY <1>1 DEF Transfer!Verified, Transfer!StillCurrent, Transfer!Entry, Transfer!Now,
              TransferInv, ExchangesTyped
<1>3. response.request = request /\ response.digest = request.entry.digest
  BY <1>1 DEF Transfer!Verified, Transfer!FetchAnswered, Transfer!PublishAnswered
<1>4. request.policy # "none" =>
          [operation |-> request.operation, response |-> response, key |-> TrustedKey] \in attestations
  BY <1>1 DEF Transfer!Verified, Transfer!Authentic, TransferInv, ExchangesTyped
<1>5. HappenedIn(t, memory, requests, responses, attestations)
  BY <1>2, <1>3, <1>4 DEF HappenedIn
<1> HIDE DEF t
<1>6. TrueIn(journal, memory, requests, responses, attestations)
  BY DEF TransferInv, JournalsTrue, Journals
<1>7. TrueIn(journal', memory, requests, responses, attestations) /\ journal' # Absent
  <2>1. PICK S : journal \in Seq(S)
    BY <1>6 DEF TrueIn
  <2> DEFINE T == S \cup {t}
  <2>2. journal \in Seq(T) /\ t \in T
    BY <2>1
  <2> HIDE DEF T
  <2>3. /\ journal' \in Seq(T) /\ Len(journal') = Len(journal) + 1 /\ Len(journal) \in Nat
        /\ journal'[Len(journal) + 1] = t
        /\ \A i \in 1..Len(journal) : journal'[i] = journal[i]
    BY <1>1, <2>2
  <2>4. \A i \in 1..Len(journal') : i \in 1..Len(journal) \/ i = Len(journal) + 1
    BY <2>3
  <2>5. \A i \in 1..Len(journal') : HappenedIn(journal'[i], memory, requests, responses, attestations)
    BY <1>5, <1>6, <2>3, <2>4 DEF TrueIn
  <2> QED
    BY <2>3, <2>5 DEF TrueIn, NotAJournal
<1>8. JournalsTrue'
  BY <1>1, <1>7 DEF TransferInv, JournalsTrue, Journals
<1> QED
  BY <1>1, <1>8 DEF TransferInv, ExchangesTyped, SaveKnows, Transfer!SavedIsKept
(* save() moves journals; it makes none. *)
LEMMA SavingMakesNone ==
    ASSUME TransferInv, journal' \in Journals, saved' \in Journals,
           Journals' \subseteq Journals, UNCHANGED <<memory, requests, responses, attestations>>
    PROVE  ExchangesTyped' /\ JournalsTrue'
  BY DEF TransferInv, ExchangesTyped, JournalsTrue, Journals

LEMMA SaveKeepsTransfers ==
    ASSUME TransferInv, NotAJournal,
           \/ \E overwrite \in BOOLEAN : Transfer!Save(overwrite)
           \/ Transfer!SaveProceeds
           \/ Transfer!SaveSucceeds
           \/ Transfer!Restart
    PROVE  TransferInv'
<1> USE DEF Transfer!disk, Transfer!saver, Transfer!exchange, Transfer!SaverIdle
<1>0. journal # Absent /\ saved # Absent
  BY DEF TransferInv, JournalsTrue
<1>1. UNCHANGED <<memory, requests, responses, attestations>>
  BY DEF Transfer!Save, Transfer!SaveProceeds, Transfer!SaveSucceeds, Transfer!Restart,
         Transfer!StartSave, Transfer!MoveAside, Transfer!MoveInPlace, Transfer!SaveFails,
         Transfer!MoveInPlaceFails, Transfer!FinishSave, Transfer!SaverDies
<1>2. ASSUME NEW overwrite, Transfer!Save(overwrite)
      PROVE  TransferInv'
  <2>1. /\ saving' = journal /\ older' = Absent
        /\ step' = (IF destination = Absent THEN "aside" ELSE "staged")
        /\ UNCHANGED <<journal, saved, destination, aside>>
    BY <1>2 DEF Transfer!Save, Transfer!StartSave
  <2>2. ExchangesTyped' /\ JournalsTrue'
    BY <1>0, <1>1, <2>1, SavingMakesNone DEF Journals
  <2> QED
    BY <1>0, <2>1, <2>2 DEF TransferInv, SaveKnows, Transfer!SavedIsKept
<1>3. CASE Transfer!SaveProceeds /\ Transfer!MoveAside
  <2>1. /\ step = "staged" /\ step' = "aside" /\ older' = destination /\ destination' = Absent
        /\ aside' = aside \cup {destination}
        /\ UNCHANGED <<journal, saved, saving>>
    BY <1>3 DEF Transfer!SaveProceeds, Transfer!MoveAside
  <2>2. ExchangesTyped' /\ JournalsTrue'
    BY <1>0, <1>1, <2>1, SavingMakesNone DEF Journals
  <2> QED
    BY <2>1, <2>2 DEF TransferInv, SaveKnows, Transfer!SavedIsKept
<1>4. CASE Transfer!SaveProceeds /\ Transfer!MoveInPlace
  <2>1. /\ step = "aside" /\ step' = "placed" /\ destination' = saving
        /\ UNCHANGED <<journal, saved, saving, aside, older>>
    BY <1>4 DEF Transfer!SaveProceeds, Transfer!MoveInPlace
  <2>2. ExchangesTyped' /\ JournalsTrue'
    BY <1>0, <1>1, <2>1, SavingMakesNone DEF Journals
  <2> QED
    BY <1>0, <2>1, <2>2 DEF TransferInv, SaveKnows, Transfer!SavedIsKept
<1>5. CASE Transfer!SaveProceeds /\ Transfer!SaveFails
  <2>1. /\ step' = "idle" /\ saving' = Absent /\ older' = Absent
        /\ UNCHANGED <<journal, saved, destination, aside>>
    BY <1>5 DEF Transfer!SaveProceeds, Transfer!SaveFails
  <2>2. ExchangesTyped' /\ JournalsTrue'
    BY <1>0, <1>1, <2>1, SavingMakesNone DEF Journals
  <2> QED
    BY <2>1, <2>2 DEF TransferInv, SaveKnows, Transfer!SavedIsKept
<1>6. ASSUME NEW restored, Transfer!SaveProceeds, Transfer!MoveInPlaceFails(restored)
      PROVE  TransferInv'
  <2>1. /\ step = "aside" /\ step' = "idle" /\ saving' = Absent /\ older' = Absent
        /\ UNCHANGED <<journal, saved>>
        /\ \/ destination' = older /\ aside' = aside \ {older}
           \/ UNCHANGED <<destination, aside>>
    BY <1>6 DEF Transfer!SaveProceeds, Transfer!MoveInPlaceFails
  <2>2. ExchangesTyped' /\ JournalsTrue'
    BY <1>0, <1>1, <2>1, SavingMakesNone DEF Journals
  <2> QED
    BY <1>0, <2>1, <2>2 DEF TransferInv, SaveKnows, Transfer!SavedIsKept
<1>7. CASE Transfer!SaveSucceeds
  <2>1. /\ step = "placed" /\ step' = "idle" /\ saving' = Absent /\ older' = Absent
        /\ saved' = saving /\ UNCHANGED <<journal, destination>>
        /\ aside' \subseteq aside
    BY <1>7 DEF Transfer!SaveSucceeds, Transfer!FinishSave
  <2>2. saving # Absent /\ destination = saving
    BY <2>1 DEF TransferInv, SaveKnows
  <2>3. ExchangesTyped' /\ JournalsTrue'
    BY <1>0, <1>1, <2>1, <2>2, SavingMakesNone DEF Journals
  <2> QED
    BY <2>1, <2>2, <2>3 DEF TransferInv, SaveKnows, Transfer!SavedIsKept
<1>8. CASE Transfer!Restart
  <2>1. /\ journal' = (IF destination = Absent THEN <<>> ELSE destination)
        /\ step' = "idle" /\ saving' = Absent /\ older' = Absent
        /\ UNCHANGED <<saved, destination, aside>>
    BY <1>8 DEF Transfer!Restart, Transfer!SaverDies
  <2>2. ExchangesTyped'
    BY <1>1 DEF TransferInv, ExchangesTyped
  <2>3. JournalsTrue'
    <3>1. CASE destination # Absent
      BY <1>0, <1>1, <2>1, <3>1, SavingMakesNone DEF Journals
    <3>2. CASE destination = Absent
      <4>1. <<>> \in Seq({}) /\ Len(<<>>) = 0
        OBVIOUS
      <4>2. TrueIn(<<>>, memory, requests, responses, attestations)
        BY <4>1 DEF TrueIn
      <4>3. Journals' \subseteq Journals \cup {<<>>} /\ journal' = <<>>
        BY <2>1, <3>2 DEF Journals
      <4> QED
        BY <1>0, <1>1, <2>1, <4>1, <4>2, <4>3 DEF TransferInv, JournalsTrue, NotAJournal
    <3> QED
      BY <3>1, <3>2
  <2> QED
    BY <2>1, <2>2, <2>3 DEF TransferInv, SaveKnows, Transfer!SavedIsKept
<1> QED
  BY <1>2, <1>3, <1>4, <1>5, <1>6, <1>7, <1>8 DEF Transfer!SaveProceeds
LEMMA TransferStep ==
    ASSUME TransferInv, NotAJournal, [Transfer!Next]_(Transfer!vars)
    PROVE  TransferInv'
<1>1. CASE UNCHANGED Transfer!vars
  BY <1>1 DEF Transfer!vars, Transfer!exchange, Transfer!disk, Transfer!saver, TransferInv,
              ExchangesTyped, JournalsTrue, Journals, SaveKnows, Transfer!SavedIsKept
<1>2. CASE Transfer!Exchange
  BY <1>2, MemoryKeepsTransfers, PrepareKeepsTransfers, MessageKeepsTransfers, JournalKeepsTransfers
     DEF Transfer!Exchange
<1>3. CASE Transfer!Keep
  BY <1>3, SaveKeepsTransfers DEF Transfer!Keep
<1> QED
  BY <1>1, <1>2, <1>3 DEF Transfer!Next

(* Every journal, in memory or under any name on disk, is true, and the name  *)
(* is free, or holds what save() thinks it does, wherever save() is           *)
(* (src/remote_persistence.cpp).                                              *)
THEOREM TransferInvariance ==
    ASSUME NotAJournal
    PROVE  Transfer!Spec => []TransferInv
<1>1. Transfer!Init => TransferInv
  BY TransferInit
<1>2. TransferInv /\ [Transfer!Next]_(Transfer!vars) => TransferInv'
  BY TransferStep
<1> QED
  BY <1>1, <1>2, PTL DEF Transfer!Spec

(* Whatever the transport lost, repeated, delayed or put together wrongly,    *)
(* and wherever the client died and started again from a saved journal, each  *)
(* journalled transfer is an exchange that happened (verify_artifact_fetch(), *)
(* verify_artifact_publish()).                                                *)
THEOREM TransfersAlwaysHappened ==
    ASSUME NotAJournal
    PROVE  Transfer!Spec => []Transfer!TransfersHappened
<1>1. TransferInv => Transfer!TransfersHappened
  <2> SUFFICES ASSUME TransferInv PROVE Transfer!TransfersHappened
    OBVIOUS
  <2>1. TrueIn(journal, memory, requests, responses, attestations)
    BY DEF TransferInv, JournalsTrue, Journals
  <2> QED
    BY <2>1 DEF TrueIn, HappenedIn, Transfer!TransfersHappened
<1> QED
  BY <1>1, TransferInvariance, PTL

(* A journal that save() has saved is on disk, whole, under its name or moved *)
(* aside, until the next save() has succeeded, wherever that one fails or     *)
(* dies (publish_directory()).                                                *)
THEOREM SavedAlwaysKept ==
    ASSUME NotAJournal
    PROVE  Transfer!Spec => []Transfer!SavedIsKept
<1>1. TransferInv => Transfer!SavedIsKept
  BY DEF TransferInv
<1> QED
  BY <1>1, TransferInvariance, PTL

-----------------------------------------------------------------------------
(***************************************************************************)
(* An Atlas as a directory, replaced in the same way while it is loaded.     *)
(***************************************************************************)
CONSTANT Saved
VARIABLES reading, loaded

Files == INSTANCE AtlasFiles

FilesSpec == Files!FilesInit /\ [][Files!FilesNext(Saved)]_<<Files!disk, Files!saver, Files!reader>>

(* Every Atlas that is saved is one that build() or update() made. *)
SavedFit == \A a \in Saved : Files!WellFormed(a)

(* What save() has checked before it replaced anything. *)
Kept == {a \in Saved : Files!Valid(a) /\ Files!Loads(Files!Directory(a))}
Stored(d) == d = Absent \/ \E a \in Kept : d = Files!Directory(a)

Names == {"nodes", "certificates", "regions", "graph", "dependencies", "transition"}

LEMMA FourNames ==
    ASSUME NEW S, NEW p \in S, NEW q \in S, NEW r \in S, NEW x \in S
    PROVE  /\ <<p, q, r, x>> \in Seq(S) /\ Len(<<p, q, r, x>>) = 4
           /\ <<p, q, r, x>>[1] = p /\ <<p, q, r, x>>[2] = q
           /\ <<p, q, r, x>>[3] = r /\ <<p, q, r, x>>[4] = x
OBVIOUS

(* A sequence after another. *)
LEMMA Joined ==
    ASSUME NEW S, NEW f \in Seq(S), NEW t \in Seq(S)
    PROVE  /\ f \o t \in Seq(S) /\ Len(f \o t) = Len(f) + Len(t)
           /\ \A k \in 1..Len(f) : (f \o t)[k] = f[k]
           /\ \A k \in 1..Len(t) : (f \o t)[Len(f) + k] = t[k]
<1> DEFINE s == f \o t
<1>1. /\ s \in Seq(S) /\ Len(s) = Len(f) + Len(t)
      /\ \A k \in 1..(Len(f) + Len(t)) : s[k] = IF k <= Len(f) THEN f[k] ELSE t[k - Len(f)]
  BY ConcatProperties, Zenon
<1> HIDE DEF s
<1>2. Len(f) \in Nat /\ Len(t) \in Nat
  OBVIOUS
<1> QED
  BY <1>1, <1>2 DEF s

LEMMA TwoNames ==
    ASSUME NEW S, NEW y \in S, NEW z \in S
    PROVE  /\ <<y>> \o <<z>> \in Seq(S) /\ Len(<<y>> \o <<z>>) = 2
           /\ (<<y>> \o <<z>>)[1] = y /\ (<<y>> \o <<z>>)[2] = z
<1> DEFINE a == <<y>>
           b == <<z>>
<1>1. a \in Seq(S) /\ b \in Seq(S)
  OBVIOUS
<1>2. Len(a) = 1 /\ a[1] = y /\ Len(b) = 1 /\ b[1] = z
  OBVIOUS
<1> HIDE DEF a, b
<1> DEFINE w == a \o b
<1>3. /\ w \in Seq(S) /\ Len(w) = Len(a) + Len(b)
      /\ \A k \in 1..Len(a) : w[k] = a[k]
      /\ \A k \in 1..Len(b) : w[Len(a) + k] = b[k]
  BY <1>1, Joined
<1> HIDE DEF w
<1>4. w \in Seq(S) /\ Len(w) = 2 /\ w[1] = y /\ w[1 + 1] = z
  BY <1>2, <1>3
<1> QED
  BY <1>4 DEF w, a, b

(* Four names and others after them. *)
LEMMA FourAndMore ==
    ASSUME NEW S, NEW p \in S, NEW q \in S, NEW r \in S, NEW x \in S, NEW t \in Seq(S), Len(t) >= 1
    PROVE  LET s == <<p, q, r, x>> \o t IN
           /\ s \in Seq(S) /\ Len(s) = 4 + Len(t)
           /\ s[1] = p /\ s[2] = q /\ s[3] = r /\ s[4] = x /\ s[5] = t[1]
           /\ Len(t) = 2 => s[6] = t[2]
<1> DEFINE f == <<p, q, r, x>>
<1>1. f \in Seq(S)
  BY FourNames
<1>2. /\ Len(f) = 4
      /\ f[1] = p /\ f[2] = q /\ f[3] = r /\ f[4] = x
  BY FourNames
<1> HIDE DEF f
<1> DEFINE w == f \o t
<1>3. /\ w \in Seq(S) /\ Len(w) = Len(f) + Len(t)
      /\ \A k \in 1..Len(f) : w[k] = f[k]
      /\ \A k \in 1..Len(t) : w[Len(f) + k] = t[k]
  BY <1>1, Joined
<1> HIDE DEF w
<1>4. Len(t) \in Nat
  OBVIOUS
<1>5. /\ w \in Seq(S) /\ Len(w) = 4 + Len(t) /\ w[1] = p /\ w[2] = q /\ w[3] = r /\ w[4] = x
      /\ w[4 + 1] = t[1] /\ (Len(t) = 2 => w[4 + 2] = t[2])
  BY <1>2, <1>3, <1>4
<1> QED
  BY <1>5 DEF w, f

(* What load() checks and decodes when there are dependencies, and in which  *)
(* order.                                                                    *)
LEMMA OptionalOrder ==
    ASSUME NEW m, m.schema \in Nat, m.schema >= 2, m.transition \in BOOLEAN,
           NEW t, t = Files!Optional(m.schema, m.transition)
    PROVE  /\ t \in Seq(Names) /\ t[1] = "dependencies" /\ Len(t) \in 1..2
           /\ m.transition = TRUE => Len(t) = 2 /\ t[2] = "transition"
           /\ m.transition = FALSE => Len(t) = 1
<1>0. "dependencies" \in Names /\ "transition" \in Names
  BY DEF Names
<1>1. CASE m.transition = TRUE
  <2>1. t = <<"dependencies">> \o <<"transition">>
    BY <1>1 DEF Files!Optional
  <2> DEFINE w == <<"dependencies">> \o <<"transition">>
  <2>2. /\ w \in Seq(Names) /\ Len(w) = 2 /\ w[1] = "dependencies" /\ w[2] = "transition"
    BY <1>0, TwoNames
  <2> HIDE DEF w
  <2>3. t = w
    BY <2>1 DEF w
  <2> QED
    BY <1>1, <2>2, <2>3
<1>2. CASE m.transition = FALSE
  <2>1. t = <<"dependencies">> \o << >>
    BY <1>2 DEF Files!Optional
  <2>2. t = <<"dependencies">>
    BY <2>1
  <2> QED
    BY <1>2, <2>2, <1>0
<1> QED
  BY <1>1, <1>2

LEMMA ReadOrders ==
    ASSUME NEW m, m.schema \in Nat, m.schema >= 2, m.transition \in BOOLEAN,
           NEW D, D = Files!DecodeOrder(m), NEW C, C = Files!ChecksumOrder(m)
    PROVE  /\ D \in Seq(Names) /\ Len(D) \in 5..6
           /\ D[1] = "nodes" /\ D[2] = "certificates" /\ D[3] = "regions" /\ D[4] = "graph"
           /\ D[5] = "dependencies" /\ (Len(D) = 6 => D[6] = "transition")
           /\ C \in Seq(Names) /\ Len(C) \in 5..6 /\ C[2] = "regions" /\ C[3] = "graph" /\ C[5] = "dependencies"
<1> DEFINE t == Files!Optional(m.schema, m.transition)
<1>1. /\ "nodes" \in Names /\ "certificates" \in Names /\ "regions" \in Names
      /\ "graph" \in Names
  BY DEF Names
<1>2. /\ t \in Seq(Names) /\ t[1] = "dependencies" /\ Len(t) \in 1..2
      /\ m.transition = TRUE => t[2] = "transition"
      /\ m.transition = FALSE => Len(t) = 1
  BY OptionalOrder
<1>3. Len(t) = 2 => t[2] = "transition"
  <2>1. CASE m.transition = TRUE
    BY <1>2, <2>1
  <2>2. CASE m.transition = FALSE
    BY <1>2, <2>2
  <2> QED
    BY <2>1, <2>2
<1> DEFINE v == <<"nodes", "certificates", "regions", "graph">> \o t
           w == <<"nodes", "regions", "graph", "certificates">> \o t
<1>4. D = v /\ C = w
  BY DEF Files!DecodeOrder, Files!ChecksumOrder
<1> HIDE DEF t
<1>5. Len(t) >= 1
  BY <1>2
<1>6. /\ v \in Seq(Names) /\ Len(v) = 4 + Len(t)
      /\ v[1] = "nodes" /\ v[2] = "certificates" /\ v[3] = "regions" /\ v[4] = "graph" /\ v[5] = t[1]
      /\ Len(t) = 2 => v[6] = t[2]
  BY <1>1, <1>2, <1>5, FourAndMore
<1>7. w \in Seq(Names) /\ Len(w) = 4 + Len(t) /\ w[2] = "regions" /\ w[3] = "graph" /\ w[5] = t[1]
  BY <1>1, <1>2, <1>5, FourAndMore
<1> HIDE DEF v, w
<1>8. Len(v) \in 5..6 /\ Len(w) \in 5..6 /\ (Len(v) = 6 => Len(t) = 2)
  <2>1. Len(t) \in 1..2
    BY <1>2
  <2>2. Len(v) = 4 + Len(t) /\ Len(w) = 4 + Len(t)
    BY <1>6, <1>7
  <2>3. \A n \in 1..2 : 4 + n \in 5..6 /\ (4 + n = 6 => n = 2)
    OBVIOUS
  <2> QED
    BY <2>1, <2>2, <2>3
<1>9. Len(v) = 6 => v[6] = "transition"
  BY <1>3, <1>6, <1>8
<1>10. v[5] = "dependencies" /\ w[5] = "dependencies"
  BY <1>2, <1>6, <1>7
<1> QED
  BY <1>4, <1>6, <1>7, <1>8, <1>9, <1>10, Zenon

LEMMA PayloadFields ==
    ASSUME NEW a, NEW f \in DOMAIN Files!Payloads(a)
    PROVE  /\ f = "regions" => Files!Payloads(a)[f] = [schema |-> a.schema, regions |-> a.regions]
           /\ f = "graph" => Files!Payloads(a)[f] = [schema |-> a.schema, graph |-> a.graph]
           /\ f = "certificates" => Files!Payloads(a)[f] = [schema |-> a.schema, certificates |-> a.certificates]
           /\ f = "dependencies" => Files!Payloads(a)[f] =
                 [schema |-> a.schema, regions |-> a.dependencies, repairs |-> a.repairs]
           /\ f = "transition" => Files!Payloads(a)[f] = a.transition[1]
BY DEF Files!Payloads

LEMMA DecodedFacts ==
    ASSUME NEW f, NEW c, NEW m, NEW got, Files!Decodes(f, c, m, got)
    PROVE  /\ f = "certificates" => Len(c.certificates) = m.certificates
           /\ f = "regions" => /\ Len(c.regions) = m.regions
                               /\ \A j, k \in DOMAIN c.regions : j # k => c.regions[j].id # c.regions[k].id
           /\ f = "graph" => Files!GraphDecodes(c, m, got.regions.regions)
           /\ f = "dependencies" => Files!DependenciesDecode(c, m, got.regions.regions)
BY DEF Files!Decodes, Files!CertificatesDecode, Files!RegionsDecode, Files!Distinct

LEMMA ValidFacts ==
    ASSUME NEW a, Files!Valid(a), a.schema >= 2
    PROVE  /\ Len(a.certificates) = Len(a.regions) /\ Len(a.graph) = Len(a.regions)
           /\ \A j, k \in DOMAIN a.regions : j # k => a.regions[j].id # a.regions[k].id
           /\ \A k \in DOMAIN a.regions : a.dependencies[k].region = a.regions[k].id
           /\ a.version.id = Files!VersionIdentity(a)
           /\ a.version.transition = a.transition
BY DEF Files!Valid, Files!Distinct, Files!VersionAgrees

(* An Atlas that was loaded for its own check by save(). *)
LEMMA KeptFacts ==
    ASSUME NEW a \in Kept, a.schema \in Nat, a.schema >= 2
    PROVE  /\ Files!Valid(a)
           /\ Files!GraphDecodes([schema |-> a.schema, graph |-> a.graph], Files!Manifest(a), a.regions)
           /\ DOMAIN a.dependencies = DOMAIN a.regions
<1> DEFINE m == Files!Manifest(a)
           p == Files!Payloads(a)
           C == Files!ChecksumOrder(m)
<1>1. m.schema = a.schema /\ m.transition \in BOOLEAN
  BY DEF Files!Manifest
<1>2. C \in Seq(Names) /\ Len(C) \in 5..6 /\ C[3] = "graph" /\ C[5] = "dependencies" /\ C[2] = "regions"
  BY <1>1, ReadOrders
<1>3. "graph" \in Files!Range(C) /\ "dependencies" \in Files!Range(C) /\ "regions" \in Files!Range(C)
  BY <1>2 DEF Files!Range
<1>4. \A f \in Files!Range(C) : f \in DOMAIN p /\ Files!Decodes(f, p[f], m, p)
  BY DEF Kept, Files!Loads, Files!Directory
<1>5. /\ p["graph"] = [schema |-> a.schema, graph |-> a.graph]
      /\ p["regions"] = [schema |-> a.schema, regions |-> a.regions]
      /\ p["dependencies"] = [schema |-> a.schema, regions |-> a.dependencies, repairs |-> a.repairs]
  BY <1>3, <1>4, PayloadFields
<1>6. /\ Files!GraphDecodes(p["graph"], m, p["regions"].regions)
      /\ Files!DependenciesDecode(p["dependencies"], m, p["regions"].regions)
  BY <1>3, <1>4, DecodedFacts
<1> HIDE DEF p, m
<1>7. p["regions"].regions = a.regions /\ p["dependencies"].regions = a.dependencies
  BY <1>5
<1>8. [k \in DOMAIN a.dependencies |-> a.dependencies[k].region] = [k \in DOMAIN a.regions |-> a.regions[k].id]
  BY <1>6, <1>7 DEF Files!DependenciesDecode
<1> QED
  BY <1>5, <1>6, <1>7, <1>8 DEF Kept, m

(* What two Atlases of one identity have in common. *)
Neighbours(x, k) == {x.regions[n].id : n \in x.graph[k]}

LEMMA IdentityTells ==
    ASSUME NEW x, NEW y, Files!VersionIdentity(x) = Files!VersionIdentity(y)
    PROVE  /\ DOMAIN x.regions = DOMAIN y.regions
           /\ x.repairs = y.repairs
           /\ \A k \in DOMAIN x.regions :
                 /\ x.regions[k].id = y.regions[k].id /\ x.regions[k].bounds = y.regions[k].bounds
                 /\ x.regions[k].key = y.regions[k].key
                 /\ x.regions[k].component = y.regions[k].component
                 /\ x.certificates[x.regions[k].certificate] = y.certificates[y.regions[k].certificate]
                 /\ x.dependencies[k].envelope = y.dependencies[k].envelope
                 /\ Neighbours(x, k) = Neighbours(y, k)
<1> DEFINE R(z) == [k \in DOMAIN z.regions |->
              [id |-> z.regions[k].id, bounds |-> z.regions[k].bounds, key |-> z.regions[k].key,
               component |-> z.regions[k].component,
               certificate |-> z.certificates[z.regions[k].certificate],
               envelope |-> z.dependencies[k].envelope,
               neighbours |-> {z.regions[n].id : n \in z.graph[k]}]]
<1>1. R(x) = R(y) /\ x.repairs = y.repairs
  BY DEF Files!VersionIdentity
<1>2. DOMAIN x.regions = DOMAIN y.regions
  BY <1>1
<1> SUFFICES ASSUME NEW k \in DOMAIN x.regions
             PROVE  /\ x.regions[k].id = y.regions[k].id /\ x.regions[k].bounds = y.regions[k].bounds
                    /\ x.regions[k].key = y.regions[k].key
                    /\ x.regions[k].component = y.regions[k].component
                    /\ x.certificates[x.regions[k].certificate] = y.certificates[y.regions[k].certificate]
                    /\ x.dependencies[k].envelope = y.dependencies[k].envelope
                    /\ Neighbours(x, k) = Neighbours(y, k)
  BY <1>1, <1>2
<1>3. R(x)[k] = R(y)[k]
  BY <1>1
<1> QED
  BY <1>2, <1>3 DEF Neighbours

(* What a load has decoded: parts of kept Atlases that fit one another.      *)
Fits(f, m, got) ==
    /\ \E b \in Kept : f \in DOMAIN Files!Payloads(b) /\ got[f] = Files!Payloads(b)[f]
    /\ f = "certificates" => Len(got[f].certificates) = m.certificates
    /\ f = "regions" => /\ Len(got[f].regions) = m.regions
                        /\ \A j, k \in DOMAIN got[f].regions : j # k => got[f].regions[j].id # got[f].regions[k].id
    /\ f = "graph" => Files!GraphDecodes(got[f], m, got.regions.regions)
    /\ f = "dependencies" => Files!DependenciesDecode(got[f], m, got.regions.regions)

LEMMA GotGrows ==
    ASSUME NEW m, NEW got, \A f \in DOMAIN got : Fits(f, m, got),
           NEW file, file \notin DOMAIN got,
           \A f \in DOMAIN got \cup {file} : f \in {"graph", "dependencies"} => "regions" \in DOMAIN got,
           NEW b \in Kept, file \in DOMAIN Files!Payloads(b),
           Files!Decodes(file, Files!Payloads(b)[file], m, got),
           NEW new, new = [f \in DOMAIN got \cup {file} |-> IF f = file THEN Files!Payloads(b)[f] ELSE got[f]]
    PROVE  \A f \in DOMAIN new : Fits(f, m, new)
<1> SUFFICES ASSUME NEW f \in DOMAIN got \cup {file} PROVE Fits(f, m, new)
  OBVIOUS
<1>1. f \in {"graph", "dependencies"} => new.regions = got.regions
  BY DEF Fits
<1>2. CASE f = file
  <2>1. new[f] = Files!Payloads(b)[f]
    BY <1>2
  <2> QED
    BY <1>1, <1>2, <2>1, DecodedFacts DEF Fits
<1>3. CASE f # file
  <2>1. new[f] = got[f] /\ Fits(f, m, got)
    BY <1>3
  <2> QED
    BY <1>1, <2>1 DEF Fits
<1> QED
  BY <1>2, <1>3

(* Sets of regions that have the same ids are the same.                      *)
LEMMA SameIndices ==
    ASSUME NEW r, NEW D, NEW S \in SUBSET D, NEW T \in SUBSET D,
           \A i, j \in D : i # j => r[i].id # r[j].id,
           {r[j].id : j \in S} = {r[j].id : j \in T}
    PROVE  S = T
<1>1. ASSUME NEW i \in S PROVE i \in T
  <2>1. r[i].id \in {r[j].id : j \in T}
    OBVIOUS
  <2> QED
    BY <2>1
<1>2. ASSUME NEW i \in T PROVE i \in S
  <2>1. r[i].id \in {r[j].id : j \in S}
    OBVIOUS
  <2> QED
    BY <2>1
<1> QED
  BY <1>1, <1>2

LEMMA SameSequence ==
    ASSUME NEW S, NEW T, NEW s \in Seq(S), NEW t \in Seq(T), DOMAIN s = DOMAIN t,
           \A k \in DOMAIN t : s[k] = t[k]
    PROVE  s = t
OBVIOUS

(* A load that has decoded everything and found it valid has one Atlas.      *)
LEMMA CompleteIsWhole ==
    ASSUME SavedFit, NEW a \in Kept, a.schema >= 2,
           NEW m, m = Files!Manifest(a), NEW got, \A f \in DOMAIN got : Fits(f, m, got),
           {"certificates", "regions", "graph", "dependencies"} \subseteq DOMAIN got,
           NEW n, n = Files!Assembled(m, got), Files!Valid(n)
    PROVE  n = [a EXCEPT !.lect = n.lect]
<1>1. /\ m.schema = a.schema /\ m.scene = a.scene /\ m.version = a.version
      /\ m.regions = Len(a.regions) /\ m.certificates = Len(a.certificates)
      /\ a.schema \in Nat /\ Files!WellFormed(a)
  BY DEF Files!Manifest, SavedFit, Files!WellFormed, Kept
<1>2. n = [schema |-> m.schema, scene |-> m.scene, lect |-> got.nodes, regions |-> got.regions.regions,
           certificates |-> got.certificates.certificates, graph |-> got.graph.graph,
           dependencies |-> got.dependencies.regions, repairs |-> got.dependencies.repairs,
           transition |-> n.transition, version |-> m.version]
  BY <1>1 DEF Files!Assembled
<1>3. /\ n.schema = a.schema /\ n.scene = a.scene /\ n.version = a.version
      /\ n.regions = got.regions.regions /\ n.certificates = got.certificates.certificates
      /\ n.graph = got.graph.graph
      /\ n.dependencies = got.dependencies.regions /\ n.repairs = got.dependencies.repairs
  BY <1>1, <1>2
(* What was read of regions, certificates, graph and dependencies are parts of some b. *)
<1>4. PICK b \in Kept : got.regions = [schema |-> b.schema, regions |-> b.regions]
  BY PayloadFields DEF Fits
<1>5. PICK c \in Kept : got.certificates = [schema |-> c.schema, certificates |-> c.certificates]
  BY PayloadFields DEF Fits
<1>6. PICK g \in Kept : got.graph = [schema |-> g.schema, graph |-> g.graph]
  BY PayloadFields DEF Fits
<1>7. PICK d \in Kept : got.dependencies = [schema |-> d.schema, regions |-> d.dependencies, repairs |-> d.repairs]
  BY PayloadFields DEF Fits
<1>8. /\ n.regions = b.regions /\ n.certificates = c.certificates /\ n.graph = g.graph
      /\ n.dependencies = d.dependencies
  BY <1>3, <1>4, <1>5, <1>6, <1>7
<1>9. /\ Files!WellFormed(b) /\ Files!WellFormed(c) /\ Files!WellFormed(g) /\ Files!WellFormed(d)
  BY DEF SavedFit, Kept
<1>10. Files!VersionIdentity(n) = Files!VersionIdentity(a) /\ n.transition = a.transition
  <2>1. Files!Valid(a)
    BY DEF Kept
  <2> QED
    BY <1>1, <1>3, <2>1, ValidFacts
<1>11. Files!Valid(a) /\ a.schema \in Nat
  BY <1>1 DEF Kept
<1>12. /\ DOMAIN n.regions = DOMAIN a.regions /\ n.repairs = a.repairs
       /\ \A k \in DOMAIN n.regions :
             /\ n.regions[k].id = a.regions[k].id /\ n.regions[k].bounds = a.regions[k].bounds
             /\ n.regions[k].key = a.regions[k].key /\ n.regions[k].component = a.regions[k].component
             /\ n.certificates[n.regions[k].certificate] = a.certificates[a.regions[k].certificate]
             /\ n.dependencies[k].envelope = a.dependencies[k].envelope
             /\ Neighbours(n, k) = Neighbours(a, k)
  BY <1>10, IdentityTells
<1>13. /\ Files!IsSequence(a.regions) /\ Files!IsSequence(n.regions)
       /\ \A k \in DOMAIN a.regions :
             /\ a.regions[k] = [id |-> a.regions[k].id, bounds |-> a.regions[k].bounds, key |-> a.regions[k].key,
                                certificate |-> k, component |-> a.regions[k].component]
             /\ n.regions[k] = [id |-> n.regions[k].id, bounds |-> n.regions[k].bounds, key |-> n.regions[k].key,
                                certificate |-> k, component |-> n.regions[k].component]
  <2>1. DOMAIN b.regions = DOMAIN a.regions
    BY <1>8, <1>12
  <2> QED
    BY <1>1, <1>8, <1>9, <2>1 DEF Files!WellFormed
<1>14. n.regions = a.regions
  <2>1. ASSUME NEW k \in DOMAIN a.regions PROVE n.regions[k] = a.regions[k]
    <3> DEFINE x == n.regions[k]
               y == a.regions[k]
    <3>1. x.id = y.id /\ x.bounds = y.bounds /\ x.key = y.key /\ x.component = y.component
      BY <1>12, <2>1
    <3>2. /\ x = [id |-> x.id, bounds |-> x.bounds, key |-> x.key, certificate |-> k, component |-> x.component]
          /\ y = [id |-> y.id, bounds |-> y.bounds, key |-> y.key, certificate |-> k, component |-> y.component]
      BY <1>13, <2>1, Zenon
    <3> HIDE DEF x, y
    <3>3. x = y
      BY <3>1, <3>2, Zenon
    <3> QED
      BY <3>3 DEF x, y
  <2> QED
    BY <1>12, <1>13, <2>1, SameSequence DEF Files!IsSequence
<1>15. DOMAIN a.regions = 1..Len(a.regions) /\ Len(a.regions) \in Nat
  BY <1>13 DEF Files!IsSequence
<1>16. n.certificates = a.certificates
  <2>1. /\ Files!IsSequence(a.certificates) /\ Files!IsSequence(n.certificates)
    BY <1>1, <1>8, <1>9 DEF Files!WellFormed
  <2>2. Len(n.certificates) = Len(a.certificates)
    BY <1>1, <1>3 DEF Fits
  <2>3. Len(a.certificates) = Len(a.regions)
    BY <1>11, ValidFacts
  <2>4. ASSUME NEW k \in DOMAIN a.regions PROVE n.certificates[k] = a.certificates[k]
    <3>1. n.certificates[n.regions[k].certificate] = a.certificates[a.regions[k].certificate]
      BY <1>12, <2>4
    <3>2. a.regions[k].certificate = k
      <4> DEFINE y == a.regions[k]
      <4>1. y = [id |-> y.id, bounds |-> y.bounds, key |-> y.key, certificate |-> k, component |-> y.component]
        BY <1>13, <2>4, Zenon
      <4> HIDE DEF y
      <4>2. y.certificate = k
        BY <4>1
      <4> QED
        BY <4>2 DEF y
    <3> QED
      BY <1>14, <3>1, <3>2
  <2>5. DOMAIN n.certificates = DOMAIN a.certificates /\ DOMAIN a.certificates = DOMAIN a.regions
    BY <1>15, <2>1, <2>2, <2>3 DEF Files!IsSequence
  <2> QED
    BY <2>1, <2>4, <2>5, SameSequence DEF Files!IsSequence
<1>17. n.dependencies = a.dependencies
  <2>1. /\ Files!IsSequence(a.dependencies) /\ Files!IsSequence(n.dependencies)
    BY <1>1, <1>8, <1>9 DEF Files!WellFormed
  <2>2. DOMAIN a.dependencies = DOMAIN a.regions
    BY <1>11, KeptFacts
  <2>3. Files!DependenciesDecode(got.dependencies, m, got.regions.regions)
    BY DEF Fits
  <2>4. [k \in DOMAIN n.dependencies |-> n.dependencies[k].region] = [k \in DOMAIN n.regions |-> n.regions[k].id]
    BY <1>3, <2>3 DEF Files!DependenciesDecode
  <2>5. /\ DOMAIN n.dependencies = DOMAIN a.regions
        /\ \A k \in DOMAIN a.regions : n.dependencies[k].region = a.regions[k].id
    BY <1>14, <2>4
  <2>6. \A k \in DOMAIN a.regions : a.dependencies[k].region = a.regions[k].id
    BY <1>11, ValidFacts
  <2>7. /\ \A k \in DOMAIN a.dependencies : a.dependencies[k] =
              [region |-> a.dependencies[k].region, envelope |-> a.dependencies[k].envelope]
        /\ \A k \in DOMAIN n.dependencies : n.dependencies[k] =
              [region |-> n.dependencies[k].region, envelope |-> n.dependencies[k].envelope]
    BY <1>1, <1>8, <1>9 DEF Files!WellFormed
  <2>8. ASSUME NEW k \in DOMAIN a.regions PROVE n.dependencies[k] = a.dependencies[k]
    <3> DEFINE x == n.dependencies[k]
               y == a.dependencies[k]
    <3>1. x.region = y.region /\ x.envelope = y.envelope
      BY <1>12, <2>5, <2>6, <2>8
    <3>2. x = [region |-> x.region, envelope |-> x.envelope] /\ y = [region |-> y.region, envelope |-> y.envelope]
      BY <2>2, <2>5, <2>7, <2>8, Zenon
    <3> HIDE DEF x, y
    <3>3. x = y
      BY <3>1, <3>2, Zenon
    <3> QED
      BY <3>3 DEF x, y
  <2> QED
    BY <2>1, <2>2, <2>5, <2>8, SameSequence DEF Files!IsSequence
<1>18. n.graph = a.graph
  <2>1. /\ Files!IsSequence(a.graph) /\ Files!IsSequence(n.graph)
    BY <1>1, <1>8, <1>9 DEF Files!WellFormed
  <2>2. /\ Files!GraphDecodes([schema |-> a.schema, graph |-> a.graph], m, a.regions)
        /\ Files!GraphDecodes(got.graph, m, got.regions.regions)
    BY <1>11, KeptFacts DEF Fits
  <2>3. /\ Len(a.graph) = Len(a.regions) /\ Len(n.graph) = Len(a.regions)
        /\ \A k \in DOMAIN a.graph : a.graph[k] \subseteq DOMAIN a.graph
        /\ \A k \in DOMAIN n.graph : n.graph[k] \subseteq DOMAIN n.graph
    BY <1>3, <1>14, <2>2 DEF Files!GraphDecodes
  <2>4. DOMAIN a.graph = DOMAIN a.regions /\ DOMAIN n.graph = DOMAIN a.regions
    BY <1>15, <2>1, <2>3 DEF Files!IsSequence
  <2>5. ASSUME NEW k \in DOMAIN a.regions PROVE n.graph[k] = a.graph[k]
    <3>1. n.graph[k] \subseteq DOMAIN a.regions /\ a.graph[k] \subseteq DOMAIN a.regions
      BY <2>3, <2>4, <2>5
    <3>2. {a.regions[j].id : j \in n.graph[k]} = {a.regions[j].id : j \in a.graph[k]}
      <4>1. Neighbours(n, k) = Neighbours(a, k)
        BY <1>12, <2>5
      <4>2. Neighbours(n, k) = {a.regions[j].id : j \in n.graph[k]}
        BY <1>14, Zenon DEF Neighbours
      <4> QED
        BY <4>1, <4>2 DEF Neighbours
    <3>3. \A i, j \in DOMAIN a.regions : i # j => a.regions[i].id # a.regions[j].id
      BY <1>11, ValidFacts
    <3> QED
      BY <3>1, <3>2, <3>3, SameIndices
  <2> QED
    BY <2>1, <2>4, <2>5, SameSequence DEF Files!IsSequence
<1>19. n = [schema |-> a.schema, scene |-> a.scene, lect |-> n.lect, regions |-> a.regions,
            certificates |-> a.certificates, graph |-> a.graph, dependencies |-> a.dependencies,
            repairs |-> a.repairs, transition |-> a.transition, version |-> a.version]
  <2>1. n = [schema |-> n.schema, scene |-> n.scene, lect |-> n.lect, regions |-> n.regions,
             certificates |-> n.certificates, graph |-> n.graph, dependencies |-> n.dependencies,
             repairs |-> n.repairs, transition |-> n.transition, version |-> n.version]
    BY <1>2
  <2> QED
    BY <2>1, <1>3, <1>10, <1>12, <1>14, <1>16, <1>17, <1>18, Zenon
<1>20. a = [schema |-> a.schema, scene |-> a.scene, lect |-> a.lect,
            regions |-> a.regions, certificates |-> a.certificates, graph |-> a.graph,
            dependencies |-> a.dependencies, repairs |-> a.repairs,
            transition |-> a.transition, version |-> a.version]
  BY <1>1 DEF Files!WellFormed
<1> QED
  BY <1>19, <1>20

(* The reads that are left, counted from the last: the last ones decode, in  *)
(* the order of load(), and those before them compare checksums.             *)
ReadsAre(left, D) ==
    /\ left \in Seq({"check", "decode"} \X Names) /\ left # <<>>
    /\ \A j \in 1..Len(left) :
          /\ Len(left) - j < Len(D) => left[j] = <<"decode", D[Len(D) - (Len(left) - j)]>>
          /\ Len(left) - j >= Len(D) => left[j][1] = "check"

(* What has been decoded when so many reads are left.                        *)
DecodedAt(left, D) == {D[k] : k \in 1..(Len(D) - Len(left))}

ReadingFits(r) ==
    r.manifest.schema >= 2 =>
        /\ \E a \in Kept : r.manifest = Files!Manifest(a)
        /\ ReadsAre(r.left, Files!DecodeOrder(r.manifest))
        /\ DOMAIN r.got = DecodedAt(r.left, Files!DecodeOrder(r.manifest))
        /\ \A f \in DOMAIN r.got : Fits(f, r.manifest, r.got)

(* Whatever is on the disk has been loaded for its own check; a reading has  *)
(* parts of such Atlases.                                                    *)
FilesInv ==
    /\ Stored(destination) /\ Stored(saving) /\ Stored(older)
    /\ reading = Files!NoReading \/ ReadingFits(reading)
    /\ Files!LoadedIsWhole

LEMMA FilesInits == Files!FilesInit => FilesInv
BY DEF Files!FilesInit, Files!SaverInit, FilesInv, Stored, Files!NothingLoaded, Files!LoadedIsWhole

(* Saving: only what has been checked gets under the name.                   *)
LEMMA SaverFilesInv ==
    ASSUME FilesInv, UNCHANGED Files!reader,
           \/ \E a \in Saved, overwrite \in BOOLEAN : Files!SaveAtlas(a, overwrite)
           \/ Files!MoveAside \/ Files!MoveInPlace \/ Files!SaveFails \/ Files!SaverDies
           \/ \E restored \in BOOLEAN : Files!MoveInPlaceFails(restored)
           \/ \E removed \in BOOLEAN : Files!FinishSave(removed)
    PROVE  FilesInv'
<1>1. reading' = reading /\ loaded' = loaded
  BY DEF Files!reader
<1>2. (reading' = Files!NoReading \/ ReadingFits(reading')) /\ Files!LoadedIsWhole'
  BY <1>1 DEF FilesInv, Files!LoadedIsWhole
<1>3. Stored(destination) /\ Stored(saving) /\ Stored(older) /\ Stored(Absent)
  BY DEF FilesInv, Stored
<1>4. Stored(destination') /\ Stored(saving') /\ Stored(older')
  <2>1. CASE \E a \in Saved, overwrite \in BOOLEAN : Files!SaveAtlas(a, overwrite)
    <3>1. PICK a \in Saved, overwrite \in BOOLEAN : Files!SaveAtlas(a, overwrite)
      BY <2>1
    <3>2. Stored(Files!Directory(a))
      BY <3>1 DEF Files!SaveAtlas, Stored, Kept
    <3>3. destination' = destination /\ saving' = Files!Directory(a) /\ older' = Absent
      BY <3>1 DEF Files!SaveAtlas, Files!StartSave, Files!disk
    <3> QED
      BY <1>3, <3>2, <3>3
  <2>2. CASE Files!MoveAside
    BY <1>3, <2>2 DEF Files!MoveAside
  <2>3. CASE Files!MoveInPlace
    BY <1>3, <2>3 DEF Files!MoveInPlace
  <2>4. CASE Files!SaveFails \/ Files!SaverDies
    BY <1>3, <2>4 DEF Files!SaveFails, Files!SaverDies, Files!SaverIdle, Files!disk
  <2>5. CASE \E restored \in BOOLEAN : Files!MoveInPlaceFails(restored)
    BY <1>3, <2>5 DEF Files!MoveInPlaceFails, Files!SaverIdle, Files!disk
  <2>6. CASE \E removed \in BOOLEAN : Files!FinishSave(removed)
    BY <1>3, <2>6 DEF Files!FinishSave, Files!SaverIdle
  <2> QED
    BY <2>1, <2>2, <2>3, <2>4, <2>5, <2>6
<1>5. Stored(destination)' /\ Stored(saving)' /\ Stored(older)' /\ (reading = Files!NoReading \/ ReadingFits(reading))'
  BY <1>2, <1>4 DEF Stored, ReadingFits, Fits, ReadsAre, DecodedAt, Kept
<1> QED
  BY <1>2, <1>5 DEF FilesInv

LEMMA ManifestIsTyped ==
    ASSUME SavedFit, NEW a \in Kept
    PROVE  /\ Files!Manifest(a).schema \in Nat /\ Files!Manifest(a).schema = a.schema
           /\ Files!Manifest(a).transition \in BOOLEAN
BY DEF SavedFit, Kept, Files!Manifest, Files!WellFormed

(* The plan of a load that has just read its manifest.                       *)
LEMMA FirstReads ==
    ASSUME NEW C \in Seq(Names), NEW D \in Seq(Names), C # <<>>, D # <<>>
    PROVE  LET left == [k \in DOMAIN C |-> <<"check", C[k]>>] \o [k \in DOMAIN D |-> <<"decode", D[k]>>]
           IN ReadsAre(left, D) /\ DecodedAt(left, D) = {}
<1> DEFINE S == {"check", "decode"} \X Names
           x == [k \in DOMAIN C |-> <<"check", C[k]>>]
           y == [k \in DOMAIN D |-> <<"decode", D[k]>>]
           c == Len(C)
           d == Len(D)
<1>1. c \in Nat \ {0} /\ d \in Nat \ {0} /\ DOMAIN C = 1..c /\ DOMAIN D = 1..d
  OBVIOUS
<1>2. /\ x \in [1..c -> S] /\ y \in [1..d -> S]
      /\ \A k \in 1..c : x[k][1] = "check"
      /\ \A k \in 1..d : y[k] = <<"decode", D[k]>>
  BY <1>1
<1> HIDE DEF x, y, S, c, d
<1>3. x \in Seq(S) /\ y \in Seq(S) /\ Len(x) = c /\ Len(y) = d
  BY <1>1, <1>2
<1> DEFINE w == x \o y
<1>4. /\ w \in Seq(S) /\ Len(w) = Len(x) + Len(y)
      /\ \A k \in 1..Len(x) : w[k] = x[k]
      /\ \A k \in 1..Len(y) : w[Len(x) + k] = y[k]
  <2>1. x \in Seq(S) /\ y \in Seq(S)
    BY <1>3
  <2>2. /\ w \in Seq(S) /\ Len(w) = Len(x) + Len(y)
        /\ \A k \in 1..Len(x) : w[k] = x[k]
    BY <2>1, Joined, Zenon
  <2>3. \A k \in 1..Len(y) : w[Len(x) + k] = y[k]
    BY <2>1, Joined
  <2> QED
    BY <2>2, <2>3
<1> HIDE DEF w
<1>5. /\ Len(w) = c + d
      /\ \A k \in 1..c : w[k][1] = "check"
      /\ \A k \in 1..d : w[c + k] = <<"decode", D[k]>>
  BY <1>2, <1>3, <1>4
<1>6. ASSUME NEW j \in 1..(c + d), c + d - j < d PROVE w[j] = <<"decode", D[d - (c + d - j)]>>
  <2>1. j - c \in 1..d /\ c + (j - c) = j /\ d - (c + d - j) = j - c
    BY <1>1, <1>6
  <2> QED
    BY <1>5, <2>1
<1>7. ASSUME NEW j \in 1..(c + d), c + d - j >= d PROVE w[j][1] = "check"
  <2>1. j \in 1..c
    BY <1>1, <1>7
  <2> QED
    BY <1>5, <2>1
<1>8. w # <<>> /\ 1..(d - Len(w)) = {}
  BY <1>1, <1>4, <1>5
<1>9. ReadsAre(w, D)
  <2>1. \A j \in 1..Len(w) : /\ Len(w) - j < d => w[j] = <<"decode", D[d - (Len(w) - j)]>>
                             /\ Len(w) - j >= d => w[j][1] = "check"
    <3>1. \A j \in 1..(c + d) : /\ c + d - j < d => w[j] = <<"decode", D[d - (c + d - j)]>>
                                /\ c + d - j >= d => w[j][1] = "check"
      BY <1>6, <1>7
    <3>2. Len(w) = c + d
      BY <1>5
    <3> SUFFICES ASSUME NEW j \in 1..Len(w)
                 PROVE  /\ Len(w) - j < d => w[j] = <<"decode", D[d - (Len(w) - j)]>>
                        /\ Len(w) - j >= d => w[j][1] = "check"
      OBVIOUS
    <3>3. j \in 1..(c + d) /\ Len(w) - j = c + d - j
      BY <1>1, <3>2
    <3> QED
      BY <3>1, <3>3
  <2>2. w \in Seq(S)
    BY <1>4
  <2> QED
    BY <1>8, <2>1, <2>2, Zenon DEF ReadsAre, d, S
<1>10. DecodedAt(w, D) = {}
  BY <1>8 DEF DecodedAt, d
<1> QED
  BY <1>9, <1>10 DEF w, x, y

LEMMA StartLoadFilesInv ==
    ASSUME SavedFit, FilesInv, Files!StartLoad
    PROVE  FilesInv'
<1> DEFINE m == destination.manifest
           C == Files!ChecksumOrder(m)
           D == Files!DecodeOrder(m)
           left == [k \in DOMAIN C |-> <<"check", C[k]>>] \o [k \in DOMAIN D |-> <<"decode", D[k]>>]
<1>1. /\ UNCHANGED <<loaded, destination, aside, saving, older>>
      /\ reading' = [manifest |-> m, got |-> <<>>, left |-> left]
      /\ destination # Absent
  BY DEF Files!StartLoad, Files!disk, Files!saver
<1>2. PICK a \in Kept : destination = Files!Directory(a)
  BY <1>1 DEF FilesInv, Stored
<1>3. m = Files!Manifest(a)
  BY <1>2 DEF Files!Directory
<1>4. m.schema \in Nat /\ m.transition \in BOOLEAN
  BY <1>3, ManifestIsTyped
<1>5. m.schema >= 2 => ReadsAre(left, D) /\ DecodedAt(left, D) = {}
  <2> SUFFICES ASSUME m.schema >= 2 PROVE ReadsAre(left, D) /\ DecodedAt(left, D) = {}
    OBVIOUS
  <2>1. C \in Seq(Names) /\ D \in Seq(Names) /\ Len(C) \in 5..6 /\ Len(D) \in 5..6
    BY <1>4, ReadOrders
  <2> HIDE DEF C, D
  <2>2. C # <<>> /\ D # <<>>
    <3>1. Len(<<>>) = 0 /\ 0 \notin 5..6
      OBVIOUS
    <3> QED
      BY <2>1, <3>1, Zenon
  <2> QED
    BY <2>1, <2>2, FirstReads
<1> HIDE DEF left, m
<1> DEFINE r == [manifest |-> m, got |-> <<>>, left |-> left]
<1>6. DOMAIN <<>> = {}
  OBVIOUS
<1>7. ReadingFits(r)
  BY <1>3, <1>5, <1>6 DEF ReadingFits
<1>8. reading' = r
  BY <1>1
<1> HIDE DEF r
<1>9. ReadingFits(reading)'
  <2>1. ReadingFits(reading')
    BY <1>7, <1>8
  <2> QED
    BY <2>1 DEF ReadingFits, Fits, ReadsAre, DecodedAt, Kept
<1>10. Files!LoadedIsWhole' /\ Stored(destination)' /\ Stored(saving)' /\ Stored(older)'
  BY <1>1 DEF FilesInv, Files!LoadedIsWhole, Stored, Kept
<1> QED
  BY <1>9, <1>10 DEF FilesInv

(* One read less: a checksum was compared, or the next payload is there.     *)
LEMMA NextRead ==
    ASSUME NEW D \in Seq(Names), Len(D) \in 5..6,
           D[1] = "nodes", D[2] = "certificates", D[3] = "regions", D[4] = "graph",
           D[5] = "dependencies", Len(D) = 6 => D[6] = "transition",
           NEW left, ReadsAre(left, D)
    PROVE  LET kind == Head(left)[1]
               file == Head(left)[2]
           IN
           /\ kind # "check" => /\ file \notin DecodedAt(left, D)
                                /\ \A f \in DecodedAt(left, D) \cup {file} :
                                      f \in {"graph", "dependencies"} => "regions" \in DecodedAt(left, D)
           /\ Len(left) > 1 =>
                 /\ ReadsAre(Tail(left), D)
                 /\ DecodedAt(Tail(left), D) = IF kind = "check" THEN DecodedAt(left, D)
                                               ELSE DecodedAt(left, D) \cup {file}
           /\ Len(left) <= 1 =>
                 /\ kind # "check"
                 /\ {"certificates", "regions", "graph", "dependencies"} \subseteq DecodedAt(left, D) \cup {file}
<1> DEFINE d == Len(D)
           r == Len(left)
           item == Head(left)
           rest == Tail(left)
           S == {"check", "decode"} \X Names
           i == d - r
<1>1. /\ r \in Nat \ {0} /\ d \in 5..6 /\ left \in Seq(S) /\ item = left[1]
      /\ r > 1 => rest # <<>>
      /\ rest \in Seq(S) /\ Len(rest) = r - 1 /\ \A j \in 1..(r - 1) : rest[j] = left[j + 1]
  <2>1. left \in Seq(S) /\ left # <<>>
    BY Zenon DEF ReadsAre
  <2> HIDE DEF S
  <2>2. r \in Nat \ {0} /\ item = left[1]
    BY <2>1
  <2>3. rest \in Seq(S) /\ Len(rest) = r - 1 /\ \A j \in 1..(r - 1) : rest[j] = left[j + 1]
    BY <2>1
  <2>4. r > 1 => rest # <<>>
    <3>1. Len(<<>>) = 0
      OBVIOUS
    <3> HIDE DEF r
    <3>2. r > 1 => r - 1 # 0
      BY <2>2
    <3> QED
      BY <2>3, <3>1, <3>2, Zenon
  <2> QED
    BY <2>1, <2>2, <2>3, <2>4
<1>2. \A j \in 1..r : /\ r - j < d => left[j] = <<"decode", D[d - (r - j)]>>
                      /\ r - j >= d => left[j][1] = "check"
  BY Zenon DEF ReadsAre
<1> HIDE DEF d, r, item, rest, S
<1>3. /\ i >= 0 => item = <<"decode", D[i + 1]>>
      /\ i < 0 => item[1] = "check"
  <2>1. 1 \in 1..r /\ (i >= 0 <=> r - 1 < d) /\ d - (r - 1) = i + 1
    BY <1>1
  <2> QED
    BY <1>1, <1>2, <2>1
<1>4. \A k \in 1..i : i >= 0 /\ k \in 1..5
  BY <1>1
<1>5. DecodedAt(left, D) = {D[k] : k \in 1..i}
  BY DEF DecodedAt, d, r
<1>6. i \in Int /\ i <= d - 1
  BY <1>1
<1> HIDE DEF i
<1>7. ASSUME item[1] # "check"
      PROVE  i \in 0..5 /\ item[2] = D[i + 1] /\ (i = 5 => d = 6)
  BY <1>1, <1>3, <1>6, <1>7
<1>8. ASSUME item[1] # "check"
      PROVE  /\ item[2] \notin DecodedAt(left, D)
             /\ \A f \in DecodedAt(left, D) \cup {item[2]} :
                   f \in {"graph", "dependencies"} => "regions" \in DecodedAt(left, D)
  <2>1. i \in 0..5 /\ item[2] = D[i + 1] /\ (i = 5 => D[6] = "transition")
    BY <1>7, <1>8 DEF d
  <2>2. \A k \in 1..i : D[k] # D[i + 1]
    BY <2>1
  <2>3. ASSUME NEW k \in 1..(i + 1), D[k] \in {"graph", "dependencies"}
        PROVE  3 \in 1..i
    BY <2>1, <2>3
  <2> QED
    BY <1>5, <2>1, <2>2, <2>3
<1>9. ASSUME r > 1
      PROVE  /\ ReadsAre(rest, D)
             /\ item[1] = "check" => DecodedAt(rest, D) = DecodedAt(left, D)
             /\ item[1] # "check" => DecodedAt(rest, D) = DecodedAt(left, D) \cup {item[2]}
  <2>1. ASSUME NEW j \in 1..(r - 1)
        PROVE  /\ (r - 1) - j < d => rest[j] = <<"decode", D[d - ((r - 1) - j)]>>
               /\ (r - 1) - j >= d => rest[j][1] = "check"
    <3>1. j + 1 \in 1..r /\ r - (j + 1) = (r - 1) - j /\ rest[j] = left[j + 1]
      BY <1>1, <2>1
    <3> QED
      BY <1>2, <3>1
  <2>2. ReadsAre(rest, D)
    <3>1. rest \in Seq(S) /\ rest # <<>> /\ Len(rest) = r - 1
      BY <1>1, <1>9
    <3>2. \A j \in 1..Len(rest) :
             /\ Len(rest) - j < d => rest[j] = <<"decode", D[d - (Len(rest) - j)]>>
             /\ Len(rest) - j >= d => rest[j][1] = "check"
      BY <2>1, <3>1
    <3> QED
      BY <3>1, <3>2, Zenon DEF ReadsAre, S, d
  <2>3. DecodedAt(rest, D) = {D[k] : k \in 1..(i + 1)}
    <3>1. d - Len(rest) = i + 1
      BY <1>1 DEF i
    <3> QED
      BY <3>1 DEF DecodedAt, d
  <2>4. item[1] = "check" => 1..(i + 1) = {} /\ 1..i = {}
    BY <1>1, <1>3, <1>6
  <2>5. item[1] # "check" => 1..(i + 1) = 1..i \cup {i + 1} /\ item[2] = D[i + 1]
    BY <1>7
  <2> QED
    BY <1>5, <2>2, <2>3, <2>4, <2>5
<1>10. ASSUME r <= 1
       PROVE  /\ item[1] # "check"
              /\ {"certificates", "regions", "graph", "dependencies"} \subseteq DecodedAt(left, D) \cup {item[2]}
  <2>1. r = 1 /\ i = d - 1 /\ i \in 4..5
    BY <1>1, <1>10 DEF i
  <2>2. item = <<"decode", D[i + 1]>>
    BY <1>3, <2>1
  <2>3. 2 \in 1..i /\ 3 \in 1..i /\ 4 \in 1..i /\ (5 \in 1..i \/ i + 1 = 5)
    BY <2>1
  <2> QED
    BY <1>5, <2>2, <2>3
<1> QED
  BY <1>1, <1>8, <1>9, <1>10 DEF item, rest, r

(* The next read, of what is under the name by then.                         *)
LEMMA ReadFilesInv ==
    ASSUME SavedFit, FilesInv, Files!ReadPayload
    PROVE  FilesInv'
<1> DEFINE kind == Head(reading.left)[1]
           file == Head(reading.left)[2]
           m == reading.manifest
           there == destination # Absent /\ file \in DOMAIN destination.files
           fits == IF kind = "check" THEN destination.files[file] = m.checksums[file]
                   ELSE Files!Decodes(file, destination.files[file], m, reading.got)
           got == IF kind = "check" THEN reading.got
                  ELSE [f \in DOMAIN reading.got \cup {file} |->
                            IF f = file THEN destination.files[f] ELSE reading.got[f]]
           new == Files!Assembled(m, got)
           next == [manifest |-> m, got |-> got, left |-> Tail(reading.left)]
           D == Files!DecodeOrder(m)
           left == reading.left
<1>1. /\ left # <<>> /\ UNCHANGED <<destination, aside, saving, older>>
      /\ \/ reading' = Files!NoReading /\ UNCHANGED loaded
         \/ there /\ fits /\ Len(left) > 1 /\ reading' = next /\ UNCHANGED loaded
         \/ /\ there /\ fits /\ ~(Len(left) > 1) /\ reading' = Files!NoReading
            /\ loaded' = IF Files!Valid(new) THEN [atlas |-> <<new>>, manifest |-> m] ELSE loaded
  BY Zenon DEF Files!ReadPayload, Files!disk, Files!saver
<1>2. reading # Files!NoReading
  BY <1>1 DEF Files!NoReading
<1>3. ReadingFits(reading)
  BY <1>2 DEF FilesInv
<1>4. Stored(destination)' /\ Stored(saving)' /\ Stored(older)'
  BY <1>1 DEF FilesInv, Stored, Kept
<1> HIDE DEF there, fits, got, new, next, D, left, m, kind, file
<1>5. ASSUME m.schema >= 2, there, fits
      PROVE  /\ \A f \in DOMAIN got : Fits(f, m, got)
             /\ Len(left) > 1 => /\ ReadsAre(Tail(left), D)
                                 /\ DOMAIN got = DecodedAt(Tail(left), D)
             /\ ~(Len(left) > 1) => {"certificates", "regions", "graph", "dependencies"} \subseteq DOMAIN got
  <2>1. /\ \E a \in Kept : m = Files!Manifest(a)
        /\ ReadsAre(left, D)
        /\ DOMAIN reading.got = DecodedAt(left, D)
        /\ \A f \in DOMAIN reading.got : Fits(f, m, reading.got)
    BY <1>3, <1>5, Zenon DEF ReadingFits, m, left, D
  <2>2. m.schema \in Nat /\ m.transition \in BOOLEAN
    BY <2>1, ManifestIsTyped
  <2>3. /\ D \in Seq(Names) /\ Len(D) \in 5..6
        /\ D[1] = "nodes" /\ D[2] = "certificates" /\ D[3] = "regions" /\ D[4] = "graph"
        /\ D[5] = "dependencies" /\ (Len(D) = 6 => D[6] = "transition")
    BY <1>5, <2>2, ReadOrders DEF D
  <2>4. /\ kind # "check" => /\ file \notin DecodedAt(left, D)
                             /\ \A f \in DecodedAt(left, D) \cup {file} :
                                   f \in {"graph", "dependencies"} => "regions" \in DecodedAt(left, D)
        /\ Len(left) > 1 =>
              /\ ReadsAre(Tail(left), D)
              /\ DecodedAt(Tail(left), D) = IF kind = "check" THEN DecodedAt(left, D)
                                            ELSE DecodedAt(left, D) \cup {file}
        /\ Len(left) <= 1 =>
              /\ kind # "check"
              /\ {"certificates", "regions", "graph", "dependencies"} \subseteq DecodedAt(left, D) \cup {file}
    BY <2>1, <2>3, NextRead DEF kind, file, left
  <2>5. Len(left) > 1 \/ Len(left) <= 1
    <3>1. Len(left) \in Nat
      BY <2>1 DEF ReadsAre
    <3> QED
      BY <3>1
  <2>6. CASE kind = "check"
    <3>1. got = reading.got
      BY <2>6 DEF got
    <3> QED
      BY <2>1, <2>4, <2>5, <2>6, <3>1
  <2>7. CASE kind # "check"
    <3>1. PICK b \in Kept : destination = Files!Directory(b)
      BY <1>5 DEF FilesInv, Stored, there
    <3>2. destination.files = Files!Payloads(b)
      BY <3>1 DEF Files!Directory
    <3>3. /\ file \in DOMAIN Files!Payloads(b)
          /\ Files!Decodes(file, Files!Payloads(b)[file], m, reading.got)
      BY <1>5, <2>7, <3>2 DEF there, fits
    <3>4. got = [f \in DOMAIN reading.got \cup {file} |->
                    IF f = file THEN Files!Payloads(b)[f] ELSE reading.got[f]]
      BY <2>7, <3>2 DEF got
    <3>5. \A f \in DOMAIN got : Fits(f, m, got)
      <4>1. /\ \A f \in DOMAIN reading.got : Fits(f, m, reading.got)
            /\ file \notin DOMAIN reading.got
            /\ \A f \in DOMAIN reading.got \cup {file} :
                  f \in {"graph", "dependencies"} => "regions" \in DOMAIN reading.got
        BY <2>1, <2>4, <2>7
      <4> QED
        BY <3>3, <3>4, <4>1, GotGrows
    <3>6. DOMAIN got = DecodedAt(left, D) \cup {file}
      BY <2>1, <3>4
    <3> QED
      BY <2>4, <2>5, <2>7, <3>5, <3>6
  <2> QED
    BY <2>6, <2>7
<1>6. reading' = Files!NoReading \/ ReadingFits(reading')
  <2>1. ASSUME there, fits, Len(left) > 1, reading' = next
        PROVE  ReadingFits(next)
    <3>1. next.manifest = m /\ next.got = got /\ next.left = Tail(left)
      BY DEF next, left
    <3>2. m.schema >= 2 => \E a \in Kept : m = Files!Manifest(a)
      BY <1>3 DEF ReadingFits, m
    <3> QED
      BY <1>5, <2>1, <3>1, <3>2 DEF ReadingFits, D
  <2> QED
    BY <1>1, <2>1
<1>7. Files!LoadedIsWhole'
  <2>1. CASE UNCHANGED loaded
    BY <2>1 DEF FilesInv, Files!LoadedIsWhole
  <2>2. CASE there /\ fits /\ ~(Len(left) > 1) /\ Files!Valid(new)
             /\ loaded' = [atlas |-> <<new>>, manifest |-> m]
    <3>1. loaded'.manifest = m /\ loaded'.atlas[1] = new
      BY <2>2
    <3> SUFFICES ASSUME m.schema >= 2
                 PROVE  \E a \in Saved : /\ Files!Manifest(a) = m
                                         /\ new = [a EXCEPT !.lect = new.lect]
      BY <3>1 DEF Files!LoadedIsWhole
    <3>2. PICK a \in Kept : m = Files!Manifest(a)
      BY <1>3 DEF ReadingFits, m
    <3>3. a.schema >= 2
      BY <3>2, ManifestIsTyped
    <3>4. new = [a EXCEPT !.lect = new.lect]
      BY <1>5, <2>2, <3>2, <3>3, CompleteIsWhole DEF new
    <3> QED
      BY <3>2, <3>4 DEF Kept
  <2> QED
    BY <1>1, <2>1, <2>2
<1>8. (reading = Files!NoReading \/ ReadingFits(reading))'
  BY <1>6 DEF ReadingFits, Fits, ReadsAre, DecodedAt, Kept
<1> QED
  BY <1>4, <1>7, <1>8 DEF FilesInv

(* load(): see LoadedIsWhole of AtlasFiles.                                  *)
THEOREM LoadedAlwaysWhole == SavedFit => (FilesSpec => []Files!LoadedIsWhole)
<1> SUFFICES ASSUME SavedFit PROVE FilesSpec => []Files!LoadedIsWhole
  OBVIOUS
<1>1. FilesInv /\ [Files!FilesNext(Saved)]_<<Files!disk, Files!saver, Files!reader>> => FilesInv'
  <2> SUFFICES ASSUME FilesInv, [Files!FilesNext(Saved)]_<<Files!disk, Files!saver, Files!reader>>
               PROVE  FilesInv'
    OBVIOUS
  <2>1. CASE UNCHANGED <<Files!disk, Files!saver, Files!reader>>
    <3>1. /\ destination' = destination /\ saving' = saving /\ older' = older
          /\ reading' = reading /\ loaded' = loaded
      BY <2>1 DEF Files!disk, Files!saver, Files!reader
    <3>2. (reading' = Files!NoReading \/ ReadingFits(reading'))
      BY <3>1 DEF FilesInv
    <3>3. (reading = Files!NoReading \/ ReadingFits(reading))'
      BY <3>2 DEF ReadingFits, Fits, ReadsAre, DecodedAt, Kept
    <3> QED
      BY <3>1, <3>3 DEF FilesInv, Stored, Kept, Files!LoadedIsWhole
  <2>2. CASE Files!FilesNext(Saved)
    BY <2>2, SaverFilesInv, StartLoadFilesInv, ReadFilesInv DEF Files!FilesNext, Files!SaveAtlas
  <2> QED
    BY <2>1, <2>2
<1>2. FilesInv => Files!LoadedIsWhole
  BY DEF FilesInv
<1> QED
  BY <1>1, <1>2, FilesInits, PTL DEF FilesSpec

=============================================================================
