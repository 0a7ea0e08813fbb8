---------------------------- MODULE PrefixChains ----------------------------
(***************************************************************************)
(* Facts about directories of chained files.  RBF-Safe's append-only stores  *)
(* name a file after a hash over its parent's name, so the models let a file *)
(* be the chain that it ends, and a directory that replays to chain c holds  *)
(* the prefixes of c.  The lemmas say what such a set of prefixes determines *)
(* and what appending to the chain adds to it.                               *)
(***************************************************************************)
EXTENDS Naturals, Sequences, NaturalsInduction, WellFoundedInduction, TLAPS

(* The files of a directory that replays to chain c. *)
PrefixesOf(c) == {SubSeq(c, 1, i) : i \in 1..Len(c)}

(* A file of the directory is a beginning of the chain, entry for entry. *)
LEMMA PrefixMember ==
    ASSUME NEW S, NEW c \in Seq(S), NEW g \in PrefixesOf(c)
    PROVE  /\ g \in Seq(S)
           /\ Len(g) \in 1..Len(c)
           /\ g = SubSeq(c, 1, Len(g))
           /\ \A i \in 1..Len(g) : g[i] = c[i]
<1>1. PICK n \in 1..Len(c) : g = SubSeq(c, 1, n)
  BY DEF PrefixesOf
<1> QED
  BY <1>1

(* The chain itself is a file of the directory. *)
LEMMA WholeIsPrefix ==
    ASSUME NEW S, NEW c \in Seq(S)
    PROVE  /\ SubSeq(c, 1, Len(c)) = c
           /\ c # <<>> => c \in PrefixesOf(c)
<1>1. SubSeq(c, 1, Len(c)) = c
  OBVIOUS
<1>2. c # <<>> => Len(c) \in 1..Len(c)
  OBVIOUS
<1> QED
  BY <1>1, <1>2 DEF PrefixesOf

(* A beginning of a beginning of the chain is a beginning of the chain. *)
LEMMA PrefixOfPrefix ==
    ASSUME NEW S, NEW c \in Seq(S), NEW g \in PrefixesOf(c), NEW i \in 1..Len(g)
    PROVE  /\ SubSeq(g, 1, i) = SubSeq(c, 1, i)
           /\ SubSeq(g, 1, i) \in PrefixesOf(c)
<1>1. PICK n \in 1..Len(c) : g = SubSeq(c, 1, n)
  BY DEF PrefixesOf
<1>2. Len(g) = n /\ i \in 1..n /\ i \in 1..Len(c)
  BY <1>1
<1>3. SubSeq(g, 1, i) = SubSeq(c, 1, i)
  BY <1>1, <1>2
<1> QED
  BY <1>2, <1>3 DEF PrefixesOf

(* Of two files of one directory the shorter is a beginning of the longer. *)
LEMMA PrefixesAreOrdered ==
    ASSUME NEW S, NEW c \in Seq(S), NEW g \in PrefixesOf(c), NEW h \in PrefixesOf(c),
           Len(g) <= Len(h)
    PROVE  SubSeq(h, 1, Len(g)) = g
<1>1. Len(g) \in 1..Len(h) /\ g = SubSeq(c, 1, Len(g))
  BY PrefixMember
<1> QED
  BY <1>1, PrefixOfPrefix

(* A directory replays to one chain at most. *)
LEMMA OneChainPerDirectory ==
    ASSUME NEW S, NEW c \in Seq(S), NEW d \in Seq(S), c # <<>>, d # <<>>,
           PrefixesOf(c) = PrefixesOf(d)
    PROVE  c = d
<1>1. c \in PrefixesOf(d) /\ d \in PrefixesOf(c)
  BY WholeIsPrefix
<1>2. Len(c) = Len(d)
  BY <1>1, PrefixMember
<1>3. c = SubSeq(d, 1, Len(d))
  BY <1>1, <1>2, PrefixMember
<1> QED
  BY <1>3, WholeIsPrefix

(* A directory of one file. *)
LEMMA RootPrefixes ==
    ASSUME NEW S, NEW e \in S
    PROVE  PrefixesOf(<<e>>) = {<<e>>}
<1>1. <<e>> \in Seq(S) /\ Len(<<e>>) = 1
  OBVIOUS
<1>2. SubSeq(<<e>>, 1, 1) = <<e>>
  BY <1>1, WholeIsPrefix
<1>3. 1..1 = {1}
  OBVIOUS
<1> QED
  BY <1>1, <1>2, <1>3 DEF PrefixesOf

(* Appending to the chain adds one file, which was not there. *)
LEMMA AppendAddsOne ==
    ASSUME NEW S, NEW c \in Seq(S), NEW e \in S
    PROVE  /\ Append(c, e) \in Seq(S) \ {<<>>}
           /\ Len(Append(c, e)) = Len(c) + 1
           /\ Append(c, e)[Len(c) + 1] = e
           /\ \A i \in 1..Len(c) : Append(c, e)[i] = c[i]
           /\ \A i \in 1..Len(c) : SubSeq(Append(c, e), 1, i) = SubSeq(c, 1, i)
           /\ SubSeq(Append(c, e), 1, Len(c)) = c
           /\ PrefixesOf(Append(c, e)) = PrefixesOf(c) \cup {Append(c, e)}
           /\ Append(c, e) \notin PrefixesOf(c)
<1> DEFINE d == Append(c, e)
<1>1. /\ d \in Seq(S) \ {<<>>}
      /\ Len(d) = Len(c) + 1
      /\ d[Len(c) + 1] = e
      /\ \A i \in 1..Len(c) : d[i] = c[i]
  OBVIOUS
<1>2. \A i \in 1..Len(c) : SubSeq(d, 1, i) = SubSeq(c, 1, i)
  OBVIOUS
<1>3. SubSeq(d, 1, Len(c)) = c
  OBVIOUS
<1>4. SubSeq(d, 1, Len(d)) = d
  BY <1>1, WholeIsPrefix
<1>5. 1..Len(d) = 1..Len(c) \cup {Len(d)}
  BY <1>1
<1>6. PrefixesOf(d) = PrefixesOf(c) \cup {d}
  BY <1>2, <1>4, <1>5 DEF PrefixesOf
<1>7. d \notin PrefixesOf(c)
  <2>1. \A g \in PrefixesOf(c) : Len(g) \in 1..Len(c)
    BY PrefixMember
  <2>2. Len(d) \notin 1..Len(c)
    BY <1>1
  <2> QED
    BY <2>1, <2>2
<1> QED
  BY <1>1, <1>2, <1>3, <1>6, <1>7

(* Numbers: what holds of some holds of a least one, and what holds of some  *)
(* up to a limit of a greatest one.                                          *)
LEMMA LeastExists ==
    ASSUME NEW T, T \subseteq Nat, T # {}
    PROVE  \E m \in T : \A j \in T : m <= j
<1>1. PICK m \in T : \A j \in T : ~(<<j, m>> \in OpToRel(<, Nat))
  BY WFMin, NatLessThanWellFounded, Zenon
<1>2. ASSUME NEW j \in T
      PROVE  m <= j
  <2>1. j \in Nat /\ m \in Nat
    OBVIOUS
  <2>2. ~(j < m)
    BY <1>1, <2>1 DEF OpToRel
  <2> QED
    BY <2>1, <2>2
<1> QED
  BY <1>2

LEMMA GreatestExists ==
    ASSUME NEW n \in Nat, NEW T, T \subseteq 0..n, T # {}
    PROVE  \E m \in T : \A j \in T : j <= m
<1> DEFINE U == {n - j : j \in T}
<1>1. U \subseteq Nat /\ U # {}
  OBVIOUS
<1>2. PICK u \in U : \A v \in U : u <= v
  <2> HIDE DEF U
  <2> QED
    BY <1>1, LeastExists
<1>3. PICK m \in T : u = n - m
  OBVIOUS
<1>4. ASSUME NEW j \in T
      PROVE  j <= m
  <2>1. n - m <= n - j
    BY <1>2, <1>3
  <2> QED
    BY <2>1
<1> QED
  BY <1>4

(* What holds at 0 and at the successor of wherever it holds is everywhere. *)
LEMMA EveryNumber ==
    ASSUME NEW T, 0 \in T, \A n \in Nat : n \in T => n + 1 \in T
    PROVE  Nat \subseteq T
<1> SUFFICES ASSUME Nat \ T # {}
             PROVE  FALSE
  OBVIOUS
<1>1. PICK m \in Nat \ T : \A j \in Nat \ T : m <= j
  BY LeastExists
<1>2. m # 0 /\ m - 1 \in Nat /\ ~(m <= m - 1)
  OBVIOUS
<1>3. m - 1 \in T
  BY <1>1, <1>2
<1> QED
  BY <1>2, <1>3
=============================================================================
