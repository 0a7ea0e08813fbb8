----------------------- MODULE ExecutionLedgerProofs ------------------------
(***************************************************************************)
(* Proofs about ExecutionLedger for any number of processes and commands,    *)
(* any schedule of them, any limit and any trust history.                    *)
(***************************************************************************)
EXTENDS ExecutionLedger, PrefixChains, FiniteSetTheorems

(* The pace of a chain: an authorization and its completion per command, and *)
(* one record more if the session ends early.                                *)
Paced(h) ==
    LET n == NextCommand(h) IN
    /\ n \in 0..Commands
    /\ Len(h) <= 2 * Commands + 1
    /\ Status(h) = "open" => n < Commands /\ Len(h) = 2 * n + 1
    /\ Status(h) = "awaiting" =>
          /\ n < Commands /\ Len(h) = 2 * n + 2
          /\ Last(h).type = "authorized" /\ Last(h).command = n

(* No command is authorised twice: while the session lasts those that have   *)
(* been are completed, but for the one that the chain ends with.             *)
IssuedOnce(h) ==
    /\ \A i, j \in Authorizations(h) : h[i].command = h[j].command => i = j
    /\ Status(h) \notin Terminal =>
          \A i \in Authorizations(h) :
             h[i].command < NextCommand(h) \/ (i = Len(h) /\ Status(h) = "awaiting")

(* Every authorization of a chain is the n-th for some n. *)
Ranked(h) == \A n \in 1..Cardinality(Authorizations(h)) : Nth(h, n) # {}

(* Checkpoints are of bundles that exist. *)
Dated(h) == \A i \in Backed(h) : h[i].checkpoint.sequence \in 1..Len(usable)

Accepted(h) ==
    /\ WellFormed(h)
    /\ Len(h) <= MaxRecords
    /\ Audited(h, Len(usable))
    /\ Dated(h)
    /\ Paced(h)
    /\ IssuedOnce(h)
    /\ Ranked(h)

(* The directory replays to chain h, which open() accepts. *)
IsLedger(h) == h # <<>> /\ records = PrefixesOf(h) /\ Accepted(h)

ReplaysAccepted == records # {} => \E h \in records : IsLedger(h)

(* The writer lock is exclusive: whoever appends holds it. *)
WriterExclusion ==
    /\ \A p \in Procs : pc[p] \in Appending => lock
    /\ \A p, q \in Procs : pc[p] \in Appending /\ pc[q] \in Appending => p = q

(* What an append has established stays true until it is used, though the    *)
(* trust history may rotate meanwhile; what it wrote is not granted yet.     *)
ExtendsLedger(d) ==
    /\ d # <<>>
    /\ Accepted(d)
    /\ \E h \in records : IsLedger(h) /\ d = Append(h, Last(d))

WriterKnowsAt(p) ==
    /\ pc[p] = "checked" => ExtendsLedger(draft[p])
    /\ pc[p] = "written" => IsLedger(draft[p]) /\ \A g \in granted : g[2] # draft[p]

WriterKnows == \A p \in Procs : WriterKnowsAt(p)

(* An authorization is handed out once, by the call that wrote it. *)
GrantsWritten ==
    /\ \A g \in granted : g[2] \in records /\ Last(g[2]).type = "authorized"
    /\ \A f, g \in granted : f[2] = g[2] => f = g

IInv ==
    /\ TypeOK
    /\ WriterExclusion
    /\ ReplaysAccepted
    /\ WriterKnows
    /\ GrantsWritten

-----------------------------------------------------------------------------
(* Chains of records. *)
Chains == Seq(Records) \ {<<>>}

LEMMA ChainTyped ==
    ASSUME NEW h \in Chains
    PROVE  /\ Len(h) \in Nat \ {0}
           /\ Len(h) \in 1..Len(h)
           /\ \A i \in 1..Len(h) : h[i] \in Records
           /\ Last(h) \in Records
           /\ Last(h) = h[Len(h)]
  BY DEF Chains, Last

(* What a record appended to a chain leaves and what it adds. *)
LEMMA AppendTyped ==
    ASSUME NEW h \in Chains, NEW r \in Records
    PROVE  /\ Append(h, r) \in Chains
           /\ Len(Append(h, r)) = Len(h) + 1
           /\ Append(h, r)[Len(h) + 1] = r
           /\ Last(Append(h, r)) = r
           /\ \A i \in 1..Len(h) : Append(h, r)[i] = h[i]
           /\ \A i \in 1..Len(h) : SubSeq(Append(h, r), 1, i) = SubSeq(h, 1, i)
           /\ SubSeq(Append(h, r), 1, Len(h)) = h
           /\ 1..Len(Append(h, r)) = 1..Len(h) \cup {Len(h) + 1}
           /\ PrefixesOf(Append(h, r)) = PrefixesOf(h) \cup {Append(h, r)}
           /\ Append(h, r) \notin PrefixesOf(h)
<1> DEFINE d == Append(h, r)
<1>1. /\ d \in Chains /\ Len(d) = Len(h) + 1 /\ d[Len(h) + 1] = r
      /\ \A i \in 1..Len(h) : d[i] = h[i]
      /\ \A i \in 1..Len(h) : SubSeq(d, 1, i) = SubSeq(h, 1, i)
      /\ SubSeq(d, 1, Len(h)) = h
      /\ PrefixesOf(d) = PrefixesOf(h) \cup {d}
      /\ d \notin PrefixesOf(h)
  BY AppendAddsOne DEF Chains
<1>2. Last(d) = r
  BY <1>1 DEF Last
<1>3. 1..Len(d) = 1..Len(h) \cup {Len(h) + 1}
  BY <1>1, ChainTyped
<1> QED
  BY <1>1, <1>2, <1>3

(* Completions and authorizations are counted. *)
LEMMA Counted ==
    ASSUME NEW h \in Chains
    PROVE  /\ NextCommand(h) \in Nat
           /\ IsFiniteSet(Authorizations(h))
           /\ Cardinality(Authorizations(h)) \in Nat
           /\ Authorizations(h) \subseteq 1..Len(h)
<1>1. IsFiniteSet(1..Len(h))
  BY ChainTyped, FS_Interval
<1>2. /\ {i \in 1..Len(h) : Succeeded(h[i])} \in SUBSET (1..Len(h))
      /\ Authorizations(h) \in SUBSET (1..Len(h))
  BY DEF Authorizations
<1>3. /\ IsFiniteSet({i \in 1..Len(h) : Succeeded(h[i])})
      /\ IsFiniteSet(Authorizations(h))
  BY <1>1, <1>2, FS_Subset
<1> QED
  BY <1>2, <1>3, FS_CardinalityType DEF NextCommand

(* A timely completion makes the next command due, no other record does. *)
LEMMA AppendNextCommand ==
    ASSUME NEW h \in Chains, NEW r \in Records
    PROVE  NextCommand(Append(h, r)) = NextCommand(h) + IF Succeeded(r) THEN 1 ELSE 0
<1> DEFINE d == Append(h, r)
           n == Len(h)
           S == {i \in 1..n : Succeeded(h[i])}
           T == {i \in 1..Len(d) : Succeeded(d[i])}
<1>1. /\ Len(d) = n + 1 /\ d[n + 1] = r /\ n \in Nat
      /\ \A i \in 1..n : d[i] = h[i]
      /\ 1..Len(d) = 1..n \cup {n + 1}
  BY AppendTyped, ChainTyped
<1>2. IsFiniteSet(S) /\ Cardinality(S) \in Nat
  <2>1. IsFiniteSet(1..n) /\ S \in SUBSET (1..n)
    BY <1>1, FS_Interval
  <2> QED
    BY <2>1, FS_Subset, FS_CardinalityType
<1>3. CASE Succeeded(r)
  <2>1. T = S \cup {n + 1}
    BY <1>1, <1>3
  <2>2. n + 1 \notin S
    BY <1>1
  <2>3. Cardinality(T) = Cardinality(S) + 1
    BY <1>2, <2>1, <2>2, FS_AddElement
  <2> QED
    BY <1>3, <2>3 DEF NextCommand
<1>4. CASE ~Succeeded(r)
  <2>1. T = S
    BY <1>1, <1>4
  <2>2. NextCommand(d) = Cardinality(S) /\ NextCommand(h) = Cardinality(S)
    BY <2>1 DEF NextCommand
  <2> QED
    BY <1>2, <1>4, <2>2
<1> QED
  BY <1>3, <1>4

LEMMA AppendAuthorizations ==
    ASSUME NEW h \in Chains, NEW r \in Records
    PROVE  Authorizations(Append(h, r)) =
             Authorizations(h) \cup IF r.type = "authorized" THEN {Len(h) + 1} ELSE {}
  BY AppendTyped DEF Authorizations

(* What the last record says about the session. *)
LEMMA StatusOfLast ==
    ASSUME NEW h \in Chains
    PROVE  LET r == Last(h) IN
           /\ r.type = "opened" => Status(h) = "open"
           /\ r.type = "authorized" => Status(h) = "awaiting"
           /\ r.type = "completion" /\ ~Succeeded(r) => Status(h) = "failed"
           /\ Succeeded(r) /\ r.time > ValidThrough => Status(h) = "expired"
           /\ Succeeded(r) /\ ~(r.time > ValidThrough) =>
                 Status(h) = IF NextCommand(h) = Commands THEN "completed" ELSE "open"
           /\ r.type \in {"cancelled", "expired", "revoked"} => Status(h) = r.type
           /\ Status(h) \in {"open", "awaiting"} \cup Terminal
           /\ Status(h) = "awaiting" => r.type = "authorized"
<1> DEFINE r == Last(h)
<1>1. r \in Records
  BY ChainTyped
<1>2. r.type \in Types /\ r.time \in Nat /\ ValidThrough \in Nat
  BY <1>1, TimesAssumption DEF Records
<1>3. CASE r.type = "opened"
  BY <1>3 DEF Status, Succeeded, Terminal
<1>4. CASE r.type = "authorized"
  BY <1>4 DEF Status, Succeeded, Terminal
<1>5. CASE r.type = "completion" /\ ~Succeeded(r)
  BY <1>5 DEF Status, Terminal
<1>6. CASE Succeeded(r) /\ r.time > ValidThrough
  BY <1>2, <1>6 DEF Status, Succeeded, Terminal
<1>7. CASE Succeeded(r) /\ ~(r.time > ValidThrough)
  BY <1>2, <1>7 DEF Status, Succeeded, Terminal
<1>8. CASE r.type \in {"cancelled", "expired", "revoked"}
  BY <1>8 DEF Status, Succeeded, Terminal
<1> QED
  BY <1>2, <1>3, <1>4, <1>5, <1>6, <1>7, <1>8 DEF Types, Succeeded, Terminal

-----------------------------------------------------------------------------
(* What append_record_unlocked() and its callers have tested of record r     *)
(* when they append it to chain h: more than WellFormed, and what open()     *)
(* will test again.                                                          *)
MayFollow(h, r) ==
    /\ r \in Records
    /\ Len(h) < MaxRecords
    /\ Admits(h, r)
    /\ r.checkpoint # NoCheckpoint =>
          /\ r.checkpoint.sequence \in 1..Len(usable)
          /\ CheckpointFollows(LastCheckpoint(h), r.checkpoint)
          /\ usable[r.checkpoint.sequence] <=> r.type = "authorized"
    /\ r.type = "authorized" => InWindow(r.command, r.time)

(* A record that may follow is of the kind that the status asks for. *)
LEMMA AdmittedKinds ==
    ASSUME NEW h \in Chains, NEW r \in Records, Admits(h, r)
    PROVE  /\ Status(h) \in {"open", "awaiting"}
           /\ \/ /\ r.type = "authorized" /\ Status(h) = "open" /\ r.command = NextCommand(h)
                 /\ ~Succeeded(r) /\ Status(Append(h, r)) = "awaiting"
              \/ /\ r.type = "completion" /\ Status(h) = "awaiting" /\ Succeeded(r)
                 /\ \/ Status(Append(h, r)) = "expired"
                    \/ Status(Append(h, r)) =
                          IF NextCommand(Append(h, r)) = Commands THEN "completed" ELSE "open"
              \/ /\ r.type = "completion" /\ Status(h) = "awaiting" /\ ~Succeeded(r)
                 /\ Status(Append(h, r)) = "failed"
              \/ /\ r.type \in {"cancelled", "expired", "revoked"} /\ ~Succeeded(r)
                 /\ Status(Append(h, r)) = r.type
<1> DEFINE d == Append(h, r)
<1>1. d \in Chains /\ Last(d) = r
  BY AppendTyped
<1>2. Status(h) \in {"open", "awaiting"}
  BY StatusOfLast DEF Admits
<1>3. r.type \in {"authorized", "completion", "cancelled", "expired", "revoked"}
  BY DEF Admits
<1>4. CASE r.type = "authorized"
  BY <1>1, <1>2, <1>4, StatusOfLast DEF Admits, Succeeded
<1>5. CASE r.type = "completion" /\ Succeeded(r)
  BY <1>1, <1>2, <1>5, StatusOfLast DEF Admits
<1>6. CASE r.type = "completion" /\ ~Succeeded(r)
  BY <1>1, <1>2, <1>6, StatusOfLast DEF Admits
<1>7. CASE r.type \in {"cancelled", "expired", "revoked"}
  BY <1>1, <1>2, <1>7, StatusOfLast DEF Succeeded
<1> QED
  BY <1>3, <1>4, <1>5, <1>6, <1>7

LEMMA AppendPaced ==
    ASSUME NEW h \in Chains, NEW r \in Records, Admits(h, r), Paced(h)
    PROVE  Paced(Append(h, r))
<1> DEFINE d == Append(h, r)
           n == NextCommand(h)
<1>1. /\ d \in Chains /\ Len(d) = Len(h) + 1 /\ Last(d) = r
      /\ Len(h) \in Nat /\ n \in Nat /\ Commands \in Nat
  BY AppendTyped, ChainTyped, Counted, CommandsAssumption
<1>2. NextCommand(d) = n + IF Succeeded(r) THEN 1 ELSE 0
  BY AppendNextCommand
<1>3. /\ Status(h) \in {"open", "awaiting"}
      /\ Status(h) = "open" => n < Commands /\ Len(h) = 2 * n + 1
      /\ Status(h) = "awaiting" => n < Commands /\ Len(h) = 2 * n + 2
  BY AdmittedKinds DEF Paced
<1>4. CASE r.type = "authorized" /\ ~Succeeded(r)
  <2>1. Status(h) = "open" /\ r.command = n /\ Status(d) = "awaiting"
    BY <1>4, AdmittedKinds
  <2> QED
    BY <1>1, <1>2, <1>3, <1>4, <2>1 DEF Paced
<1>5. CASE r.type = "completion" /\ Succeeded(r)
  <2>1. /\ Status(h) = "awaiting"
        /\ \/ Status(d) = "expired"
           \/ Status(d) = IF NextCommand(d) = Commands THEN "completed" ELSE "open"
    BY <1>5, AdmittedKinds
  <2>2. NextCommand(d) = n + 1 /\ n + 1 \in 0..Commands /\ Len(d) = 2 * (n + 1) + 1
    BY <1>1, <1>2, <1>3, <1>5, <2>1
  <2> QED
    BY <1>1, <2>1, <2>2 DEF Paced
<1>6. CASE ~Succeeded(r) /\ r.type # "authorized"
  <2>1. Status(d) \notin {"open", "awaiting"}
    BY <1>6, AdmittedKinds
  <2>2. NextCommand(d) = n /\ n \in 0..Commands /\ Len(d) <= 2 * Commands + 1
    BY <1>1, <1>2, <1>3, <1>6
  <2> QED
    BY <2>1, <2>2 DEF Paced
<1> QED
  BY <1>4, <1>5, <1>6 DEF Succeeded

LEMMA AppendIssuedOnce ==
    ASSUME NEW h \in Chains, NEW r \in Records, Admits(h, r), Paced(h), IssuedOnce(h)
    PROVE  IssuedOnce(Append(h, r))
<1> DEFINE d == Append(h, r)
           n == NextCommand(h)
           A == Authorizations(h)
<1>1. /\ d \in Chains /\ Len(d) = Len(h) + 1 /\ d[Len(h) + 1] = r
      /\ \A i \in 1..Len(h) : d[i] = h[i]
      /\ Len(h) \in Nat /\ n \in Nat /\ Commands \in Nat
  BY AppendTyped, ChainTyped, Counted, CommandsAssumption
<1>2. NextCommand(d) = n + IF Succeeded(r) THEN 1 ELSE 0
  BY AppendNextCommand
<1>3. /\ A \subseteq 1..Len(h)
      /\ \A i \in A : d[i] = h[i] /\ d[i].command \in Nat
  <2>1. A \subseteq 1..Len(h)
    BY Counted
  <2>2. \A i \in A : h[i] \in Records
    BY <2>1, ChainTyped
  <2>3. \A x \in Records : x.command \in Nat
    BY <1>1 DEF Records, Indexes, NoCommand
  <2> QED
    BY <1>1, <2>1, <2>2, <2>3
<1>4. /\ \A i, j \in A : h[i].command = h[j].command => i = j
      /\ \A i \in A : h[i].command < n \/ (i = Len(h) /\ Status(h) = "awaiting")
  BY AdmittedKinds DEF IssuedOnce, Admits
<1>5. CASE r.type = "authorized" /\ ~Succeeded(r)
  <2>1. Status(h) = "open" /\ r.command = n /\ Status(d) = "awaiting"
    BY <1>5, AdmittedKinds
  <2>2. Authorizations(d) = A \cup {Len(h) + 1} /\ Len(h) + 1 \notin A
    BY <1>1, <1>3, <1>5, AppendAuthorizations
  <2>3. \A i \in A : d[i].command < n
    BY <1>3, <1>4, <2>1
  <2>4. \A i, j \in Authorizations(d) : d[i].command = d[j].command => i = j
    BY <1>1, <1>3, <1>4, <2>1, <2>2, <2>3
  <2>5. NextCommand(d) = n
    BY <1>1, <1>2, <1>5
  <2>6. \A i \in Authorizations(d) : d[i].command < n \/ i = Len(d)
    BY <1>1, <2>2, <2>3
  <2> QED
    BY <2>1, <2>4, <2>5, <2>6 DEF IssuedOnce
<1>6. CASE r.type # "authorized"
  <2>1. Authorizations(d) = A
    BY <1>6, AppendAuthorizations
  <2>2. \A i, j \in A : d[i].command = d[j].command => i = j
    BY <1>3, <1>4
  <2>3. CASE Succeeded(r)
    <3>1. Status(h) = "awaiting" /\ NextCommand(d) = n + 1
      BY <1>1, <1>2, <2>3, AdmittedKinds
    <3>2. Last(h).type = "authorized" /\ Last(h).command = n /\ Last(h) = h[Len(h)]
      BY <3>1, ChainTyped DEF Paced
    <3>3. \A i \in A : d[i].command < n + 1
      BY <1>1, <1>3, <1>4, <3>2
    <3> QED
      BY <2>1, <2>2, <3>1, <3>3 DEF IssuedOnce
  <2>4. CASE ~Succeeded(r)
    <3>1. Status(d) \in Terminal
      BY <1>6, <2>4, AdmittedKinds DEF Terminal
    <3> QED
      BY <2>1, <2>2, <3>1 DEF IssuedOnce
  <2> QED
    BY <2>3, <2>4
<1> QED
  BY <1>5, <1>6 DEF Succeeded

LEMMA IssuedIsFunction ==
    ASSUME NEW h
    PROVE  Issued(h) = [n \in 1..Cardinality(Authorizations(h)) |-> Issued(h)[n]]
  BY DEF Issued

(* The commands that a chain issues, one more if it authorises one more. *)
LEMMA AppendIssued ==
    ASSUME NEW h \in Chains, NEW r \in Records, Ranked(h)
    PROVE  /\ Ranked(Append(h, r))
           /\ r.type = "authorized" => Issued(Append(h, r)) = Append(Issued(h), r.command)
           /\ r.type # "authorized" => Issued(Append(h, r)) = Issued(h)
<1> DEFINE d == Append(h, r)
           A == Authorizations(h)
           last == Len(h) + 1
           m == Cardinality(A)
<1>1. /\ d[last] = r /\ \A i \in 1..Len(h) : d[i] = h[i]
      /\ Len(h) \in Nat
      /\ A \subseteq 1..Len(h) /\ IsFiniteSet(A) /\ m \in Nat
  BY AppendTyped, ChainTyped, Counted
<1>2. last \notin A
  BY <1>1
<1>3. \A n \in 1..m : Nth(h, n) # {} /\ Nth(h, n) \subseteq 1..Len(h)
  BY <1>1 DEF Ranked, Nth
<1>4. ASSUME Authorizations(d) = A PROVE Ranked(d) /\ Issued(d) = Issued(h)
  <2>1. \A n : Nth(d, n) = Nth(h, n)
    BY <1>4 DEF Nth
  <2>2. \A n \in 1..m : (CHOOSE i \in Nth(h, n) : TRUE) \in 1..Len(h)
    BY <1>3
  <2>3. ASSUME NEW n \in 1..m PROVE Issued(d)[n] = Issued(h)[n]
    <3>1. Issued(d)[n] = d[CHOOSE i \in Nth(d, n) : TRUE].command
      BY <1>4 DEF Issued
    <3>2. Issued(h)[n] = h[CHOOSE i \in Nth(h, n) : TRUE].command
      BY DEF Issued
    <3>3. Nth(d, n) = Nth(h, n)
      BY <2>1
    <3> QED
      BY <1>1, <2>2, <3>1, <3>2, <3>3
  <2>4. Issued(d) = Issued(h)
    <3>1. Issued(d) = [n \in 1..m |-> Issued(d)[n]]
      BY <1>4, IssuedIsFunction
    <3>2. Issued(h) = [n \in 1..m |-> Issued(h)[n]]
      BY IssuedIsFunction
    <3> QED
      BY <2>3, <3>1, <3>2
  <2> QED
    BY <1>3, <1>4, <2>1, <2>4 DEF Ranked
<1>5. ASSUME Authorizations(d) = A \cup {last}
      PROVE  Ranked(d) /\ Issued(d) = Append(Issued(h), r.command)
  <2>1. Cardinality(A \cup {last}) = m + 1 /\ IsFiniteSet(A \cup {last})
    BY <1>1, <1>2, FS_AddElement
  <2>2. \A i \in A : {j \in A \cup {last} : j <= i} = {j \in A : j <= i}
    BY <1>1
  <2>3. {j \in A \cup {last} : j <= last} = A \cup {last}
    BY <1>1
  <2>4. \A i \in A : Cardinality({j \in A : j <= i}) # m + 1
    <3> SUFFICES ASSUME NEW i \in A PROVE Cardinality({j \in A : j <= i}) # m + 1
      OBVIOUS
    <3>1. {j \in A : j <= i} \in SUBSET A
      OBVIOUS
    <3>2. IsFiniteSet({j \in A : j <= i}) /\ Cardinality({j \in A : j <= i}) <= m
      BY <1>1, <3>1, FS_Subset
    <3>3. Cardinality({j \in A : j <= i}) \in Nat
      BY <3>2, FS_CardinalityType
    <3> QED
      BY <1>1, <3>2, <3>3
  <2>5. ASSUME NEW n \in 1..m PROVE Nth(d, n) = Nth(h, n)
    <3>1. n # m + 1
      BY <1>1
    <3>2. Nth(d, n) = {i \in A \cup {last} : Cardinality({j \in A \cup {last} : j <= i}) = n}
      BY <1>5 DEF Nth
    <3>3. Nth(h, n) = {i \in A : Cardinality({j \in A : j <= i}) = n}
      BY DEF Nth
    <3> QED
      BY <2>1, <2>2, <2>3, <3>1, <3>2, <3>3
  <2>6. Nth(d, m + 1) = {last}
    <3>1. Nth(d, m + 1) = {i \in A \cup {last} : Cardinality({j \in A \cup {last} : j <= i}) = m + 1}
      BY <1>5 DEF Nth
    <3> QED
      BY <2>1, <2>2, <2>3, <2>4, <3>1
  <2>7. 1..(m + 1) = 1..m \cup {m + 1}
    BY <1>1
  <2>8. Ranked(d)
    BY <1>3, <1>5, <2>1, <2>5, <2>6, <2>7 DEF Ranked
  <2>9. Issued(d) = [n \in 1..(m + 1) |-> d[CHOOSE i \in Nth(d, n) : TRUE].command]
    BY <1>5, <2>1 DEF Issued
  <2>10. Issued(h) = [n \in 1..m |-> h[CHOOSE i \in Nth(h, n) : TRUE].command]
    BY DEF Issued
  <2>11. \A n \in 1..m : Issued(d)[n] = Issued(h)[n]
    <3> SUFFICES ASSUME NEW n \in 1..m PROVE Issued(d)[n] = Issued(h)[n]
      OBVIOUS
    <3>1. Issued(d)[n] = d[CHOOSE i \in Nth(h, n) : TRUE].command
      BY <2>5, <2>7, <2>9
    <3>2. (CHOOSE i \in Nth(h, n) : TRUE) \in 1..Len(h)
      BY <1>3
    <3> QED
      BY <1>1, <2>10, <3>1, <3>2
  <2>12. Issued(d)[m + 1] = r.command
    <3>1. (CHOOSE i \in {last} : TRUE) = last
      OBVIOUS
    <3>2. Issued(d)[m + 1] = d[CHOOSE i \in {last} : TRUE].command
      BY <2>6, <2>7, <2>9
    <3> QED
      BY <1>1, <3>1, <3>2
  <2>13. Append(Issued(h), r.command) =
           [n \in 1..(m + 1) |-> IF n = m + 1 THEN r.command ELSE Issued(h)[n]]
    BY <1>1, <2>10
  <2>14. Issued(d) = [n \in 1..(m + 1) |-> IF n = m + 1 THEN r.command ELSE Issued(h)[n]]
    BY <1>1, <2>7, <2>9, <2>11, <2>12
  <2> QED
    BY <2>8, <2>13, <2>14
<1> QED
  BY <1>4, <1>5, AppendAuthorizations

(* An append keeps what audit() tests, of the records before and of its own. *)
LEMMA AppendAudited ==
    ASSUME NEW h \in Chains, NEW r, MayFollow(h, r), Audited(h, Len(usable)), Dated(h),
           usable \in Seq(BOOLEAN)
    PROVE  Audited(Append(h, r), Len(usable)) /\ Dated(Append(h, r))
<1> DEFINE d == Append(h, r)
           last == Len(h) + 1
<1>1. /\ r \in Records
      /\ d[last] = r /\ \A i \in 1..Len(h) : d[i] = h[i]
      /\ \A i \in 1..Len(h) : SubSeq(d, 1, i) = SubSeq(h, 1, i)
      /\ SubSeq(d, 1, Len(h)) = h
      /\ 1..Len(d) = 1..Len(h) \cup {last}
      /\ Len(h) \in Nat /\ Len(usable) \in Nat
  <2>1. r \in Records
    BY DEF MayFollow
  <2>2. Len(h) \in Nat /\ Len(usable) \in Nat
    BY ChainTyped
  <2> QED
    BY <2>1, <2>2, AppendTyped
<1>2. \A i \in 1..Len(h) : SubSeq(d, 1, i - 1) = SubSeq(h, 1, i - 1)
  <2>1. SubSeq(d, 1, 0) = <<>> /\ SubSeq(h, 1, 0) = <<>>
    BY <1>1, AppendTyped DEF Chains
  <2>2. \A i \in 1..Len(h) : i - 1 = 0 \/ i - 1 \in 1..Len(h)
    BY <1>1
  <2> QED
    BY <1>1, <2>1, <2>2
<1>3. \A i \in Backed(d) : i \in Backed(h) \/ (i = last /\ r.checkpoint # NoCheckpoint)
  BY <1>1 DEF Backed
<1>4. ASSUME NEW i \in Backed(d)
      PROVE  /\ d[i].checkpoint.sequence \in 1..Len(usable)
             /\ CheckpointFollows(LastCheckpoint(SubSeq(d, 1, i - 1)), d[i].checkpoint)
             /\ usable[d[i].checkpoint.sequence] <=> d[i].type = "authorized"
  <2>1. CASE i \in Backed(h)
    <3>1. i \in 1..Len(h) /\ d[i] = h[i] /\ SubSeq(d, 1, i - 1) = SubSeq(h, 1, i - 1)
      BY <1>1, <1>2, <2>1 DEF Backed
    <3> QED
      BY <2>1, <3>1 DEF Audited, Dated
  <2>2. CASE i = last /\ r.checkpoint # NoCheckpoint
    <3>1. d[i] = r /\ SubSeq(d, 1, i - 1) = h
      BY <1>1, <2>2
    <3> QED
      BY <2>2, <3>1 DEF MayFollow
  <2> QED
    BY <1>3, <2>1, <2>2
<1>5. ASSUME NEW i \in 1..Len(d), d[i].type = "authorized"
      PROVE  InWindow(d[i].command, d[i].time)
  <2>1. CASE i \in 1..Len(h)
    BY <1>1, <1>5, <2>1 DEF Audited
  <2>2. CASE i = last
    BY <1>1, <1>5, <2>2 DEF MayFollow
  <2> QED
    BY <1>1, <2>1, <2>2
<1>6. \A i \in Backed(d) : d[i].checkpoint.sequence <= Len(usable)
  <2>1. \A n \in 1..Len(usable) : n <= Len(usable)
    BY <1>1
  <2> QED
    BY <1>4, <2>1
<1> QED
  BY <1>4, <1>5, <1>6 DEF Audited, Dated

(* What an append writes, open() will accept. *)
LEMMA AppendAccepted ==
    ASSUME NEW h \in Chains, NEW r, MayFollow(h, r), Accepted(h), usable \in Seq(BOOLEAN)
    PROVE  Accepted(Append(h, r))
<1> DEFINE d == Append(h, r)
<1>1. /\ r \in Records /\ Admits(h, r) /\ Len(h) < MaxRecords
  BY DEF MayFollow
<1>2. /\ d \in Chains /\ Len(d) = Len(h) + 1 /\ d[Len(h) + 1] = r
      /\ \A i \in 1..Len(h) : d[i] = h[i]
      /\ \A i \in 1..Len(h) : SubSeq(d, 1, i) = SubSeq(h, 1, i)
      /\ SubSeq(d, 1, Len(h)) = h
      /\ Len(h) \in Nat \ {0} /\ MaxRecords \in Nat
  BY <1>1, AppendTyped, ChainTyped, LedgerAssumption
<1>3. WellFormed(d)
  <2>1. d # <<>> /\ d[1] = Opened
    BY <1>2 DEF Accepted, WellFormed, Chains
  <2>2. ASSUME NEW i \in 2..Len(d) PROVE Admits(SubSeq(d, 1, i - 1), d[i])
    <3>1. CASE i \in 2..Len(h)
      <4>1. d[i] = h[i] /\ SubSeq(d, 1, i - 1) = SubSeq(h, 1, i - 1)
        BY <1>2, <3>1
      <4> QED
        BY <3>1, <4>1 DEF Accepted, WellFormed
    <3>2. CASE i = Len(h) + 1
      <4>1. d[i] = r /\ SubSeq(d, 1, i - 1) = h
        BY <1>2, <3>2
      <4> QED
        BY <1>1, <4>1
    <3> QED
      BY <1>2, <3>1, <3>2
  <2> QED
    BY <2>1, <2>2 DEF WellFormed
<1>4. Len(d) <= MaxRecords
  BY <1>1, <1>2
<1>5. Audited(d, Len(usable)) /\ Dated(d)
  BY AppendAudited DEF Accepted
<1>6. Paced(d) /\ IssuedOnce(d) /\ Ranked(d)
  BY <1>1, AppendPaced, AppendIssuedOnce, AppendIssued DEF Accepted
<1> QED
  BY <1>3, <1>4, <1>5, <1>6 DEF Accepted

(* A rotation changes nothing about the bundles before it, which are the     *)
(* ones that a ledger's checkpoints name.                                    *)
LEMMA RotateAccepted ==
    ASSUME usable \in Seq(BOOLEAN), NEW b \in BOOLEAN, usable' = Append(usable, b),
           NEW h, Accepted(h)
    PROVE  Accepted(h)'
<1>1. /\ Len(usable') = Len(usable) + 1 /\ Len(usable) \in Nat
      /\ \A n \in 1..Len(usable) : usable'[n] = usable[n]
  OBVIOUS
<1>2. \A i \in Backed(h) : h[i].checkpoint.sequence \in 1..Len(usable)
  BY DEF Accepted, Dated
<1>3. Dated(h)'
  BY <1>1, <1>2 DEF Dated
<1>4. Audited(h, Len(usable))'
  <2>1. ASSUME NEW i \in Backed(h)
        PROVE  /\ h[i].checkpoint.sequence <= Len(usable')
               /\ CheckpointFollows(LastCheckpoint(SubSeq(h, 1, i - 1)), h[i].checkpoint)
               /\ usable'[h[i].checkpoint.sequence] <=> h[i].type = "authorized"
    <3>1. /\ h[i].checkpoint.sequence \in 1..Len(usable)
          /\ usable'[h[i].checkpoint.sequence] = usable[h[i].checkpoint.sequence]
      BY <1>1, <1>2
    <3>2. h[i].checkpoint.sequence <= Len(usable')
      BY <1>1, <3>1
    <3> QED
      BY <3>1, <3>2 DEF Accepted, Audited
  <2>2. \A i \in 1..Len(h) : h[i].type = "authorized" => InWindow(h[i].command, h[i].time)
    BY DEF Accepted, Audited
  <2> QED
    BY <2>1, <2>2 DEF Audited
<1> QED
  BY <1>3, <1>4 DEF Accepted

(* The ledger of one record that create() makes. *)
LEMMA OpenedAccepted ==
    /\ Opened \in Records /\ <<Opened>> \in Chains
    /\ PrefixesOf(<<Opened>>) = {<<Opened>>}
    /\ usable \in Seq(BOOLEAN) => Accepted(<<Opened>>)
<1> DEFINE h == <<Opened>>
<1>1. Opened \in Records
  <2>1. NoCommand \in Indexes \cup {NoCommand}
    OBVIOUS
  <2>2. ValidFrom \in Nat /\ NoCheckpoint \in Checkpoints
    BY TimesAssumption DEF NoCheckpoint, Checkpoints
  <2> QED
    BY <2>1, <2>2 DEF Opened, Event, Records, Types, Outcomes
<1>2. h \in Chains /\ Len(h) = 1 /\ h[1] = Opened /\ Last(h) = Opened /\ 1..Len(h) = {1}
  BY <1>1 DEF Chains, Last
<1>3. PrefixesOf(h) = {h}
  BY <1>1, RootPrefixes
<1>4. Opened.type = "opened" /\ Opened.checkpoint = NoCheckpoint
  BY DEF Opened, Event
<1>5. WellFormed(h) /\ Len(h) <= MaxRecords
  BY <1>2, LedgerAssumption DEF WellFormed
<1>6. Backed(h) = {} /\ Authorizations(h) = {} /\ {i \in 1..Len(h) : Succeeded(h[i])} = {}
  BY <1>2, <1>4 DEF Backed, Authorizations, Succeeded
<1>7. Audited(h, Len(usable)) /\ Dated(h)
  BY <1>2, <1>4, <1>6 DEF Audited, Dated
<1>8. NextCommand(h) = 0 /\ Cardinality(Authorizations(h)) = 0
  BY <1>6, FS_EmptySet DEF NextCommand
<1>9. Status(h) = "open"
  BY <1>2, <1>4, StatusOfLast
<1>10. Paced(h)
  BY <1>2, <1>8, <1>9, CommandsAssumption DEF Paced
<1>11. IssuedOnce(h) /\ Ranked(h)
  BY <1>6, <1>8 DEF IssuedOnce, Ranked
<1> QED
  BY <1>1, <1>2, <1>3, <1>5, <1>7, <1>10, <1>11 DEF Accepted

-----------------------------------------------------------------------------
(* The trust history stays or grows by one bundle. *)
TrustMoves == usable' = usable \/ \E b \in BOOLEAN : usable' = Append(usable, b)

LEMMA FilesStay ==
    ASSUME usable \in Seq(BOOLEAN), TrustMoves, records' = records
    PROVE  /\ \A h : IsLedger(h) => IsLedger(h)'
           /\ \A d : ExtendsLedger(d) => ExtendsLedger(d)'
           /\ ReplaysAccepted => ReplaysAccepted'
<1>1. ASSUME NEW h, Accepted(h) PROVE Accepted(h)'
  <2>1. CASE usable' = usable
    BY <1>1, <2>1 DEF Accepted, Audited, Dated
  <2>2. CASE \E b \in BOOLEAN : usable' = Append(usable, b)
    BY <1>1, <2>2, RotateAccepted
  <2> QED
    BY <2>1, <2>2 DEF TrustMoves
<1>2. \A h : IsLedger(h) => IsLedger(h)'
  BY <1>1 DEF IsLedger
<1>3. \A d : ExtendsLedger(d) => ExtendsLedger(d)'
  BY <1>1, <1>2 DEF ExtendsLedger
<1>4. ReplaysAccepted => ReplaysAccepted'
  BY <1>2 DEF ReplaysAccepted
<1> QED
  BY <1>2, <1>3, <1>4

(* A process that the step leaves alone knows what it knew. *)
LEMMA WriterStillKnows ==
    ASSUME WriterKnows, usable \in Seq(BOOLEAN), TrustMoves, records' = records,
           granted' = granted, NEW q \in Procs, pc'[q] = pc[q], draft'[q] = draft[q]
    PROVE  WriterKnowsAt(q)'
<1> DEFINE d == draft[q]
<1>1. /\ pc[q] = "checked" => ExtendsLedger(d)'
      /\ pc[q] = "written" => IsLedger(d)' /\ \A g \in granted' : g[2] # d
  BY FilesStay DEF WriterKnows, WriterKnowsAt
<1>2. draft'[q] = d
  OBVIOUS
<1> QED
  BY <1>1, <1>2 DEF WriterKnowsAt, ExtendsLedger, IsLedger

(* Steps that change the draft of one process at most, and leave it outside  *)
(* an append unless it is the one that enters.                               *)
LEMMA OthersKnow ==
    ASSUME IInv, TrustMoves, records' = records, granted' = granted, NEW p \in Procs,
           \A q \in Procs : q # p => pc'[q] = pc[q] /\ draft'[q] = draft[q],
           WriterKnowsAt(p)'
    PROVE  ReplaysAccepted' /\ WriterKnows' /\ GrantsWritten'
<1>1. usable \in Seq(BOOLEAN)
  BY DEF IInv, TypeOK
<1>2. ReplaysAccepted'
  BY <1>1, FilesStay DEF IInv
<1>3. WriterKnows'
  <2> SUFFICES ASSUME NEW q \in Procs PROVE WriterKnowsAt(q)'
    BY DEF WriterKnows
  <2>1. CASE q # p
    BY <1>1, <2>1, WriterStillKnows DEF IInv
  <2> QED
    BY <2>1
<1>4. GrantsWritten'
  BY DEF IInv, GrantsWritten
<1> QED
  BY <1>2, <1>3, <1>4

(* What open() finds is the one chain that the directory replays to. *)
LEMMA OpensLedger ==
    ASSUME IInv, NEW h \in records, NEW k, Opens(h, k)
    PROVE  h \in Chains /\ IsLedger(h)
<1>1. h \in Chains /\ records = PrefixesOf(h)
  BY DEF IInv, TypeOK, Opens, Chains, PrefixesOf
<1>2. PICK g \in records : IsLedger(g)
  BY DEF IInv, ReplaysAccepted
<1>3. g \in Chains /\ records = PrefixesOf(g)
  BY <1>2 DEF IInv, TypeOK, Chains, IsLedger
<1>4. h = g
  BY <1>1, <1>3, OneChainPerDirectory DEF Chains
<1> QED
  BY <1>1, <1>2, <1>4

(* Every operation that appends ends like this: the lock is taken, the draft *)
(* is a record more than the ledger, and open() will accept it.              *)
LEMMA PrepareIInv ==
    ASSUME IInv, NEW p \in Procs, NEW h \in records, NEW k, Reopens(p, h, k),
           NEW r \in Records, Prepare(p, h, r),
           r.checkpoint # NoCheckpoint =>
              /\ r.checkpoint.sequence \in 1..Len(usable)
              /\ CheckpointFollows(LastCheckpoint(h), r.checkpoint)
              /\ usable[r.checkpoint.sequence] <=> r.type = "authorized",
           r.type = "authorized" => InWindow(r.command, r.time)
    PROVE  IInv'
<1> DEFINE d == Append(h, r)
<1>1. h \in Chains /\ IsLedger(h) /\ ~lock /\ pc[p] = "open"
  BY OpensLedger DEF Reopens
<1>2. /\ d \in Chains /\ Last(d) = r /\ Len(d) = Len(h) + 1 /\ d[Len(h) + 1] = r
      /\ SubSeq(d, 1, Len(h)) = h /\ Len(h) \in Nat \ {0}
  BY <1>1, AppendTyped, ChainTyped
<1>3. Admits(h, r)
  <2>1. Len(h) + 1 \in 2..Len(d) /\ (Len(h) + 1) - 1 = Len(h)
    BY <1>2
  <2>2. Admits(SubSeq(d, 1, (Len(h) + 1) - 1), d[Len(h) + 1])
    BY <2>1 DEF Prepare, WellFormed
  <2> QED
    BY <1>2, <2>1, <2>2
<1>4. MayFollow(h, r)
  BY <1>3 DEF MayFollow, Prepare
<1>5. usable \in Seq(BOOLEAN)
  BY DEF IInv, TypeOK
<1>6. ExtendsLedger(d)
  <2>1. Accepted(d)
    BY <1>1, <1>4, <1>5, AppendAccepted DEF IsLedger
  <2> QED
    BY <1>1, <1>2, <2>1 DEF ExtendsLedger, Chains
<1>7. /\ records' = records /\ usable' = usable /\ granted' = granted
      /\ draft' = [draft EXCEPT ![p] = d] /\ pc' = [pc EXCEPT ![p] = "checked"]
  BY DEF Prepare
<1>8. TypeOK'
  BY <1>2 DEF IInv, TypeOK, Prepare, Chains, Appending
<1>9. WriterExclusion'
  BY <1>1 DEF IInv, TypeOK, WriterExclusion, Prepare, Appending
<1>10. WriterKnowsAt(p)'
  <2>1. ExtendsLedger(d)'
    BY <1>5, <1>6, <1>7, FilesStay DEF TrustMoves
  <2>2. draft'[p] = d /\ pc'[p] = "checked"
    BY <1>7 DEF IInv, TypeOK
  <2> QED
    BY <2>1, <2>2 DEF WriterKnowsAt, ExtendsLedger
<1>11. \A q \in Procs : q # p => pc'[q] = pc[q] /\ draft'[q] = draft[q]
  BY <1>7 DEF IInv, TypeOK
<1>12. ReplaysAccepted' /\ WriterKnows' /\ GrantsWritten'
  BY <1>7, <1>10, <1>11, OthersKnow DEF TrustMoves
<1> QED
  BY <1>8, <1>9, <1>12 DEF IInv

-----------------------------------------------------------------------------
(* The records that the operations append. *)
LEMMA EventTyped ==
    ASSUME NEW type \in Types, NEW t \in Times
    PROVE  /\ Event(type, t) \in Records
           /\ Event(type, t).type = type
           /\ Event(type, t).checkpoint = NoCheckpoint
<1>1. t \in Nat
  BY LedgerAssumption DEF Times
<1>2. NoCheckpoint \in Checkpoints /\ NoCommand \in Indexes \cup {NoCommand}
  BY DEF NoCheckpoint, Checkpoints
<1> QED
  BY <1>1, <1>2 DEF Event, Records, Outcomes

LEMMA CheckpointTyped ==
    ASSUME usable \in Seq(BOOLEAN), NEW k \in 1..Len(usable), NEW s \in Signings
    PROVE  [sequence |-> k, signed |-> s] \in Checkpoints
  BY LedgerAssumption DEF Checkpoints

(* authorize_command(), whatever it decides. *)
LEMMA AuthorizeIInv ==
    ASSUME IInv, NEW p \in Procs, NEW h \in records, NEW k \in 1..Len(usable), NEW t \in Times,
           Authorize(p, h, k, t)
    PROVE  IInv'
<1>1. usable \in Seq(BOOLEAN)
  BY DEF IInv, TypeOK
<1>2. CASE AuthorizeExpired(p, h, k, t)
  <2>1. /\ Event("expired", t) \in Records /\ Event("expired", t).type = "expired"
        /\ Event("expired", t).checkpoint = NoCheckpoint
    BY EventTyped DEF Types
  <2> QED
    BY <1>2, <2>1, PrepareIInv DEF AuthorizeExpired
<1>3. ASSUME NEW s \in Signings, AuthorizeRevoked(p, h, k, t, [sequence |-> k, signed |-> s])
      PROVE  IInv'
  <2> DEFINE cp == [sequence |-> k, signed |-> s]
             r == [Event("revoked", t) EXCEPT !.checkpoint = cp]
  <2>1. cp \in Checkpoints /\ cp.sequence = k
    BY <1>1, CheckpointTyped
  <2>2. Event("revoked", t) \in Records /\ Event("revoked", t).type = "revoked"
    BY EventTyped DEF Types
  <2>3. r \in Records /\ r.type = "revoked" /\ r.checkpoint = cp
    BY <2>1, <2>2 DEF Records
  <2>4. CheckpointFollows(LastCheckpoint(h), cp) /\ ~usable[k]
    BY <1>3 DEF AuthorizeRevoked, MayAuthorize
  <2>5. Reopens(p, h, k) /\ Prepare(p, h, r)
    BY <1>3 DEF AuthorizeRevoked
  <2> QED
    BY <2>1, <2>3, <2>4, <2>5, PrepareIInv
<1>4. ASSUME NEW s \in Signings, NEW c \in Indexes,
             AuthorizeGranted(p, h, k, c, t, [sequence |-> k, signed |-> s])
      PROVE  IInv'
  <2> DEFINE cp == [sequence |-> k, signed |-> s]
             r == Authorized(c, t, cp)
  <2>1. cp \in Checkpoints /\ cp.sequence = k
    BY <1>1, CheckpointTyped
  <2>2. Event("authorized", t) \in Records
    BY EventTyped DEF Types
  <2>3. /\ r \in Records /\ r.type = "authorized" /\ r.checkpoint = cp
        /\ r.command = c /\ r.time = t
    BY <2>1, <2>2 DEF Records, Authorized, Event
  <2>4. CheckpointFollows(LastCheckpoint(h), cp) /\ usable[k] /\ InWindow(c, t)
    BY <1>4 DEF AuthorizeGranted, MayAuthorize
  <2>5. Reopens(p, h, k) /\ Prepare(p, h, r)
    BY <1>4 DEF AuthorizeGranted
  <2> QED
    BY <2>1, <2>3, <2>4, <2>5, PrepareIInv
<1>5. ASSUME NEW c, NEW cp, AuthorizeRefused(p, h, k, c, t, cp)
      PROVE  IInv'
  <2>1. h \in Seq(Records)
    BY DEF IInv, TypeOK
  <2>2. TypeOK' /\ WriterExclusion'
    BY <1>5, <2>1 DEF IInv, TypeOK, WriterExclusion, AuthorizeRefused
  <2>3. UNCHANGED <<records, pc, draft, usable, granted>>
    BY <1>5 DEF AuthorizeRefused
  <2>4. WriterKnowsAt(p)'
    BY <1>1, <2>3, WriterStillKnows DEF IInv, TrustMoves
  <2>5. ReplaysAccepted' /\ WriterKnows' /\ GrantsWritten'
    BY <2>3, <2>4, OthersKnow DEF TrustMoves
  <2> QED
    BY <2>2, <2>5 DEF IInv
<1> QED
  BY <1>2, <1>3, <1>4, <1>5 DEF Authorize

LEMMA RecordCompletionIInv ==
    ASSUME IInv, NEW p \in Procs, NEW h \in records, NEW k \in 1..Len(usable), NEW t \in Times,
           NEW c \in Indexes, NEW o \in Outcomes, RecordCompletion(p, h, k, c, o, t)
    PROVE  IInv'
<1> DEFINE r == Completion(c, o, t)
<1>1. Event("completion", t) \in Records
  BY EventTyped DEF Types
<1>2. r \in Records /\ r.type = "completion" /\ r.checkpoint = NoCheckpoint
  BY <1>1 DEF Records, Completion, Event
<1>3. Reopens(p, h, k) /\ Prepare(p, h, r)
  BY DEF RecordCompletion
<1> QED
  BY <1>2, <1>3, PrepareIInv

(* cancel(), expire() and revoke_dependency() *)
LEMMA EndIInv ==
    ASSUME IInv, NEW p \in Procs, NEW h \in records, NEW k \in 1..Len(usable), NEW t \in Times,
           Cancel(p, h, k, t) \/ Expire(p, h, k, t) \/ RevokeDependency(p, h, k, t)
    PROVE  IInv'
<1>1. PICK type \in {"cancelled", "expired", "revoked"} :
         Reopens(p, h, k) /\ Prepare(p, h, Event(type, t))
  BY DEF Cancel, Expire, RevokeDependency
<1>2. /\ Event(type, t) \in Records /\ Event(type, t).type = type
      /\ Event(type, t).checkpoint = NoCheckpoint
  BY EventTyped DEF Types
<1> QED
  BY <1>1, <1>2, PrepareIInv

(* create() makes a ledger of one record, when nobody can be appending. *)
LEMMA CreateIInv ==
    ASSUME IInv, NEW p \in Procs, Create(p)
    PROVE  IInv'
<1>1. /\ records = {} /\ records' = {<<Opened>>}
      /\ UNCHANGED <<lock, draft, usable, granted>>
      /\ pc' = [pc EXCEPT ![p] = "open"]
  BY DEF Create
<1>2. /\ Opened \in Records /\ <<Opened>> \in Seq(Records) \ {<<>>}
      /\ PrefixesOf(<<Opened>>) = {<<Opened>>}
  BY OpenedAccepted DEF Chains
<1>3. IsLedger(<<Opened>>)'
  <2>1. usable' \in Seq(BOOLEAN)
    BY <1>1 DEF IInv, TypeOK
  <2>2. Accepted(<<Opened>>)'
    BY <1>1, <2>1, OpenedAccepted DEF IInv, TypeOK, Accepted, Audited, Dated
  <2> QED
    BY <1>1, <1>2, <2>2 DEF IsLedger
<1>4. ASSUME NEW q \in Procs PROVE pc[q] \notin Appending
  <2>1. pc[q] # "checked"
    BY <1>1 DEF IInv, WriterKnows, WriterKnowsAt, ExtendsLedger
  <2>2. CASE pc[q] = "written"
    <3>1. IsLedger(draft[q]) /\ draft[q] \in Seq(Records)
      BY <2>2 DEF IInv, TypeOK, WriterKnows, WriterKnowsAt
    <3> QED
      BY <1>1, <3>1, WholeIsPrefix DEF IsLedger
  <2> QED
    BY <2>1, <2>2 DEF Appending
<1>5. TypeOK'
  BY <1>2 DEF IInv, TypeOK, Create
<1>6. WriterExclusion'
  BY <1>1, <1>4 DEF IInv, TypeOK, WriterExclusion, Appending
<1>7. ReplaysAccepted'
  BY <1>1, <1>3 DEF ReplaysAccepted
<1>8. WriterKnows'
  BY <1>1, <1>4 DEF IInv, TypeOK, WriterKnows, WriterKnowsAt, Appending
<1>9. GrantsWritten'
  BY <1>1 DEF IInv, GrantsWritten
<1> QED
  BY <1>5, <1>6, <1>7, <1>8, <1>9 DEF IInv

LEMMA OpenIInv ==
    ASSUME IInv, NEW p \in Procs, NEW h \in records, NEW k, Open(p, h, k)
    PROVE  IInv'
<1>1. UNCHANGED <<records, lock, draft, usable, granted>> /\ pc' = [pc EXCEPT ![p] = "open"]
  BY DEF Open
<1>2. TypeOK'
  BY DEF IInv, TypeOK, Open
<1>3. WriterExclusion'
  BY <1>1 DEF IInv, TypeOK, WriterExclusion, Appending
<1>4. WriterKnowsAt(p)' /\ \A q \in Procs : q # p => pc'[q] = pc[q] /\ draft'[q] = draft[q]
  BY <1>1 DEF IInv, TypeOK, WriterKnowsAt
<1> QED
  BY <1>1, <1>2, <1>3, <1>4, OthersKnow DEF IInv, TrustMoves

(* The rename of the record: the directory replays to the draft. *)
LEMMA WriteRecordIInv ==
    ASSUME IInv, NEW p \in Procs, WriteRecord(p)
    PROVE  IInv'
<1> DEFINE d == draft[p]
           r == Last(d)
<1>1. /\ records' = records \cup {d} /\ d \notin records
      /\ UNCHANGED <<lock, handle, draft, usable, granted>>
      /\ pc' = [pc EXCEPT ![p] = "written"] /\ pc[p] = "checked"
  BY DEF WriteRecord
<1>2. ExtendsLedger(d)
  BY <1>1 DEF IInv, WriterKnows, WriterKnowsAt
<1>3. PICK h \in records : IsLedger(h) /\ d = Append(h, r)
  BY <1>2 DEF ExtendsLedger
<1>4. d \in Seq(Records) \ {<<>>} /\ h \in Chains /\ r \in Records
  <2>1. d \in Chains /\ h \in Chains
    BY <1>2 DEF IInv, TypeOK, Chains, ExtendsLedger
  <2> QED
    BY <2>1, ChainTyped DEF Chains
<1>5. IsLedger(d)'
  <2>1. PrefixesOf(d) = PrefixesOf(h) \cup {d}
    <3>1. \A x \in Records : PrefixesOf(Append(h, x)) = PrefixesOf(h) \cup {Append(h, x)}
      BY <1>4, AppendTyped
    <3> QED
      BY <1>3, <1>4, <3>1
  <2>2. records' = PrefixesOf(d)
    BY <1>1, <1>3, <2>1 DEF IsLedger
  <2>3. Accepted(d)'
    BY <1>1, <1>2 DEF ExtendsLedger, Accepted, Audited, Dated
  <2> QED
    BY <1>1, <1>4, <2>2, <2>3 DEF IsLedger, Accepted, Audited, Dated
<1>6. TypeOK'
  BY <1>1, <1>4 DEF IInv, TypeOK, Appending
<1>7. WriterExclusion'
  BY <1>1 DEF IInv, TypeOK, WriterExclusion, Appending
<1>8. ReplaysAccepted'
  BY <1>1, <1>5 DEF ReplaysAccepted
<1>9. WriterKnows'
  <2> SUFFICES ASSUME NEW q \in Procs PROVE WriterKnowsAt(q)'
    BY DEF WriterKnows
  <2>1. CASE q = p
    <3>1. \A g \in granted' : g[2] # d
      BY <1>1 DEF IInv, GrantsWritten
    <3>2. pc'[q] = "written" /\ draft'[q] = d
      BY <1>1, <2>1 DEF IInv, TypeOK
    <3> QED
      BY <1>5, <2>1, <3>1, <3>2 DEF WriterKnowsAt
  <2>2. CASE q # p
    <3>1. pc[q] \notin Appending
      BY <1>1, <2>2 DEF IInv, WriterExclusion, Appending
    <3>2. pc'[q] = pc[q]
      BY <1>1, <2>2 DEF IInv, TypeOK
    <3> QED
      BY <3>1, <3>2 DEF WriterKnowsAt, Appending
  <2> QED
    BY <2>1, <2>2
<1>10. GrantsWritten'
  BY <1>1 DEF IInv, GrantsWritten
<1> QED
  BY <1>6, <1>7, <1>8, <1>9, <1>10 DEF IInv

(* The answer: the authorization that was written is handed out. *)
LEMMA ReturnsIInv ==
    ASSUME IInv, NEW p \in Procs, Returns(p)
    PROVE  IInv'
<1> DEFINE d == draft[p]
<1>1. /\ UNCHANGED <<records, usable>> /\ pc[p] = "written" /\ lock' = FALSE
      /\ granted' = granted \cup Grant(p, d)
      /\ draft' = [draft EXCEPT ![p] = <<>>] /\ pc' = [pc EXCEPT ![p] = "open"]
  BY DEF Returns
<1>2. d \in Seq(Records) /\ IsLedger(d) /\ \A g \in granted : g[2] # d
  BY <1>1 DEF IInv, TypeOK, WriterKnows, WriterKnowsAt
<1>3. d \in records
  BY <1>2, WholeIsPrefix DEF IsLedger
<1>4. \A g \in Grant(p, d) : g = <<p, d>> /\ Last(d).type = "authorized"
  BY DEF Grant
<1>5. TypeOK'
  <2>1. granted' \subseteq Procs \X Seq(Records)
    BY <1>1, <1>2, <1>4 DEF IInv, TypeOK
  <2>2. <<>> \in Seq(Records)
    OBVIOUS
  <2> QED
    BY <1>2, <2>1, <2>2 DEF IInv, TypeOK, Returns
<1>6. WriterExclusion'
  BY <1>1 DEF IInv, TypeOK, WriterExclusion, Appending
<1>7. ReplaysAccepted'
  BY <1>1, FilesStay DEF IInv, TypeOK, TrustMoves
<1>8. WriterKnows'
  <2> SUFFICES ASSUME NEW q \in Procs PROVE WriterKnowsAt(q)'
    BY DEF WriterKnows
  <2>1. CASE q = p
    BY <1>1, <2>1 DEF IInv, TypeOK, WriterKnowsAt
  <2>2. CASE q # p
    <3>1. pc[q] \notin Appending
      BY <1>1, <2>2 DEF IInv, WriterExclusion, Appending
    <3>2. pc'[q] = pc[q]
      BY <1>1, <2>2 DEF IInv, TypeOK
    <3> QED
      BY <3>1, <3>2 DEF WriterKnowsAt, Appending
  <2> QED
    BY <2>1, <2>2
<1>9. GrantsWritten'
  <2>1. \A g \in granted' : g \in granted \/ (g = <<p, d>> /\ Last(d).type = "authorized")
    BY <1>1, <1>4
  <2>2. \A g \in granted' : g[2] \in records' /\ Last(g[2]).type = "authorized"
    BY <1>1, <1>3, <2>1 DEF IInv, GrantsWritten
  <2>3. \A f, g \in granted' : f[2] = g[2] => f = g
    BY <1>2, <2>1 DEF IInv, GrantsWritten
  <2> QED
    BY <2>2, <2>3 DEF GrantsWritten
<1> QED
  BY <1>5, <1>6, <1>7, <1>8, <1>9 DEF IInv

(* A write that fails, or a crash at any point, leaves the files as they are. *)
LEMMA FailsIInv ==
    ASSUME IInv, NEW p \in Procs, Fails(p) \/ Crash(p)
    PROVE  IInv'
<1>1. /\ UNCHANGED <<records, usable, granted>>
      /\ draft' = [draft EXCEPT ![p] = <<>>]
      /\ \/ pc' = [pc EXCEPT ![p] = "open"] /\ lock' = FALSE /\ pc[p] \in Appending
         \/ pc' = [pc EXCEPT ![p] = "closed"] /\ lock' = lock
  BY DEF Fails, Crash, Appending
<1>2. TypeOK'
  <2>1. <<>> \in Seq(Records)
    OBVIOUS
  <2> QED
    BY <2>1 DEF IInv, TypeOK, Fails, Crash
<1>3. WriterExclusion'
  BY <1>1 DEF IInv, TypeOK, WriterExclusion, Appending
<1>4. WriterKnowsAt(p)' /\ \A q \in Procs : q # p => pc'[q] = pc[q] /\ draft'[q] = draft[q]
  BY <1>1 DEF IInv, TypeOK, WriterKnowsAt
<1> QED
  BY <1>1, <1>2, <1>3, <1>4, OthersKnow DEF IInv, TrustMoves

(* Steps of no process: an abandoned lock is removed, the trust history      *)
(* rotates, or nothing happens.                                              *)
LEMMA OutsideIInv ==
    ASSUME IInv, OperatorClearsLock \/ (\E b \in BOOLEAN : Rotate(b)) \/ UNCHANGED vars
    PROVE  IInv'
<1>1. UNCHANGED <<records, pc, handle, draft, granted>> /\ TrustMoves
  BY DEF OperatorClearsLock, Rotate, vars, TrustMoves
<1>2. TypeOK'
  <2>1. usable' \in Seq(BOOLEAN) \ {<<>>}
    BY <1>1, SMTT(30) DEF IInv, TypeOK, TrustMoves
  <2>2. lock' \in BOOLEAN
    BY DEF IInv, TypeOK, OperatorClearsLock, Rotate, vars
  <2> QED
    BY <1>1, <2>1, <2>2 DEF IInv, TypeOK
<1>3. WriterExclusion'
  BY DEF IInv, WriterExclusion, OperatorClearsLock, Rotate, vars
<1>4. ReplaysAccepted' /\ GrantsWritten'
  BY <1>1, FilesStay DEF IInv, TypeOK, GrantsWritten
<1>5. WriterKnows'
  BY <1>1, WriterStillKnows DEF IInv, TypeOK, WriterKnows
<1> QED
  BY <1>2, <1>3, <1>4, <1>5 DEF IInv

(* The session exists and has no ledger yet. *)
LEMMA InitIInv == Init => IInv
<1> SUFFICES ASSUME Init PROVE IInv
  OBVIOUS
<1>1. TypeOK
  <2>1. <<>> \in Seq(Records) /\ \A b \in BOOLEAN : <<b>> \in Seq(BOOLEAN) \ {<<>>}
    OBVIOUS
  <2> QED
    BY <2>1 DEF Init, TypeOK
<1>2. WriterExclusion /\ ReplaysAccepted /\ WriterKnows /\ GrantsWritten
  BY DEF Init, WriterExclusion, Appending, ReplaysAccepted, WriterKnows, WriterKnowsAt, GrantsWritten
<1> QED
  BY <1>1, <1>2 DEF IInv

LEMMA NextIInv == IInv /\ [Next]_vars => IInv'
<1> SUFFICES ASSUME IInv, [Next]_vars PROVE IInv'
  OBVIOUS
<1>1. ASSUME NEW p \in Procs, Create(p) PROVE IInv'
  BY <1>1, CreateIInv
<1>2. ASSUME NEW p \in Procs, NEW h \in records, NEW k \in 1..Len(usable), Open(p, h, k)
      PROVE  IInv'
  BY <1>2, OpenIInv
<1>3. ASSUME NEW p \in Procs, NEW h \in records, NEW k \in 1..Len(usable), NEW t \in Times,
             \/ Authorize(p, h, k, t)
             \/ \E c \in Indexes, o \in Outcomes : RecordCompletion(p, h, k, c, o, t)
             \/ Cancel(p, h, k, t) \/ Expire(p, h, k, t) \/ RevokeDependency(p, h, k, t)
      PROVE  IInv'
  BY <1>3, AuthorizeIInv, RecordCompletionIInv, EndIInv
<1>4. ASSUME NEW p \in Procs, WriteRecord(p) \/ Returns(p) \/ Fails(p) \/ Crash(p)
      PROVE  IInv'
  BY <1>4, WriteRecordIInv, ReturnsIInv, FailsIInv
<1>5. CASE OperatorClearsLock \/ (\E b \in BOOLEAN : Rotate(b)) \/ UNCHANGED vars
  BY <1>5, OutsideIInv
<1> QED
  BY <1>1, <1>2, <1>3, <1>4, <1>5 DEF Next

THEOREM Invariance == Spec => []IInv
  BY InitIInv, NextIInv, PTL DEF Spec

-----------------------------------------------------------------------------
(* What create(), open() and the mutations keep has its type. *)
THEOREM TypeCorrect == Spec => []TypeOK
<1>1. IInv => TypeOK
  BY DEF IInv
<1> QED
  BY Invariance, <1>1, PTL

(* The chain that the directory replays to, if there is one. *)
LEMMA TheLedger ==
    ASSUME IInv, records # {}
    PROVE  \E h \in records :
              /\ h \in Chains /\ records = PrefixesOf(h) /\ Accepted(h)
              /\ \A g \in records : /\ g \in Chains
                                    /\ Len(g) \in 1..Len(h)
                                    /\ Last(g) = h[Len(g)]
                                    /\ g = SubSeq(h, 1, Len(g))
<1>1. PICK h \in records : IsLedger(h)
  BY DEF IInv, ReplaysAccepted
<1>2. records \subseteq Chains /\ records = PrefixesOf(h)
  BY <1>1 DEF IInv, TypeOK, Chains, IsLedger
<1>3. ASSUME NEW g \in records
      PROVE  Len(g) \in 1..Len(h) /\ Last(g) = h[Len(g)] /\ g = SubSeq(h, 1, Len(g))
  <2>1. /\ Len(g) \in 1..Len(h) /\ g = SubSeq(h, 1, Len(g))
        /\ \A i \in 1..Len(g) : g[i] = h[i]
    BY <1>2, PrefixMember DEF Chains
  <2>2. Len(g) \in 1..Len(g) /\ Last(g) = g[Len(g)]
    BY <1>2, ChainTyped
  <2> QED
    BY <2>1, <2>2
<1> QED
  BY <1>1, <1>2, <1>3 DEF IsLedger

(* Whatever the mutations leave behind, open() accepts with the newest trust *)
(* history, however often it has rotated since.                              *)
THEOREM AlwaysOpens == Spec => []LedgerOpens
<1>1. IInv => LedgerOpens
  <2> SUFFICES ASSUME IInv, records # {} PROVE \E h \in records : Opens(h, Len(usable))
    BY DEF LedgerOpens
  <2>1. PICK h \in records : h \in Chains /\ records = PrefixesOf(h) /\ Accepted(h)
    BY TheLedger
  <2> QED
    BY <2>1 DEF Opens, Accepted, Chains, PrefixesOf
<1> QED
  BY Invariance, <1>1, PTL

(* No ledger outgrows two records per command and one for its opening, so an *)
(* append that ends the session always has room.                             *)
THEOREM LedgersAreBounded == Spec => []RoomToFinish
<1>1. IInv => RoomToFinish
  <2> SUFFICES ASSUME IInv, NEW g \in records PROVE Len(g) <= 2 * Commands + 1
    BY DEF RoomToFinish
  <2>1. PICK h \in records : Accepted(h) /\ h \in Chains /\ Len(g) \in 1..Len(h)
    BY TheLedger
  <2>2. Len(h) <= 2 * Commands + 1 /\ Len(h) \in Nat /\ Commands \in Nat
    BY <2>1, ChainTyped, CommandsAssumption DEF Accepted, Paced
  <2> QED
    BY <2>1, <2>2
<1> QED
  BY Invariance, <1>1, PTL

(* Every authorization that was handed out is in the ledger, and no command  *)
(* was handed out twice: not to two callers, not again after a crash, a late *)
(* completion or a write that failed.                                        *)
THEOREM NothingIsGrantedTwice == Spec => []GrantsAreDurable
<1>1. IInv => GrantsAreDurable
  <2> SUFFICES ASSUME IInv PROVE GrantsAreDurable
    OBVIOUS
  <2>1. \A g \in granted : g[2] \in records /\ Last(g[2]).type = "authorized"
    BY DEF IInv, GrantsWritten
  <2>2. ASSUME NEW f \in granted, NEW g \in granted, Last(f[2]).command = Last(g[2]).command
        PROVE  f = g
    <3>1. PICK h \in records :
             /\ h \in Chains /\ Accepted(h)
             /\ \A x \in records : /\ Len(x) \in 1..Len(h)
                                   /\ Last(x) = h[Len(x)]
                                   /\ x = SubSeq(h, 1, Len(x))
      BY <2>1, TheLedger
    <3>2. Len(f[2]) \in Authorizations(h) /\ Len(g[2]) \in Authorizations(h)
      BY <2>1, <3>1 DEF Authorizations
    <3>3. h[Len(f[2])].command = h[Len(g[2])].command
      BY <2>1, <2>2, <3>1
    <3>4. Len(f[2]) = Len(g[2])
      BY <3>1, <3>2, <3>3 DEF Accepted, IssuedOnce
    <3>5. f[2] = SubSeq(h, 1, Len(f[2])) /\ g[2] = SubSeq(h, 1, Len(g[2]))
      BY <2>1, <3>1
    <3>6. f[2] = g[2]
      BY <3>4, <3>5
    <3> QED
      BY <3>6 DEF IInv, GrantsWritten
  <2> QED
    BY <2>1, <2>2 DEF GrantsAreDurable
<1> QED
  BY Invariance, <1>1, PTL

-----------------------------------------------------------------------------
(* The longest file of a directory that replays to h is h. *)
LEMMA LongestIsWhole ==
    ASSUME NEW h \in Chains
    PROVE  PrefixesOf(h) # {} /\ Longest(PrefixesOf(h)) = h
<1> DEFINE R == PrefixesOf(h)
           x == Longest(R)
<1>1. h \in R
  BY WholeIsPrefix DEF Chains
<1>2. \A g \in R : Len(g) \in 1..Len(h) /\ g = SubSeq(h, 1, Len(g))
  BY PrefixMember DEF Chains
<1>3. Len(h) \in Nat /\ SubSeq(h, 1, Len(h)) = h
  BY ChainTyped, WholeIsPrefix DEF Chains
<1>4. \A g \in R : Len(g) <= Len(h)
  BY <1>2, <1>3
<1>5. x \in R /\ \A g \in R : Len(g) <= Len(x)
  BY <1>1, <1>4 DEF Longest
<1>6. Len(x) = Len(h)
  BY <1>1, <1>2, <1>3, <1>5
<1> QED
  BY <1>1, <1>2, <1>3, <1>5, <1>6

(* A record that may follow is a step of the sequencer. *)
LEMMA AppendIsSequenced ==
    ASSUME NEW h \in Chains, NEW r \in Records, Admits(h, r), Paced(h), Ranked(h),
           records = PrefixesOf(h), records' = PrefixesOf(Append(h, r))
    PROVE  Sequencer!Next
<1> DEFINE d == Append(h, r)
           n == NextCommand(h)
<1>1. d \in Chains
  BY AppendTyped
<1>2. /\ records # {} /\ Longest(records) = h
      /\ records' # {} /\ Longest(records') = d
  BY <1>1, LongestIsWhole
<1>3. n \in Nat /\ NextCommand(d) = n + IF Succeeded(r) THEN 1 ELSE 0
  BY Counted, AppendNextCommand
<1>4. /\ r.type = "authorized" => Issued(d) = Append(Issued(h), r.command)
      /\ r.type # "authorized" => Issued(d) = Issued(h)
  BY AppendIssued
<1>5. Status(h) \in {"open", "awaiting"}
  BY AdmittedKinds
<1>6. CASE r.type = "authorized" /\ ~Succeeded(r)
  <2>1. Status(h) = "open" /\ r.command = n /\ Status(d) = "awaiting"
    BY <1>6, AdmittedKinds
  <2>2. NextCommand(d) = n
    BY <1>3, <1>6
  <2>3. Sequencer!Issue
    BY <1>2, <1>4, <1>6, <2>1, <2>2 DEF Sequencer!Issue
  <2> QED
    BY <2>3 DEF Sequencer!Next
<1>7. CASE r.type = "completion" /\ Succeeded(r)
  <2>1. /\ Status(h) = "awaiting"
        /\ \/ Status(d) = "expired"
           \/ Status(d) = IF NextCommand(d) = Commands THEN "completed" ELSE "open"
    BY <1>7, AdmittedKinds
  <2>2. NextCommand(d) = n + 1 /\ Issued(d) = Issued(h)
    BY <1>3, <1>4, <1>7
  <2>3. Sequencer!Complete
    BY <1>2, <2>1, <2>2 DEF Sequencer!Complete
  <2> QED
    BY <2>3 DEF Sequencer!Next
<1>8. CASE ~Succeeded(r) /\ r.type # "authorized"
  <2>1. \/ Status(h) = "awaiting" /\ Status(d) = "failed"
        \/ Status(d) \in {"cancelled", "expired", "revoked"}
    BY <1>8, AdmittedKinds
  <2>2. NextCommand(d) = n /\ Issued(d) = Issued(h)
    BY <1>3, <1>4, <1>8
  <2>3. Sequencer!End
    BY <1>2, <1>5, <2>1, <2>2 DEF Sequencer!End
  <2> QED
    BY <2>3 DEF Sequencer!Next
<1> QED
  BY <1>6, <1>7, <1>8 DEF Succeeded

(* Only the renames of create() and of an append move the sequencer; every   *)
(* other step, whoever takes it, leaves it as it was.                        *)
LEMMA RefineStep == IInv /\ [Next]_vars => [Sequencer!Next]_(Sequencer!vars)
<1> SUFFICES ASSUME IInv, [Next]_vars PROVE [Sequencer!Next]_(Sequencer!vars)
  OBVIOUS
<1>1. ASSUME records' = records PROVE UNCHANGED Sequencer!vars
  BY <1>1 DEF Sequencer!vars
<1>2. ASSUME NEW p \in Procs, Create(p) PROVE Sequencer!Next
  <2> DEFINE h == <<Opened>>
  <2>1. records = {} /\ records' = {h}
    BY <1>2 DEF Create
  <2>2. h \in Chains /\ PrefixesOf(h) = {h} /\ Opened \in Records
    BY OpenedAccepted
  <2>3. records' # {} /\ Longest(records') = h
    BY <2>1, <2>2, LongestIsWhole
  <2>4. Opened.type = "opened" /\ Len(h) = 1 /\ h[1] = Opened /\ Last(h) = Opened
    BY DEF Opened, Event, Last
  <2>5. Status(h) = "open"
    BY <2>2, <2>4, StatusOfLast
  <2>6. {i \in 1..Len(h) : Succeeded(h[i])} = {} /\ Authorizations(h) = {}
    BY <2>4 DEF Succeeded, Authorizations
  <2>7. NextCommand(h) = 0 /\ Cardinality(Authorizations(h)) = 0
    BY <2>6, FS_EmptySet DEF NextCommand
  <2>8. Issued(h) = <<>>
    BY <2>7 DEF Issued
  <2>9. Sequencer!Begin
    BY <2>1, <2>3, <2>5, <2>7, <2>8 DEF Sequencer!Begin
  <2> QED
    BY <2>9 DEF Sequencer!Next
<1>3. ASSUME NEW p \in Procs, WriteRecord(p) PROVE Sequencer!Next
  <2> DEFINE r == Last(draft[p])
  <2>1. ExtendsLedger(draft[p]) /\ draft[p] \in Chains /\ records' = records \cup {draft[p]}
    BY <1>3 DEF WriteRecord, IInv, TypeOK, WriterKnows, WriterKnowsAt, ExtendsLedger, Chains
  <2>2. PICK h \in records : IsLedger(h) /\ draft[p] = Append(h, r)
    BY <2>1 DEF ExtendsLedger
  <2>3. h \in Chains /\ r \in Records /\ records = PrefixesOf(h) /\ Paced(h) /\ Ranked(h)
    BY <2>1, <2>2, ChainTyped DEF IInv, TypeOK, Chains, IsLedger, Accepted
  <2>4. ASSUME NEW x \in Records, draft[p] = Append(h, x)
        PROVE  Admits(h, x) /\ records' = PrefixesOf(Append(h, x))
    <3>1. /\ Len(draft[p]) = Len(h) + 1 /\ draft[p][Len(h) + 1] = x
          /\ SubSeq(draft[p], 1, Len(h)) = h /\ Len(h) \in Nat \ {0}
          /\ PrefixesOf(draft[p]) = PrefixesOf(h) \cup {draft[p]}
      <4>1. /\ Len(Append(h, x)) = Len(h) + 1 /\ Append(h, x)[Len(h) + 1] = x
            /\ SubSeq(Append(h, x), 1, Len(h)) = h
            /\ PrefixesOf(Append(h, x)) = PrefixesOf(h) \cup {Append(h, x)}
        BY <2>3, AppendTyped
      <4>2. Len(h) \in Nat \ {0}
        BY <2>3, ChainTyped
      <4> QED
        BY <2>4, <4>1, <4>2
    <3>2. Len(h) + 1 \in 2..Len(draft[p]) /\ (Len(h) + 1) - 1 = Len(h)
      BY <3>1
    <3>3. Admits(SubSeq(draft[p], 1, (Len(h) + 1) - 1), draft[p][Len(h) + 1])
      BY <2>1, <3>2 DEF ExtendsLedger, Accepted, WellFormed
    <3> QED
      BY <2>1, <2>3, <2>4, <3>1, <3>2, <3>3
  <2> QED
    BY <2>2, <2>3, <2>4, AppendIsSequenced
<1>4. CASE \/ UNCHANGED vars \/ OperatorClearsLock \/ \E b \in BOOLEAN : Rotate(b)
           \/ \E p \in Procs : Returns(p) \/ Fails(p) \/ Crash(p)
  BY <1>1, <1>4 DEF vars, OperatorClearsLock, Rotate, Returns, Fails, Crash
<1>5. ASSUME NEW p \in Procs, NEW h \in records, NEW k \in 1..Len(usable), NEW t \in Times,
             \/ Authorize(p, h, k, t)
             \/ \E c \in Indexes, o \in Outcomes : RecordCompletion(p, h, k, c, o, t)
             \/ Cancel(p, h, k, t) \/ Expire(p, h, k, t) \/ RevokeDependency(p, h, k, t)
      PROVE  UNCHANGED Sequencer!vars
  BY <1>1, <1>5 DEF Authorize, AuthorizeExpired, AuthorizeRevoked, AuthorizeGranted,
     AuthorizeRefused, RecordCompletion, Cancel, Expire, RevokeDependency, Prepare
<1>6. ASSUME NEW p \in Procs, NEW h \in records, NEW k \in 1..Len(usable), Open(p, h, k)
      PROVE  UNCHANGED Sequencer!vars
  BY <1>1, <1>6 DEF Open
<1> QED
  BY <1>2, <1>3, <1>4, <1>5, <1>6 DEF Next

(* The files, whoever writes them and whenever he dies, behave as the        *)
(* session's state machine: commands one at a time and in order, the next    *)
(* only after the one before was reported, and none once it has ended.       *)
THEOREM LedgerImplementsSequencer == Spec => ImplementsSequencer
<1>1. Init => Sequencer!Init
  BY DEF Init, Sequencer!Init
<1> QED
  BY <1>1, RefineStep, Invariance, PTL DEF Spec, ImplementsSequencer, Sequencer!Spec

-----------------------------------------------------------------------------
(* How a session that the ledger records comes to be, and what its commands  *)
(* rest on (execution.cpp, deployment.cpp).                                  *)
CONSTANTS Keys, ServiceOf, KeyValidFrom, MayRotate, Quorum, Distinct, Rotations,
          RequiredRoles, MinimumApprovals, DistinctServices, MaxAge, MaxLatency, MaxPeriod,
          Offsets, MaxClock, MaxReviews, MaxRequests, MaxObservations, MaxSessions, MaxGrants,
          Reviewers

VARIABLES head, clock, approvals, reviewed, requests, consents, acknowledged,
          observations, sessions, authorizations

Session == INSTANCE ExecutionSession WITH
    ValidFrom <- KeyValidFrom, MaxTime <- MaxClock, time <- clock

(* What was signed stays signed, so what was once approved stays approved. *)
SignedStays ==
    /\ approvals \subseteq approvals' /\ consents \subseteq consents'
    /\ acknowledged \subseteq acknowledged' /\ observations \subseteq observations'

ReviewsApproved == \A r \in reviewed : Session!ProfileApproved(r.profile, r.signers)
RequestsReviewed == \A q \in requests : q.reviewed \in reviewed /\ q.duration \in 1..MaxAge
ObservationsDated == \A o \in observations : o.time \in Int /\ o.age \in 0..MaxAge
SessionsBuilt ==
    \A s \in sessions :
       /\ s.request \in requests /\ s.observation \in observations
       /\ Session!Constructible(s.request, s.signers, s.observation)
GrantsTimely ==
    \A a \in authorizations :
       /\ a.session \in sessions /\ a.dispatch \in Int
       /\ a.dispatch <= a.session.observation.time + a.session.request.duration

SessionInv ==
    /\ clock \in Int
    /\ ReviewsApproved
    /\ RequestsReviewed
    /\ ObservationsDated
    /\ SessionsBuilt
    /\ GrantsTimely

LEMMA ApprovalsStay ==
    ASSUME SignedStays
    PROVE  /\ ReviewsApproved /\ reviewed' = reviewed => ReviewsApproved'
           /\ ObservationsDated /\ observations' = observations => ObservationsDated'
           /\ SessionsBuilt /\ sessions' = sessions /\ requests \subseteq requests' => SessionsBuilt'
<1>1. \A p, S : Session!ProfileApproved(p, S) => Session!ProfileApproved(p, S)'
  BY DEF SignedStays, Session!ProfileApproved
<1>2. \A q, S, o : Session!Constructible(q, S, o) => Session!Constructible(q, S, o)'
  BY DEF SignedStays, Session!Constructible, Session!RequestApproved
<1>3. ReviewsApproved /\ reviewed' = reviewed => ReviewsApproved'
  BY <1>1 DEF ReviewsApproved
<1>4. SessionsBuilt /\ sessions' = sessions /\ requests \subseteq requests' => SessionsBuilt'
  BY <1>2 DEF SessionsBuilt, SignedStays
<1> QED
  BY <1>3, <1>4 DEF ObservationsDated

(* Steps that sign something, or that nobody looks at. *)
LEMMA SigningStep ==
    ASSUME SessionInv, SignedStays, clock' \in Int,
           UNCHANGED <<reviewed, requests, sessions, authorizations>>,
           observations' # observations => ObservationsDated'
    PROVE  SessionInv'
<1>1. RequestsReviewed'
  BY DEF SessionInv, RequestsReviewed
<1>2. GrantsTimely'
  BY DEF SessionInv, GrantsTimely
<1> QED
  BY <1>1, <1>2, ApprovalsStay DEF SessionInv

LEMMA SessionNext == Session!Aged /\ SessionInv /\ [Session!Next]_(Session!vars) => SessionInv'
<1> SUFFICES ASSUME Session!Aged, SessionInv, [Session!Next]_(Session!vars) PROVE SessionInv'
  OBVIOUS
<1>1. CASE Session!RotateTrust
  BY <1>1, SigningStep DEF Session!RotateTrust, Session!signed, SignedStays, SessionInv
<1>2. CASE Session!Tick
  BY <1>2, SigningStep DEF Session!Tick, Session!signed, SignedStays, SessionInv
<1>3. ASSUME NEW p, NEW k, NEW r, Session!ApproveProfile(p, k, r)
      PROVE  SessionInv'
  BY <1>3, SigningStep DEF Session!ApproveProfile, SignedStays, SessionInv
<1>4. ASSUME NEW p, NEW S, Session!Review(p, S)
      PROVE  SessionInv'
  <2>1. /\ reviewed' = reviewed \cup {[profile |-> p, signers |-> S]}
        /\ Session!ProfileApproved(p, S)
        /\ UNCHANGED <<clock, approvals, consents, acknowledged, observations, requests,
                       sessions, authorizations>>
    BY <1>4 DEF Session!Review, Session!Reviewable, Session!signed
  <2>2. \A q, T : Session!ProfileApproved(q, T) => Session!ProfileApproved(q, T)'
    BY <2>1 DEF Session!ProfileApproved
  <2>3. ReviewsApproved'
    BY <2>1, <2>2 DEF SessionInv, ReviewsApproved
  <2>4. SignedStays
    BY <2>1 DEF SignedStays
  <2>5. RequestsReviewed' /\ GrantsTimely'
    BY <2>1 DEF SessionInv, RequestsReviewed, GrantsTimely
  <2> QED
    BY <2>1, <2>3, <2>4, <2>5, ApprovalsStay DEF SessionInv
<1>5. ASSUME NEW r \in reviewed, NEW start \in 1..MaxAge, NEW duration \in 1..MaxAge,
             Session!Request(r, start, duration)
      PROVE  SessionInv'
  <2>1. /\ requests' = requests \cup {[reviewed |-> r, nonce |-> Session!Cardinality(requests),
                                       start |-> start, duration |-> duration]}
        /\ UNCHANGED <<clock, approvals, consents, acknowledged, observations, reviewed,
                       sessions, authorizations>>
    BY <1>5 DEF Session!Request, Session!signed
  <2>2. SignedStays
    BY <2>1 DEF SignedStays
  <2>3. RequestsReviewed' /\ GrantsTimely'
    BY <2>1 DEF SessionInv, RequestsReviewed, GrantsTimely
  <2> QED
    BY <2>1, <2>2, <2>3, ApprovalsStay DEF SessionInv
<1>6. ASSUME NEW q \in requests, NEW a, Session!ApproveRequest(q, a)
      PROVE  SessionInv'
  BY <1>6, SigningStep DEF Session!ApproveRequest, SignedStays, SessionInv
<1>7. ASSUME NEW q \in requests, Session!Acknowledge(q)
      PROVE  SessionInv'
  BY <1>7, SigningStep DEF Session!Acknowledge, SignedStays, SessionInv
<1>8. ASSUME NEW q \in requests, NEW state, NEW age \in 0..MaxAge, NEW latency,
             Session!Observe(q, state, age, latency)
      PROVE  SessionInv'
  <2>1. ObservationsDated'
    BY <1>8 DEF Session!Observe, ObservationsDated, SessionInv
  <2>2. SignedStays
    BY <1>8 DEF Session!Observe, SignedStays
  <2> QED
    BY <1>8, <2>1, <2>2, SigningStep DEF Session!Observe, SessionInv
<1>9. ASSUME NEW q \in requests, NEW S, NEW o \in observations, Session!CreateSession(q, S, o)
      PROVE  SessionInv'
  <2>1. /\ sessions' = sessions \cup {[request |-> q, signers |-> S, observation |-> o]}
        /\ Session!Constructible(q, S, o)
        /\ UNCHANGED <<clock, approvals, consents, acknowledged, observations, reviewed,
                       requests, authorizations>>
    BY <1>9 DEF Session!CreateSession, Session!signed
  <2>2. \A r, T, p : Session!Constructible(r, T, p) => Session!Constructible(r, T, p)'
    BY <2>1 DEF Session!Constructible, Session!RequestApproved
  <2>3. SessionsBuilt'
    BY <2>1, <2>2 DEF SessionInv, SessionsBuilt
  <2>4. SignedStays
    BY <2>1 DEF SignedStays
  <2>5. RequestsReviewed' /\ GrantsTimely'
    BY <2>1 DEF SessionInv, RequestsReviewed, GrantsTimely
  <2> QED
    BY <2>1, <2>3, <2>4, <2>5, ApprovalsStay DEF SessionInv
<1>10. ASSUME NEW s \in sessions, NEW i \in 1..Len(Offsets), Session!Authorize(s, i)
       PROVE  SessionInv'
  <2>1. /\ authorizations' = authorizations \cup {[session |-> s, command |-> i, dispatch |-> clock]}
        /\ clock <= s.observation.time + s.request.duration
        /\ UNCHANGED <<clock, approvals, consents, acknowledged, observations, reviewed,
                       requests, sessions>>
    BY <1>10 DEF Session!Authorize, Session!signed
  <2>2. SignedStays
    BY <2>1 DEF SignedStays
  <2>3. RequestsReviewed' /\ GrantsTimely'
    BY <2>1 DEF SessionInv, RequestsReviewed, GrantsTimely
  <2> QED
    BY <2>1, <2>2, <2>3, ApprovalsStay DEF SessionInv
<1>11. CASE UNCHANGED Session!vars
  BY <1>11, SigningStep DEF Session!vars, Session!signed, SignedStays, SessionInv
<1> QED
  BY <1>1, <1>2, <1>3, <1>4, <1>5, <1>6, <1>7, <1>8, <1>9, <1>10, <1>11 DEF Session!Next

LEMMA SessionInvariance == Session!Aged => (Session!Spec => []SessionInv)
<1> SUFFICES ASSUME Session!Aged PROVE Session!Spec => []SessionInv
  OBVIOUS
<1>1. Session!Init => SessionInv
  BY DEF Session!Init, SessionInv, ReviewsApproved, RequestsReviewed, ObservationsDated,
         SessionsBuilt, GrantsTimely
<1>2. SessionInv /\ [Session!Next]_(Session!vars) => SessionInv'
  BY SessionNext
<1> QED
  BY <1>1, <1>2, PTL DEF Session!Spec

(* authorize_command(): no command without a profile and a request that      *)
(* enough reviewers in their roles approved, an acknowledgement, and an      *)
(* observation of this very request no older than reviewed; and a saved      *)
(* session loads as long as the trust history is where its profile was       *)
(* reviewed, and not after (load_bounded_execution_session()).               *)
THEOREM SessionsAreReviewed ==
    Session!Aged => (Session!Spec => [](Session!GrantsAreReviewed /\ Session!SessionsLoad))
<1> SUFFICES ASSUME Session!Aged
             PROVE  Session!Spec => [](Session!GrantsAreReviewed /\ Session!SessionsLoad)
  OBVIOUS
<1>1. SessionInv => Session!GrantsAreReviewed /\ Session!SessionsLoad
  <2> SUFFICES ASSUME SessionInv PROVE Session!GrantsAreReviewed /\ Session!SessionsLoad
    OBVIOUS
  <2>1. ASSUME NEW s \in sessions
        PROVE  /\ s.request.reviewed \in reviewed /\ s.request.duration \in 1..MaxAge
               /\ s.observation \in observations /\ s.observation.time \in Int
               /\ s.observation.age \in 0..MaxAge
               /\ Session!Constructible(s.request, s.signers, s.observation)
               /\ Session!ProfileApproved(s.request.reviewed.profile, s.request.reviewed.signers)
    BY <2>1 DEF SessionInv, SessionsBuilt, RequestsReviewed, ReviewsApproved, ObservationsDated
  <2>2. ASSUME NEW a \in authorizations
        PROVE  LET request == a.session.request
                   o == a.session.observation
               IN /\ Session!MeetsPolicy(a.session.signers)
                  /\ \A s \in a.session.signers :
                        /\ [profile |-> request.reviewed.profile, key |-> s[1], role |-> s[2]] \in approvals
                        /\ [request |-> request, key |-> s[1], role |-> s[2]] \in consents
                  /\ request \in acknowledged
                  /\ o \in observations /\ o.request = request /\ o.state = "armed"
                  /\ a.dispatch - (o.time - o.age) <= MaxAge
    <3>1. PICK q, S, o : q = a.session.request /\ S = a.session.signers /\ o = a.session.observation
      OBVIOUS
    <3>2. /\ a.session \in sessions /\ a.dispatch \in Int /\ a.dispatch <= o.time + q.duration
      BY <3>1 DEF SessionInv, GrantsTimely
    <3>3. /\ q.duration \in 1..MaxAge /\ o \in observations /\ o.time \in Int /\ o.age \in 0..MaxAge
          /\ Session!Constructible(q, S, o)
          /\ Session!ProfileApproved(q.reviewed.profile, q.reviewed.signers)
      BY <2>1, <3>1, <3>2
    <3>4. /\ Session!RequestApproved(q, S) /\ q \in acknowledged
          /\ o.request = q /\ o.state = "armed" /\ ~Session!OutlivesObservation(q, o)
      BY <3>3 DEF Session!Constructible
    <3>5. MaxAge \in Nat /\ q.duration \in Int /\ o.age \in Int
      BY <3>3 DEF Session!Aged
    <3>6. a.dispatch - (o.time - o.age) <= MaxAge
      <4>1. q.duration <= MaxAge - o.age
        BY <3>4, <3>5 DEF Session!OutlivesObservation
      <4> QED
        BY <3>2, <3>3, <3>5, <4>1
    <3>7. Session!MeetsPolicy(S)
      BY <3>4 DEF Session!RequestApproved
    <3>8. ASSUME NEW s \in S
          PROVE  /\ [profile |-> q.reviewed.profile, key |-> s[1], role |-> s[2]] \in approvals
                 /\ [request |-> q, key |-> s[1], role |-> s[2]] \in consents
      BY <3>3, <3>4, <3>8 DEF Session!RequestApproved, Session!ProfileApproved
    <3> QED
      BY <3>1, <3>3, <3>4, <3>6, <3>7, <3>8
  <2>3. Session!GrantsAreReviewed
    BY <2>2 DEF Session!GrantsAreReviewed
  <2>4. Session!SessionsLoad
    BY <2>1 DEF Session!SessionsLoad, Session!Loads, Session!Reviewable
  <2> QED
    BY <2>3, <2>4
<1> QED
  BY <1>1, SessionInvariance, PTL
=============================================================================
