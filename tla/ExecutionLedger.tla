-------------------------- MODULE ExecutionLedger ---------------------------
(***************************************************************************)
(* ExecutionLedger (src/execution_ledger.cpp,                                *)
(* src/execution_ledger_persistence.cpp): the append-only record files of    *)
(* one bounded session, shared by processes that each hold an object and a   *)
(* copy, possibly old, of the trust history.                                 *)
(*                                                                           *)
(* A record file is modelled by the chain that it ends.  As in TrustHistory, *)
(* opening is one step: an enumeration that is not the directory at some     *)
(* moment during the call is no chain and fails.  The trust history enters   *)
(* by whether every reviewer of the session is active at each bundle from    *)
(* the session's own on.                                                     *)
(*                                                                           *)
(* Ids are hashes over the parent's id.  A checkpoint is the number of       *)
(* bundles from the session's own bundle up to its head and the way it was   *)
(* signed.  Failed and Rejected, which the ledger treats alike, are one      *)
(* outcome.                                                                  *)
(***************************************************************************)
EXTENDS Naturals, Sequences, FiniteSets

CONSTANTS
    Commands,       \* number of commands of the session's sequence
    Offset,         \* scheduled_offset_ns of each command
    Latency,        \* command_latency_ns of the monitor's observation
    ValidFrom,      \* the beginning of the session, its start deadline
    StartDeadline,
    ValidThrough,   \* and its end
    Procs,          \* processes, each with one ExecutionLedger object
    Signings,       \* the ways a checkpoint of one head may be signed
    MaxRecords,     \* options.maximum_records
    MaxTime,        \* bound: callers name no later time
    MaxTrust        \* bound: the trust history grows no longer

Indexes == 0..(Commands - 1)

ASSUME CommandsAssumption ==
    /\ Commands \in Nat /\ Commands >= 2
    /\ Offset \in [Indexes -> Nat]
    /\ Latency \in Nat
ASSUME TimesAssumption ==
    /\ ValidFrom \in Nat \ {0} /\ StartDeadline \in Nat /\ ValidThrough \in Nat
    /\ ValidFrom <= StartDeadline /\ StartDeadline <= ValidThrough
ASSUME LedgerAssumption ==
    /\ Signings \subseteq Nat \ {0}
    /\ MaxRecords \in Nat \ {0}
    /\ MaxTime \in Nat
    /\ MaxTrust \in Nat \ {0}

-----------------------------------------------------------------------------
(* A record, and what a chain of them says about the session.                *)

Types == {"opened", "authorized", "completion", "cancelled", "expired", "revoked"}
Outcomes == {"completed", "failed"}
NoCommand == Commands
NoCheckpoint == [sequence |-> 0, signed |-> 0]
Checkpoints == [sequence : Nat, signed : Nat]

Records == [type : Types, time : Nat, command : Indexes \cup {NoCommand},
            outcome : Outcomes \cup {"none"}, checkpoint : Checkpoints]
Event(type, time) ==
    [type |-> type, time |-> time, command |-> NoCommand, outcome |-> "none",
     checkpoint |-> NoCheckpoint]
Opened == Event("opened", ValidFrom)
Authorized(c, t, cp) == [Event("authorized", t) EXCEPT !.command = c, !.checkpoint = cp]
Completion(c, o, t) == [Event("completion", t) EXCEPT !.command = c, !.outcome = o]

Last(h) == h[Len(h)]
Succeeded(r) == r.type = "completion" /\ r.outcome = "completed"

(* ExecutionLedgerSummary::next_command_index *)
NextCommand(h) == Cardinality({i \in 1..Len(h) : Succeeded(h[i])})

Terminal == {"completed", "failed", "cancelled", "expired", "revoked"}

(* Mutant of Status: the controller's outcome is not looked at. *)
StatusOfAnyCompletion(h) ==
    LET r == Last(h) IN
    CASE r.type = "opened" -> "open"
      [] r.type = "authorized" -> "awaiting"
      [] r.type = "completion" /\ r.time > ValidThrough -> "expired"
      [] r.type = "completion" /\ r.time <= ValidThrough ->
            IF NextCommand(h) = Commands THEN "completed" ELSE "open"
      [] OTHER -> r.type

(* build_summary(): the status, which the last record decides. *)
Status(h) ==
    LET r == Last(h) IN
    CASE r.type = "opened" -> "open"
      [] r.type = "authorized" -> "awaiting"
      [] r.type = "completion" /\ ~Succeeded(r) -> "failed"
      [] Succeeded(r) /\ r.time > ValidThrough -> "expired"
      [] Succeeded(r) /\ r.time <= ValidThrough ->
            IF NextCommand(h) = Commands THEN "completed" ELSE "open"
      [] OTHER -> r.type

(* build_summary(): the loop accepts record r after chain h. *)
Admits(h, r) ==
    /\ r.time >= Last(h).time
    /\ Status(h) \notin Terminal
    /\ \/ r.type = "authorized" /\ Status(h) = "open" /\ r.command = NextCommand(h)
       \/ r.type = "completion" /\ Status(h) = "awaiting" /\ r.command = Last(h).command
       \/ r.type \in {"cancelled", "revoked"}
       \/ r.type = "expired" /\ r.time > ValidThrough

(* ExecutionLedger::valid() *)
WellFormed(h) ==
    /\ h # <<>> /\ h[1] = Opened
    /\ \A i \in 2..Len(h) : Admits(SubSeq(h, 1, i - 1), h[i])

(* BoundedExecutionSession::authorize_command() grants command c at time t. *)
InWindow(c, t) ==
    LET from == ValidFrom + Offset[c] IN
    /\ from <= t /\ t <= from + Latency /\ t <= ValidThrough
    /\ c = 0 => t <= StartDeadline

-----------------------------------------------------------------------------
VARIABLES
    records,    \* records/: each the chain that the file ends
    lock,       \* .writer-lock exists
    pc,         \* where each process is
    handle,     \* handle[p]: the chain in p's object, or <<>>
    draft,      \* draft[p]: the chain p's append in progress would end
    usable,     \* usable[i]: every reviewer is active at the i-th bundle
    granted     \* <<p, h>>: p was handed the authorization that ends chain h

vars == <<records, lock, pc, handle, draft, usable, granted>>

Times == 1..MaxTime
Appending == {"checked", "written"}

-----------------------------------------------------------------------------
(* The sequence and id checks of audit() and authorize_command(). *)
CheckpointFollows(old, new) ==
    /\ old.sequence <= new.sequence
    /\ old.sequence = new.sequence => old = new

Backed(h) == {i \in 1..Len(h) : h[i].checkpoint # NoCheckpoint}

(* The checkpoint of the latest record that has one. *)
LastCheckpoint(h) ==
    IF Backed(h) = {} THEN NoCheckpoint
    ELSE h[CHOOSE i \in Backed(h) : \A j \in Backed(h) : j <= i].checkpoint

(* audit() by a caller that holds the first k bundles. *)
Audited(h, k) ==
    /\ \A i \in Backed(h) :
          /\ h[i].checkpoint.sequence <= k
          /\ CheckpointFollows(LastCheckpoint(SubSeq(h, 1, i - 1)), h[i].checkpoint)
          /\ usable[h[i].checkpoint.sequence] <=> h[i].type = "authorized"
    /\ \A i \in 1..Len(h) : h[i].type = "authorized" => InWindow(h[i].command, h[i].time)

(* open() finds chain h and accepts it. *)
Opens(h, k) ==
    /\ h # <<>>
    /\ records = {SubSeq(h, 1, i) : i \in 1..Len(h)}
    /\ Len(h) <= MaxRecords
    /\ WellFormed(h)
    /\ Audited(h, k)

-----------------------------------------------------------------------------
(* The session exists: its reviewers were trusted at its bundle, some        *)
(* perhaps by a key that was already retired.                                *)
Init ==
    /\ records = {}
    /\ lock = FALSE
    /\ pc = [p \in Procs |-> "closed"]
    /\ handle = [p \in Procs |-> <<>>]
    /\ draft = [p \in Procs |-> <<>>]
    /\ usable \in {<<b>> : b \in BOOLEAN}
    /\ granted = {}

(* create(): built in a temporary sibling and renamed into place. *)
Create(p) ==
    /\ pc[p] = "closed"
    /\ records = {}
    /\ records' = {<<Opened>>}
    /\ handle' = [handle EXCEPT ![p] = <<Opened>>]
    /\ pc' = [pc EXCEPT ![p] = "open"]
    /\ UNCHANGED <<lock, draft, usable, granted>>

Open(p, h, k) ==
    /\ pc[p] \in {"closed", "open"}
    /\ Opens(h, k)
    /\ handle' = [handle EXCEPT ![p] = h]
    /\ pc' = [pc EXCEPT ![p] = "open"]
    /\ UNCHANGED <<records, lock, draft, usable, granted>>

-----------------------------------------------------------------------------
(* The start of every mutation: under the lock the ledger is reopened and    *)
(* its head is the one the caller expects.                                   *)
Reopens(p, h, k) == pc[p] = "open" /\ ~lock /\ Opens(h, k)

(* append_record_unlocked() up to the write. *)
Prepare(p, h, r) ==
    /\ Len(h) < MaxRecords
    /\ WellFormed(Append(h, r))
    /\ draft' = [draft EXCEPT ![p] = Append(h, r)]
    /\ lock' = TRUE
    /\ pc' = [pc EXCEPT ![p] = "checked"]
    /\ UNCHANGED <<records, handle, usable, granted>>

(* authorize_command() after the session's end expires it. *)
AuthorizeExpired(p, h, k, t) ==
    /\ Reopens(p, h, k)
    /\ t >= Last(h).time /\ t > ValidThrough /\ Status(h) \notin Terminal
    /\ Prepare(p, h, Event("expired", t))

(* Mutant of MayAuthorize: the checkpoint is not compared with the ledger's. *)
MayAuthorizeAnyCheckpoint(h, k, t, cp) ==
    /\ t >= Last(h).time /\ t <= ValidThrough /\ Status(h) \notin Terminal
    /\ cp.sequence = k

(* What authorize_command() tests first: time, status, and a checkpoint of   *)
(* the head of the caller's history that does not lead back.                 *)
MayAuthorize(h, k, t, cp) ==
    /\ t >= Last(h).time /\ t <= ValidThrough /\ Status(h) \notin Terminal
    /\ cp.sequence = k
    /\ CheckpointFollows(LastCheckpoint(h), cp)

(* A reviewer is not active at the caller's head: the session is revoked. *)
AuthorizeRevoked(p, h, k, t, cp) ==
    /\ Reopens(p, h, k)
    /\ MayAuthorize(h, k, t, cp)
    /\ ~usable[k]
    /\ Prepare(p, h, [Event("revoked", t) EXCEPT !.checkpoint = cp])

AuthorizeGranted(p, h, k, c, t, cp) ==
    /\ Reopens(p, h, k)
    /\ MayAuthorize(h, k, t, cp)
    /\ usable[k]
    /\ Status(h) = "open" /\ c = NextCommand(h)
    /\ InWindow(c, t)
    /\ Prepare(p, h, Authorized(c, t, cp))

(* The command is outside its window or, at any time, its configuration is   *)
(* not the one signed for: no authorization, and the object is fresh.        *)
AuthorizeRefused(p, h, k, c, t, cp) ==
    /\ Reopens(p, h, k)
    /\ MayAuthorize(h, k, t, cp)
    /\ usable[k]
    /\ Status(h) = "open" /\ c = NextCommand(h)
    /\ handle' = [handle EXCEPT ![p] = h]
    /\ UNCHANGED <<records, lock, pc, draft, usable, granted>>

(* record_completion(): of the authorization that ends the ledger and of no  *)
(* other, however late or often the controller's answer arrives.             *)
RecordCompletion(p, h, k, c, o, t) ==
    /\ Reopens(p, h, k)
    /\ Status(h) = "awaiting"
    /\ c = Last(h).command /\ t >= Last(h).time
    /\ Prepare(p, h, Completion(c, o, t))

Cancel(p, h, k, t) ==
    /\ Reopens(p, h, k)
    /\ Status(h) \notin Terminal /\ t >= Last(h).time
    /\ Prepare(p, h, Event("cancelled", t))

Expire(p, h, k, t) ==
    /\ t > ValidThrough
    /\ Reopens(p, h, k)
    /\ Status(h) \notin Terminal /\ t >= Last(h).time
    /\ Prepare(p, h, Event("expired", t))

(* revoke_dependency() of one of the session's dependencies. *)
RevokeDependency(p, h, k, t) ==
    /\ Reopens(p, h, k)
    /\ Status(h) \notin Terminal /\ t >= Last(h).time
    /\ Prepare(p, h, Event("revoked", t))

-----------------------------------------------------------------------------
(* The record is renamed into place, never over an existing one. *)
WriteRecord(p) ==
    /\ pc[p] = "checked"
    /\ draft[p] \notin records
    /\ records' = records \cup {draft[p]}
    /\ pc' = [pc EXCEPT ![p] = "written"]
    /\ UNCHANGED <<lock, handle, draft, usable, granted>>

(* The authorization, if the chain h that p wrote ends with one. *)
Grant(p, h) == IF Last(h).type = "authorized" THEN {<<p, h>>} ELSE {}

Returns(p) ==
    /\ pc[p] = "written"
    /\ handle' = [handle EXCEPT ![p] = draft[p]]
    /\ granted' = granted \cup Grant(p, draft[p])
    /\ draft' = [draft EXCEPT ![p] = <<>>]
    /\ lock' = FALSE
    /\ pc' = [pc EXCEPT ![p] = "open"]
    /\ UNCHANGED <<records, usable>>

(* Mutant of Fails: the decision is returned although the write failed. *)
FailsGranting(p) ==
    /\ pc[p] = "checked"
    /\ granted' = granted \cup Grant(p, draft[p])
    /\ draft' = [draft EXCEPT ![p] = <<>>]
    /\ lock' = FALSE
    /\ pc' = [pc EXCEPT ![p] = "open"]
    /\ UNCHANGED <<records, handle, usable>>

(* The write fails; the destructor releases the lock. *)
Fails(p) ==
    /\ pc[p] = "checked"
    /\ draft' = [draft EXCEPT ![p] = <<>>]
    /\ lock' = FALSE
    /\ pc' = [pc EXCEPT ![p] = "open"]
    /\ UNCHANGED <<records, handle, usable, granted>>

Crash(p) ==
    /\ pc[p] # "closed"
    /\ pc' = [pc EXCEPT ![p] = "closed"]
    /\ handle' = [handle EXCEPT ![p] = <<>>]
    /\ draft' = [draft EXCEPT ![p] = <<>>]
    /\ UNCHANGED <<records, lock, usable, granted>>

(* External: the operator removes a lock left by a process that died. *)
OperatorClearsLock ==
    /\ lock
    /\ \A p \in Procs : pc[p] \notin Appending
    /\ lock' = FALSE
    /\ UNCHANGED <<records, pc, handle, draft, usable, granted>>

(* A rotation is published in the trust history.  A key that is no longer    *)
(* active there never is again (TrustHistory, TrustOnlyShrinks).             *)
Rotate(b) ==
    /\ Len(usable) < MaxTrust
    /\ b => usable[Len(usable)]
    /\ usable' = Append(usable, b)
    /\ UNCHANGED <<records, lock, pc, handle, draft, granted>>

Authorize(p, h, k, t) ==
    \/ AuthorizeExpired(p, h, k, t)
    \/ \E s \in Signings :
          LET cp == [sequence |-> k, signed |-> s] IN
          \/ AuthorizeRevoked(p, h, k, t, cp)
          \/ \E c \in Indexes : \/ AuthorizeGranted(p, h, k, c, t, cp)
                                \/ AuthorizeRefused(p, h, k, c, t, cp)

Next ==
    \/ \E p \in Procs :
          \/ Create(p)
          \/ \E h \in records, k \in 1..Len(usable) :
                \/ Open(p, h, k)
                \/ \E t \in Times :
                      \/ Authorize(p, h, k, t)
                      \/ \E c \in Indexes, o \in Outcomes : RecordCompletion(p, h, k, c, o, t)
                      \/ Cancel(p, h, k, t)
                      \/ Expire(p, h, k, t)
                      \/ RevokeDependency(p, h, k, t)
          \/ WriteRecord(p)
          \/ Returns(p)
          \/ Fails(p)
          \/ Crash(p)
    \/ OperatorClearsLock
    \/ \E b \in BOOLEAN : Rotate(b)

Spec == Init /\ [][Next]_vars

-----------------------------------------------------------------------------
(* What create(), open() and the mutations keep has its type. *)
TypeOK ==
    /\ records \subseteq Seq(Records) \ {<<>>}
    /\ lock \in BOOLEAN
    /\ pc \in [Procs -> Appending \cup {"closed", "open"}]
    /\ handle \in [Procs -> Seq(Records)]
    /\ draft \in [Procs -> Seq(Records)]
    /\ usable \in Seq(BOOLEAN) \ {<<>>}
    /\ granted \subseteq Procs \X Seq(Records)

(* Whatever the mutations leave behind, a caller with the newest trust       *)
(* history opens: append_record_unlocked() tests less than open() does, and  *)
(* a record that open() refuses could never be taken back.                   *)
LedgerOpens == records # {} => \E h \in records : Opens(h, Len(usable))

(* An authorization that a caller was handed is in the ledger, and no        *)
(* command was ever handed out twice, to one caller or to two.               *)
GrantsAreDurable ==
    /\ \A g \in granted : g[2] \in records
    /\ \A f, g \in granted : Last(f[2]).command = Last(g[2]).command => f = g

(* A ledger never needs more records than two per command and one to open,   *)
(* whatever fails, ends or is retried: with that maximum_records (the        *)
(* default is 1,000,000 and no session has more than 100,000 commands) no    *)
(* append, the one that ends the session included, is refused for want of    *)
(* room.                                                                     *)
RoomToFinish == \A h \in records : Len(h) <= 2 * Commands + 1

-----------------------------------------------------------------------------
(* The chain of all records, and the commands that a chain authorises, in    *)
(* the order of its records, for the refinement.                             *)
Longest(files) == CHOOSE h \in files : \A g \in files : Len(g) <= Len(h)

Authorizations(h) == {i \in 1..Len(h) : h[i].type = "authorized"}
Nth(h, n) ==
    {i \in Authorizations(h) : Cardinality({j \in Authorizations(h) : j <= i}) = n}
Issued(h) ==
    [n \in 1..Cardinality(Authorizations(h)) |-> h[CHOOSE i \in Nth(h, n) : TRUE].command]

Sequencer ==
    INSTANCE CommandSequencer WITH
        state <- IF records = {} THEN "none" ELSE Status(Longest(records)),
        issued <- IF records = {} THEN <<>> ELSE Issued(Longest(records)),
        done <- IF records = {} THEN 0 ELSE NextCommand(Longest(records))

(* The files, whoever writes them and dies, issue the commands one at a time *)
(* and in order, and none once the session has ended: the state machine of   *)
(* docs/execution-ledger-format.md:14-38.                                    *)
ImplementsSequencer == Sequencer!Spec
=============================================================================
