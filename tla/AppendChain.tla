----------------------------- MODULE AppendChain -----------------------------
(***************************************************************************)
(* What RBF-Safe's append-only stores promise their users, with no files,   *)
(* locks or handles in sight: one log that only ever grows by one entry at  *)
(* its end and never repeats its last entry, and clients whose view of it   *)
(* is always a prefix that never shrinks while the client lives.            *)
(***************************************************************************)
EXTENDS Sequences, Naturals

CONSTANTS
    Entry,      \* the payload identities that may be appended
    Client      \* the processes that hold a view of the log

VARIABLES
    log,        \* the committed entries, oldest first; <<>> before creation
    view        \* view[c]: the prefix client c has been told of, or <<>>

vars == <<log, view>>

IsPrefixOf(s, t) == Len(s) <= Len(t) /\ \A i \in 1..Len(s) : s[i] = t[i]

Init ==
    /\ log = <<>>
    /\ view = [c \in Client |-> <<>>]

(* A new entry becomes the head; an unchanged head is not appended again. *)
Extend(e) ==
    /\ log # <<>> => log[Len(log)] # e
    /\ log' = Append(log, e)
    /\ UNCHANGED view

(* A client learns a longer prefix of the log. *)
Observe(c, k) ==
    /\ IsPrefixOf(view[c], SubSeq(log, 1, k))
    /\ view' = [view EXCEPT ![c] = SubSeq(log, 1, k)]
    /\ UNCHANGED log

(* A client dies and its successor starts with no view. *)
Forget(c) ==
    /\ view' = [view EXCEPT ![c] = <<>>]
    /\ UNCHANGED log

Next ==
    \/ \E e \in Entry : Extend(e)
    \/ \E c \in Client : \/ \E k \in 1..Len(log) : Observe(c, k)
                         \/ Forget(c)

Spec == Init /\ [][Next]_vars
=============================================================================
