-------------------------- MODULE CommandSequencer --------------------------
(***************************************************************************)
(* What an execution ledger promises about one bounded session, with no      *)
(* files, locks or processes: commands are issued one at a time and in       *)
(* order, the next only after the one before was reported completed in time, *)
(* and a session that has ended issues no more.                              *)
(***************************************************************************)
EXTENDS Naturals, Sequences

CONSTANT Commands       \* number of commands of the session

VARIABLES
    state,      \* of the session
    issued,     \* the commands issued so far, in order
    done        \* how many of them were reported completed

vars == <<state, issued, done>>

Init == state = "none" /\ issued = <<>> /\ done = 0

Begin ==
    /\ state = "none"
    /\ state' = "open"
    /\ UNCHANGED <<issued, done>>

Issue ==
    /\ state = "open"
    /\ issued' = Append(issued, done)
    /\ state' = "awaiting"
    /\ UNCHANGED done

(* The command is reported completed, the session may be over by then. *)
Complete ==
    /\ state = "awaiting"
    /\ done' = done + 1
    /\ state' \in {IF done' = Commands THEN "completed" ELSE "open", "expired"}
    /\ UNCHANGED issued

End ==
    /\ \/ state \in {"open", "awaiting"} /\ state' \in {"cancelled", "expired", "revoked"}
       \/ state = "awaiting" /\ state' = "failed"
    /\ UNCHANGED <<issued, done>>

Next == Begin \/ Issue \/ Complete \/ End

Spec == Init /\ [][Next]_vars
=============================================================================
