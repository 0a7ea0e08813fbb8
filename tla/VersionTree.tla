----------------------------- MODULE VersionTree -----------------------------
(***************************************************************************)
(* What AtlasVersionStore promises: a tree of immutable versions and one     *)
(* active head.  Publishing adds a child of the head and moves the head to   *)
(* it; rolling back moves the head to a version already in the tree; neither *)
(* ever removes a version.                                                   *)
(***************************************************************************)
EXTENDS Sequences, Naturals

CONSTANT Scene      \* what distinguishes the children of one version

VARIABLES
    tree,           \* published versions, each the path of scenes to it
    active          \* the active head, or <<>> before creation

vars == <<tree, active>>

Init == tree = {} /\ active = <<>>

Create(s) ==
    /\ tree = {}
    /\ tree' = {<<s>>}
    /\ active' = <<s>>

Publish(s) ==
    /\ active \in tree
    /\ Append(active, s) \notin tree
    /\ tree' = tree \cup {Append(active, s)}
    /\ active' = Append(active, s)

Rollback(v) ==
    /\ active' = v
    /\ UNCHANGED tree

Next ==
    \/ \E s \in Scene : Create(s) \/ Publish(s)
    \/ \E v \in tree : Rollback(v)

Spec == Init /\ [][Next]_vars
=============================================================================
