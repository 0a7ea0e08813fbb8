----------------------------- MODULE SafeReplace -----------------------------
(***************************************************************************)
(* How an artifact is saved over an older one of the same name: written and  *)
(* checked under a temporary name, the older one moved aside, the new one    *)
(* renamed into place, the older one removed.  publish_directory() of        *)
(* src/remote_persistence.cpp is modelled; publish_file() of                 *)
(* src/coordination_reservation_persistence.cpp and the savers of other      *)
(* artifacts do the same.                                                    *)
(*                                                                           *)
(* One process saves; readers see what is under the name.  A temporary name  *)
(* is never read.                                                            *)
(***************************************************************************)
EXTENDS FiniteSets

CONSTANT Absent     \* nothing is under the name

VARIABLES
    destination,    \* the artifact under the name, or Absent
    aside,          \* artifacts under .backup- names
    saving,         \* the artifact that is being saved, or Absent
    older,          \* what this save has moved aside, or Absent
    step            \* how far the save is

disk == <<destination, aside>>
saver == <<saving, older, step>>

SaverInit ==
    /\ destination = Absent
    /\ aside = {}
    /\ saving = Absent
    /\ older = Absent
    /\ step = "idle"

SaverIdle == saving' = Absent /\ older' = Absent /\ step' = "idle"

(* save() up to publish_directory(): an older artifact is in the way unless  *)
(* the caller asks to overwrite; the new one is complete under another name. *)
StartSave(artifact, overwrite) ==
    /\ step = "idle"
    /\ destination # Absent => overwrite
    /\ saving' = artifact
    /\ older' = Absent
    /\ step' = IF destination = Absent THEN "aside" ELSE "staged"
    /\ UNCHANGED disk

MoveAside ==
    /\ step = "staged"
    /\ destination # Absent
    /\ older' = destination
    /\ aside' = aside \cup {destination}
    /\ destination' = Absent
    /\ step' = "aside"
    /\ UNCHANGED saving

MoveInPlace ==
    /\ step = "aside"
    /\ destination' = saving
    /\ step' = "placed"
    /\ UNCHANGED <<aside, saving, older>>

(* The second rename fails: the older artifact is moved back, if that works, *)
(* and the caller is told of the failure either way.                         *)
MoveInPlaceFails(restored) ==
    /\ step = "aside"
    /\ IF restored /\ older # Absent
       THEN destination' = older /\ aside' = aside \ {older}
       ELSE UNCHANGED disk
    /\ SaverIdle

(* The older artifact is removed, unless that fails, which is ignored. *)
FinishSave(removed) ==
    /\ step = "placed"
    /\ aside' = IF removed THEN aside \ {older} ELSE aside
    /\ SaverIdle
    /\ UNCHANGED destination

SaveFails ==
    /\ step = "staged"
    /\ SaverIdle
    /\ UNCHANGED disk

(* The process dies; what it has renamed stays as it is. *)
SaverDies ==
    /\ SaverIdle
    /\ UNCHANGED disk
=============================================================================
