---------------------------- MODULE VersionStore ----------------------------
(***************************************************************************)
(* AtlasVersionStore (src/version_store.cpp): immutable Atlas directories    *)
(* under versions/ and one mutable store.json that lists them and names the  *)
(* active head.  A handle caches that list and head when it is opened;       *)
(* publish() and rollback() decide by the cache and rewrite the whole file.  *)
(* There is no lock and no comparison with the file that is replaced.        *)
(*                                                                           *)
(* A version id is a SHA-256 over its parent id, its sequence and its scene, *)
(* taken to be injective: it is modelled by the path of scenes from the      *)
(* root.  Files whose names no operation looks for again (temporaries) are   *)
(* not state.                                                                *)
(***************************************************************************)
EXTENDS Naturals, Sequences, FiniteSets

CONSTANTS
    Procs,      \* processes, each with one AtlasVersionStore object
    Scenes,     \* scene versions that tell the children of a version apart
    MaxLength,  \* bound: no path from the root is longer than this
    SharedLength,   \* bound: the same when there are several writers
    MaxVersions,\* bound: no object comes to list more versions than this
    Crashes     \* whether processes may die

ASSUME BoundsAssumption == {MaxLength, SharedLength, MaxVersions} \subseteq Nat \ {0}
ASSUME CrashesAssumption == Crashes \in BOOLEAN

VARIABLES
    writers,    \* the processes that publish and roll back; the others only open
    manifest,   \* contents of store.json, or NoManifest
    backup,     \* backup[p]: the manifest p has moved aside, or NoManifest
    stray,      \* the last backup file that nobody will rename back
    created,    \* the store directory exists under its final name
    dirs,       \* versions whose directory is in versions/
    pc,         \* where each process is
    handle,     \* handle[p]: the manifest p's object has cached
    target      \* target[p]: the manifest p's call in progress will write

vars == <<writers, manifest, backup, stray, created, dirs, pc, handle, target>>

Versions == Seq(Scenes) \ {<<>>}
Parent(v) == SubSeq(v, 1, Len(v) - 1)
Ancestry(v) == {SubSeq(v, 1, k) : k \in 1..Len(v)}

LoneWriter == \E p \in Procs : writers = {p}
PathLimit == IF LoneWriter THEN MaxLength ELSE SharedLength

NoManifest == [current |-> <<>>, versions |-> {}]
Manifests == [current : Seq(Scenes), versions : SUBSET Versions]

Places == {"closed", "open", "saving", "staging", "swapping", "swapped"}

-----------------------------------------------------------------------------
(* load_version(): the version is listed and every Atlas directory on its    *)
(* path to the root is there, with each listed parent.                       *)
Loadable(m, v) ==
    /\ v \in m.versions
    /\ Ancestry(v) \subseteq m.versions
    /\ Ancestry(v) \subseteq dirs

(* open(): a known head, exactly one root, and the parent of every version   *)
(* listed with a sequence one smaller; then the head is loaded.              *)
Openable(m) ==
    /\ m # NoManifest
    /\ \E r \in m.versions : \A v \in m.versions : Len(v) = 1 <=> v = r
    /\ \A v \in m.versions : Len(v) = 1 \/ Parent(v) \in m.versions
    /\ Loadable(m, m.current)

-----------------------------------------------------------------------------
Init ==
    /\ writers \in SUBSET Procs
    /\ manifest = NoManifest
    /\ backup = [p \in Procs |-> NoManifest]
    /\ stray = NoManifest
    /\ created = FALSE
    /\ dirs = {}
    /\ pc = [p \in Procs |-> "closed"]
    /\ handle = [p \in Procs |-> NoManifest]
    /\ target = [p \in Procs |-> NoManifest]

(* create(): built in a temporary sibling and renamed into place. *)
Create(p, s) ==
    /\ pc[p] = "closed"
    /\ ~created
    /\ created' = TRUE
    /\ dirs' = {<<s>>}
    /\ manifest' = [current |-> <<s>>, versions |-> {<<s>>}]
    /\ handle' = [handle EXCEPT ![p] = manifest']
    /\ pc' = [pc EXCEPT ![p] = "open"]
    /\ UNCHANGED <<backup, stray, target>>

Open(p) ==
    /\ pc[p] \in {"closed", "open"}
    /\ Openable(manifest)
    /\ handle' = [handle EXCEPT ![p] = manifest]
    /\ pc' = [pc EXCEPT ![p] = "open"]
    /\ UNCHANGED <<manifest, backup, stray, created, dirs, target>>

-----------------------------------------------------------------------------
(* Mutant of PublishCheck: the parent may be any listed version. *)
PublishCheckListed(p, s) ==
    /\ pc[p] = "open"
    /\ \E v \in handle[p].versions :
          /\ Len(v) < PathLimit /\ Cardinality(handle[p].versions) < MaxVersions
          /\ Loadable(handle[p], handle[p].current)
          /\ Append(v, s) \notin handle[p].versions
          /\ target' = [target EXCEPT ![p] =
                [current |-> Append(v, s), versions |-> handle[p].versions \cup {Append(v, s)}]]
    /\ pc' = [pc EXCEPT ![p] = "saving"]
    /\ UNCHANGED <<manifest, backup, stray, created, dirs, handle>>

(* publish(): the Atlas must be a child of the cached head, which must load, *)
(* and must not be listed already.                                           *)
PublishCheck(p, s) ==
    /\ pc[p] = "open"
    /\ LET v == Append(handle[p].current, s) IN
          /\ Len(v) <= PathLimit /\ Cardinality(handle[p].versions) < MaxVersions
          /\ Loadable(handle[p], handle[p].current)
          /\ v \notin handle[p].versions
          /\ target' = [target EXCEPT ![p] =
                [current |-> v, versions |-> handle[p].versions \cup {v}]]
    /\ pc' = [pc EXCEPT ![p] = "saving"]
    /\ UNCHANGED <<manifest, backup, stray, created, dirs, handle>>

(* Mutant of SaveAtlas: an existing directory is overwritten. *)
SaveAtlasOver(p) ==
    /\ pc[p] = "saving"
    /\ dirs' = dirs \cup {target[p].current}
    /\ pc' = [pc EXCEPT ![p] = "staging"]
    /\ UNCHANGED <<manifest, backup, stray, created, handle, target>>

(* The Atlas directory is renamed into place, never over an existing one. *)
SaveAtlas(p) ==
    /\ pc[p] = "saving"
    /\ target[p].current \notin dirs
    /\ dirs' = dirs \cup {target[p].current}
    /\ pc' = [pc EXCEPT ![p] = "staging"]
    /\ UNCHANGED <<manifest, backup, stray, created, handle, target>>

SaveFails(p) ==
    /\ pc[p] = "saving"
    /\ pc' = [pc EXCEPT ![p] = "open"]
    /\ target' = [target EXCEPT ![p] = NoManifest]
    /\ UNCHANGED <<manifest, backup, stray, created, dirs, handle>>

(* rollback(): a listed version that loads becomes the head. *)
RollbackCheck(p, v) ==
    /\ pc[p] = "open"
    /\ Loadable(handle[p], v)
    /\ target' = [target EXCEPT ![p] = [current |-> v, versions |-> handle[p].versions]]
    /\ pc' = [pc EXCEPT ![p] = "staging"]
    /\ UNCHANGED <<manifest, backup, stray, created, dirs, handle>>

-----------------------------------------------------------------------------
(* write_manifest_atomic(): the present file, if any, is moved aside ... *)
Stage(p) ==
    /\ pc[p] = "staging"
    /\ backup' = [backup EXCEPT ![p] = manifest]
    /\ manifest' = NoManifest
    /\ pc' = [pc EXCEPT ![p] = "swapping"]
    /\ UNCHANGED <<stray, created, dirs, handle, target>>

(* ... and the temporary file is renamed to store.json.  A rename replaces   *)
(* whatever another process has put there meanwhile.                         *)
Swap(p) ==
    /\ pc[p] = "swapping"
    /\ manifest' = target[p]
    /\ pc' = [pc EXCEPT ![p] = "swapped"]
    /\ UNCHANGED <<backup, stray, created, dirs, handle, target>>

(* Only then is the backup removed and the object updated. *)
WriteReturns(p) ==
    /\ pc[p] = "swapped"
    /\ backup' = [backup EXCEPT ![p] = NoManifest]
    /\ handle' = [handle EXCEPT ![p] = target[p]]
    /\ pc' = [pc EXCEPT ![p] = "open"]
    /\ target' = [target EXCEPT ![p] = NoManifest]
    /\ UNCHANGED <<manifest, stray, created, dirs>>

(* The directory publish() has just added, none for rollback(). *)
AddedBy(p) == target[p].versions \ handle[p].versions

(* A rename fails: the backup is renamed back and the new Atlas directory is *)
(* removed again; the object keeps its state.                                *)
WriteFails(p) ==
    /\ pc[p] \in {"staging", "swapping"}
    /\ manifest' = IF backup[p] = NoManifest THEN manifest ELSE backup[p]
    /\ backup' = [backup EXCEPT ![p] = NoManifest]
    /\ dirs' = dirs \ AddedBy(p)
    /\ pc' = [pc EXCEPT ![p] = "open"]
    /\ target' = [target EXCEPT ![p] = NoManifest]
    /\ UNCHANGED <<stray, created, handle>>

(* The error of renaming the backup back is ignored. *)
RestoreFails(p) ==
    /\ pc[p] = "swapping"
    /\ backup[p] # NoManifest
    /\ stray' = backup[p]
    /\ backup' = [backup EXCEPT ![p] = NoManifest]
    /\ dirs' = dirs \ AddedBy(p)
    /\ pc' = [pc EXCEPT ![p] = "open"]
    /\ target' = [target EXCEPT ![p] = NoManifest]
    /\ UNCHANGED <<manifest, created, handle>>

(* The process dies; the backup it made stays where it is. *)
Crash(p) ==
    /\ Crashes
    /\ pc[p] # "closed"
    /\ stray' = IF backup[p] = NoManifest THEN stray ELSE backup[p]
    /\ backup' = [backup EXCEPT ![p] = NoManifest]
    /\ pc' = [pc EXCEPT ![p] = "closed"]
    /\ handle' = [handle EXCEPT ![p] = NoManifest]
    /\ target' = [target EXCEPT ![p] = NoManifest]
    /\ UNCHANGED <<manifest, created, dirs>>

-----------------------------------------------------------------------------
Publish(p) ==
    \/ \E s \in Scenes : PublishCheck(p, s)
    \/ SaveAtlas(p)
    \/ SaveFails(p)

WriteManifest(p) ==
    \/ Stage(p)
    \/ Swap(p)
    \/ WriteReturns(p)
    \/ WriteFails(p)
    \/ RestoreFails(p)

Next ==
    /\ \/ \E p \in Procs : Open(p) \/ Crash(p)
       \/ \E p \in writers : \/ \E s \in Scenes : Create(p, s)
                             \/ Publish(p)
                             \/ \E v \in handle[p].versions : RollbackCheck(p, v)
                             \/ WriteManifest(p)
    /\ UNCHANGED writers

Spec == Init /\ [][Next]_vars

-----------------------------------------------------------------------------
(* Every manifest, on disk or cached in an object by open(), publish() or    *)
(* rollback(), lists only versions that have an id.                          *)
TypeOK ==
    /\ writers \subseteq Procs
    /\ manifest \in Manifests
    /\ backup \in [Procs -> Manifests]
    /\ stray \in Manifests
    /\ created \in BOOLEAN
    /\ dirs \subseteq Versions
    /\ pc \in [Procs -> Places]
    /\ handle \in [Procs -> Manifests]
    /\ target \in [Procs -> Manifests]

(* What the store's files say: store.json, or the copy that was moved aside  *)
(* and would have to be renamed back.                                        *)
Durable ==
    IF manifest # NoManifest THEN manifest
    ELSE IF \E p \in Procs : backup[p] # NoManifest
         THEN backup[CHOOSE p \in Procs : backup[p] # NoManifest]
         ELSE stray

(* Published versions are immutable and stay loadable: every version that    *)
(* store.json, a backup of it or any process's object lists has its own      *)
(* directory and those of all its ancestors, even when processes with stale  *)
(* objects publish the same version and undo their failed attempts.          *)
VersionsStayLoadable ==
    \A m \in {manifest, stray} \cup {backup[p] : p \in Procs} \cup {handle[p] : p \in Procs} :
        m # NoManifest => Openable(m) /\ \A v \in m.versions : Loadable(m, v)

(* No object lists a version that the files do not. *)
HandlesNotAhead == \A p \in Procs : handle[p].versions \subseteq Durable.versions

(* publish(), rollback(): every version that the files list still loads; and *)
(* with a lone writer no object, not even a reader's that was opened while   *)
(* the writer was at work or failed, is ahead of the files.                  *)
VersionsAreKept == VersionsStayLoadable /\ (LoneWriter => HandlesNotAhead)

(* What the files say, as a version tree. *)
Tree == INSTANCE VersionTree
           WITH Scene <- Scenes, tree <- Durable.versions, active <- Durable.current

(* publish() and rollback() of a lone writer: every change of the files is a  *)
(* step of the abstract tree: publishing adds a child of the active head,     *)
(* rolling back only moves the head, and no version is ever dropped, whatever *)
(* fails and wherever the writer dies.                                        *)
LoneWriterImplementsTree == [][LoneWriter => Tree!Next]_<<Durable.versions, Durable.current>>

-----------------------------------------------------------------------------
(* docs/dynamic-updates.md:98: "Rollback changes only the active head; it    *)
(* never deletes descendants."                                               *)
RollbackKeepsVersions ==
    [][\A p \in Procs :
          /\ pc[p] = "swapping"
          /\ pc'[p] = "swapped"
          /\ AddedBy(p) = {}
          => backup[p].versions \subseteq manifest'.versions]_vars

(* docs/dynamic-updates.md:89-90: the store "atomically updates              *)
(* `store.json`": whenever nobody is writing it, it is there.                *)
UpdateIsAtomic ==
    created /\ (\A p \in Procs : pc[p] \in {"closed", "open"}) => manifest # NoManifest
=============================================================================
