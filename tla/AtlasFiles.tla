------------------------------ MODULE AtlasFiles ------------------------------
(***************************************************************************)
(* An Atlas as a directory of files (src/persistence.cpp): saved over an     *)
(* older one while others load it.  A load reads the manifest, then every    *)
(* payload for its checksum, then every payload again; each time it opens    *)
(* what is under the name by then.                                           *)
(*                                                                           *)
(* A digest or checksum is the content it is taken of, bounds are one        *)
(* interval, and an optional value is a sequence of none or one.             *)
(***************************************************************************)
EXTENDS Integers, Sequences, Functions, SequencesExt, SafeReplace

CONSTANT Saved          \* the Atlases that are saved

VARIABLES
    reading,            \* the load that is under way: its manifest, the reads that are left, what it got
    loaded              \* the last Atlas that was loaded, with the manifest that was read for it

reader == <<reading, loaded>>

Within(inner, outer) == outer[1] <= inner[1] /\ inner[2] <= outer[2]

(* atlas_version_identity(): neither the LECT nor its root are in it. *)
VersionIdentity(atlas) ==
    [regions |-> [k \in DOMAIN atlas.regions |->
        [id |-> atlas.regions[k].id, bounds |-> atlas.regions[k].bounds, key |-> atlas.regions[k].key,
         component |-> atlas.regions[k].component,
         certificate |-> atlas.certificates[atlas.regions[k].certificate],
         envelope |-> atlas.dependencies[k].envelope,
         neighbours |-> {atlas.regions[n].id : n \in atlas.graph[k]}]],
     repairs |-> atlas.repairs, scene |-> atlas.scene,
     named |-> <<atlas.version.sequence, atlas.version.parent, atlas.version.scene, atlas.version.transition>>]

-----------------------------------------------------------------------------
(* The payloads of a manifest, in the order of their checksums and of their  *)
(* decoding.                                                                 *)
Optional(schema, transition) ==
    (IF schema >= 2 THEN <<"dependencies">> ELSE <<>>) \o (IF transition THEN <<"transition">> ELSE <<>>)
ChecksumOrder(m) == <<"nodes", "regions", "graph", "certificates">> \o Optional(m.schema, m.transition)
DecodeOrder(m) == <<"nodes", "certificates", "regions", "graph">> \o Optional(m.schema, m.transition)

(* encode_lect_tree(), encode_regions(), .. : what save() writes. *)
Payloads(atlas) ==
    LET written(file) == CASE file = "nodes" -> atlas.lect
                           [] file = "regions" -> [schema |-> atlas.schema, regions |-> atlas.regions]
                           [] file = "graph" -> [schema |-> atlas.schema, graph |-> atlas.graph]
                           [] file = "certificates" -> [schema |-> atlas.schema, certificates |-> atlas.certificates]
                           [] file = "dependencies" -> [schema |-> atlas.schema, regions |-> atlas.dependencies,
                                                        repairs |-> atlas.repairs]
                           [] file = "transition" -> atlas.transition[1]
    IN [file \in Range(ChecksumOrder([schema |-> atlas.schema, transition |-> atlas.transition # <<>>])) |->
            written(file)]

Manifest(atlas) ==
    [schema |-> atlas.schema, scene |-> atlas.scene, transition |-> atlas.transition # <<>>,
     nodes |-> Cardinality(atlas.lect.keys), regions |-> Len(atlas.regions),
     certificates |-> Len(atlas.certificates), dependencies |-> Len(atlas.dependencies),
     repairs |-> Cardinality(atlas.repairs), version |-> atlas.version, checksums |-> Payloads(atlas)]

Directory(atlas) == [manifest |-> Manifest(atlas), files |-> Payloads(atlas)]

-----------------------------------------------------------------------------
Distinct(s, key(_)) == \A j, k \in DOMAIN s : j # k => key(s[j]) # key(s[k])

(* A certificate is direct, or inherited from another by a transition. *)
HasLineage(c) == (c.parent = <<>>) <=> (c.transition = <<>>)

(* decode_certificates() *)
CertificatesDecode(file, m) ==
    /\ file.schema = m.schema
    /\ Len(file.certificates) = m.certificates
    /\ Distinct(file.certificates, LAMBDA c : c)
    /\ \A c \in Range(file.certificates) : c.scene = m.scene /\ (m.schema >= 2 => HasLineage(c))

(* decode_regions(), and the checks against the LECT after it *)
RegionsDecode(file, m, lect, certificates) ==
    /\ file.schema = m.schema
    /\ Len(file.regions) = m.regions
    /\ Distinct(file.regions, LAMBDA r : r.id)
    /\ \A r \in Range(file.regions) :
          /\ r.id # 0 /\ r.certificate <= Len(certificates) /\ r.component # 0
          /\ Within(r.bounds, lect.root) /\ r.key \in lect.keys

(* decode_graph() *)
GraphDecodes(file, m, regions) ==
    /\ file.schema = m.schema
    /\ Len(file.graph) = Len(regions)
    /\ \A k \in DOMAIN file.graph : \A n \in file.graph[k] :
          n \in DOMAIN file.graph /\ n # k /\ k \in file.graph[n]

(* decode_dependencies() *)
DependenciesDecode(file, m, regions) ==
    /\ file.schema = m.schema
    /\ m.dependencies = Len(regions)
    /\ [k \in DOMAIN file.regions |-> file.regions[k].region] = [k \in DOMAIN regions |-> regions[k].id]
    /\ Cardinality(file.repairs) = m.repairs
    /\ \A d, e \in file.repairs : d.id # 0 /\ (d.id = e.id => d = e)

(* What a payload must satisfy when it is decoded. *)
Decodes(file, content, m, got) ==
    CASE file = "nodes" -> Cardinality(content.keys) = m.nodes
      [] file = "certificates" -> CertificatesDecode(content, m)
      [] file = "regions" -> RegionsDecode(content, m, got.nodes, got.certificates.certificates)
      [] file = "graph" -> GraphDecodes(content, m, got.regions.regions)
      [] file = "dependencies" -> DependenciesDecode(content, m, got.regions.regions)
      [] file = "transition" -> TRUE

(* load(): the Atlas of what was decoded; a schema 1 Atlas has neither       *)
(* dependencies nor a version of its own.                                    *)
Assembled(m, got) ==
    LET regions == got.regions.regions
        plain == [schema |-> m.schema, scene |-> m.scene, lect |-> got.nodes, regions |-> regions,
                  certificates |-> got.certificates.certificates, graph |-> got.graph.graph,
                  dependencies |-> IF m.schema >= 2 THEN got.dependencies.regions
                                   ELSE [k \in DOMAIN regions |-> [region |-> regions[k].id, envelope |-> {}]],
                  repairs |-> IF m.schema >= 2 THEN got.dependencies.repairs ELSE {},
                  transition |-> IF m.transition THEN <<got.transition>> ELSE <<>>,
                  version |-> m.version]
    IN IF m.schema >= 2 THEN plain
       ELSE [plain EXCEPT !.version = [sequence |-> 0, parent |-> <<>>, scene |-> "", transition |-> <<>>,
                                       id |-> VersionIdentity([plain EXCEPT !.version = [sequence |-> 0,
                                            parent |-> <<>>, scene |-> "", transition |-> <<>>]])]]

(* Mutant of VersionAgrees: the stored identity is believed. *)
VersionAgreesByName(atlas) ==
    /\ (atlas.version.sequence = 0) <=> (atlas.version.parent = <<>>)
    /\ atlas.version.transition = atlas.transition

(* validate_atlas(): the version's identity and its transition. *)
VersionAgrees(atlas) ==
    /\ atlas.version.id = VersionIdentity(atlas)
    /\ (atlas.version.sequence = 0) <=> (atlas.version.parent = <<>>)
    /\ atlas.version.transition = atlas.transition
    /\ (atlas.version.sequence = 0) <=> (atlas.transition = <<>>)
    /\ \A delta \in Range(atlas.transition) : delta.to = atlas.scene /\ delta.version = atlas.version.scene

(* validate_atlas() *)
Valid(atlas) ==
    /\ Len(atlas.certificates) = Len(atlas.regions)
    /\ Len(atlas.graph) = Len(atlas.regions)
    /\ Distinct(atlas.regions, LAMBDA r : r.id)
    /\ atlas.schema >= 2 =>
        /\ \A k \in DOMAIN atlas.regions :
              LET c == atlas.certificates[atlas.regions[k].certificate] IN
              /\ c.scene = atlas.scene /\ c.subject = atlas.regions[k].bounds
              /\ c.parent = <<>> \/ c.transition = atlas.version.transition
              /\ atlas.dependencies[k].region = atlas.regions[k].id
        /\ \A d \in atlas.repairs : Within(d.bounds, atlas.lect.root) /\ d.key \in atlas.lect.keys
        /\ VersionAgrees(atlas)

(* load() of a directory that nobody replaces meanwhile; save() does it with *)
(* what it has written before it replaces anything.                          *)
Loads(directory) ==
    LET m == directory.manifest IN
    /\ \A file \in Range(ChecksumOrder(m)) :
          /\ file \in DOMAIN directory.files
          /\ directory.files[file] = m.checksums[file]
          /\ Decodes(file, directory.files[file], m, directory.files)
    /\ Valid(Assembled(m, directory.files))

-----------------------------------------------------------------------------
NoReading == [left |-> <<>>]
NothingLoaded == [atlas |-> <<>>]

FilesInit == SaverInit /\ reading = NoReading /\ loaded = NothingLoaded

(* save_atlas_directory(), whose renames are SafeReplace's. *)
SaveAtlas(atlas, overwrite) ==
    /\ Valid(atlas)
    /\ Loads(Directory(atlas))
    /\ StartSave(Directory(atlas), overwrite)
    /\ UNCHANGED reader

(* load_atlas_directory(): the manifest is read once. *)
StartLoad ==
    /\ reading = NoReading
    /\ destination # Absent
    /\ LET m == destination.manifest IN
       reading' = [manifest |-> m, got |-> <<>>,
                   left |-> [k \in DOMAIN ChecksumOrder(m) |-> <<"check", ChecksumOrder(m)[k]>>]
                            \o [k \in DOMAIN DecodeOrder(m) |-> <<"decode", DecodeOrder(m)[k]>>]]
    /\ UNCHANGED <<loaded, disk, saver>>

(* The next read is of what is under the name now; a file that is not there, *)
(* another checksum or a payload that does not fit ends the load.            *)
ReadPayload ==
    /\ reading.left # <<>>
    /\ LET kind == Head(reading.left)[1]
           file == Head(reading.left)[2]
           m == reading.manifest
           there == destination # Absent /\ file \in DOMAIN destination.files
           fits == IF kind = "check" THEN destination.files[file] = m.checksums[file]
                   ELSE Decodes(file, destination.files[file], m, reading.got)
           got == IF kind = "check" THEN reading.got
                  ELSE [f \in DOMAIN reading.got \cup {file} |->
                            IF f = file THEN destination.files[f] ELSE reading.got[f]]
           atlas == Assembled(m, got)
       IN IF ~there \/ ~fits THEN reading' = NoReading /\ UNCHANGED loaded
          ELSE IF Len(reading.left) > 1
               THEN /\ reading' = [manifest |-> m, got |-> got, left |-> Tail(reading.left)]
                    /\ UNCHANGED loaded
               ELSE /\ reading' = NoReading
                    /\ loaded' = IF Valid(atlas) THEN [atlas |-> <<atlas>>, manifest |-> m] ELSE loaded
    /\ UNCHANGED <<disk, saver>>

FilesNext(atlases) ==
    \/ \E atlas \in atlases, overwrite \in BOOLEAN : SaveAtlas(atlas, overwrite)
    \/ StartLoad
    \/ ReadPayload
    \/ /\ \/ MoveAside \/ MoveInPlace \/ SaveFails \/ SaverDies
          \/ \E restored \in BOOLEAN : MoveInPlaceFails(restored)
          \/ \E removed \in BOOLEAN : FinishSave(removed)
       /\ UNCHANGED reader

-----------------------------------------------------------------------------
(* What build() and update() make: sequences whose certificates are aligned  *)
(* with the sorted regions.                                                  *)
IsSequence(s) == s \in Seq(Range(s))
WellFormed(atlas) ==
    /\ atlas = [schema |-> atlas.schema, scene |-> atlas.scene, lect |-> atlas.lect,
                regions |-> atlas.regions, certificates |-> atlas.certificates, graph |-> atlas.graph,
                dependencies |-> atlas.dependencies, repairs |-> atlas.repairs,
                transition |-> atlas.transition, version |-> atlas.version]
    /\ atlas.schema \in Nat
    /\ IsSequence(atlas.regions) /\ IsSequence(atlas.certificates)
    /\ IsSequence(atlas.graph) /\ IsSequence(atlas.dependencies)
    /\ \A k \in DOMAIN atlas.regions : LET r == atlas.regions[k] IN
          r = [id |-> r.id, bounds |-> r.bounds, key |-> r.key, certificate |-> k, component |-> r.component]
    /\ \A k \in DOMAIN atlas.dependencies : LET d == atlas.dependencies[k] IN
          d = [region |-> d.region, envelope |-> d.envelope]

(* save(), load(): every valid Atlas survives being saved. *)
SavesLoad ==
    \A atlas \in Saved : Valid(atlas) =>
        Loads(Directory(atlas)) /\ Assembled(Manifest(atlas), Payloads(atlas)) = atlas

(* load(): however often the directory is replaced meanwhile, what is loaded *)
(* is the Atlas of the manifest and nothing of another, but for the LECT,    *)
(* and but for an Atlas of schema 1, whose identity is computed from what    *)
(* was read.                                                                 *)
LoadedIsWhole ==
    loaded.atlas # <<>> /\ loaded.manifest.schema >= 2 =>
        \E atlas \in Saved :
           /\ Manifest(atlas) = loaded.manifest
           /\ loaded.atlas[1] = [atlas EXCEPT !.lect = loaded.atlas[1].lect]

(* Of the files of an Atlas: see SavesLoad and LoadedIsWhole. *)
LoadsAreWhole == SavesLoad /\ LoadedIsWhole
=============================================================================
