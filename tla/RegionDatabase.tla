---------------------------- MODULE RegionDatabase ----------------------------
(***************************************************************************)
(* RegionDatabase (src/region_database.cpp): cells of an Atlas, a corridor   *)
(* or an ObbAtlasBuilder with a portal between every two that intersect, the  *)
(* components of the portal graph and the tubes along a corridor; its files,   *)
(* and its records as the constraints of an optimiser.                        *)
(***************************************************************************)
EXTENDS Corridor

CONSTANTS
    BridgeMargin,           \* options.bridge_longitudinal_margin
    BridgeNeighbours        \* options.nearest_bridge_neighbors

(* discover_portals(), CspacePortal::intersect(): the pairs of cells with a  *)
(* configuration in common.                                                  *)
Discovered(boxes) ==
    {pair \in (DOMAIN boxes) \X (DOMAIN boxes) :
        pair[1] < pair[2] /\ Overlap(boxes[pair[1]], boxes[pair[2]], 0)}

(* rebuild_graph_and_components(): the cells reached from these. *)
RECURSIVE Reached(_, _)
Reached(portals, frontier) ==
    LET next == frontier \cup {x[1] : x \in {y \in portals : y[2] \in frontier}}
                         \cup {x[2] : x \in {y \in portals : y[1] \in frontier}}
    IN IF next = frontier THEN frontier ELSE Reached(portals, next)

(* Components are numbered in the order of their first records. *)
Assemble(boxes) ==
    LET portals == Discovered(boxes)
        least(k) == Min(Reached(portals, {k}))
    IN [boxes |-> boxes, portals |-> portals,
        component |-> [k \in DOMAIN boxes |-> Cardinality({least(j) : j \in 1..least(k)})]]

(* RegionDatabase::create() takes cells within the joint limits, each once,   *)
(* and puts them in the order of their digests, which is any.                *)
Creatable(boxes, limits) == IsInjective(boxes) /\ \A b \in Range(boxes) : ContainsBox(limits, b)
InSomeOrder(set) == FoldSet(LAMBDA x, list : Append(list, x), <<>>, set)
Created(boxes) == Assemble(InSomeOrder(Range(boxes)))

(* from_corridor(): one tube per maximal run of consecutive cells that       *)
(* intersect; its centerline is the first entry and every exit.              *)
FromCorridor(corridor) ==
    LET database == Assemble([k \in DOMAIN corridor.cells |-> corridor.cells[k].box])
        n == Len(corridor.cells)
        breaks == {k \in 1..n : k = n \/ <<k, k + 1>> \notin database.portals}
        begins == {k \in 1..n : k = 1 \/ k - 1 \in breaks}
        end(k) == Min({b \in breaks : k <= b})
    IN [boxes |-> database.boxes, portals |-> database.portals, component |-> database.component,
        tubes |-> {[first |-> k, last |-> end(k),
                    centerline |-> <<corridor.cells[k].entry>> \o
                                   [j \in 1..(end(k) - k + 1) |-> corridor.cells[k + j - 1].exit]] : k \in begins}]

(* regions_at(), connected() *)
RecordsAt(database, p) == {k \in DOMAIN database.boxes : InBox(p, database.boxes[k])}
DatabaseConnected(database, p, q) ==
    {database.component[k] : k \in RecordsAt(database, p)}
        \cap {database.component[k] : k \in RecordsAt(database, q)} # {}

-----------------------------------------------------------------------------
(* ObbAtlasBuilder::build(): a cell around every sample and along the        *)
(* bridges between each sample and its nearest ones, each certified and      *)
(* taken once.  Samples are given in their order.                            *)
Nearer(samples, k, a, b) ==
    LET distance(j) == FoldSet(LAMBDA i, n : n + (samples[k][i] - samples[j][i]) ^ 2, 0, Axes)
    IN \/ distance(a) < distance(b)
       \/ distance(a) = distance(b) /\ a < b

Bridges(samples) ==
    {<<MinOf(r[1], r[2]), MaxOf(r[1], r[2])>> : r \in
        {s \in (DOMAIN samples) \X (DOMAIN samples) :
            /\ s[1] # s[2]
            /\ Cardinality({j \in DOMAIN samples \ {s[1]} : Nearer(samples, s[1], j, s[2])}) < BridgeNeighbours}}

PointTubes == INSTANCE Corridor WITH Margin <- 0
BridgeTubes == INSTANCE Corridor WITH Margin <- BridgeMargin

ObbCells(samples, scene) ==
    {PointTubes!Tube(p, p, PointTubes!Grown(p, p, scene)) :
        p \in {x \in Range(samples) : PointTubes!CertifiedObb(PointTubes!Tube(x, x, MinimumHalfWidth), scene)}}
    \cup
    {BridgeTubes!Tube(b[1], b[2], BridgeTubes!Grown(b[1], b[2], scene)) :
        b \in {x \in {<<samples[r[1]], samples[r[2]]>> : r \in Bridges(samples)} :
                    BridgeTubes!CertifiedObb(BridgeTubes!Tube(x[1], x[2], MinimumHalfWidth), scene)}}

ObbAtlas(samples, scene) == Assemble(InSomeOrder(ObbCells(samples, scene)))

-----------------------------------------------------------------------------
(* Configurations that a polyline joins, each segment in one box. *)
RECURSIVE Flooded(_, _, _)
Flooded(boxes, points, domain) ==
    LET touched == {k \in DOMAIN boxes : \E p \in points : InBox(p, boxes[k])}
        next == points \cup {p \in domain : \E k \in touched : InBox(p, boxes[k])}
    IN IF next = points THEN points ELSE Flooded(boxes, next, domain)

(* discover_portals(), connected(): however the records are ordered, two     *)
(* configurations are connected exactly when a polyline through the cells    *)
(* joins them.                                                               *)
DatabaseIsExact(database, points, domain) ==
    \A p \in points :
        LET flooded == Flooded(database.boxes, {p}, domain) IN
        \A q \in points :
            DatabaseConnected(database, p, q) <=> RecordsAt(database, p) # {} /\ q \in flooded

(* create(): the cells of a path's corridor give a database unless one of     *)
(* them is there twice in one direction or leaves the limits; what it         *)
(* connects does not depend on the order they are given in.                   *)
CreationIsExact(corridor, limits, points) ==
    LET boxes == [k \in DOMAIN corridor.cells |-> corridor.cells[k].box]
        created == Created(boxes)
        assembled == Assemble(boxes)
    IN Creatable(boxes, limits) =>
            \A p, q \in points : DatabaseConnected(created, p, q) <=> DatabaseConnected(assembled, p, q)

(* from_corridor(): what the corridor connects stays connected, and a        *)
(* certified corridor becomes a tube along the whole path.                   *)
ImportIsExact(corridor, path, points) ==
    LET database == FromCorridor(corridor)
    IN /\ \A p, q \in points : Routes(corridor, p, q) # {} => DatabaseConnected(database, p, q)
       /\ corridor.status = "Certified" =>
            \E tube \in database.tubes :
                /\ database.tubes = {tube}
                /\ Range(path) \subseteq Range(tube.centerline)

(* ObbAtlasBuilder::build(): every cell is free of collisions, and a sample  *)
(* with room for the smallest cell around it lies in one.                    *)
ObbAtlasIsSafe(samples, scene) ==
    LET cells == ObbCells(samples, scene) IN
    /\ \A b \in cells, o \in scene : ~InBox(o, b)
    /\ \A p \in Range(samples) :
            CertifiedObb(PointTubes!Tube(p, p, MinimumHalfWidth), scene) => \E b \in cells : InBox(p, b)

-----------------------------------------------------------------------------
(***************************************************************************)
(* Corridors and region databases as directories of a manifest and one        *)
(* payload (src/corridor_persistence.cpp, src/region_database_persistence.cpp). *)
(* A load reads the manifest, the payload for its checksum, and the payload   *)
(* once more; by then another save may have replaced the directory.          *)
(*                                                                           *)
(* A digest or checksum is the content it is taken of; ids are positions.    *)
(***************************************************************************)
Refused == [refused |-> TRUE]

-----------------------------------------------------------------------------
(* certificate_json(): what is certified, and for which scene. *)
Certificate(subject, scene) == [subject |-> subject, scene |-> scene]

PortalRecord(corridor, k) == [left |-> k, right |-> k + 1, witness |-> corridor.cells[k].exit]

(* encode_corridor() *)
CorridorPayload(corridor, scene) ==
    [regions |-> [k \in DOMAIN corridor.cells |->
        [cell |-> corridor.cells[k], component |-> corridor.component[k],
         certificate |-> Certificate(corridor.cells[k].box, scene)]],
     portals |-> {[portal |-> PortalRecord(corridor, k),
                   certificate |-> Certificate(PortalRecord(corridor, k), scene)] : k \in corridor.portals}]

(* save_corridor_directory(); the status and the uncovered intervals are not *)
(* saved.                                                                    *)
CorridorDirectory(corridor, scene) ==
    LET payload == CorridorPayload(corridor, scene) IN
    [manifest |-> [regions |-> Len(payload.regions), portals |-> Cardinality(payload.portals),
                   scene |-> scene, checksum |-> payload],
     payload |-> payload]

(* decode_certificate() *)
CorridorCertified(certificate, subject, scene) == certificate = Certificate(subject, scene)

(* decode_corridor() *)
Decodable(manifest, payload) ==
    /\ Len(payload.regions) = manifest.regions /\ Cardinality(payload.portals) = manifest.portals
    /\ \A r \in Range(payload.regions) : CorridorCertified(r.certificate, r.cell.box, manifest.scene)
    /\ \A p \in payload.portals : CorridorCertified(p.certificate, p.portal, manifest.scene)

DecodedCorridor(payload) ==
    [cells |-> [k \in DOMAIN payload.regions |-> payload.regions[k].cell],
     component |-> [k \in DOMAIN payload.regions |-> payload.regions[k].component],
     portals |-> {p.portal.left : p \in payload.portals}]

(* load_corridor_directory() *)
LoadedCorridor(manifest, checked, payload) ==
    IF /\ checked = manifest.checksum
       /\ Decodable(manifest, payload)
       /\ ValidCorridor(DecodedCorridor(payload))
    THEN [corridor |-> DecodedCorridor(payload), scene |-> manifest.scene]
    ELSE Refused

-----------------------------------------------------------------------------
(* The records of a database: cells, portals in the order of their cells,    *)
(* and tubes, each with the subject of its certificate.                      *)
Clamped(p, a, b) ==
    [i \in Axes |-> MaxOf(MaxOf(a.lower[i], b.lower[i]), MinOf(p[i], MinOf(a.upper[i], b.upper[i])))]

PortalOrder(database) ==
    LET n == Len(database.boxes)
        pairs == FlattenSeq([j \in 1..n |-> [k \in 1..n |-> <<j, k>>]])
    IN SelectSeq(pairs, LAMBDA pair : pair \in database.portals)

(* A cell's geometry is its oriented box, direction included. *)
CellRecord(database, k) == [kind |-> "cell", component |-> database.component[k], geometry |-> database.boxes[k]]

(* CspacePortal::intersect(): the center of the first cell, moved into both. *)
DatabasePortal(database, pair) ==
    LET a == database.boxes[pair[1]]
        b == database.boxes[pair[2]]
    IN [kind |-> "portal", component |-> database.component[pair[1]],
        geometry |-> [left |-> pair[1], right |-> pair[2], witness |-> Clamped(Middle(a), a, b)]]

TubeRecord(database, tube) ==
    LET order == PortalOrder(database)
        place(k) == Len(database.boxes) + CHOOSE n \in DOMAIN order : order[n] = <<k, k + 1>>
    IN [kind |-> "tube", component |-> database.component[tube.first],
        geometry |-> [cells |-> [k \in 1..(tube.last - tube.first + 1) |-> tube.first + k - 1],
                      portals |-> [k \in 1..(tube.last - tube.first) |-> place(tube.first + k - 1)],
                      centerline |-> tube.centerline]]

(* payload_json() *)
DatabaseRecords(database) ==
    [k \in DOMAIN database.boxes |-> CellRecord(database, k)]
    \o [n \in DOMAIN PortalOrder(database) |-> DatabasePortal(database, PortalOrder(database)[n])]
    \o FlattenSeq([k \in DOMAIN database.boxes |->
            SetToSeq({TubeRecord(database, tube) : tube \in {x \in database.tubes : x.first = k}})])

(* A cell that is travelled in both directions is two subjects. *)
Subject(record) == <<record.kind, record.geometry>>

(* save_region_database_directory(): manifest.json and regions.json. *)
DatabaseDirectory(database, scene, version) ==
    LET records == DatabaseRecords(database)
        payload == [records |-> records,
                    certificates |-> [k \in DOMAIN records |-> Certificate(Subject(records[k]), scene)]]
    IN [manifest |-> [records |-> Len(records), certificates |-> Len(records), scene |-> scene,
                      version |-> version, checksum |-> payload],
        payload |-> payload]

(* decode_geometry(): TrajectoryTubeGeometry::valid(). *)
ValidTube(tube) == Len(tube.centerline) >= 2 /\ Len(tube.portals) + 1 = Len(tube.cells)

(* validate_database(), of a record with its certificate. *)
ValidRecord(records, k, certificate, scene) ==
    LET r == records[k]
        refersTo(n, kind) == n \in DOMAIN records /\ records[n].kind = kind
    IN /\ certificate = Certificate(Subject(r), scene)
       /\ r.kind = "portal" =>
            /\ refersTo(r.geometry.left, "cell") /\ refersTo(r.geometry.right, "cell")
            /\ InBox(r.geometry.witness, records[r.geometry.left].geometry)
            /\ InBox(r.geometry.witness, records[r.geometry.right].geometry)
       /\ r.kind = "tube" =>
            /\ ValidTube(r.geometry)
            /\ \A n \in Range(r.geometry.cells) : refersTo(n, "cell")
            /\ \A n \in Range(r.geometry.portals) : refersTo(n, "portal")

(* validate_database(): no two records have one certificate. *)
ValidDatabase(payload, scene) ==
    /\ payload.records # <<>>
    /\ IsInjective(payload.certificates)
    /\ \A k \in DOMAIN payload.records : ValidRecord(payload.records, k, payload.certificates[k], scene)

(* save_region_database_directory() over a directory, Refused if there is     *)
(* none: what does not validate leaves it as it was.                          *)
SavedDatabase(directory, database, scene, version) ==
    LET new == DatabaseDirectory(database, scene, version) IN
    IF ValidDatabase(new.payload, scene) THEN new ELSE directory

(* rebuild_graph() of a load: components are counted by their first cells, *)
(* and a portal or a tube is of the component of its first cell.            *)
Relabelled(records) ==
    LET cells == {k \in DOMAIN records : records[k].kind = "cell"}
        pairs == {<<r.geometry.left, r.geometry.right>> : r \in {x \in Range(records) : x.kind = "portal"}}
        least(k) == Min(Reached(pairs, {k}))
        label(k) == Cardinality({least(c) : c \in {d \in cells : d <= least(k)}})
    IN [k \in DOMAIN records |->
            CASE records[k].kind = "cell" -> label(k)
              [] records[k].kind = "portal" -> label(records[k].geometry.left)
              [] records[k].kind = "tube" -> label(records[k].geometry.cells[1])]

(* load_region_database_directory() *)
LoadedDatabase(manifest, checked, payload) ==
    IF /\ checked = manifest.checksum
       /\ Len(payload.records) = manifest.records /\ Len(payload.certificates) = manifest.certificates
       /\ ValidDatabase(payload, manifest.scene)
       /\ \A k \in DOMAIN payload.records : payload.records[k].component = Relabelled(payload.records)[k]
    THEN [records |-> payload.records, scene |-> manifest.scene, version |-> manifest.version]
    ELSE Refused

-----------------------------------------------------------------------------
(* A load while the directory of one is replaced by that of another. *)
ReadWhileReplaced(Load(_, _, _), old, new) ==
    {Load(old.manifest, checked, payload) : checked, payload \in {old.payload, new.payload}}
    \cup {Load(new.manifest, new.payload, new.payload)}

(* save(), load() of a corridor: it comes back as it was built, and a load    *)
(* while another corridor takes its place gives the one or the other.        *)
CorridorsLoad(a, s, b, t) ==
    LET old == CorridorDirectory(a, s)
        loaded(c, x) == [corridor |-> [cells |-> c.cells, component |-> c.component, portals |-> c.portals],
                         scene |-> x]
    IN /\ LoadedCorridor(old.manifest, old.payload, old.payload) = loaded(a, s)
       /\ ReadWhileReplaced(LoadedCorridor, old, CorridorDirectory(b, t))
            \subseteq {Refused, loaded(a, s), loaded(b, t)}

(* save(), load() of a database: what was saved comes back; a load while      *)
(* another database takes its place gives the records of one of them, under   *)
(* their scene.                                                               *)
DatabaseLoads(old, a, s, new, b, t) ==
    /\ LoadedDatabase(old.manifest, old.payload, old.payload) =
            [records |-> DatabaseRecords(a), scene |-> s, version |-> "v1"]
    /\ \A r \in ReadWhileReplaced(LoadedDatabase, old, new) \ {Refused} :
            \/ r.scene = s /\ r.records = DatabaseRecords(a)
            \/ r.scene = t /\ r.records = DatabaseRecords(b)

(* from_corridor(), save(), load() of the databases of two corridors: the     *)
(* save refuses a corridor with two cells of one entry and one exit, and no   *)
(* other that has cells (the way back along a segment is not the way there;   *)
(* no waypoint is the middle of a cell, where a point's tube could be that of *)
(* a segment).                                                                *)
DatabasesLoad(a, s, b, t) ==
    LET old == SavedDatabase(Refused, FromCorridor(a), s, "v1")
        new == SavedDatabase(old, FromCorridor(b), t, "v2")
        repeats == \E j, k \in DOMAIN a.cells :
            j # k /\ a.cells[j].entry = a.cells[k].entry /\ a.cells[j].exit = a.cells[k].exit
    IN IF a.cells = <<>> \/ repeats THEN old = Refused
       ELSE old # Refused /\ DatabaseLoads(old, FromCorridor(a), s, new, FromCorridor(b), t)

-----------------------------------------------------------------------------
(***************************************************************************)
(* Records as constraints of a trajectory optimiser (src/optimization.cpp):  *)
(* half-spaces for boxes and portals, generators with a variable of -1..1    *)
(* each for zonotopes and Taylor regions (src/higher_order.cpp), the penalty *)
(* of a violation and its gradient, and which region a waypoint is given.    *)
(*                                                                           *)
(* Two joints.  The rows of an oriented box are scaled to integers, and its  *)
(* half widths with them; the tolerance is zero.                             *)
(***************************************************************************)
Along(p, q) == FoldSet(LAMBDA i, n : n + p[i] * q[i], 0, Axes)
Plus(p, q) == [i \in Axes |-> p[i] + q[i]]
Multiple(n, p) == [i \in Axes |-> n * p[i]]
Unit(i, n) == [j \in Axes |-> IF j = i THEN n ELSE 0]
Total(s) == FoldSeq(LAMBDA x, n : n + x, 0, s)

-----------------------------------------------------------------------------
(* append_halfspace(): the points with normal . p <= upper. *)
Face(normal, upper) == [normal |-> normal, upper |-> upper]

(* append_obb_constraints() *)
ObbFaces(b) ==
    FlattenSeq([i \in Axes |->
        LET offset == Along(b.rows[i], b.center) IN
        <<Face(b.rows[i], b.half[i] + offset), Face(Multiple(-1, b.rows[i]), b.half[i] - offset)>>])

(* direct_constraint(); a portal has the faces of both its cells. *)
RECURSIVE Faces(_)
Faces(g) ==
    CASE g.kind = "aabb" -> FlattenSeq([i \in Axes |-> <<Face(Unit(i, 1), g.box.upper[i]),
                                                         Face(Unit(i, -1), -g.box.lower[i])>>])
      [] g.kind = "obb" -> ObbFaces(g)
      [] g.kind = "portal" -> Faces(g.first) \o Faces(g.second)
      [] OTHER -> <<>>

(* Mutant of Remainders: one variable for the remainders of all axes. *)
RemaindersShared(g) == IF \A i \in Axes : g.remainder[i] = 0 THEN <<>> ELSE <<g.remainder>>

(* CspaceTaylorRegion: the remainder of an axis is a generator of its own. *)
Remainders(g) ==
    LET axes == SetToSortSeq({i \in Axes : g.remainder[i] # 0}, <) IN
    [k \in DOMAIN axes |-> Unit(axes[k], g.remainder[axes[k]])]

(* generator_constraint() *)
Generators(g) ==
    CASE g.kind = "zonotope" -> g.generators
      [] g.kind = "taylor" -> g.generators \o Remainders(g)
      [] OTHER -> <<>>

IsGenerated(g) == g.kind \in {"zonotope", "taylor"}
IsPrimary(g) == g.kind \notin {"portal", "tube"}

(* compile_region_constraint(): a tube has none. *)
Constraint(g) ==
    [faces |-> Faces(g), generators |-> Generators(g), center |-> IF IsGenerated(g) THEN <<g.center>> ELSE <<>>]

-----------------------------------------------------------------------------
(* LinearRegionConstraint::evaluate(): how far a row is violated; a is the   *)
(* value of every variable.                                                  *)
Excess(face, p) == Along(face.normal, p) - face.upper
Combined(c, a) == FoldSeq(LAMBDA k, p : Plus(p, Multiple(a[k], c.generators[k])), Multiple(0, Root.lower),
                          [k \in DOMAIN c.generators |-> k])
Offset(c, p, a) == Plus(Plus(p, Multiple(-1, c.center[1])), Multiple(-1, Combined(c, a)))
OverBound(n) == IF n < -1 THEN -1 - n ELSE IF n > 1 THEN n - 1 ELSE 0
Sign(n) == IF n < 0 THEN -1 ELSE 1

Violations(c, p, a) ==
    [k \in DOMAIN c.faces |-> MaxOf(0, Excess(c.faces[k], p))]
    \o (IF c.center = <<>> THEN <<>> ELSE [i \in Axes |-> Abs(Offset(c, p, a)[i])])
    \o [k \in DOMAIN c.generators |-> OverBound(a[k])]
Satisfied(c, p, a) == \A n \in Range(Violations(c, p, a)) : n = 0
Penalty(c, p, a) == Total([k \in DOMAIN Violations(c, p, a) |-> Violations(c, p, a)[k] ^ 2])

(* The gradient with respect to the configuration and to the variables. *)
Gradient(c, p, a) ==
    FoldSeq(Plus, IF c.center = <<>> THEN Multiple(0, p) ELSE Multiple(2, Offset(c, p, a)),
            [k \in DOMAIN c.faces |-> Multiple(2 * MaxOf(0, Excess(c.faces[k], p)), c.faces[k].normal)])
VariableGradient(c, p, a) ==
    [k \in DOMAIN c.generators |->
        -2 * Along(Offset(c, p, a), c.generators[k]) + 2 * OverBound(a[k]) * Sign(a[k])]

(* project(): one cycle over the faces, whose normals are units here. *)
Projected(c, p) == FoldSeq(LAMBDA f, q : Plus(q, Multiple(-MaxOf(0, Excess(f, q)), f.normal)), p, c.faces)

-----------------------------------------------------------------------------
Across(p, q) == p[1] * q[2] - p[2] * q[1]

(* CspaceTaylorRegion::contains(): the same region as a zonotope. *)
Summands(g) ==
    IF g.kind = "zonotope" THEN g.generators ELSE g.generators \o [i \in Axes |-> Unit(i, g.remainder[i])]

(* enclosing_aabb() *)
Radius(g, i) == Total([k \in DOMAIN Summands(g) |-> Abs(Summands(g)[k][i])])

(* zonotope_contains(): the descent goes to the coefficients with the least   *)
(* residual, so that it finds a point of the sum of the generators: one that *)
(* lies between the two sides along each of them.                            *)
GeneratedContains(g, p) ==
    LET d == Plus(p, Multiple(-1, g.center))
        extent(v) == Total([k \in DOMAIN Summands(g) |-> Abs(Across(v, Summands(g)[k]))])
    IN /\ \A i \in Axes : Abs(d[i]) <= Radius(g, i)
       /\ \A v \in Range(Summands(g)) : Abs(Across(v, d)) <= extent(v)

RECURSIVE RegionContains(_, _)
RegionContains(g, p) ==
    CASE g.kind = "aabb" -> InBox(p, g.box)
      [] g.kind = "obb" -> \A i \in Axes : Abs(Along(g.rows[i], Plus(p, Multiple(-1, g.center)))) <= g.half[i]
      [] g.kind = "portal" -> RegionContains(g.first, p) /\ RegionContains(g.second, p)
      [] IsGenerated(g) -> GeneratedContains(g, p)
      [] OTHER -> FALSE

-----------------------------------------------------------------------------

(* assign_trajectory_regions(): cells only, and the smallest id. *)
Assignable(records, p) == {id \in DOMAIN records : IsPrimary(records[id]) /\ RegionContains(records[id], p)}

Assignment(records, trajectory) ==
    LET n == Len(trajectory)
        first == Min({k \in 1..n : Assignable(records, trajectory[k]) = {}} \cup {n + 1})
    IN [ids |-> [k \in 1..(first - 1) |-> Min(Assignable(records, trajectory[k]))],
        status |-> CASE first > n -> "Complete" [] first = 1 /\ n >= 1 -> "Invalid" [] OTHER -> "Partial"]

(* compile_trajectory_constraints() *)
Program(records, ids) == [k \in DOMAIN ids |-> Constraint(records[ids[k]])]

(* evaluate_trajectory_constraints() *)
ProgramSatisfied(program, trajectory, auxiliary) ==
    \A k \in DOMAIN program : Satisfied(program[k], trajectory[k], auxiliary[k])

-----------------------------------------------------------------------------
(* Whether some values of the variables satisfy the equalities: all but two   *)
(* of them may be taken at a bound, and the two follow by Cramer's rule.     *)
SolvedBy(v, w, d) ==
    LET det == Across(v, w) IN
    IF det # 0 THEN Abs(Across(d, w)) <= Abs(det) /\ Abs(Across(v, d)) <= Abs(det)
    ELSE /\ Across(v, d) = 0 /\ Across(w, d) = 0
         /\ \A i \in Axes : Abs(d[i]) <= Abs(v[i]) + Abs(w[i])

Satisfiable(c, p) ==
    /\ \A face \in Range(c.faces) : Excess(face, p) <= 0
    /\ c.center # <<>> =>
        LET all == DOMAIN c.generators
            vector(k) == IF k \in all THEN c.generators[k] ELSE Multiple(0, p)
        IN \E j, k \in all \cup {0} : \E bound \in [all -> {-1, 1}] :
              /\ j # k \/ j = 0
              /\ SolvedBy(vector(j), vector(k),
                          Offset(c, p, [n \in all |-> IF n \in {j, k} THEN 0 ELSE bound[n]]))

(* compile_region_constraint(), evaluate(): a configuration satisfies the     *)
(* constraint of a region, with some values of its variables, exactly when   *)
(* the region (for a portal: each of its cells) contains it; the penalty is   *)
(* zero exactly where nothing is violated and lies above each of its          *)
(* tangents, so that descending along the gradient cannot leave a satisfied   *)
(* point.                                                                    *)
ConstraintIsExact(g, points, steps) ==
    LET c == Constraint(g)
        values == [DOMAIN c.generators -> steps]
        few == {p \in points : \A i \in Axes : p[i] % 2 = 0}
    IN /\ \A p \in points : Satisfiable(c, p) <=> RegionContains(g, p)
       /\ \A p \in few, a \in values :
            /\ Satisfied(c, p, a) <=> Penalty(c, p, a) = 0
            /\ Satisfied(c, p, a) => RegionContains(g, p)
            /\ \A q \in few, b \in values :
                  Penalty(c, q, b) >= Penalty(c, p, a) + Along(Gradient(c, p, a), Plus(q, Multiple(-1, p)))
                      + Total([k \in DOMAIN a |-> VariableGradient(c, p, a)[k] * (b[k] - a[k])])

(* project(): one cycle ends in the nearest point of a box or of a portal     *)
(* between boxes.                                                            *)
ProjectionIsNearest(g, points) ==
    LET inside == {q \in points : RegionContains(g, q)} IN
    (/\ \A f \in Range(Faces(g)) : Along(f.normal, f.normal) = 1
     /\ Faces(g) # <<>>) =>
        \A p \in points : LET q == Projected(Constraint(g), p) IN
            q \in inside /\ \A r \in inside : \A i \in Axes : Abs(q[i] - p[i]) <= Abs(r[i] - p[i])

(* assign_trajectory_regions(): what is assigned are cells that contain the  *)
(* waypoints, up to the first waypoint that no cell contains; a complete     *)
(* assignment compiles to a program that the trajectory satisfies.           *)
AssignmentIsSound(records, trajectory) ==
    LET found == Assignment(records, trajectory)
        program == Program(records, found.ids)
        covered(p) == \E g \in Range(records) : IsPrimary(g) /\ RegionContains(g, p)
    IN /\ \A k \in DOMAIN found.ids : Satisfiable(program[k], trajectory[k]) /\ IsPrimary(records[found.ids[k]])
       /\ (found.status = "Complete") <=> \A p \in Range(trajectory) : covered(p)
       /\ found.status # "Complete" => ~covered(trajectory[Len(found.ids) + 1])
=============================================================================
