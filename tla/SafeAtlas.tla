------------------------------- MODULE SafeAtlas -------------------------------
(***************************************************************************)
(* How an Atlas of certified boxes is built for a scene (src/atlas.cpp) and  *)
(* carried from one scene to the next (src/dynamic.cpp): certificates are    *)
(* inherited where the change cannot touch a region, regions are validated   *)
(* again, and what was lost or never certified is repaired box by box.       *)
(*                                                                           *)
(* A configuration collides when it lies in an obstacle.  Envelope(b, pad)   *)
(* is what the validator's bounds on the links leave of the space around     *)
(* the configurations of b: it encloses b and the padding, tightly for small *)
(* boxes only.  The order that digests give to domains and regions is any.   *)
(***************************************************************************)
EXTENDS Boxes

CONSTANTS
    Obstacles,          \* obstacle ids
    Shapes,             \* bounds of an obstacle
    Paddings,           \* options.obstacle_padding
    Envelope(_, _),     \* external: the validator's interval arithmetic
    Tolerance,          \* options.adjacency_tolerance
    MaxDepth,           \* options.maximum_depth, maximum_repair_depth
    SampleSets,         \* bound: samples a caller gives
    MaxUpdates          \* bound: updates

VARIABLES
    atlas,              \* the finished Atlas: [scene, regions, domains, version]
    task,               \* what a running build or update works on
    first,              \* history: the first Atlas
    steady              \* history: every update repaired, under the first padding

vars == <<atlas, task, first, steady>>

(* Where an obstacle that is not there is, and the domain that is not begun. *)
Nowhere == [lower |-> <<>>, upper |-> <<>>]
Scenes == [Obstacles -> Shapes \cup {Nowhere}]
Present(scene) == {scene[o] : o \in {p \in Obstacles : scene[p] # Nowhere}}
Idle == [kind |-> "idle"]
NoAtlas == [version |-> 0]

(* IfkAaLinkAabbValidator::validate() certifies the box as free. *)
CertifiedFree(b, scene, padding) ==
    \A shape \in Present(scene) : ~Overlap(Envelope(b, padding), shape, 0)

(* A region, with its certificate's padding and its dependency. *)
Region(b, padding) == [box |-> b, padding |-> padding, envelope |-> Envelope(b, padding)]
BoxesOf(regions) == {r.box : r \in regions}

(* compare_scenes() *)
Changed(old, new) == {o \in Obstacles : old[o] # new[o]}

(* may_recover_space: an obstacle was removed or changed. *)
MayRecoverSpace(old, new) == \E o \in Changed(old, new) : old[o] # Nowhere

(* Mutant of Inherits: only obstacles that were not there can be in the way. *)
InheritsUnlessAdded(r, old, new, padding) ==
    /\ r.padding = padding
    /\ \A o \in {p \in Obstacles : old[p] = Nowhere /\ new[p] # Nowhere} : ~Overlap(r.envelope, new[o], 0)

(* can_inherit(), and the policy_matches before it. *)
Inherits(r, old, new, padding) ==
    /\ r.padding = padding
    /\ \A o \in Changed(old, new) : new[o] # Nowhere => ~Overlap(r.envelope, new[o], 0)

-----------------------------------------------------------------------------
Item(b, depth, samples) == [box |-> b, depth |-> depth, samples |-> samples]

(* Neither build() nor update() splits a box without samples, too deep in    *)
(* its tree or too small.                                                    *)
MaySplit(item, root) ==
    /\ item.samples # {}
    /\ item.depth < MaxDepth
    /\ Splittable(item.box, root)

Children(item, root) ==
    LET i == SplitAxis(item.box, root)
        below == {s \in item.samples : s[i] <= Middle(item.box)[i]}
    IN <<Item(LowerHalf(item.box, root), item.depth + 1, below),
         Item(UpperHalf(item.box, root), item.depth + 1, item.samples \ below)>>

Working(kind) == task.kind = kind /\ task.work # <<>>
Worked(kind) == task.kind = kind /\ task.work = <<>>
Item1 == Head(task.work)
Free1 == CertifiedFree(Item1.box, task.scene, task.padding)

-----------------------------------------------------------------------------
Init ==
    /\ atlas = NoAtlas
    /\ first = NoAtlas
    /\ steady = TRUE
    /\ \E scene \in Scenes, padding \in Paddings, samples \in SampleSets :
          task = [kind |-> "build", scene |-> scene, padding |-> padding,
                  work |-> <<Item(Root, 0, samples)>>, regions |-> {}, domains |-> {}]

(* AtlasBuilder::build(): one turn of its loop. *)
BuildVisit ==
    /\ Working("build")
    /\ \/ /\ Free1
          /\ task' = [task EXCEPT !.work = Tail(@), !.regions = @ \cup {Region(Item1.box, task.padding)}]
       \/ /\ ~Free1 /\ ~MaySplit(Item1, Root)
          /\ task' = [task EXCEPT !.work = Tail(@), !.domains = @ \cup {Item1.box}]
       \/ /\ ~Free1 /\ MaySplit(Item1, Root)
          /\ task' = [task EXCEPT !.work = Tail(@) \o Children(Item1, Root)]
    /\ UNCHANGED <<atlas, first, steady>>

Mergeable(r, s) ==
    /\ r # s
    /\ HaveRectangularUnion(r.box, s.box, Tolerance)
    /\ CertifiedFree(Hull(r.box, s.box), task.scene, task.padding)

(* build(): two regions become one if the validator certifies their union. *)
Merge(r, s) ==
    /\ Worked("build")
    /\ Mergeable(r, s)
    /\ task' = [task EXCEPT !.regions =
                    (@ \ {r, s}) \cup {Region(Hull(r.box, s.box), task.padding)}]
    /\ UNCHANGED <<atlas, first, steady>>

FinishBuild ==
    /\ Worked("build")
    /\ \A r, s \in task.regions : ~Mergeable(r, s)
    /\ atlas' = [scene |-> task.scene, regions |-> task.regions, domains |-> task.domains,
                 padding |-> task.padding, version |-> 1]
    /\ first' = atlas'
    /\ task' = Idle
    /\ UNCHANGED steady

(* AtlasUpdater::update() up to the repair: which regions stay, which boxes  *)
(* are repaired and which wait for another update.                           *)
StartUpdate(scene, padding, repair, samples) ==
    LET old == atlas.scene
        inherited == {r \in atlas.regions : Inherits(r, old, scene, padding)}
        free == {r \in atlas.regions : CertifiedFree(r.box, scene, padding)}
        invalidated == BoxesOf(atlas.regions \ (inherited \cup free))
        again == IF MayRecoverSpace(old, scene) THEN atlas.domains ELSE {}
        todo == again \cup invalidated
    IN /\ task = Idle /\ atlas # NoAtlas
       /\ atlas.version <= MaxUpdates
       /\ task' = [kind |-> "update", scene |-> scene, padding |-> padding, repair |-> repair,
                   samples |-> samples,
                   regions |-> inherited \cup {Region(r.box, padding) : r \in free \ inherited},
                   domains |-> (atlas.domains \ again) \cup (IF repair THEN {} ELSE todo),
                   todo |-> IF repair THEN todo ELSE {},
                   root |-> Nowhere, unresolved |-> FALSE, work |-> <<>>]
       /\ UNCHANGED <<atlas, first, steady>>

(* A local tree for the next domain, with the middle as one more sample. *)
StartDomain ==
    /\ Worked("update") /\ task.root = Nowhere /\ task.todo # {}
    /\ LET domain == CHOOSE d \in task.todo : TRUE IN
       task' = [task EXCEPT !.todo = @ \ {domain}, !.root = domain, !.unresolved = FALSE,
                            !.work = <<Item(domain, 0, {Middle(domain)} \cup
                                             {s \in task.samples : InBox(s, domain)})>>]
    /\ UNCHANGED <<atlas, first, steady>>

(* A certified box takes the place of the regions inside it, unless it lies  *)
(* inside one.                                                               *)
WithRepaired(regions, b, padding) ==
    IF \E r \in regions : ContainsBox(r.box, b) THEN regions
    ELSE {r \in regions : ~ContainsBox(b, r.box)} \cup {Region(b, padding)}

RepairVisit ==
    /\ Working("update")
    /\ \/ /\ Free1
          /\ task' = [task EXCEPT !.work = Tail(@),
                                  !.regions = WithRepaired(@, Item1.box, task.padding)]
       \/ /\ ~Free1 /\ ~MaySplit(Item1, task.root)
          /\ task' = [task EXCEPT !.work = Tail(@), !.unresolved = TRUE]
       \/ /\ ~Free1 /\ MaySplit(Item1, task.root)
          /\ task' = [task EXCEPT !.work = Tail(@) \o Children(Item1, task.root)]
    /\ UNCHANGED <<atlas, first, steady>>

(* A domain with an unresolved part is kept whole. *)
EndDomain ==
    /\ Worked("update") /\ task.root # Nowhere
    /\ task' = [task EXCEPT !.root = Nowhere,
                            !.domains = IF task.unresolved THEN @ \cup {task.root} ELSE @]
    /\ UNCHANGED <<atlas, first, steady>>

FinishUpdate ==
    /\ Worked("update") /\ task.root = Nowhere /\ task.todo = {}
    /\ atlas' = [scene |-> task.scene, regions |-> task.regions, domains |-> task.domains,
                 padding |-> task.padding, version |-> atlas.version + 1]
    /\ steady' = (steady /\ task.repair /\ task.padding = atlas.padding)
    /\ task' = Idle
    /\ UNCHANGED first

(* A limit or the cancellation token ends an update without a result. *)
Abandon ==
    /\ task.kind = "update"
    /\ task' = Idle
    /\ UNCHANGED <<atlas, first, steady>>

Next ==
    \/ BuildVisit
    \/ task.kind = "build" /\ \E r, s \in task.regions : Merge(r, s)
    \/ FinishBuild
    \/ \E scene \in Scenes, padding \in Paddings, repair \in BOOLEAN, samples \in SampleSets :
          StartUpdate(scene, padding, repair, samples)
    \/ StartDomain
    \/ RepairVisit
    \/ EndDomain
    \/ FinishUpdate
    \/ Abandon

Spec == Init /\ [][Next]_vars

-----------------------------------------------------------------------------
(* AtlasUpdater::update(): however a region came into the Atlas, certified,  *)
(* merged, inherited through several scenes or repaired, its configurations  *)
(* keep the padding of its certificate from every obstacle of the Atlas's    *)
(* own scene.                                                                *)
AtlasIsSafe ==
    atlas # NoAtlas =>
        \A r \in atlas.regions, shape \in Present(atlas.scene) :
            ~Overlap(Inflate(r.box, r.padding), shape, 0)

(* Unit boxes of the joint domain. *)
Cells ==
    LET bounds == Min({Root.lower[i] : i \in Axes})..Max({Root.upper[i] : i \in Axes}) IN
    {[lower |-> p, upper |-> [i \in Axes |-> p[i] + 1]] :
        p \in {q \in [Axes -> bounds] : \A i \in Axes : Root.lower[i] <= q[i] /\ q[i] < Root.upper[i]}}
CoveredBy(boxes) == {c \in Cells : \E b \in boxes : ContainsBox(b, c)}

(* build(), update(): no part of the joint domain is forgotten, what is not  *)
(* certified waits in a domain.                                              *)
SpaceIsListed == atlas # NoAtlas => CoveredBy(BoxesOf(atlas.regions) \cup atlas.domains) = Cells

(* update(): and when every update has repaired under the padding of the     *)
(* first Atlas, whatever that Atlas covered is covered again once its scene  *)
(* is back (docs/dynamic-updates.md: coverage may "contract and later        *)
(* recover without a global Atlas rebuild").                                 *)
SpaceIsKept ==
    /\ SpaceIsListed
    /\ (atlas # NoAtlas /\ steady /\ atlas.scene = first.scene) =>
            CoveredBy(BoxesOf(first.regions)) \subseteq CoveredBy(BoxesOf(atlas.regions))

=============================================================================
