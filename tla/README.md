# RBF-Safe in TLA+

RBF-Safe (`src/` in this repository) certifies regions of a robot's
configuration space and keeps what it certified: atlases, corridors, catalogues
of artifacts, key histories, publications, execution sessions.  The bounds on
where links are come from interval arithmetic on doubles, which is out of reach
here and enters as an operator that encloses.  What is built around them is
discrete: trees, queues and graphs over boxes; immutable files under a
directory, a writer lock, hash-linked records, expected heads; state machines
with terminal states.  That part decides whether a robot acts on evidence that
is current, and tests hardly reach its interleavings, crashes and long
sequences of legal calls.  It is what these modules model.

`PROJECT.json` maps each definition to the lines it stands for, lists the
components with their files, the runs, a mutant for each property, the hazards
and the theorems.

## The system

| Component (`src/src/`) | State | Operations | Hard part | Module |
|---|---|---|---|---|
| memory store (`memory_store.cpp`) | `revisions/`, `commits/`, `.writer-lock`, an object per process | create, open, publish | writers race, die anywhere, retry; readers enumerate without the lock | `MemoryStore`, `AppendChain` |
| version store (`version_store.cpp`) | `versions/`, `store.json`, an object with a cached list | create, open, publish, rollback | no lock; `store.json` replaced by two renames; cached list | `VersionStore`, `VersionTree` |
| service identities (`identity.cpp`) | key tables (bundles) | create, rotate, authorise | long sequences of legal rotations | `ServiceTrust` |
| trust history (`identity_history.cpp`, `identity_checkpoint.cpp`) | `bundles/`, `records/`, lock, checkpoints kept elsewhere | create, open, publish, sign and verify checkpoints | stale heads, orphan bundles, deaths | `TrustHistory` |
| provenance (`provenance.cpp`) | statements and time assertions, signed | attest, assert, replay | who presents a bundle chooses what is in it | `Provenance` |
| deployment profile, execution session (`deployment.cpp`, `execution*.cpp`) | messages of reviewers, controller, monitor | review, request, approve, acknowledge, observe, create, load, authorise | messages of several requests presented together, at any age | `ExecutionSession` |
| execution ledger (`execution_ledger*.cpp`) | `records/`, lock, an object per process | authorise, complete, cancel, expire, revoke | trust histories of different age, late answers, deaths between write and answer | `ExecutionLedger`, `CommandSequencer` |
| safety memory (`memory.cpp`) | artifacts, events, next sequence | register, transition, invalidate a scene, reuse, reserve | stale generations and offers; a full log | `SafetyMemory` |
| fleet schedules (`memory.cpp`, `fleet_schedule_*.cpp`) | reservations, archive versions | reserve, analyse, publish, load, replay | sweep that breaks early; sources that turn stale | `FleetSchedule` |
| calibration lifecycle (`calibration_lifecycle.cpp`) | events, drift reports, state | assess, transition, guarded gate, reload | decisions on an old head | `CalibrationLifecycle` |
| policy gate, calibrated gate, feedback (`policy.cpp`, `calibration.cpp`) | telemetry | check proposals, record | order of tests and preferences; bins of a profile | `PolicyGate` |
| runtime shield and monitor (`shield.cpp`) | armed decision, last time | check an action, arm, observe, disarm | a decision armed on another Atlas; routes over tolerated gaps | `RuntimeShield` |
| occupancy publications (`coordination.cpp`, `coordination_history.cpp`) | payloads, publications, records, lock | create, open, publish, audit | deaths between three files; copies that diverge | `PublicationHistory` |
| rotating publications (`coordination_rotating_history.cpp`) | the same and an embedded trust history, two locks | create, open, publish, rotate, audit | two chains that move separately | `RotatingHistory` |
| reservation agreements (`coordination_reservation.cpp`) | rounds over several histories | make, verify, succeed | histories advance, rotate and fork afterwards | `ReservationAgreement` |
| transfer journal (`remote*.cpp`) | requests, answers, records | request, answer, attest, verify, append, save | messages lost, repeated, mixed up; the catalogue moves on | `ArtifactTransfer`, `SafeReplace` |
| transparency log (`transparency*.cpp`) | records with checkpoints, lock | create, open, publish, prove, verify | racing writers; proofs for sizes that are no power of two | `TransparencyLog`, `MerkleTree` |
| witness gossip (`witness*.cpp`) | archive of gossip, lock | cosign, open, publish, audit | split views that no single proof shows | `WitnessGossip` |
| boxes, LECT, trajectory auditor (`lect.cpp`, `trajectory.cpp`) | a tree of halved boxes | split, locate, overlap, restore, cover a segment | keys must not depend on the order of splits | `Boxes`, `BoxTrees` |
| atlas and its update (`atlas.cpp`, `dynamic.cpp`) | regions, certificates, deferred domains | build, merge, connect, route, update, repair | certificates carried over several scenes | `SafeAtlas`, `RuntimeShield` |
| atlas files (`persistence.cpp`) | a directory that others replace | save, load | each file is read twice while it may be replaced | `AtlasFiles`, `SafeReplace` |
| region index (`region_index.cpp`) | tree of bounding boxes | build, containing, nearest | pruning on ties | `BoxTrees` |
| corridors (`corridor*.cpp`) | cells, portals, components | build, route, save, load | subdivision at collisions; coinciding cells | `Corridor`, `RegionDatabase` |
| region database (`region_database*.cpp`, `portal.cpp`) | records, portals, tubes | create, import, connect, save, load | the portal graph against geometry | `RegionDatabase` |
| continuous occupancy (`occupancy*.cpp`, `moving_obstacle_occupancy.cpp`) | slices, reports, bundles | build, analyse, stage, load | sweep, windows, rounding, limits that must agree | `Occupancy` |
| planning, safe IK, OMPL adapter (`planning.cpp`, `safe_ik.cpp`, `ompl.cpp`) | none | roadmap, sample, solve, check a motion | fallbacks; what is reported as certified | `Planning` |
| optimisation (`optimization.cpp`, `higher_order.cpp`) | none | compile, evaluate, project, assign | gradients and auxiliary variables | `RegionDatabase` |
| kinematics, envelopes, MoveIt plugin, tools | | | numeric or glue | not modelled |

How they interact: the memory store publishes whole safety memories; the
execution ledger reads the trust history and its checkpoints and pins the head
that its caller names; a session is created from a reviewed deployment profile
and one bundle of the trust history; rotating publication histories embed a
trust history; agreements read several of those; transparency checkpoints are
what witnesses compare; the transfer journal is checked against a safety
memory.  The policy gate asks the shield, the shield routes through an Atlas,
planners sample and connect in one; an update turns one Atlas into the next.
Nothing calls back and no component starts a thread: concurrency is between
processes that share a directory, and a caller's view is as old as the last
thing it was told.

## Modules

Shared conventions.  Ids are SHA-256 hashes over their content and the parent's
id, and are taken to be injective, so an immutable file is modelled by the whole
chain that it ends, and "the parent is present" is "the prefix is present".
In-process objects (`SafetyMemory`, `CalibrationLifecycle`, a shield monitor)
are not synchronised and their documentation has callers serialise the calls: a
call is one action, and what stays concurrent is the reading before it.
Temporary files under unique names are not state unless a rename makes them
visible or a reader counts them.  A process that dies loses its object, not the
files or the lock.  The operator action removes a lock that a dead process left,
as the documentation asks, and nothing else.  A signature is the key that made
it.  Coordinates are whole numbers on a small grid and distances are compared as
squares or sums; where rounding is the point (`Occupancy`) it is an operator.

Files and writers:

* `MemoryStore` - `SafetyMemoryStore`, one action per file operation.
  `AppendChain` is what it promises: one log that grows at its end, and clients
  that see prefixes.  The refinement reads the log off the committed files.
  Readers take two steps, so that files appear while they enumerate.  The
  destructor's ignored error when it removes the lock is the same state as a
  writer that died.  An object made by `create` has the default options; the
  model gives every process one limit.  The arguments of a call are forgotten
  when it returns.
* `VersionStore` - `AtlasVersionStore`; `store.json` is replaced in the code's
  steps (old file aside, new file in place, old file removed or restored).
  Which processes write is chosen at the start, the others only open: the code
  has no lock, and some of its promises hold for one writer only.
  `VersionTree` is what it promises to that one: a growing tree of versions with
  an active one.
* `SafeReplace` - the save over an older artifact that some fifteen writers of
  the code share, step by step; `ArtifactTransfer` and `AtlasFiles` use it.
* `AtlasFiles` - the files of an Atlas, what `load()` compares between them, and
  a load whose reads fall before and after a save.  `RegionDatabase` has the same
  for corridors and databases, as functions of what each read found.
* `TransparencyLog`, `PublicationHistory`, `RotatingHistory` - directories of
  hash-linked records with a writer lock; the second counts the staged files
  that its `open()` counts, the third has an embedded trust history and readers
  that look at both.  That one append to the embedded history is atomic is what
  `TrustHistory` shows, so a bundle is a position there.
* `WitnessGossip` - what witnesses sign and senders pass on, and the archive.
  A directory of the log only grows (`TransparencyLog`), so what can be
  witnessed are prefixes of its final contents.

Trust and protocol:

* `ServiceTrust` - the pure rules of `identity.cpp`: key states, windows, legal
  successors, quorums.  `TrustHistory`, `RotatingHistory`,
  `ReservationAgreement`, `Provenance` and `ExecutionSession` use it.
* `TrustHistory` - the directory of bundles and rotation records, its writers,
  and the signed checkpoint that users keep elsewhere.
* `Provenance` - statements about a hardware key and time assertions, and the
  replay of any selection of them; some sources lie about the time.
* `ExecutionSession` - from the review of a profile to the authorised command.
  Everything signed stays available and may be presented with any request.
* `ExecutionLedger` - the ledger that records it: the pure rules about chains of
  records, and the files with an object per process.  Trust enters the ledger as
  `usable[i]`: whether all reviewers of the session are active at the i-th
  bundle counted from the session's own; that it never turns true again is
  `TrustOnlyShrinks` of `TrustHistory`.  `CommandSequencer` is what the ledger
  promises.
* `ReservationAgreement` - agreements made from several histories, replayed
  later and succeeded, with a branch of a copied history.
* `ArtifactTransfer` - exchanges of a client with a service over a transport
  that keeps everything ever sent; the client's memory changes meanwhile.
* `SafetyMemory`, `FleetSchedule`, `CalibrationLifecycle` - in-process objects
  and callers that act on what they read earlier.  Content enters a memory by
  which deployment, scene and task an artifact has and whether it satisfies a
  query otherwise.  The two loops of a fleet analysis are the set of index pairs
  that they evaluate, with the break as a condition on all the reservations
  between.  A reload may take a lifecycle to another history of the same
  length, which is why an expected head is the whole chain.

Algorithms over boxes:

* `Boxes` - boxes, their splitting, the cover of a segment.  `BoxTrees` - the
  tree of splits, and the query tree of the region index.
* `SafeAtlas` - the build as a work list in any order, merging, and `update()`
  with inheritance, revalidation, deferral and repair.  The validator is an
  external operator that encloses, tightly for small boxes only.
* `RuntimeShield` - routes, `check_action()` and the monitor; `PolicyGate` - the
  gate on top of it, and the calibrated gate that first lowers confidences.
* `Corridor`, `RegionDatabase` - covering a path by certified cells, portals,
  components, routes; a database of cells and the portals discovered between
  them, and the files of both.  A cell is an oriented box: its certificate is
  about the box and the direction of its first axis, so that a segment and the
  way back along it are two subjects.  And the constraints on a point that an optimiser is given for a region.
* `Occupancy` - slices of a timed trajectory with their envelopes in a frame,
  their validity, moving obstacles, the sweeps and the bundles with limits.
  Clearances are exact; the code lowers them by a guard against rounding
  (`occupancy.cpp:924-932`), which can only report more conflicts.
* `Planning` - what consumes an Atlas.
* `MerkleTree` - roots, frontier, inclusion and compact consistency proofs,
  against a recursive definition of the tree.

`MC*` modules give the constants values; `CalibrationLifecycle` and
`VersionStore` need none, and each run has a `.cfg`.  Several compose components
that share no variable: a variable `part` is chosen at the start and
the other parts stand still, so that one run holds the state spaces side by
side.  Parts that are functions of an input (`index`, `corridor`, `occupancy`,
`planning`, `constraints`, `proofs`) enumerate the inputs as initial states.
Definitions that a comment calls a mutant are single plausible bugs, used to
show that a property can fail; no specification uses them.

## Runs

| Run | Instance | Shows |
|---|---|---|
| `memory_store` | 2 processes, 3 memories, up to 3 revisions (2 for the first process), fair | `StoreOpens`, `CommitIsCompareAndSwap`, refinement of `AppendChain`, `LockReleased` |
| `version_store` | 2 processes, none, one or both of them writing, and 2 scenes; a lone writer on paths of 3, two writers on paths of 2 (`SharedLength`), objects of up to 3 versions; dying anywhere | every listed version loads and no object is ahead of a lone writer's files (`VersionsAreKept`); a lone writer implements `VersionTree` (`LoneWriterImplementsTree`) |
| `version_store_rollback` | 2 writers | **violation**: a rollback by a stale object drops a published version |
| `version_store_crash` | 1 writer | **violation**: a death between the two renames leaves no `store.json` |
| `trust_history` | history: 2 processes, 3 keys of 2 services, quorum 2 of distinct services, up to 3 bundles; provenance: a truthful and a lying source, 2 statements, 2 assertions, a rotation | `HistoryReplays`, `NeverForks`, `TrustOnlyShrinks`; `ReadyIsRecent` |
| `execution` | ledger: 2 processes, 2 commands, times 1 to 3, 2 bundles, 2 ways to sign a checkpoint; session: 2 reviewers in 2 roles, 2 requests, one observation, session and grant, times 1 to 4, a revocation | `LedgerOpens`, `GrantsAreDurable`, `RoomToFinish`, refinement of `CommandSequencer`; `GrantsAreReviewed` (with the saved session, `SessionsLoad`) |
| `catalogue` | safety memory: 2 callers, 3 artifacts, room for 2, logs limited to 3 or 5 events; sweep: 3 reservations, ticks 0 to 3; archive: 2 callers, 3 sources, 3 versions; agreements: 2 deployments, one history with a copy, one revocation, 2 rounds; exchanges: 2 requests, 2 changes of the memory, 2 keys; journal: one request, saved with deaths | `LogReplays`, `ReuseIsCurrent`, `ChangesAreSeenAndWhole`; `SchedulesAreExact`, `SourcesAreCurrent`; `AgreementsHold`; `JournalIsTrue` |
| `calibration_lifecycle` | 2 callers, up to 5 events, 2 windows, 1 reload | `GateOpensAfterReview`, `DecisionsAreInformed`, `RetiredIsFinal` |
| `rotating_history` | rotating: 2 processes, 2 keys, 2 payloads, up to 2 publications and 3 bundles; fixed: 2 processes, 2 directories of one identity, up to 3 publications, 1 interruption | `HistoryOpens`, `ObjectsWereCurrent`, `SignedUnderHead`; `ForksAreFound` |
| `transparency` | log: 2 writers, 2 payloads, 3 records; gossip: 2 archivists, 2 senders, 3 witnesses, 2 forked directories, 3 messages; proofs: every pair of logs of up to 7 leaves | `DirectoriesOpen`, `AcknowledgedIsKept`, `AuditsAreRight` |
| `atlas` | eleven parts over small grids, see below | `AtlasesAreSafe`, `PlansAreCertified`, `ChoicesAreSound`, `RegionsAreCertified`, `OccupanciesAreCertified`, `PlannersAreHonest`, `LoadsAreWhole`, `ConstraintsAreExact` |
| `occupancy_rounding` | the occupancy part with numbers of two significant bits | **violation**: a trajectory that meets every requirement is refused as an internal error |

The properties of a run that composes components are conjunctions of the
components' own, whose comments say which code and which promise they are about:

* `AtlasesAreSafe`: `AtlasIsSafe` (every certified configuration keeps its
  padding from the obstacles of the Atlas's own scene, however many scenes its
  certificate was carried through) and `SpaceIsKept` (nothing of the joint
  domain is forgotten, and coverage returns with the scene) of `SafeAtlas`, the
  latter as long as all updates repair and keep the padding (`steady`: a domain
  deferred by padding alone is retried only when an obstacle changes);
  `KeysAreStable` and `IndexExactFor` of `BoxTrees`.
* `PlansAreCertified`: a shield never reaches an output that its own audit
  refuses, and what a monitor follows lies in the regions of its own Atlas.
* `ChoicesAreSound`: `GateIsSound` (the best of what the shield lets pass is
  chosen and every feedback record is admissible), `ProfilesCover` and
  `CalibrationIsConservative` of `PolicyGate`.
* `RegionsAreCertified`: `CorridorIsExact`, `RoutesStayInCells`,
  `CorridorIsSavable`; `DatabaseIsExact`, `CreationIsExact`, `ImportIsExact`,
  `ObbAtlasIsSafe`; `CorridorsLoad`, `DatabasesLoad`.  What the database answers
  as connected is what a polyline through the cells joins, by a flood over the
  grid that does not use portals.  `DatabasesLoad` says which paths give a
  database that can be saved: those with cells, of which no two have the same
  entry and the same exit.  A path that comes back along itself can be saved, one
  that does the same piece twice in one direction is refused by `save()` before
  it writes, and what was saved loads.
* `OccupanciesAreCertified`: `EnvelopesEnclose`, `SeparationIsReal`,
  `SceneIsReal` against the robot's true place at every half tick, and
  `BundlesLoad`, `BuildsAreValid`.
* `PlannersAreHonest`: `RoadmapIsExact`, `SamplesAreCertified`,
  `ReportsAreHonest`, `PathsPass`.
* `LoadsAreWhole` of `AtlasFiles` excepts the LECT, of which a load compares the
  root and the number of nodes only, and an Atlas of schema 1, which has no
  stored identity: a load during a save may give these of another Atlas.
* `SchedulesAreExact`: `ConflictsExact` for the sweep, `NoVersionTwice` and
  `ArchiveLasts` for the archive.  The last says with which limits an archive
  can be loaded: a load counts all versions together, their reservations,
  conflicts, pairs and fleet members, so that the limits of one schedule, which are
  what `publish()` enforces, are not enough.  That the default limits of the two
  do not match is promised nowhere and has no property.
* `ForksAreFound`: `HistoryOpens` and `ForksAreFound` of `PublicationHistory`, of
  a directory and its copy for the fixed trust, and `AuditsAgree` for two objects
  of one rotating history: no fork, and the two chains never name different
  objects as the later one.
* `AuditsAreRight`: `AuditIsRight` of `WitnessGossip`, and the proofs of
  `MerkleTree` against the definition of the tree.

The bounds.  Two processes are enough for a stale head, a lost race and a lock
of a dead process; the mutants that drop the lock or a comparison are caught
with two.  Three memories give two writers different successors of one head.
The first process's limit is one below the second's, so that it meets a store it
may not open.  Three revisions or bundles give a chain a middle, so that a fork
and a gap differ.  Three keys of two services let a quorum fail for number and
for distinctness, and a window that ends at 2 expires within the history.  Two
commands give a first (with a start deadline), a last and a step between; times
1 to 3 lie on both sides of every window's bounds.  `MaxRecords` is larger than
any chain can be, so it hides nothing from `RoomToFinish`.  Two requests and one
observation are what a message needs to be presented with the wrong one.  Five
events of a memory fit two registrations, a reuse, a transition and one
invalidation, and then not two.  A sweep that breaks too early needs three
reservations and three ticks.  Two rounds with a fork let the second rest on
another branch than the first.  Five lifecycle events are a drift, its review, a
stable window and an activation, and enough to lose an event by a reload and
take another course.  Seven leaves give Merkle trees with every shape of a
frontier of three levels.  The two directories of gossip fork at the second
leaf, so that some checkpoints agree and some do not.

Of the atlas run: updates have two obstacles, absent or at one of two points of
an 8 by 4 domain, one of them in the middle, with or without padding, and two updates,
enough to lose a region and regain it.  Shield and gate have two Atlases of one
scene, of which one is connected within the tolerance only.  The calibrated gate
has every profile of up to two bins over three confidences.  The index has all
lists of up to four out of five boxes that nest, touch, are apart, share a
center or a side.  Corridors follow every path along the sides of a square with
up to two configurations in collision.  Occupancy has two robots on rails in
seven frames between them, nine trajectories valid and invalid, margins, and
limits that the analysis meets and exceeds.  Planning has all Atlases of up to
three of the five boxes and points inside, between and outside them.  Files are
pairs of Atlases that differ in the graph, in the version and in the schema.
Constraints have regions of every kind and points all around them.

Deadlock is allowed only where the system stops, in the three runs of
`VersionStore` (nobody writes and there is no store to open, or the bounds are
reached and nothing is left to open or to fail); those configurations say so.  In composed runs the parts that end stutter.

Fairness appears in `memory_store` only: a call that has started goes on
(weak fairness of the publishing steps, a program that is not stopped) or its
process dies, and the operator removes stale locks, which
`docs/safety-memory-store.md` asks of the operator.  Nothing obliges a caller
to publish, retry or end a session, so no other liveness is claimed.

## Proofs

What is proved holds for every value of the constants that the named assumptions
of the component's module admit.  Those assumptions are typing of limits and of
the data that the constants stand for (a safety memory's are at most the
default arguments, 1,000,000 artifacts and 4,000,000 events, which `valid()`
takes for the most there may be), what a constructor has checked (a
deployed session has windows in order, a root table is valid), and finiteness
where something is counted.  Six proof modules also instantiate components that
work with the first one or in its way (the lines "the same, of" below).  The
theorems about those carry their hypotheses instead of assumptions of a module:

* limits and policies are natural numbers (`MaxRecords`, `MaxGossip`,
  `PoliciesCount`); boxes, windows and margins are integers (`Measured`, `Aged`,
  `InputsFit`);
* what stands for a missing file is not a journal (`NotAJournal`);
* confidences, uncertainties and counts of a policy are numbers, a proposal's
  confidence is at most `Scale` (`ProfilesFit`, `PoliciesFit`);
* a robot has finitely many joints, a configuration has a number for each, the
  interval of a region is not empty and the adjacency tolerance not negative
  (`ShieldFits`), which `Box`, `SafeAtlas` and the shield's own checks of an
  action see to;
* an Atlas that is saved is one that `build()` or `update()` made, whose
  certificates are in the order of its regions (`SavedFit`);
* an envelope encloses its padded box (`EnvelopesEnclose`), which is what a
  certificate means, and for `AtlasKeepsSpace` also those of the box's parts
  (`EnvelopesGrow`), which holds of interval arithmetic.  `AtlasKeepsSpace` is
  about a domain that is not flat (`DomainFits`) and an adjacency tolerance of
  zero: the default of 1e-12 (`include/rbfsafe/atlas.h:43`) is far below the
  unit of the model's integers, and with a tolerance of a cell or more merging
  could bridge a gap.

The MC modules give all of these values that satisfy them, and `MCCatalogue`,
`MCExecution` and `MCAtlas` (`LooselyEncloses`, `SavedAreFit`) assume those that are not plain typing, so
that TLC evaluates them.  Nothing else is assumed.  Every proof of an
invariant has the shape `Init => IInv`, `IInv /\ [Next]_vars => IInv'`,
`IInv => Inv`, one lemma per action.  The types of the seven components of
the table and of `FleetSchedule` are proved and no longer checked by a run.

| Module | Theorems | Property of a run |
|---|---|---|
| `MemoryStoreProofs` | `StoreAlwaysOpens`, `PublishComparesAndSwaps`, `StoreImplementsChain` | `StoreOpens`, `CommitIsCompareAndSwap`, `ImplementsChain` |
| the same, of `TransparencyLog` | `ChainsAlwaysOpen`, `AcknowledgedAlwaysKept` | `ChainsOpen`, a part of `DirectoriesOpen`; `AcknowledgedIsKept` |
| the same, of `WitnessGossip` | `ArchiveAlwaysOpens` | `ArchiveOpens`, a part of `DirectoriesOpen` |
| `VersionStoreProofs` | `VersionsStay`, `StoreImplementsTree` | `VersionsAreKept`, `LoneWriterImplementsTree` |
| the same, of `SafeAtlas` | `AtlasAlwaysSafe`, `AtlasListsSpace`, `AtlasKeepsSpace` | `AtlasIsSafe` and `SpaceIsKept`, which are the updates' part of `AtlasesAreSafe` |
| `TrustHistoryProofs` | `AlwaysReplays`, `NoForks`, `TrustNeverReturns` | `HistoryReplays`, `NeverForks`, `TrustOnlyShrinks` |
| the same, of `ReservationAgreement` | `AgreementsAlwaysReplay`, `RoundsAlwaysExtend` | `AgreementsHold` |
| the same, of `Provenance` | `ReadyIsAlwaysRecent` | `ReadyIsRecent` |
| `ExecutionLedgerProofs` | `AlwaysOpens`, `LedgersAreBounded`, `NothingIsGrantedTwice`, `LedgerImplementsSequencer` | `LedgerOpens`, `RoomToFinish`, `GrantsAreDurable`, `ImplementsSequencer` |
| the same, of `ExecutionSession` | `SessionsAreReviewed` | `GrantsAreReviewed` with `SessionsLoad` |
| `SafetyMemoryProofs` | `LogAlwaysReplays`, `OnlyCurrentIsReused`, `NothingChangesUnseen` | `LogReplays`, `ReuseIsCurrent`, `ChangesAreSeenAndWhole` |
| the same, of `FleetSchedule` | `SweepIsExact`, `ArchiveIsExact`, `SourcesStayCurrent` | `ConflictsExact`, `NoVersionTwice` and `VersionsReplay`, which are `SchedulesAreExact` but for the limits of a load; `SourcesAreCurrent` |
| the same, of `ArtifactTransfer` | `TransfersAlwaysHappened`, `SavedAlwaysKept` | `JournalIsTrue` |
| the same, of `AtlasFiles` | `LoadedAlwaysWhole` | `LoadedIsWhole`, a part of `LoadsAreWhole` |
| `CalibrationProofs` | `GateNeedsReview`, `DecisionsInformed`, `RetirementFinal` | `GateOpensAfterReview`, `DecisionsAreInformed`, `RetiredIsFinal` |
| the same, of `PolicyGate` | `ProfilesAlwaysCover`, `ChoicesAlwaysSound` | `ProfilesCover`; `GateIsSound` and `CalibrationIsConservative`: all of `ChoicesAreSound` |
| the same, of `RuntimeShield` | `PlansAlwaysCertified`, by `AuditedConnects` | `PlansAreCertified` |
| `RotatingHistoryProofs` | `AlwaysOpens`, `ObjectsAreOneMoment`, `SignedUnderCurrentBundle`, `AuditsNeverFork` | `HistoryOpens`, `ObjectsWereCurrent`, `SignedUnderHead`, and `AuditsAgree`, a part of `ForksAreFound` |
| the same, of `PublicationHistory` | `FixedAlwaysOpens`, `FixedForksAreFound` | with `AuditsNeverFork`, `ForksAreFound` |

Each module has a `TypeCorrect` of its component as well.  `PrefixChains` holds the lemmas that
several share: a directory that replays to a chain holds exactly the
beginnings of that chain, so it replays to no other, its files are ordered, and
appending adds one file that was not there; a set of numbers has a least and, if
bounded, a greatest member (`LeastExists`, `GreatestExists`), and a set that has 0
and with each number the next has them all (`EveryNumber`), which is induction
in a form that the provers can use.

`MemoryStoreProofs`.  The invariants that the run checks are not inductive.  The
inductive one adds: at most one process is inside the critical section and then
the lock exists; the commits are closed under ancestors and have one file per
sequence number; what a writer established about head and payload under the lock
is still true when it commits; every object holds a prefix.  Exclusion rests on
`mkdir` being atomic (one action) and on the operator's rule.

The log has one such directory per copy, and several writers each.  `LogInv` says
that the files of each are the records of one log (`Holds`) and that a draft is
the next of them (`DraftsFit`); what was answered is then among them for good.
A record carries a frontier that `publish_leaf()` computes from the one before,
and `open()` recomputes from the leaves: that the two agree after any number of
leaves is `FrontierAppends`, by `EveryNumber` over the leaves.  `open()` reads the
files in the order of their numbers, which for the files of a log is the order
of the log (`RecordsSorted`).  `GossipInv` is the same for an archive, and adds that a
record that was checked under the lock still continues its sender's messages.

`VersionStoreProofs`.  There is no lock to reason with.  A failing publish
removes the directory that it has added, so the danger is that somebody else
lists that version by then.  `AloneAt` rules it out: between adding the
directory and replacing `store.json`, the version is in no file, backup or
object and in no other call's target, because a directory is never
renamed over an existing one, so that of two publishers of one version only the
first gets that far.  `FitsAt` says that the target of a call is still one
version or one head away from the list that its object cached.  The refinement
needs a second invariant for a lone writer: the others have nothing aside, and
what the writer's object has cached is what the files say (`Durable`) except in
the moment after the swap.

`AtlasInv` carries through builds and updates that every region stands by its
certificate in the scene of whoever holds it (`Stand`), and that regions,
domains and what is left to do fill the joint domain (`Fill`).  A certificate
is inherited when no obstacle that was added or moved comes near its envelope,
so its enclosure of the box is all that is needed.  That coverage comes back is
harder: an update merges and splits, so regions of the old scene are not found
again one by one.  `HistoryInv` says instead that whatever an Atlas lists are parts of what
the first one listed (`PartsOf`), whose regions and domains share no cell
(`NoShare`), and that what still waits, while all updates repair, is not free in
the present scene (`Blocked`).  A cell that the first Atlas certified and this one
does not would wait in a part of a region of the first, and that part is free
once the scene is back.

`TrustHistoryProofs`.  Added: exclusion; objects and checkpoints are records of
the directory; what `publish()` has tested stays true until the record is
renamed (`WriterKnows`), since nobody else adds one.  `TrustNeverReturns`
compares every two bundles of a history, not only neighbours (`RotationsCompose`): the permitted changes
of a key in use are transitive (`RotationsTransitive`), so what holds of one
rotation holds across any number that an object slept through.

`AgreementInv` compares every two accepted rounds, as `TrustNeverReturns` does
bundles: a successor was checked against one branch of each publisher, the next
against perhaps another, and prefixes compose whichever branch they are on.  What
an agreement names was the head of some branch once, and branches only grow.
`ProvenanceInv` needs one fact of the messages: a truthful source's assertion was
right within its uncertainty when it was signed.  The rest is arithmetic of
`FreshnessStatus`, whose interval is no later than that of any of its sources.

`ExecutionLedgerProofs`.  Added: exclusion; the chain of the directory is one
that the code accepts (`ReplaysAccepted`), which includes its pace, that no
command is authorised twice, and that the authorisations of a chain are
numbered without a gap; the draft of an append would be accepted too
(`WriterKnows`); an authorisation that is held is written (`GrantsWritten`).
An append keeps what `audit()` tests of the records before it, and a rotation of
the trust history changes nothing about the bundles that they name
(`RotateAccepted`).  The refinement maps the commands issued to a function of
the authorisations in the chain; only the renames of `create()` and of an append
are steps of `CommandSequencer`, everything else is a stutter.

The session (`ExecutionSession`) has no critical section; its argument is that
what was signed stays signed, so what was once approved stays approved
(`ApprovalsStay`).  `SessionInv` carries the approvals from reviews to requests,
from there to sessions, and adds that a command is dispatched within the
duration that was left when its observation was made, from which the age of the
evidence follows.  The revocation of a reviewer takes nothing back, and it need
not: a session loads only while the head is the one that its profile was
reviewed at.

`SafetyMemoryProofs`.  `valid()` checks each event by itself (`EventValid`) and
replays the log; the replay is taken apart by artifact (`Replays`), so that a
call has to be looked at for the artifact of its event only.  Not inductive by
itself is `ReuseIsCurrent`: the invariant adds that an artifact is active only if
no event since its registration has ended its reuse (`ActiveAt`), and that what
callers have seen is one state and, at the present generation, the present one
(`SightsAgree`).  `invalidate_scene()` logs one event per matching artifact in
the order of ids; that a finite set of ids has such an order, and that the log
then holds each artifact once (`InOrderIsOrder`, `Invalidated`), is the longest
part.

The sweep of `FleetSchedule` visits reservations by the start of their windows
and leaves its inner loop at the first one that begins after the current one
ends.  `SweepIsExact` rests on three facts: any finite set can be put in such an
order, although starts tie (`SortedExists`); after the break every window begins
later still, so the pairs that are evaluated are exactly the pairs whose windows
overlap (`SweepFindsOverlaps`); and the comparison of boxes and margins tells whether two
positions are too close (`BoxesTellClash`).  The archive's invariant `FleetInv`
keeps each version as the analysis of its own reservations, different from the
one before it.  Sources end without the archive being told: that a version was
published over active sources is a property of the publishing step.

`TransferInv` says of every journal there is, in memory, under the name, staged or put
aside, that each of its transfers happened (`TrueIn`), since a load may bring back any of them; that the memory's
entries and the messages stay is what keeps it.  `SavedIsKept` needs to know where
`save()` is: the name is free when the old file is aside, and holds the new one
when it has been placed (`SaveKnows`).

A load of an Atlas opens what is under the name, anew for each payload, so it may
read parts of several.  `FilesInv` says that whatever is on the disk has passed
the load that `save()` makes of it, and that how many reads are left tells which
payloads have been decoded (`ReadsAre`, `DecodedAt`), each from one of those
directories and fitting the others (`Fits`).  When all are there, the version's
identity is recomputed over what was read and compared with the manifest's:
`CompleteIsWhole` takes the equal identities apart (`IdentityTells`) and finds
every field of the manifest's Atlas, but for the LECT, which the identity does
not cover.  Regions refer to their certificates by position and the graph to
regions by position while the identity names the contents, so the step needs
that certificates are in the order of the regions and that ids are distinct.

`CalibrationProofs`.  That the gate needs a review is not inductive: the
invariant says of every event `n`, not only of the last, that a pending state
after it has an answer to each drift before it (`Answered`) and an active state a
whole review (`Reviewed`).  Every event, because a reload makes an earlier event
the last; pending, because an activation starts there.  An append leaves the
earlier events alone (`AppendKeeps`), so the claims about them stand
(`EarnedLocal`), and the new event earns its state by `AssessEarns` or
`MoveEarns`.

What the gate reports is about the batch alone; `GateInv` says from which batch
the report is and keeps it so beside any step of the shield.  `preferred_candidate()` is a scan
that keeps the better of two: a rank is four numbers compared in order, the last
one the position (`SoonerOrders`), so what is kept of the first k is the best of them
(`SelectedIsBest`, by `EveryNumber`).  The bins of a valid profile rise without a
gap (`BinsRise`), so each confidence is in one (`OneBin`), and calibration only lowers
a confidence (`EffectiveIsModest`): what is eligible after it was before
(`ModestIsEligible`).

That a shield never refuses its own output (`PlansAlwaysCertified`) is about the
agreement of three pieces of code: `route()` searches regions that overlap,
`audit()` cuts a segment into parts and asks that regions cover them, and a
repair joins several routes.  The parts of a segment are a product over the
axes, which every axis divides (`PartsFold`, `PartsDivide`).  Three facts of a
box follow: the first and the last part are in it only if the ends are
(`FirstPart`, `LastPart`), it has every part between two points that it holds
(`BoxesAreConvex`), and boxes that have one part each, of which one follows the other,
overlap (`NextPart`).  The last one makes every trajectory that passes the audit a walk over
overlapping regions, so its ends have a route (`AuditedConnects`); a shortest walk
visits no region twice (`ShortestIsShort`), so the search by length finds it.  The
other direction is by convexity: a route's waypoint lies in both regions that it
passes between (`WitnessInBoth`, `RoutesAreAudited`), and routes that start where
the output ends keep it audited (`AppendedIsAudited`, `VisitsAreAudited`).  It is
for any number of joints, where the run has two.  The
monitor's half is then `arm()`, which audits against the monitor's own Atlas.

The folds of the community modules recur over the subsets of a finite set; that such a
recursion has a solution (`SubsetsRecur`), and one over the numbers
(`NumbersRecur`), is proved once and used for `Parts`, `Distance`, `Appended`,
`Spread` and `Visits`; `EverySubset` is the induction that goes with it.

`RotatingHistoryProofs`.  Two chains move here and `open()` reads one after the
other.  Added: exclusion over publications and rotations together; publications
name bundles in order (`BundlesInOrder`); what a reader has seen of the trust
history is a past of it (`SeenIsPast`); what a writer has tested is still true,
the bundle included (`WriterKnows`); and `ObjectsCurrent`, that the two halves of
an object are one moment: no publication that it lacks names a bundle before its
newest, and none that it has names a later one.  `OpensUnderLonger` is why a
rotation between the two reads does no harm.

With a fixed bundle (`FixedInv`) there is one chain per directory, and the copy
of a directory is another directory: exclusion is per directory, and an
object's chain is a past of its directory (`ObjectStands`).  The audit's verdict is compared
with the existence of a common future, which is the longer of the two chains if
there is one.

Model-checked only, and why:

* liveness (`LockReleased`) and ENABLED, which the prover does not reason about;
* whatever reaches a RECURSIVE operator: roots and proofs of `MerkleTree`,
  therefore `RootsAreMerkle`, what is left of `DirectoriesOpen` (that a root folded from
  the carried frontier is the one computed level by level; besides induction it
  takes powers of two, which the provers have no arithmetic for);
* the limits under which an archive can be loaded (`Loads` in
  `SchedulesAreExact`): they compare sums over all versions, which are folds;
* properties of parts that are functions of an input (`AuditsAreRight`,
  `KeysAreStable` and `IndexExactFor` in `AtlasesAreSafe`, `SavesLoad` in
  `LoadsAreWhole`, most of `atlas`), where all inputs of a size are enumerated.

The library's induction theorems take an operator as a parameter, which no
installed prover instantiates; `EveryNumber` serves for numbers and
`EverySubset` for finite sets, and nothing like them is stated for trees.

## Findings

Three runs end in a violation, each of a promise that the repository makes:

* `version_store_rollback`: `rollback()` writes back a cached list, so a version
  that another process published since is dropped, where
  `docs/dynamic-updates.md` says that a rollback never deletes.
* `version_store_crash`: `store.json` is replaced by two renames, where the same
  document calls the update atomic.
* `occupancy_rounding`: `RobotTrajectoryOccupancy::valid()` recomputes the end
  of a segment as `first + 1.0 * (second - first)` and compares it exactly with
  the domain that was built from the waypoint.  The two differ for some doubles
  (a joint that moves from 0.1 to 0.45), and the builder returns
  `InternalError` for a trajectory that meets its documented input contract.
  The run has the same with numbers of two significant bits; with exact numbers
  (`atlas`) every accepted input is built.

## Not modelled

JSON, hashing, signatures and path handling (data); permissions and symbolic
links; cancellation tokens (a call that fails before its first write changes
nothing); byte limits; durability of unsynced writes (a rename that has
returned is durable here); the retained-head audit that detects a directory put
back to an older state, which compares two arguments and keeps no state; schema
1 of the trust history, where one signature stands for the quorum; the HMAC key
ring of `trust.cpp`.  Kinematics, interval arithmetic, workspace envelopes, the
fitting of a calibration profile and the statistics of its windows are numeric
and enter by what they promise or by their outcome.  The MoveIt plugin, the
Python bindings and the inspection tool are adapters without state of their own.
Geometry has one or two axes: the code treats axes independently wherever these
modules say so, and kinematics, which does not, is outside.
`PROJECT.json` has the reason for each component.

Hazards that no property covers are in `PROJECT.json` with the reason.

## Plan

1. Done: every component of the table but the last line.
2. Done: proofs about every directory with a writer lock, the version store, the
   safety memory and the fleet schedules, the transfer journal and the shared way
   of replacing a file, the calibration lifecycle, the execution session,
   agreements, provenance, the policy gate, the runtime shield, and the Atlas under
   updates and in its files.
3. Proofs that are left: `RootsAreMerkle`, which needs lemmas about powers of two; the
   routes and portals of `RegionDatabase`, by the lemmas about boxes that the shield
   has now.
4. Larger: gossip of three directories, agreements of three deployments, Atlases
   in a domain of three axes, as far as the time of a run allows.
