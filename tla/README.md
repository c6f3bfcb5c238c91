# Verification of runen-ecs

runen-ecs is an entity-component-system library. A program registers systems with schedules; a
schedule runs them one after the other, or in parallel cohorts whose observable result has to be
that of the serial run. This directory models the parts of the library that carry that promise and
those the promise rests on, checks the models with TLC on small instances, and proves the central
facts with TLAPS for every value of the constants.

Paths below are relative to `crates/runen-ecs/src` unless they start at the repository's root.
`PROJECT.json` names, for every definition, the lines it stands for.

## Inventory

| Part | State | Operations | Modelled |
|---|---|---|---|
| Entity allocator (`entity.rs`) | slots with generation and occupancy, free list | `allocate`, `free`, `validate` | `EntityAllocator` |
| Change cursor (`world/change_tracking.rs`) | one `(epoch, tick)` position | `next`, order, exhaustion | `ChangeCursor` |
| World and archetype storage (`world/`, `storage/`) | living entities, rows and columns per archetype, locations, change ticks, removal window, secondary indexes | `spawn`, `insert`, `remove`, `despawn`, `get_mut`, `begin_deferred_publication`, index lookup | `World` over `EntityStore` |
| Typed relations (`world/relation.rs`) | one store of edges per relation type | `insert`, `remove`, `clear_entity`, `despawn` | `Relations` over `RelationFacts` |
| Planner (`scheduler/plan.rs`) | a schedule's declarations, its plan | `build_plan` | `SchedulePlan` with `ScheduleOrder` |
| Serial executor (`system/runtime.rs`) | pending deferred buffers | `run_schedule` | `SerialExecutor` (a function) |
| Parallel executor and cohort (`system/runtime/parallel_executor.rs`, `system/worker_cohort.rs`, `world/parallel.rs`) | position in the plan, workers, journals, buffers | one run in cohorts | `ParallelExecutor` |
| Mutation capacity (`world/mutation_journal.rs`) | unassigned positions, an escrow per worker, a lock | `try_reserve` | `MutationCapacity` over `MutationAdmission` |
| Mutation journal (same file) | events, the serial reservation | record, commit, replay | `MutationJournal` over `ObservedChanges`; the cohort's replay also in the executor |
| Schedule registry (`scheduler/plan.rs`, `system/runtime.rs`) | systems, plans, dirty flag, next identity | `add_systems`, `validate`, `plan_for` | `ScheduleRegistry` over `RegisteredSystems` |
| Commands (`commands/`, `system/runtime.rs`) | queues of recorders, the queue of an invocation, deferred buffers | record, batch, apply, finalize, publish, discard | `CommandRecorder` over `DeferredEffects`; the buffers of a cohort in the executor |
| Query shapes and access (`query/query_data_impls.rs`, `query/access_and_filters.rs`, `scheduler/access.rs`) | what each shape borrows, fetches and marks; what a system declares | registration, conflict | `QueryForms`, `ParamAccess` |
| Parameters, capabilities, worker projection (`system/params.rs`, `system/extract.rs`, `world/parallel.rs`, `world/capability.rs`) | the package of a worker, references handed out | prepare, extract, use | `SystemParams` |
| Query states on a world (`query/traits_and_state.rs`, `query/contiguous.rs`) | world and position of the last use, segments being handed out | iterate, get, single, segments | `DirectQueries` over `Observers` |
| Resources (`world/resource/`) | boxed values, change ticks | insert, get, remove | `MutationJournal` (presence and ticks) |
| Reflection, inspection, errors, macros, benchmarks, xtask, tools | static tables, diagnostics | | no |

How they interact. A `Runtime` owns the registry and the queue of deferred buffers, and is given a
`World` for each run. The planner turns declared precedences into a reference order and chooses the
*publication frontiers*: the points at which what systems have recorded is applied to the world.
The serial executor walks the reference order. The parallel executor walks it in cohorts: between
two frontiers, systems that are ready and do not conflict run at once on worker threads, which
mutate component payloads in place, reserve a position of the change cursor for every mutation
before they expose the reference, and record it in a journal of their own. When all have ended, the
invoking thread replays the journals in rank order, so cursor positions are the serial ones.
Application of commands calls the world's structural operations, and despawning calls the relation
stores and the allocator.

What is hard. Threads meet in one place, the shared mutation capacity, and it is lock-free with
Relaxed atomics. Everything else concurrent is kept apart by the planner and the cohort rule, so
the questions are whether those keep enough apart, whether everything that is put back together is
put together in the right order, and what is left when members, commands or callbacks fail halfway.
In the sequential part, the hazards are caches and back references: locations against rows, an
index against the data it was built from, edges against the entities they name, a handle against
the slot it was made for. Nothing is persisted, and nothing times out.

The properties that make each part correct are listed with its module below; the hazards they aim
at are in `PROJECT.json`, each at its line.

## Modules

A component's module declares its `VARIABLES`, one action per operation or, where other threads
may come between, per access; `MC...` modules hold the bounds; `...Proofs` the theorems. Operators
preceded by a comment that says *Mutated* are plausible bugs: they are not part of any
specification and serve to show that a property notices them.

### Concurrent mutation capacity

`MutationCapacity` models `try_reserve`, `try_claim` and `deposit`. `unassigned` is the mutex-held
pool, `holder` the lock, `escrow[w]` the atomic of worker `w`; `pc`, `stage`, `slot`, `observed`
and `grant` are a worker's locals. Each load, swap, lock and store is an action (`Load`, `Claim`,
`LoseSwap`, `Acquire`, `CheckEmpty`, `Deposit`; `Take` and `BeginScan` touch only what the lock
protects). A Relaxed load may return any value since the last deposit (`Visible`), never one older
than what the same attempt has seen. `MutationAdmission` is what it promises: a request is admitted
while positions are left and refused when none is, in one step.

Properties: `Conservation` (no position lost or made up), `ExactExhaustion` (a refusal means that
all are admitted, none lies in the escrow of a paused worker), `ExactAdmission` (refinement),
`RequestsAnswered` (liveness). Proved with the invariant, and not among the runs: a refill finds
its escrow empty, so the framework violation in `deposit` never happens, and the donor scan is a
snapshot (`ScanIsSnapshot`), as the comment there says.

### Schedule planning

`ScheduleOrder` has the pure part: targets, edges, the reference order by depth, obligations and
the cuts selected for them. `SchedulePlan` is `build_plan` with a step per loop turn: `Resolve` or
`RejectUnresolved`, `Take` (one system out of the ready set), `Order` or `RejectCycle`, `Select`
(one obligation), `Assign`. Diagnostic names decide only between obligations of one deadline, so
`Select` takes any of those.

Properties: `PrecedenceKept`, `CycleExact` (rejected for a cycle exactly if
there is one), `CommandsPublishedInTime`, `FewestFrontiers` and `FrontiersCanonical` (ADR 0001),
`PlanningEnds`. `DepthIsLongestChain` (no system waits for a layer it does not need) is proved only.

### Registration

`ScheduleRegistry` has the registered systems, the next identity, the plans of the last successful
build and the mark that they are out of date. `AddSystems`, `SetupFails` and `IdentitiesRunOut` are
the outcomes of `Runtime::add_systems`; `Validate` and `PlanFor` begin with `Rebuild` when the
registry is dirty, and `RebuildFails` is the build that meets a schedule without a plan: it leaves
the old plans and the mark. A plan is the set of its systems, and `Plannable` stands for the verdict
of `SchedulePlan`. `RegisteredSystems` is what the registry implements: requests are answered from
the systems as they are registered, in one step, and nothing is kept.

Property: `ImplementsRegistration` (no run uses an old plan, and no failed call consumes an
identity). That no identity is given twice is part of the proved invariant.

### Executors

`SerialExecutor` gives the world after each system of a serial run, as a function of the world
before it. `ParallelExecutor` is the run in cohorts: `StartRun`, `Step`, `Invoke` (a system that
has to stay on the invoking thread, or capacity one), `Launch` (membership and preparation),
`Begin`, `Mutate`, `Finish` of a worker, the three `Reconcile...` of the joined cohort,
`ReachFrontier` and `PublicationFails`, `Complete`. A world is its component values, the position
of each component's last change, the cursor, what was published and called back, and what each
system saw, including through its change filters. Faults are drawn when a run starts.
A plan's `start` is where its cursor begins, so that plans with faults begin near the last position
and others do not.

Properties: `SameAsSerial` of runs that succeed; `NoRacingAccess`, `PublishedPrefix`,
`BuffersSettled`, `FailureSelection`, `TruthfulBookkeeping` (workers never mutate what the replay has
no position for, what a run wrote is marked changed, and the cursor moves by exactly the admitted
mutations and the applied buffers) and `RunsEnd` of all. ADR 0003 promises equality with the serial run for successful runs only. A
member whose preparation fails ends the run before the members of lower rank have started, where a
serial run would have met their own failure first; that is within the promise, and
`FailureSelection` excepts it.

The executor's `admitted` counter is the atomic admission that `MutationCapacity` is shown to
implement, and its cuts are those of `ScheduleOrder`; so each of the three is checked against the
interface the next one uses.

### Entities, world and storage

`EntityAllocator` has the slots, the free list and the verdict on a handle; `issued` and `freed`
are history. Its properties say that no handle is ever issued twice (`NeverReissued`), that it is
valid exactly between its allocation and its release (`ValidWhileAlive`), that a refusal gives the
true reason (`RejectionTruthful`). That every slot is in use, listed or retired is proved only.

`ChangeCursor` has positions, their order and the carry from tick to epoch.

`World` extends both: `rows`, `columns` and `locations` are the archetype registry and the location
map, `typeTick`, `removed` and `index` the change metadata. `insert`, `remove` and `despawn` take a
bundle component by component, each of which may find the cursor exhausted and panic, so they are a
first action (`Insert`, `Remove`, `Spawn`, `Despawn`) and one `Commit...` per component; `pending`
is what is left of the bundle. `Modify` is `get_mut`, `Lookup` a lookup in a secondary index, which rebuilds it (`Rebuilt`),
`BeginPublication` the start of a removal window. `EntityStore` is what it implements: a map from
living entities to cells, in which nothing has a place.

Properties: `OnePlaceEach` holds between any two steps, also after a panic;
`QueriesExact`; `ChangesBelowMarks` (a type's high-water mark is never behind one of its rows);
`RemovalsReported` and `IndexesCurrent`, except after a panic; `ImplementsStore`. The architecture
record (ADR 0003) calls an exhausted cursor unsupported, and a removal that meets one has taken the
component out without recording it; the exceptions state that and no more.

### Mutation journal and resources

`MutationJournal` has the marks a mutation leaves (the cursor, the changed tick of each row, the
high-water mark of each type, the dirty bits of the indexes), the resources there are, and the
run: `journals` by rank, `reserved` (the serial journal's next position), `working` systems, and
`at`, the event to be replayed next. Outside a run `Direct`, `RemoveResource` and `DirectExhausted`
mark at once and `TypeChangedSince`, `RowChangedSince` and `Lookup` observe; `StartSerial` and
`StartCohort` begin a run, `TakeReserved` and `Admit` record an event, `RefuseEvent` is the panic
of an exhausted cursor, `End` the end of a system in whatever way, and `Replay`, `NextJournal` and
`Replayed` the reconciliation, an event a step. The replay puts a type's mark off while the next
event is of the same type and both were located beforehand (`RunGoesOn`). `outdated` is history:
types whose values an index does not know of yet. `ChangePlaces` has what a change can be of.

`ObservedChanges` is what the journal implements: a reference is a promised position (`Promise`,
refused exactly when none is left), every promise is kept by marking row and type in full
(`Keep`), and observers are answered from the marks made so far. The refinement shows the mark that
is put off as if it had been made.

Properties: `PositionsSuffice` (no replay meets an exhausted cursor; the serial reservation is
empty exactly when no position is left) and `ImplementsObserved`. `Admit` is again the atomic
admission that `MutationCapacity` implements. Which system may write what is a rule of the cohort
(`MayWrite`), shown by the executor.

### Commands

`CommandRecorder` has recorders, made by the program (`NewOwned`) or handed to a system as
parameters (`Extract`), and where each stores: in a queue of its own or in the one the invocation
shares. Batches nest, and take their place in a queue when their closure returns (`CloseBatch`) or
never (`AbandonBatch`). `Apply` drains a recorder into a world. The runtime's half is a serial run:
`BodyEnds` turns the shared queue into a buffer, `Publish(k)` applies the buffers up to the first
failing effect, `BodyFails`, `ExtractionFails` and `CallbackFails` discard. An effect is a world
operation, and what it does to the world is the subject of `World` and `Relations`; what is told
apart here is which effects reach the world, in which order, how often.

`DeferredEffects` is the promise: what a system that ends well said happens at the next
publication, in order and up to the first failure; what any other said never happens; and a run
that has ended leaves nothing behind.

Properties: `OneOwner` (no effect is in two places or twice in one) and `ImplementsDeferral`.

### Access, parameters and workers

`QueryForms` has the eighteen implementations of query data, each as what its code lists by hand:
what it needs, borrows, fetches from an entity, reads from a row and marks; and the filters.
`ParamAccess` has the nine parameters, what each declares to the scheduler and as borrows, the
checks at registration, and the conflict of two systems. `SystemParams` is the life of a system:
`Register`, `RunSerially` or `FormCohort`, `Prepare` (the invoker adds one parameter to a worker's
package), `Launch`, `UseQuery`, `UseRemoved`, `UseHandle`, `Finish`. `live` is the set of
references that bodies hold: item by item, with component, entity and mode. What a worker looks up
is looked up in its package, and what is missing there is the framework panic, a stage of its own.

Properties: `NoAliasing` (no two references overlap of which one is exclusive, within an item,
between parameters or between members of a cohort), `PreparationSuffices` (the framework panics are
unreachable), `SameAnswers` (a query answers the same alone and on a worker, by spans or by
entities), `MarksExact` (what is marked changed is what was handed out exclusively).

### Query states on a world

`DirectQueries` has worlds, each with a cursor that ends, and states the program keeps: `home` and
`last` are a state's `world_scope` and `last_run_tick`. A shared look is one step (`Look`,
`LookSegments`); a mutable one (`Iterate`, `Take`, `OpenSegments`) borrows the world until `Close`
(`loan`: the rows an iterator has still to come to are `ahead`, the segments that may be handed out
`segments`), and hands out rows (`NextRow`) or columns of segments (`ExposeColumns`) after it has
marked them, one value and one cursor position at a time (`MarkOne`), or unwinds in the middle when
there is no position left (`MarkPanics`). `Observers` is the promise: a state has *news*, a use answers from
them and ends them, everything in another world is news, and nothing is handed out for writing that
is not news to every state of its world.

Properties: `TypeMarksCoverRows` (a type's mark is not behind a value of it nor ahead of the
cursor, in the middle of a recording and after one that broke off) and `ImplementsObservers`.

### Relations

`Relations` extends the allocator with `edges`, one set of pairs per relation type, and the cycle
search of an insertion (`searching`, `request`, `pending`, `visited`). An insertion that needs no
search is one action (`InsertAtOnce`); otherwise `InsertSearches`, one `Visit` per entity popped,
and `CycleFound` or `NoCycleFound`. `Despawn` takes the entity out of every store before it frees
the handle. `Reachability` has paths without recursion: y is reached from x when every set that no
edge leaves and that has x has y. `RelationFacts` is what the module implements: requests are
atomic and are refused exactly when the result would break the policy, with the test made on the
edges as they *would* be, after the replacement of a previous target.

Properties: `EdgesBetweenLiving`, `NoCycles`, `ImplementsFacts`; `OneTargetEach` is proved only.

## Runs

| Run | Bounds | Shows |
|---|---|---|
| `capacity` | 3 workers, 4 positions, batches of 2 | safety and refinement of the capacity protocol, every request answered |
| `plan` | 4 systems with up to 4 precedences; 3 systems in shared sets with 2 declarations | every property of planning |
| `registry` | 2 schedules, 4 identities, calls of one to three systems, also refused ones and ones without a plan for now or for good | registration, and no old plan |
| `executor` | 3 systems with 5 kinds of access; 4 systems with every choice of 4 precedences, deferred producers and an invoker-only system; 3 systems, up to two of which fail in any of 4 ways, failing commands and callbacks, 6 positions left; capacity 0 to 4; 2 runs | equality with the serial run, what failures leave behind, every run ends |
| `allocator` | 4 slots, 3 generations | handles |
| `world` | 3 entities, 2 components, 4 positions, bundles of one, two and a repeated component | places, queries, refinement |
| `world_changes` | 2 entities, 2 components, 6 positions over two epochs | change metadata |
| `journal` | 2 entities with 3 rows of two component types, a resource; 4 positions left, over two epochs; cohorts of up to 2 systems | deferred marks and refusals are not noticed |
| `relations` | 3 slots of 2 generations; a hierarchy, a dependency and a symmetric relation, the latter two reflexive; `FewEdges` at a time | policies and refinement, edges and reused slots |
| `commands` | 2 recorders, 3 systems, of which the last has the world as well; 4 effects | effects happen once, in order, or never |
| `system_params` | every query shape with four filters, and pairs of a dozen parameters, beside a rival system; 2 entities, 3 components | aliasing, preparation, answers, marks |
| `direct_queries` | 2 states, 2 worlds of 2 entities and 2 components; 2 positions left in one world, none in the other; 3 pairs of queries | news, and marking that breaks off |

Why the bounds are enough to be of interest. *Capacity*: one worker refills, one scans and one is
paused with credit; refills are full, partial and absent in one behaviour. *Plan*: chains,
diamonds, cycles of every length, obligations that share, nest and exclude one another; references
to several systems, to none and to the declaring system alone. *Executors*: a cohort with members
on both sides of a conflict, a second run so that change filters compare with an earlier one, and
more positions or fewer than there are mutations. *World*: three rows, so that the removed, the
last and another row differ; both epochs and the end of the cursor are reached. *Journal*: a run of one type
in one journal, broken by another type, by a resource, by an event that was not located and by the
end of the journal, each with positions to spare and with none. *Relations*: three
entities is the shortest cycle that no single edge or its reverse shows. `CursorMax`, `MaxRuns`,
`IndexLimit`, `GenerationMax`, `EpochMax`, `TickMax` and `Capacity` are the named bounds; all but
`MaxRuns` are the widths of integers or
capacities of the code, shortened. *Commands*: a system with two handles to one queue, nested
batches, and a run after one that failed. *Parameters*: the shapes are all there are, and pairs of
parameters of one system and of two. *Query states*: two positions for a segment that needs four,
a state that travels and one that changes what the other watches. `MaxEffects` and `ClockMax` are
the bounds of these.

`FewEdges`, the only state constraint, keeps all edges in one relation or at most two edges over
all: relations know nothing of one another but the entities.

Deadlock is checked in `commands` and `direct_queries`, where a program can always go on. In
the others it is not: systems stop when a plan is made, every position is used, every handle is
retired or no run is left, and callers may stop at any time.

Symmetry is used for component values in the two world runs, which have no liveness property.
Handles are not reused in those runs: the location map is keyed by the whole handle, so an entity in
a reused slot is a new one to storage, and reuse is the question of `allocator` and `relations`.

## Fairness

`capacity` assumes that a worker inside `try_reserve` takes its next step, and nothing of
user code: a worker may never ask again. The lock is taken under weak fairness only, because at
most finitely many others can hold it before the positions are used up.

`executor` assumes that the invoking thread and each worker go on, that is, that systems
return. A system that loops blocks the serial executor too. Nobody has to start a run.

`plan` assumes that `build_plan`, one synchronous call, is executed.

## Proofs

Every invariant and every action property of the runs is a theorem, so is each refinement; the
exceptions are the three liveness properties, which are out of the prover's reach. An
invariant named here is the one a module calls `...Inductive`, `Inductive` or `IInv`.

`MutationProofs` has the two sides of the mutation journal. *Capacity*, for any number of workers,
capacity and batch size: typing, conservation, exact exhaustion, refills of empty escrows, the
scan-as-snapshot property and refinement of atomic admission. The properties are not inductive by
themselves: exactness of a refusal needs that the scan's prefix stays empty, which needs that only
the lock holder deposits (`LockDiscipline`), that it looks at its own slot outside the scan
(`OwnSlot`), and that a scan starts with nothing unassigned (`Drained`). *Journal*, for any rows,
resources, cohorts and cursors: no replay meets an exhausted cursor, and the refinement of
`ObservedChanges`. The invariant says that as many positions are left as there are events
outstanding, or more; that the serial reservation is that many positions ahead of the cursor; and
that an index which is behind its values is dirty, or that an event outstanding or a mark put off
will make it so (`IndexesFollow`), since a lookup is answered correctly only because none of the two
is left when the run is over.

`ScheduleProofs` has planning and registration. *Planning*, for any set of schedules of any size:
typing, precedence, exact depths, exactness of the cycle verdict, publication in time, and that the
frontiers are the fewest and the canonical ones. The invariant adds that the counters count exactly
the predecessors not yet taken (`Looping`), what a finished loop means for the sort (`Sorted`), and
that obligations already considered are hit (`Selecting`). A system never taken has a predecessor
never taken, which gives the knot; in a finished order a least rank in a knot gives the
contradiction. Each cut is the deadline of an obligation that no earlier cut hits, so these
obligations are disjoint and any other choice needs as many (`FewestFrontiers`). The canonical choice
is a recursive function of the deadline; a rule that looks at earlier cuts only defines one, and the
cuts of the loop satisfy its equation (`FrontiersCanonical`), whatever the order obligations of one
deadline are taken in. *Registration*, for any systems and schedules, any number of identities and
any notion of what has a plan: typing, exact identities, and the refinement of `RegisteredSystems`.
The invariant adds that plans which are not marked dirty are exactly those of the systems; with it,
a request that rebuilds nothing answers as one that does.

`ParallelExecutorProofs`, for any plans of the shape `ExecutorAssumption` gives, any components,
faults and cursor: all six invariants of the executor. Between cohorts the world is the one the
serial run has at the same system, and so are the cursor, what is pending and what the filters last
saw (`Between`). While a cohort runs, the world differs from the one it started with by exactly the
payloads that members have mutated (`Payloads`), marks, cursor and what is published stay where they
were (`Base`), and a member that has begun saw what the serial run shows it (`Sighted`). What lets the members pass one another
is shown of the serial run alone: along the ranks of a cohort no member writes what another touches,
so each sees there what it would see at the cohort's start (`CohortProgress`). Journals replayed in
rank order then reproduce the serial marks and positions, one event after the other; a cohort that
runs out of positions, or of which members fail, stops at the rank where the serial run stops, with
the exception named under `FailureSelection`. The serial run is a recursive function: it exists, and
facts are carried along it, by `IntervalInduction` and `FunctionByRecursion`, which are drawn from
the library's theorem on least elements, since its induction schemes cannot be instantiated.

`EntityAllocatorProofs`, for any number of slots and generations: typing, no reissue, validity
exactly while alive, truthful rejection, accounted slots. The invariant ties the slots to the
history: a slot's generation is the number of times it was released, and what was issued in it is
what lies below.

`WorldProofs`, for any entities, component types, values, bundles and cursor: one place for every
entity, queries that visit each match once, marks never behind what they cover, removals reported,
indexes current, and the refinement of `EntityStore`. Everything the storage does is the removal of
one row, the append of one, or both; each is shown to keep `Storage` (rows, columns and locations
agree) and to leave the cells of every other entity alone, wherever they now lie (`Contents`). The
rest of the proof is about cells only. Its invariant says that an operation which is halfway still
finds what it needs (`Operation`), that ticks are ordered row, type, cursor (`Marks`), that a removal
window is in order of time and has every loss that the operation has recorded (`Window`), and that a
clean index is equal to the data unless a removal is still to be recorded (`Lookups`); the last two
except after a panic.

Executor, journal and capacity meet at admission: the atomic admission that the first two use is
what `MutationCapacity` is proved to implement.

`RelationsProofs`, for any entities, relation types and policies they may declare: typing, edges
only between living entities, one target per source, freedom from cycles, and the refinement of
`RelationFacts`. The invariant is the search's: edges lead from visited entities to visited or
pending ones only, everything visited or pending is reached from the target, and the source is not
visited. With nothing pending, the visited set separates the target from the source, so the edge
closes no cycle; with the source pending, it closes one even after the replaced edge is gone,
because a path that ends at the source need not leave it.

`CommandQueryProofs` has what a program keeps between calls. *Recorders*, any of them, with any
parameters, and any frontiers such that one follows each system that can record: the refinement of
`DeferredEffects`, and one owner for each effect. The invariant adds that no handle to the shared
queue outlives the body it was made for (`Inside`), without which effects of one system could be
said by another, and that pending buffers wait for a frontier still to come (`AwaitFrontier`),
without which a run that ends well could leave some. That the planner places such frontiers is
`CommandsPublishedInTime`. For `OneOwner` the queues, batches and buffers are seen as one family of
sequences, with no number in it above the last one issued (`Owners`): a step writes a new number
down, moves the front of one sequence behind another, or lets some go. *Query states*, for any
worlds, states, shapes and typed filters over finitely many entities and component types: marks that
cover their rows, and the refinement of `Observers`. What a state has news of is a function of the
ticks and its last use, and the steps are compared by it. The invariant says that a value's ticks
are in order and none is ahead of the clock (`InOrder`); that the rows lent and not yet passed, the
segments and the recorded pieces are there and recorded ones known to every state of that world
(`Lending`); and that what a recording in progress is going to expose is known or still to be marked
(`MarkingSound`), which is what makes one that breaks off harmless.

`SystemParamsProofs`, for any systems with any signatures over any component types, entities and
filters: no aliasing, sufficient preparation, same answers, exact marks. Each shape is shown
`Sound`: what it fetches, reads from a row and marks is covered by what it declares. The invariant
then ties each reference to a parameter of a running system that borrowed it (`Given`), all
references of one query to one list of items (`OneSource`), a package to what its parameters asked
for (`Packed`), and members of a cohort to pairwise compatibility (`Together`).

Assumptions are those named in the modules: `CapacityAssumption`, `SchedulesAssumption`,
`RegistryAssumption`, `AllocatorAssumption`, `CursorAssumption`, `PlacesAssumption`,
`JournalAssumption`, `WorldAssumption`, `RecorderConstants`, `CatalogueAssumption`, and

* `ExecutorAssumption`: a plan's edges lead forward, its cuts are among the ranks and one follows
  each producer, which is what `SchedulePlan` is proved to deliver; reads and writes are given for
  every rank, and a cursor starts within its bound.
* `CutsSuffice`: the same of the frontiers of `CommandRecorder`.
* `PolicyAssumption`: only directed relations have constraints, which the code asserts at
  registration.
* `DirectAssumption`: finitely many entities, at least one, and finitely many component types; what
  a world starts with fits its clock; shapes and filters are over those types.

`PROJECT.json` lists the theorems and the checked property each of them states.

Only model-checked: `RequestsAnswered`, `PlanningEnds` and `RunsEnd`, because liveness under fairness
needs `ENABLED`.

## Not modelled

* Raw pointers, `Send` and `Sync` claims and uninitialised memory: the subject of the repository's
  Miri and ThreadSanitizer runs (`tools/`). What they rest on is modelled: that no two references
  overlap of which one is exclusive (`SystemParams`), that members of a cohort touch disjoint data
  and that structure is frozen while they run (`ParallelExecutor`).
* Diagnostic names, inspection, reflection, derive macros: no effect on a run.
* World scopes of handles and cursors: one of another world is refused by comparing scopes before
  anything else is read. The scope of a query state is modelled (`home` in `DirectQueries`).
* Commands recorded through a handle that outlived its system: `assert_active` panics, and safe code
  has no such handle.
* The graph library that holds relation edges is external; a store is the set of its edges.
* The build without pointer-sized atomics, whose escrows are mutexes: the same protocol in which a
  load returns the current value only.

## Plan

1. Done: capacity, planning, registration, executors, allocator and cursor, world, relations, mutation
   journal and resources, commands, access and parameters, query states; every safety property and
   refinement of these proved.
2. Next: type-erased rows of the archetype storage, and the world scope of handles in the allocator,
   with what they add to `WorldProofs` and `EntityAllocatorProofs`.
3. Then: schedule inspection as a function of registrations and plan.
