# Verification of the Potato engine (grimm)

TLA+ models of the parts of this repository whose correctness depends on
interleavings, crashes or long sequences of calls, the TLC runs that check
them, and proofs, checked by TLAPS, of what they promise for every size. Paths
below are under `src/potato/` unless they start with another directory. A
module's header comment says what it abstracts from its code; `PROJECT.json`
maps every definition to the lines it stands for and lists the hazards the
properties are for.

Contents: [the system](#the-system), [the modules](#the-modules),
[runs](#runs), [proofs](#proofs), [findings](#findings),
[observations](#observations), [limits](#limits), [the plan](#the-plan).

## The system

The repository is a game engine with an editor. The editor (`bin_editor`) and
the importer (`bin_recon`) are two processes: the editor starts the importer as
a server on two pipes, the importer watches the resources folder, turns source
files into outputs in a content-addressed cache, records what it did in a
SQLite database, and rewrites a manifest that the editor's asset loader reads.

    editor  --ReconImport, ReconImportAll-->  importer  --SQL-->  database
            <--ReconManifest, ReconLog-----      |  |
       |                                         |  +--> .meta files, cache
       +--manifest, cache files--<---------------+
                                      watch events <-- the user's source tree

| component | state it keeps | operations and callers | what is hard | what makes it correct |
|---|---|---|---|---|
| Lock-free queue (`libruntime/.../lock_free_queue.h`) | two ticket counters, a sequence word and a cell per slot | `tryEnque`, `tryDeque` of any threads | every atomic access interleaves; words wrap | a cell belongs to one thread at a time; a bounded FIFO; honest refusals; no retry without somebody else's progress |
| Concurrent queue and workers (`concurrent_queue.h`, `task_worker.*`) | ring, mutex, condition variable, `closed` | `enqueWait`, `tryDeque`, `dequeWait`, `close`, join, destruction | notify after unlock, sleepers, shutdown with work left | no task lost or run twice, no lost wake-up, shutdown ends |
| Reader-writer lock (`rwlock.h`) | one word | `lock`, `tryLock`, `unlock` of two sides; Logger is the user | one word for two roles, wrap of the count | a writer is alone; the count is exact |
| IO loop (`io_loop.cpp`) | libuv handles in states with callbacks | create, signal, read, write, watch, spawn, move, reset | a handle's memory may go only in a later callback; objects reset inside their own callbacks | a state is deleted once, and not while anybody has it |
| Owning pointers, strings, delegates (`spud/rc.h`, `box.h`, `string.h`, `delegate.h`, `com_ptr.h`) | a pointer, for some a count | construct, copy, move, swap, reset | the order in which an assignment lets go and fetches | freed exactly when nobody holds it; nothing is used once it is freed |
| Vector (`vector.h`, `memory_util.h`) | a buffer of raw and live cells | insert, erase, resize, move, ... | elements moved into raw memory and over each other | no cell constructed over, destroyed twice or read raw |
| Paths (`path.cpp`) | none | `normalize`, `join`, `parent`, ... | five states that hold characters back | agrees with a reading by parts |
| File hash cache (`file_hash_cache.cpp`) | records by path, the `hash_cache` table | `hashAssetAtPath`, `open` | the file changes between stat, open and read | a record never vouches for other content |
| Asset database (`asset_database.cpp`) | tables of assets, outputs and dependencies | one method per statement, called by the importer | crash between statements | the rows tell the truth |
| Asset importer server (`recon_app.cpp`, `recon_queue.h`) | the command queue, the manifest flag | watch callbacks, messages, the hook before each poll | edits during an import, crashes, notifications for things that are gone | nothing stale counts as up to date; every change it can know of is noticed; dependents are rebuilt; the manifest follows |
| Importers (`importers/*`, `importer_context.cpp`, `meta_file.cpp`) | none | `import` of one file | dependencies found while reading | outputs depend on what is recorded only |
| Recon protocol and client (`librecon/source`) | receive buffer and decoder state | `send`, `receive`, start and stop | a stream that splits and joins messages, restart | every message is handled once, in order |
| Asset loader and manifest (`asset_loader.cpp`, `asset.h`, `resource_manifest.cpp`) | loaded assets, reference counts, manifest | `loadAssetSync`, `bindManifest`, `collectDoomedAssets` | loads inside loads; a count that falls to zero while the asset is looked up | no asset in use is deleted |
| Hash map and set (`spud/.../_hash_table.h`, `hash_map.h`) | control bytes and items in groups | `insert`, `erase`, `find`, `clear`, move; used everywhere | tombstones, probe chains, growth | a dictionary; searches end |
| Entities and components, spaces, physics (`libgame`) | entities, per component type a storage with free list, map and observers; bodies | create, destroy, add, remove, enumerate, start, update, stop | observers that call back in | each component has its own slot; one body per rigid body |
| Scene document and editors (`scene_doc.cpp`, `scene_editor.cpp`, `game_editor.cpp`) | a tree in a vector, a preview space, a game space | create, delete, add and remove components, save, load, play | indices into a vector that shrinks; syncs one call at a time | the preview shows the document; a game starts with its entities and components |
| Editor shell, workspace, commands (`shell_app.cpp`, `workspace.cpp`, `command.cpp`) | project, editors, scope stack, flags | events, menus, hot keys, palette | things asked for in one frame and done in another | no document twice; editors belong to the open project |
| Asset browser, menu, property grid, reflection (`asset_editor.cpp`, `menu.cpp`, `property_grid.cpp`, `serialize.cpp`) | a tree of entries, a tree of items, an edited object | rebuild, navigate; add commands; edit rows, save, load | orders nobody chose; rows that edit the array they are drawn from | the tree is that of the manifest; menus sorted; what is saved is read back |
| Rendering (`librender`, the views) | back buffer, render textures, command list, debug lines | frames of views and shell | a texture handed over early in a frame and drawn late in it | an image is of the view's present texture; pictures are complete |
| Logger (`logger.cpp`, `log_history.cpp`) | a chain of sinks under a lock | `attach`, `detach`, `log` | re-entrant sinks, detach from the middle | a detached sink is not called again |
| Audio, generators, files, streams, debugging, other widgets and containers | handles, buffers | calls of drivers and of the system, pure conversions | none of the kinds modelled here | |

## The modules

A component's module has its state as variables, an action per operation and
its properties; a `...Proofs` module holds theorems about it; a `MC...` module
gives the constants TLC needs and puts together parts that share a run.

### The runtime library

**LockFreeQueue** takes a step per atomic access: `BeginEnque` loads the
counter, `LoadForEnque` the slot's sequence, then one of `ClaimEnque` (the
compare-exchange succeeds), `RetryEnque` (it fails, or the slot is ahead) and
`RefuseEnque` (full); `WriteItem` constructs, `Publish` stores the sequence. The
consumers' side is the same. Variables hold the whole tickets; the code's words
are their residues, compared as words (`Difference`, `SameWord`), so that wrap
is in the model and the invariants can speak of order. **ModularArithmetic** has
the facts about `%` that this needs.

**ConcurrentQueue** has one step per critical section; `Notify` is a step of its
own, after the unlock, as are sleeping, waking (also spuriously) and running
the task. The owner closes at any time, joins the workers and destroys the
queue, the order of `test_task_worker.cpp:21-23`.

**BoundedFifo** is what a queue promises: values in the order of insertion, at
most `Capacity`, each handed out once. Both queues are shown to implement it.

**RWLock** has one step per load or compare-exchange. `LockSpec` lets every
client call everything, `CarefulLockSpec` calls `lock()` only on a lock at rest,
as its loop is inverted (see [findings](#findings)).

**IOLoop** models the objects of an event loop: each is a pointer to a state
that embeds a libuv handle. libuv is external and modelled by its contract: a
handle's memory may go only in its close callback, an iteration later. The
program creates, moves, overwrites and resets objects at any time, inside every
callback too.

**Ownership** takes the constructors, assignments, swaps and resets of five
owning classes in the order of their statements, with threads that share counted
objects: what a thread's call lets go of, innermost object first (`letting`), and
the assignment that the call ends with (`then`), whose right-hand side may be the
holder itself or lie inside the object that is let go. An assignment that finds
its source freed is noted (`ruined`) and ends the behaviour. **Vector** has one action per
operation on cells that are raw or hold an element; a loop over elements is what
it leaves in the cells, and one that meets a cell not in the state for it is
recorded as unsound. **Paths** translates each function on paths, a character at
a time, and compares `normalize` with what `path.h:55-60` says of it (`Resolution`),
where the code does that; where it does not, `PathsRight` states what it does
instead.

**HashTable** is `hash_map` at the level of groups and control bytes. A call is
one step except growth, which moves the items one by one (`Grow`, `MoveNext`,
`GrowDone`). **Dictionary** is its abstract specification: a growing insertion
takes effect when it starts. `hash_set` is the same code without values.

**AssetLoader** with **ResourceManifest**: handles and their counts, a stack of
loads inside loads (`LoadPart`, `Make`, `LeaveLoad`, `Return`), the collection at
the end of a frame asset by asset and handle by handle, a manifest replaced
between them, and what the parser takes from a text cut anywhere. A material whose
second shader is missing ends the program, as in the code (`DieOfMissingPart`).

### The importer

**FileHashCache**: `hashAssetAtPath` as the code has it: `HashMissing`,
`HashHit` or `HashMiss` after the stat, `OpenStream`, `StreamHash`, `StoreHash`,
with `Write`, `Remove` between any two. `Reopen` is a restart.

**AssetDatabase** has the three tables and an operator per statement;
**ReconApp** extends it with the event loop. `pc` says where the thread is:
starting (enumeration, before the watch exists), in the poll, running the queue,
or at one of the points of an import (`begin`, `build`, `store`, `record`)
between which the process may die (`Crash`; the database, the .meta files, the
cache and the manifest survive, queue and watch do not). The user edits,
replaces, creates and deletes files and folders and deletes .meta files. The
importer is the one the editor starts: with `-path` (`recon_client.cpp:19`) and in
the editor's working directory (`io_loop.cpp:247`), so that the stat of a
notification (`recon_app.cpp:139`) fails for every file and a Rename always makes
it forget the file. An importer started by hand in the resources folder is not
modelled. A write of the manifest may fail (`:553`), after which the mark that it
is due is gone all the same (`:172-173`). Two history variables name what the
server cannot know of: `unnoticed`, the paths created or replaced since it
started and what was deleted while it was starting, until it has them in the
database again, and `unwritten`, that the last write of the manifest failed.
The hash of a file is its content, which is what FileHashCache's theorems allow; a
build is a pair of the source's content and what it read. What the code relies
on and cannot enforce are the members of `Assumed` ("quiet", "metas", "storage",
"between"), which a configuration drops one by one.

**ReconProtocol** decodes a byte stream cut anywhere; **ReconLink** composes it
with the editor's side: an importer started per project, killed at any byte of a
message or of the manifest, and a decoder that outlives it.

### The game and the editor

**ComponentStorage** has the slots, free list and map of one component type;
**Space** is the entity manager over several storages with the physics system,
whose observer creates and removes bodies in the middle of add and remove.
**EntityRelation** is its abstract specification: a relation between entities
and component types.

**SceneDocument** is the tree in a vector and its JSON form, a file of objects in
the order of their text; **SceneEditor** composes it with a preview space that
follows the document, and a Space that is started as a game from it. The loops
that sync take a step per call on a space, `_toJson` one per call and return
(its recursion is the variable `frames`), `_fromJson` one per object. An entity may
have any number of components of one type, and any entity may be deleted. Erasing
elements of the vector leaves the indices of the others as they were
(`scene_doc.cpp:73`); the history variable `strayed` says that one of them is stale.
From then until the scene is opened again a new child, a deletion and a save, which
follow indices and may leave the vector or not return, are not followed; edits,
components, the preview and games, which go by ids or through the vector, are.
`twice` has the entities that have had two transforms: both are synced to the one
transform of the preview's entity, the last to be edited shows, and removing one
does not sync the other. A game's rigid bodies are default ones, as
`BodyEditComponent::createFrom` drops the mass (`edit_components.cpp:82-84`).

**Commands** and **Workspace** are operators: scopes and handlers; editors from
opening to removal. **Shell** is the main loop over them, which acts on flags
from one frame in another. **AssetBrowser** rebuilds the tree of a manifest and
navigates it. **Menu** sorts commands into menus as they are added. **Reflex**
has schemas, encoding and decoding, and **PropertyGrid** edits objects of any
schema row by row, saves and loads them. **Rendering** follows a frame from the
views through their textures to the back buffer, with the Direct3D 11 back end's
list of commands.

Operators named `X_Fault...` are plausible bugs that can be put in the place of
`X` to see that a property notices them. No specification uses them.

## Runs

| run | configuration | shows |
|---|---|---|
| `runtime` | ring: 2 producers, 2 consumers, 2 slots, words of 3 bits; 6 objects of the five classes of the loop, 3 states; 3 pointers of 2 threads; paths of up to 6 characters | a slot has one thread (`SlotExclusive`); the ring is a FIFO (`ImplementsFifo`) and refuses only when full or empty (`HonestRefusal`); states are freed once and in time (`StatesOwned`); what is owned lives as long as its owners, and no assignment uses freed memory but for the two that do (`OwnedRight`); paths agree with the header and a reading by parts, where they do (`PathsRight`) |
| `queues` | queue: 2 producers with 2 tasks, 2 workers, a poller, 2 cells; ring: three threads, tickets that wrap after 6 | workers drain the queue, no wake-up is lost, a FIFO; under fairness every task runs, closed or not, and a shutdown that has begun ends (`WorkersDrain`, `NoLostWakeup`, `ImplementsFifo`, `EveryTaskRuns`, `ShutsDown`); a call of the ring goes round again only if another has taken its ticket (`RetriesLose`) |
| `library` | lock: 4 clients, a word of 2 bits (the count saturates); cache: 2 files, versions of equal time or size; table: 5 keys of which 3 collide, groups of 2, up to 4 groups; vector: up to 4 elements, of bytes or with constructors | `Exclusion`, `CountExact`, `RecordsHonest`, `AnswerCorrect`, `FindRight`, `ImplementsDictionary`, `VectorRight` |
| `recon` | a folder, an include in it, a shader outside; 2 changes, a message and a crash; files without .meta, outputs that fail to reach the cache, a manifest that cannot be written | imported rows are honest (`DatabaseHonest`), "up-to-date" is right (`SkipsAreSound`), dependents are rebuilt (`Built`) |
| `recon_busy` | the same without messages, edits also during an import, a file no importer takes, every file with its .meta | every change noticed and no row of a path that is gone, but for `unnoticed` (`Tracked`); manifest current unless its write failed (`ManifestCurrent`); .meta files kept (`ForgetsOnlyDeleted`); the server comes to rest (`SettlesAgain`) |
| `scene` | documents of up to 3 entities, at most 4 with their components, 5 calls on a game of 3 entities and 3 bodies, two less for each entity it began with | links are trees until a deletion leaves a stale index and files are read back (`DocumentKept`), the preview shows the document (`PreviewCurrent`), storages and bodies agree (`SlotsPartitioned`, `BodiesMatch`), a relation (`ImplementsRelation`), a game starts with the document's entities and components (`PlayFaithful`) |
| `editor` | link: 2 projects, 2 starts, logs of 5 symbols; shell: 2 projects, 4 editors; loader: a material with two shaders and a texture, 5 objects; browser: 4 records; menu: 6 commands; grid: 6 schemas; rendering: 2 sizes, 3 screens | `LinkRight`, `DocumentsRight`, `HandlesLive`, `BrowserRight`, `MenuOrdered`, `GridRight`, `PicturesRight`, `ScreenRight` |
| `rwlock_lock`, `recon_between`, `hash_table_search`, `vector_insert`, `paths_normalize` | one component, one property | [findings](#findings) |

**Runs of several components.** `runtime`, `queues`, `library` and `editor`
explore parts that share no variable. The variable `subject` says which one a
behaviour is about; only that part takes steps and the others keep an initial
state. A property of one part is true of the others' initial states, so the run
is the union of one run per part, and nothing is shown about combinations,
because there are none in the code. `SYMMETRY` covers constants that are only
compared (values, threads of one kind, contents, projects, keys with equal hashes); the
runs with liveness have none. Two runs have a `VIEW`. In `recon` it leaves out the
manifest, which no step reads and no property of that run mentions. In `scene` it
keeps of the preview's storages what they have for the entities of the document, as
nothing else of them is read by a step or a property again: an entity's preview id is
never given back, and a new one is always the next number.

**Bounds.** Two threads of each kind and two slots give every pair of
overlapping calls on one slot, and a third lap every reuse; the proofs carry the
results to any number. `MaxLag` is not only a bound: 32-bit tickets order
correctly only while no thread sleeps through about 2^31 of them, and the code
relies on it. `MaxTicket`, `Tasks`, `MaxCalls`, `MaxStates`, `MaxWrites`,
`MaxCells`, `MaxObjects`, `MaxScreens`, `MaxSaid`, `MaxStarts`, `MaxVersion` and
`MaxHistory` end counters that the code lets grow; `MaxTicket` is below `Word` in
`runtime`, so that tickets wrap in `queues` and in the proofs only. In `recon*`,
`MaxChanges`, `MaxRequests`, `MaxCrashes` and `MaxTogether` bound what the world does,
never what the server does; three disturbances suffice for an edit during the
re-import that follows a crash. A file without .meta takes a new uuid with each
import, so `recon` ends where the five `Uuids` are used up (`Exhausted`). The tree has one of each thing the code tells
apart: a folder, a file in it, a file outside it that includes that file. The
hash table is the smallest in which a key is pushed out of its group, and a
growth meets a full group. The six schemas of the grid hold every primitive that
has an editor, arrays of scalars, structures and pointers, hidden, renamed and
flattened fields. Six characters are enough for a path with two parts, a dotted
one, and both separators doubled.

**Fairness.** `queues`: weak fairness of each thread's steps, what a scheduler
that runs every thread gives; the queues contain no lock whose starvation would
need more. Fairness asks each producer to go on to its next task, as the test's
loop does. Spurious wake-ups and the owner's `Close` are not fair: a queue may stay
open for ever, and every accepted task must run all the same, without the
`notify_all` of a close. Once the owner has closed it is fair (`Shutdown`: the joins
and the destructor). The lock-free ring has no fairness, as it needs none for what
is claimed: a call that loses every compare-exchange need not return, but each loss
is another call's progress (`RetriesLose`). In `recon_busy` the one thread of a server that
runs is weakly fair (libuv returns from the poll when an event is due,
`recon_app.cpp:155-187`). The user, death and `Start` are not: only
`ShellApp::_loadProject` starts an importer (`shell_app.cpp:445`), so one that died
may stay dead, and `SettlesAgain` asks nothing of it then.

**Deadlock** is checked in `runtime`, `queues`, `library` and `editor`. What
stops there says so with a step of its own: a destroyed queue, a program that
has been quit, a hash table that may not grow any more. `recon`, `recon_busy`
and `scene` switch it off: they stop when the world's bounds are used up.

## Proofs

For every value of the constants that satisfies the named assumptions. 34 of the
40 properties of the passing runs are theorems; the table names them all, with
the theorems they rest on.

| module | theorems | argument |
|---|---|---|
| LockFreeQueueProofs | `TypeCorrect`, `Invariance`, `SlotExclusion`, `CellSafety`, `RingIsFifo`, `RefusalsHonest`, `LockFreedom` | see below |
| ConcurrentQueueProofs | `TypeCorrect`, `WakeupsKept`, `WorkersDrainFirst`, `QueueIsFifo` | `IInv` adds what a producer that has yet to notify still counts; `Full` compares unsigned words, and `FullMeansFull` says it means what it should |
| LibraryProofs (lock) | `CarefulExclusion`, `CarefulCounting` | the word equals the cardinality of the readers or is ~0U with one writer; readers pending between load and exchange may hold any old value, as the exchange compares |
| LibraryProofs (cache) | `Honesty`, `Correctness` | every record has the stamp of a version the file has had, and that version's hash if it is the present one; the stat of the call in progress is such a stamp too |
| LibraryProofs (table) | `TableTypeCorrect`, `SearchesRight`, `SizeCounts`, `TableIsDictionary` | an item's probes come to its group before any group with an empty slot (`WithinReach`), and no key is in two slots (`OneSlot`); only a fresh table undoes the first, and it is empty |
| LibraryProofs (vector) | `VectorStaysRight` | see below |
| ReconAppProofs | `TypeCorrect`, `Identity`, `Honesty`, `SkipsSound`, `ManifestFollows`, `ForgetsDeleted`, `EverythingTracked`, `EverythingBuilt` | see below |
| RuntimeProofs (loop) | `StatesAreOwned` | each state by itself is on one stage of its way out (`Sound`), objects hold distinct states that are on no way out (`Owning`), and the running handler's handle is still libuv's (`Handling`) |
| RuntimeProofs (ownership) | `ObjectsAreOwned` | see below |
| SpaceProofs | `TypeCorrect`, `Partitioned`, `Living`, `Bodied`, `Selected`, `Implements` | the storage operations are shown one by one to keep `Sound`, and the observer to keep bodies and rigid bodies in step in the middle of them; each call is then a step of EntityRelation |
| SpaceProofs (scene editor) | `EditorInvariant`, `DocumentIsKept`, `PreviewStaysCurrent`, `PlayIsFaithful`, `GamePartitioned`, `GameBodied`, `GamesImplement` | see below |
| EditorProofs (loader) | `LoaderStaysConsistent`, `HandlesStayLive` | see below |
| EditorProofs (rendering) | `PicturesStayRight` | see below |
| EditorProofs (menu) | `MenuStaysOrdered` | see below |
| EditorProofs (browser) | `BrowserStaysRight` | see below |
| EditorProofs | `DocumentsStayRight`, `ScreenStaysRight` | the operations of the workspace keep the editors' order and their documents; the flags say what the end of the frame still has to close; a view's image is made in the visit that may replace its texture, so an image in this frame's list is of a texture that is still there |
| ModularArithmetic | lemmas | division with remainder |

**The ring.** `SlotExclusive` is not inductive: it says nothing of a thread
about to claim. `IInv` says of every slot that it waits for a ticket of the
current lap or holds one not yet released (`SlotPhase`), that its cell is dead or
live accordingly (`CellPhase`), and of every thread what its stale copy of the
counter still implies (`ProducerInv`, `ConsumerInv`): at most `MaxLag` behind,
and a zero difference read once stays true until somebody claims the ticket,
which the compare-exchange would notice. That words compare like tickets inside
half a word is `DifferenceExact`. For `RingIsFifo` the abstract queue is the
items of the claimed tickets, those still being written included: `ClaimEnque`
and `ClaimDeque` map to steps of BoundedFifo and everything else to stutters.
`RefusalsHonest` adds that a slot that is neither dead nor live is in some
thread's hands (`SlotsOwned`), so that a call alone meets none. `LockFreedom` says of
every thread on its way to a retry that its ticket has been taken. The theorems
assume `Capacity > 1`; with one slot they are false.

**Ownership.** `OwnedRight` compares counts with owners only when no call is
under way. In between, `Account` says for every object that its count is the
number of its claims: the holders that are not being assigned, the objects that
own it and have not come to the end of their destructor, the threads that are
yet to count it down, and those that will put it into a holder. A string's, box's
or delegate's object has one claim, and an object that is being deleted has none,
so nobody lets it go again; `KillInv` says that it is one step of one thread
that deletes it. A claim is what keeps an object from being deleted (`HeldLives`,
`ClaimedLives`), and each step moves claims about: assigning trades a holder for
a thread that counts down, a destructor trades a member for the same. The one
step where the count lags is a copy, which reads the pointer before it counts it
up; there `ThenInv` has another holder of the same thread that points to the
object, which is why a thread may only copy from holders of its own
(`RunnerAssumption`: every holder has one thread).
A string's copy to itself and a counted pointer assigned out of the object it lets
go have no such claim, and `RuinInv` says that they are the only assignments
that meet memory that has been freed (`Careless`).

**The vector.** `VectorStaysRight` is about elements of kind "number" or
"object" and a vector into which no range is inserted before the end with room for
it: with plain structs, or with such a range, the property fails (see Findings).
What holds between the calls is that the vector holds its contents and nothing
else (`Holds`). In the middle of a call cells are moved from, raw or elements, and
what each loop needs and leaves is stated once: `Destroying`, `Constructing`, and
for copies and moves to raw memory (`Transferring`) or over elements (`Moving`)
one relation, `Shifted`. A buffer that grows is treated as one row of cells with
the new one behind it, until the old one is freed (`Relocating`), where all that
is left in it must have been destroyed. Each operation is then shown to hold the
sequence that it should, cell by cell.

**The asset loader.** `HandlesLive` compares counts with holders in every state,
also in the middle of a load or a collection, so the handles of the running loads
count: those they keep for the asset, those they use to make it, and the one to
what they have made. `Account` states this per asset with the five sets of places
a handle may be in; a step moves, adds or takes away one place, but for `Make`,
which moves a row of handles at once (`RowMoved`). That a doomed asset has no
handle then follows (`NoneBooked`), so deleting it breaks none. What a load returns
is listed only then: that it is not in memory twice needs that no load around it
or inside it is of the same asset (`StackInv`), which ranks that fall from each
load to the one inside it give, and that what is being loaded is not yet found
(`UniqueInv`). `LoaderAssumption` says that assets do not load each other in a
circle, in which case the code would not come back.

**The scene editor.** `EditorInv` has four parts besides the space's own
invariant.

- `DocInv`: the links are trees exactly while none is stale, ids are distinct and
  below the next, and an entity that has not had two transforms has at most one. In
  a tree as `TreeOK` states it a parent comes before its children and each leads
  to the *least* of those after it, so that an entity added at the end changes
  one link of the others (`GrownTree`: createEntity and fromJson alike). Of a
  deletion, `DeletedDocument` says that those left keep their order, ids and
  components, and `DeletedLinks` that what is left is trees if and only if no index
  strays: links are only ever to what comes later or, to a parent, earlier, so an
  index in front of the one deleted stays right, and one behind it must change, as
  the entity itself is gone or those behind it move up.
- `PreviewInv`: a transform that is not new is in the preview, with its value
  unless an edit waits or the entity has had two; entities of the preview are not
  shared, and ids it has yet to give are nobody's. With `Settled` (nothing waits
  when the user's turn comes) this is `PreviewCurrent`.
- `SaveInv`: while toJson runs, the calls that are running are a path in the tree
  (`Stack`), the objects written are those of the path and everything before it
  (`Walk`); `WalkDown` and `WalkUp` keep it over a call and a return, and when the
  last call returns nothing of the tree is left (`WalkDone`). While fromJson runs
  the entities are the first objects of the file (`Reading`).
- `GameInv`: while the game is made, its space has the entities and the types of
  the components up to the one at hand and no others (`Copied`), each transform with
  the value of the last that was handed on and each body the default one (`Handed`);
  start leaves them alone.

The files of `SaveInv` are those of a document without a stale index, which is
what a save follows. What keeps play faithful is that a game's entity ids count
from 1 with the vector's indices.

**Pictures.** `PicturesRight` is about lists of commands that two nested loops
record, over the meshes and over the chunks of the debug vertices. What each call
leaves in the list is a lemma (`DrawListed`, `MeshListed`, ...), what it leaves
after n turns of a loop follows from the least n for which it does not
(`SpaceDrawn`, `LinesDrawn`), and `ChunksOf` says that the chunks are the row of
vertices, each in one of them. `PassPictured` puts a pass together. That these
vertices are those of the view's own grid is what `PictureInv` is for: the list
is empty when a view is rendered, because it is emptied when time has passed,
which it has, because the clock starts in the first frame and no view is there
before its end (`ClockRuns`), and because game views, which do not empty it, add
nothing to it (`Gridless`).

**The menu.** The items are a tree (`MenuTree`): each but the root is in a menu
that is there, no two have one path and id, and every item has a chain of children,
linked in their order (`ChainOf`). The walk along the links finds that chain, as it
has no item twice and so ends within the number of items (`ChildItemsLinked`).
An item put in its place among its parent's children leaves the chains of all the
others alone (`OtherChain`) and has none itself (`ItemAdded`). What the items are
after so many menus on the way to a path, and after so many commands, follows from
the least number for which it is not so (`MenusCreated`, `MenuBuilt`). The menu's
version says whether it was built from the commands there are (`MenuInv`).

**The asset browser.** Here the links are to the entries' parents too, and what is
kept is that each entry but the root is under the folder that its path is in, that
no two have one path and kind, and that the children of each are a chain with its
folders before its files (`EntryTree`). So the walk over the folders a chain begins
with sees all of them (`FoldersOf`): a folder it does not find is not there, and a
new one goes where the files begin (`FolderFound`). Each record then adds the
folders on the way to it and, if it is a file, itself, and nothing else
(`RecordAdded`); that no file comes twice is because no two records are alike, an
output being left out. The order of the records plays no part in what the entries
are (`EntriesBuilt`).

**The importer.** `Honesty` and `SkipsSound` assume "quiet" and "between" of
`Assumed`. `DatabaseHonest` is not inductive: whether an import that is recorded
is honest depends on its row still being that of the file it was built from,
which `JobInv` says from the check of a file to the end of its import, while
`MetaInv` (theorem `Identity`) keeps two files from sharing a row. `Tracked` and
`Built` speak of the server at rest. What holds all along is that what is not
yet so is in one of the two lines, the events the loop has yet to deliver or the
commands it has yet to run, or is `unnoticed`:

- `NoticedInv`: a file whose row does not have its present content is in a line;
- `MissedInv`: a row whose file is gone, or a folder above it, is in a line to be
  forgotten;
- `DepsInv`: if a build has read a content that an included file has no longer,
  the included file or the asset itself is in a line.

With empty lines nothing is left. The delicate steps are those that take from a
line. A Forget of a folder takes the rows under it but, where files have no .meta,
only one of several rows with one path (the others have no file's identity and do
not count, `Mine`); a check of a file puts the assets it dirties in line in the same
step; a start puts everything in line again that is there, and takes it out of
`unnoticed` unless rows of another identity have its path. `ForgetInv` and `TreeInv`
say that a Forget in line, and a Rename that will become one, is of something gone
or of an `unnoticed` file, and that what is there has its folders. From them alone
`ForgetsDeleted` follows, with nothing assumed. `ManifestFollows` needs no
assumption either: `ManifestInv` has the mark set before a table changes, and
`unwritten` speaks for the write that failed. `EverythingTracked` assumes "metas"
and that the files have their .meta from the start; `EverythingBuilt` assumes
"quiet" and "between" and that every included file has an importer, but no .meta
files. Each of the assumptions is named in ReconApp with the code that needs it;
without it the property fails.

**Assumptions.** `Honesty` of the cache rests on the guard of `Write`: no file
returns to a stamp it had before. The assumptions on constants are types,
distinctness of null values, finiteness of `Uuids`, `Paths`, `Clients` and `Meshes`
(what is turned into a sequence or counted), that words are even and divided by
the capacity, that a load is below a group's width, that the enumeration of
ReconApp names every path, that no two .meta files have one uuid at first, and that
no asset loads itself by way of others.

**Induction.** The provers cannot instantiate the library's induction theorems,
which take an operator. Where a loop of the model goes through numbers
(the visits of editors in a frame, the probes of a table) the proofs take the
least number of a set instead (`LeastNumber` in EditorProofs, `LeastOf` in SpaceProofs). Folders above a
path are the least set closed under `Parent` (`Above`), from which transitivity
follows without induction; the enumeration of the tree is stated as the
increasing functions into the listed indices (`InOrder`), as the provers do not
see into `SelectSeq`.

**Only model-checked:**

- liveness under fairness: `EveryTaskRuns`, `ShutsDown`, `SettlesAgain`;
- what rests on RECURSIVE operators, which the provers do not reach: `LinkRight`
  (the decoder), `GridRight`;
- what the folds over a path's characters compute: `PathsRight`;
- that a search ends, for tables with an empty slot: that triangular steps visit
  every group of a table of any power of two takes an induction over data. The
  theorems about HashTable say that a search that ends is right.

## Findings

Runs that show the code doing other than it says:

1. **`RWLock::Reader::lock`** (`rwlock.h:48`) goes on *while* its compare-exchange
   succeeds and returns when one fails. In the run a reader loads 0, a writer takes
   the word by `tryLock`, and the reader's exchange of 0 for 1 fails: `lock()`
   returns and the reader is inside with the writer, which
   `test_rwlock.cpp:14-16` says is kept out (`rwlock_lock`). `Writer::lock` (`:61`)
   has the same inverted condition. Logger's chain of sinks is not protected by it.
2. **Death between `updateSourceAsset` and `beginAssetImport`**
   (`recon_app.cpp:329`, `:386`) leaves IMPORTED beside a hash that was never
   built; the next start finds it up to date (`recon_between`).
3. **A hash table without empty slots** (`_hash_table.h:157`): tombstones are
   not counted in the load, and a search for an absent key then never ends
   (`hash_table_search`). With the code's numbers: fill one group with 16 keys,
   erase 4, fill the other group with 16 keys; 28 items are the load of two
   groups, and no slot is empty.
4. **`move_backwards_n` on plain structs** (`memory_util.h:125`) copies from
   `first - count`: an insertion before the end with room to spare reads in front
   of the buffer (`vector_insert`).
5. **`normalize` of names with a leading dot** (`path.cpp:224`) writes the dot
   without its separator: `/x/.x` becomes `/x.x` (`paths_normalize`).


## Observations

What came up while the code was read for the models and no run is there to show.
Where a model covers the code it has it as it is, or names the assumption that
excludes it. The one doc comment that says otherwise is `path.h:55-60`, see Paths.

**Importer.**
- Started by the editor, with `-path` and in the editor's working directory, the
  importer looks for the file of a notification where it is not
  (`recon_app.cpp:139`): every Rename makes it forget the file and remove its .meta
  file, also where a file was created or replaced (`unnoticed`).
- A manifest that could not be written is not written again before another asset
  changes (`:172-173`, `:553-556`): `unwritten`.
- An importer that died is not started again before a project is loaded.
- `metaDirty` is never set (`:307-316`), so a file without .meta gets a new uuid
  with each import: assumption "metas", and why a folder's Forget may leave rows.
- The first ReconManifest message may be sent before there is a manifest
  (`:179`). The uuid of ReconImport is not used, and the `force` of ReconImportAll
  is dropped (`:160-167`). `:239` keeps a view of a temporary string.
- An asset that includes a deleted file keeps its outputs.
- `FileHashCache::open` reads the saved rows and drops them
  (`file_hash_cache.cpp:91-96`).
- An importer killed while it writes the manifest leaves a torn one until the next
  change (`recon_app.cpp:553`).

**Runtime.**
- `LockFreeQueue` with one slot cannot tell full from empty
  (`lock_free_queue.h:23`). `enqueWait` on a closed full queue spins
  (`concurrent_queue.h:152`).
- A stream's read of size 0 is taken for a disconnect (`io_loop.cpp`); it happens
  when the previous read ended exactly at 64 KiB. A process's state leaks, as
  its handle's `data` is never set; a failed spawn is later terminated; a write
  on a stream that is not connected leaks its request. A callback that replaces
  itself would destroy the delegate that is running.
- The assignments of `rc` and `com_ptr` let go of the old object before they read
  the right-hand side, which may lie inside it (`rc.h:118-120`); `string`'s copy to
  itself frees its characters and then reads them (`spud/string.h:61-66`). Ownership
  takes both, and `OwnedRight` excepts exactly these (`Careless`). `box::reset(get())` deletes and keeps; a delegate never
  destroys what it holds (`delegate.h:110`).
- `vector`: inserting a range before the end with spare room counts it twice; a
  growing `emplace` returns an iterator to one past it (`vector.h:374`).
- Paths: `path.h:55-60` says that the empty path becomes `/`, that a leading slash is
  added, that a double dot removes the prior item and that the result is normal. The
  code leaves the empty path empty, gives a relative path no slash, turns
  `foo/../bar` into `foo/bar`, and calls `/` not normalised. The repository's tests
  ask for what the code does. `PathsRight` holds the code to the header elsewhere
  and names these four. `isParentOf("/", ...)` is always false.
- Logger: `detach` removes the sink attached last only.

**Game and editor.**
- `deleteEntity` of an entity that others come after leaves stale indices
  (`scene_doc.cpp:73`), unless none is left that points behind it; `toJson` saves the tree of entity 0 and reads it in an
  empty document. Preview objects of what was deleted stay; a Mesh that is added
  again shows the old mesh; of two transforms of an entity the preview shows the one
  edited last and a game the last in the list. A game's bodies have no mass of the
  document's (`edit_components.cpp:82-84`). The factory of GameEditor passes a null space
  (`game_editor.cpp:40`). Bodies leak after `Space::stop`.
- `ReconClient::stop` keeps the decoder's buffer and state
  (`recon_client.cpp:46`). A manifest that cannot be read leaves the previous
  project's in place; one that cannot be parsed is bound all the same. Each load
  of a project registers one more handler. An import or edit without a project
  dereferences null. A document opened while its editor closes is not opened.
  Ctrl+W never finds its handler (`workspace.cpp:26`).
- The assertion in `asset.h:82` checks a parameter that was moved from; assets
  loaded by a logical name are never shared; a loaded asset stays as it was when
  its source is imported again; `removeRef` decrements inside an assertion. A
  material looks at its vertex shader twice and at its pixel shader never
  (`material.cpp:78-84`): without it the program goes on to a null pointer and dies
  (`DieOfMissingPart`).
- Browser: positions of the history are stale after a rebuild; a reference into
  the entries is used after they grow (`asset_editor.cpp:552`, `:583`).
- Menu: unknown menus have priority 0 and known ones 1000; a command whose text
  is a menu's path is taken for the menu.
- Grid: adding an item to an array is not reported as an edit; an item may be
  dropped on another array's row; no pointer is instantiated when a value is
  read; the material editor drops members it does not know when it saves.
- Rendering: `beginFrame` runs once per view and once per frame of the shell, so a
  debug line that should linger 0 seconds survives one flush; the results of
  `ResizeBuffers` and `Present` are not looked at.

## Limits

- **Memory order.** Atomic accesses are steps of one order of all threads; that
  the code's acquire and release suffice is not shown. A compare-exchange does
  not fail spuriously, which would be a retry.
- **Data.** Hashes of contents are injective; only HashTable has colliding ones.
  JSON, SQL and the importers' conversions are represented by what is read,
  written and left out. A statement of SQLite is atomic and durable, as the code
  uses it without transactions.
- **External code** (libuv, SQLite, Direct3D, Bullet, ImGui) is modelled by how
  the code uses it, marked external in the map.
- **Assumptions of ReconApp** are those in `Assumed`; each is where the code
  relies on the world. What the deployed importer does not know of is no assumption
  but the exception `unnoticed` of the properties.
- **Stale indices.** SceneEditor shows when a deletion leaves one, not what a
  creation, deletion or save that follows it does then.
- **Not modelled**: the components with that status in `PROJECT.json`, for the
  reasons given there; mostly drivers, conversions without state, and widgets.
- **Modules with proofs.** LibraryProofs, RuntimeProofs and EditorProofs hold the
  proofs of components that share no definitions, one section for each; SpaceProofs
  goes on from the space to the scene editor.

## The plan

Next, in this order:

1. `LinkRight`: one step per decoded message, so that the decoder's invariant is
   one of the link.
2. More of the code: renaming and trash in the browser, the code generators'
   ordering of types, the logger's chain of sinks.
