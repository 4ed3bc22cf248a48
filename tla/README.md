# A specification of the Bastion landscape engine

Bastion is a landscape engine and the beginning of a strategy game: C++ for
32-bit Windows, Direct3D 9, scenes and key bindings in Lua. Its own code is in
`Application`, `Bastion`, `Core`, `Display`, `Input`, `Landscape` and
`Pathfind` (some 23,500 lines of the 404,668 in the repository; the rest is
vendored: LuaPlus with wxLua, sqlite, expat, WTL and more); it has no tests. This
directory holds TLA+
modules translated from that code, the TLC instances that check them, and
TLAPS proofs about them.

Paths below are relative to `src/`. To check a module:
`tlc -config X.cfg MCX.tla`; to check proofs: `tlapm XProofs.tla`.

## 1. The system and its parts

| component | state it keeps | operations | its correctness |
|---|---|---|---|
| Lock-free queue (`Core/AtomicQueue.h`) | a ring of versioned slots, two counters | `Push`, `Pop` from any thread | behaves as a bounded FIFO; no call spins for ever |
| Jobs (`Core/Job.cpp`) | a pool of threads with three events each, a queue of 100 | `Create`, `PushJob`, `PopJob`, `Release`, `JobThread::Update` | a job runs once; nothing is deleted under a thread; release returns |
| Octree (`Core/Octree*.cpp`) | a pool of nodes, lists of used and free indices | add, remove, frustum query | every node lists the objects that touch it; no node is leaked; queries are exact |
| Files (`Core/File*.cpp`) | mounted file systems, who made each file, memory buffers | open, close, read, write, seek, mount | what was written arrives on disk; searches end |
| Interaction (`ApplicationActions.cpp`, `ActionKeybinding.cpp`, `ScenePicker.cpp`) | keys held, callbacks by action, pending action, picker | read input, dispatch, pick in each pass | actions use what the user saw; picker and mode agree |
| Application (`Application.cpp`) | window, listeners, state mode, all managers | `Create`, `Update`, `LoadScene`, `RenderScene`, `Release` | each part is released after those that use it |
| Scene (`Scene*.cpp`) | lists of objects, octree, picker, cameras | create, load, update, release, `NewDummy` | nothing outlives the scene it is of |
| Landscape (`Landscape/Landscape*.cpp`) | vertex and index arrays and buffers per level of detail, chunk tree | `Open`, `Close`, draw, water query | no leak on failure; the terrain is covered; draws stay within buffers |
| Landscape layers (`LandscapeLayerManager.cpp`) | tables of texture layers by name | load, set | data conversion |
| Render stages (`Display.cpp`, `RenderStage.cpp`, `RenderTarget.cpp`, `NormalProcess.cpp`, `PostProcess.cpp`) | lists of requests, targets, processes | request, render, begin and end of passes | each request drawn once per pass, into the right target |
| Display resources (`Display.cpp`, `ObjectCreator.h`, `Texture.cpp`, `Surface.cpp`, `DisplayBuffer.cpp`) | keys of buffers and declarations, what is bound now | new, set, release of a key | what is bound is what was asked for |
| Materials, effects (`Material*.cpp`, `Effect*.cpp`) | parameters by semantic, cache of device states | create, apply, begin and end of passes | a pass is drawn with the states it asked for and leaves the device as it was |
| Cameras, geometry (`Camera.cpp`, `GeometryHelper*.cpp`) | matrices | move, update | float geometry |
| Fonts (`Font*.cpp`, `Core/Pool.h`) | blocks of glyph vertices in a pool | draw, allocate, free | no block is used twice |
| Sky, water, noise | textures and colours | generate | numeric data |
| Time (`Time.cpp`, `Profiling.cpp`) | timers and a free list | create, release, reset, update | two timers, never reused |
| Input (`Input.cpp`) | devices | acquire, poll | I/O |
| Scripting, utilities | Lua state | bindings | data conversion |
| Pathfind | nothing yet | declarations only | -- |

How they interact. One thread, the main thread, runs everything except jobs:
`Application::Update` takes one window message, or makes one frame: read the
devices, dispatch the actions of released keys (callbacks into
`ApplicationActions`), update the scene's objects (which enqueue themselves as
render requests in the display), then let the display draw every pass of every
stage; the scene is called back for each pass, and the picker works within one
of them. Files, Lua, textures and landscapes are loaded synchronously. The only
concurrency is the queue of jobs between the main thread and one worker per
CPU, each of which waits at most 16 ms for its stop event before it looks for
a job again.

Which behaviour is hard, and why it escapes tests: overlaps of `Push` and
`Pop` at the level of single loads; the shutdown handshake of the pool,
begun while any worker is anywhere; structures that go wrong only after many
objects came and went (octree pool, display keys, timers); a picker that runs
after the click that uses its answer; failures halfway through `Open` and
`Create`, and attempts to load a scene that follow a failed one; a file system
mounted on top of itself; three layers of caches (keys, declarations, states)
over a device that other draws change; render targets that alternate between
buffers; and arithmetic on sizes that
holds for the one scene file there is. `PROJECT.json` ("hazards") has each one
at its line.

## 2. Modules

### AtomicQueue, BoundedFifo, AtomicQueueProofs

`AtomicQueue` is the variant of `AtomicQueue.h` that is built. `head`, `tail`
and `slots` are `m_uHead`, `m_uTail` and `m_pData`; a slot has an item and a
version. Each thread has a `pc` and its local copies (`lt`, `lh`, `la`), and
every shared read and every compare-and-swap is a step of its own, the two
halves of the 64-bit slot read included: the program is built for 32 bits,
where that plain read is two loads. Counters wrap at `WordMod` (2^32). The
properties claim nothing beyond `BeforeWrap`; what happens at the wrap is the
subject of a run of its own.

`BoundedFifo` says what callers are promised: calls begin, take effect once,
and return; a call may answer "full" or "empty" only if that was true at an
instant of the call (`Observe` records it). `AtomicQueue` implements it
(`Linearizable`), with the histories `pushed`, `popped` and `seen` as the
refinement's auxiliary state. `JobSystem` uses the abstract queue.

### JobSystem, JobSystemProofs

The main thread's `mpc` goes through `Create` (which may fail after any number
of threads), `PushJob` and `Release`; each worker's `wpc` through
`JobThread::Update`. `object`, `stop` and `end` are the thread objects and
their auto-reset events. The client keeps its jobs until the manager is
released, and pushes each once. `m_hBeginEvent`, for which nobody waits, is
left out.

### Octree, SceneProofs

`tree` is the `Octree` object: node pool, free list, used indices. Regions are
paths from the root; a box is the set of leaf regions it touches, borders
included, which is what the float comparisons of `AddObject` and
`RemoveObject` compute. `AddObject` and `RemoveObject` call themselves on the
children; here each level has a function that is made from the one of the level
below (`AddAbove`, `RemoveAbove`), and the loop over the children is a function
on the number of children seen. The actions are the ones of the only clients: chunks of
level 0 are created (which first removes them by a box that was never set: any
box) and released, and a scene is reloaded. The frustum query is an operator
over any consistent answer of the frustum (`FrustumAssumption`: a child's
sphere lies in its parent's). It is given as many turns as the pool has nodes;
`QueryExact` says that its stack is empty by then. Names begin with `Tree` where
`Interaction` has the plain one, as both are extended by `SceneProofs`.

### Interaction, SceneProofs

One frame is `UpdateInput` (any inputs may be held when the devices are read; an
action is active when its input was released), one `Dispatch` per active action
in the order the devices are scanned (`ScanOrder`), and one `DrawPass` per normal
process of the scene. `callbacks`, `pending`, `active`,
`picked`, `onWater`, `selected`, `dummies` are the fields of the dispatcher,
the picker, the application and the scene. The callback that erases the map
entry under its caller's iterator has undefined behaviour: the model goes on,
or crashes, as the build may. `shown` and `chosen` are history. Where the
pointer's ray ends is free in each pass.

### Landscape, LandscapeProofs

`Open` in its stages, each of which may fail, and `Close`, which takes down
what is there; the keys of the display's two `ObjectCreator`s; the triangle
strip of a level, the vertex layout of all levels, the first vertex and the box
of every chunk, what the device is told to draw, and the water query, which the
code asks of chunk after chunk (here a function on the chunks).
Positions are pairs of squares; heights, normals and morphs are left out.
`SizeAssumption`: at least two squares per chunk and at least one chunk
(with one square the array of the last level is too small for what is written to it,
and `IsPowerOf2` does not end for zero; both are listed as hazards that no property
covers, as no text says that such a scene may be asked for).

### FileSystem, FileSystemProofs

The root file system, `FSNative` and `FSMemory` as `Application` mounts them,
with the log that it keeps in memory from `Create` to `Release`, over any number
of runs of the program. Any path may be opened any number of times at once, the log
too. Opening a memory file reads the whole file through the
root, and closing one writes it through the root, whose list has the memory file
system itself. `Opener` is that recursion solved: a search to read changes
nothing before it comes to the memory file system, so one that comes there a
second time comes there again until the stack is used up (`stage =
"overflow"`). A memory file has its buffer, capacity, size, position and dirty
flag, and grows by blocks. `Seek` goes wherever it is told: before the start, where
nothing is read or written, or past the end, where a write leaves a gap of bytes
nobody set (`Junk`) and may leave the buffer (`stage = "overrun"`, after which
nothing is said of the program). `FileNative::Seek` takes every offset from the start, as
in the code. Text and binary modes are taken for one, and standard I/O works on disk at
once; the C library's buffers, which make that untrue while two write one path, are
accounted for by `Shared`: of a path that was written while a native file was writing
it, nothing is claimed. `due`, `saved`, `got` and `fatal` are history: what a client
must find, and the call the program was lost in.

### RenderPipeline, RenderPipelineProofs

A frame: `Display::Update` goes through the stages of the scene. Each normal
process begins the chain of render targets, sorts its requests into effects,
materials and objects, draws every pass and ends (`NormalProcess`, one action:
nothing else runs between); each post process sets direct writing, begins a pass,
publishes textures under semantics, draws and ends (`PostProcess`); at the end
target 0 is copied to the back buffer (`Copy`). `gfx` holds the fields of the
chain and of each `DisplayRenderTarget` and what the device draws into; operators
that take and return it stand for the methods. An image is the list of processes
that made it, so a buffer read after it was overwritten, or read and written at
once, shows. `due` is what the frame should show, `drawn` what the last process
was asked to draw and drew. The scenes are constants with named assumptions:
`ScenesWellFormed` (a process names a target once; a post process reads the frame
it adds to and lists its targets in their order), `DirectWritesLast` (processes
that write to the back buffer come last, after a post process that does: `Wrote`
says at which stage one has), `RequestsAreObjects`, `CountPositive`,
`PassesPositive`. The scene files meet them; other scenes would lose images, and
no text forbids them. What a loop of the code adds up is a function defined by
recursion on the number of its turns, which the proofs can unfold.

### DisplayBinding, DisplayProofs

Vertex and index buffers by key: `ObjectCreator` hands out keys and gives the
object of a released key to the next user; the display notes the keys and the
declaration it set last and does not set them again. `device` is what is really
bound. Meshes draw from buffers; texts, the quad of the post processes and lines
draw from memory behind the display's back. The creation of a buffer and every binding
may be refused by the device: a refused buffer ends the draw, a refused declaration
does not (`DeclsAfterSet`), and in both cases the display counts as bound what is not
(`Display.cpp:381`, `770`). `undone` is history: whether what was bound for the current
keys may be bound no more, because an overlay was drawn, the device refused a buffer
or the declaration, or `ReleaseVertexBufferKey` compared the key with the wrong one
(`Display.cpp:399`).
A buffer is the first free address (`BuffersAssumption`): buffers are only
compared for equality.

### StateManager, DisplayProofs

The device states the effects set (`EffectStateManager.cpp`): the cache that spares
calls, what a pass notes to put back, the textures a material sets again within a
pass, the states cameras set between passes, and a device that may refuse every
call. This module is proved about and not run: its theorems (in `DisplayProofs`, which
has those of both modules of the display) hold for every set of states and values.
Shaders and constants pass through.

### AppLifecycle, AppLifecycleProofs

`Application::Create` with a failure possible at every step, the main loop,
`LoadScene` with every load function of `SceneLoad.cpp`, the retries, and
`Scene::Release` and `Application::Release`. The main thread's control is `todo`,
the steps still to be taken; a failure replaces it by the steps that give back.
`held` is what the managers have by name, `scene` what the scene noted to give
back. `surfaces` are the names the surface manager has between two steps: surfaces are
loaded, read and unloaded within one call, but the one of a heightmap that could not be
locked stays (`Landscape.cpp:497`) until the display closes, and on its name every later
load of the landscape fails (`Surface.cpp:204`). The objects of the hierarchy are loaded
one by one (`LoadObject`), each with its heightmap, its layering and its material. A
camera that the display could not make is noted by the scene all the same.
`SceneFileLoads` states what a scene file needs to be loadable at all: no
name twice, materials that exist, and post processes that share their material with
nobody, because `PostProcess` unloads its own (`PostProcess.cpp:68`).
`SceneFileLists` says that what the file lists comes in lists, `BoundsNatural` is about
the two bounds.

## 3. What TLC checks

Every run ends within two minutes with two workers. The main run of each module
checks its type invariant as well. `MCX` modules give the constants their values.

| run | states | bounds | what it shows |
|---|---|---|---|
| `AtomicQueue.cfg` | 673,032 | 2 producers, 1 consumer, 2 slots, 3 pushes of 2 items | `TypeOK`; `Window`: the counters lag the slots by at most one; `Delivery`: slots hold what was pushed and not popped, in order; `Linearizable` |
| `AtomicQueueLive.cfg` | 37,022 | the same threads on 1 slot, 2 pushes | `EveryCallReturns`, `EveryItemDelivered` |
| `AtomicQueueWrap.cfg` | finding | 1 thread, 3 slots, counters modulo 8 | `FalseOnlyWhenFull` fails at the wrap |
| `JobSystem.cfg` | 15,732 | 2 workers, 3 jobs, queue of 2 | `NothingDeletedUnderWorker`, `EndMeansExited`, `HandedOverOnce`, `ReleaseReturns`, `QueuedJobRuns` |
| `JobSystemFull.cfg` | finding | the same | `PushJobPushes` fails on a full queue |
| `Octree.cfg` | 17,043 | 2 chunks of 5 boxes, depth 2, 2 children | `PoolConsistent`, `Placement`, `QueryExact` for every frustum |
| `Interaction.cfg` | 118,438 | 5 inputs, 3 passes, 2 dummies, 2 places on water | `PickingMatchesPending`, `LostOnlyToTheOther`, `CreatedWhereShown`, `PathHasItsEntity` |
| `Landscape.cfg` | 345 | chunks of 2, 3, 4, 8 squares; grids of 1, 2, 3, 4, 8 | `OneOwner`, `TerrainTiled`, `DrawInBounds`, `WaterExact` |
| `FileSystem.cfg` | 501,480 | the log and 1 file of up to 3 bytes, two open at a time, block of 2, positions -1 to 3 | `FileExact` (memory files are as plain files, wherever their clients seek), `DiskExact`, `OverflowOnlyWithoutFile` |
| `RenderPipeline.cfg` | 794 | 3 targets, 1 texture, 3 objects on 3 materials of 2 effects, 8 scenes | `FrameShown`, `EachObjectOnce`, `ReferencesGivenBack` |
| `DisplayBinding.cfg` | 1,844,051 | 2 meshes of a part each, 3 overlays, 3 addresses, 3 declarations | `NothingReleasedIsUsed`, `DrawAsAsked` |
| `AppLifecycle.cfg` | 7,357 | 2 targets, 4 materials, 2 objects (one with a heightmap), 2 cameras, 2 stages; 3 failures, 2 messages | `Ownership`, `SceneIsShown` |

Why these bounds are enough to be of interest:

- *AtomicQueue.* Three pushes into two slots make positions use a slot again and
  find the ring full; two producers and a consumer make every helping path run
  (a thread suspended between filling a slot and advancing the counter). Versions
  come into play when a slot is filled and emptied between the two halves of
  another thread's read. The proofs take care of every other size.
- *JobSystem.* Two workers can hold or miss two jobs while the third finds the
  queue full; `Create` may fail after none or one of them; release may begin in
  any state of either worker.
- *Octree.* Boxes outside the tree, in one leaf, over siblings, across the middle
  and over everything: any two of them share some nodes and not others. A
  binary tree of depth 2 has inner nodes, leaves and a free list that empties and
  fills. Frusta are all intervals of leaves, each with exact and with coarse
  inner spheres.
- *Interaction.* The first two passes are not the picker's; two places on water,
  one not in any chunk's box; any subset of inputs may be released in one frame.
  The second dummy may take the first one's place in every role.
- *Landscape.* Grids up to 8 have four levels of detail and edges between levels;
  3 is no power of two and is refused as a grid. Failures of the device are
  possible at every stage and level. The proofs take care of every other size.
- *FileSystem.* A write of three bytes needs more room than one block, and a byte
  written two past the end of an empty file leaves the block it is given; the disk
  may have or lack, accept or refuse either file; the log may be opened again in
  the next run of the program, or by a client while it is open. Two files at a time let
  one be read while the other is written, on one path or two; that one path be written by
  two files besides the log takes a third, which the proofs have and the run has not.
- *RenderPipeline.* The scene of `Data/Scenes`, the same with the post processes it
  has in comments, and every other form a stage may take: none or several
  normal processes, drawing into a texture, no clear, post processes that end in a
  buffer or on the back buffer, odd and even numbers of them. Frames follow one
  another, so what one leaves in the chain meets the next; requests repeat objects
  and share materials and effects.
- *DisplayBinding.* Each mesh's key can be released, given to the other mesh, and be
  the current one of either kind; every declaration can be the current one; a
  declaration can be made again after one was released. The proofs take care of
  every other number.
- *AppLifecycle.* Three failures are enough to fail in one attempt, in a step whose
  failure is swallowed (the lock of a heightmap is one), and in the attempt after it;
  two of every kind of name let
  a list be loaded in part.

`CHECK_DEADLOCK FALSE` stands where a program may stop: after the manager is
deleted (`JobSystem`), after quitting, a crash, or a dummy more than `MaxDummies`
(`Interaction`), out of stack or of a buffer, or with a file at its bound
(`FileSystem`), at a
frame that finds nothing to copy (`RenderPipeline`), when the program has ended
or crashed (`AppLifecycle`).

### Fairness

`AtomicQueue`: each thread inside a call keeps being scheduled (weak fairness on
its steps, not on the success of a compare-and-swap), and consumers keep calling
`Pop`, as worker loops do. Producers owe nothing. `JobSystem`: the main thread
goes on with a call it has begun, and each worker goes on; waits have a timeout
or an event set by one of those. Both are what the scheduler of the operating
system gives to runnable threads. That a job's `Update` ends is an assumption:
`AppTestJob` and `PathfindJob` would not end, and nobody pushes them today.
`AppLifecycle`: weak fairness on `Next`; there is one thread, and its loop never
waits (`PeekMessage` returns at once). That failures and messages are finitely many
is a bound, and what `SceneIsShown` is about: once failures stop, the scene is shown,
unless a failure has left the name of a heightmap, which stops every later attempt: that
case is an exception of the property.

### Findings

- `atomic_queue_wrap`. Slots are chosen by `position % size` from counters that
  wrap at 2^32, and the manager's queue has 100 slots, which do not divide 2^32.
  At the wrap the next position is not the next slot, and `Push` answers
  `false` although the ring has room; `AtomicQueue.h:23` says "Returns false if
  full". A size that is a power of two does not have this.
- `job_system_full`. `PushJob` ignores the answer of `Push`: with 100 jobs waiting,
  the next one is dropped and nobody is told (`Job.cpp:191-192`).

The model of `FileSystem` also shows that opening a missing file for reading never
answers NULL but exhausts the stack, for which the fallbacks of the callers (for
example `LandscapeLayerManager.cpp:142`) are not reached; no text of the
repository says otherwise, so it is stated as the property
`OverflowOnlyWithoutFile`, which delimits when it happens. Of files that are open
twice, it shows that the last one to write or, in memory, to be closed, decides what is
on disk (`DiskExact`). Seeking shows two more: the room for a write in memory is made
from the number of bytes and not from where they end (`FileMemory.cpp:166`), so a write
that begins past the end of the file may leave the buffer, although the call of
`memcpy_s` at line 180 is told that there is room (`FileExact` has this as its one
exception); and `FileNative::Seek` works out the mode it is given (line 98) and uses
`SEEK_SET` in any case (line 99). No code of the repository seeks in a file today.

`AppLifecycle` has five more facts of this kind in its actions, named where they
occur: a heightmap whose surface cannot be locked is no failure, but the surface stays
with its manager (`Landscape.cpp:497` passes over the "release heightmap surface" of
line 568), and if the same attempt fails later, every other one is refused at
`Surface.cpp:204` and the scene is never shown (`Ownership` and `SceneIsShown` except
just this); a `Create` that failed before the display was made ends in a use of NULL
(`Application.cpp:408`); the failure of a camera library is lost
(`SceneLoad.cpp:230`), so that `LoadScene` uses a camera it has not got
(`Application.cpp:564`); a post process unloads a material it did not load;
`CloseVideo` erases a camera twice (`Display.cpp:340`), which `Ownership` shows to be
harmless as long as every scene releases its cameras first.
`DisplayBinding` delimits, in `undone`, when the display draws from a buffer that is
not bound (the key of a released vertex buffer stays current, as `Display.cpp:399`
compares it with the current index buffer and not, as its sibling at line 441, with its
own kind) or with a declaration that is not set (the answer of the device to
`SetVertexDeclaration` is not looked at, `Display.cpp:769`), and `StateManager` when a
pass leaves a state changed: a second change in a pass overwrites what the first one
noted.

## 4. What is proved

For every value of the constants that meets the named assumptions.

**AtomicQueueProofs.** `Inv` of `AtomicQueue` is inductive as long as no counter
has wrapped: `QueueInvariant` is `Spec /\ []BeforeWrap => []Inv`. `Window` and
`Delivery` alone are not inductive: what makes a compare-and-swap right is what its
thread read many steps before, so `PushLocal`, `PopLocal` and `Helping` say, for
each program point, what those copies still mean (the version read is not later
than the slot's; if it is the same, the slot has not changed and the position is
still the tail). The proof first shows that a step changes the shared state in one
of five ways (`SharedStep`: nothing, a slot is filled, a slot is emptied, tail
advances, head advances), then that each way keeps every other thread's facts, and
then deals with the thread that moved. From `Inv` follow `QueueTypes`,
`QueueWindow`, `QueueDelivery`, and `QueueLinearizable`: each step of the ring is a
step of `BoundedFifo` or a stutter, before the wrap.

**JobSystemProofs.** `Inv` joins what exists at each point of the main thread
(`PoolShape`), that a worker in `Update` has its object and an end event is set
only by a worker that has left (`WorkerShape`), the shape of queue and calls
(`QueueShape`), and where a job is (`JobShape`). Three layers are proved one
after the other, each from those before it. They give `PoolTypes`,
`PoolShutdownSafe`, `EndHandshake` and `JobsHandedOverOnce` for any number of
workers and jobs.

**SceneProofs**, about the interaction. `IInv` adds to `PickingMatchesPending` that the pick on
water is the last one shown, at the place of the cursor, and that a selected
entity was chosen for the path under way. The action properties
`LostOnlyToTheOther`, `CreatedWhereShown` and `PathHasItsEntity` follow from it
step by step, for every list of passes that ends with the picker's
(`ScenePasses`) and any number of dummies.

**SceneProofs**, about the octree. All four properties for every depth, number of
children, set of chunks and of boxes, and every frustum that meets
`FrustumAssumption`. The invariant `TreeInv` is `Placement` and that the tree is
`Sound`: indices are in use or available, once (`Kept`), a node in use is linked from
one in use at the octant of its path, no two have the same path, and no link goes
below the depth of the tree (`Linked`). `PoolConsistent` and `Placement` alone would not
do: a call
works on trees that are between the two, where some nodes have the chunk and others
do not yet. So a call at a node is described by what it leaves alone: `Added` and `Removed`
say which regions get or lose the chunk and which nodes come or go, and compose
(`RemovedBoth`); what a call does at a level is proved from what it does one level below
(`TurnByTurn` over children, then over levels). A removal stops at the first child that
does not
know the chunk, and is right all the same: the nodes below the call that hold the chunk are
those its box touches (`Holding`), so no child met fails; and the removal with a
box that nobody has set, of a chunk that is nowhere in the tree, fails at
the first child and changes nothing (`RemoveAbsent`). For the query, the nodes on
the stack lie apart and none is above a node that was done (`Apart`), so each turn
does another node, which bounds the turns by the size of the pool; what was
reported is seen, and what is seen was reported or is seen below a node on the stack
(`Walk`).

**DisplayProofs**, about the bindings. Ownership (`KeysOwned`, `DeclsOwned`) is
inductive together
with the types; `DrawAsAsked` needs `Bound` besides: as long as nothing was undone,
the device has what the display believes it has, and the current keys are in
use. The declaration is followed apart from the buffers: a refused one is no reason for
a buffer to be wrong, and `Bound` says so. They give `TypeCorrect`, `Ownership` and
`Drawing` for any number of meshes, parts, overlay declarations and addresses, and for
every refusal.

**DisplayProofs**, about the states. Four facts make up the invariant: the cache is the
device for states not refused (`CacheIsDevice`), the device has what the pass asked for
(`Asked`), what was noted is what the pass found (`Noting`), and what was asked for
outside is there or noted (`Outside`). They give `StatesTypeCorrect`,
`PassesDrawnAsAsked` and `PassesRestore`. No assumption; there is no run of
`StateManager`, so these theorems are all that is checked of it.

**FileSystemProofs.** The properties are about single files; what makes them
inductive is `Sound`, one file against what its client should have: a memory file has, up
to its size, the bytes and position it should (`Holds`), and past its size what it was
allocated with, so that a gap left by a seek is the same in the buffer and in the file it
stands for; a native file's path is on disk. `Shape` says that while the program is up
the list of file systems is the one of `Mount`. No file is assumed to be the only one
of its path: a write on disk disturbs no memory file, and `DiskExact` is carried through
every opening, write and close. The lemmas on writing (`OverwriteIs` and those after
it) carry growth. They give `FileTypes`, `MemoryFilesExact`, `DiskHasWhatWasSaved` and
`SearchesEnd` for every set of paths,
bytes and writes, block size and bound.
**LandscapeProofs.** All five properties for every number of squares per chunk and
of chunks. `NothingLeaks` (`OneOwner`) needs `Stages`: which members hold nothing at
which stage of `Open` (otherwise an assignment would lose what a member holds), and
that a key not in use is always found. The others are about arrays that loops
build, so the proof first gives each a closed form: how many squares a level has
on a side (`SideIs`), the index at a place of the strip (`Spot`, `StripIs`), which
chunks a level has (`ChunkTreeIs`). The invariant `Built` says that from the stage
that makes an array on, it is that form. From it follow `DrawsInBounds` (what is drawn
lies within the vertices of the level, `DrawnIs`); `WaterIsExact` (of the chunks of a
level one, and not two, has the point, `FirstOf`, and its answer is the vertex at the
point); `EachSquareDrawn` (`TerrainTiled`), by counting: the triangles of a level
with an area correspond one to one to the halves of its squares (`TileAt`,
`TrianglesAt`); and `TypeCorrect`.

**RenderPipelineProofs.** `TypeCorrect`, `DrawnOnce` (`EachObjectOnce`) and
`SurfacesGivenBack` (`ReferencesGivenBack`) for every scene that meets the
assumptions, number of targets and list of requests. For the requests: after each
is sorted in, every list has what was asked for so far and nothing twice (`Sorted`);
so the passes made of them have each object in as many passes as its material has
(`DrawnIsAsked`), and clearing leaves nothing for the next process (`ClearedIs`).
For the chain: what each operator does to the states of the targets, to the
references they hold and to those lost, up to a whole process (`NormalIs`,
`DefaultIs`, `PostIs`). The invariant `IInv` says of every place in a frame what the
targets are doing (`Using`: nothing between processes, begun in a run of post
processes), that the back buffer is written to directly exactly after a process that
says so (`Writing`), and that at most one reference, the one `ReferencesGivenBack`
grants, is lost.

`FramesAreShown` states `FrameShown` for the scenes that are `Plain`: a normal process
clears exactly when it has targets; post processes name no textures and read only
targets that the normal processes of their stage draw; the last post process of a
stage alone may write to the back buffer, and a stage after that has no post
processes; every stage before that draws the frame (target 0, not drawn again by a
later process) or has no normal processes. Six of the eight scenes of the run are of
this kind, among them the one in `Data/Scenes`; the other two draw a post process into
a texture, or do not clear. The argument follows the images. For each operator a
lemma says how it changes the two buffers and the current one of every target
(`...Sets`); from these, what a whole process does: `NormalDraws` (a cleared target
shows what was drawn), `PostReads` (the buffer read is the one drawn before, never the
one drawn to: `NoConflict`), `PostWrites` (a direct write adds to the frame).
The invariant `Shown` says at each place of a frame where the frame so far is: drawn
and not yet exchanged (`Fresh`), in the buffers that are read (`Reading`), at the end
of a run of post processes (`Ends`), or in the back buffer after a direct write.
TLC checked it on about 10,800 generated plain scenes, of one and two stages,
before it was proved. A process that reads targets still bound
(`StillBound`) makes an image that is left open, in the theorem as in the model.

**AppLifecycleProofs.** `OwnershipHolds` and `TypeCorrect` for every scene file, number
of failures and of messages. What is needed besides `Ownership` is where the program
is. The steps left, `todo`, are at every moment the end of one of five lists (create;
release and load; delete; delete within a release; release), and `IInv` says which, and
what has been made or given back at that place: `Creating` and `Loading` for the lists
that make, `Dropped` and `Releasing` for those that give back; `Noted` (what the managers
hold is what the scene notes, but for cameras that could not be made), `Standing` (a
part has the parts it needs) and `Gone`
complete it. No name occurs twice in a list and none in two of them that could be
confused (`NamesOnce`, `NamesDiffer`), so the step about to be taken tells the place
(`AtCreate`, `AtLoad`, `AtDrop`, `AtDelete`, `AtRelease`), and each action is one lemma at
its place. That post processes share their materials with nobody (`UsedApart`), which
`SceneFileLoads` assumes, is what makes the release of a scene give back no
material twice. `ControlTellsState` is that invariant; TLC checked it on the
instance of the run first. The names of surfaces are followed apart from it: `Left`
(`FailuresLeaveSurfaces`) says that they are names of heightmaps, that there are never
more of them than there were failures, and that they go with the display. Every step but
two leaves them alone and uses up at most failures (`Quiet`); the two are `LoadHierarchy`
and `EndDisplay`. `OwnershipHolds` follows from both.

Two arguments occur in three of these modules (`LandscapeProofs`,
`RenderPipelineProofs`, `SceneProofs`). Induction on a number is had without
an operator parameter from the least number that is not in a set (`Least`); and a
function defined by recursion on a number is shown to exist by extending it value by
value, which makes the concatenation of lists of lists (`FlattenSeq`) and the loops
of the code definite.

What stays with TLC: liveness (`EveryCallReturns`, `EveryItemDelivered`,
`ReleaseReturns`, `QueuedJobRuns`, `SceneIsShown`), since ENABLED is beyond the
prover, and `FrameShown` for scenes that are not `Plain`.

## 5. What is not modelled

Float geometry (cameras, rays, heights, morphs, colours, noise), the layout of
glyphs, conversion of text, Lua bindings, device polling, and third-party code
(LuaPlus, libnoise, BMFont, noiseutils, the vector library). That code is 94% of the
repository's lines; it is used through a few calls, so the share of all lines that
the modules stand for is small whatever is modelled of Bastion itself.

Code that is never called: the octree's recursive traverse, the level selection of
the landscape (`LANDSCAPE_USE_HIGHEST_LOD_ONLY`), contexts of actions. `Pathfind` is
empty. `Time.cpp` has a free list of timers, but two timers live as long as the
program, so the list has no behaviour.

`Core/Pool.h`, the blocks of vertices of texts, is a best-fit allocator for one
client, `DisplayFontText`. It has no module; reading it shows that a freed block is
merged only with the one before it, that its size counter starts at minus the
capacity, that a `SetText` before the last one was rendered loses the difference in
size, and that `ReleaseText` does not free the block.

Components marked "partly" in `PROJECT.json` say what they leave out.

## 6. Plan

Done, in order of importance: the queue and its abstract FIFO; the pool of jobs,
composed with it; the octree; the interaction of actions and picker; landscape;
files; the display's resources; the frame; the life of the program and its scenes;
the states of the device. Proved: every safety property that a passing run checks,
for all constants that meet the assumptions (those of the queue before a counter
wraps, `FrameShown` for plain scenes). Left:

1. **Proofs.** `FrameShown` for scenes that draw a post process into a texture or do
   not clear.
2. **Pool.** The allocator of text blocks with its client, as above.
3. **Device loss.** `Display` does not handle it today; a module would follow once it
   does.
