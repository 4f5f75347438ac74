# Verification of vkTurboEngine

TLA+ models of the parts of vkTurboEngine that carry its concurrency, lifetime and ordering logic,
the TLC runs that check them on small instances, and TLAPS proofs about them. Paths are
relative to the repository; `vkte/` stands for `src/vkte/` and `include/vkte/`.

    tlc -config cmd.cfg MCCommand        # a run: PROJECT.json lists module and cfg of each
    tlapm Engine_proofs.tla              # the proofs of a module

## 1. The system

The engine is a C++ library around one Vulkan device. One host thread calls
`Engine::begin_frame`, records and submits work, and calls `Engine::end_frame`. The device runs
what was submitted concurrently, ordered only by timeline semaphores. `frames_in_flight` *frame
slots* own the command buffers and descriptor sets of a frame and are reused in a circle.

| Component | State | Operations | Talks to |
|---|---|---|---|
| `Command` | per queue type (graphics, compute, transfer) the value given out last, the value published last, per slot the values at its last end, the values a frame's submissions wait for; one one-time command buffer per type | `submit_*`, `run_one_time`, `begin_frame`, `end_frame`, `wait_for_compute_submissions`, `get_timeline_progress` | the device's queues; called by `Engine`, by the application and by every transfer; progress read by other threads |
| `MemoryManager` | slots of bindless buffers and images with generations and names, reusable indices, deferred destructions, per frame slot the tables, descriptor set and the writes still to do | `add_*`, `register_*`, `unregister_*`, `destroy`, `begin_frame`, `write_descriptors` | `Storage`; called by `Engine::begin_frame`, the application, the acceleration structure builder |
| `Engine` frame loop | `current_frame`, the frame work to record | `begin_frame`, `end_frame`, `bind`, destructor | drives `Command` and `MemoryManager` |
| `Storage` | vectors of buffers and images, their generations, free slots | `add_*`, `get_*`, `destroy`, `clear` | used by `MemoryManager`, the swapchain's depth buffer, builders and the application |
| `Image`, `Buffer` | device objects, layout, mip levels, memory | constructors with data, reduction, mip levels, transitions, sampler, host writes and reads, destructors | one-time commands of `Command`, `QueueFamilies` |
| `QueueFamilies` | family and index of each queue kind, masks of kinds that share one | chosen once; `get` of a set of queues | `Command` (which types share a `VkQueue`), the sharing of resources, the device's creation |
| `Swapchain`, present pacing | swapchain, images' views, depth buffer; time of the next present | construct, resize, destruct, present | `Storage`, the window system |
| `ResourceDeclarations` | declared layouts, sets, descriptors | declare; built into descriptor sets by `Engine` | `Storage` |
| `DeviceTimer` | a query pool, per timer whether its result was fetched | reset, start, stop, fetch | command buffers |
| `ThreadManager` | linked queue of tasks, `pending_tasks`, `stopping`, a mutex, two condition variables, worker threads | `run`, `wait_all`, `force_stop`, destructor | shader compilation; tasks may run tasks |
| `AccelerationStructureBuilder` | BLASes and instances with generations, what is to be built, the TLAS | add, update, remove, record of a frame's builds | is frame work of `Engine`; gives buffers to `MemoryManager` |
| `ShaderRepository` | the declared shaders, the code of the last time all of them compiled | compile, recompile, get | `ThreadManager`; called by `Engine` |
| `Engine`: components | declarations, pipelines, descriptor sets | construct, reload, destruct | `ShaderRepository`, `Pipeline` |
| `EventHandler` | keys down, pressed, released; captured devices; remapped keys | dispatch of SDL events, queries | application |
| context, window, UI | Vulkan, SDL and ImGui objects | created once, destroyed once | all |

### What is hard about it

* The host runs ahead of the device. A slot, a table, a descriptor set, a query or a resource may
  only be changed or read when the device is done with it, and the only evidence is the numbers
  `Command` compares.
* A deferred destruction counts *frames begun*, while what protects it is *waits done*. Both are
  the same only as long as every `begin_frame` runs to its end. An object is handed to it before
  its replacement exists, and allocations of the replacement throw.
* Slots, indices and handles are reused over several frames, in tables that exist once per frame
  slot and are written at different times.
* `submit2`, allocations, callbacks and constructors throw, in the middle of a state change.
* Three kinds of threads read `Command`; the pool's workers, clients and a stop race for a mutex
  and two condition variables.
* Shader files change while they compile, and a compilation that throws leaves its siblings in
  the pool.
* An upload goes through up to three submissions to two queues, on devices whose queue kinds share
  families in any way.
* Releases of keys arrive after ImGui or another window took what came between, or not at all.

### What makes each component correct

* `Command`: frames do not overlap on the device, frame work precedes the frame's own work, a
  slot is reused only when it is free, timelines never go back, nobody waits for something that
  is never signaled, progress read by others is real.
* `MemoryManager`: a handle reaches its own resource until it is destroyed and nothing after; no
  slot is lost or used twice; nothing is destroyed early, late or twice; tables agree with slots
  except for pending writes, and no table a frame uses leads to a destroyed resource.
* `Engine`: the two together keep what submissions in flight use alive and unwritten.
* `Storage`: handles behave as if slots were never reused, for all of its users at once.
* `Image`, `Buffer`: every command finds what it works on in the layout, state and usage it needs;
  data arrives whole; nothing temporary outlives the call, also when it throws.
* `QueueFamilies`: each kind gets the most specialised family, and a set of queues each family once.
* Swapchain: after every construction that came to its end the parts belong together; a resize
  takes nothing that is not its own; presents come one per refresh interval (they do not,
  finding 3).
* `ResourceDeclarations`: what is written to a set is what was declared, at the binding it names.
* `DeviceTimer`: a result is the start and stop of one measurement, is not lost by bookkeeping, and
  is returned once (it is not, finding 4).
* `ThreadManager`: no task and no wakeup is lost; `wait_all` means done; stopping ends.
* `AccelerationStructureBuilder`: a handle reaches its own BLAS or instance; a frame traces what is
  alive and was built as the application last said; everything is destroyed once.
* `ShaderRepository` and components: a reload rebuilds everything from current files or nothing;
  tasks end with the call that waits for them, unless a file is missing.
* `EventHandler`: no key stays down without a press that holds it; what a frame reports as pressed
  and released accounts for every change.

`PROJECT.json` lists every hazard at its line with the properties that cover it, or why none
does.

## 2. Modules

### Command (`vkte/command.cpp`, `command.hpp`, the calls in `vkte/engine.cpp`)

One host thread, the device, and other threads that only load progress. `host` is the program
counter of the host thread; a blocking call takes two steps (`BeginFrame` and
`BeginFrameReturns`, `RunOneTime` and `OneTimeReturns`), and `submit` takes two as well, because
another thread can load `submitted_values` between `submit2` and the store (`Publish`).
`Enqueue` is the rest of `submit`: it takes the values first and may then throw, as the code
does. `timeline_values`, `submitted_values`, `frame_end_values`, `frame_waits` and
`current_frame` are the members of those names.

The device is external and modelled from what Vulkan guarantees for the calls the code makes: a
queue starts its batches in submission order once their waits hold (`Start`), batches run
concurrently, and signal operations of one queue happen in submission order (`Signal`). Types of
one family share a queue (`QueueOf`, the outcome of `queue_families.cpp`). `batches` is what was
submitted and has not signaled, `started` the part of it that runs.

A submission may be frame work, one of a frame, one made between frames, or a one-time command.
The last two are outside the protocol's promise (between frames they wait for an old frame's
values, one-time commands for nothing), so the order properties are about `InFrame` batches, with
the others present and competing for the queues.

### MemoryManager (`vkte/memory_manager.cpp`, `memory_manager.hpp`, `resource_handles.hpp`)

All public operations that change state, per kind of resource, and the part of
`Engine::begin_frame`/`end_frame` that calls them (`phase`). `Storage` appears as the set of live
resources; module `Storage` shows that its handles behave that way. A frame's "set" has four parts,
the descriptor pool with the set in it and three tables, each with a number of its own.
`create_frame_set` gives the old parts away before it creates the new ones and may throw at any of
them (`CreateFrameSetThrows`, at most `MaxSetFailures` times); it then keeps the old handles, so a
later flush may come to parts that are gone: it throws at the table (`FlushThrows`), or in the
destructor (`DestructThrows`). `issued` and `open` are history: which handles were returned and
which of them were not given back. `tables` holds, per frame slot and index, the generation and the
resource that shaders find there.

### Engine (`vkte/engine.cpp`)

Composes `Command`, which it extends, and an INSTANCE of `MemoryManager` that shares
`current_frame`: each action of `EngineNext` is the conjunction of what both do in one call of
`begin_frame`, `end_frame` or a destructor. A `begin_frame` throws in three places: `FlushThrows`,
before anything else; `BeginFrameThrows`, where submitting the frame work throws, after the
destructions were flushed and before the tables are written; and `CreateFrameSetThrows`, after the
frame work was submitted. It may be called again after each of them. `uses` remembers what each pending submission may touch:
everything the application had a handle of and the set `bind` binds.

### Storage and ResourceStore (`vkte/storage.cpp`, `storage.hpp`)

Vectors, free lists and generations, with constructors that throw between taking a slot and
filling it. `ResourceStore` is the promise: a handle was never given before, leads to its
resource until destroyed through it, and to nothing afterwards.

### Swapchain (`vkte/swapchain.cpp`, `Engine::resize`, `present` and the destructor in `vkte/engine.cpp`)

The swapchain in an Engine with a window, over the application's `Storage`: a construction is a
sequence of steps (`step`), each of which may throw, in the Engine's constructor (which then
destroys nothing) or in a resize. `depth_buffers` and `destroyed_twice` are history. The pacing of
`present` counts ticks: `lead` is `next_present_time - now`, `age` the time since the last present,
each cut off where nothing tells values apart any more; `crowded` is history: a present came within
an interval of the one before.

### ResourceDeclarations (`vkte/resource_declarations.cpp`, `Engine::build_descriptor_set*`) and Resources

`add_*`, the sort of the bindings and what the Engine builds and writes. `declared` is the history
of what was asked for; `overrun` says that a descriptor was stored beyond the slots of its sets.
`Resources` composes `Storage`, `Swapchain` and `ResourceDeclarations`: three users of the same
slots.

### QueueFamilies, OneTimeCommands, Image, Buffer, Uploads (`vkte/queue_families.cpp`, `image.cpp`, `buffer.cpp`, `command.cpp`)

`QueueFamilies` is pure: the choice as a recursive function over the families a device offers, the masks and
`get`, against a reference definition (`ChoiceIsBest`, `GetIsExact`). `OneTimeCommands` holds what
uploads share: the families, the one-time command buffers, and what may fail (`Fails`, `Breaks`). It
is constructed with a surface or without; with one that no family presents to, construction is
refused.
`Image` follows one image through its constructor, each one-time submission a step: `invalid`
collects the commands that found a level in another layout than they name or memory they cannot
rely on (`Undefined`: never written, or owned by another family). `Buffer` follows one buffer
through its constructor with its fallback memory and through host operations, mapped or staged.
`Uploads` composes them and lets one call anywhere throw.

### DeviceTimer (`vkte/device_timer.cpp`, `device_timer.hpp`)

Commands are `recorded`, then `pending`, then executed in order; `result_fetched` changes while
recording and when the host reads, the `queries` when the device executes. A timestamp is the
number of its measurement. The application resets, starts and stops each timer in that order, one
timer at a time or all of them with `reset_all` (`bulk`).

### ThreadManager and TaskPool (`vkte/thread_manager.cpp`, `thread_manager.hpp`)

A step is a critical section of `tasks_mutex`, or what a thread does between two; `notify_one`
after the unlock in `run` is a step of its own. A thread blocked in a condition variable goes on
after a notification or spuriously. Tasks run by workers may run further tasks. `TaskPool` is the
promise to users: tasks start at most once, in the order of the `run` calls, on a bounded number
of workers, or are dropped. `ThreadManager` implements it with the refinement mapping `Pool`.

### AccelerationStructureBuilder (`vkte/acceleration_structure_builder.cpp`, `.hpp`)

The builder with the frame loop that drives it: calls of the application between frames, `Build`
or `BuildThrows` for `begin_frame` with the frame work submitted or not, and a device that still
traces earlier frames (`EnterFrame`). What the builder gives to the memory manager is a queue with
the rule that `MemoryManager` models in full. Buffers and structures are numbers; `given`,
`removed` and `misused` are history. Creating an object throws at each place the code does it
(`AddBlasThrows`, `CreateTlasThrows`, `WriteInstancesThrows`), and the frame ends as
`begin_frame` leaves it; `lost` (a TLAS with a buffer and no acceleration structure) and `kept`
(an instance buffer that was given away and could not be replaced) are the history of what only such
failures do, and `FlushThrows` is the flush that finds such a buffer gone. A call on a removed handle throws in `get_index` and is left
out, but an `update_blas` of a BLAS that is not dynamic and a `remove_blas` with instances left are
not refused by the code: both happen, and the properties leave out exactly the objects they spoil.

### ShaderRepository and Components (`vkte/shader_repository.cpp`, `vkte/engine.cpp`, `vkte/pipeline.cpp`)

`ShaderRepository` is `compile_all`/`recompile_all` step by step over the pool, which appears as
the promise `TaskPool` (that `ThreadManager` implements), with shader files that are edited,
broken or removed at any moment. `Components` puts `construct_components`,
`reload_shaders_all` and `destruct_components` on top, in any order, as the code has no guard on
any of them, with everything that throws on the way: a construction before `compile_all`
(`ConstructThrows`, after any number of pipelines was declared), missing files, writing `debug_spirv`
between two shaders (`WriteThrows`), pipelines that fail to build, before or after their layout was
created, and the descriptor sets after them (`SetsThrow`). A shader object is tagged with the
construction whose declarations own it, a piece of code with the version of its file. Tasks of a
call that has thrown go on running, and the repository keeps its pointers after
`destruct_components`; once the host itself reads a freed shader, anything may happen and the model
stops (`Crash`). `thrown` (calls that left tasks), `unbuilt` (pipelines the last build did not get
to) and `dangling` (layouts they keep that are destroyed) are history.

### EventHandler (`vkte_window/event_handler.cpp`, `event_handler.hpp`)

One action per kind of event, with the two flags of ImGui as arbitrary Booleans, and the remap file
read at the start as a sequence of pairs. SDL may report anything: releases without a press,
repeats, both shift keys. `held` is history: the codes whose press counted and was not released.

### The other modules

`*_proofs` hold the theorems, section 5. `MCCommand`, `MCEngine`, `MCMemoryManager`, `MCUploads`,
`MCComponents` and `MCEventHandler` only define constants for TLC, `MCApart` puts three independent
components in one run. An operator with a comment that
begins with "Mutant" is not part of a specification: it is a plausible wrong form of the operator
below it, and PROJECT.json pairs the two with the property that tells them apart.

## 3. Runs

| Run | Bounds | Shows |
|---|---|---|
| `cmd` | 2 types with a queue each, 2 slots, 3 frames, 3 submissions in calls of 1 or 2 of which 1 may throw, a thread that reads compute progress | order of frames and frame work, slot reuse, progress; blocked host calls return |
| `cmd_failed_submit` | the same with calls of 1, without the reader | finding 1 |
| `mem_tables` | 2 slots of buffers, tables that grow once, 4 frames, 2 resources, 3 registrations (2 once `create_frame_set` has thrown), a name, 1 `create_frame_set` that throws | all of `MemoryManager` |
| `engine_frames` | 1 queue, 4 frames, 1 submission, which may throw, 1 resource, 2 registrations, tables that grow from 1 index to 2, 1 `create_frame_set` that throws | the composition with replaced descriptor sets and a `begin_frame` called again, wherever it threw |
| `engine_stale_tables` | 1 index, 1 registration, no failure | finding 2 |
| `threads` | 2 workers, 2 clients, 3 tasks | all of `ThreadManager`, refinement, liveness |
| `resources` | 2 slots per vector, 3 resources and 2 failures, 3 swapchains of 2 images, 1 layout with 2 bindings, sets of up to 2, 2 descriptors | `Storage` with all of its users, refinement |
| `apart` | uploads: 24 devices of up to 3 families, extents of 1 and 3 mip levels, 4 sets of queues, buffers of 2 bytes in 3 kinds of memory, 1 call that fails; timers: 2 timers, 3 measurements of each, 4 outstanding commands; events: 3 keys, 4 key codes with both shifts and one unknown, 5 remap files | `QueueFamilies`, `Image`, `Buffer`, one-time commands; all of `DeviceTimer`; all of `EventHandler` |
| `present_pacing` | a refresh interval of 3 ticks | finding 3 |
| `timer_repeats` | 1 timer, 2 measurements, 3 outstanding commands | finding 4 |
| `accel_builder` | 2 slots, 4 frames, 2 BLASes, 2 instances, 4 calls, 1 allocation or submission that throws | all of `AccelerationStructureBuilder` |
| `reload` | 2 pipelines, 3 shaders with 2 keys, 2 workers, 2 rounds of compilation, 2 edits, 1 step that throws | construction and reload |

Every bound is a constant named `Max...` or a size in the cfg. Why they suffice: with two frame
slots the third frame is the first that reuses one, and a destruction requested in frame *n* is
due in *n* + 2, so three or four frames contain a full circle and a destruction with the reuse of
its index after it. Two infos per call are the least that can be ordered wrongly. Two workers and
two clients are needed for a notification to reach the wrong one; the third task is the one a task
runs while the queue has another. One failure suffices for each finding; more of them repeat it in
other slots. A `create_frame_set` that throws in the first frame gives parts of a set away that come
up again, given away twice, in the fourth. Two failed resizes and three swapchains are a construction, a resize that fails early
and one that fails on what the first left. Two bindings can be declared in the wrong order and two
descriptors meet in one set. An image of 5 x 3 has more than one level whose sides are odd and a
side that reaches 1 first; two bytes are what a partial copy can leave out. Three measurements with
five outstanding commands keep two of them in the device's queue at once. Four calls on the builder
are enough to add a BLAS and an instance, change one and remove one while frames with the old state
are in flight, and an allocation that fails in between has a frame after it. Two rounds of
compilation are a construction and a reload, or a call that fails and one that follows it; calls
that throw before they compile are not counted. Two edits can break one file and repair or remove
another. `cmd` has a
queue per type; types that share a queue, in any combination, are covered by the proofs, and so are
images beside buffers in `mem_tables` and, in `engine_frames`, submissions after one that threw
(it has one submission in all, so that four frames fit).

`apart` explores three components that share no state with each other or any other: one acts
while the other two rest as they are at first (`MCApart`). That is every state each can be in, and
none of the combinations, which mean nothing.

`CHECK_DEADLOCK FALSE` is set for `cmd_failed_submit` and `engine_frames`:
with a submission that throws the program really hangs (finding 1), so a state without a successor
is one the code has. Elsewhere every state has a successor, the destroyed system stuttering
explicitly.

Some properties except what the code does not keep. Each exception is the subject of a finding or
an observation of section 4, and the property's comment names it; a property with an exception shows
nothing about the hazard it excepts, and PROJECT.json says so where it lists the hazard.

| Property | Holds |
|---|---|
| `HostWaitsEnd` | until a submission throws (finding 1) |
| `SubmissionsSound`, `FrameTablesSound` | until a submission or a `begin_frame` throws |
| `TablesWrittenUnused` | also after submissions that threw, until a `create_frame_set` throws; it lets the slot's own frame work be in flight |
| `ReleasedOnTime` | always; later than `frames_in_flight` frames only after a `create_frame_set` threw |
| `TasksSettle`, `CallsEnd` | but for tasks queued after a stop, which nobody runs |
| `SlotsSuffice` | unless bindings are added to a layout after its sets |
| `SwapchainWhole` | after constructions that came to their end |
| `CommandsValid` | but for a command buffer begun again after an exception, and for reductions past the last level |
| `ObjectsAccounted` | always for temporary objects; for the others until a call fails, but for samplers replaced |
| `OneMeasurement` | for timers that are reset by themselves or that `reset_all` reaches |
| `UnfetchedIsThere` | unless `get_result` was called before the measurement was executed |
| `DestroyedOnce` | but for `lost` and `kept` |
| `FramesUseLive` | its first part until a `begin_frame` throws, but for `misused`; the rest always |
| `ChangesAreBuilt` | until a `begin_frame` throws |
| `PipelinesUsable` | but for the pipelines a build that threw did not get to |
| `TasksEndWithTheirCall` | but for calls that threw because a file was missing |
| `KeysFollowTheirPress` | its second part for keys with a single source |

Properties that belong together are one definition, each part of which is named:
`HandlesSound` (handles and names reach their own resource), `ReleasedOnTime` (neither early, late
nor twice), `TablesTrackSlots`, `SubmissionsSound`, `CallsEnd` (`wait_all` and the destructor
return). Type invariants are proved where there are proofs; the runs spend their time on the rest.

### Fairness

`Command`: the device makes progress (`DeviceStep`), and a host call that can return does
(`BeginFrameReturns`, `Publish`, `OneTimeReturns`); both are what Vulkan and the scheduler
guarantee. Nothing obliges the application to begin, submit or end anything.
`ThreadManager`: each worker and each client within a call goes on when it can: tasks return, and
threads get the mutex. Weak fairness of a whole thread suffices, because no thread's next step
is disabled by others forever once it can be taken, except when a property says so. No spurious
wakeup and no call is assumed to happen. The other specifications state no fairness: what they
promise is about what may be seen, and their operations are calls nobody is obliged to make.

## 4. Findings

1. `cmd_failed_submit`: `Command::submit` increments `timeline_values` before `submit2` and keeps
   the increment when that throws. `end_frame` stores the value, and the slot's next `begin_frame`
   waits without a timeout for a value that nothing signals (`command.cpp:121`, against
   `command.hpp:55`).
2. `engine_stale_tables`: `begin_frame` destroys what is due, then submits the frame work, and only
   then writes the slot's tables, so frame work sees the old generation of a resource that is gone
   (`engine.cpp:119`, against `memory_manager.hpp:25`).

3. `present_pacing`: the time of the next present moves on by one interval from where it was, unless
   that is more than an interval ago, so after a present that came late the next one follows within
   the interval (`engine.cpp:335`, against `swapchain.hpp:18`, "one per refresh interval").
4. `timer_repeats`: a result is returned again once the stop of the next measurement is recorded and
   its reset not executed (`device_timer.cpp:39`, against `device_timer.hpp:31`, "prevent repeated
   reading of the same timestamp").

Observations that no run is about:

* `global_frame_counter` counts calls of `begin_frame`, also of one that throws. Called again, it
  destroys a frame too early, while the other slot's frame may still run (`memory_manager.cpp:352`).
  `SubmissionsSound` therefore ends with the first such call.
* `create_frame_set` gives the old pool and tables to deferred destruction before it allocates, and
  keeps their handles (`memory_manager.cpp:82`). When an allocation throws and `begin_frame` is
  called again, they are given away a second time: the flush in which a table comes up again throws
  at `storage.cpp:80`, and a descriptor pool that comes up again is destroyed twice. The model has
  all of it; `ReleasedOnTime` and `BegunFramesUsable` show what it leaves alone.
* A `begin_frame` that throws after the acceleration structure builder has recorded, or in it, loses
  what was to be built: the next frame finds nothing to build. An allocation that throws within the
  builder does more: an instance buffer that could not be replaced is given away again, or, once it
  is gone, makes every later update of its slot throw (`acceleration_structure_builder.cpp:286`);
  `create_tlas` leaks the buffer when the structure cannot be created, and takes the TLAS for whole
  when the scratch buffer cannot (`:318`); `add_blas` loses its slot until the end (`:116`).
* A callback of `run_one_time` that throws leaves the one-time command buffer recording; the next
  one-time command begins it a second time (`command.cpp:81`). One-time commands do not wait for
  frames in flight, so what they write must not be in use.
* A shader file that is missing makes its task throw, and so `future.get`, and so
  `reload_shaders_all` (`shader_repository.cpp:87` and `:231`), which `engine.hpp:61` says returns
  false. The pipelines do stay as they were, but the remaining tasks keep pointers to the declared
  shaders and nothing waits for them.
* The repository keeps its pointers to shaders after `destruct_components` and after a
  `construct_components` that throws before `compile_all`: a `reload_shaders_all` there compiles
  freed objects, or builds pipelines that are declared and not there (`engine.cpp:448`).
* With `shader_debug_info`, writing a file may throw after the old code was forgotten and before all
  of the new code is there (`shader_repository.cpp:245`): the pipelines stay, the repository's code
  is in parts until the next success.
* `Pipeline::destruct` does not forget the layout (`pipeline.cpp:120`): after a reload whose
  construction of a pipeline threw, the next reload destroys the same layouts again.
* `DeviceTimer::reset_all` resets as many queries as there are timers, half of the pool
  (`device_timer.cpp:28`): the second half of the timers may report the start of one measurement
  with the stop of another. A read is taken as atomic here; while the device executes, the two queries
  may be read apart.
* The levels an image is reduced by are subtracted without a check (`image.cpp:268`): a base level
  at or beyond the number of levels, or one without `use_mip_maps`, wraps around.
  `create_sampler` does not destroy the sampler it replaces. Constructors that throw lose the
  device objects they have created.
* "Ideally present and graphics queue are the same" (`queue_families.cpp:76`), but the present queue
  stays with the first better graphics family that presents, also when the graphics queue moves on
  to another one.
* A resize that failed before it had a new depth buffer makes every later resize throw, since the
  old handle leads nowhere, and `~Engine` then terminates (`engine.cpp:315`). A resize does not wait for
  frames in flight; its caller has to.
* `add_binding` after `add_descriptor_sets` of the layout makes later descriptors take slots the
  vector does not have (`resource_declarations.cpp:70`); `SlotsSuffice` leaves that order out. More
  resources than the binding's count are not refused either, and descriptors take the layout an
  image has when the sets are built (`engine.cpp:291`).
* Both shift keys, and keys remapped to one, are one key that goes up with the first of its
  sources; a release whose press ImGui took can thus release what another source holds, although
  "a key whose press didn't count isn't released either" (`event_handler.cpp:231`).

## 5. Proofs

Each theorem is about every value of the constants, from the assumptions the modules name
(numbers are natural, there is at least one slot, worker, timer). None of the properties is
inductive alone; the invariants below say what more holds.

**`Engine_proofs`**, first part, about `Command`: `TypeCorrect`, `Invariant`, `FramesDoNotOverlap`, `FrameWorkRunsFirst`,
`FrameSlotsAreReusable`, `TimelinesMoveForward`, `ReportedProgressIsReachable`, for any queue types
and mapping to queues, also with submissions that throw: those cost liveness, not order. `IInv`
adds what the numbers stand for:

* `Ordered`: values of a type grow in submission order, are ahead of the semaphore and at most
  `timeline_values`; so a batch whose value is covered by something the device reached cannot
  still be there (`CoveredIsDone`).
* `FramesTagged`: which frames and slots pending batches can have at each point of the frame.
* `EndValuesCover`: the end values of a slot cover what its last use submitted, and those of the
  *previous* slot cover all earlier frames. This is preserved by `EndFrame` because the previous
  slot of the next slot is the slot itself (`SlotsInACircle`), and by a begin_frame that throws
  because no batch of the new frame exists then.
* `FrameWaitsCover`, `WaitsCover`: hence what a frame waits for covers every earlier frame and
  its own frame work, and so does what each of its batches waits for.

From these, a batch that starts finds nothing that it must not overlap (`StartKeeps`), and a
`begin_frame` that returns finds its slot free (`BeginFrameReturnsKeeps`).

The second part is about `Engine`: `EngineInvariant`, `SubmissionsStaySound`,
`FrameTablesStaySound`, `TablesAreWrittenUnused`, for any number of frame slots, resources,
registrations and frames. `LoopInv` is the invariant of both components, cited from their proofs
(`MMP` is `MemoryManager_proofs`), and what ties them together:

* `InStep`: the two are always at the same point of the frame, and a frame's number names its slot.
* `Recent`: a submission in flight is of one of the last `frames_in_flight` frames, since
  `begin_frame` waits for the end of the slot it takes, and that end covers all earlier frames.
* `UsesKept`: what a submission may touch is live or put off by a frame that is not older than it,
  so a flush, which destroys only what was put off `frames_in_flight` frames ago, finds nothing of
  it. This counts frames begun, so it needs that every one of them waited: `failures = 0`.
* `TablesNow` and `FramesInv` (the manager's part): the tables of the slot the frame is in were written after its flush,
  and no submission that binds a slot's set is in flight when its tables are written.
* `WorkComesFirst`: frame work is in flight only while its frame is the last, which is why it sees
  what `begin_frame` left.

What of it holds depends on what has thrown. `FramesInv` holds always. As long as no
`create_frame_set` has thrown, Command's `IInv` and `WorkComesFirst` hold too, so tables are written
without a user also after submissions that threw. The rest needs `failures = 0` as well.

**`ThreadManager_proofs`**: `TypesAreKept`, `PendingTasksCount`, `WaitAllWaits`,
`PoolIsImplemented` (the refinement of `TaskPool`, for any workers, clients and tasks). `IInv` says
that `pending_tasks` is the number of queued and running tasks (`PendingCount`), that the linked
queue ends at its tail (`TailIsLast`), that a task is in one place only (`TasksOnce`) and that every
thread has left once the manager is gone (`GoneIsExited`). The count is what makes `wait_all`
sound; that tasks are in one place is what makes every step one of the abstract pool.

**`Resources_proofs`**, first part, about `Storage`: `FreeSlotsStayEmpty`, `StorageIsImplemented` (the refinement of
`ResourceStore`). A handle that leads somewhere has the generation of its slot; a free slot's
generation is beyond every handle ever given for it (`Generations`, `GivenBefore`), so a handle that
is given is new even after constructors that threw lost their slots.

**`MemoryManager_proofs`**: `TypesAlways`, `SlotsAccounted`, `HandlesAlwaysSound`, `ReleasesOnTime`,
`TablesAlwaysTrack`, for any capacities, frame slots, names and numbers of resources, registrations,
frames and calls of `create_frame_set` that throw. Lemmas first describe every call by what it does to one slot, handle, name and table
entry (`RegistersEffect`, `ReleaseEffect`, `FlushEffect`), so the invariants are about one of these
at a time. All stand on `AInv`: a slot is in use, reusable, put off or new, and only one of these,
and each index is reusable once and put off once (`Accounted`, `FreeOnce`, `OnceIn`). Therefore a
flush never touches a slot in use. Added to it are

* for handles: a reusable slot's generation is ahead of every handle ever issued for it
  (`HandlesOf`), and a slot without a resource has no name (`NamesOf`);
* for the queue: entries are in the order of their frames, and a resource is in at most one slot,
  is not the application's once it is put off, and is put off once (`Times`, `Owns`), so taking the
  front while it is due takes exactly what is due;
* for the tables: pending writes are of slots, and there are never more slots than new tables have
  entries (`Fits`).

A last section says what frames rely on, for `Engine_proofs`: sets are whole while no
`create_frame_set` has thrown (`SetsInv`), and what a step of the manager keeps of a
slot, a set and a table (`KeptSince`, `SetKeptSince`, `TableKeptSince`), so what was usable when a
frame was submitted stays so until the flush that is due.

The second part is about the storage's users: `SwapchainsAreWhole`,
`ResizesKeepResources`, and, with all of them together, `HandlesAreKept`, `SwapchainIsKept`,
`DescriptorsAreWritten`, `SlotsAreEnough`.
`WholeInv` stands on the invariant of `Storage`: there is at
most one swapchain and a depth buffer only with its swapchain, so the handle a failed resize leaves
behind leads nowhere, to nobody else's image in the same slot either. For the declarations,
`LeadsAsGiven` says that a handle that lives leads to the resource it was returned for, and
`SlotsAsDeclared` that a descriptor was declared if and only if it has a slot. A slot keeps the
binding and the set its descriptor names, so the sort of the bindings, which happens when sets are
built, long after descriptors chose their slots, does not change what is written where.

**`AccelerationStructureBuilder_proofs`**: `TypeCorrect`, `HandlesAlwaysResolve`, `DestroysOnce`,
`FramesAlwaysUseLive`, `ChangesGetBuilt`, for any numbers of frame slots, BLASes, instances and
generations, and for allocations and submissions that throw. The invariant has a part for each of the
questions: handles are of slots whose generation they have or that were removed since
(`HandlesInv`), and only BLASes `add_blas` returned a handle for are in use (`BlasesInv`); each object
has one owner (a BLAS, the TLAS, an instance buffer, the queue of destructions, or nobody any more)
and is destroyed by that one, but for `lost` and `kept`, which are empty until a `begin_frame` throws
(`ObjectsInv`); what a frame in flight traces is owned or queued by a frame not older than it
(`UsesInv`) and its instance buffer is its slot's own (`BuffersInv`); and a slot that differs from what
was built is marked to be built (`SceneInv`). `UsesInv` and `SceneInv` hold as long as no `begin_frame`
has thrown. The four ways in which a frame's builds may end are one operator (`Builds`), so each part
is proved once for all of them.

**`Components_proofs`**: `Invariant`, `ReloadsAreAllOrNothing`, `TasksEndWithTheirCalls`,
`PipelinesAreUsable`, for calls in any order. What finished tasks read is not older than the call
(`FuturesSound`), and so is what is collected (`ResultsSound`) and built (`PipelinesSound`), although
files change meanwhile (`FilesSound`). A task is in one place of the pool (`PoolSound`), and one whose
future nobody holds is of a call that threw for a missing file (`TasksSound`). There are all pipelines
or none (`DeclarationsSound`). The theorem about pipelines adds that code is replaced as a whole while
results are collected (`CodeSound`) and that a layout a pipeline has exists, or is one of those a
throwing build left destroyed (`LayoutsSound`).

**`TimersAndEvents_proofs`**, about `DeviceTimer`: `UnfetchedResultsAreThere`, `ResultsAreOneMeasurement`,
for any number of outstanding commands. `Leaves` says what a query will
hold when the device has executed a sequence of commands, and `Meets` what a command in its middle
finds there; appending a command and executing the first one keep both. So: what was measured last
is what the device will leave (`LastIsLeft`); a start meets a stop query that was reset and a stop
the start of its own measurement (`InOrder`), for every timer the application resets by itself or that
`reset_all` reaches.

The module's second part is about `EventHandler`, which shares nothing with the timers: `EdgesAreTold`,
`KeysAreHeld`, for any keys, codes and remap files. What `pressed` and `released` say is the difference to the frame before, and a key that is down has
a press that holds it.

**`Uploads_proofs`**: `FamiliesStayExact`, `CommandsStayValid`, `LayoutIsTracked`, `UploadsAreVisible`,
`ReadsReturnWhatWasWritten`, `ObjectsAreAccounted`, for any devices, extents, layouts, sizes, sets of
queues and failing calls. Three functions of the model are recursive: the choice of the families,
the levels of an extent (halving) and what recording the levels has done so far. That such a function
exists and what it computes is proved by induction over a set of numbers (`EveryNumber`), which
follows from the least element a set of numbers has (`Least`, from the library's well-founded sets)
and needs no operator as a parameter. With it:

* the choice among the first n families is the best of them for each kind (`BestNext`, `IndicesBest`),
  and the masks of `get` are exactly the kinds with the same family (`MasksExact`, `GetExact`);
* an image reduced by one or two levels has the levels that are left (`ReducedLevels`), so the levels
  the constructor goes on with are those the device image has;
* once level i has been blitted into the next, the levels up to i are ready to be sampled, the later
  ones are still targets, and the first i + 1 have the data (`LevelsMade`, `MakeLevelIs`).

The invariant `IInv` has one part per stage: an upload has put the data into the first level of its
image (`UploadingInv`), the temporary image belongs to the transfer queue's family and is shared with
the graphics queue's (`ReducingInv`), a constructed image has its layout in every level and keeps its
contents for the families it is shared by (`FilledInv`), a buffer the host reaches has what the host
wrote (`HeldInv`), and a staging buffer the bytes of its span (`StagedInv`). What makes it inductive is
`OwnerFits`: memory belongs to nobody or to a family it is shared by, so a family that shares it finds
its contents, whether it is exclusive or concurrent (`Keeps`). Without failures, command buffers are
ready and nothing is lost (`CommandsInv`).

The assumptions are those a program cannot break: numbers are natural, there is at least one slot,
worker or timer, extents and sizes are not 0 (the constructors assert it), nobody asks Vulkan for the
undefined layout, a device is a sequence of families, `None` and `NotCreated` are no object, and in
`Engine` the kinds, names and capacities are those `MemoryManager` asks for.

Only model-checked: liveness under fairness (`HostWaitsEnd`, `TasksSettle`, `CallsEnd`), which with
`ENABLED` is out of this prover's reach; `BegunFramesUsable`; and what the fold over the lines of the remap file computes,
on which neither property of `EventHandler` depends. Every other property of a passing run is a
theorem.

## 6. Plan

Everything the plan named is modelled and checked: the frame protocol, bindless memory and their
composition, storage and its users, uploads, timers, the pool, reloads, acceleration structures and
events. What would come next:

1. That host waits are reachable without failures (`HostWaitsReachable`), and `BegunFramesUsable` of `Engine` after failures.
2. The builder as frame work of `Engine`, and reloads and resizes while frames are in flight, which
   today are the caller's to avoid.

## 7. Not modelled

The map covers little of the repository's lines because most of them are vendored: Vulkan's
headers, SDL, ImGui, shader compilers. The engine itself is `src/vkte`, `src/vkte_window` and
`include`; of those, the following is left out:

What Vulkan objects contain (memory types, pipeline state, formats), file formats and shader
compilation itself, the Vulkan context's creation, the window system and the UI: they are
parameters of calls whose order and lifetime is what the models are about, or sequences of calls
without a state of their own. `acquire_next_image`, semaphores of the swapchain and the choice of
its settings are the window system's side of `Swapchain`. `copy_image`, which nothing calls, and
layers and depth of images, which every step treats alike, are left out of `Image`. Misuse the code
does not guard against is left out as well: a task that calls `wait_all`, a resource destroyed twice
through a `ResourceHandle`. Data races on memory the code does not share are not modelled; the
variables that threads share are accessed under the mutex or atomically. Overflow of 64-bit
timeline values and 32-bit generations is not reached by any run of a program and is left out.
