# Verification of the UWVM2 Vulkan wrapper

The repository is a plugin that gives WebAssembly guests a Vulkan API. A guest
names Vulkan objects by 64-bit handles. The plugin keeps tables from handles
to the driver's objects, reads and writes the guest's linear memory through a host
API, and calls the Vulkan driver through a library it loads at run time. This
directory holds TLA+ models of that code, the TLC configurations that check them,
and TLAPS proofs about them. `PROJECT.json` maps every definition to the lines it
models. Paths of code below are relative to the repository's own `src/`; its README, tests,
examples and build files are beside that.

## Inventory

| Component | State | Operations | Module |
|---|---|---|---|
| Handle registry and entry points (`vulkan/api.cc`, `runtime/handle_registry.h`, `runtime/plugin_context.h`) | twelve `HandleTable`s (handle -> native handle, parent handles), a `next_handle_` counter in each, one context mutex | about fifty entry points that create, look up, use and destroy objects | `VulkanObjects` |
| Guest structures and arrays (`vulkan/api.cc`, builders and list readers) | locals of one call | read a structure, then the arrays, strings and structures it refers to; call the driver with them | `GuestStructures` |
| Results to the guest (`vulkan/api.cc`, `WriteGuest*`) | locals of one call, the guest's memory | write a handle, an array of handles, or a count and a list; undo on failure | `GuestResults` |
| Memory copies (`vulkan/api.cc:595-653`) | which device memories are mapped, what the device and the host see of them | map, copy, flush or invalidate, unmap | `MemoryCopies` |
| Guest memory (`runtime/memory_access.cc`, `runtime/plugin_context.cc`) | `explicit_host_api_`, `host_api_`; the memory, its descriptor and its length belong to the host | `Read`, `Write`, `ReadString`, `SetExplicitHostApi`, `ResolveHostApi` | `GuestMemory` |
| Vulkan loader (`vulkan/dynamic_backend.cc`) | `loader_attempted`, `loader_available`, the library, six function pointers, the backend mutex | `EnsureLoaderLocked`, a symbol lookup in every call | `VulkanLoader` |
| WASI file system (`runtime/wasi_file_system.h`) | `explicit_wasi_host_api_`, `host_api_` | nine file calls, the checks whether a table has them | `WasiFileSystem` |
| Plugin exports (`plugin/*`, `abi/*`) and the guest's import declarations | constant tables | link an import, decode a parameter block, call an entry point, store the result | `PluginExports` |
| Layouts in the guest SDK headers, native ABI | none | declarations | not modelled |
| Example, tests, build | none | | not modelled; read for what the code is meant to do |

How they interact. The runtime calls an entry of the plugin exports, on whatever
thread the guest runs on; the entry reads its parameters out of one block of bytes and
calls an entry point of `api.cc`. The entry point reads its arguments from guest memory
(partly before it locks), locks the context mutex, looks handles up, calls the
backend (which locks a mutex of its own for the call) and writes handles or
results back to the guest, most often under the lock. All guest threads share one
`PluginContext`.

What is hard about it:

- A few handlers are not one critical section. `EnumeratePhysicalDevices` releases
  the lock between asking the driver and registering what it got, and once more before
  it writes the handles; `WaitForFences` and `ResetFences` release it between resolving
  a list of fences and using it; `CreateInstance` calls the driver before it locks.
- The waits (`DeviceWaitIdle`, `QueueWaitIdle`, `WaitForFences`) block in the driver
  with the context mutex held, for as long as the guest asks.
- `DestroyDevice` and `DestroyInstance` walk ten tables, destroy children before
  parents and then erase records table by table. Several physical-device handles can
  name one physical device, so the devices of an instance hang under several handles.
- `CreateCommandPool` and `AllocateCommandBuffers` undo themselves when the handle
  cannot be written back; every other create does not.
- The driver may reuse a native handle as soon as the object is gone.
- Guest memory belongs to several threads. A structure and the arrays it refers to
  are separate reads, and what lies between them may change.
- A direct access to guest memory uses a length that was read before the copy, and
  the guest may grow the memory in between.
- Mapped memory need not be coherent, and each way out of a copy that has mapped it must
  unmap it. One does not: a driver that reports success and gives no address is answered
  by an error alone. The bytes of a copy move while other guest threads store to them.
- A library may open and yet lack commands; then its pointers stay set after it is
  closed, and a destroy without its command does nothing while the record goes.
- The driver is asked twice for its physical devices, and the answers may differ.
- The host's table of file functions is read again for every check and once more for
  the call, without a lock, and its size depends on the version of the host.
- Four hand-written tables must agree on the parameters of 46 functions.

What makes each component correct:

- Registry: no record refers to an erased one; a record leads to a live object of its
  kind under its parent's object; a live object has exactly one owner; a handle is
  final; the driver never gets a dead object; children die before parents; the mutex
  is released and calls return. Together the tables are one forest (`ObjectLifetimes`).
- Structures: the driver may follow every pointer as far as the count beside it says,
  and no read is larger than the room made for it.
- Results: the answer, the count and the handles the guest sees belong together; what
  cannot be written back is undone where the code undoes it; a handle that arrives
  names a registered object.
- Guest memory: what the plugin copies itself lies in the memory; each access is one
  atomic decision about its range, whatever the delivery; a range that wraps does not pass.
- Memory copies: nothing stays mapped after a return, except where the driver gave no address
  or cannot unmap; after a successful copy both sides agree wherever the guest has not stored meanwhile.
- Loader: the library is tried once; no pointer into a closed library is called; objects
  leak, or die before their children, only if the library cannot destroy them.
- WASI file system: nothing is read beyond a table or called through null; a call is
  forwarded exactly if the table it was made under has the function.
- Exports: every import links, every argument arrives under its name, and no entry
  reads past its block.

`PROJECT.json` lists the hazards with their lines and the properties that cover each.

## Modules

| Module | What it is |
|---|---|
| `ObjectLifetimes` | abstract specification: a forest of objects, each added once, below one that exists, and removed with all that is below it |
| `VulkanObjects` | the registry, all entry points that touch it, the driver's object lifetimes, several guest threads; implements `ObjectLifetimes` |
| `MCVulkanObjects` | its instances: how many handles of which kinds |
| `VulkanObjectsProofs` | theorems about its tables, the refinement among them, then about the driver's objects, how calls progress, and guests that keep Vulkan's rules |
| `GuestStructures`, `GuestStructuresProofs` | arguments read out of guest memory; their theorems |
| `GuestResults` | handles, counts and lists written to guest memory, with rollbacks; implements `ObjectLifetimes` |
| `MCGuestResults`, `GuestResultsProofs` | its instances and its theorems |
| `AtomicMemory` | abstract specification: a memory each of whose accesses is let through or refused at one instant; the bytes are left out |
| `GuestMemory` | accesses step by step under every delivery; implements `AtomicMemory` |
| `MCGuestMemory`, `GuestMemoryProofs` | its instance; its theorems, the refinement among them |
| `CellCopies` | abstract specification: copies one at a time, each of which takes every cell of the region at an instant of its own |
| `MemoryCopies` | copies between guest and device memory, step by step, over memory that is not coherent; implements `CellCopies` |
| `MCMemoryCopies`, `MemoryCopiesProofs` | its instance; its theorems, the refinement among them |
| `VulkanLoader` | loading the library, finding commands, every backend function |
| `MCVulkanLoader`, `VulkanLoaderProofs` | its instance and its theorems |
| `WasiFileSystem` | the file calls, their checks, the choice and replacement of the table |
| `MCWasiFileSystem`, `WasiFileSystemProofs` | its instance and its theorems |
| `PluginExports`, `PluginExportsProofs` | the four tables of parameters and a call that goes through them; its theorems |

### VulkanObjects and the code

`table[k]` is the `HandleTable` of kind `k` and `next[k]` its `next_handle_`. A record
has its native handle, its parent's guest handle and, for a command buffer, its pool.
`live` is the driver: its live objects with their kind and parent. `lock` is the
context mutex while a thread keeps it from one step to the next, and `call[t]` the
call thread `t` is in, with the locals that survive from one step to the next. `misuse`
collects the ways in which the driver was handed an object it does not have.

One critical section is one step when nothing in it can block. A call takes several
steps where the code gives the interleaving away:

| Call | Steps |
|---|---|
| `CreateInstance` | `CreateInstance` (the driver, no lock), `InsertInstance` |
| `EnumeratePhysicalDevices` | `EnumeratePhysicalDevices`, `InsertPhysicalDevices` |
| `WaitForFences`, `ResetFences` | `ResolveFenceList`, then `WaitForFences` or `ResetFences`, or `FenceDeviceGone` |
| `DeviceWaitIdle`, `QueueWaitIdle`, `WaitForFences` | the call into the driver, then `WaitReturns` |
| `DestroyDevice`, `DestroyInstance` | the lookup, one `DestroyStage` per table in the code's order, `FinishTeardown` for the erasures |

The early returns (a null address, an unreadable structure, an unknown handle, an
object of another device, an error of the driver) change nothing and are
`RejectedCall`. Failures that do change something are in the action itself: `written`
says whether the handle could be written back. `BackendFree` is the backend's own
mutex, which only `CreateInstance` can find taken, because every other call
gets to the backend with the context locked.

A physical device is not told from its instance in the driver, nor a queue from its
device: the driver owns both, and they live as long as their owner.

### ObjectLifetimes

`parent` is the forest and `used` every handle ever spent. Its two actions are stated by
the forest before and after: `Add` puts fresh handles below existing ones, `Remove` takes one object
or several siblings with all that is below them. `Late` are the objects that may be added
although their parent is gone, which both implementations give the physical devices.
`VulkanObjects` maps its twelve tables to one forest; `GuestResults` keeps the forest
itself. So the two agree on what the registry is although they share no variable.

### GuestStructures and the code

`Parts` says which arrays, strings and structures each builder reads after its structure,
in the code's order. A call reads the structure (`ReadStructure`), then each part
(`SkipPart` if it is absent, `ReadPart`, `FailPart`), then what the elements of the part
refer to, one at a time (`ReadItem`, `FailItem`: strings, the priorities of a queue). Every read
returns any value, which is what guest memory that other threads write to comes to, and
may fail. At the end the driver is called with the counts that were kept and the storage that
was filled (`CallDriver`), or what was read names nothing registered (`RefuseArguments`).
The storage is local, so one call at a time is enough.

### GuestResults and the code

A create registers its objects (`Create`) and writes their handles before it unlocks
(`WriteHandles`); if that fails, pools and buffers are taken back and other objects stay
(`WriteHandlesFails`, `TakenBack`). A list goes through `WriteGuestBuffer`:
`WriteCount`, then `WriteValues`, either of which may fail; the list of
`EnumeratePhysicalDevices` is made by `InsertPhysicalDevices` in a second critical section and
is written after it. `told` are the handles that have arrived in guest memory; `call[t]`
keeps the answer until the guest looks at it (`Return`). The registry is the forest of
`ObjectLifetimes`, in which a handle is the object's name.

### GuestMemory and the code

`delivery`, `limit` and `length` are what the host describes of the memory. `host`
stands for `host_api_`, `explicit` for `explicit_host_api_`, and `exported` for the
symbol `ResolveHostApi` falls back to. An access runs through `Read`/`Write`/`ReadString`
(the context hands out the accessor and resolves the API), `FindDescriptor` (the
length is read), `CheckRange` (with the length of the descriptor, or with the atomic
one for dynamic bounds) and `Move` (the plugin's own copy); or through
`CopyThroughHost`, the host's callback. `Grow` may happen between any two steps.
Addresses and sizes are words below `Word`, so that sums that wrap in the code can wrap
in the model (`RangeIsValid` is written, as in the code, so that none does).

### MemoryCopies and the code

`VulkanObjects` treats a copy as one use of a memory; this module opens it up.
`device[m]` is what the device sees of memory `m` and `call[t].data` what the host sees through
the mapping of thread `t`'s copy. A flush brings the device what the host sees, an invalidation
the other way round, and an unmap may or may not write back what was not flushed, cell by
cell. `call[t].at` is where the thread is in `CopyBetweenGuestAndMappedMemory`: `MapMemory`, then
`ReadGuest` and `FlushMappedMemory`, or `InvalidateMappedMemory` and `WriteGuest`, then
`UnmapMemory` (the lambda `unmap_guard`) and `Return`. Each step has its failures as further
disjuncts.

The region is a set of `Cells`. `memcpy` and the host's callback give no atomicity beyond a
piece of the region, so `ReadGuest` and `WriteGuest` move one cell at a time, in any order and
possibly more than once (`call[t].left` are the cells not moved yet), and the guest stores to
single cells between any two steps (`GuestStores`). The host's callback may fail after it
has moved some. `GuestMemory` has the decision that precedes the bytes; here it may come out either way.

`MapMemory` has three outcomes: the driver fails; it maps; or it reports success and gives no
address, which the code answers with an error and no unmap (`vulkan/api.cc:611-612`). `stuck` are the
memories that such a call has left mapped, or one over a driver without `vkUnmapMemory` (`canUnmap`),
until a later copy or a free unmaps them. `misuse` records how a mapping rule of Vulkan was
broken: `stuck` if a memory was mapped again that an earlier call left mapped, `illegal` otherwise.
`canSync` says whether the driver has the flush and invalidate commands; without them the
backend reports success at once, and what a success says of the two memories is left open.
`stored` is a history of the cells the guest has stored to since the last copy began.

In `CellCopies` there are no mappings and no mutex: a copy is called, takes cells, and is decided.
`Abstract` maps a call to it: its value is the cells it has moved, and it is decided once
it only unmaps and returns.

### VulkanLoader and the code

A library is a record of the commands it exports and of those its own lookup
functions find without an instance, with one and with a device. `disk` gives each candidate
name a library; names and libraries change at any time. `loader` has the fields of
`DynamicBackend::Impl`: `loader.library` is the library whose pointers are set, which
`loader.open` may have closed again. `Global`, `Instance` and `Device` are
`LoadGlobalLocked`, `LoadInstanceLocked` and `LoadDeviceLocked`. The functions that use
them follow three patterns: `Use`, `Create` and `Destroy`.

Every backend function runs under the backend mutex and is one step, together with
the entry point around it; only the enumeration of physical devices asks the driver
twice and is two, `EnumeratePhysicalDevices` and `FillPhysicalDevices`. The
interleavings of the entry points are in `VulkanObjects`; this module keeps one object
of each kind, named by its kind. `registered` are the kinds that have a handle, `live` those
the driver has, and `faults` what went wrong in calls to the driver.

### WasiFileSystem and the code

A table is what `Contents` says of it: its version, its `struct_size` and the functions
that are not null. `End(f)` is where field `f` ends, from the order of the fields in
`uwvm_wasip1_host_api_v1`. `explicit`, `exported` and `host_api` are the table the host has set, the
one the process exports, and the wrapper's own pointer, which every use stores again. A call resolves
(`Resolve`) and stores the table (`SetHostApi`) and reads `host_api_` again in each of
`CheckAvailable` (whose three conditions each read it; the model reads once for them),
`CheckField`, `CheckPresent` and `Forward`. `first` is the table it
looked at first and `same` whether it has seen no other since; `fault` is what a read
or call through a table that lacks it comes to. `settled` says whether the host leaves its table
alone while calls run; the threads' own stores interleave either way.

### PluginExports and the code

`Imports` are the declarations of the guest's header, `Exports` the types in
`kFunctions` (joined from the exports of instances, of commands and of resources), `Structs` and `Entries` the parameter structs and the order in which an entry
passes their fields, `Parameters` the functions of `api.h`. A value is the sequence of
its bytes, each named by its argument, so a field read at the wrong place shows. The
runtime links an import if the types agree (`Call`), the entry loads its struct from the
block and calls (`Enter`), and the result is stored if there is room (`StoreI32Result`).
`Packed` says whether the structs are packed.

## What the runs check

| Run | Bounds | Shows |
|---|---|---|
| `objects_tree` | 1 thread; 1 instance, 2 physical devices, 2 devices, 2 pools, 2 command buffers, a buffer, an image, a memory; 5 native handles | `TypeOK`, `TablesClosed`, `RecordsBacked`; for a single thread only a repeated handle in a free list gives the driver a dead object (`SequentialCallsAreSafe`); the tables implement `ObjectLifetimes` (`ImplementsLifetimes`) |
| `objects_threads` | 2 threads; 2 instances, 2 physical devices, 2 devices, 1 fence; 4 native handles; waits may be endless | `TeardownCurrent`, `ParentsOutliveChildren`, `ExactlyOneOwner`, `LockedCallsAreSafe`, `HandlesFinal` |
| `objects_live` | 2 threads; 1 instance, physical device, device, queue, fence, semaphore, shader module; 3 native handles; waits may be endless | `LockReleased`, `CallsReturn` under `FairSpec` |
| `guest_results` | 2 threads; an instance, 2 physical devices, a device, a pool, a command buffer; lists up to 2 | `TypeOK`, `RollbackComplete`, `AnswersAgree`, `ToldIsRegistered`, `ImplementsLifetimes` |
| `guest_results_count` | 1 thread; an instance, 3 physical devices; lists up to 2 | violated: see Findings |
| `guest_structures` | arrays and strings up to 2 | `TypeOK`, `ReadsFit`, `DriverGetsWhatItCounts` |
| `guest_memory` | 2 threads; words below 4; every delivery, limit and length | `TypeOK`, `DirectInBounds`, `AtomicAccess` |
| `memory_copies` | 2 threads, 2 memories, 2 cells with 2 contents each | `TypeOK`, `MappedWhileCopied`, `MappingsPaired`, `CopiesAreExact`; copies implement `CellCopies` (`ImplementsCellCopies`) |
| `vulkan_loader` | 2 candidate names, 5 libraries, at most 2 children of a device at a time | `TypeOK`, `CallsReachTheLibrary`, `DeadOnlyIfShrunk`, `LeaksNeedGap`, `OrphansNeedGap`, `LoadedOnce` |
| `vulkan_loader_found` | 2 names, 5 libraries | violated: see Findings |
| `wasi_file_system` | 2 threads, 5 tables | `TypeOK`, `OnlyReplacementFaults`, `AnswersMatchTable` |
| `plugin_exports` | all 46 functions, packed structs | `EveryImportLinks`, `ArgumentsArrive`, `ReadsStayInBlock` |

### Why the bounds are enough

Objects. Handles are counted by `Limit`: how many of each kind are
ever issued. Two of a kind are what an aliased physical device, an object of the
wrong device, a command buffer of the wrong pool and a second handle for the same
native value need, and there are fewer native handles than objects are ever created,
so the driver reuses them. Two threads are what each race has: one inside a call, one that
acts in between. The kinds other than those a run names are switched off in it
(limit 0), and the runs between them switch on every kind. The leaf kinds share
their actions, so a few of them stand for the others in any one run. The proofs cover
every `Limit`.

Results. Two handles per list and capacities 0 to 2 cover a list that is empty, shorter than the
capacity, as long and longer. One list of plain values is written at a time
(`NoOtherList`), since such lists share nothing; lists of physical devices are written by both
threads at once. `Spare` keeps handles for the enumerations under way.

Structures. With two elements there is a first, a last and a failure between them; code
has up to two words and every number of bytes, so also sizes that are not whole words.

Copies. Two threads and two memories let a second copy or a free meet a first one at
the same memory, also one that is still mapped, and at another; two contents tell a stale view
from a fresh one; two cells let a store, a failure or a partial write-back come between them, so
that a copy can be a mixture. The proofs cover any number of cells and contents.

Loader. Two names let an incomplete library hide a complete one. The five libraries
are one that answers as a conforming loader does, one without two of the destroy
commands of children, one that cannot destroy devices, one that opens and is no Vulkan
library, and one that lacks a required command. Two children at a time are enough for
a command buffer with its pool and for a memory bound to a buffer; what a teardown
destroys does not depend on how many there are.

Guest memory. Words below 4 include the empty range, a range that ends at the length, one that
passes it by one, one that wraps, and a limit below and at the length. The proofs cover
every other word size.

Files. The tables are one with every function, one that ends in the middle of the last field,
one of another version, one with null functions, and one too short to say that it has anything.
Two threads call at once while the host is settled; where it may replace its table
during a call there is one call at a time (`Alone`), because the other call would only
store what the host has set.

Three runs switch the deadlock check off. In `objects_threads` and `objects_live` a guest that
waits without timeout under the mutex stops everything: that is what the code does,
and the properties say so. In `wasi_file_system` a call that reads what is not there has no
next step, and the others may all have ended so. Elsewhere all handles may be issued without
stopping anything, since rejected calls go on.

Each property of a passing run has a broken variant of one definition ("Mutant of" in
the modules) under which TLC finds it violated: a teardown that skips a table, a
handler that does not lock, a parent that is not compared, a counter that follows
the table's size, a rollback that is half done, a count that is read twice, a field that only has to
begin within its table, two parameters that are swapped.

### What the properties say of the code as it is

Weaknesses of the code that are in the model and shape the properties:

- `misuse` may contain `fence_list`. A fence can be destroyed, and its native handle
  reused, between the two critical sections of `WaitForFences` and `ResetFences`.
- `misuse` may contain `physical_device`, and `NoOrphans` may fail. A physical device can
  be registered after its instance is gone; no later call erases it.
- `misuse` may contain `free_list`. A handle repeated in the list of
  `FreeCommandBuffers` reaches the driver twice. This needs one thread only.
- `ToldIsRegistered` has the physical devices as an exception: their handles are written
  when the lock is gone.
- `misuse` of `MemoryCopies` may contain `stuck`. A memory stays mapped when the driver
  reports success without an address, or has no unmap command; the next copy maps it again.
- A copy may succeed with a mixture that neither side ever had as a whole, if the guest stores
  meanwhile: `CopiesAreExact` speaks of the other cells, `CellCopies` of each cell alone.
- A file call may go wrong if the host replaces its table during the call, and only then
  (`OnlyReplacementFaults`).

`LockedCallsAreSafe` says that the first three are all of their kind: a call whose handles are looked up in
the critical section that uses them never hands over a dead object.
`SequentialCallsAreSafe` says that the first two need a second thread, and
`SparingGuestsGetLiveObjects` that this thread must destroy what the other's call has in hand.
`ParentsOutliveChildren` has the orphan as its only exception.

### Fairness

`HolderFairness` (weak, per thread, on `Continue`): a thread that has the mutex runs on,
and a wait in the driver ends. No entry point submits work to a queue, so a device
or queue is idle and a wait for it has nothing to wait for; a fence wait with a timeout
ends by it. A wait without timeout for a fence nobody signals is
`waiting_forever` and has no step; both liveness properties have it (`StuckInWait`) as their
only exception.
`MutexFairness` (strong, per thread, on `Reacquire`): a thread that waits for
the mutex in the middle of a call gets it at some point although others take it
in between. C++ does not promise this of `std::mutex`; implementations deliver it in
practice. `CallsReturn` needs it, `LockReleased` does not.

## Findings

`EnumeratePhysicalDevices` cuts the driver's list to the guest's capacity before it hands it to
`WriteGuestBuffer` (`vulkan/api.cc:949-950`), which takes the length of what it is given
for the total (`vulkan/api.cc:98`). So the guest is told a count that is at most its own
capacity, a query with capacity 0 is told 0 devices with success, and `INCOMPLETE` is never returned.
The other lists go to the same helper whole, and `test/vulkan_api_test.cc:905-910`
requires `UWVM_VK_INCOMPLETE` with the full count of them. `guest_results_count` shows it.

The smoke example's `README.md:72-74` (`examples/wasm32-wasip1-vulkan-smoke/`) promises
`loader_available=1` if "a host Vulkan loader is available", and the example prints "no host
Vulkan loader was found" otherwise. `EnsureLoaderLocked` takes the first candidate
that opens; if that library is incomplete, the other candidates are not tried
(`vulkan/dynamic_backend.cc:144-154`). `vulkan_loader_found` shows a loader that is
there and not found.

Two more observations have no run:

- `README.md:199` of the repository says of `mmap_partial_protection`: "Direct pointer access
  is used with both partial-region and full-length checks." `DirectRangeIsValid`
  (`runtime/memory_access.cc:175-181`) lets an access through as soon as one of the two
  passes. With a host whose limit lies within the memory this is harmless: `DirectInBounds`
  holds and is proved under `LimitWithinLength`, which is the assumption the code makes of
  the host.
- `uwvm2_vulkan/impl.h:24-32` leaves the parameter structs unpacked for compilers it does not
  know. With `Packed = FALSE` `ArgumentsArrive` fails for every struct with a 64-bit
  field that does not fall on a multiple of eight. The build lets such a compiler
  through on Windows (`xmake.lua:10`).

## What is proved

All proofs are checked by TLAPS for every value of the constants, under the named assumptions of
the modules (sentinels are none of the real values, bounds are natural numbers, tables
have their types).

`VulkanObjectsProofs`: for any set of threads, any native handles and any `Limit`,

- `TypeSafety`: `Spec => []TypeOK`;
- `MutualExclusion`: `Spec => []LockHeld`, that a call in a wait or a teardown has the mutex;
- `TeardownsStayCurrent`: `Spec => []TeardownCurrent`;
- `NoDanglingReferences`: `Spec => []TablesClosed`;
- `HandlesAreFinal`: `Spec => HandlesFinal`;
- `TablesImplementLifetimes`: `Spec => ImplementsLifetimes`.

The invariant is `Inv == TypeOK /\ LockHeld /\ TeardownCurrent /\ TablesClosed`. `TablesClosed`
alone is not inductive: the erasures at the end of `DestroyInstance` go by a set of devices that was
collected at its start, so they leave a dangling reference if a device is added in
between. `TeardownCurrent` says that none is, and it holds because of `LockHeld`: no
other thread gets into a critical section. The steps fall into two groups, which insert fresh
records of one kind whose parents are registered (`Inserts`), or which erase records
with everything that refers to them (`Shrinks`). A lemma for each group does the work once; each
action then has a lemma that puts it in its group. `HandlesFinal` follows
because fresh handles lie above all registered ones, and the refinement because an
insertion is an `Add` (`InsertsAdd`) and an erasure a `Remove` (`ShrinksRemove`).

The same module about the driver:

- `RegisteredObjectsLive`: `Spec => []RecordsBacked`;
- `NothingLeaksInTheDriver`: `Spec => []ExactlyOneOwner`;
- `LockedCallsGetLiveObjects`: `Spec => []LockedCallsAreSafe`;
- `ChildrenGoFirst`: `Spec => []ParentsOutliveChildren`;
- `SparingGuestsGetLiveObjects`: `Spec /\ [][Spares]_vars => [](NoOrphans /\ SequentialCallsAreSafe)`;
- `OneThreadGetsLiveObjects`: `Spec => [](OneThread => SequentialCallsAreSafe)`.

None of these is inductive while a teardown runs, because then records and objects differ.
`DriverInv` says by how much. A record is `Standing` if the teardown under way, if
there is one, has not destroyed its object yet; `TeardownsStaged` says how far that is in its
order. `Backed` makes standing records and live objects correspond one to one, but for the
instances between the two halves of `CreateInstance`, which `Arriving` describes. `Views` adds
that a physical device stands for its instance and a queue for its device. Two
lemmas do most of the work: a step that destroys objects together with the records that stand for
them keeps all this (`Loses`), and so does one that makes one object for each new record
(`Gains`). Each action is then put under one of the two. A stage of a teardown only destroys
what stands (`CondemnedStand`), and nothing is left below the devices when
they go (`DevicesChildless`).

`Spares` is what Vulkan asks of a guest with several threads: no step destroys an object that a
call of another thread holds on to between two critical sections. `NoOrphans` and
`SequentialCallsAreSafe` do fail without it (see above). With it, what a call has found still
stands with its record when it takes the lock again (`FoundStands`, `StepFound`): a record stands
on as long as the driver has its object (`StandOn`), which comes with `Loses` and `Gains`. That
no physical device outlives its instance then follows from the step of `ObjectLifetimes` that each
step implements. A single thread spares everything (`OneThreadSpares`), so
its theorem is a special case.

And about the progress of calls:

- `CallsAreShort`: `Spec => []FewStepsLeft`;
- `CallsOnlyAdvance`: `Spec => [][CallsAdvance]_vars`;
- `OnlyTheMutexBlocks`: `Spec => []Unblocked`.

`StepsLeft` counts the steps a call still has to make. It is at most ten, and 0 exactly for a thread
that is in no call; no step of another thread changes it, each step of its own makes it
smaller, and the mutex is given back where it becomes 0. `Unblocked` is what the calls that
wait for the mutex need beside it. This is the part of `CallsReturn` that is a matter of safety; what
is left to TLC is that fair threads do take their steps.

`GuestResultsProofs`: for any threads, handles and lengths of lists,

- `TypeCorrectness`, `RollbacksAreComplete`, `AnswersAreTrue`, `ToldHandlesAreRegistered`:
  the three invariants and the action property of the run;
- `RegistryImplementsLifetimes`: `Spec => ImplementsLifetimes`.

The invariant says what a call has written at each point (`Steady`) and what the guest has been
told when it is answered (`Told`). While a create keeps the lock its objects stay registered, are
siblings and have no children (`Fresh`), so that what it takes back is a whole subtree.

`GuestStructuresProofs`: for any bound on counts, `TypeCorrectness`, `ReadsAreBounded` (`ReadsFit`)
and `CountsAreTrue` (`DriverGetsWhatItCounts`). The invariant (`Progress`) says that every part
before the current one is complete, and of the current one every element before the
current item; a count that reached the driver is the one the part was read by, since the
structure is kept.

`GuestMemoryProofs`: for any threads and any word size, when the host's limit lies
within the memory,

- `TypeCorrectness`: `Spec => []TypeOK`;
- `DirectAccessesAreInBounds`: `Spec => []DirectInBounds`;
- `AccessesAreAtomic`: `Spec => AtomicAccess`, that is `Atomic!Spec`.

The invariant adds to the types what a running access knows (`Knows`): the length it
read is at most the current one, because memories only grow. For the refinement an
access takes effect where it finds the descriptor if it will be checked against the
length in it, and where its range is checked if that reads the current length. Every
step of `GuestMemory` is then the abstract `Call`, `Decide`, `Return`, `Grow` or
`Connect`, or a stutter.

`MemoryCopiesProofs`: for any threads, memories, cells and contents of a cell,

- `TypeCorrectness`: `Spec => []TypeOK`;
- `MappingsAreTemporary`: `Spec => []MappedWhileCopied`;
- `MappingsArePaired`: `Spec => []MappingsPaired`;
- `CopiesAgreeWhereUndisturbed`: `Spec => []CopiesAreExact`;
- `CopiesImplementCellCopies`: `Spec => ImplementsCellCopies`.

The invariant says that only the thread that has the mutex is in a copy (`OneCopy`), that while it is
free exactly the stuck memories are mapped, and what a copy knows at each stage (`Knows`): that its
memory is allocated and mapped (`Maps`), and what its data is worth (`Holds`). Each cell it has
moved and the guest has left alone is the guest's; after an invalidation the data is the device's;
and a copy that succeeded has moved every cell and, if the driver can sync, its data is the
device's. `CopiesAreExact` is the two ends of that put together. One lemma,
`CopyAdvances`, shows that the other threads are unaffected, so each action only has to re-establish
`Knows` of its own; `WrittenBack` is why a late write-back of an unmap does not undo a
flush. For the refinement each step is an action of `CellCopies` or a stutter: mapping and
invalidating are stutters, a moved cell is a `Fetch` or a `Deliver`, a flush is an `Arrive`, and an
unmap that still writes something back a `Settle`.

`VulkanLoaderProofs`: for any libraries, any number of candidates and any `ChildLimit`,
`TypeCorrectness`, `NoWildCalls` (`CallsReachTheLibrary`), `DeadObjectsComeFromShrunkLists`
(`DeadOnlyIfShrunk`), `LeaksComeFromGaps` (`LeaksNeedGap`), `OrphansComeFromGaps`
(`OrphansNeedGap`) and `LibraryIsLoadedOnce` (`LoadedOnce`). Most functions do not look whether a
library was loaded. The invariant has the reason why they need not (`NothingWithoutLibrary`):
without one there is no handle to call them with. It adds that handles stand for live objects
(`HandlesAreLive`) and that what an object was made from is registered (`ParentsRegistered`). A
teardown then leaves a child alive only if the library cannot destroy it: a registered one was
passed to its destroy function, an unregistered one had leaked before.

`WasiFileSystemProofs`: for any threads and any tables, `TypeCorrectness`,
`FaultsNeedReplacement` (`OnlyReplacementFaults`) and `AnswersAreThoseOfTheTable`
(`AnswersMatchTable`). The invariant says what a
call has learned of the table it looked at first, as long as it has seen no other (`Knows`),
and that while the host is settled every call under way has resolved, stored and seen the table
that governs now (`Undisturbed`): all threads store the same.

`PluginExportsProofs`: for any bytes the runtime can pass and any results of the functions,
`TypeCorrectness`, `ImportsLink` (`EveryImportLinks`), `ArgumentsComeThrough`
(`Packed => ArgumentsArrive`) and `ReadsAreInside` (`Packed => ReadsStayInBlock`). `Packed` is a hypothesis
because the last two are false without it (see Findings). That the tables agree is proved function by function, in
three groups. Decoding is proved once for all of them: a packed struct laid over the
concatenation of values of its fields' widths gives these values back, for any number of fields
(`InductionUpTo` on the number of fields: if it failed there would be a least number at which it
does. This takes the library's facts about well-founded relations and no operator
as a parameter, which is what keeps its induction theorems out of reach).

Only model-checked is liveness (`LockReleased`, `CallsReturn`): fairness and ENABLED
are outside the prover's reach. No module uses recursive operators.

## Not modelled

- Layouts of the guest structures and of the native ABI (`vulkan_types.h`, `native_abi.h`): fields
  are modelled by name, not by offset.
- What only the driver looks at in a create-info (flags, formats, sizes), queue families,
  command-buffer levels, recording state, memory types: no property here depends on them.
- The arguments of the file calls, which are passed on unchanged.
- A host that replaces its memory API while a guest is in a call: `host_api_` is then
  read and written without synchronisation. `GuestMemory` lets the API change between calls.
- The offset and size of a copy, and their rounding to what flushes and invalidations require.
- Leaked objects together with several objects of a kind: `VulkanObjects` has a driver with every
  command, `VulkanLoader` one object of each kind.
- The exceptions that a failed allocation would raise: every entry point is `noexcept`, so
  the process ends.
- Growth of the tables: a guest that enumerates again and again gets new handles each time.

## Plan

The modules above are the plan's core: registry, driver, marshalling both ways, memory, copies,
loader, files, exports, and proofs of every safety property of theirs. What would extend it:

1. Offsets and sizes of a copy, with `nonCoherentAtomSize`, in `MemoryCopies`.
2. `VulkanObjects` over a driver that lacks commands, so that leaks and several objects of a
   kind come together.
3. Offsets of the guest structures, from `vulkan_types.h`.
