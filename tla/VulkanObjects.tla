---------------------------- MODULE VulkanObjects ----------------------------
(***************************************************************************)
(* The object registry of the plugin: the handle tables of PluginContext   *)
(* (runtime/handle_registry.h), the entry points of vulkan/api.cc that     *)
(* create, look up and destroy Vulkan objects through them, called by      *)
(* several guest threads at once, and the Vulkan driver behind the         *)
(* backend.                                                                *)
(*                                                                         *)
(* A critical section of a handler (std::scoped_lock on context.mutex())   *)
(* is one step when nothing in it can wait.  A handler that drops the lock *)
(* and takes it again, that calls the backend outside it, that blocks      *)
(* inside the driver or that destroys a tree of objects is several steps.  *)
(* A call that returns early (a null address, an unreadable structure, an  *)
(* unregistered handle, a driver error) changes nothing: RejectedCall.     *)
(*                                                                         *)
(* Left out: the contents of create-info structures, queue indices,        *)
(* command-buffer levels and recording state.  A physical device is not    *)
(* told from its instance in the driver, nor a queue from its device: the  *)
(* driver owns both and they live as long as their owner.                  *)
(*                                                                         *)
(* "Mutant of D" marks a broken variant of definition D.  No specification *)
(* uses it: it stands for a plausible bug in the code, put in place of D   *)
(* to see that a property notices.                                         *)
(***************************************************************************)
EXTENDS Naturals, FiniteSets, Sequences

CONSTANTS
  Threads,        \* guest threads that call into the plugin
  NoThread,       \* the owner of the context mutex when it is free
  Natives,        \* values the driver uses as native handles; it may reuse them
  NoNative,       \* the parent of an instance in the driver
  Limit,          \* bound: how many handles of each kind are ever issued
  UnboundedWaits  \* whether guests wait without timeout on unsignaled fences

LeafKinds == {"shader_module", "semaphore", "fence", "buffer", "image", "memory"}
DeviceChildKinds == LeafKinds \cup {"queue", "command_pool", "command_buffer"}
Kinds == DeviceChildKinds \cup {"instance", "physical_device", "device"}

\* The kinds whose records own a driver object that has to be destroyed.
OwningKinds == Kinds \ {"physical_device", "queue"}

ASSUME NoThreadAssumption == NoThread \notin Threads
ASSUME NoNativeAssumption == NoNative \notin Natives
ASSUME LimitAssumption == Limit \in [Kinds -> Nat]
ASSUME UnboundedWaitsAssumption == UnboundedWaits \in BOOLEAN

VARIABLES
  table,   \* kind -> (registered handle -> record): the HandleTables
  next,    \* kind -> next_handle_ of its table
  live,    \* native handle -> kind and parent, of the driver's live objects
  lock,    \* the thread that keeps the context mutex across steps
  call,    \* thread -> the call it is in, with that call's locals
  misuse   \* ways in which the driver was handed an object it does not have

vars == <<table, next, live, lock, call, misuse>>

NoHandle == 0   \* never issued: next_handle_ starts at 1

\* A record has its native handle and its parent's guest handle, a command
\* buffer also its pool.
Record == [native : Natives, parent : Nat, pool : Nat]
DriverObject == [kind : OwningKinds, parent : Natives \cup {NoNative}]

\* How an object the driver does not have got to it: through a handle checked
\* under the lock that covers the call, a physical device, a fence list that
\* was resolved earlier, a list with a repeated handle.
Misuses == {"direct", "physical_device", "fence_list", "free_list"}

Unlocked == {"idle", "insert_instance", "insert_physical", "wait_fences", "reset_fences"}
Teardowns == {"destroy_device", "destroy_instance"}
Waits == {"waiting", "waiting_forever"}
Holding == Waits \cup Teardowns

Call == [at : Unlocked \cup Holding, owner : Nat, devices : SUBSET Nat,
         natives : SUBSET Natives, stage : Nat]
Idle == [at |-> "idle", owner |-> NoHandle, devices |-> {}, natives |-> {}, stage |-> 0]

-----------------------------------------------------------------------------
(* HandleTable.  Insert takes the records of consecutive calls at once. *)

Only(x, v) == [y \in {x} |-> v]
Override(f, g) ==
  [x \in DOMAIN f \cup DOMAIN g |-> IF x \in DOMAIN f THEN f[x] ELSE g[x]]
Without(f, S) == [x \in DOMAIN f \ S |-> f[x]]

Registered(k) == DOMAIN table[k]
Native(k, h) == table[k][h].native
NativesOf(k, handles) == {Native(k, h) : h \in handles}
\* Mutant of Children: any object of the kind passes for a child.
AnyChildren(k, parents) == Registered(k)
Children(k, parents) == {h \in Registered(k) : table[k][h].parent \in parents}
\* Mutant of DevicesOf: forgets that several handles name one physical device.
FirstDevicesOf(instance) ==
  Children("device", {g \in Children("physical_device", {instance}) :
    \A h \in Children("physical_device", {instance}) : g =< h})
DevicesOf(instance) == Children("device", Children("physical_device", {instance}))

\* Within the bound Limit after n more handles.
Room(k, n) == next[k] + n =< Limit[k] + 1
\* Mutant of Fresh: the counter is advanced before it is used.
FreshAfterNext(k, n) == (next[k] + 1) .. (next[k] + n)
Fresh(k, n) == next[k] .. (next[k] + n - 1)
\* Mutant of Issue: handles follow the size of the table.
IssueBySize(k, n) == next' = [next EXCEPT ![k] = Cardinality(DOMAIN table'[k]) + 1]
Issue(k, n) == next' = [next EXCEPT ![k] = @ + n]
Insert(k, records) == table' = [table EXCEPT ![k] = Override(records, @)]
Erase(k, handles) == table' = [table EXCEPT ![k] = Without(@, handles)]

-----------------------------------------------------------------------------
(* The driver *)

Unused == Natives \ DOMAIN live
IsLive(k, n) == n \in DOMAIN live /\ live[n].kind = k

\* Every ns is a live object of kind k that belongs to p.
Owns(p, k, ns) ==
  \A n \in ns : n \in DOMAIN live /\ live[n] = [kind |-> k, parent |-> p]

Report(way, ok) == misuse' = IF ok THEN misuse ELSE misuse \cup {way}

\* Command buffers die with their pool.
Buried(ns) ==
  ns \cup {n \in DOMAIN live : live[n].kind = "command_buffer" /\ live[n].parent \in ns}

-----------------------------------------------------------------------------
(* Calls *)

\* Mutant of Enter: a handler does not lock the context.
EnterUnlocked(t) == call[t].at = "idle"
Enter(t) == lock = NoThread /\ call[t].at = "idle"
Resume(t, at) == lock = NoThread /\ call[t].at = at
Become(t, c) == call' = [call EXCEPT ![t] = c]
Return(t) == Become(t, Idle)
Hold(t, c) == lock' = t /\ Become(t, c)

RejectedCall(t) == Enter(t) /\ UNCHANGED vars

-----------------------------------------------------------------------------
(* Instances and physical devices *)

\* The backend's own mutex is taken for each driver call; a wait keeps it long.
BackendFree == \A u \in Threads : call[u].at \notin Waits

\* The backend is called before the context is locked.
CreateInstance(t) ==
  /\ call[t].at = "idle" /\ BackendFree
  /\ Room("instance", 1 + Cardinality({u \in Threads : call[u].at = "insert_instance"}))
  /\ \E n \in Unused :
       /\ live' = Override(Only(n, [kind |-> "instance", parent |-> NoNative]), live)
       /\ Become(t, [Idle EXCEPT !.at = "insert_instance", !.natives = {n}])
  /\ UNCHANGED <<table, next, lock, misuse>>

InsertInstance(t) ==
  /\ Resume(t, "insert_instance")
  /\ \E n \in call[t].natives :
       Insert("instance", Only(next["instance"],
         [native |-> n, parent |-> NoHandle, pool |-> NoHandle]))
  /\ Issue("instance", 1)
  /\ Return(t)
  /\ UNCHANGED <<live, lock, misuse>>

\* First critical section: the driver lists the instance's physical devices.
EnumeratePhysicalDevices(t) ==
  /\ Enter(t)
  /\ \E i \in Registered("instance") :
       /\ Report("direct", IsLive("instance", Native("instance", i)))
       /\ Become(t, [Idle EXCEPT !.at = "insert_physical", !.owner = i,
                                 !.natives = {Native("instance", i)}])
  /\ UNCHANGED <<table, next, live, lock>>

\* Second one: as many records as the guest has room for, possibly none, under
\* the instance found by the first.
InsertPhysicalDevices(t) ==
  /\ Resume(t, "insert_physical")
  /\ \E count \in 0 .. Limit["physical_device"], n \in call[t].natives :
       /\ Room("physical_device", count)
       /\ Insert("physical_device", [h \in Fresh("physical_device", count) |->
            [native |-> n, parent |-> call[t].owner, pool |-> NoHandle]])
       /\ Issue("physical_device", count)
  /\ Return(t)
  /\ UNCHANGED <<live, lock, misuse>>

\* A query of a physical device, with whatever the driver makes of a dead one.
QueryPhysicalDevice(t) ==
  /\ Enter(t)
  /\ \E g \in Registered("physical_device") :
       Report("physical_device", IsLive("instance", Native("physical_device", g)))
  /\ UNCHANGED <<table, next, live, lock, call>>

EnumerateDeviceExtensionProperties(t) == QueryPhysicalDevice(t)
GetPhysicalDeviceProperties(t) == QueryPhysicalDevice(t)
GetPhysicalDeviceFeatures(t) == QueryPhysicalDevice(t)
GetPhysicalDeviceMemoryProperties(t) == QueryPhysicalDevice(t)
GetPhysicalDeviceQueueFamilyProperties(t) == QueryPhysicalDevice(t)

-----------------------------------------------------------------------------
(* Devices and queues *)

\* As for every create but that of a command pool or buffers, the record stays
\* registered whether or not its handle can be written back to the guest.
CreateDevice(t) ==
  /\ Enter(t)
  /\ Room("device", 1)
  /\ \E g \in Registered("physical_device"), n \in Unused :
       LET parent == Native("physical_device", g) IN
       /\ Report("physical_device", IsLive("instance", parent))
       /\ live' = Override(Only(n, [kind |-> "device", parent |-> parent]), live)
       /\ Insert("device", Only(next["device"],
            [native |-> n, parent |-> g, pool |-> NoHandle]))
  /\ Issue("device", 1)
  /\ UNCHANGED <<lock, call>>

GetDeviceQueue(t) ==
  /\ Enter(t)
  /\ Room("queue", 1)
  /\ \E d \in Registered("device") :
       /\ Report("direct", IsLive("device", Native("device", d)))
       /\ Insert("queue", Only(next["queue"],
            [native |-> Native("device", d), parent |-> d,
             pool |-> NoHandle]))
  /\ Issue("queue", 1)
  /\ UNCHANGED <<live, lock, call>>

\* The driver blocks while the context stays locked.
DeviceWaitIdle(t) ==
  /\ Enter(t)
  /\ \E d \in Registered("device") :
       Report("direct", IsLive("device", Native("device", d)))
  /\ Hold(t, [Idle EXCEPT !.at = "waiting"])
  /\ UNCHANGED <<table, next, live>>

QueueWaitIdle(t) ==
  /\ Enter(t)
  /\ \E q \in Registered("queue") :
       /\ table["queue"][q].parent \in Registered("device")
       /\ Report("direct", /\ IsLive("device", Native("device", table["queue"][q].parent))
                           /\ IsLive("device", Native("queue", q)))
  /\ Hold(t, [Idle EXCEPT !.at = "waiting"])
  /\ UNCHANGED <<table, next, live>>

\* Mutant of WaitReturns: the handler returns without unlocking the context.
WaitReturnsLocked(t) ==
  /\ call[t].at = "waiting"
  /\ Return(t)
  /\ UNCHANGED <<table, next, live, lock, misuse>>

\* A driver wait is over; the handler returns and its lock goes out of scope.
WaitReturns(t) ==
  /\ call[t].at = "waiting"
  /\ lock' = NoThread
  /\ Return(t)
  /\ UNCHANGED <<table, next, live, misuse>>

-----------------------------------------------------------------------------
(* Objects of a device *)

CreateLeaf(t, k) ==
  /\ Enter(t)
  /\ Room(k, 1)
  /\ \E d \in Registered("device"), n \in Unused :
       /\ Report("direct", IsLive("device", Native("device", d)))
       /\ live' = Override(Only(n, [kind |-> k, parent |-> Native("device", d)]), live)
       /\ Insert(k, Only(next[k],
            [native |-> n, parent |-> d, pool |-> NoHandle]))
  /\ Issue(k, 1)
  /\ UNCHANGED <<lock, call>>

DestroyLeaf(t, k) ==
  /\ Enter(t)
  /\ \E d \in Registered("device") : \E h \in Children(k, {d}) :
       /\ Report("direct", Owns(Native("device", d), k, {Native(k, h)}))
       /\ live' = Without(live, {Native(k, h)})
       /\ Erase(k, {h})
  /\ UNCHANGED <<next, lock, call>>

\* Any other driver call on an object of a device.
UseChild(t, k) ==
  /\ Enter(t)
  /\ \E d \in Registered("device") : \E h \in Children(k, {d}) :
       Report("direct", Owns(Native("device", d), k, {Native(k, h)}))
  /\ UNCHANGED <<table, next, live, lock, call>>

CreateShaderModule(t) == CreateLeaf(t, "shader_module")
DestroyShaderModule(t) == DestroyLeaf(t, "shader_module")
CreateSemaphore(t) == CreateLeaf(t, "semaphore")
DestroySemaphore(t) == DestroyLeaf(t, "semaphore")
CreateFence(t) == CreateLeaf(t, "fence")
DestroyFence(t) == DestroyLeaf(t, "fence")
GetFenceStatus(t) == UseChild(t, "fence")
CreateBuffer(t) == CreateLeaf(t, "buffer")
DestroyBuffer(t) == DestroyLeaf(t, "buffer")
GetBufferMemoryRequirements(t) == UseChild(t, "buffer")
CreateImage(t) == CreateLeaf(t, "image")
DestroyImage(t) == DestroyLeaf(t, "image")
GetImageMemoryRequirements(t) == UseChild(t, "image")
AllocateMemory(t) == CreateLeaf(t, "memory")
FreeMemory(t) == DestroyLeaf(t, "memory")
CopyGuestToDeviceMemory(t) == UseChild(t, "memory")
CopyDeviceMemoryToGuest(t) == UseChild(t, "memory")

BindMemory(t, k) ==
  /\ Enter(t)
  /\ \E d \in Registered("device") :
       \E h \in Children(k, {d}), m \in Children("memory", {d}) :
         Report("direct", /\ Owns(Native("device", d), k, {Native(k, h)})
                          /\ Owns(Native("device", d), "memory", {Native("memory", m)}))
  /\ UNCHANGED <<table, next, live, lock, call>>

BindBufferMemory(t) == BindMemory(t, "buffer")
BindImageMemory(t) == BindMemory(t, "image")

-----------------------------------------------------------------------------
(* Fence lists *)

\* The native fences are looked up in one critical section ...
ResolveFenceList(t, at) ==
  /\ Enter(t)
  /\ \E d \in Registered("device") : \E fences \in SUBSET Children("fence", {d}) \ {{}} :
       Become(t, [Idle EXCEPT !.at = at, !.owner = d,
                              !.natives = NativesOf("fence", fences)])
  /\ UNCHANGED <<table, next, live, lock, misuse>>

\* ... and used in the next one, which looks up the device alone.
UseFences(d, ns) ==
  /\ d \in Registered("device")
  /\ Report("fence_list", Owns(Native("device", d), "fence", ns))

WaitForFences(t) ==
  /\ Resume(t, "wait_fences")
  /\ UseFences(call[t].owner, call[t].natives)
  /\ \E forever \in {UnboundedWaits, FALSE} :
       Hold(t, [Idle EXCEPT !.at = IF forever THEN "waiting_forever" ELSE "waiting"])
  /\ UNCHANGED <<table, next, live>>

ResetFences(t) ==
  /\ Resume(t, "reset_fences")
  /\ UseFences(call[t].owner, call[t].natives)
  /\ Return(t)
  /\ UNCHANGED <<table, next, live, lock>>

\* Mutant of FenceDeviceGone: the call waits for the device to come back.
AwaitFenceDevice(t) ==
  /\ lock = NoThread
  /\ call[t].at \in {"wait_fences", "reset_fences"}
  /\ call[t].owner \notin Registered("device")
  /\ UNCHANGED vars

\* The device went away in between: VK_ERROR_INVALID_HANDLE.
FenceDeviceGone(t) ==
  /\ lock = NoThread
  /\ call[t].at \in {"wait_fences", "reset_fences"}
  /\ call[t].owner \notin Registered("device")
  /\ Return(t)
  /\ UNCHANGED <<table, next, live, lock, misuse>>

-----------------------------------------------------------------------------
(* Command pools and command buffers *)

\* Mutant of CreateCommandPool: only the driver's pool is undone.
CreateCommandPoolHalfUndone(t) ==
  /\ Enter(t)
  /\ Room("command_pool", 1)
  /\ \E d \in Registered("device"), n \in Unused, written \in BOOLEAN :
       /\ Report("direct", IsLive("device", Native("device", d)))
       /\ live' = IF written
                  THEN Override(Only(n, [kind |-> "command_pool",
                                         parent |-> Native("device", d)]), live)
                  ELSE live
       /\ Insert("command_pool", Only(next["command_pool"],
            [native |-> n, parent |-> d, pool |-> NoHandle]))
  /\ Issue("command_pool", 1)
  /\ UNCHANGED <<lock, call>>

\* Undone when the handle cannot be written back; the handle is used up.
CreateCommandPool(t) ==
  /\ Enter(t)
  /\ Room("command_pool", 1)
  /\ \E d \in Registered("device"), n \in Unused, written \in BOOLEAN :
       /\ Report("direct", IsLive("device", Native("device", d)))
       /\ IF written
          THEN /\ live' = Override(Only(n, [kind |-> "command_pool",
                                            parent |-> Native("device", d)]), live)
               /\ Insert("command_pool", Only(next["command_pool"],
                    [native |-> n, parent |-> d, pool |-> NoHandle]))
          ELSE UNCHANGED <<live, table>>
  /\ Issue("command_pool", 1)
  /\ UNCHANGED <<lock, call>>

\* Mutant of DestroyCommandPool: the buffers of the pool stay registered.
DestroyCommandPoolOnly(t) ==
  /\ Enter(t)
  /\ \E d \in Registered("device") : \E p \in Children("command_pool", {d}) :
       LET n == Native("command_pool", p) IN
       /\ Report("direct", Owns(Native("device", d), "command_pool", {n}))
       /\ live' = Without(live, Buried({n}))
       /\ Erase("command_pool", {p})
  /\ UNCHANGED <<next, lock, call>>

DestroyCommandPool(t) ==
  /\ Enter(t)
  /\ \E d \in Registered("device") : \E p \in Children("command_pool", {d}) :
       LET n == Native("command_pool", p) IN
       /\ Report("direct", Owns(Native("device", d), "command_pool", {n}))
       /\ live' = Without(live, Buried({n}))
       /\ table' = [table EXCEPT
            !["command_pool"] = Without(@, {p}),
            !["command_buffer"] = Without(@, {b \in DOMAIN @ : @[b].pool = p})]
  /\ UNCHANGED <<next, lock, call>>

ResetCommandPool(t) == UseChild(t, "command_pool")

Injections(S, T) == {f \in [S -> T] : \A x, y \in S : f[x] = f[y] => x = y}

\* Undone as a whole when the handles cannot be written back.
AllocateCommandBuffers(t) ==
  /\ Enter(t)
  /\ \E d \in Registered("device"), count \in 1 .. Limit["command_buffer"] :
       \E p \in Children("command_pool", {d}), written \in BOOLEAN :
         LET pool == Native("command_pool", p)
             handles == Fresh("command_buffer", count) IN
         /\ Room("command_buffer", count)
         /\ Report("direct", Owns(Native("device", d), "command_pool", {pool}))
         /\ Issue("command_buffer", count)
         /\ \E new \in Injections(handles, Unused) :
              IF written
              THEN /\ live' = Override(
                        [n \in {new[h] : h \in handles} |->
                           [kind |-> "command_buffer", parent |-> pool]], live)
                   /\ Insert("command_buffer", [h \in handles |->
                        [native |-> new[h], parent |-> d, pool |-> p]])
              ELSE UNCHANGED <<live, table>>
  /\ UNCHANGED <<lock, call>>

\* Mutant of BuffersOf: a buffer of another pool of the device will do.
BuffersOfDevice(d, p) == Children("command_buffer", {d})
BuffersOf(d, p) == {b \in Children("command_buffer", {d}) : table["command_buffer"][b].pool = p}

\* Every handle of the list is checked before anything is freed.  A handle may
\* be in the list more than once.
FreeCommandBuffers(t) ==
  /\ Enter(t)
  /\ \E d \in Registered("device") : \E p \in Children("command_pool", {d}) :
       \E list \in SUBSET BuffersOf(d, p) \ {{}}, repeated \in BOOLEAN :
         LET ns == NativesOf("command_buffer", list) IN
         /\ IF repeated
            THEN Report("free_list", FALSE)
            ELSE Report("direct", Owns(Native("command_pool", p), "command_buffer", ns))
         /\ live' = Without(live, ns)
         /\ Erase("command_buffer", list)
  /\ UNCHANGED <<next, lock, call>>

UseCommandBuffer(t) ==
  /\ Enter(t)
  /\ \E d \in Registered("device") : \E b \in Children("command_buffer", {d}) :
       LET n == Native("command_buffer", b) IN
       Report("direct", /\ IsLive("command_buffer", n)
                        /\ Owns(Native("device", d), "command_pool", {live[n].parent}))
  /\ UNCHANGED <<table, next, live, lock, call>>

BeginCommandBuffer(t) == UseCommandBuffer(t)
EndCommandBuffer(t) == UseCommandBuffer(t)
ResetCommandBuffer(t) == UseCommandBuffer(t)

-----------------------------------------------------------------------------
(* Destruction of a device, or of an instance with its devices *)

\* Mutants of ChildOrder: a kind of object is forgotten.
OrderWithoutMemory == <<"buffer", "image", "semaphore", "fence", "command_pool", "shader_module">>
OrderWithoutFences == <<"buffer", "image", "semaphore", "command_pool", "shader_module", "memory">>
ChildOrder == <<"buffer", "image", "semaphore", "fence", "command_pool",
                "shader_module", "memory">>
TeardownOrder(c) ==
  ChildOrder \o (IF c.at = "destroy_device" THEN <<"device">> ELSE <<"device", "instance">>)

DestroyDevice(t) ==
  /\ Enter(t)
  /\ \E d \in Registered("device") :
       Hold(t, [Idle EXCEPT !.at = "destroy_device", !.owner = d,
                            !.devices = {d}, !.stage = 1])
  /\ UNCHANGED <<table, next, live, misuse>>

DestroyInstance(t) ==
  /\ Enter(t)
  /\ \E i \in Registered("instance") :
       Hold(t, [Idle EXCEPT !.at = "destroy_instance", !.owner = i,
                            !.devices = DevicesOf(i), !.stage = 1])
  /\ UNCHANGED <<table, next, live, misuse>>

\* Mutant of Condemned: the physical devices of an instance are forgotten.
CondemnedButPhysical(c, k) ==
  CASE k \in DeviceChildKinds -> Children(k, c.devices)
    [] k = "device" -> c.devices
    [] k = "instance" /\ c.at = "destroy_instance" -> {c.owner}
    [] OTHER -> {}

\* The handles of kind k that the call c destroys.
Condemned(c, k) ==
  CASE k \in DeviceChildKinds -> Children(k, c.devices)
    [] k = "device" -> c.devices
    [] k = "physical_device" /\ c.at = "destroy_instance" -> Children(k, {c.owner})
    [] k = "instance" /\ c.at = "destroy_instance" -> {c.owner}
    [] OTHER -> {}

\* Below an instance are devices, below a device everything else.
Childless(k, ns) ==
  \A n \in DOMAIN live : (live[n].kind = "device" <=> k = "instance") => live[n].parent \notin ns

\* The driver destroys all condemned objects of one kind.
DestroyStage(t) ==
  /\ call[t].at \in Teardowns
  /\ call[t].stage =< Len(TeardownOrder(call[t]))
  /\ LET k == TeardownOrder(call[t])[call[t].stage]
         condemned == Condemned(call[t], k)
         ns == NativesOf(k, condemned) IN
     /\ CASE k = "instance" ->
               Report("physical_device", (\A n \in ns : IsLive(k, n)) /\ Childless(k, ns))
          [] k = "device" ->
               Report("direct", (\A n \in ns : IsLive(k, n)) /\ Childless(k, ns))
          [] OTHER ->
               Report("direct", \A h \in condemned :
                 Owns(Native("device", table[k][h].parent), k, {Native(k, h)}))
     /\ live' = Without(live, Buried(ns))
  /\ Become(t, [call[t] EXCEPT !.stage = @ + 1])
  /\ UNCHANGED <<table, next, lock>>

\* Then the records go, children and all, and the lock is released.
FinishTeardown(t) ==
  /\ call[t].at \in Teardowns
  /\ call[t].stage > Len(TeardownOrder(call[t]))
  /\ table' = [k \in Kinds |-> Without(table[k], Condemned(call[t], k))]
  /\ lock' = NoThread
  /\ Return(t)
  /\ UNCHANGED <<next, live, misuse>>

-----------------------------------------------------------------------------
(* The specification *)

Init ==
  /\ table = [k \in Kinds |-> [h \in {} |-> h]]
  /\ next = [k \in Kinds |-> 1]
  /\ live = [n \in {} |-> n]
  /\ lock = NoThread
  /\ call = [t \in Threads |-> Idle]
  /\ misuse = {}

\* Calls that start and end in one critical section.
LeafCall(t) ==
  \/ CreateShaderModule(t) \/ DestroyShaderModule(t)
  \/ CreateSemaphore(t) \/ DestroySemaphore(t)
  \/ CreateFence(t) \/ DestroyFence(t) \/ GetFenceStatus(t)
  \/ CreateBuffer(t) \/ DestroyBuffer(t)
  \/ GetBufferMemoryRequirements(t) \/ BindBufferMemory(t)
  \/ CreateImage(t) \/ DestroyImage(t)
  \/ GetImageMemoryRequirements(t) \/ BindImageMemory(t)
  \/ AllocateMemory(t) \/ FreeMemory(t)
  \/ CopyGuestToDeviceMemory(t) \/ CopyDeviceMemoryToGuest(t)

CommandCall(t) ==
  \/ CreateCommandPool(t) \/ DestroyCommandPool(t) \/ ResetCommandPool(t)
  \/ AllocateCommandBuffers(t) \/ FreeCommandBuffers(t)
  \/ BeginCommandBuffer(t) \/ EndCommandBuffer(t) \/ ResetCommandBuffer(t)

DeviceCall(t) ==
  \/ EnumerateDeviceExtensionProperties(t) \/ GetPhysicalDeviceProperties(t)
  \/ GetPhysicalDeviceFeatures(t) \/ GetPhysicalDeviceMemoryProperties(t)
  \/ GetPhysicalDeviceQueueFamilyProperties(t)
  \/ CreateDevice(t) \/ GetDeviceQueue(t)

\* Calls that take several steps, by their first one.
Start(t) ==
  \/ CreateInstance(t) \/ EnumeratePhysicalDevices(t)
  \/ ResolveFenceList(t, "wait_fences") \/ ResolveFenceList(t, "reset_fences")
  \/ DeviceWaitIdle(t) \/ QueueWaitIdle(t)
  \/ DestroyDevice(t) \/ DestroyInstance(t)

\* The rest of such a call, where it needs the lock again ...
Reacquire(t) ==
  \/ InsertInstance(t) \/ InsertPhysicalDevices(t)
  \/ WaitForFences(t) \/ ResetFences(t) \/ FenceDeviceGone(t)

\* ... and where it has it.
Continue(t) == WaitReturns(t) \/ DestroyStage(t) \/ FinishTeardown(t)

Step(t) ==
  \/ RejectedCall(t) \/ LeafCall(t) \/ CommandCall(t) \/ DeviceCall(t)
  \/ Start(t) \/ Reacquire(t) \/ Continue(t)

Next == \E t \in Threads : Step(t)

Spec == Init /\ [][Next]_vars

\* A thread that has the lock runs on, and the driver ends a wait that has a
\* timeout or nothing to wait for (no entry point submits work to a queue).
HolderFairness == \A t \in Threads : WF_vars(Continue(t))

\* The mutex does not pass over a waiting thread for ever.
MutexFairness == \A t \in Threads : SF_vars(Reacquire(t))

HolderSpec == Spec /\ HolderFairness
FairSpec == Spec /\ HolderFairness /\ MutexFairness

-----------------------------------------------------------------------------
(* Properties *)

TablesTyped ==
  /\ DOMAIN table = Kinds
  /\ next \in [Kinds -> Nat \ {0}]
  /\ \A k \in Kinds : \A h \in Registered(k) :
       h \in 1 .. (next[k] - 1) /\ table[k][h] \in Record

DriverTyped ==
  /\ DOMAIN live \subseteq Natives
  /\ \A n \in DOMAIN live : live[n] \in DriverObject
  /\ misuse \subseteq Misuses

CallsTyped ==
  /\ lock \in Threads \cup {NoThread}
  /\ call \in [Threads -> Call]

\* The tables, the driver's objects and the calls have their types, and every
\* registered handle was issued by the counter of its table.
TypeOK == TablesTyped /\ DriverTyped /\ CallsTyped

\* A thread that keeps the context mutex across steps is the only one to do so.
LockHeld ==
  \A t \in Threads : call[t].at \in Holding <=> lock = t

\* No dangling reference in the tables: the device of every object, the physical
\* device of every device, the pool of every command buffer is registered, and
\* a command buffer and its pool are of the same device.  DestroyDevice,
\* DestroyInstance and DestroyCommandPool must erase every record that refers
\* to one they erase.
TablesClosed ==
  /\ \A k \in DeviceChildKinds : \A h \in Registered(k) :
       table[k][h].parent \in Registered("device")
  /\ \A d \in Registered("device") :
       table["device"][d].parent \in Registered("physical_device")
  /\ \A b \in Registered("command_buffer") :
       LET p == table["command_buffer"][b].pool IN
       /\ p \in Registered("command_pool")
       /\ table["command_pool"][p].parent = table["command_buffer"][b].parent

\* While a device or an instance is being destroyed, the devices its handler
\* collected at the start are still the ones the erasure at the end goes by.
TeardownCurrent ==
  \A t \in Threads :
    /\ call[t].at = "destroy_device" =>
         call[t].devices = {call[t].owner} /\ call[t].owner \in Registered("device")
    /\ call[t].at = "destroy_instance" => call[t].devices = DevicesOf(call[t].owner)

\* The driver object of a registered record has already been destroyed by the
\* teardown in progress.
Torn(k, h) ==
  \E t \in Threads :
    /\ call[t].at \in Teardowns
    /\ \E i \in 1 .. (call[t].stage - 1) :
         LET done == TeardownOrder(call[t])[i] IN
         \/ k = done /\ h \in Condemned(call[t], k)
         \/ /\ k = "command_buffer" /\ done = "command_pool"
            /\ h \in Condemned(call[t], k)

ParentNative(k, h) ==
  CASE k = "instance" -> NoNative
    [] k = "device" -> Native("physical_device", table[k][h].parent)
    [] k = "command_buffer" -> Native("command_pool", table[k][h].pool)
    [] OTHER -> Native("device", table[k][h].parent)

\* A handle that a lookup finds always leads to an object the driver still has,
\* of the right kind and below the right parent; only the teardown that holds
\* the lock sees records without one.
RecordsBacked ==
  \A k \in OwningKinds : \A h \in Registered(k) :
    ~Torn(k, h) =>
      /\ IsLive(k, Native(k, h))
      /\ live[Native(k, h)].parent = ParentNative(k, h)

Owners(n) ==
  {o \in [kind : {live[n].kind}, handle : Registered(live[n].kind)] :
     Native(o.kind, o.handle) = n /\ ~Torn(o.kind, o.handle)}
  \cup {t \in Threads : call[t].at = "insert_instance" /\ n \in call[t].natives}

\* Nothing leaks in the driver and nothing is owned twice: every live object is
\* that of exactly one record, or of a CreateInstance call about to register it.
\* A create whose handle could not be written back, a rolled-back pool or
\* buffer, a destroyed pool's buffers and a destroyed tree are all covered.
ExactlyOneOwner == \A n \in DOMAIN live : Cardinality(Owners(n)) = 1

NoOrphans ==
  \A g \in Registered("physical_device") :
    table["physical_device"][g].parent \in Registered("instance")

\* Children are destroyed before their parents: no live driver object has a dead
\* parent, as long as no physical device has outlived its instance.
ParentsOutliveChildren ==
  NoOrphans => \A n \in DOMAIN live : live[n].parent \in DOMAIN live \cup {NoNative}

\* A driver call whose handles are looked up under the lock that covers it gets
\* live objects only, whatever other threads do.
LockedCallsAreSafe == "direct" \notin misuse

\* With a single guest thread the driver is never handed a dead object, unless
\* the guest repeats a handle in the list it frees; nor does a physical device
\* outlive its instance then, for a call on it would hand over a dead one.
SequentialCallsAreSafe == misuse \subseteq {"free_list"}

KeepsHandles ==
  \A k \in Kinds :
    /\ next[k] =< next'[k]
    /\ \A h \in DOMAIN table'[k] :
         h < next[k] => h \in DOMAIN table[k] /\ table'[k][h] = table[k][h]

\* A handle is final: once its record is erased it never names anything again,
\* and while it is registered its record stays what it was.
HandlesFinal == [][KeepsHandles]_vars

Existing == UNION {{k} \X Registered(k) : k \in Kinds}

\* The object right above a registered one in the tree of records.
ParentObject(k, h) ==
  CASE k = "instance" -> <<"none", NoHandle>>
    [] k = "physical_device" -> <<"instance", table[k][h].parent>>
    [] k = "device" -> <<"physical_device", table[k][h].parent>>
    [] k = "command_buffer" -> <<"command_pool", table[k][h].pool>>
    [] OTHER -> <<"device", table[k][h].parent>>

\* Taken together the tables are one forest: handles are never used again, an
\* object is registered under a registered parent, except a physical device
\* whose instance went while it was enumerated, and goes with all that is below
\* it and nothing else, whether one record, the list of FreeCommandBuffers, a
\* pool or a whole tree is destroyed.
Lifetimes == INSTANCE ObjectLifetimes WITH
  Root <- <<"none", NoHandle>>,
  Late <- {"physical_device"} \X Nat,
  parent <- [o \in Existing |-> ParentObject(o[1], o[2])],
  used <- UNION {{k} \X (1 .. (next[k] - 1)) : k \in Kinds}
ImplementsLifetimes == Lifetimes!Spec

StuckInWait == \E t \in Threads : call[t].at = "waiting_forever"

\* The context mutex is always released again, unless a guest waits without
\* timeout on an unsignaled fence.
LockReleased == \A t \in Threads : lock = t ~> (lock = NoThread \/ StuckInWait)

\* Every call returns, with the same exception.
CallsReturn == \A t \in Threads : call[t].at # "idle" ~> (call[t].at = "idle" \/ StuckInWait)
=============================================================================
