----------------------------- MODULE VulkanLoader -----------------------------
(***************************************************************************)
(* The dynamic backend (vulkan/dynamic_backend.cc): the one attempt to     *)
(* open a Vulkan library, how every function finds its command in it, and  *)
(* what becomes of the driver's objects when a command is absent.          *)
(*                                                                         *)
(* Every backend function holds the backend mutex, so each is one step;    *)
(* only the enumeration of physical devices asks the driver twice and is   *)
(* two.  A function stands together with the entry point of vulkan/api.cc  *)
(* that calls it: the handle it registers, the handles it erases and, for  *)
(* DestroyDevice and DestroyInstance, the children it destroys first.      *)
(* Their interleaving and the tables themselves are VulkanObjects.         *)
(*                                                                         *)
(* There is at most one live object of each kind, so a kind names it.      *)
(* What a call asks of the driver and gets back is left out.               *)
(*                                                                         *)
(* "Mutant of D" marks a broken variant of definition D that no            *)
(* specification uses.                                                     *)
(***************************************************************************)
EXTENDS Naturals, FiniteSets

CONSTANTS
  Candidates,  \* how many library names are tried, in their order
  Libraries,   \* the libraries there may be on disk
  ChildLimit   \* bound: how many children a device has at a time

\* The commands a library exports, and those its vkGetInstanceProcAddr finds
\* without and with an instance, and its vkGetDeviceProcAddr with a device.
Library == [opens : BOOLEAN, exported : SUBSET STRING, global : SUBSET STRING,
            instance : SUBSET STRING, device : SUBSET STRING]
Missing == [opens |-> FALSE, exported |-> {}, global |-> {}, instance |-> {}, device |-> {}]

ASSUME CandidatesAssumption == Candidates \in Nat
ASSUME LibrariesAssumption == \A l \in Libraries : l \in Library /\ l.opens

VARIABLES
  disk,        \* candidate name -> the library there, or Missing
  loader,      \* the loader fields of DynamicBackend::Impl
  registered,  \* kinds of the objects that have a handle
  live,        \* kinds of the driver's live objects
  listed,      \* whether the driver lists a physical device now
  counting,    \* whether an enumeration has asked how many there are
  shrunk,      \* whether the list shrank while one was counting
  faults       \* what went wrong in calls to the driver

vars == <<disk, loader, registered, live, listed, counting, shrunk, faults>>
outside == <<disk, listed, shrunk>>

Names == 1..Candidates

OwnedByDevice == {"shader_module", "semaphore", "fence", "buffer", "image", "memory",
                  "command_pool"}
DeviceChildren == OwnedByDevice \cup {"command_buffer", "queue"}
Kinds == DeviceChildren \cup {"instance", "physical_device", "device"}

DestroyCommand ==
  [shader_module |-> "vkDestroyShaderModule", semaphore |-> "vkDestroySemaphore",
   fence |-> "vkDestroyFence", buffer |-> "vkDestroyBuffer", image |-> "vkDestroyImage",
   memory |-> "vkFreeMemory", command_pool |-> "vkDestroyCommandPool"]

\* "closed": a pointer into a library that is closed, or null, was called.
\* "dead": an object the driver does not have was passed.
\* "children": an instance or a device was destroyed before its children.
Faults == {"closed", "dead", "children"}

-----------------------------------------------------------------------------
(* Loading *)

Required == {"vkCreateInstance", "vkEnumerateInstanceExtensionProperties",
             "vkEnumerateInstanceLayerProperties"}

Complete(l) ==
  "vkGetInstanceProcAddr" \in l.exported /\ Required \subseteq l.global \cup l.exported

\* Mutant of Load: an incomplete library stays open.
LoadLeftOpen(l) ==
  [attempted |-> TRUE, available |-> Complete(l), open |-> l.opens,
   library |-> IF "vkGetInstanceProcAddr" \in l.exported THEN l ELSE Missing]

\* loader.library has the loaded pointers, which are set as soon as the library
\* has vkGetInstanceProcAddr and stay set when it is closed.
Load(l) ==
  [attempted |-> TRUE, available |-> Complete(l), open |-> Complete(l),
   library |-> IF "vkGetInstanceProcAddr" \in l.exported THEN l ELSE Missing]

\* The first candidate that opens ends the search, whatever is in it.
FirstThatOpens == {i \in Names : disk[i].opens /\ \A j \in 1..(i - 1) : ~disk[j].opens}

Search ==
  \/ \E i \in FirstThatOpens : loader' = Load(disk[i])
  \/ FirstThatOpens = {} /\ loader' = Load(Missing)

\* Mutant of EnsureLoader: an attempt that failed is repeated.
EnsureLoaderAgain == IF loader.available THEN UNCHANGED loader ELSE Search
EnsureLoader == IF loader.attempted THEN UNCHANGED loader ELSE Search

-----------------------------------------------------------------------------
(* Finding a command *)

\* The pointers that are kept were loaded while the library was open.
Loaded(l, s) == s \in l.library.global \cup l.library.exported
Global(s) ==
  \/ s \in loader.library.global
  \/ loader.open /\ s \in loader.library.exported
Instance(s) == s \in loader.library.instance
Device(s) == Loaded(loader, "vkGetDeviceProcAddr") /\ s \in loader.library.device

\* The library is asked for a command, and the command called, on objects.
Asks(objects) ==
  faults' = faults
    \cup {f \in {"closed"} : loader.library.opens /\ ~loader.open}
    \cup {f \in {"dead"} : ~(objects \subseteq live)}

Free == ~counting

-----------------------------------------------------------------------------
(* The outside world *)

ReplaceLibrary ==
  /\ \E i \in Names, l \in Libraries \cup {Missing} : disk' = [disk EXCEPT ![i] = l]
  /\ UNCHANGED <<loader, registered, live, listed, counting, shrunk, faults>>

PlugDevice ==
  /\ listed' = ~listed
  /\ shrunk' = (shrunk \/ (counting /\ listed))
  /\ UNCHANGED <<disk, loader, registered, live, counting, faults>>

-----------------------------------------------------------------------------
(* Functions that load the library *)

LoaderAvailable ==
  /\ Free
  /\ EnsureLoader
  /\ UNCHANGED <<disk, registered, live, listed, counting, shrunk, faults>>

\* The pointer loaded for a command is called.
CallLoaded(s) ==
  faults' = faults \cup {f \in {"closed"} : ~(loader'.open /\ Loaded(loader', s))}

\* Without the command the version is 1.0.
EnumerateInstanceVersion ==
  /\ Free
  /\ EnsureLoader
  /\ IF loader'.available /\ Loaded(loader', "vkEnumerateInstanceVersion")
     THEN CallLoaded("vkEnumerateInstanceVersion")
     ELSE UNCHANGED faults
  /\ UNCHANGED <<disk, registered, live, listed, counting, shrunk>>

EnumerateInstance(s) ==
  /\ Free
  /\ EnsureLoader
  /\ IF loader'.available THEN CallLoaded(s) ELSE UNCHANGED faults
  /\ UNCHANGED <<disk, registered, live, listed, counting, shrunk>>

EnumerateInstanceExtensionProperties ==
  EnumerateInstance("vkEnumerateInstanceExtensionProperties")
EnumerateInstanceLayerProperties ==
  EnumerateInstance("vkEnumerateInstanceLayerProperties")

\* Mutant of CreateInstance: whether a library was loaded is not looked at.
CreateInstanceAnyway ==
  /\ Free /\ "instance" \notin live
  /\ EnsureLoader
  /\ CallLoaded("vkCreateInstance")
  /\ \/ live' = live \cup {"instance"} /\ registered' = registered \cup {"instance"}
     \/ UNCHANGED <<live, registered>>
  /\ UNCHANGED <<outside, counting>>

CreateInstance ==
  /\ Free /\ "instance" \notin live
  /\ EnsureLoader
  /\ \/ /\ loader'.available
        /\ CallLoaded("vkCreateInstance")
        /\ \/ live' = live \cup {"instance"} /\ registered' = registered \cup {"instance"}
           \/ UNCHANGED <<live, registered>>
     \/ /\ ~loader'.available
        /\ UNCHANGED <<live, registered, faults>>
  /\ UNCHANGED <<outside, counting>>

-----------------------------------------------------------------------------
(* The patterns of the other functions.  found is whether the command was    *)
(* found; a driver may refuse what it is asked.                              *)

Use(objects) ==
  /\ Free /\ objects \subseteq registered
  /\ Asks(objects)
  /\ UNCHANGED <<outside, loader, registered, live, counting>>

\* Mutant of Create: a handle that cannot be written back is not registered.
CreateUnregistered(kind, found, parents) ==
  /\ Free /\ parents \subseteq registered /\ kind \notin live
  /\ kind \in DeviceChildren => Cardinality(live \cap DeviceChildren) < ChildLimit
  /\ Asks(parents)
  /\ \/ /\ found
        /\ live' = live \cup {kind}
        /\ registered' \in {registered, registered \cup {kind}}
     \/ UNCHANGED <<live, registered>>
  /\ UNCHANGED <<outside, loader, counting>>

Create(kind, found, parents) ==
  /\ Free /\ parents \subseteq registered /\ kind \notin live
  /\ kind \in DeviceChildren => Cardinality(live \cap DeviceChildren) < ChildLimit
  /\ Asks(parents)
  /\ \/ /\ found
        /\ live' = live \cup {kind} /\ registered' = registered \cup {kind}
     \/ UNCHANGED <<live, registered>>
  /\ UNCHANGED <<outside, loader, counting>>

\* The record is erased whether the command was found or not.
Destroy(gone, found, objects) ==
  /\ Free /\ objects \subseteq registered
  /\ Asks(objects)
  /\ live' = IF found THEN live \ gone ELSE live
  /\ registered' = registered \ gone
  /\ UNCHANGED <<outside, loader, counting>>

-----------------------------------------------------------------------------
(* Physical devices *)

EnumeratePhysicalDevices ==
  /\ Free /\ "instance" \in registered /\ "physical_device" \notin registered
  /\ Asks({"instance"})
  /\ counting' \in {Instance("vkEnumeratePhysicalDevices") /\ listed, FALSE}
  /\ UNCHANGED <<outside, loader, registered, live>>

\* Mutant of FillPhysicalDevices: the result of the second call is not looked at.
FillUnchecked ==
  /\ counting /\ counting' = FALSE
  /\ Asks({"instance"})
  /\ registered' = registered \cup {"physical_device"}
  /\ \/ listed /\ live' = live \cup {"physical_device"}
     \/ UNCHANGED live
  /\ UNCHANGED <<outside, loader>>

\* The array has the size of the first answer: when the list has shrunk since,
\* its end is null and is registered all the same.  (A call that fails, or a
\* guest with no room for handles, registers none.)
FillPhysicalDevices ==
  /\ counting /\ counting' = FALSE
  /\ Asks({"instance"})
  /\ \/ /\ registered' = registered \cup {"physical_device"}
        /\ live' = live \cup {k \in {"physical_device"} : listed}
     \/ UNCHANGED <<registered, live>>
  /\ UNCHANGED <<outside, loader>>

QueryPhysicalDevice == Use({"physical_device"})
EnumerateDeviceExtensionProperties == QueryPhysicalDevice
GetPhysicalDeviceProperties == QueryPhysicalDevice
GetPhysicalDeviceFeatures == QueryPhysicalDevice
GetPhysicalDeviceMemoryProperties == QueryPhysicalDevice
GetPhysicalDeviceQueueFamilyProperties == QueryPhysicalDevice

CreateDevice == Create("device", Global("vkCreateDevice"), {"physical_device"})

-----------------------------------------------------------------------------
(* Devices and their children *)

UseOfDevice(objects) == Use({"device"} \cup objects)
CreateChild(kind, s) == Create(kind, Device(s), {"device"})
DestroyChild(kind) ==
  Destroy({kind}, Device(DestroyCommand[kind]), {"device", kind})

DeviceWaitIdle == UseOfDevice({})
GetDeviceQueue == CreateChild("queue", "vkGetDeviceQueue")
QueueWaitIdle == UseOfDevice({"queue"})

CreateCommandPool == CreateChild("command_pool", "vkCreateCommandPool")
ResetCommandPool == UseOfDevice({"command_pool"})

\* The pool's buffers go with it.
DestroyCommandPool ==
  Destroy({"command_pool", "command_buffer"}, Device(DestroyCommand["command_pool"]),
          {"device", "command_pool"})

AllocateCommandBuffers ==
  Create("command_buffer", Device("vkAllocateCommandBuffers"), {"device", "command_pool"})
FreeCommandBuffers ==
  Destroy({"command_buffer"}, Device("vkFreeCommandBuffers"),
          {"device", "command_pool", "command_buffer"})
BeginCommandBuffer == UseOfDevice({"command_buffer"})
EndCommandBuffer == UseOfDevice({"command_buffer"})
ResetCommandBuffer == UseOfDevice({"command_buffer"})

CreateShaderModule == CreateChild("shader_module", "vkCreateShaderModule")
DestroyShaderModule == DestroyChild("shader_module")
CreateSemaphore == CreateChild("semaphore", "vkCreateSemaphore")
DestroySemaphore == DestroyChild("semaphore")

CreateFence == CreateChild("fence", "vkCreateFence")
DestroyFence == DestroyChild("fence")
GetFenceStatus == UseOfDevice({"fence"})
WaitForFences == UseOfDevice({"fence"})
ResetFences == UseOfDevice({"fence"})

CreateBuffer == CreateChild("buffer", "vkCreateBuffer")
DestroyBuffer == DestroyChild("buffer")
GetBufferMemoryRequirements == UseOfDevice({"buffer"})
CreateImage == CreateChild("image", "vkCreateImage")
DestroyImage == DestroyChild("image")
GetImageMemoryRequirements == UseOfDevice({"image"})

AllocateMemory == CreateChild("memory", "vkAllocateMemory")
FreeMemory == DestroyChild("memory")
BindBufferMemory == UseOfDevice({"buffer", "memory"})
BindImageMemory == UseOfDevice({"image", "memory"})
MapMemory == UseOfDevice({"memory"})
UnmapMemory == UseOfDevice({"memory"})
FlushMappedMemory == UseOfDevice({"memory"})
InvalidateMappedMemory == UseOfDevice({"memory"})

-----------------------------------------------------------------------------
(* Teardown *)

\* Mutant of DestroyedChildren: shader modules are forgotten.
DestroyedButShaders ==
  LET found == {k \in (OwnedByDevice \cap registered) \ {"shader_module"} : Device(DestroyCommand[k])}
  IN found \cup {k \in {"command_buffer"} : "command_pool" \in found}

\* The children the device's teardown destroys, found by their records.
DestroyedChildren ==
  LET found == {k \in OwnedByDevice \cap registered : Device(DestroyCommand[k])}
  IN found \cup {k \in {"command_buffer"} : "command_pool" \in found}

\* What is live after the teardown of the registered device.  Its queues go
\* with it.
AfterDevice ==
  IF "device" \notin registered THEN live
  ELSE (live \ DestroyedChildren) \ {k \in {"device", "queue"} : Device("vkDestroyDevice")}

\* The device that was destroyed left children behind.
Orphans ==
  /\ "device" \in registered /\ Device("vkDestroyDevice")
  /\ AfterDevice \cap DeviceChildren # {}

DestroyDevice ==
  /\ Free /\ "device" \in registered
  /\ faults' = faults
       \cup {f \in {"closed"} : loader.library.opens /\ ~loader.open}
       \cup {f \in {"dead"} : ~(registered \cap (DeviceChildren \cup {"device"}) \subseteq live)}
       \cup {f \in {"children"} : Orphans}
  /\ live' = AfterDevice
  /\ registered' = registered \ (DeviceChildren \cup {"device"})
  /\ UNCHANGED <<outside, loader, counting>>

\* Physical devices go with their instance.
DestroyInstance ==
  /\ Free /\ "instance" \in registered
  /\ faults' = faults
       \cup {f \in {"closed"} : loader.library.opens /\ ~loader.open}
       \cup {f \in {"dead"} : ~(registered \ {"physical_device"} \subseteq live)}
       \cup {f \in {"children"} : \/ Orphans
                                  \/ Instance("vkDestroyInstance") /\ "device" \in AfterDevice}
  /\ live' = IF Instance("vkDestroyInstance")
             THEN AfterDevice \ {"instance", "physical_device"} ELSE AfterDevice
  /\ registered' = {}
  /\ UNCHANGED <<outside, loader, counting>>

-----------------------------------------------------------------------------
(* The specification *)

Init ==
  /\ disk \in [Names -> Libraries \cup {Missing}]
  /\ loader = [attempted |-> FALSE, available |-> FALSE, open |-> FALSE, library |-> Missing]
  /\ registered = {} /\ live = {}
  /\ listed \in BOOLEAN
  /\ counting = FALSE /\ shrunk = FALSE
  /\ faults = {}

Environment == ReplaceLibrary \/ PlugDevice

InstanceCall ==
  \/ LoaderAvailable \/ EnumerateInstanceVersion
  \/ EnumerateInstanceExtensionProperties \/ EnumerateInstanceLayerProperties
  \/ CreateInstance \/ DestroyInstance

PhysicalDeviceCall ==
  \/ EnumeratePhysicalDevices \/ FillPhysicalDevices
  \/ EnumerateDeviceExtensionProperties \/ GetPhysicalDeviceProperties
  \/ GetPhysicalDeviceFeatures \/ GetPhysicalDeviceMemoryProperties
  \/ GetPhysicalDeviceQueueFamilyProperties \/ CreateDevice

DeviceCall ==
  \/ DestroyDevice \/ DeviceWaitIdle \/ GetDeviceQueue \/ QueueWaitIdle

CommandCall ==
  \/ CreateCommandPool \/ ResetCommandPool \/ DestroyCommandPool
  \/ AllocateCommandBuffers \/ FreeCommandBuffers
  \/ BeginCommandBuffer \/ EndCommandBuffer \/ ResetCommandBuffer

SynchronizationCall ==
  \/ CreateSemaphore \/ DestroySemaphore
  \/ CreateFence \/ DestroyFence \/ GetFenceStatus \/ WaitForFences \/ ResetFences

ResourceCall ==
  \/ CreateShaderModule \/ DestroyShaderModule
  \/ CreateBuffer \/ DestroyBuffer \/ GetBufferMemoryRequirements
  \/ CreateImage \/ DestroyImage \/ GetImageMemoryRequirements
  \/ BindBufferMemory \/ BindImageMemory

MemoryCall ==
  \/ AllocateMemory \/ FreeMemory
  \/ MapMemory \/ UnmapMemory \/ FlushMappedMemory \/ InvalidateMappedMemory

Next ==
  \/ Environment \/ InstanceCall \/ PhysicalDeviceCall \/ DeviceCall
  \/ CommandCall \/ SynchronizationCall \/ ResourceCall \/ MemoryCall

Spec == Init /\ [][Next]_vars

-----------------------------------------------------------------------------
(* Properties *)

\* The variables have their types, and a library is open only if it is in use.
TypeOK ==
  /\ disk \in [Names -> Libraries \cup {Missing}]
  /\ loader \in [attempted : BOOLEAN, available : BOOLEAN, open : BOOLEAN,
                 library : Libraries \cup {Missing}]
  /\ loader.open = loader.available
  /\ registered \subseteq Kinds /\ live \subseteq Kinds
  /\ listed \in BOOLEAN /\ counting \in BOOLEAN /\ shrunk \in BOOLEAN
  /\ faults \subseteq Faults

\* Nothing is called through a null pointer or in a library that was closed,
\* though only four functions check that one was loaded: the others need a
\* handle, and there is none without it.
CallsReachTheLibrary == "closed" \notin faults

\* A function passes the driver only objects that it has, unless the list of
\* physical devices shrank between the two calls that read it.
DeadOnlyIfShrunk == "dead" \in faults => shrunk

\* Whether the driver can be rid of an object of this kind: command buffers go
\* alone or with their pool, queues and physical devices with their owner.
Removable(kind) ==
  \/ kind \in OwnedByDevice /\ Device(DestroyCommand[kind])
  \/ kind = "command_buffer" /\ Device("vkFreeCommandBuffers") /\ Device("vkDestroyCommandPool")
  \/ kind \in {"device", "queue"} /\ Device("vkDestroyDevice")
  \/ kind \in {"instance", "physical_device"} /\ Instance("vkDestroyInstance")

\* An object outlives its handle only if the library has no command to destroy
\* it: every record that is erased was handed to the right destroy function.
LeaksNeedGap == \A k \in live \ registered : ~Removable(k)

\* Parents are destroyed before their children only if a library has the one
\* command and not the other.
OrphansNeedGap == "children" \in faults => \E k \in Kinds : ~Removable(k)

\* The library is looked for once: what the first call found, pointers and
\* answer, is what every later call uses, though libraries come and go.
LoadedOnce == [][loader.attempted => UNCHANGED loader]_vars

\* The attempt finds a Vulkan library if one of the candidates is one.
HostLoaderIsFound ==
  [][~loader.attempted /\ loader'.attempted /\ (\E i \in Names : Complete(disk[i]))
       => loader'.available]_vars
=============================================================================
