-------------------------- MODULE VulkanLoaderProofs --------------------------
(***************************************************************************)
(* Proofs about VulkanLoader for any candidates, libraries and bound.      *)
(***************************************************************************)
EXTENDS VulkanLoader, TLAPS

\* Without a library there is nothing to go wrong.
NothingWithoutLibrary ==
  ~loader.available => registered = {} /\ live = {} /\ ~counting /\ faults = {}

\* With one, its pointers are those of a complete library.
LibraryInUse == loader.available => loader.attempted /\ Complete(loader.library)

\* A handle stands for a live object, or for a null physical device.
HandlesAreLive ==
  /\ registered \ {"physical_device"} \subseteq live
  /\ "physical_device" \in registered \ live => shrunk

\* What a registered object was made from is registered.
ParentsRegistered ==
  /\ registered \cap DeviceChildren # {} => "device" \in registered
  /\ "command_buffer" \in registered => "command_pool" \in registered
  /\ "device" \in registered => "physical_device" \in registered
  /\ counting \/ "physical_device" \in registered => "instance" \in registered

\* The list an enumeration counted is still there, or has shrunk.
Counted == counting /\ ~listed => shrunk

Inv ==
  /\ TypeOK
  /\ NothingWithoutLibrary /\ LibraryInUse
  /\ HandlesAreLive /\ ParentsRegistered /\ Counted
  /\ CallsReachTheLibrary /\ DeadOnlyIfShrunk /\ LeaksNeedGap /\ OrphansNeedGap

LEMMA InitInv == Init => Inv
  <1> SUFFICES ASSUME Init PROVE Inv
    OBVIOUS
  <1>1. loader \in [attempted : BOOLEAN, available : BOOLEAN, open : BOOLEAN,
                    library : Libraries \cup {Missing}]
    BY DEF Init
  <1>2. TypeOK
    BY <1>1 DEF Init, TypeOK
  <1> QED BY <1>2 DEF Init, Inv, NothingWithoutLibrary, LibraryInUse, HandlesAreLive,
        ParentsRegistered, Counted, CallsReachTheLibrary, DeadOnlyIfShrunk, LeaksNeedGap,
        OrphansNeedGap

-----------------------------------------------------------------------------
(* The library *)

\* What is removable depends on the library alone.
LEMMA SameLibrary ==
  ASSUME UNCHANGED loader
  PROVE  \A k : Removable(k)' <=> Removable(k)
  BY DEF Removable, Device, Instance, Loaded

\* The attempt leaves a loader that is open exactly when it is complete, and a
\* loader that was available stays as it is.
LEMMA EnsuredLoader ==
  ASSUME Inv, EnsureLoader
  PROVE  /\ loader' \in [attempted : BOOLEAN, available : BOOLEAN, open : BOOLEAN,
                         library : Libraries \cup {Missing}]
         /\ loader'.attempted /\ loader'.open = loader'.available
         /\ loader'.available => Complete(loader'.library)
         /\ loader.attempted => loader' = loader
         /\ loader.available => loader' = loader
  <1>1. ASSUME NEW l \in Libraries \cup {Missing}, loader' = Load(l)
        PROVE  /\ loader' \in [attempted : BOOLEAN, available : BOOLEAN, open : BOOLEAN,
                               library : Libraries \cup {Missing}]
               /\ loader'.attempted /\ loader'.open = loader'.available
               /\ loader'.available => Complete(loader'.library)
    <2>1. Complete(l) \in BOOLEAN /\ (Complete(l) => "vkGetInstanceProcAddr" \in l.exported)
      BY DEF Complete
    <2> QED BY <1>1, <2>1 DEF Load
  <1>2. loader.attempted => UNCHANGED loader
    BY DEF EnsureLoader
  <1>3. ASSUME Search PROVE \E l \in Libraries \cup {Missing} : loader' = Load(l)
    BY <1>3 DEF Search, FirstThatOpens, Inv, TypeOK
  <1>4. loader.available => loader.attempted
    BY DEF Inv, LibraryInUse
  <1>5. CASE loader.attempted
    BY <1>2, <1>5 DEF Inv, TypeOK, LibraryInUse
  <1>6. CASE ~loader.attempted
    BY <1>1, <1>3, <1>4, <1>6 DEF EnsureLoader
  <1> QED BY <1>5, <1>6

\* Calls that only load the library, or use what was loaded, keep everything.
LEMMA LoadingKeeps ==
  ASSUME Inv, EnsureLoader, faults' = faults,
         UNCHANGED <<disk, registered, live, listed, counting, shrunk>>
  PROVE  Inv'
  <1>1. TypeOK' /\ LibraryInUse'
    BY EnsuredLoader DEF Inv, TypeOK, LibraryInUse
  <1>2. CASE loader.available
    BY <1>1, <1>2, EnsuredLoader, SameLibrary
       DEF Inv, NothingWithoutLibrary, HandlesAreLive, ParentsRegistered, Counted,
           CallsReachTheLibrary, DeadOnlyIfShrunk, LeaksNeedGap, OrphansNeedGap
  <1>3. CASE ~loader.available
    BY <1>1, <1>3
       DEF Inv, NothingWithoutLibrary, HandlesAreLive, ParentsRegistered, Counted,
           CallsReachTheLibrary, DeadOnlyIfShrunk, LeaksNeedGap, OrphansNeedGap
  <1> QED BY <1>2, <1>3

\* The pointers of a complete library may be called.
LEMMA LoadedCalls ==
  ASSUME Inv, EnsureLoader, loader'.available, NEW s,
         s \in Required \/ Loaded(loader', s), CallLoaded(s)
  PROVE  faults' = faults
  <1>1. loader'.open /\ Loaded(loader', s)
    BY EnsuredLoader DEF Complete, Loaded
  <1> QED BY <1>1 DEF CallLoaded

LEMMA LoaderCallsKeep ==
  ASSUME Inv,
         \/ LoaderAvailable \/ EnumerateInstanceVersion
         \/ EnumerateInstanceExtensionProperties \/ EnumerateInstanceLayerProperties
  PROVE  Inv'
  <1>1. CASE LoaderAvailable
    BY <1>1, LoadingKeeps DEF LoaderAvailable
  <1>2. CASE EnumerateInstanceVersion
    BY <1>2, LoadingKeeps, LoadedCalls DEF EnumerateInstanceVersion
  <1>3. ASSUME NEW s \in Required, EnumerateInstance(s) PROVE Inv'
    BY <1>3, LoadingKeeps, LoadedCalls DEF EnumerateInstance
  <1> QED BY <1>1, <1>2, <1>3
      DEF EnumerateInstanceExtensionProperties, EnumerateInstanceLayerProperties, Required

LEMMA CreateInstanceKeeps == Inv /\ CreateInstance => Inv'
  <1> SUFFICES ASSUME Inv, CreateInstance PROVE Inv'
    OBVIOUS
  <1>1. EnsureLoader /\ UNCHANGED <<disk, listed, shrunk, counting>> /\ faults' = faults
    BY LoadedCalls DEF CreateInstance, outside, Required
  <1>2. CASE UNCHANGED <<live, registered>>
    BY <1>1, <1>2, LoadingKeeps
  <1>3. CASE /\ loader'.available /\ "instance" \notin live
             /\ live' = live \cup {"instance"} /\ registered' = registered \cup {"instance"}
    <2>1. TypeOK' /\ LibraryInUse' /\ NothingWithoutLibrary'
      BY <1>1, <1>3, EnsuredLoader DEF Inv, TypeOK, LibraryInUse, NothingWithoutLibrary, Kinds
    <2>2. HandlesAreLive' /\ ParentsRegistered' /\ Counted'
      BY <1>1, <1>3
         DEF Inv, HandlesAreLive, ParentsRegistered, Counted, DeviceChildren, OwnedByDevice
    <2>3. live' \ registered' \subseteq live \ registered
      BY <1>3
    <2>4. LeaksNeedGap' /\ OrphansNeedGap'
      <3>1. CASE loader.available
        BY <1>1, <2>3, <3>1, EnsuredLoader, SameLibrary DEF Inv, LeaksNeedGap, OrphansNeedGap
      <3>2. CASE ~loader.available
        BY <1>1, <2>3, <3>2 DEF Inv, NothingWithoutLibrary, LeaksNeedGap, OrphansNeedGap
      <3> QED BY <3>1, <3>2
    <2> QED BY <1>1, <2>1, <2>2, <2>4 DEF Inv, CallsReachTheLibrary, DeadOnlyIfShrunk
  <1> QED BY <1>1, <1>2, <1>3 DEF CreateInstance

-----------------------------------------------------------------------------
(* The patterns *)

\* A call on registered objects finds the library open, and may only be wrong
\* about a null physical device.
LEMMA AsksSafely ==
  ASSUME Inv, NEW objects, objects \subseteq registered, objects # {}, Asks(objects)
  PROVE  /\ loader.available
         /\ faults' \in SUBSET Faults
         /\ faults' = faults \/ faults' = faults \cup {"dead"}
         /\ "dead" \in faults' => shrunk
  <1>1. loader.available /\ loader.open
    BY DEF Inv, NothingWithoutLibrary, TypeOK
  <1>2. ~(objects \subseteq live) => shrunk
    BY DEF Inv, HandlesAreLive
  <1> QED BY <1>1, <1>2 DEF Asks, Inv, TypeOK, Faults, DeadOnlyIfShrunk

\* What is left to show of a step that leaves an available library alone.
LEMMA ObjectsKeep ==
  ASSUME Inv, loader.available, UNCHANGED <<loader, outside>>, counting' \in BOOLEAN,
         faults' \in SUBSET Faults, "closed" \notin faults',
         "dead" \in faults' => shrunk,
         "children" \in faults' => "children" \in faults \/ \E k \in Kinds : ~Removable(k),
         live' \subseteq Kinds, registered' \subseteq Kinds,
         \A k \in live' \ registered' : k \in live \ registered \/ ~Removable(k),
         HandlesAreLive', ParentsRegistered', Counted'
  PROVE  Inv'
  <1>1. TypeOK' /\ LibraryInUse' /\ NothingWithoutLibrary'
    BY DEF Inv, TypeOK, LibraryInUse, NothingWithoutLibrary, outside
  <1>2. LeaksNeedGap'
    BY SameLibrary DEF Inv, LeaksNeedGap
  <1>3. OrphansNeedGap'
    BY SameLibrary DEF Inv, OrphansNeedGap
  <1> QED BY <1>1, <1>2, <1>3 DEF Inv, CallsReachTheLibrary, DeadOnlyIfShrunk, outside

LEMMA UseKeeps ==
  ASSUME Inv, NEW objects, objects # {}, Use(objects)
  PROVE  Inv'
  <1>1. /\ loader.available /\ faults' \in SUBSET Faults
        /\ faults' = faults \/ faults' = faults \cup {"dead"}
        /\ "dead" \in faults' => shrunk
    BY AsksSafely DEF Use
  <1>2. HandlesAreLive' /\ ParentsRegistered' /\ Counted'
    BY DEF Use, Inv, HandlesAreLive, ParentsRegistered, Counted, outside
  <1> QED BY <1>1, <1>2, ObjectsKeep DEF Use, Inv, TypeOK, CallsReachTheLibrary

\* An object is created below registered parents.
LEMMA CreateKeeps ==
  ASSUME Inv, NEW kind \in DeviceChildren \cup {"device"}, NEW found, NEW parents,
         Create(kind, found, parents), parents # {},
         kind \in DeviceChildren => "device" \in parents,
         kind = "command_buffer" => "command_pool" \in parents,
         kind = "device" => "physical_device" \in parents
  PROVE  Inv'
  <1>1. /\ loader.available /\ faults' \in SUBSET Faults
        /\ faults' = faults \/ faults' = faults \cup {"dead"}
        /\ "dead" \in faults' => shrunk
    BY AsksSafely DEF Create
  <1>2. /\ \/ UNCHANGED <<live, registered>>
           \/ live' = live \cup {kind} /\ registered' = registered \cup {kind}
        /\ UNCHANGED <<outside, loader, counting>> /\ parents \subseteq registered
    BY DEF Create
  <1>3. kind \in Kinds /\ kind \notin {"physical_device", "instance"}
    BY DEF Kinds, DeviceChildren, OwnedByDevice
  <1>4. HandlesAreLive' /\ Counted'
    BY <1>2, <1>3 DEF Inv, HandlesAreLive, Counted, outside
  <1>5. ParentsRegistered'
    BY <1>2, <1>3 DEF Inv, ParentsRegistered, outside, DeviceChildren, OwnedByDevice
  <1>6. live' \subseteq Kinds /\ registered' \subseteq Kinds
        /\ live' \ registered' \subseteq live \ registered
    BY <1>2, <1>3 DEF Inv, TypeOK
  <1> QED BY <1>1, <1>2, <1>4, <1>5, <1>6, ObjectsKeep DEF Inv, TypeOK, CallsReachTheLibrary

\* Children of the device are destroyed, or could not be.
LEMMA DestroyKeeps ==
  ASSUME Inv, NEW gone \in SUBSET DeviceChildren, NEW found, NEW objects,
         Destroy(gone, found, objects), objects # {},
         \A k \in gone : Removable(k) => found,
         "command_pool" \in gone => "command_buffer" \in gone
  PROVE  Inv'
  <1>1. /\ loader.available /\ faults' \in SUBSET Faults
        /\ faults' = faults \/ faults' = faults \cup {"dead"}
        /\ "dead" \in faults' => shrunk
    BY AsksSafely DEF Destroy
  <1>2. /\ live' = IF found THEN live \ gone ELSE live
        /\ registered' = registered \ gone
        /\ UNCHANGED <<outside, loader, counting>>
    BY DEF Destroy
  <1>3. gone \cap {"physical_device", "instance", "device"} = {}
    BY DEF DeviceChildren, OwnedByDevice
  <1>4. HandlesAreLive' /\ Counted'
    BY <1>2, <1>3 DEF Inv, HandlesAreLive, Counted, outside
  <1>5. ParentsRegistered'
    BY <1>2, <1>3 DEF Inv, ParentsRegistered, outside
  <1>6. live' \subseteq Kinds /\ registered' \subseteq Kinds
    BY <1>2 DEF Inv, TypeOK
  <1>7. \A k \in live' \ registered' : k \in live \ registered \/ ~Removable(k)
    BY <1>2
  <1> QED BY <1>1, <1>2, <1>4, <1>5, <1>6, <1>7, ObjectsKeep
      DEF Inv, TypeOK, CallsReachTheLibrary

-----------------------------------------------------------------------------
(* The outside world and physical devices *)

LEMMA EnvironmentKeeps == Inv /\ Environment => Inv'
  <1> SUFFICES ASSUME Inv, Environment PROVE Inv'
    OBVIOUS
  <1>1. UNCHANGED <<loader, registered, live, counting, faults>>
    BY DEF Environment, ReplaceLibrary, PlugDevice
  <1>2. TypeOK'
    BY DEF Inv, TypeOK, Environment, ReplaceLibrary, PlugDevice
  <1>3. (shrunk => shrunk') /\ Counted'
    BY DEF Inv, TypeOK, Counted, Environment, ReplaceLibrary, PlugDevice
  <1> QED BY <1>1, <1>2, <1>3, SameLibrary
      DEF Inv, NothingWithoutLibrary, LibraryInUse, HandlesAreLive, ParentsRegistered,
          CallsReachTheLibrary, DeadOnlyIfShrunk, LeaksNeedGap, OrphansNeedGap

LEMMA EnumeratePhysicalDevicesKeeps == Inv /\ EnumeratePhysicalDevices => Inv'
  <1> SUFFICES ASSUME Inv, EnumeratePhysicalDevices PROVE Inv'
    OBVIOUS
  <1>1. /\ loader.available /\ faults' \in SUBSET Faults
        /\ faults' = faults \/ faults' = faults \cup {"dead"}
        /\ "dead" \in faults' => shrunk
    BY AsksSafely DEF EnumeratePhysicalDevices
  <1>2. HandlesAreLive' /\ ParentsRegistered'
    BY DEF EnumeratePhysicalDevices, Inv, HandlesAreLive, ParentsRegistered, outside
  <1>3. Counted' /\ counting' \in BOOLEAN
    BY DEF EnumeratePhysicalDevices, Inv, TypeOK, Counted, outside, Instance
  <1> QED BY <1>1, <1>2, <1>3, ObjectsKeep
      DEF EnumeratePhysicalDevices, Inv, TypeOK, CallsReachTheLibrary

LEMMA FillPhysicalDevicesKeeps == Inv /\ FillPhysicalDevices => Inv'
  <1> SUFFICES ASSUME Inv, FillPhysicalDevices PROVE Inv'
    OBVIOUS
  <1>1. "instance" \in registered /\ counting
    BY DEF FillPhysicalDevices, Inv, ParentsRegistered
  <1>2. /\ loader.available /\ faults' \in SUBSET Faults
        /\ faults' = faults \/ faults' = faults \cup {"dead"}
        /\ "dead" \in faults' => shrunk
    BY <1>1, AsksSafely DEF FillPhysicalDevices
  <1>3. HandlesAreLive'
    BY <1>1 DEF FillPhysicalDevices, Inv, HandlesAreLive, Counted, outside
  <1>4. ParentsRegistered' /\ Counted'
    BY <1>1 DEF FillPhysicalDevices, Inv, ParentsRegistered, Counted, outside,
                DeviceChildren, OwnedByDevice
  <1>5. live' \subseteq Kinds /\ registered' \subseteq Kinds
        /\ live' \ registered' \subseteq live \ registered
    BY DEF FillPhysicalDevices, Inv, TypeOK, Kinds
  <1> QED BY <1>2, <1>3, <1>4, <1>5, ObjectsKeep
      DEF FillPhysicalDevices, Inv, TypeOK, CallsReachTheLibrary

-----------------------------------------------------------------------------
(* Teardown *)

\* A teardown of the device leaves of its children only those that the library
\* cannot destroy, and those are not the only ones it leaves without a handle.
LEMMA WhatTeardownLeaves ==
  ASSUME Inv, "device" \in registered
  PROVE  /\ AfterDevice \subseteq live
         /\ {"instance", "physical_device"} \cap live \subseteq AfterDevice
         /\ \A k \in AfterDevice \cap (DeviceChildren \cup {"device"}) : ~Removable(k)
  <1>1. DestroyedChildren \subseteq DeviceChildren
    BY DEF DestroyedChildren, OwnedByDevice, DeviceChildren
  <1>2. AfterDevice \subseteq live
    BY DEF AfterDevice
  <1>3. {"instance", "physical_device"} \cap live \subseteq AfterDevice
    BY <1>1 DEF AfterDevice, DeviceChildren, OwnedByDevice
  <1>4. ASSUME NEW k \in AfterDevice \cap (DeviceChildren \cup {"device"}), k \in registered
        PROVE  ~Removable(k)
    <2>1. CASE k \in OwnedByDevice
      BY <1>4, <2>1 DEF AfterDevice, DestroyedChildren, Removable, OwnedByDevice
    <2>2. CASE k = "command_buffer"
      <3>1. "command_pool" \in registered
        BY <1>4, <2>2 DEF Inv, ParentsRegistered
      <3>2. ~Device("vkDestroyCommandPool")
        BY <1>4, <2>2, <3>1
           DEF AfterDevice, DestroyedChildren, OwnedByDevice, DestroyCommand
      <3> QED BY <2>2, <3>2 DEF Removable, OwnedByDevice
    <2>3. CASE k \in {"device", "queue"}
      BY <1>4, <2>3 DEF AfterDevice, Removable, OwnedByDevice
    <2> QED BY <2>1, <2>2, <2>3 DEF DeviceChildren
  <1>5. ASSUME NEW k \in AfterDevice \cap (DeviceChildren \cup {"device"}), k \notin registered
        PROVE  ~Removable(k)
    BY <1>2, <1>5 DEF Inv, LeaksNeedGap
  <1> QED BY <1>2, <1>3, <1>4, <1>5

\* Every handle that a teardown passes on, but that of a physical device, is
\* good, and the library is open.
LEMMA TeardownFaults ==
  ASSUME Inv, registered # {}
  PROVE  /\ loader.available /\ loader.open
         /\ registered \ {"physical_device"} \subseteq live
         /\ registered \cap (DeviceChildren \cup {"device"}) \subseteq live
  BY DEF Inv, NothingWithoutLibrary, TypeOK, HandlesAreLive, DeviceChildren, OwnedByDevice

LEMMA OrphansNeedGaps ==
  ASSUME Inv, Orphans
  PROVE  \E k \in Kinds : ~Removable(k)
  BY WhatTeardownLeaves DEF Orphans, Kinds

LEMMA DestroyDeviceKeeps == Inv /\ DestroyDevice => Inv'
  <1> SUFFICES ASSUME Inv, DestroyDevice PROVE Inv'
    OBVIOUS
  <1>1. "device" \in registered /\ counting' = counting
        /\ live' = AfterDevice /\ registered' = registered \ (DeviceChildren \cup {"device"})
    BY DEF DestroyDevice
  <1>2. /\ loader.available /\ faults' \in SUBSET Faults
        /\ faults' = faults \cup {f \in {"children"} : Orphans}
    BY <1>1, TeardownFaults DEF DestroyDevice, Faults, Inv, TypeOK
  <1>3. HandlesAreLive' /\ Counted'
    BY <1>1, WhatTeardownLeaves
       DEF DestroyDevice, Inv, TypeOK, HandlesAreLive, Counted, outside, Kinds
  <1>4. ParentsRegistered'
    BY <1>1 DEF Inv, ParentsRegistered, DeviceChildren, OwnedByDevice
  <1>5. live' \subseteq Kinds /\ registered' \subseteq Kinds
    BY <1>1, WhatTeardownLeaves DEF Inv, TypeOK
  <1>6. \A k \in live' \ registered' : k \in live \ registered \/ ~Removable(k)
    BY <1>1, WhatTeardownLeaves
  <1>7. /\ "closed" \notin faults' /\ ("dead" \in faults' => shrunk)
        /\ "children" \in faults' => "children" \in faults \/ \E k \in Kinds : ~Removable(k)
    BY <1>2, OrphansNeedGaps DEF Inv, CallsReachTheLibrary, DeadOnlyIfShrunk
  <1> QED BY <1>1, <1>2, <1>3, <1>4, <1>5, <1>6, <1>7, ObjectsKeep
      DEF DestroyDevice, Inv, TypeOK

LEMMA DestroyInstanceKeeps == Inv /\ DestroyInstance => Inv'
  <1> SUFFICES ASSUME Inv, DestroyInstance PROVE Inv'
    OBVIOUS
  <1>1. /\ "instance" \in registered /\ registered' = {} /\ counting' = FALSE
        /\ live' = IF Instance("vkDestroyInstance")
                   THEN AfterDevice \ {"instance", "physical_device"} ELSE AfterDevice
    BY DEF DestroyInstance, Free, Inv, TypeOK
  <1>2. AfterDevice \subseteq live
    BY DEF AfterDevice
  <1>3. \A k \in AfterDevice \cap (DeviceChildren \cup {"device"}) : ~Removable(k)
    <2>1. CASE "device" \in registered
      BY <2>1, WhatTeardownLeaves
    <2>2. CASE "device" \notin registered
      <3>1. registered \cap (DeviceChildren \cup {"device"}) = {}
        BY <2>2 DEF Inv, ParentsRegistered
      <3> QED BY <1>2, <3>1 DEF Inv, LeaksNeedGap
    <2> QED BY <2>1, <2>2
  <1>4. \A k \in live' \ registered' : ~Removable(k)
    <2>1. ASSUME NEW k \in live', k \in {"instance", "physical_device"} PROVE ~Removable(k)
      BY <1>1, <2>1 DEF Removable, OwnedByDevice
    <2> QED BY <1>1, <1>2, <1>3, <2>1 DEF Inv, TypeOK, Kinds
  <1>5. "device" \in AfterDevice => \E k \in Kinds : ~Removable(k)
    BY <1>3 DEF Kinds
  <1>6. /\ loader.available /\ faults' \in SUBSET Faults
        /\ faults' = faults \/ faults' = faults \cup {"children"}
        /\ faults' = faults \/ Orphans \/ "device" \in AfterDevice
    BY <1>1, TeardownFaults DEF DestroyInstance, Faults, Inv, TypeOK
  <1>7. /\ "closed" \notin faults' /\ ("dead" \in faults' => shrunk)
        /\ "children" \in faults' => "children" \in faults \/ \E k \in Kinds : ~Removable(k)
    BY <1>5, <1>6, OrphansNeedGaps DEF Inv, CallsReachTheLibrary, DeadOnlyIfShrunk
  <1>8. HandlesAreLive' /\ ParentsRegistered' /\ Counted'
    BY <1>1 DEF HandlesAreLive, ParentsRegistered, Counted
  <1>9. live' \subseteq Kinds /\ registered' \subseteq Kinds
    BY <1>1, <1>2 DEF Inv, TypeOK
  <1> QED BY <1>1, <1>4, <1>6, <1>7, <1>8, <1>9, ObjectsKeep DEF DestroyInstance

-----------------------------------------------------------------------------
(* The other calls *)

LEMMA PhysicalDeviceCallKeeps == Inv /\ PhysicalDeviceCall => Inv'
  <1> SUFFICES ASSUME Inv, PhysicalDeviceCall PROVE Inv'
    OBVIOUS
  <1>1. CASE QueryPhysicalDevice
    BY <1>1, UseKeeps DEF QueryPhysicalDevice
  <1>2. CASE CreateDevice
    BY <1>2, CreateKeeps DEF CreateDevice, DeviceChildren, OwnedByDevice
  <1> QED BY <1>1, <1>2, EnumeratePhysicalDevicesKeeps, FillPhysicalDevicesKeeps
      DEF PhysicalDeviceCall, EnumerateDeviceExtensionProperties, GetPhysicalDeviceProperties,
          GetPhysicalDeviceFeatures, GetPhysicalDeviceMemoryProperties,
          GetPhysicalDeviceQueueFamilyProperties

LEMMA UseOfDeviceKeeps ==
  ASSUME Inv, NEW objects, UseOfDevice(objects)
  PROVE  Inv'
  BY UseKeeps DEF UseOfDevice

LEMMA CreateChildKeeps ==
  ASSUME Inv, NEW kind \in DeviceChildren \ {"command_buffer"}, NEW s, CreateChild(kind, s)
  PROVE  Inv'
  <1>1. kind # "device" /\ kind # "command_buffer"
    BY DEF DeviceChildren, OwnedByDevice
  <1> QED BY <1>1, CreateKeeps DEF CreateChild

LEMMA DestroyChildKeeps ==
  ASSUME Inv, NEW kind \in OwnedByDevice \ {"command_pool"}, DestroyChild(kind)
  PROVE  Inv'
  <1>1. Removable(kind) => Device(DestroyCommand[kind])
    BY DEF Removable, OwnedByDevice
  <1>2. {kind} \in SUBSET DeviceChildren
    BY DEF DeviceChildren
  <1> QED BY <1>1, <1>2, DestroyKeeps DEF DestroyChild

LEMMA DeviceCallKeeps == Inv /\ DeviceCall => Inv'
  BY DestroyDeviceKeeps, UseOfDeviceKeeps, CreateChildKeeps
     DEF DeviceCall, DeviceWaitIdle, GetDeviceQueue, QueueWaitIdle, DeviceChildren

LEMMA CommandCallKeeps == Inv /\ CommandCall => Inv'
  <1> SUFFICES ASSUME Inv, CommandCall PROVE Inv'
    OBVIOUS
  <1>1. CASE DestroyCommandPool
    <2>1. /\ Removable("command_pool") => Device(DestroyCommand["command_pool"])
          /\ Removable("command_buffer") => Device(DestroyCommand["command_pool"])
      BY DEF Removable, OwnedByDevice, DestroyCommand
    <2> QED BY <1>1, <2>1, DestroyKeeps DEF DestroyCommandPool, DeviceChildren, OwnedByDevice
  <1>2. CASE FreeCommandBuffers
    <2>1. Removable("command_buffer") => Device("vkFreeCommandBuffers")
      BY DEF Removable, OwnedByDevice
    <2> QED BY <1>2, <2>1, DestroyKeeps DEF FreeCommandBuffers, DeviceChildren
  <1>3. CASE AllocateCommandBuffers
    BY <1>3, CreateKeeps DEF AllocateCommandBuffers, DeviceChildren
  <1>4. CASE CreateCommandPool
    BY <1>4, CreateChildKeeps DEF CreateCommandPool, DeviceChildren, OwnedByDevice
  <1> QED BY <1>1, <1>2, <1>3, <1>4, UseOfDeviceKeeps
      DEF CommandCall, ResetCommandPool, BeginCommandBuffer, EndCommandBuffer,
          ResetCommandBuffer

LEMMA ChildCallKeeps == Inv /\ (SynchronizationCall \/ ResourceCall \/ MemoryCall) => Inv'
  <1> SUFFICES ASSUME Inv, SynchronizationCall \/ ResourceCall \/ MemoryCall PROVE Inv'
    OBVIOUS
  <1> DEFINE Plain == OwnedByDevice \ {"command_pool"}
  <1>1. \A kind \in Plain : kind \in DeviceChildren \ {"command_buffer"}
    BY DEF DeviceChildren, OwnedByDevice
  <1>2. ASSUME NEW kind \in Plain, NEW s, CreateChild(kind, s) \/ DestroyChild(kind) PROVE Inv'
    BY <1>1, <1>2, CreateChildKeeps, DestroyChildKeeps
  <1>3. {"shader_module", "semaphore", "fence", "buffer", "image", "memory"} \subseteq Plain
    BY DEF OwnedByDevice
  <1> HIDE DEF Plain
  <1>4. CASE SynchronizationCall
    BY <1>2, <1>3, <1>4, UseOfDeviceKeeps
       DEF SynchronizationCall, CreateSemaphore, DestroySemaphore, CreateFence, DestroyFence,
           GetFenceStatus, WaitForFences, ResetFences
  <1>5. CASE ResourceCall
    BY <1>2, <1>3, <1>5, UseOfDeviceKeeps
       DEF ResourceCall, CreateShaderModule, DestroyShaderModule, CreateBuffer, DestroyBuffer,
           GetBufferMemoryRequirements, CreateImage, DestroyImage, GetImageMemoryRequirements,
           BindBufferMemory, BindImageMemory
  <1>6. CASE MemoryCall
    BY <1>2, <1>3, <1>6, UseOfDeviceKeeps
       DEF MemoryCall, AllocateMemory, FreeMemory, MapMemory, UnmapMemory, FlushMappedMemory,
           InvalidateMappedMemory
  <1> QED BY <1>4, <1>5, <1>6

LEMMA NextInv == Inv /\ [Next]_vars => Inv'
  <1> SUFFICES ASSUME Inv, [Next]_vars PROVE Inv'
    OBVIOUS
  <1>1. CASE InstanceCall
    BY <1>1, LoaderCallsKeep, CreateInstanceKeeps, DestroyInstanceKeeps DEF InstanceCall
  <1>2. CASE UNCHANGED vars
    BY <1>2, SameLibrary
       DEF vars, Inv, TypeOK, NothingWithoutLibrary, LibraryInUse, HandlesAreLive,
           ParentsRegistered, Counted, CallsReachTheLibrary, DeadOnlyIfShrunk, LeaksNeedGap,
           OrphansNeedGap
  <1> QED BY <1>1, <1>2, EnvironmentKeeps, PhysicalDeviceCallKeeps, DeviceCallKeeps,
        CommandCallKeeps, ChildCallKeeps DEF Next

LEMMA Invariance == Spec => []Inv
  <1> QED BY InitInv, NextInv, PTL DEF Spec

-----------------------------------------------------------------------------
(* The theorems *)

\* The pointers, the objects and what went wrong keep their types, whichever
\* library is found and whatever it lacks.
THEOREM TypeCorrectness == Spec => []TypeOK
  <1>1. Inv => TypeOK
    BY DEF Inv
  <1> QED BY <1>1, Invariance, PTL

\* The backend never calls through a null pointer or into a closed library.
THEOREM NoWildCalls == Spec => []CallsReachTheLibrary
  <1>1. Inv => CallsReachTheLibrary
    BY DEF Inv
  <1> QED BY <1>1, Invariance, PTL

\* Driver objects are dead when passed only because a list shrank.
THEOREM DeadObjectsComeFromShrunkLists == Spec => []DeadOnlyIfShrunk
  <1>1. Inv => DeadOnlyIfShrunk
    BY DEF Inv
  <1> QED BY <1>1, Invariance, PTL

\* A record is erased without its object only if the library lacks a command.
THEOREM LeaksComeFromGaps == Spec => []LeaksNeedGap
  <1>1. Inv => LeaksNeedGap
    BY DEF Inv
  <1> QED BY <1>1, Invariance, PTL

\* Parents die before children only if the library lacks a command.
THEOREM OrphansComeFromGaps == Spec => []OrphansNeedGap
  <1>1. Inv => OrphansNeedGap
    BY DEF Inv
  <1> QED BY <1>1, Invariance, PTL

\* Only the functions that ensure the loader touch it.
LEMMA OnlyEnsureLoaderTouchesIt ==
  ASSUME Next
  PROVE  EnsureLoader \/ UNCHANGED loader
  <1>1. CASE Environment
    BY <1>1 DEF Environment, ReplaceLibrary, PlugDevice
  <1>2. CASE InstanceCall
    BY <1>2 DEF InstanceCall, LoaderAvailable, EnumerateInstanceVersion,
         EnumerateInstanceExtensionProperties, EnumerateInstanceLayerProperties,
         EnumerateInstance, CreateInstance, DestroyInstance
  <1>3. CASE PhysicalDeviceCall
    BY <1>3 DEF PhysicalDeviceCall, EnumeratePhysicalDevices, FillPhysicalDevices,
         EnumerateDeviceExtensionProperties, GetPhysicalDeviceProperties,
         GetPhysicalDeviceFeatures, GetPhysicalDeviceMemoryProperties,
         GetPhysicalDeviceQueueFamilyProperties, QueryPhysicalDevice, CreateDevice, Use, Create
  <1>4. ASSUME NEW objects, UseOfDevice(objects) PROVE UNCHANGED loader
    BY <1>4 DEF UseOfDevice, Use
  <1>5. ASSUME NEW kind, NEW s, CreateChild(kind, s) \/ DestroyChild(kind)
        PROVE  UNCHANGED loader
    BY <1>5 DEF CreateChild, Create, DestroyChild, Destroy
  <1>6. CASE DeviceCall \/ CommandCall
    BY <1>4, <1>5, <1>6
       DEF DeviceCall, DestroyDevice, DeviceWaitIdle, GetDeviceQueue, QueueWaitIdle,
           CommandCall, CreateCommandPool, ResetCommandPool, DestroyCommandPool,
           AllocateCommandBuffers, FreeCommandBuffers, BeginCommandBuffer, EndCommandBuffer,
           ResetCommandBuffer, Create, Destroy
  <1>7. CASE SynchronizationCall \/ MemoryCall
    BY <1>4, <1>5, <1>7
       DEF SynchronizationCall, CreateSemaphore, DestroySemaphore, CreateFence, DestroyFence,
           GetFenceStatus, WaitForFences, ResetFences, MemoryCall, AllocateMemory, FreeMemory,
           MapMemory, UnmapMemory, FlushMappedMemory, InvalidateMappedMemory
  <1>8. CASE ResourceCall
    BY <1>4, <1>5, <1>8
       DEF ResourceCall, CreateShaderModule, DestroyShaderModule, CreateBuffer, DestroyBuffer,
           GetBufferMemoryRequirements, CreateImage, DestroyImage, GetImageMemoryRequirements,
           BindBufferMemory, BindImageMemory
  <1> QED BY <1>1, <1>2, <1>3, <1>6, <1>7, <1>8 DEF Next

\* The first attempt to load a library decides for good.
THEOREM LibraryIsLoadedOnce == Spec => LoadedOnce
  <1>1. [Next]_vars => [loader.attempted => UNCHANGED loader]_vars
    BY OnlyEnsureLoaderTouchesIt DEF EnsureLoader
  <1> QED BY <1>1, PTL DEF Spec, LoadedOnce

=============================================================================
