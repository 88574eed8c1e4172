----------------------------- MODULE PluginExports -----------------------------
(***************************************************************************)
(* How a guest's call reaches the plugin: the imports the guest's header   *)
(* declares, the functions the plugin exports with their types, and the    *)
(* entry of each, which reads its parameters out of one block of bytes and *)
(* passes them to a function of the API.  Four tables written by hand have *)
(* to agree on every one of the 46 functions:                              *)
(*                                                                         *)
(*   Imports     what the guest passes          (vulkan.h)                 *)
(*   Exports     what the runtime is told       (kFunctions)               *)
(*   Entries     what the entry takes it for    (the packed structs)       *)
(*   Parameters  what the API is given          (api.h)                    *)
(*                                                                         *)
(* A value is the sequence of its bytes, each named by the argument it is  *)
(* of and its place in it, so that a byte at the wrong place shows.        *)
(* Packed says whether the compiler is one that knows the attribute the    *)
(* structs are declared with.  Names leave out "_handle" and "_address".   *)
(*                                                                         *)
(* "Mutant of D" marks a broken variant of definition D.  No specification *)
(* uses it: it stands for a plausible bug in the code, put in place of D   *)
(* to see that a property notices.                                         *)
(***************************************************************************)
EXTENDS Naturals, Sequences, SequencesExt

CONSTANTS
  Packed,  \* whether UWVM2_VULKAN_PACKED is more than nothing
  Results  \* what the functions of the API return

ASSUME PackedAssumption == Packed \in BOOLEAN

\* Three tables as one: the functions of the instance and the device, those of commands
\* and synchronisation, those of resources.
Joined(first, second, third) ==
  [f \in DOMAIN first \cup DOMAIN second \cup DOMAIN third |->
    IF f \in DOMAIN first THEN first[f]
    ELSE IF f \in DOMAIN second THEN second[f] ELSE third[f]]

-----------------------------------------------------------------------------
(* What the guest declares *)

W(name) == [name |-> name, width |-> 8]  \* uint64_t
N(name) == [name |-> name, width |-> 4]  \* uint32_t

InstanceImports ==
  [loader_available |-> <<>>,
   enumerate_instance_version |-> <<W("out_api_version")>>,
   enumerate_instance_extension_properties |-> <<W("layer_name"), W("property_buffer"),
      N("property_capacity"), W("out_property_count")>>,
   enumerate_instance_layer_properties |-> <<W("property_buffer"), N("property_capacity"),
      W("out_property_count")>>,
   create_instance |-> <<W("create_info"), W("out_instance")>>,
   destroy_instance |-> <<W("instance")>>,
   enumerate_physical_devices |-> <<W("instance"), W("out_device_buffer"),
      N("device_capacity"), W("out_device_count")>>,
   enumerate_device_extension_properties |-> <<W("physical_device"), W("layer_name"),
      W("property_buffer"), N("property_capacity"), W("out_property_count")>>,
   get_physical_device_properties |-> <<W("physical_device"), W("out_properties")>>,
   get_physical_device_features |-> <<W("physical_device"), W("out_features")>>,
   get_physical_device_memory_properties |-> <<W("physical_device"), W("out_properties")>>,
   get_physical_device_queue_family_properties |-> <<W("physical_device"),
      W("out_property_buffer"), N("property_capacity"), W("out_property_count")>>,
   create_device |-> <<W("physical_device"), W("create_info"), W("out_device")>>,
   destroy_device |-> <<W("device")>>,
   device_wait_idle |-> <<W("device")>>,
   get_device_queue |-> <<W("device"), N("queue_family_index"), N("queue_index"),
      W("out_queue")>>,
   queue_wait_idle |-> <<W("queue")>>]

CommandImports ==
  [create_command_pool |-> <<W("device"), W("create_info"), W("out_command_pool")>>,
   destroy_command_pool |-> <<W("device"), W("command_pool")>>,
   reset_command_pool |-> <<W("device"), W("command_pool"), N("flags")>>,
   allocate_command_buffers |-> <<W("device"), W("allocate_info"),
      W("out_command_buffer_buffer")>>,
   free_command_buffers |-> <<W("device"), W("command_pool"), W("command_buffer_buffer"),
      N("command_buffer_count")>>,
   begin_command_buffer |-> <<W("device"), W("command_buffer"), W("begin_info")>>,
   end_command_buffer |-> <<W("device"), W("command_buffer")>>,
   reset_command_buffer |-> <<W("device"), W("command_buffer"), N("flags")>>,
   create_shader_module |-> <<W("device"), W("create_info"), W("out_shader_module")>>,
   destroy_shader_module |-> <<W("device"), W("shader_module")>>,
   create_semaphore |-> <<W("device"), W("create_info"), W("out_semaphore")>>,
   destroy_semaphore |-> <<W("device"), W("semaphore")>>,
   create_fence |-> <<W("device"), W("create_info"), W("out_fence")>>,
   destroy_fence |-> <<W("device"), W("fence")>>,
   get_fence_status |-> <<W("device"), W("fence")>>,
   wait_for_fences |-> <<W("device"), W("fence_buffer"), N("fence_count"), N("wait_all"),
      W("timeout")>>,
   reset_fences |-> <<W("device"), W("fence_buffer"), N("fence_count")>>]

ResourceImports ==
  [create_buffer |-> <<W("device"), W("create_info"), W("out_buffer")>>,
   destroy_buffer |-> <<W("device"), W("buffer")>>,
   get_buffer_memory_requirements |-> <<W("device"), W("buffer"), W("out_requirements")>>,
   create_image |-> <<W("device"), W("create_info"), W("out_image")>>,
   destroy_image |-> <<W("device"), W("image")>>,
   get_image_memory_requirements |-> <<W("device"), W("image"), W("out_requirements")>>,
   allocate_memory |-> <<W("device"), W("allocate_info"), W("out_memory")>>,
   free_memory |-> <<W("device"), W("memory")>>,
   bind_buffer_memory |-> <<W("device"), W("buffer"), W("memory"), W("offset")>>,
   bind_image_memory |-> <<W("device"), W("image"), W("memory"), W("offset")>>,
   copy_guest_to_device_memory |-> <<W("device"), W("memory"), W("copy_region")>>,
   copy_device_memory_to_guest |-> <<W("device"), W("memory"), W("copy_region")>>]

Imports == Joined(InstanceImports, CommandImports, ResourceImports)

Names == DOMAIN Imports

-----------------------------------------------------------------------------
(* What the plugin exports: the types; every function returns an I32. *)

I64 == 8
I32 == 4

InstanceExports ==
  [loader_available |-> <<>>,
   enumerate_instance_version |-> <<I64>>,
   enumerate_instance_extension_properties |-> <<I64, I64, I32, I64>>,
   enumerate_instance_layer_properties |-> <<I64, I32, I64>>,
   create_instance |-> <<I64, I64>>,
   destroy_instance |-> <<I64>>,
   enumerate_physical_devices |-> <<I64, I64, I32, I64>>,
   enumerate_device_extension_properties |-> <<I64, I64, I64, I32, I64>>,
   get_physical_device_properties |-> <<I64, I64>>,
   get_physical_device_features |-> <<I64, I64>>,
   get_physical_device_memory_properties |-> <<I64, I64>>,
   get_physical_device_queue_family_properties |-> <<I64, I64, I32, I64>>,
   create_device |-> <<I64, I64, I64>>,
   destroy_device |-> <<I64>>,
   device_wait_idle |-> <<I64>>,
   get_device_queue |-> <<I64, I32, I32, I64>>,
   queue_wait_idle |-> <<I64>>]

CommandExports ==
  [create_command_pool |-> <<I64, I64, I64>>,
   destroy_command_pool |-> <<I64, I64>>,
   reset_command_pool |-> <<I64, I64, I32>>,
   allocate_command_buffers |-> <<I64, I64, I64>>,
   free_command_buffers |-> <<I64, I64, I64, I32>>,
   begin_command_buffer |-> <<I64, I64, I64>>,
   end_command_buffer |-> <<I64, I64>>,
   reset_command_buffer |-> <<I64, I64, I32>>,
   create_shader_module |-> <<I64, I64, I64>>,
   destroy_shader_module |-> <<I64, I64>>,
   create_semaphore |-> <<I64, I64, I64>>,
   destroy_semaphore |-> <<I64, I64>>,
   create_fence |-> <<I64, I64, I64>>,
   destroy_fence |-> <<I64, I64>>,
   get_fence_status |-> <<I64, I64>>,
   wait_for_fences |-> <<I64, I64, I32, I32, I64>>,
   reset_fences |-> <<I64, I64, I32>>]

ResourceExports ==
  [create_buffer |-> <<I64, I64, I64>>,
   destroy_buffer |-> <<I64, I64>>,
   get_buffer_memory_requirements |-> <<I64, I64, I64>>,
   create_image |-> <<I64, I64, I64>>,
   destroy_image |-> <<I64, I64>>,
   get_image_memory_requirements |-> <<I64, I64, I64>>,
   allocate_memory |-> <<I64, I64, I64>>,
   free_memory |-> <<I64, I64>>,
   bind_buffer_memory |-> <<I64, I64, I64, I64>>,
   bind_image_memory |-> <<I64, I64, I64, I64>>,
   copy_guest_to_device_memory |-> <<I64, I64, I64>>,
   copy_device_memory_to_guest |-> <<I64, I64, I64>>]

\* Mutant of Exports: one type is missing.
ExportsShort ==
  Joined(InstanceExports, [CommandExports EXCEPT !.reset_fences = <<I64, I64>>], ResourceExports)
Exports == Joined(InstanceExports, CommandExports, ResourceExports)

-----------------------------------------------------------------------------
(* The entries: a function of the API and the struct whose fields it is    *)
(* passed, in order                                                        *)

Structs ==
  [no_param |-> <<>>,
   one_u64_param |-> <<8>>,
   two_u64_param |-> <<8, 8>>,
   three_u64_param |-> <<8, 8, 8>>,
   four_u64_param |-> <<8, 8, 8, 8>>,
   two_u64_one_u32_param |-> <<8, 8, 4>>,
   enumerate_extension_param |-> <<8, 8, 4, 8>>,
   enumerate_device_extension_param |-> <<8, 8, 8, 4, 8>>,
   enumerate_layer_param |-> <<8, 4, 8>>,
   enumerate_physical_device_param |-> <<8, 8, 4, 8>>,
   get_queue_param |-> <<8, 4, 4, 8>>,
   wait_for_fences_param |-> <<8, 8, 4, 4, 8>>,
   reset_fences_param |-> <<8, 8, 4>>,
   destroy_buffer_param |-> <<8, 8>>,
   bind_buffer_memory_param |-> <<8, 8, 8, 8>>,
   free_command_buffers_param |-> <<8, 8, 8, 4>>]

InstanceEntries ==
  [loader_available |-> <<"LoaderAvailable", "no_param">>,
   enumerate_instance_version |-> <<"EnumerateInstanceVersion", "one_u64_param">>,
   enumerate_instance_extension_properties |-> <<"EnumerateInstanceExtensionProperties",
      "enumerate_extension_param">>,
   enumerate_instance_layer_properties |-> <<"EnumerateInstanceLayerProperties",
      "enumerate_layer_param">>,
   create_instance |-> <<"CreateInstance", "two_u64_param">>,
   destroy_instance |-> <<"DestroyInstance", "one_u64_param">>,
   enumerate_physical_devices |-> <<"EnumeratePhysicalDevices",
      "enumerate_physical_device_param">>,
   enumerate_device_extension_properties |-> <<"EnumerateDeviceExtensionProperties",
      "enumerate_device_extension_param">>,
   get_physical_device_properties |-> <<"GetPhysicalDeviceProperties", "two_u64_param">>,
   get_physical_device_features |-> <<"GetPhysicalDeviceFeatures", "two_u64_param">>,
   get_physical_device_memory_properties |-> <<"GetPhysicalDeviceMemoryProperties",
      "two_u64_param">>,
   get_physical_device_queue_family_properties |->
      <<"GetPhysicalDeviceQueueFamilyProperties", "enumerate_physical_device_param">>,
   create_device |-> <<"CreateDevice", "three_u64_param">>,
   destroy_device |-> <<"DestroyDevice", "one_u64_param">>,
   device_wait_idle |-> <<"DeviceWaitIdle", "one_u64_param">>,
   get_device_queue |-> <<"GetDeviceQueue", "get_queue_param">>,
   queue_wait_idle |-> <<"QueueWaitIdle", "one_u64_param">>]

CommandEntries ==
  [create_command_pool |-> <<"CreateCommandPool", "three_u64_param">>,
   destroy_command_pool |-> <<"DestroyCommandPool", "destroy_buffer_param">>,
   reset_command_pool |-> <<"ResetCommandPool", "two_u64_one_u32_param">>,
   allocate_command_buffers |-> <<"AllocateCommandBuffers", "three_u64_param">>,
   free_command_buffers |-> <<"FreeCommandBuffers", "free_command_buffers_param">>,
   begin_command_buffer |-> <<"BeginCommandBuffer", "three_u64_param">>,
   end_command_buffer |-> <<"EndCommandBuffer", "two_u64_param">>,
   reset_command_buffer |-> <<"ResetCommandBuffer", "two_u64_one_u32_param">>,
   create_shader_module |-> <<"CreateShaderModule", "three_u64_param">>,
   destroy_shader_module |-> <<"DestroyShaderModule", "destroy_buffer_param">>,
   create_semaphore |-> <<"CreateSemaphore", "three_u64_param">>,
   destroy_semaphore |-> <<"DestroySemaphore", "destroy_buffer_param">>,
   create_fence |-> <<"CreateFence", "three_u64_param">>,
   destroy_fence |-> <<"DestroyFence", "destroy_buffer_param">>,
   get_fence_status |-> <<"GetFenceStatus", "two_u64_param">>,
   wait_for_fences |-> <<"WaitForFences", "wait_for_fences_param">>,
   reset_fences |-> <<"ResetFences", "reset_fences_param">>]

ResourceEntries ==
  [create_buffer |-> <<"CreateBuffer", "three_u64_param">>,
   destroy_buffer |-> <<"DestroyBuffer", "destroy_buffer_param">>,
   get_buffer_memory_requirements |-> <<"GetBufferMemoryRequirements", "three_u64_param">>,
   create_image |-> <<"CreateImage", "three_u64_param">>,
   destroy_image |-> <<"DestroyImage", "destroy_buffer_param">>,
   get_image_memory_requirements |-> <<"GetImageMemoryRequirements", "three_u64_param">>,
   allocate_memory |-> <<"AllocateMemory", "three_u64_param">>,
   free_memory |-> <<"FreeMemory", "two_u64_param">>,
   bind_buffer_memory |-> <<"BindBufferMemory", "bind_buffer_memory_param">>,
   bind_image_memory |-> <<"BindImageMemory", "bind_buffer_memory_param">>,
   copy_guest_to_device_memory |-> <<"CopyGuestToDeviceMemory", "three_u64_param">>,
   copy_device_memory_to_guest |-> <<"CopyDeviceMemoryToGuest", "three_u64_param">>]

\* Mutant of Entries: a struct taken over from another entry.
EntriesAllWide ==
  Joined(InstanceEntries,
         [CommandEntries EXCEPT !.reset_fences = <<"ResetFences", "three_u64_param">>],
         ResourceEntries)
Entries == Joined(InstanceEntries, CommandEntries, ResourceEntries)

-----------------------------------------------------------------------------
(* What the API takes *)

InstanceParameters ==
  [LoaderAvailable |-> <<>>,
   EnumerateInstanceVersion |-> <<"out_api_version">>,
   EnumerateInstanceExtensionProperties |-> <<"layer_name", "property_buffer",
      "property_capacity", "out_property_count">>,
   EnumerateInstanceLayerProperties |-> <<"property_buffer", "property_capacity",
      "out_property_count">>,
   CreateInstance |-> <<"create_info", "out_instance">>,
   DestroyInstance |-> <<"instance">>,
   EnumeratePhysicalDevices |-> <<"instance", "out_device_buffer", "device_capacity",
      "out_device_count">>,
   EnumerateDeviceExtensionProperties |-> <<"physical_device", "layer_name",
      "property_buffer", "property_capacity", "out_property_count">>,
   GetPhysicalDeviceProperties |-> <<"physical_device", "out_properties">>,
   GetPhysicalDeviceFeatures |-> <<"physical_device", "out_features">>,
   GetPhysicalDeviceMemoryProperties |-> <<"physical_device", "out_properties">>,
   GetPhysicalDeviceQueueFamilyProperties |-> <<"physical_device", "out_property_buffer",
      "property_capacity", "out_property_count">>,
   CreateDevice |-> <<"physical_device", "create_info", "out_device">>,
   DestroyDevice |-> <<"device">>,
   DeviceWaitIdle |-> <<"device">>,
   GetDeviceQueue |-> <<"device", "queue_family_index", "queue_index", "out_queue">>,
   QueueWaitIdle |-> <<"queue">>]

CommandParameters ==
  [CreateCommandPool |-> <<"device", "create_info", "out_command_pool">>,
   DestroyCommandPool |-> <<"device", "command_pool">>,
   ResetCommandPool |-> <<"device", "command_pool", "flags">>,
   AllocateCommandBuffers |-> <<"device", "allocate_info", "out_command_buffer_buffer">>,
   FreeCommandBuffers |-> <<"device", "command_pool", "command_buffer_buffer",
      "command_buffer_count">>,
   BeginCommandBuffer |-> <<"device", "command_buffer", "begin_info">>,
   EndCommandBuffer |-> <<"device", "command_buffer">>,
   ResetCommandBuffer |-> <<"device", "command_buffer", "flags">>,
   CreateShaderModule |-> <<"device", "create_info", "out_shader_module">>,
   DestroyShaderModule |-> <<"device", "shader_module">>,
   CreateSemaphore |-> <<"device", "create_info", "out_semaphore">>,
   DestroySemaphore |-> <<"device", "semaphore">>,
   CreateFence |-> <<"device", "create_info", "out_fence">>,
   DestroyFence |-> <<"device", "fence">>,
   GetFenceStatus |-> <<"device", "fence">>,
   WaitForFences |-> <<"device", "fence_buffer", "fence_count", "wait_all", "timeout">>,
   ResetFences |-> <<"device", "fence_buffer", "fence_count">>]

ResourceParameters ==
  [CreateBuffer |-> <<"device", "create_info", "out_buffer">>,
   DestroyBuffer |-> <<"device", "buffer">>,
   GetBufferMemoryRequirements |-> <<"device", "buffer", "out_requirements">>,
   CreateImage |-> <<"device", "create_info", "out_image">>,
   DestroyImage |-> <<"device", "image">>,
   GetImageMemoryRequirements |-> <<"device", "image", "out_requirements">>,
   AllocateMemory |-> <<"device", "allocate_info", "out_memory">>,
   FreeMemory |-> <<"device", "memory">>,
   BindBufferMemory |-> <<"device", "buffer", "memory", "offset">>,
   BindImageMemory |-> <<"device", "image", "memory", "offset">>,
   CopyGuestToDeviceMemory |-> <<"device", "memory", "copy_region">>,
   CopyDeviceMemoryToGuest |-> <<"device", "memory", "copy_region">>]

\* Mutant of Parameters: two of the same type change places.
ParametersSwapped ==
  Joined(InstanceParameters,
         [CommandParameters EXCEPT
           !.WaitForFences = <<"device", "fence_buffer", "wait_all", "fence_count", "timeout">>],
         ResourceParameters)
Parameters == Joined(InstanceParameters, CommandParameters, ResourceParameters)

-----------------------------------------------------------------------------
(* Bytes *)

Bytes(name, width) == [j \in 1 .. width |-> <<name, j>>]
Zero == <<"zero", 0>>      \* of a value that was not read
Beyond == <<"beyond", 0>>  \* whatever follows the block

Widths(f) == Structs[Entries[f][2]]
RoundUp(n, width) == ((n + width - 1) \div width) * width

\* Where each field of a struct ends, and the struct itself.
Ends(widths) ==
  LET end[i \in 0 .. Len(widths)] ==
        IF i = 0 THEN 0
        ELSE widths[i] + (IF Packed THEN end[i - 1] ELSE RoundUp(end[i - 1], widths[i]))
  IN end
SizeOf(widths) ==
  IF Packed THEN Ends(widths)[Len(widths)]
  ELSE RoundUp(Ends(widths)[Len(widths)], IF 8 \in Range(widths) THEN 8 ELSE 4)

\* The fields of a struct laid over a block.  The empty block is the null pointer.
LoadParameter(block, widths) ==
  [i \in 1 .. Len(widths) |->
    [j \in 1 .. widths[i] |->
      LET k == Ends(widths)[i] - widths[i] + j
      IN IF block = <<>> THEN Zero ELSE IF k =< Len(block) THEN block[k] ELSE Beyond]]

-----------------------------------------------------------------------------
(* A call *)

VARIABLES
  at,       \* where the call is
  calls,    \* the function called
  block,    \* parameter_bytes, the empty block for the null pointer
  wants,    \* whether result_bytes is not the null pointer
  args,     \* what the function of the API was given, by the names of its parameters
  answer,   \* what it returned
  result    \* what result_bytes holds

vars == <<at, calls, block, wants, args, answer, result>>

Unset == "unset"

Init ==
  /\ at = "guest"
  /\ calls = "loader_available" /\ block = <<>> /\ wants = FALSE /\ args = <<>>
  /\ answer = Unset /\ result = Unset

\* The runtime looks an import up by its name and its types.
Linked(f) == Exports[f] = [i \in 1 .. Len(Imports[f]) |-> Imports[f][i].width]

\* It passes the arguments one after the other, as wide as the types it was told.
ParameterBlock(f) ==
  FlattenSeq([i \in 1 .. Len(Exports[f]) |-> Bytes(Imports[f][i].name, Exports[f][i])])

\* A module with an import of other types is not instantiated.
Call(f) ==
  /\ at = "guest"
  /\ at' = IF Linked(f) THEN "called" ELSE "refused"
  /\ calls' = f
  /\ block' \in IF Linked(f) THEN {ParameterBlock(f), <<>>} ELSE {<<>>}
  /\ wants' \in BOOLEAN
  /\ UNCHANGED <<args, answer, result>>

Enter ==
  LET fields == LoadParameter(block, Widths(calls))
      names == Parameters[Entries[calls][1]]
  IN /\ at = "called"
     /\ at' = "entered"
     /\ args' = [name \in Range(names) |->
                  fields[CHOOSE i \in 1 .. Len(names) : names[i] = name]]
     /\ answer' \in Results
     /\ UNCHANGED <<calls, block, wants, result>>

StoreI32Result ==
  /\ at = "entered"
  /\ at' = "stored"
  /\ result' = IF wants THEN answer ELSE result
  /\ UNCHANGED <<calls, block, wants, args, answer>>

Return ==
  /\ at = "stored"
  /\ at' = "guest"
  /\ block' = <<>> /\ wants' = FALSE /\ args' = <<>>
  /\ answer' = Unset /\ result' = Unset
  /\ UNCHANGED calls

Next ==
  \/ \E f \in Names : Call(f)
  \/ Enter
  \/ StoreI32Result
  \/ Return

Spec == Init /\ [][Next]_vars

-----------------------------------------------------------------------------
(* Properties *)

\* Every function the guest's header declares is one the plugin exports under the same
\* name and with the same types: no import keeps a guest from being instantiated.
EveryImportLinks == at # "refused"

\* Each parameter of the API is the guest's argument of that name, byte for byte and as
\* wide as the guest declared it, whichever of the tables its place was taken from.
ArgumentsArrive ==
  at \in {"entered", "stored"} /\ block # <<>> =>
    args = [name \in {Imports[calls][i].name : i \in 1 .. Len(Imports[calls])} |->
             LET i == CHOOSE i \in 1 .. Len(Imports[calls]) : Imports[calls][i].name = name
             IN Bytes(name, Imports[calls][i].width)]

\* An entry never reads past the block the runtime made for it.
ReadsStayInBlock == at = "called" /\ block # <<>> => SizeOf(Widths(calls)) =< Len(block)
=============================================================================
