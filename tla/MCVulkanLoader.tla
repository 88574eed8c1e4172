---------------------------- MODULE MCVulkanLoader ----------------------------
(***************************************************************************)
(* A finite instance of VulkanLoader: a library that finds commands as a   *)
(* conforming loader does, two that lack destroy commands, one that opens  *)
(* and is no Vulkan library, and one that lacks a required command.        *)
(***************************************************************************)
EXTENDS VulkanLoader

ChildCommands ==
  {DestroyCommand[k] : k \in OwnedByDevice} \cup
  {"vkDestroyDevice", "vkGetDeviceQueue", "vkCreateCommandPool", "vkAllocateCommandBuffers",
   "vkFreeCommandBuffers", "vkCreateShaderModule", "vkCreateSemaphore", "vkCreateFence",
   "vkCreateBuffer", "vkCreateImage", "vkAllocateMemory"}
Commands ==
  Required \cup ChildCommands \cup
  {"vkGetInstanceProcAddr", "vkGetDeviceProcAddr", "vkEnumerateInstanceVersion",
   "vkDestroyInstance", "vkEnumeratePhysicalDevices", "vkCreateDevice"}

Full == [opens |-> TRUE, exported |-> Commands, global |-> Commands,
         instance |-> Commands, device |-> Commands]

\* As a conforming loader answers: global commands without an instance only.
Conforming ==
  [Full EXCEPT !.global = Required, !.device = ChildCommands,
               !.exported = @ \ {"vkEnumerateInstanceVersion"}]
Without(gaps) ==
  [opens |-> TRUE, exported |-> Commands \ gaps, global |-> Required,
   instance |-> Commands \ gaps, device |-> Commands \ gaps]

NotVulkan == [Full EXCEPT !.exported = {}]
NoLayers == [Without({"vkEnumerateInstanceLayerProperties"}) EXCEPT !.global = {}]

MCLibraries ==
  {Conforming, Without({"vkDestroyShaderModule", "vkDestroyCommandPool"}),
   Without({"vkDestroyDevice", "vkGetDeviceQueue"}), NotVulkan, NoLayers}
===============================================================================
