--------------------------- MODULE MCVulkanObjects ---------------------------
(* Instances of VulkanObjects for TLC: which kinds of object guests create, *)
(* and how many of each.                                                    *)
EXTENDS VulkanObjects, TLC

Bounds(f) == [k \in Kinds |-> IF k \in DOMAIN f THEN f[k] ELSE 0]

\* A tree with everything that refers to something else, for one thread; trees
\* that two threads create, enumerate and destroy; every kind but those.
TreeLimit == Bounds([instance |-> 1, physical_device |-> 2, device |-> 2, command_pool |-> 2,
                     command_buffer |-> 2, buffer |-> 1, image |-> 1, memory |-> 1])
ThreadsLimit == Bounds([instance |-> 2, physical_device |-> 2, device |-> 2, fence |-> 1])
LiveLimit == Bounds([instance |-> 1, physical_device |-> 1, device |-> 1, queue |-> 1,
                     fence |-> 1, semaphore |-> 1, shader_module |-> 1])

SymmetricNatives == Permutations(Natives)
SymmetricAll == Permutations(Natives) \cup Permutations(Threads)
=============================================================================
