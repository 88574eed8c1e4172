---------------------------- MODULE MCGuestResults ----------------------------
(* Instances of GuestResults for TLC: the handles that can be given out. *)
EXTENDS GuestResults, TLC

CONSTANTS i1, g1, g2, g3, d1, p1, b1

KindOfHandle ==
  i1 :> "instance" @@ g1 :> "physical_device" @@ g2 :> "physical_device"
  @@ g3 :> "physical_device" @@ d1 :> "device" @@ p1 :> "command_pool"
  @@ b1 :> "command_buffer"

\* A whole tree; and an instance with devices enough for two enumerations.
TreeHandles == {i1, g1, g2, d1, p1, b1}
ListHandles == {i1, g1, g2, g3}
KindOfTree == [o \in TreeHandles |-> KindOfHandle[o]]
KindOfList == [o \in ListHandles |-> KindOfHandle[o]]

SymmetricTree == Permutations(Threads) \cup Permutations({g1, g2})
SymmetricLists == Permutations(Threads) \cup Permutations({g1, g2, g3})
=============================================================================
