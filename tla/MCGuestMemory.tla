---------------------------- MODULE MCGuestMemory -----------------------------
(* Instances of GuestMemory for TLC. *)
EXTENDS GuestMemory, TLC

Symmetric == Permutations(Threads)
=============================================================================
