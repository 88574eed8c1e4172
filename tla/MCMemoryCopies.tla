---------------------------- MODULE MCMemoryCopies ----------------------------
(* Instances of MemoryCopies for TLC. *)
EXTENDS MemoryCopies, TLC

Symmetric ==
  Permutations(Threads) \cup Permutations(Memories)
    \cup Permutations(Cells) \cup Permutations(Values)
=============================================================================
