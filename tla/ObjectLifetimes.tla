---------------------------- MODULE ObjectLifetimes ----------------------------
(***************************************************************************)
(* What the handle tables of the plugin promise taken together: a forest   *)
(* of objects.  An object is added once, below an object that exists, and  *)
(* goes either by itself or with everything below it, in one step that     *)
(* nobody sees half done.  It never comes back.                            *)
(*                                                                         *)
(* Steps are stated by the forest before and after them, so that a         *)
(* detailed specification can be compared with them whatever its number of *)
(* objects.  VulkanObjects and GuestResults implement this specification.  *)
(***************************************************************************)
CONSTANTS
  Root,  \* the parent of the objects that have none
  Late   \* objects that may be added although their parent is gone

VARIABLES
  parent,  \* object that exists -> its parent
  used     \* every object that has existed, and every handle spent for nothing

vars == <<parent, used>>

Existing == DOMAIN parent

Init == parent = [o \in {} |-> Root] /\ used = {}

\* New objects, possibly none, with handles that were never used.
Add ==
  LET new == DOMAIN parent' \ Existing IN
  /\ used \cup new \subseteq used' /\ new \cap used = {}
  /\ parent' = [o \in Existing \cup new |-> IF o \in new THEN parent'[o] ELSE parent[o]]
  /\ \A o \in new : \/ parent'[o] \in Existing \cup {Root}
                    \/ o \in Late /\ parent'[o] \in used

\* One object or several siblings go, with all that is below them and nothing else.
Remove ==
  LET gone == Existing \ DOMAIN parent' IN
  /\ gone # {}
  /\ parent' = [o \in Existing \ gone |-> parent[o]]
  /\ \A o \in Existing : parent[o] \in gone => o \in gone
  /\ \A o, q \in gone : parent[o] \notin gone /\ parent[q] \notin gone => parent[o] = parent[q]
  /\ used' = used

Next == Add \/ Remove

Spec == Init /\ [][Next]_vars
=============================================================================
