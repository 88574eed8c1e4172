----------------------------- MODULE AtomicMemory -----------------------------
(***************************************************************************)
(* What the plugin's guest-memory layer promises its callers: an access    *)
(* takes effect at one instant between its call and its return, however    *)
(* the host delivers the memory.  It goes through exactly when all of its  *)
(* range lies within the memory at that instant; a memory that cannot be   *)
(* reached lets through no access but an empty one.                        *)
(***************************************************************************)
EXTENDS Naturals

CONSTANTS
  Threads,   \* callers
  Word       \* addresses, sizes and lengths are below it

VARIABLES
  reachable, \* whether there is a way to the memory
  length,    \* its current size in bytes
  access     \* thread -> the access it is in

vars == <<reachable, length, access>>

Idle == [at |-> "idle", address |-> 0, size |-> 0, ok |-> FALSE]

InBounds(address, size) == address + size =< length

Init ==
  /\ reachable \in BOOLEAN
  /\ length \in 0 .. (Word - 1)
  /\ access = [t \in Threads |-> Idle]

Connect ==
  /\ \A t \in Threads : access[t] = Idle
  /\ reachable' \in BOOLEAN
  /\ UNCHANGED <<length, access>>

Grow ==
  /\ length' \in (length + 1) .. (Word - 1)
  /\ UNCHANGED <<reachable, access>>

Call(t) ==
  /\ access[t] = Idle
  /\ \E address, size \in 0 .. (Word - 1) :
       access' = [access EXCEPT ![t] =
         [at |-> "called", address |-> address, size |-> size, ok |-> FALSE]]
  /\ UNCHANGED <<reachable, length>>

Decide(t) ==
  /\ access[t].at = "called"
  /\ LET c == access[t] IN
     access' = [access EXCEPT ![t] =
       [at |-> "decided", address |-> c.address, size |-> c.size,
        ok |-> c.size = 0 \/ (reachable /\ InBounds(c.address, c.size))]]
  /\ UNCHANGED <<reachable, length>>

Return(t) ==
  /\ access[t].at = "decided"
  /\ access' = [access EXCEPT ![t] = Idle]
  /\ UNCHANGED <<reachable, length>>

Next ==
  \/ Connect \/ Grow
  \/ \E t \in Threads : Call(t) \/ Decide(t) \/ Return(t)

Spec == Init /\ [][Next]_vars
=============================================================================
