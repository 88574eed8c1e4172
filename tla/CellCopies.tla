------------------------------ MODULE CellCopies -------------------------------
(***************************************************************************)
(* What the two copy entry points promise the guest: there is a copy at a  *)
(* time, and none meets an allocation or a free.  A copy to the device     *)
(* takes each cell of the region from the guest at an instant of its own   *)
(* and brings the device all of them at once; a copy from the device       *)
(* brings the guest each cell, at an instant of its own, as the device has *)
(* it then.  A copy that fails has brought some of the cells or none.      *)
(* Mappings, coherence and the mutex are not to be seen.  For a driver     *)
(* that cannot sync, success says nothing.                                 *)
(***************************************************************************)
CONSTANTS
  Threads,   \* guest threads
  Memories,  \* device memories
  Cells,     \* the pieces of the region
  Values     \* contents of a cell

VARIABLES
  allocated,  \* the memories there are
  device,     \* memory -> what the device sees
  guest,      \* the region of guest memory
  canSync,    \* whether success is worth something
  copy        \* thread -> the copy it is in

vars == <<allocated, device, guest, canSync, copy>>

Contents == [Cells -> Values]
Idle == [at |-> "idle"]
Quiet == \A t \in Threads : copy[t] = Idle
Become(t, c) == copy' = [copy EXCEPT ![t] = c]

\* The cells of "to" that are in the domain of "from" become those of "from".
Overlay(from, to) == [cell \in Cells |-> IF cell \in DOMAIN from THEN from[cell] ELSE to[cell]]

Init ==
  /\ allocated = {}
  /\ device \in [Memories -> Contents]
  /\ guest \in Contents
  /\ canSync \in BOOLEAN
  /\ copy = [t \in Threads |-> Idle]

Allocate ==
  /\ Quiet
  /\ \E m \in Memories \ allocated, content \in Contents :
       /\ allocated' = allocated \cup {m}
       /\ device' = [device EXCEPT ![m] = content]
  /\ UNCHANGED <<guest, canSync, copy>>

Free ==
  /\ Quiet
  /\ \E m \in allocated : allocated' = allocated \ {m}
  /\ UNCHANGED <<device, guest, canSync, copy>>

GuestStores ==
  /\ \E cell \in Cells, value \in Values : guest' = [guest EXCEPT ![cell] = value]
  /\ UNCHANGED <<allocated, device, canSync, copy>>

Begin(t) ==
  /\ Quiet
  /\ \E m \in allocated, toDevice \in BOOLEAN :
       Become(t, [at |-> "called", toDevice |-> toDevice, memory |-> m,
                  value |-> [cell \in {} |-> cell], ok |-> FALSE])
  /\ UNCHANGED <<allocated, device, guest, canSync>>

\* The copy takes what is in the cell.
Take(t, cell, value) ==
  Become(t, [copy[t] EXCEPT !.value =
               [c \in DOMAIN @ \cup {cell} |-> IF c = cell THEN value ELSE @[c]]])

Decide(t, ok) == Become(t, [copy[t] EXCEPT !.at = "decided", !.ok = ok])

\* A copy to the device takes what the guest has, cell after cell ...
Fetch(t, cell) ==
  /\ copy[t].at = "called" /\ copy[t].toDevice
  /\ Take(t, cell, guest[cell])
  /\ UNCHANGED <<allocated, device, guest, canSync>>

\* ... and when it has them all the device gets them.
Arrive(t) ==
  /\ copy[t].at = "called" /\ copy[t].toDevice /\ DOMAIN copy[t].value = Cells
  /\ device' = IF canSync THEN [device EXCEPT ![copy[t].memory] = copy[t].value] ELSE device
  /\ Decide(t, TRUE)
  /\ UNCHANGED <<allocated, guest, canSync>>

\* A copy from the device gives each cell to the guest as the device has it ...
Deliver(t, cell) ==
  /\ copy[t].at = "called" /\ ~copy[t].toDevice
  /\ \E value \in Values :
       /\ canSync => value = device[copy[t].memory][cell]
       /\ guest' = [guest EXCEPT ![cell] = value]
       /\ Take(t, cell, value)
  /\ UNCHANGED <<allocated, device, canSync>>

\* ... until it has given all of them.
Complete(t) ==
  /\ copy[t].at = "called" /\ ~copy[t].toDevice /\ DOMAIN copy[t].value = Cells
  /\ Decide(t, TRUE)
  /\ UNCHANGED <<allocated, device, guest, canSync>>

Fail(t) ==
  /\ copy[t].at = "called"
  /\ Decide(t, FALSE)
  /\ UNCHANGED <<allocated, device, guest, canSync>>

\* What was taken and not synced may still turn up before the return, or a part of it.
Settle(t) ==
  /\ copy[t].at = "decided" /\ copy[t].toDevice
  /\ \E late \in SUBSET DOMAIN copy[t].value :
       device' = [device EXCEPT ![copy[t].memory] =
                    Overlay([cell \in late |-> copy[t].value[cell]], @)]
  /\ UNCHANGED <<allocated, guest, canSync, copy>>

Return(t) ==
  /\ copy[t].at = "decided"
  /\ Become(t, Idle)
  /\ UNCHANGED <<allocated, device, guest, canSync>>

Next ==
  \/ Allocate \/ Free \/ GuestStores
  \/ \E t \in Threads :
       \/ Begin(t) \/ Arrive(t) \/ Complete(t) \/ Fail(t) \/ Settle(t) \/ Return(t)
       \/ \E cell \in Cells : Fetch(t, cell) \/ Deliver(t, cell)

Spec == Init /\ [][Next]_vars
=============================================================================
