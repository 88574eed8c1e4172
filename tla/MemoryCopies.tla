---------------------------- MODULE MemoryCopies -----------------------------
(***************************************************************************)
(* Copies between guest memory and device memory (vulkan/api.cc,           *)
(* CopyBetweenGuestAndMappedMemory and its two callers), with the          *)
(* allocations and frees of other threads around them.                     *)
(*                                                                         *)
(* The memory is mapped for the copy alone and may not be coherent: what   *)
(* the host sees through the mapping is not what the device sees until it  *)
(* is flushed or invalidated.  The region is a set of cells.  A guest      *)
(* access is decided as AtomicMemory says, but its bytes move one cell     *)
(* after the other, in any order and a cell perhaps twice (memcpy, or the  *)
(* host's callback), while the guest's threads go on storing.              *)
(*                                                                         *)
(* "Mutant of D" marks a broken variant of definition D that no            *)
(* specification uses.                                                     *)
(***************************************************************************)
EXTENDS Naturals

CONSTANTS
  Threads,   \* guest threads that call into the plugin
  NoThread,  \* the owner of the context mutex when it is free
  Memories,  \* device memories of one device
  Cells,     \* the pieces of the region that move at once
  Values     \* contents of a cell

ASSUME NoThreadAssumption == NoThread \notin Threads
ASSUME ValuesAssumption == Values # {}

VARIABLES
  allocated,  \* the memories that are registered
  mapped,     \* the ones the driver has mapped
  stuck,      \* the mapped ones that a call has returned without unmapping
  device,     \* memory -> what the device sees
  guest,      \* the region of guest memory
  canSync,    \* whether the driver has the flush and invalidate commands
  canUnmap,   \* whether the driver has the unmap command
  lock,       \* the thread that holds the context mutex
  call,       \* thread -> its copy
  stored,     \* history: the cells the guest has stored to since the last copy began
  misuse      \* history: how the driver's mapping rules were broken

vars == <<allocated, mapped, stuck, device, guest, canSync, canUnmap, lock, call, stored, misuse>>

Contents == [Cells -> Values]

\* A copy has what the host sees through its mapping, the cells it has yet to
\* move and whether it goes well so far.
Idle == [at |-> "idle"]
Stages == {"start", "mapped", "copied", "fresh", "unmap", "done"}
Call == [at : Stages, toDevice : BOOLEAN, memory : Memories,
         data : Contents, left : SUBSET Cells, ok : BOOLEAN]
MappedStages == {"mapped", "copied", "fresh", "unmap"}

Become(t, c) == call' = [call EXCEPT ![t] = c]
Advance(t, at) == Become(t, [call[t] EXCEPT !.at = at])
End(t, at, ok) == Become(t, [call[t] EXCEPT !.at = at, !.ok = ok])
Show(t, at, data) == Become(t, [call[t] EXCEPT !.at = at, !.data = data])
Moved(t, cell, value) ==
  Become(t, [call[t] EXCEPT !.data = [@ EXCEPT ![cell] = value], !.left = @ \ {cell}])

Memory(t) == call[t].memory

\* A command that is legal for the memories of the given set is used on m.
Uses(legal, m) ==
  misuse' = IF m \in legal THEN misuse
            ELSE misuse \cup {IF m \in stuck THEN "stuck" ELSE "illegal"}

-----------------------------------------------------------------------------
(* Other calls, and the guest itself *)

\* Mutant of Enter: the copy does not lock the context.
EnterUnlocked(t) == call[t].at = "idle"
Enter(t) == lock = NoThread /\ call[t].at = "idle"

AllocateMemory(t) ==
  /\ Enter(t)
  /\ \E m \in Memories \ allocated, content \in Contents :
       /\ allocated' = allocated \cup {m}
       /\ device' = [device EXCEPT ![m] = content]
  /\ UNCHANGED <<mapped, stuck, guest, canSync, canUnmap, lock, call, stored, misuse>>

\* Also by DestroyDevice and DestroyInstance.  Freeing a memory unmaps it.
FreeMemory(t) ==
  /\ Enter(t)
  /\ \E m \in allocated :
       /\ allocated' = allocated \ {m}
       /\ mapped' = mapped \ {m}
       /\ stuck' = stuck \ {m}
  /\ UNCHANGED <<device, guest, canSync, canUnmap, lock, call, stored, misuse>>

GuestStores ==
  /\ \E cell \in Cells, value \in Values :
       /\ guest' = [guest EXCEPT ![cell] = value]
       /\ stored' = stored \cup {cell}
  /\ UNCHANGED <<allocated, mapped, stuck, device, canSync, canUnmap, lock, call, misuse>>

-----------------------------------------------------------------------------
(* A copy *)

\* What the host will see is not looked at before the memory is mapped.
Begin(t, toDevice, m, seen) ==
  /\ Become(t, [at |-> "start", toDevice |-> toDevice, memory |-> m,
                data |-> seen, left |-> Cells, ok |-> FALSE])
  /\ lock' = t
  /\ stored' = {}
  /\ UNCHANGED <<allocated, mapped, stuck, device, guest, canSync, canUnmap, misuse>>

\* Mutant of Start: a lookup that finds nothing is not noticed.
StartUnchecked(t, toDevice) ==
  Enter(t) /\ \E m \in allocated \cup {"unregistered"} : Begin(t, toDevice, m, guest)

Start(t, toDevice) ==
  Enter(t) /\ \E m \in allocated : Begin(t, toDevice, m, device[m])

CopyGuestToDeviceMemory(t) == Start(t, TRUE)
CopyDeviceMemoryToGuest(t) == Start(t, FALSE)

\* The host may see anything through a fresh mapping.  A driver that reports
\* success and no address is answered by an error, and the memory stays mapped.
MapMemory(t) ==
  /\ call[t].at = "start"
  /\ \/ /\ Uses(allocated \ mapped, Memory(t))
        /\ mapped' = mapped \cup {Memory(t)}
        /\ \/ /\ \E seen \in Contents : Show(t, "mapped", seen)
              /\ UNCHANGED stuck
           \/ /\ stuck' = stuck \cup {Memory(t)}
              /\ Advance(t, "done")
     \/ /\ Advance(t, "done")
        /\ UNCHANGED <<mapped, stuck, misuse>>
  /\ UNCHANGED <<allocated, device, guest, canSync, canUnmap, lock, stored>>

\* Mutant of ReadGuest: a failed read returns without unmapping.
ReadGuestOrReturn(t) ==
  /\ call[t].at = "mapped" /\ call[t].toDevice
  /\ \/ \E cell \in Cells : Moved(t, cell, guest[cell])
     \/ call[t].left = {} /\ Advance(t, "copied")
     \/ Advance(t, "done")
  /\ UNCHANGED <<allocated, mapped, stuck, device, guest, canSync, canUnmap, lock, stored, misuse>>

\* To the device: guest memory is read into the mapping.  The range may be refused,
\* and the host's callback may give up at any cell ...
ReadGuest(t) ==
  /\ call[t].at = "mapped" /\ call[t].toDevice
  /\ \/ \E cell \in Cells : Moved(t, cell, guest[cell])
     \/ call[t].left = {} /\ Advance(t, "copied")
     \/ Advance(t, "unmap")
  /\ UNCHANGED <<allocated, mapped, stuck, device, guest, canSync, canUnmap, lock, stored, misuse>>

\* Mutant of FlushMappedMemory: its result is not looked at.
FlushUnchecked(t) ==
  /\ call[t].at = "copied"
  /\ \/ canSync /\ device' = [device EXCEPT ![Memory(t)] = call[t].data]
     \/ UNCHANGED device
  /\ End(t, "unmap", TRUE)
  /\ UNCHANGED <<allocated, mapped, stuck, guest, canSync, canUnmap, lock, stored, misuse>>

\* ... which is flushed.  Without the command a flush succeeds at once.
FlushMappedMemory(t) ==
  /\ call[t].at = "copied"
  /\ \/ /\ canSync
        /\ Uses(mapped, Memory(t))
        /\ device' = [device EXCEPT ![Memory(t)] = call[t].data]
        /\ End(t, "unmap", TRUE)
     \/ /\ canSync
        /\ Uses(mapped, Memory(t))
        /\ Advance(t, "unmap")
        /\ UNCHANGED device
     \/ /\ ~canSync
        /\ End(t, "unmap", TRUE)
        /\ UNCHANGED <<device, misuse>>
  /\ UNCHANGED <<allocated, mapped, stuck, guest, canSync, canUnmap, lock, stored>>

\* Mutant of InvalidateMappedMemory: its result is not looked at.
InvalidateUnchecked(t) ==
  /\ call[t].at = "mapped" /\ ~call[t].toDevice
  /\ \/ canSync /\ Show(t, "fresh", device[Memory(t)])
     \/ Advance(t, "fresh")
  /\ UNCHANGED <<allocated, mapped, stuck, device, guest, canSync, canUnmap, lock, stored, misuse>>

\* From the device: the mapping is invalidated ...
InvalidateMappedMemory(t) ==
  /\ call[t].at = "mapped" /\ ~call[t].toDevice
  /\ \/ /\ canSync
        /\ Uses(mapped, Memory(t))
        /\ Show(t, "fresh", device[Memory(t)])
     \/ /\ canSync
        /\ Uses(mapped, Memory(t))
        /\ Advance(t, "unmap")
     \/ /\ ~canSync
        /\ Advance(t, "fresh")
        /\ UNCHANGED misuse
  /\ UNCHANGED <<allocated, mapped, stuck, device, guest, canSync, canUnmap, lock, stored>>

\* ... and written to guest memory, where a failure may come after some cells.
WriteGuest(t) ==
  /\ call[t].at = "fresh"
  /\ \/ \E cell \in Cells :
          /\ guest' = [guest EXCEPT ![cell] = call[t].data[cell]]
          /\ Moved(t, cell, call[t].data[cell])
     \/ /\ \/ call[t].left = {} /\ End(t, "unmap", TRUE)
           \/ Advance(t, "unmap")
        /\ UNCHANGED guest
  /\ UNCHANGED <<allocated, mapped, stuck, device, canSync, canUnmap, lock, stored, misuse>>

\* What was written to the mapping and not flushed may reach the device or not,
\* each cell by itself.  Without the command nothing is unmapped.
UnmapMemory(t) ==
  /\ call[t].at = "unmap"
  /\ \E written \in SUBSET (Cells \ call[t].left) :
       /\ call[t].toDevice \/ written = {}
       /\ device' = [device EXCEPT ![Memory(t)] =
                       [cell \in Cells |-> IF cell \in written THEN call[t].data[cell] ELSE @[cell]]]
  /\ \/ /\ canUnmap
        /\ Uses(mapped, Memory(t))
        /\ mapped' = mapped \ {Memory(t)}
        /\ stuck' = stuck \ {Memory(t)}
     \/ /\ ~canUnmap
        /\ stuck' = stuck \cup {Memory(t)}
        /\ UNCHANGED <<mapped, misuse>>
  /\ Advance(t, "done")
  /\ UNCHANGED <<allocated, guest, canSync, canUnmap, lock, stored>>

Return(t) ==
  /\ call[t].at = "done"
  /\ lock' = NoThread
  /\ Become(t, Idle)
  /\ UNCHANGED <<allocated, mapped, stuck, device, guest, canSync, canUnmap, stored, misuse>>

-----------------------------------------------------------------------------
(* The specification *)

Init ==
  /\ allocated = {} /\ mapped = {} /\ stuck = {}
  /\ device \in [Memories -> Contents]
  /\ guest \in Contents
  /\ canSync \in BOOLEAN /\ canUnmap \in BOOLEAN
  /\ lock = NoThread
  /\ call = [t \in Threads |-> Idle]
  /\ stored = {} /\ misuse = {}

Step(t) ==
  \/ AllocateMemory(t) \/ FreeMemory(t)
  \/ CopyGuestToDeviceMemory(t) \/ CopyDeviceMemoryToGuest(t)
  \/ MapMemory(t) \/ ReadGuest(t) \/ FlushMappedMemory(t)
  \/ InvalidateMappedMemory(t) \/ WriteGuest(t)
  \/ UnmapMemory(t) \/ Return(t)

Next == GuestStores \/ \E t \in Threads : Step(t)

Spec == Init /\ [][Next]_vars

-----------------------------------------------------------------------------
(* Properties *)

\* The variables have their types.
TypeOK ==
  /\ allocated \subseteq Memories /\ mapped \subseteq Memories /\ stuck \subseteq Memories
  /\ device \in [Memories -> Contents] /\ guest \in Contents
  /\ canSync \in BOOLEAN /\ canUnmap \in BOOLEAN
  /\ lock \in Threads \cup {NoThread}
  /\ call \in [Threads -> Call \cup {Idle}]
  /\ stored \subseteq Cells /\ misuse \subseteq {"stuck", "illegal"}

\* A memory is mapped while a copy is using it, and it stays allocated until then:
\* nobody frees what is being copied.  Besides these only the memories are mapped
\* that a call could not or did not unmap: the driver gave no address, or it has no
\* unmap command.  Every other return path unmaps.
MappedWhileCopied ==
  /\ mapped = stuck \cup {Memory(t) : t \in {u \in Threads : call[u].at \in MappedStages}}
  /\ mapped \subseteq allocated

\* The driver never flushes, invalidates or unmaps a memory that is not mapped, and
\* maps none that is mapped already except one that an earlier call left mapped.
MappingsPaired == misuse \subseteq {"stuck"}

\* A copy that returns success has brought over every cell the guest left alone
\* meanwhile: both sides hold the same there, though the memory need not be coherent.
\* A driver without the sync commands is taken to need none.
CopiesAreExact ==
  \A t \in Threads :
    canSync /\ call[t].at = "done" /\ call[t].ok =>
      \A cell \in Cells \ stored : device[Memory(t)][cell] = guest[cell]

\* The cells a copy has moved, with what it moved, and whether it is decided.
Abstract(c) ==
  IF c = Idle THEN c
  ELSE [at |-> IF c.at \in {"unmap", "done"} THEN "decided" ELSE "called",
        toDevice |-> c.toDevice, memory |-> c.memory,
        value |-> [cell \in Cells \ c.left |-> c.data[cell]], ok |-> c.ok]

\* For all that maps, syncs and unmaps, and all that other threads and the guest do
\* meanwhile, a copy brings one side, cell by cell, what the other had in that cell at
\* some instant of the call; it changes nothing else, and a failed copy nothing but
\* cells it has moved.  The whole may be a mixture that the other side never had.
Copies == INSTANCE CellCopies WITH copy <- [t \in Threads |-> Abstract(call[t])]
ImplementsCellCopies == Copies!Spec
=============================================================================
