-------------------------- MODULE MemoryCopiesProofs --------------------------
(***************************************************************************)
(* Proofs about MemoryCopies for any threads, memories, cells and          *)
(* contents.                                                               *)
(***************************************************************************)
EXTENDS MemoryCopies, TLAPS

\* The thread that holds the context mutex is the only one in a copy.
OneCopy == \A t \in Threads : call[t].at # "idle" <=> lock = t

\* What is mapped while the copy c is under way.
Maps(c) ==
  /\ c.memory \in allocated
  /\ c.at \in {"start", "done"} => mapped = stuck
  /\ c.at \in MappedStages => mapped = stuck \cup {c.memory}

\* What the copy c has moved, and what that is worth.
Holds(c) ==
  /\ c.at \in {"start", "mapped", "copied", "fresh"} => c.ok = FALSE
  /\ c.at = "start" \/ (c.at = "mapped" /\ ~c.toDevice) => c.left = Cells
  /\ c.at = "copied" => c.toDevice /\ c.left = {}
  /\ c.at = "fresh" => ~c.toDevice /\ (canSync => c.data = device[c.memory])
  /\ c.ok => c.left = {} /\ (canSync => c.data = device[c.memory])
  /\ \A cell \in Cells \ (c.left \cup stored) : c.data[cell] = guest[cell]

Knows(c) == c.at # "idle" => Maps(c) /\ Holds(c)

Inv ==
  /\ TypeOK
  /\ OneCopy
  /\ lock = NoThread => mapped = stuck
  /\ mapped \subseteq allocated
  /\ \A t \in Threads : Knows(call[t])
  /\ MappingsPaired

\* A call is told from Idle by its stage.
LEMMA AtIdle ==
  /\ Idle.at = "idle"
  /\ \A c \in Call : c.at # "idle"
  /\ \A c \in Call \cup {Idle} : c.at # "idle" => c \in Call
  /\ \A c \in Call \cup {Idle} : c.at = "idle" => c = Idle
  BY DEF Idle, Call, Stages

LEMMA InitInv == Init => Inv
  <1> SUFFICES ASSUME Init PROVE Inv
    OBVIOUS
  <1>1. \A t \in Threads : call[t].at = "idle"
    BY AtIdle DEF Init
  <1>2. TypeOK
    BY DEF Init, TypeOK
  <1>3. OneCopy
    BY <1>1, NoThreadAssumption DEF Init, OneCopy
  <1> QED BY <1>1, <1>2, <1>3 DEF Init, Inv, Knows, MappingsPaired

\* While a copy runs every other thread is outside.
LEMMA OthersIdle ==
  ASSUME Inv, NEW t \in Threads, call[t].at # "idle"
  PROVE  /\ lock = t
         /\ call \in [Threads -> Call \cup {Idle}] /\ call[t] \in Call
         /\ \A u \in Threads \ {t} : call[u].at = "idle"
  BY AtIdle DEF Inv, TypeOK, OneCopy

\* A step inside a copy preserves the invariant when it leaves the copy with
\* what the copy must know.
LEMMA CopyAdvances ==
  ASSUME Inv, NEW t \in Threads, call[t].at # "idle",
         NEW c \in Call, Become(t, c), lock' = lock,
         mapped' \subseteq Memories, stuck' \subseteq Memories,
         device' \in [Memories -> Contents], guest' \in Contents,
         UNCHANGED <<allocated, canSync, canUnmap, stored>>,
         misuse' \subseteq {"stuck"}, mapped' \subseteq allocated,
         Maps(c)', Holds(c)'
  PROVE  Inv'
  <1>1. /\ lock = t /\ call \in [Threads -> Call \cup {Idle}]
        /\ \A u \in Threads \ {t} : call[u].at = "idle"
    BY OthersIdle
  <1>2. /\ call' \in [Threads -> Call \cup {Idle}] /\ call'[t] = c
        /\ \A u \in Threads \ {t} : call'[u] = call[u]
    BY <1>1 DEF Become
  <1>3. OneCopy'
    BY <1>1, <1>2, AtIdle DEF OneCopy
  <1>4. \A u \in Threads : Knows(call[u])'
    <2>1. Knows(call[t])'
      BY <1>2 DEF Knows, Maps, Holds
    <2>2. \A u \in Threads \ {t} : Knows(call[u])'
      BY <1>1, <1>2 DEF Knows
    <2> QED BY <2>1, <2>2
  <1>5. TypeOK'
    BY <1>2 DEF Inv, TypeOK
  <1>6. lock' # NoThread
    BY <1>1, NoThreadAssumption
  <1> QED BY <1>3, <1>4, <1>5, <1>6 DEF Inv, MappingsPaired

\* Steps outside any copy find all of them idle.
LEMMA NobodyCopies ==
  ASSUME Inv, lock = NoThread
  PROVE  mapped = stuck /\ \A u \in Threads : call[u].at = "idle"
  BY NoThreadAssumption DEF Inv, OneCopy

LEMMA OtherCallKeeps ==
  ASSUME Inv, NEW t \in Threads, AllocateMemory(t) \/ FreeMemory(t)
  PROVE  Inv'
  <1>1. lock = NoThread /\ UNCHANGED <<lock, call, misuse>>
    BY DEF AllocateMemory, FreeMemory, Enter
  <1>2. mapped = stuck /\ \A u \in Threads : call[u].at = "idle"
    BY <1>1, NobodyCopies
  <1>3. TypeOK'
    BY DEF Inv, TypeOK, AllocateMemory, FreeMemory
  <1>4. mapped' = stuck' /\ mapped' \subseteq allocated'
    BY <1>2 DEF AllocateMemory, FreeMemory, Inv
  <1>5. \A u \in Threads : Knows(call[u])'
    BY <1>1, <1>2 DEF Knows
  <1>6. OneCopy'
    BY <1>1 DEF Inv, OneCopy
  <1> QED BY <1>1, <1>3, <1>4, <1>5, <1>6 DEF Inv, MappingsPaired

\* The guest changes its memory, and what it changes no copy relies on.
LEMMA GuestStoresKeeps == Inv /\ GuestStores => Inv'
  <1> SUFFICES ASSUME Inv, GuestStores PROVE Inv'
    OBVIOUS
  <1>1. PICK cell \in Cells, value \in Values :
          guest' = [guest EXCEPT ![cell] = value] /\ stored' = stored \cup {cell}
    BY DEF GuestStores
  <1>2. guest \in Contents /\ stored \subseteq Cells
    BY DEF Inv, TypeOK
  <1>3. TypeOK'
    BY <1>1, <1>2 DEF Inv, TypeOK, GuestStores, Contents
  <1>4. ASSUME NEW t \in Threads PROVE Knows(call[t])'
    <2>1. Knows(call[t])
      BY DEF Inv
    <2>2. \A c \in Cells \ stored' : c \notin stored /\ guest'[c] = guest[c]
      BY <1>1, <1>2 DEF Contents
    <2> QED BY <2>1, <2>2 DEF Knows, Maps, Holds, GuestStores
  <1>5. UNCHANGED <<allocated, mapped, stuck, lock, call, misuse>>
    BY DEF GuestStores
  <1> QED BY <1>3, <1>4, <1>5 DEF Inv, OneCopy, MappingsPaired

LEMMA StartKeeps ==
  ASSUME Inv, NEW t \in Threads, NEW toDevice \in BOOLEAN, Start(t, toDevice)
  PROVE  Inv'
  <1>1. PICK m \in allocated : Begin(t, toDevice, m, device[m])
    BY DEF Start
  <1>2. /\ call \in [Threads -> Call \cup {Idle}] /\ m \in Memories
        /\ device[m] \in Contents
    BY DEF Inv, TypeOK
  <1>3. PICK c : c = [at |-> "start", toDevice |-> toDevice, memory |-> m,
                      data |-> device[m], left |-> Cells, ok |-> FALSE]
    OBVIOUS
  <1>4. /\ c \in Call /\ c.at = "start" /\ c.memory = m /\ c.left = Cells
        /\ c.ok = FALSE
    BY <1>2, <1>3 DEF Call, Stages
  <1>5. /\ call' = [call EXCEPT ![t] = c] /\ lock' = t /\ stored' = {}
        /\ UNCHANGED <<allocated, mapped, stuck, device, guest, canSync, canUnmap, misuse>>
    BY <1>1, <1>3 DEF Begin, Become
  <1>6. /\ call' \in [Threads -> Call \cup {Idle}] /\ call'[t] = c
        /\ \A u \in Threads \ {t} : call'[u] = call[u]
    BY <1>2, <1>4, <1>5
  <1>7. mapped = stuck /\ \A u \in Threads : call[u].at = "idle"
    BY NobodyCopies DEF Start, Enter
  <1>8. TypeOK'
    BY <1>5, <1>6 DEF Inv, TypeOK
  <1>9. OneCopy'
    BY <1>4, <1>5, <1>6, <1>7 DEF OneCopy
  <1>10. \A u \in Threads : Knows(call[u])'
    <2>1. Maps(c)' /\ Holds(c)'
      BY <1>4, <1>5, <1>7 DEF Maps, Holds, MappedStages
    <2>2. Knows(call[t])'
      BY <1>6, <2>1 DEF Knows, Maps, Holds
    <2>3. \A u \in Threads \ {t} : Knows(call[u])'
      BY <1>6, <1>7 DEF Knows
    <2> QED BY <2>2, <2>3
  <1>11. lock' # NoThread
    BY <1>5, NoThreadAssumption
  <1> QED BY <1>5, <1>8, <1>9, <1>10, <1>11 DEF Inv, MappingsPaired

\* The pieces of a copy's record that a step changes or leaves alone.
LEMMA Advanced ==
  ASSUME NEW t \in Threads, call[t] \in Call, NEW at \in Stages, Advance(t, at)
  PROVE  \E d \in Call : /\ Become(t, d) /\ d.at = at /\ d.toDevice = call[t].toDevice
                         /\ d.memory = call[t].memory /\ d.data = call[t].data
                         /\ d.left = call[t].left /\ d.ok = call[t].ok
  <1>1. PICK d : d = [call[t] EXCEPT !.at = at]
    OBVIOUS
  <1>2. /\ d \in Call /\ d.at = at /\ d.toDevice = call[t].toDevice
        /\ d.memory = call[t].memory /\ d.data = call[t].data
        /\ d.left = call[t].left /\ d.ok = call[t].ok
    BY <1>1 DEF Call
  <1> QED BY <1>1, <1>2 DEF Advance

LEMMA Ended ==
  ASSUME NEW t \in Threads, call[t] \in Call, NEW at \in Stages, NEW ok \in BOOLEAN,
         End(t, at, ok)
  PROVE  \E d \in Call : /\ Become(t, d) /\ d.at = at /\ d.toDevice = call[t].toDevice
                         /\ d.memory = call[t].memory /\ d.data = call[t].data
                         /\ d.left = call[t].left /\ d.ok = ok
  <1>1. PICK d : d = [call[t] EXCEPT !.at = at, !.ok = ok]
    OBVIOUS
  <1>2. /\ d \in Call /\ d.at = at /\ d.toDevice = call[t].toDevice
        /\ d.memory = call[t].memory /\ d.data = call[t].data
        /\ d.left = call[t].left /\ d.ok = ok
    BY <1>1 DEF Call
  <1> QED BY <1>1, <1>2 DEF End

\* The mapping shows other contents.
LEMMA Shown ==
  ASSUME NEW t \in Threads, call[t] \in Call, NEW at \in Stages, NEW data \in Contents,
         Show(t, at, data)
  PROVE  \E d \in Call : /\ Become(t, d) /\ d.at = at /\ d.toDevice = call[t].toDevice
                         /\ d.memory = call[t].memory /\ d.data = data
                         /\ d.left = call[t].left /\ d.ok = call[t].ok
  <1>1. PICK d : d = [call[t] EXCEPT !.at = at, !.data = data]
    OBVIOUS
  <1>2. /\ d \in Call /\ d.at = at /\ d.toDevice = call[t].toDevice
        /\ d.memory = call[t].memory /\ d.data = data
        /\ d.left = call[t].left /\ d.ok = call[t].ok
    BY <1>1 DEF Call
  <1> QED BY <1>1, <1>2 DEF Show

\* A cell moves.
LEMMA CellMoved ==
  ASSUME NEW t \in Threads, call[t] \in Call, NEW cell \in Cells, NEW value \in Values,
         Moved(t, cell, value)
  PROVE  \E d \in Call : /\ Become(t, d) /\ d.at = call[t].at
                         /\ d.toDevice = call[t].toDevice
                         /\ d.memory = call[t].memory
                         /\ d.data = [call[t].data EXCEPT ![cell] = value]
                         /\ d.left = call[t].left \ {cell} /\ d.ok = call[t].ok
  <1>1. PICK data : data = [call[t].data EXCEPT ![cell] = value]
    OBVIOUS
  <1>2. data \in Contents
    BY <1>1 DEF Call, Contents
  <1>3. PICK left : left = call[t].left \ {cell}
    OBVIOUS
  <1>4. PICK d : d = [call[t] EXCEPT !.data = data, !.left = left]
    OBVIOUS
  <1>5. /\ d \in Call /\ d.at = call[t].at /\ d.toDevice = call[t].toDevice
        /\ d.memory = call[t].memory /\ d.data = data /\ d.left = left
        /\ d.ok = call[t].ok
    BY <1>2, <1>3, <1>4 DEF Call
  <1>6. Become(t, d)
    BY <1>1, <1>3, <1>4 DEF Moved
  <1> QED BY <1>1, <1>3, <1>5, <1>6

\* A copy that is under way has mapped its memory, which is allocated.
LEMMA UnderWay ==
  ASSUME Inv, NEW t \in Threads, call[t].at \in MappedStages
  PROVE  /\ call[t].at # "idle" /\ call[t] \in Call
         /\ Memory(t) \in allocated /\ Memory(t) \in Memories
         /\ Memory(t) \in mapped /\ mapped = stuck \cup {Memory(t)}
         /\ misuse \subseteq {"stuck"} /\ Holds(call[t])
         /\ device \in [Memories -> Contents] /\ guest \in Contents
         /\ stuck \subseteq Memories /\ mapped \subseteq Memories /\ mapped \subseteq allocated
  BY AtIdle DEF Inv, TypeOK, Knows, Maps, Memory, MappedStages, MappingsPaired

\* A command on a mapped memory is legal.
LEMMA UsesMapped ==
  ASSUME NEW m, m \in mapped, Uses(mapped, m) \/ UNCHANGED misuse
  PROVE  misuse' = misuse
  BY DEF Uses

LEMMA MapMemoryKeeps ==
  ASSUME Inv, NEW t \in Threads, MapMemory(t)
  PROVE  Inv'
  <1>1. /\ call[t] \in Call /\ call[t].at = "start" /\ Memory(t) \in allocated
        /\ mapped = stuck /\ misuse \subseteq {"stuck"} /\ Holds(call[t])
        /\ stuck \subseteq Memories /\ allocated \subseteq Memories
        /\ mapped \subseteq allocated
    BY AtIdle DEF MapMemory, Inv, TypeOK, Knows, Maps, Memory, MappingsPaired
  <1>2. /\ device' \in [Memories -> Contents] /\ guest' \in Contents
        /\ UNCHANGED <<allocated, device, guest, canSync, canUnmap, lock, stored>>
    BY DEF MapMemory, Inv, TypeOK
  <1>3. Uses(allocated \ mapped, Memory(t)) => misuse' \subseteq {"stuck"}
    BY <1>1 DEF Uses
  <1>4. ASSUME NEW seen \in Contents, mapped' = mapped \cup {Memory(t)}, UNCHANGED stuck,
               misuse' \subseteq {"stuck"},
               Show(t, "mapped", seen)
        PROVE  Inv'
    <2>1. PICK c \in Call : /\ Become(t, c) /\ c.at = "mapped" /\ c.memory = call[t].memory
                            /\ c.left = call[t].left /\ c.ok = call[t].ok
      BY <1>1, <1>4, Shown DEF Stages
    <2>2. Maps(c)'
      BY <1>1, <1>2, <1>4, <2>1 DEF Maps, MappedStages, Memory
    <2>3. Holds(c)'
      BY <1>1, <1>2, <2>1 DEF Holds
    <2> QED BY <1>1, <1>2, <1>4, <2>1, <2>2, <2>3, CopyAdvances
  <1>5. ASSUME mapped' = stuck', stuck' \subseteq Memories, stuck' \subseteq allocated,
               misuse' \subseteq {"stuck"}, Advance(t, "done")
        PROVE  Inv'
    <2>1. PICK c \in Call : /\ Become(t, c) /\ c.at = "done" /\ c.memory = Memory(t)
                            /\ c.left = call[t].left /\ c.ok = call[t].ok
      BY <1>1, <1>5, Advanced DEF Stages, Memory
    <2>2. Maps(c)'
      BY <1>1, <1>2, <1>5, <2>1 DEF Maps, MappedStages
    <2>3. Holds(c)'
      BY <1>1, <2>1 DEF Holds
    <2> QED BY <1>1, <1>2, <1>5, <2>1, <2>2, <2>3, CopyAdvances
  <1>6. CASE /\ Uses(allocated \ mapped, Memory(t)) /\ mapped' = mapped \cup {Memory(t)}
             /\ stuck' = stuck \cup {Memory(t)} /\ Advance(t, "done")
    BY <1>1, <1>3, <1>5, <1>6
  <1>7. CASE Advance(t, "done") /\ UNCHANGED <<mapped, stuck, misuse>>
    BY <1>1, <1>5, <1>7
  <1> QED BY <1>3, <1>4, <1>6, <1>7 DEF MapMemory

LEMMA ReadGuestKeeps ==
  ASSUME Inv, NEW t \in Threads, ReadGuest(t)
  PROVE  Inv'
  <1>1. /\ call[t].at = "mapped" /\ call[t].toDevice
        /\ UNCHANGED <<allocated, mapped, stuck, device, guest, canSync, canUnmap, lock,
                       stored, misuse>>
    BY DEF ReadGuest
  <1>2. /\ call[t].at # "idle" /\ call[t] \in Call /\ Memory(t) \in allocated
        /\ mapped = stuck \cup {Memory(t)} /\ misuse \subseteq {"stuck"} /\ Holds(call[t])
        /\ device \in [Memories -> Contents] /\ guest \in Contents
        /\ stuck \subseteq Memories /\ mapped \subseteq Memories /\ mapped \subseteq allocated
    BY <1>1, UnderWay DEF MappedStages
  <1>3. ASSUME NEW c \in Call, Become(t, c), c.at \in MappedStages, c.memory = Memory(t),
               Holds(c)'
        PROVE  Inv'
    <2>1. Maps(c)'
      BY <1>1, <1>2, <1>3 DEF Maps, MappedStages
    <2> QED BY <1>1, <1>2, <1>3, <2>1, CopyAdvances
  <1>4. ASSUME NEW cell \in Cells, Moved(t, cell, guest[cell]) PROVE Inv'
    <2>1. guest[cell] \in Values
      BY <1>2 DEF Contents
    <2>2. PICK c \in Call : /\ Become(t, c) /\ c.at = call[t].at
                            /\ c.toDevice = call[t].toDevice
                            /\ c.memory = call[t].memory
                            /\ c.data = [call[t].data EXCEPT ![cell] = guest[cell]]
                            /\ c.left = call[t].left \ {cell} /\ c.ok = call[t].ok
      BY <1>2, <1>4, <2>1, CellMoved
    <2>3. \A x \in Cells \ (c.left \cup stored) : c.data[x] = guest[x]
      <3> SUFFICES ASSUME NEW x \in Cells \ (c.left \cup stored) PROVE c.data[x] = guest[x]
        OBVIOUS
      <3>1. call[t].data \in [Cells -> Values]
        BY <1>2 DEF Call, Contents
      <3>2. x # cell => call[t].data[x] = guest[x]
        BY <1>2, <2>2 DEF Holds
      <3> QED BY <2>2, <3>1, <3>2
    <2>4. Holds(c)'
      BY <1>1, <1>2, <2>2, <2>3 DEF Holds
    <2> QED BY <1>1, <1>3, <2>2, <2>4 DEF Memory, MappedStages
  <1>5. ASSUME NEW at \in {"copied", "unmap"}, at = "copied" => call[t].left = {},
               Advance(t, at)
        PROVE  Inv'
    <2>1. PICK c \in Call : /\ Become(t, c) /\ c.at = at /\ c.toDevice = call[t].toDevice
                            /\ c.memory = call[t].memory /\ c.data = call[t].data
                            /\ c.left = call[t].left /\ c.ok = call[t].ok
      BY <1>2, <1>5, Advanced DEF Stages
    <2>2. Holds(c)'
      BY <1>1, <1>2, <1>5, <2>1 DEF Holds
    <2> QED BY <1>3, <1>5, <2>1, <2>2 DEF Memory, MappedStages
  <1> QED BY <1>4, <1>5 DEF ReadGuest

LEMMA FlushMappedMemoryKeeps ==
  ASSUME Inv, NEW t \in Threads, FlushMappedMemory(t)
  PROVE  Inv'
  <1>1. /\ call[t].at = "copied"
        /\ UNCHANGED <<allocated, mapped, stuck, guest, canSync, canUnmap, lock, stored>>
    BY DEF FlushMappedMemory
  <1>2. /\ call[t].at # "idle" /\ call[t] \in Call /\ Memory(t) \in allocated
        /\ Memory(t) \in Memories /\ Memory(t) \in mapped
        /\ mapped = stuck \cup {Memory(t)} /\ misuse \subseteq {"stuck"} /\ Holds(call[t])
        /\ device \in [Memories -> Contents] /\ guest \in Contents
        /\ stuck \subseteq Memories /\ mapped \subseteq Memories /\ mapped \subseteq allocated
    BY <1>1, UnderWay DEF MappedStages
  <1>3. misuse' = misuse
    BY <1>2, UsesMapped DEF FlushMappedMemory
  <1>4. ASSUME NEW ok \in BOOLEAN, NEW c \in Call, Become(t, c), c.at = "unmap",
               c.toDevice = call[t].toDevice, c.memory = call[t].memory,
               c.data = call[t].data, c.left = call[t].left, c.ok = ok,
               device' = device \/ device' = [device EXCEPT ![Memory(t)] = call[t].data],
               ok /\ canSync => device' = [device EXCEPT ![Memory(t)] = call[t].data]
        PROVE  Inv'
    <2>1. call[t].data \in Contents
      BY <1>2 DEF Call
    <2>2. /\ device' \in [Memories -> Contents]
          /\ ok /\ canSync => device'[Memory(t)] = call[t].data
      BY <1>2, <1>4, <2>1
    <2>3. Maps(c)'
      BY <1>1, <1>2, <1>4 DEF Maps, MappedStages, Memory
    <2>4. Holds(c)'
      BY <1>1, <1>2, <1>4, <2>2 DEF Holds, Memory
    <2> QED BY <1>1, <1>2, <1>3, <1>4, <2>2, <2>3, <2>4, CopyAdvances
  <1>5. ASSUME NEW ok \in BOOLEAN, End(t, "unmap", ok),
               device' = device \/ device' = [device EXCEPT ![Memory(t)] = call[t].data],
               ok /\ canSync => device' = [device EXCEPT ![Memory(t)] = call[t].data]
        PROVE  Inv'
    BY <1>2, <1>4, <1>5, Ended DEF Stages
  <1>6. CASE Advance(t, "unmap") /\ UNCHANGED device
    <2>1. call[t].ok = FALSE
      BY <1>1, <1>2 DEF Holds
    <2>2. PICK c \in Call : /\ Become(t, c) /\ c.at = "unmap"
                            /\ c.toDevice = call[t].toDevice /\ c.memory = call[t].memory
                            /\ c.data = call[t].data /\ c.left = call[t].left
                            /\ c.ok = call[t].ok
      BY <1>2, <1>6, Advanced DEF Stages
    <2> QED BY <1>4, <1>6, <2>1, <2>2
  <1> QED BY <1>5, <1>6 DEF FlushMappedMemory

LEMMA InvalidateMappedMemoryKeeps ==
  ASSUME Inv, NEW t \in Threads, InvalidateMappedMemory(t)
  PROVE  Inv'
  <1>1. /\ call[t].at = "mapped" /\ ~call[t].toDevice
        /\ UNCHANGED <<allocated, mapped, stuck, device, guest, canSync, canUnmap, lock, stored>>
    BY DEF InvalidateMappedMemory
  <1>2. /\ call[t].at # "idle" /\ call[t] \in Call /\ Memory(t) \in allocated
        /\ Memory(t) \in Memories /\ Memory(t) \in mapped
        /\ mapped = stuck \cup {Memory(t)} /\ misuse \subseteq {"stuck"} /\ Holds(call[t])
        /\ device \in [Memories -> Contents] /\ guest \in Contents
        /\ stuck \subseteq Memories /\ mapped \subseteq Memories /\ mapped \subseteq allocated
    BY <1>1, UnderWay DEF MappedStages
  <1>3. misuse' = misuse
    BY <1>2, UsesMapped DEF InvalidateMappedMemory
  <1>4. ASSUME NEW c \in Call, Become(t, c), c.at \in {"fresh", "unmap"},
               c.toDevice = call[t].toDevice, c.memory = call[t].memory,
               c.left = call[t].left, c.ok = call[t].ok,
               c.at = "fresh" /\ canSync => c.data = device[Memory(t)]
        PROVE  Inv'
    <2>1. Maps(c)'
      BY <1>1, <1>2, <1>4 DEF Maps, MappedStages, Memory
    <2>2. Holds(c)'
      BY <1>1, <1>2, <1>4 DEF Holds, Memory
    <2> QED BY <1>1, <1>2, <1>3, <1>4, <2>1, <2>2, CopyAdvances
  <1>5. CASE Show(t, "fresh", device[Memory(t)])
    <2>1. device[Memory(t)] \in Contents
      BY <1>2
    <2>2. PICK c \in Call : /\ Become(t, c) /\ c.at = "fresh"
                            /\ c.toDevice = call[t].toDevice /\ c.memory = call[t].memory
                            /\ c.data = device[Memory(t)]
                            /\ c.left = call[t].left /\ c.ok = call[t].ok
      BY <1>2, <1>5, <2>1, Shown DEF Stages
    <2> QED BY <1>4, <2>2
  <1>6. ASSUME NEW at \in {"fresh", "unmap"}, at = "fresh" => ~canSync, Advance(t, at)
        PROVE  Inv'
    <2>1. PICK c \in Call : /\ Become(t, c) /\ c.at = at
                            /\ c.toDevice = call[t].toDevice /\ c.memory = call[t].memory
                            /\ c.left = call[t].left /\ c.ok = call[t].ok
      BY <1>2, <1>6, Advanced DEF Stages
    <2> QED BY <1>4, <1>6, <2>1
  <1> QED BY <1>5, <1>6 DEF InvalidateMappedMemory

LEMMA WriteGuestKeeps ==
  ASSUME Inv, NEW t \in Threads, WriteGuest(t)
  PROVE  Inv'
  <1>1. /\ call[t].at = "fresh"
        /\ UNCHANGED <<allocated, mapped, stuck, device, canSync, canUnmap, lock, stored, misuse>>
    BY DEF WriteGuest
  <1>2. /\ call[t].at # "idle" /\ call[t] \in Call /\ Memory(t) \in allocated
        /\ mapped = stuck \cup {Memory(t)} /\ misuse \subseteq {"stuck"} /\ Holds(call[t])
        /\ device \in [Memories -> Contents] /\ guest \in Contents
        /\ stuck \subseteq Memories /\ mapped \subseteq Memories /\ mapped \subseteq allocated
    BY <1>1, UnderWay DEF MappedStages
  <1>3. call[t].data \in [Cells -> Values] /\ guest \in [Cells -> Values]
    BY <1>2 DEF Call, Contents
  <1>4. ASSUME NEW c \in Call, Become(t, c), c.at \in MappedStages, c.memory = Memory(t),
               guest' \in Contents, Holds(c)'
        PROVE  Inv'
    <2>1. Maps(c)'
      BY <1>1, <1>2, <1>4 DEF Maps, MappedStages
    <2> QED BY <1>1, <1>2, <1>4, <2>1, CopyAdvances
  <1>5. ASSUME NEW cell \in Cells, guest' = [guest EXCEPT ![cell] = call[t].data[cell]],
               Moved(t, cell, call[t].data[cell])
        PROVE  Inv'
    <2>1. call[t].data[cell] \in Values
      BY <1>3
    <2>2. PICK c \in Call : /\ Become(t, c) /\ c.at = call[t].at
                            /\ c.toDevice = call[t].toDevice
                            /\ c.memory = call[t].memory
                            /\ c.data = [call[t].data EXCEPT ![cell] = call[t].data[cell]]
                            /\ c.left = call[t].left \ {cell} /\ c.ok = call[t].ok
      BY <1>2, <1>5, <2>1, CellMoved
    <2>3. c.data = call[t].data
      BY <1>3, <2>2
    <2>4. \A x \in Cells \ (c.left \cup stored) : c.data[x] = guest'[x]
      <3> SUFFICES ASSUME NEW x \in Cells \ (c.left \cup stored) PROVE c.data[x] = guest'[x]
        OBVIOUS
      <3>1. x # cell => call[t].data[x] = guest[x]
        BY <1>2, <2>2 DEF Holds
      <3> QED BY <1>3, <1>5, <2>3, <3>1
    <2>5. Holds(c)'
      BY <1>1, <1>2, <2>2, <2>3, <2>4 DEF Holds
    <2>6. guest' \in Contents
      BY <1>3, <1>5, <2>1 DEF Contents
    <2> QED BY <1>1, <1>4, <2>2, <2>5, <2>6 DEF Memory, MappedStages
  <1>6. ASSUME NEW ok \in BOOLEAN, ok => call[t].left = {}, UNCHANGED guest,
               NEW c \in Call, Become(t, c), c.at = "unmap", c.memory = call[t].memory,
               c.data = call[t].data, c.left = call[t].left, c.ok = ok
        PROVE  Inv'
    <2>1. Holds(c)'
      BY <1>1, <1>2, <1>6 DEF Holds
    <2> QED BY <1>2, <1>4, <1>6, <2>1 DEF Memory, MappedStages
  <1>7. CASE call[t].left = {} /\ End(t, "unmap", TRUE) /\ UNCHANGED guest
    <2>1. PICK c \in Call : /\ Become(t, c) /\ c.at = "unmap" /\ c.memory = call[t].memory
                            /\ c.data = call[t].data /\ c.left = call[t].left /\ c.ok = TRUE
      BY <1>2, <1>7, Ended DEF Stages
    <2> QED BY <1>6, <1>7, <2>1
  <1>8. CASE Advance(t, "unmap") /\ UNCHANGED guest
    <2>1. PICK c \in Call : /\ Become(t, c) /\ c.at = "unmap" /\ c.memory = call[t].memory
                            /\ c.data = call[t].data /\ c.left = call[t].left
                            /\ c.ok = call[t].ok
      BY <1>2, <1>8, Advanced DEF Stages
    <2>2. c.ok = FALSE
      BY <1>1, <1>2, <2>1 DEF Holds
    <2> QED BY <1>6, <1>8, <2>1, <2>2
  <1> QED BY <1>5, <1>7, <1>8 DEF WriteGuest

\* What is still written back after a success is what the device has already.
LEMMA WrittenBack ==
  ASSUME Inv, NEW t \in Threads, UnmapMemory(t)
  PROVE  /\ device' \in [Memories -> Contents]
         /\ call[t].ok /\ canSync => device' = device
  <1>1. /\ call[t] \in Call /\ Memory(t) \in Memories /\ Holds(call[t])
        /\ device \in [Memories -> Contents]
    BY UnderWay DEF UnmapMemory, MappedStages
  <1>2. PICK written \in SUBSET (Cells \ call[t].left) :
          device' = [device EXCEPT ![Memory(t)] =
            [cell \in Cells |-> IF cell \in written THEN call[t].data[cell] ELSE @[cell]]]
    BY DEF UnmapMemory
  <1>3. PICK content :
          content = [cell \in Cells |-> IF cell \in written THEN call[t].data[cell]
                                        ELSE device[Memory(t)][cell]]
    OBVIOUS
  <1>4. device' = [device EXCEPT ![Memory(t)] = content]
    BY <1>1, <1>2, <1>3
  <1>5. /\ call[t].data \in [Cells -> Values] /\ device[Memory(t)] \in [Cells -> Values]
    BY <1>1 DEF Call, Contents
  <1>6. content \in Contents
    BY <1>3, <1>5 DEF Contents
  <1>7. call[t].ok /\ canSync => content = device[Memory(t)]
    <2> SUFFICES ASSUME call[t].ok, canSync PROVE content = device[Memory(t)]
      OBVIOUS
    <2>1. call[t].data = device[Memory(t)]
      BY <1>1 DEF Holds, Memory
    <2> QED BY <1>3, <1>5, <2>1
  <1> QED BY <1>1, <1>4, <1>6, <1>7

LEMMA UnmapMemoryKeeps ==
  ASSUME Inv, NEW t \in Threads, UnmapMemory(t)
  PROVE  Inv'
  <1>1. /\ call[t].at = "unmap" /\ Advance(t, "done")
        /\ UNCHANGED <<allocated, guest, canSync, canUnmap, lock, stored>>
    BY DEF UnmapMemory
  <1>2. /\ call[t].at # "idle" /\ call[t] \in Call /\ Memory(t) \in allocated
        /\ Memory(t) \in Memories /\ Memory(t) \in mapped
        /\ mapped = stuck \cup {Memory(t)} /\ misuse \subseteq {"stuck"} /\ Holds(call[t])
        /\ guest \in Contents
        /\ stuck \subseteq Memories /\ mapped \subseteq Memories /\ mapped \subseteq allocated
    BY <1>1, UnderWay DEF MappedStages
  <1>3. misuse' = misuse
    BY <1>2, UsesMapped DEF UnmapMemory
  <1>4. /\ mapped' = stuck' /\ stuck' \subseteq mapped
    BY <1>2 DEF UnmapMemory
  <1>5. PICK c \in Call : /\ Become(t, c) /\ c.at = "done" /\ c.toDevice = call[t].toDevice
                          /\ c.memory = call[t].memory /\ c.data = call[t].data
                          /\ c.left = call[t].left /\ c.ok = call[t].ok
    BY <1>1, <1>2, Advanced DEF Stages
  <1>6. Maps(c)'
    BY <1>1, <1>2, <1>4, <1>5 DEF Maps, MappedStages, Memory
  <1>7. Holds(c)'
    BY <1>1, <1>2, <1>5, WrittenBack DEF Holds
  <1>8. device' \in [Memories -> Contents]
    BY WrittenBack
  <1> QED BY <1>1, <1>2, <1>3, <1>4, <1>5, <1>6, <1>7, <1>8, CopyAdvances

LEMMA ReturnKeeps ==
  ASSUME Inv, NEW t \in Threads, Return(t)
  PROVE  Inv'
  <1>1. call[t].at = "done" /\ Become(t, Idle) /\ lock' = NoThread
    BY DEF Return
  <1>2. /\ call \in [Threads -> Call \cup {Idle}] /\ mapped = stuck
        /\ \A u \in Threads \ {t} : call[u].at = "idle"
    BY <1>1, OthersIdle DEF Inv, Knows, Maps
  <1>3. call' \in [Threads -> Call \cup {Idle}] /\ \A u \in Threads : call'[u].at = "idle"
    BY <1>1, <1>2, AtIdle DEF Become
  <1>4. TypeOK'
    BY <1>1, <1>3 DEF Inv, TypeOK, Return
  <1>5. OneCopy'
    BY <1>1, <1>3, NoThreadAssumption DEF OneCopy
  <1>6. \A u \in Threads : Knows(call[u])'
    BY <1>3 DEF Knows
  <1> QED BY <1>1, <1>2, <1>4, <1>5, <1>6 DEF Inv, Return, MappingsPaired

LEMMA NextInv == Inv /\ [Next]_vars => Inv'
  <1> SUFFICES ASSUME Inv, [Next]_vars PROVE Inv'
    OBVIOUS
  <1>1. ASSUME NEW t \in Threads, Step(t) PROVE Inv'
    BY <1>1, OtherCallKeeps, StartKeeps, MapMemoryKeeps, ReadGuestKeeps,
       FlushMappedMemoryKeeps, InvalidateMappedMemoryKeeps, WriteGuestKeeps,
       UnmapMemoryKeeps, ReturnKeeps
    DEF Step, CopyGuestToDeviceMemory, CopyDeviceMemoryToGuest
  <1>2. CASE UNCHANGED vars
    BY <1>2 DEF vars, Inv, TypeOK, OneCopy, Knows, Maps, Holds, MappingsPaired
  <1> QED BY <1>1, <1>2, GuestStoresKeeps DEF Next

LEMMA InvHolds == Spec => []Inv
  BY InitInv, NextInv, PTL DEF Spec

-----------------------------------------------------------------------------
(* The theorems *)

\* The memories, their contents on both sides and the copies under way keep their
\* types on every path through the two copy entry points.
THEOREM TypeCorrectness == Spec => []TypeOK
  <1>1. Inv => TypeOK
    BY DEF Inv
  <1> QED BY <1>1, InvHolds, PTL

\* A memory is mapped while a copy uses it, whatever other threads allocate and
\* free, and afterwards only if it could not be unmapped: every return path unmaps
\* that has an address and a command to do it with.
THEOREM MappingsAreTemporary == Spec => []MappedWhileCopied
  <1>1. Inv => MappedWhileCopied
    <2> SUFFICES ASSUME Inv PROVE MappedWhileCopied
      OBVIOUS
    <2>1. ASSUME NEW t \in Threads, call[t].at \in MappedStages
          PROVE  MappedWhileCopied
      <3>1. mapped = stuck \cup {Memory(t)} /\ call[t].at # "idle"
        BY <2>1, UnderWay
      <3>2. \A u \in Threads : call[u].at \in MappedStages => u = t
        BY <2>1, <3>1, OthersIdle DEF MappedStages
      <3> QED BY <2>1, <3>1, <3>2 DEF MappedWhileCopied, Inv
    <2>2. CASE \A t \in Threads : call[t].at \notin MappedStages
      <3>1. lock = NoThread \/ lock \in Threads
        BY DEF Inv, TypeOK
      <3>2. ASSUME lock \in Threads PROVE mapped = stuck
        <4>1. call[lock].at # "idle" /\ call[lock] \in Call
          BY <3>2, AtIdle DEF Inv, OneCopy, TypeOK
        <4>2. call[lock].at \in {"start", "done"}
          BY <2>2, <3>2, <4>1 DEF Call, Stages, MappedStages
        <4> QED BY <3>2, <4>1, <4>2 DEF Inv, Knows, Maps
      <3>3. mapped = stuck
        BY <3>1, <3>2 DEF Inv
      <3> QED BY <2>2, <3>3 DEF MappedWhileCopied, Inv
    <2> QED BY <2>1, <2>2
  <1> QED BY <1>1, InvHolds, PTL

\* The driver never syncs or unmaps a memory that is not mapped, and maps one twice
\* only if an earlier call has left it mapped.
THEOREM MappingsArePaired == Spec => []MappingsPaired
  <1>1. Inv => MappingsPaired
    BY DEF Inv
  <1> QED BY <1>1, InvHolds, PTL

\* After a successful copy both sides hold the same in every cell the guest has not
\* stored to since the copy began, coherent memory or not.
THEOREM CopiesAgreeWhereUndisturbed == Spec => []CopiesAreExact
  <1>1. Inv => CopiesAreExact
    <2> SUFFICES ASSUME Inv, NEW t \in Threads, canSync, call[t].at = "done", call[t].ok,
                        NEW cell \in Cells \ stored
                 PROVE  device[Memory(t)][cell] = guest[cell]
      BY DEF CopiesAreExact
    <2>1. Holds(call[t])
      BY DEF Inv, Knows
    <2>2. call[t].data = device[Memory(t)] /\ call[t].left = {}
      BY <2>1 DEF Holds, Memory
    <2>3. call[t].data[cell] = guest[cell]
      BY <2>1, <2>2 DEF Holds
    <2> QED BY <2>2, <2>3
  <1> QED BY <1>1, InvHolds, PTL

-----------------------------------------------------------------------------
(* MemoryCopies implements CellCopies. *)

\* What the copy c has taken so far.
Taken(c) == [cell \in Cells \ c.left |-> c.data[cell]]

Copying(at, toDevice, memory, value, ok) ==
  [at |-> at, toDevice |-> toDevice, memory |-> memory, value |-> value, ok |-> ok]

LEMMA Abstracted ==
  ASSUME NEW c \in Call
  PROVE  Abstract(c) = Copying(IF c.at \in {"unmap", "done"} THEN "decided" ELSE "called",
                               c.toDevice, c.memory, Taken(c), c.ok)
  <1>1. c # Idle
    BY AtIdle
  <1> QED BY <1>1 DEF Abstract, Copying, Taken

LEMMA IdleAbstracted == Abstract(Idle) = Copies!Idle
  BY DEF Abstract, Idle, Copies!Idle

\* The fields of a copy in CellCopies, and what its updates make of them.
LEMMA CopyingFields ==
  ASSUME NEW at, NEW toDevice, NEW memory, NEW value, NEW ok
  PROVE  LET c == Copying(at, toDevice, memory, value, ok) IN
         /\ c.at = at /\ c.toDevice = toDevice /\ c.memory = memory
         /\ c.value = value /\ c.ok = ok
  BY DEF Copying

LEMMA CopyingTakes ==
  ASSUME NEW at, NEW toDevice, NEW memory, NEW value, NEW ok, NEW v
  PROVE  [Copying(at, toDevice, memory, value, ok) EXCEPT !.value = v]
           = Copying(at, toDevice, memory, v, ok)
  BY DEF Copying

\* When one thread's copy changes, so does its abstraction, and no other.
LEMMA OneMoves ==
  ASSUME NEW t \in Threads, call \in [Threads -> Call \cup {Idle}], NEW c, Become(t, c),
         NEW d, Abstract(c) = d
  PROVE  Copies!Become(t, d)
  <1>1. call' = [call EXCEPT ![t] = c]
    BY DEF Become
  <1>2. call'[t] = c /\ \A u \in Threads \ {t} : call'[u] = call[u]
    BY <1>1
  <1>3. \A u \in Threads : Abstract(call[u])' = Abstract(call'[u])
    BY DEF Abstract
  <1>4. [u \in Threads |-> Abstract(call[u])]'
          = [[u \in Threads |-> Abstract(call[u])] EXCEPT ![t] = d]
    BY <1>2, <1>3
  <1> QED BY <1>4 DEF Copies!Become

\* When its abstraction is what it was, nothing has changed.
LEMMA OneStays ==
  ASSUME NEW t \in Threads, call \in [Threads -> Call \cup {Idle}], NEW c, Become(t, c),
         Abstract(c) = Abstract(call[t])
  PROVE  UNCHANGED [u \in Threads |-> Abstract(call[u])]
  <1>1. call' = [call EXCEPT ![t] = c]
    BY DEF Become
  <1>2. call'[t] = c /\ \A u \in Threads \ {t} : call'[u] = call[u]
    BY <1>1
  <1>3. \A u \in Threads : Abstract(call[u])' = Abstract(call'[u])
    BY DEF Abstract
  <1> QED BY <1>2, <1>3

LEMMA QuietWhenFree ==
  ASSUME Inv, lock = NoThread
  PROVE  Copies!Quiet
  <1>1. \A u \in Threads : call[u] = Idle
    BY NobodyCopies, AtIdle DEF Inv, TypeOK
  <1> QED BY <1>1, IdleAbstracted DEF Copies!Quiet

LEMMA OthersMap ==
  ASSUME Inv, NEW t \in Threads, AllocateMemory(t) \/ FreeMemory(t)
  PROVE  Copies!Allocate \/ Copies!Free
  <1>1. Copies!Quiet
    BY QuietWhenFree DEF AllocateMemory, FreeMemory, Enter
  <1>2. \A u \in Threads : Abstract(call[u])' = Abstract(call[u])
    BY DEF AllocateMemory, FreeMemory, Abstract
  <1> QED BY <1>1, <1>2 DEF AllocateMemory, FreeMemory, Copies!Allocate, Copies!Free,
                            Contents, Copies!Contents

LEMMA StartMaps ==
  ASSUME Inv, NEW t \in Threads, NEW toDevice \in BOOLEAN, Start(t, toDevice)
  PROVE  Copies!Begin(t)
  <1>1. PICK m \in allocated : Begin(t, toDevice, m, device[m])
    BY DEF Start
  <1>2. /\ call \in [Threads -> Call \cup {Idle}] /\ m \in Memories
        /\ device[m] \in Contents
    BY DEF Inv, TypeOK
  <1>3. PICK c : c = [at |-> "start", toDevice |-> toDevice, memory |-> m,
                      data |-> device[m], left |-> Cells, ok |-> FALSE]
    OBVIOUS
  <1>4. /\ c \in Call /\ c.at = "start" /\ c.toDevice = toDevice /\ c.memory = m
        /\ c.left = Cells /\ c.ok = FALSE
    BY <1>2, <1>3 DEF Call, Stages
  <1>5. Become(t, c) /\ UNCHANGED <<allocated, device, guest, canSync>>
    BY <1>1, <1>3 DEF Begin
  <1>6. Taken(c) = [cell \in {} |-> cell]
    BY <1>4 DEF Taken
  <1>7. Abstract(c) = Copying("called", toDevice, m, [cell \in {} |-> cell], FALSE)
    BY <1>4, <1>6, Abstracted
  <1>8. Copies!Become(t, Copying("called", toDevice, m, [cell \in {} |-> cell], FALSE))
    BY <1>2, <1>5, <1>7, OneMoves
  <1>9. Copies!Quiet
    BY QuietWhenFree DEF Start, Enter
  <1> QED BY <1>5, <1>8, <1>9 DEF Copies!Begin, Copying

\* The abstract side of a thread's copy.
LEMMA Seen ==
  ASSUME NEW t \in Threads, call[t] \in Call, NEW e,
         e = [u \in Threads |-> Abstract(call[u])][t]
  PROVE  /\ e = Copying(IF call[t].at \in {"unmap", "done"} THEN "decided" ELSE "called",
                        call[t].toDevice, call[t].memory, Taken(call[t]), call[t].ok)
         /\ e.at = IF call[t].at \in {"unmap", "done"} THEN "decided" ELSE "called"
         /\ e.toDevice = call[t].toDevice /\ e.memory = call[t].memory
         /\ e.value = Taken(call[t]) /\ e.ok = call[t].ok
  <1>1. e = Copying(IF call[t].at \in {"unmap", "done"} THEN "decided" ELSE "called",
                    call[t].toDevice, call[t].memory, Taken(call[t]), call[t].ok)
    BY Abstracted
  <1> QED BY <1>1, CopyingFields

\* A copy that has had its effect or has failed.
LEMMA Decides ==
  ASSUME NEW t \in Threads, call \in [Threads -> Call \cup {Idle}], call[t] \in Call,
         NEW ok, NEW c \in Call, Become(t, c), c.at \in {"unmap", "done"},
         c.toDevice = call[t].toDevice, c.memory = call[t].memory,
         c.data = call[t].data, c.left = call[t].left, c.ok = ok
  PROVE  Copies!Decide(t, ok)
  <1>1. PICK e : e = [u \in Threads |-> Abstract(call[u])][t]
    OBVIOUS
  <1>2. Taken(c) = Taken(call[t])
    BY DEF Taken
  <1>3. Abstract(c) = Copying("decided", call[t].toDevice, call[t].memory, Taken(call[t]), ok)
    BY <1>2, Abstracted
  <1>4. [e EXCEPT !.at = "decided", !.ok = ok]
          = Copying("decided", call[t].toDevice, call[t].memory, Taken(call[t]), ok)
    <2>1. PICK at : at = IF call[t].at \in {"unmap", "done"} THEN "decided" ELSE "called"
      OBVIOUS
    <2>2. PICK toDevice, memory, value, was :
            /\ toDevice = call[t].toDevice /\ memory = call[t].memory
            /\ value = Taken(call[t]) /\ was = call[t].ok
      OBVIOUS
    <2>3. e = Copying(at, toDevice, memory, value, was)
      BY <1>1, <2>1, <2>2, Seen
    <2> DEFINE Kind == [at : {at, "decided"}, toDevice : {toDevice}, memory : {memory},
                        value : {value}, ok : {was, ok}]
    <2>4. e \in Kind /\ e.toDevice = toDevice /\ e.memory = memory /\ e.value = value
      BY <2>3 DEF Copying
    <2>5. PICK d : d = [e EXCEPT !.at = "decided", !.ok = ok]
      OBVIOUS
    <2>6. /\ d \in Kind /\ d.at = "decided" /\ d.toDevice = toDevice /\ d.memory = memory
          /\ d.value = value /\ d.ok = ok
      BY <2>4, <2>5
    <2>7. d = Copying("decided", toDevice, memory, value, ok)
      BY <2>6 DEF Copying
    <2> QED BY <2>2, <2>5, <2>7
  <1>5. Copies!Become(t, [e EXCEPT !.at = "decided", !.ok = ok])
    BY <1>3, <1>4, OneMoves
  <1> QED BY <1>1, <1>5 DEF Copies!Decide

LEMMA Fails ==
  ASSUME Inv, NEW t \in Threads, NEW at \in {"unmap", "done"},
         call[t].at \in {"start", "mapped", "copied", "fresh"}, Advance(t, at),
         UNCHANGED <<allocated, device, guest, canSync>>
  PROVE  Copies!Fail(t)
  <1>1. /\ call \in [Threads -> Call \cup {Idle}] /\ call[t] \in Call /\ call[t].ok = FALSE
    BY OthersIdle DEF Inv, Knows, Holds
  <1>2. PICK c \in Call : /\ Become(t, c) /\ c.at = at /\ c.toDevice = call[t].toDevice
                          /\ c.memory = call[t].memory /\ c.data = call[t].data
                          /\ c.left = call[t].left /\ c.ok = call[t].ok
    BY <1>1, Advanced DEF Stages
  <1>3. Copies!Decide(t, FALSE)
    BY <1>1, <1>2, Decides
  <1>4. PICK e : e = [u \in Threads |-> Abstract(call[u])][t]
    OBVIOUS
  <1>5. e.at = "called"
    BY <1>1, <1>4, Seen
  <1> QED BY <1>3, <1>4, <1>5 DEF Copies!Fail

\* A step that moves no cell and decides nothing does not show.
LEMMA Stutters ==
  ASSUME NEW t \in Threads, call \in [Threads -> Call \cup {Idle}], call[t] \in Call,
         NEW c \in Call, Become(t, c),
         c.at \in {"unmap", "done"} <=> call[t].at \in {"unmap", "done"},
         c.toDevice = call[t].toDevice, c.memory = call[t].memory,
         Taken(c) = Taken(call[t]), c.ok = call[t].ok
  PROVE  UNCHANGED [u \in Threads |-> Abstract(call[u])]
  <1>1. Abstract(c) = Abstract(call[t])
    BY Abstracted
  <1> QED BY <1>1, OneStays

\* A copy that has moved nothing has taken nothing, whatever its mapping shows.
LEMMA NothingTaken ==
  ASSUME NEW c, NEW d, c.left = Cells, d.left = Cells
  PROVE  Taken(c) = Taken(d)
  BY DEF Taken

LEMMA MapMemoryMaps ==
  ASSUME Inv, NEW t \in Threads, MapMemory(t)
  PROVE  Copies!Fail(t) \/ UNCHANGED Copies!vars
  <1>1. /\ call[t].at = "start" /\ UNCHANGED <<allocated, device, guest, canSync>>
    BY DEF MapMemory
  <1>2. /\ call \in [Threads -> Call \cup {Idle}] /\ call[t] \in Call
        /\ call[t].left = Cells
    BY <1>1, OthersIdle DEF Inv, Knows, Holds
  <1>3. ASSUME NEW seen \in Contents, Show(t, "mapped", seen)
        PROVE  UNCHANGED [u \in Threads |-> Abstract(call[u])]
    <2>1. PICK c \in Call : /\ Become(t, c) /\ c.at = "mapped"
                            /\ c.toDevice = call[t].toDevice /\ c.memory = call[t].memory
                            /\ c.left = call[t].left /\ c.ok = call[t].ok
      BY <1>2, <1>3, Shown DEF Stages
    <2>2. Taken(c) = Taken(call[t])
      BY <1>2, <2>1, NothingTaken
    <2> QED BY <1>1, <1>2, <2>1, <2>2, Stutters
  <1>4. CASE Advance(t, "done")
    BY <1>1, <1>4, Fails
  <1> QED BY <1>1, <1>3, <1>4 DEF MapMemory, Copies!vars

\* The copy takes one cell more.
LEMMA Takes ==
  ASSUME NEW t \in Threads, call \in [Threads -> Call \cup {Idle}], call[t] \in Call,
         call[t].at \notin {"unmap", "done"},
         NEW cell \in Cells, NEW value \in Values, Moved(t, cell, value)
  PROVE  Copies!Take(t, cell, value)
  <1>1. PICK c \in Call : /\ Become(t, c) /\ c.at = call[t].at
                          /\ c.toDevice = call[t].toDevice
                          /\ c.memory = call[t].memory
                          /\ c.data = [call[t].data EXCEPT ![cell] = value]
                          /\ c.left = call[t].left \ {cell} /\ c.ok = call[t].ok
    BY CellMoved
  <1>2. PICK e : e = [u \in Threads |-> Abstract(call[u])][t]
    OBVIOUS
  <1>3. /\ e = Copying("called", call[t].toDevice, call[t].memory, Taken(call[t]), call[t].ok)
        /\ e.value = Taken(call[t])
    BY <1>2, Seen
  <1>4. PICK v : v = [x \in DOMAIN e.value \cup {cell} |->
                        IF x = cell THEN value ELSE e.value[x]]
    OBVIOUS
  <1>5. Taken(c) = v
    <2>1. DOMAIN e.value = Cells \ call[t].left
      BY <1>3 DEF Taken
    <2>2. \A x \in Cells \ call[t].left : e.value[x] = call[t].data[x]
      BY <1>3 DEF Taken
    <2>3. Cells \ c.left = (Cells \ call[t].left) \cup {cell}
      BY <1>1
    <2>4. call[t].data \in [Cells -> Values]
      BY DEF Call, Contents
    <2>5. \A x \in Cells \ c.left : c.data[x] = v[x]
      BY <1>1, <1>4, <2>1, <2>2, <2>3, <2>4
    <2>6. v = [x \in Cells \ c.left |-> v[x]]
      BY <1>4, <2>1, <2>3
    <2> QED BY <2>5, <2>6 DEF Taken
  <1>6. Abstract(c) = Copying("called", call[t].toDevice, call[t].memory, v, call[t].ok)
    BY <1>1, <1>5, Abstracted
  <1>7. [e EXCEPT !.value = v]
          = Copying("called", call[t].toDevice, call[t].memory, v, call[t].ok)
    BY <1>3, CopyingTakes
  <1>8. Copies!Become(t, [e EXCEPT !.value = v])
    BY <1>1, <1>6, <1>7, OneMoves
  <1>9. [e EXCEPT !.value = v]
          = [e EXCEPT !.value = [x \in DOMAIN @ \cup {cell} |->
                                   IF x = cell THEN value ELSE @[x]]]
    BY <1>4
  <1> QED BY <1>2, <1>8, <1>9 DEF Copies!Take

LEMMA ReadGuestMaps ==
  ASSUME Inv, NEW t \in Threads, ReadGuest(t)
  PROVE  \/ \E cell \in Cells : Copies!Fetch(t, cell)
         \/ Copies!Fail(t)
         \/ UNCHANGED Copies!vars
  <1>1. /\ call[t].at = "mapped" /\ call[t].toDevice
        /\ UNCHANGED <<allocated, device, guest, canSync>>
    BY DEF ReadGuest
  <1>2. call \in [Threads -> Call \cup {Idle}] /\ call[t] \in Call /\ guest \in Contents
    BY <1>1, OthersIdle DEF Inv, TypeOK
  <1>3. ASSUME NEW cell \in Cells, Moved(t, cell, guest[cell]) PROVE Copies!Fetch(t, cell)
    <2>1. guest[cell] \in Values
      BY <1>2 DEF Contents
    <2>2. Copies!Take(t, cell, guest[cell])
      BY <1>1, <1>2, <1>3, <2>1, Takes
    <2>3. PICK e : e = [u \in Threads |-> Abstract(call[u])][t]
      OBVIOUS
    <2>4. e.at = "called" /\ e.toDevice
      BY <1>1, <1>2, <2>3, Seen
    <2> QED BY <1>1, <2>2, <2>3, <2>4 DEF Copies!Fetch
  <1>4. CASE Advance(t, "copied")
    <2>1. PICK c \in Call : /\ Become(t, c) /\ c.at = "copied"
                            /\ c.toDevice = call[t].toDevice /\ c.memory = call[t].memory
                            /\ c.data = call[t].data
                            /\ c.left = call[t].left /\ c.ok = call[t].ok
      BY <1>2, <1>4, Advanced DEF Stages
    <2>2. Taken(c) = Taken(call[t])
      BY <2>1 DEF Taken
    <2> QED BY <1>1, <1>2, <2>1, <2>2, Stutters DEF Copies!vars
  <1>5. CASE Advance(t, "unmap")
    BY <1>1, <1>5, Fails
  <1> QED BY <1>3, <1>4, <1>5 DEF ReadGuest

LEMMA FlushMappedMemoryMaps ==
  ASSUME Inv, NEW t \in Threads, FlushMappedMemory(t)
  PROVE  Copies!Arrive(t) \/ Copies!Fail(t)
  <1>1. call[t].at = "copied" /\ UNCHANGED <<allocated, guest, canSync>>
    BY DEF FlushMappedMemory
  <1>2. /\ call \in [Threads -> Call \cup {Idle}] /\ call[t] \in Call
        /\ call[t].toDevice /\ call[t].left = {}
    BY <1>1, OthersIdle DEF Inv, Knows, Holds
  <1>3. CASE Advance(t, "unmap") /\ UNCHANGED device
    BY <1>1, <1>3, Fails
  <1>4. CASE /\ End(t, "unmap", TRUE)
             /\ device' = IF canSync THEN [device EXCEPT ![Memory(t)] = call[t].data]
                          ELSE device
    <2>1. PICK c \in Call : /\ Become(t, c) /\ c.at = "unmap"
                            /\ c.toDevice = call[t].toDevice /\ c.memory = call[t].memory
                            /\ c.data = call[t].data
                            /\ c.left = call[t].left /\ c.ok = TRUE
      BY <1>2, <1>4, Ended DEF Stages
    <2>2. Copies!Decide(t, TRUE)
      BY <1>2, <2>1, Decides
    <2>3. PICK e : e = [u \in Threads |-> Abstract(call[u])][t]
      OBVIOUS
    <2>4. /\ e.at = "called" /\ e.toDevice /\ e.memory = Memory(t)
          /\ e.value = Taken(call[t])
      BY <1>1, <1>2, <2>3, Seen DEF Memory
    <2>5. call[t].data \in [Cells -> Values]
      BY <1>2 DEF Call, Contents
    <2>6. e.value = call[t].data /\ DOMAIN e.value = Cells
      BY <1>2, <2>4, <2>5 DEF Taken
    <2> QED BY <1>1, <1>4, <2>2, <2>3, <2>4, <2>6 DEF Copies!Arrive
  <1> QED BY <1>3, <1>4 DEF FlushMappedMemory

LEMMA InvalidateMappedMemoryMaps ==
  ASSUME Inv, NEW t \in Threads, InvalidateMappedMemory(t)
  PROVE  Copies!Fail(t) \/ UNCHANGED Copies!vars
  <1>1. /\ call[t].at = "mapped" /\ ~call[t].toDevice
        /\ UNCHANGED <<allocated, device, guest, canSync>>
    BY DEF InvalidateMappedMemory
  <1>2. /\ call \in [Threads -> Call \cup {Idle}] /\ call[t] \in Call
        /\ call[t].left = Cells
    BY <1>1, OthersIdle DEF Inv, Knows, Holds
  <1>3. ASSUME NEW c \in Call, Become(t, c), c.at = "fresh", c.toDevice = call[t].toDevice,
               c.memory = call[t].memory, c.left = call[t].left, c.ok = call[t].ok
        PROVE  UNCHANGED Copies!vars
    <2>1. Taken(c) = Taken(call[t])
      BY <1>2, <1>3, NothingTaken
    <2> QED BY <1>1, <1>2, <1>3, <2>1, Stutters DEF Copies!vars
  <1>4. CASE Show(t, "fresh", device[Memory(t)])
    <2>1. device[Memory(t)] \in Contents
      BY <1>2 DEF Inv, TypeOK, Memory, Call
    <2>2. PICK c \in Call : /\ Become(t, c) /\ c.at = "fresh"
                            /\ c.toDevice = call[t].toDevice /\ c.memory = call[t].memory
                            /\ c.left = call[t].left /\ c.ok = call[t].ok
      BY <1>2, <1>4, <2>1, Shown DEF Stages
    <2> QED BY <1>3, <2>2
  <1>5. CASE Advance(t, "fresh")
    <2>1. PICK c \in Call : /\ Become(t, c) /\ c.at = "fresh"
                            /\ c.toDevice = call[t].toDevice /\ c.memory = call[t].memory
                            /\ c.left = call[t].left /\ c.ok = call[t].ok
      BY <1>2, <1>5, Advanced DEF Stages
    <2> QED BY <1>3, <2>1
  <1>6. CASE Advance(t, "unmap")
    BY <1>1, <1>6, Fails
  <1> QED BY <1>4, <1>5, <1>6 DEF InvalidateMappedMemory

LEMMA WriteGuestMaps ==
  ASSUME Inv, NEW t \in Threads, WriteGuest(t)
  PROVE  \/ \E cell \in Cells : Copies!Deliver(t, cell)
         \/ Copies!Complete(t)
         \/ Copies!Fail(t)
  <1>1. call[t].at = "fresh" /\ UNCHANGED <<allocated, device, canSync>>
    BY DEF WriteGuest
  <1>2. /\ call \in [Threads -> Call \cup {Idle}] /\ call[t] \in Call
        /\ ~call[t].toDevice /\ (canSync => call[t].data = device[Memory(t)])
    BY <1>1, OthersIdle DEF Inv, Knows, Holds, Memory
  <1>3. PICK e : e = [u \in Threads |-> Abstract(call[u])][t]
    OBVIOUS
  <1>4. /\ e.at = "called" /\ ~e.toDevice /\ e.memory = Memory(t)
        /\ e.value = Taken(call[t])
    BY <1>1, <1>2, <1>3, Seen DEF Memory
  <1>5. ASSUME NEW cell \in Cells, guest' = [guest EXCEPT ![cell] = call[t].data[cell]],
               Moved(t, cell, call[t].data[cell])
        PROVE  Copies!Deliver(t, cell)
    <2>1. PICK value \in Values : value = call[t].data[cell]
      BY <1>2 DEF Call, Contents
    <2>2. canSync => value = device[Memory(t)][cell]
      BY <1>2, <2>1
    <2>3. Copies!Take(t, cell, value)
      BY <1>1, <1>2, <1>5, <2>1, Takes
    <2>4. guest' = [guest EXCEPT ![cell] = value]
      BY <1>5, <2>1
    <2> QED BY <1>1, <1>3, <1>4, <2>2, <2>3, <2>4 DEF Copies!Deliver
  <1>6. CASE call[t].left = {} /\ End(t, "unmap", TRUE) /\ UNCHANGED guest
    <2>1. PICK c \in Call : /\ Become(t, c) /\ c.at = "unmap"
                            /\ c.toDevice = call[t].toDevice /\ c.memory = call[t].memory
                            /\ c.data = call[t].data
                            /\ c.left = call[t].left /\ c.ok = TRUE
      BY <1>2, <1>6, Ended DEF Stages
    <2>2. Copies!Decide(t, TRUE)
      BY <1>2, <2>1, Decides
    <2>3. DOMAIN e.value = Cells
      BY <1>4, <1>6 DEF Taken
    <2> QED BY <1>1, <1>3, <1>4, <1>6, <2>2, <2>3 DEF Copies!Complete
  <1>7. CASE Advance(t, "unmap") /\ UNCHANGED guest
    BY <1>1, <1>7, Fails
  <1> QED BY <1>5, <1>6, <1>7 DEF WriteGuest

LEMMA UnmapMemoryMaps ==
  ASSUME Inv, NEW t \in Threads, UnmapMemory(t)
  PROVE  Copies!Settle(t) \/ UNCHANGED Copies!vars
  <1>1. /\ call[t].at = "unmap" /\ Advance(t, "done")
        /\ UNCHANGED <<allocated, guest, canSync>>
    BY DEF UnmapMemory
  <1>2. /\ call \in [Threads -> Call \cup {Idle}] /\ call[t] \in Call /\ Memory(t) \in Memories
        /\ device \in [Memories -> Contents]
    BY <1>1, OthersIdle DEF Inv, TypeOK, Call, Memory
  <1>3. UNCHANGED [u \in Threads |-> Abstract(call[u])]
    <2>1. PICK c \in Call : /\ Become(t, c) /\ c.at = "done"
                            /\ c.toDevice = call[t].toDevice /\ c.memory = call[t].memory
                            /\ c.data = call[t].data
                            /\ c.left = call[t].left /\ c.ok = call[t].ok
      BY <1>1, <1>2, Advanced DEF Stages
    <2>2. Taken(c) = Taken(call[t])
      BY <2>1 DEF Taken
    <2> QED BY <1>1, <1>2, <2>1, <2>2, Stutters
  <1>4. PICK written \in SUBSET (Cells \ call[t].left) :
          /\ call[t].toDevice \/ written = {}
          /\ device' = [device EXCEPT ![Memory(t)] =
               [cell \in Cells |-> IF cell \in written THEN call[t].data[cell] ELSE @[cell]]]
    BY DEF UnmapMemory
  <1>5. device[Memory(t)] \in [Cells -> Values]
    BY <1>2 DEF Contents
  <1>6. CASE written = {}
    <2>1. [cell \in Cells |-> IF cell \in written THEN call[t].data[cell]
                              ELSE device[Memory(t)][cell]] = device[Memory(t)]
      BY <1>5, <1>6
    <2>2. device' = device
      BY <1>2, <1>4, <2>1
    <2> QED BY <1>1, <1>3, <2>2 DEF Copies!vars
  <1>7. CASE call[t].toDevice
    <2>1. PICK e : e = [u \in Threads |-> Abstract(call[u])][t]
      OBVIOUS
    <2>2. /\ e.at = "decided" /\ e.toDevice /\ e.memory = Memory(t)
          /\ e.value = Taken(call[t])
      BY <1>1, <1>2, <1>7, <2>1, Seen DEF Memory
    <2>3. written \in SUBSET DOMAIN e.value
      BY <2>2 DEF Taken
    <2>4. Copies!Overlay([cell \in written |-> e.value[cell]], device[Memory(t)])
            = [cell \in Cells |-> IF cell \in written THEN call[t].data[cell]
                                  ELSE device[Memory(t)][cell]]
      BY <2>2, <2>3 DEF Copies!Overlay, Taken
    <2>5. device' = [device EXCEPT ![e.memory] =
                       Copies!Overlay([cell \in written |-> e.value[cell]], @)]
      BY <1>2, <1>4, <2>2, <2>4
    <2> QED BY <1>1, <1>3, <2>1, <2>2, <2>3, <2>5 DEF Copies!Settle
  <1> QED BY <1>4, <1>6, <1>7

LEMMA ReturnMaps ==
  ASSUME Inv, NEW t \in Threads, Return(t)
  PROVE  Copies!Return(t)
  <1>1. /\ call[t].at = "done" /\ Become(t, Idle)
        /\ UNCHANGED <<allocated, device, guest, canSync>>
    BY DEF Return
  <1>2. call \in [Threads -> Call \cup {Idle}] /\ call[t] \in Call
    BY <1>1, OthersIdle
  <1>3. Copies!Become(t, Copies!Idle)
    BY <1>1, <1>2, OneMoves, IdleAbstracted
  <1>4. PICK e : e = [u \in Threads |-> Abstract(call[u])][t]
    OBVIOUS
  <1>5. e.at = "decided"
    BY <1>1, <1>2, <1>4, Seen
  <1> QED BY <1>1, <1>3, <1>4, <1>5 DEF Copies!Return

LEMMA NextMaps ==
  ASSUME Inv, [Next]_vars
  PROVE  [Copies!Next]_(Copies!vars)
  <1>1. ASSUME NEW t \in Threads, Step(t) PROVE [Copies!Next]_(Copies!vars)
    BY <1>1, OthersMap, StartMaps, MapMemoryMaps, ReadGuestMaps, FlushMappedMemoryMaps,
       InvalidateMappedMemoryMaps, WriteGuestMaps, UnmapMemoryMaps, ReturnMaps
    DEF Step, CopyGuestToDeviceMemory, CopyDeviceMemoryToGuest, Copies!Next
  <1>2. CASE GuestStores
    <2>1. \A u \in Threads : Abstract(call[u])' = Abstract(call[u])
      BY <1>2 DEF GuestStores, Abstract
    <2> QED BY <1>2, <2>1 DEF GuestStores, Copies!GuestStores, Copies!Next
  <1>3. CASE UNCHANGED vars
    <2>1. \A u \in Threads : Abstract(call[u])' = Abstract(call[u])
      BY <1>3 DEF vars, Abstract
    <2> QED BY <1>3, <2>1 DEF vars, Copies!vars
  <1> QED BY <1>1, <1>2, <1>3 DEF Next

LEMMA InitMaps == Init => Copies!Init
  <1> SUFFICES ASSUME Init PROVE Copies!Init
    OBVIOUS
  <1>1. [t \in Threads |-> Abstract(call[t])] = [t \in Threads |-> Copies!Idle]
    BY IdleAbstracted DEF Init
  <1> QED BY <1>1 DEF Init, Copies!Init, Contents, Copies!Contents

\* A copy takes effect as CellCopies says, one cell at one instant each: the steps of
\* mapping, syncing and unmapping, and whatever other threads and the guest do between
\* them, do not show.
THEOREM CopiesImplementCellCopies == Spec => ImplementsCellCopies
  BY InvHolds, InitMaps, NextMaps, PTL DEF Spec, ImplementsCellCopies, Copies!Spec
===============================================================================
