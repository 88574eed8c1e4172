--------------------------- MODULE GuestResultsProofs ---------------------------
(***************************************************************************)
(* Proofs about GuestResults for any number of threads and handles and for *)
(* lists of any length.                                                    *)
(***************************************************************************)
EXTENDS GuestResults, FiniteSetTheorems, TLAPS

\* What a call knows by itself: what it has written at each point, and that the
\* handles it is going to list are those it has registered.
Listed(c) ==
  /\ \A o \in c.handles : Kind[o] = "physical_device"
  /\ c.handles = {} \/ (c.total = Cardinality(c.handles) /\ c.total =< c.capacity)

Unwritten(c) == c.count = NotTold /\ c.written = 0

Answered(c) ==
  /\ c.written > 0 => c.written =< c.capacity /\ c.written =< c.count
  /\ c.result = "guest_memory" => c.written = 0
  /\ c.result # "guest_memory" /\ c.count # NotTold =>
       /\ c.result = "incomplete" <=> c.capacity < c.count
       /\ c.written = IF c.buffer THEN Least(c.capacity, c.count) ELSE 0

Steady(c) ==
  /\ c.at = "idle" => c.handles = {}
  /\ c.at = "handle" => Unwritten(c)
  /\ c.at = "insert" => Unwritten(c) /\ c.handles = {}
  /\ c.at = "count" => Unwritten(c) /\ Listed(c)
  /\ c.at = "values" => Listed(c) /\ WantsValues(c) /\ c.count = c.total /\ c.written = 0
  /\ c.at = "done" => Answered(c)

\* The handles of a call that has told the guest.
Told(c) ==
  c.at = "done" /\ c.result # "guest_memory" =>
    c.handles \subseteq told \/ (c.capacity > 0 /\ ~c.buffer)

\* While a create has the lock its objects are registered, siblings of one another
\* and without children.
Fresh(handles) ==
  /\ handles \subseteq Existing
  /\ \A o \in Existing : parent[o] \notin handles
  /\ \A o, q \in handles : parent[o] = parent[q]

Calls ==
  \A t \in Threads :
    /\ Steady(call[t]) /\ Told(call[t])
    /\ call[t].at = "handle" => lock = t /\ Fresh(call[t].handles)

Forest == parent = [o \in Existing |-> parent[o]]

Inv == TypeOK /\ Forest /\ Calls /\ RollbackComplete

-----------------------------------------------------------------------------
(* The pieces of a step *)

\* A thread changes its own call only.
LEMMA Becomes ==
  ASSUME TypeOK, NEW t \in Threads, NEW c \in Call, Become(t, c)
  PROVE  /\ call' \in [Threads -> Call] /\ call'[t] = c
         /\ \A s \in Threads : s # t => call'[s] = call[s]
  BY DEF TypeOK, Become

LEMMA CallsTyped ==
  ASSUME NEW c \in Call
  PROVE  /\ c.at \in {"idle", "handle", "insert", "count", "values", "done"}
         /\ c.owner \in Objects \cup {Root} /\ c.handles \subseteq Objects
         /\ c.found \in Nat /\ c.total \in Nat /\ c.capacity \in Nat /\ c.written \in Nat
         /\ c.buffer \in BOOLEAN /\ c.result \in Results /\ c.count \in Nat \cup {NotTold}
  BY DEF Call

LEMMA IdleTyped ==
  /\ Idle \in Call /\ Unwritten(Idle) /\ Idle.at = "idle" /\ Idle.handles = {}
  /\ Idle.owner = Root
  BY DEF Idle, Call, Results, Unwritten

LEMMA Queries ==
  ASSUME NEW q \in Query
  PROVE  q.found \in Nat /\ q.capacity \in Nat /\ q.buffer \in BOOLEAN
  BY MaxFoundAssumption DEF Query

\* A step that leaves the registry and the lock alone keeps the invariant if the call
\* that steps is steady afterwards.
LEMMA LocalStep ==
  ASSUME Inv, NEW t \in Threads, NEW c \in Call, Become(t, c),
         UNCHANGED <<parent, used, lock>>, told \subseteq told', told' \subseteq used,
         Steady(c), Told(c)', c.at # "handle", call[t].at # "handle",
         c.handles \subseteq used, c.owner \in used \cup {Root},
         \A o \in Pending(t) : \/ c.at # "done" /\ o \in c.handles
                               \/ Kind[o] \notin {"command_pool", "command_buffer"}
                               \/ o \in told'
  PROVE  Inv'
  <1>1. /\ call' \in [Threads -> Call] /\ call'[t] = c
        /\ \A s \in Threads : s # t => call'[s] = call[s]
    BY Becomes DEF Inv
  <1>2. TypeOK'
    <2>1. \A s \in Threads : call'[s].handles \subseteq used /\ call'[s].owner \in used \cup {Root}
      BY <1>1 DEF Inv, TypeOK
    <2> QED BY <1>1, <2>1 DEF Inv, TypeOK, Existing
  <1>3. Forest'
    BY DEF Inv, Forest, Existing
  <1>4. Calls'
    <2>1. ASSUME NEW s \in Threads, s # t
          PROVE  /\ Steady(call'[s]) /\ Told(call[s])'
                 /\ call'[s].at = "handle" => lock' = s /\ Fresh(call[s].handles)'
      BY <1>1, <2>1 DEF Inv, Calls, Told, Fresh, Existing
    <2>2. Steady(call'[t]) /\ Told(call[t])' /\ call'[t].at # "handle"
      BY <1>1 DEF Told
    <2> QED BY <2>1, <2>2 DEF Calls
  <1>5. RollbackComplete'
    <2> SUFFICES ASSUME NEW o \in Existing, Kind[o] \in {"command_pool", "command_buffer"},
                        o \notin told'
                 PROVE  \E s \in Threads : o \in Pending(s)'
      BY DEF RollbackComplete, Existing
    <2>1. PICK s \in Threads : o \in Pending(s)
      BY DEF Inv, RollbackComplete
    <2>2. CASE s = t
      BY <1>1, <2>1, <2>2 DEF Pending
    <2>3. CASE s # t
      BY <1>1, <2>1, <2>3 DEF Pending
    <2> QED BY <2>2, <2>3
  <1> QED BY <1>2, <1>3, <1>4, <1>5 DEF Inv

LEMMA ReturnKeeps ==
  ASSUME Inv, NEW t \in Threads, Return(t)
  PROVE  Inv'
  <1>1. /\ Become(t, Idle) /\ call[t].at = "done" /\ UNCHANGED <<parent, used, lock, told>>
        /\ told \subseteq used
    BY DEF Return, Inv, TypeOK
  <1>2. Steady(Idle) /\ Told(Idle)'
    BY IdleTyped DEF Steady, Told
  <1>3. Pending(t) = {}
    BY <1>1 DEF Pending
  <1> QED BY <1>1, <1>2, <1>3, IdleTyped, LocalStep

LEMMA ListKeeps ==
  ASSUME Inv, NEW t \in Threads, List(t), call[t].at = "idle"
  PROVE  Inv'
  <1>1. PICK q \in Query : Become(t, [Listing("count", q) EXCEPT !.total = q.found])
    BY DEF List
  <1> DEFINE c == [Listing("count", q) EXCEPT !.total = q.found]
  <1>2. /\ c \in Call /\ c.at = "count" /\ Unwritten(c) /\ c.handles = {} /\ c.owner = Root
    BY Queries DEF Listing, Idle, Call, Results, Unwritten
  <1> HIDE DEF c
  <1>3. Steady(c) /\ Told(c)'
    BY <1>2 DEF Steady, Told, Listed
  <1>4. Pending(t) = {}
    BY DEF Inv, Calls, Steady, Pending
  <1>5. UNCHANGED <<parent, used, lock, told>> /\ told \subseteq used /\ Become(t, c)
    BY <1>1 DEF List, c, Inv, TypeOK
  <1> QED BY <1>2, <1>3, <1>4, <1>5, LocalStep

LEMMA EnumerateKeeps ==
  ASSUME Inv, NEW t \in Threads, EnumeratePhysicalDevices(t)
  PROVE  Inv'
  <1>1. PICK i \in Of("instance"), q \in Query :
          Become(t, [Listing("insert", q) EXCEPT !.owner = i])
    BY DEF EnumeratePhysicalDevices
  <1>2. call[t].at = "idle" /\ UNCHANGED <<parent, used, lock, told>> /\ told \subseteq used
    BY DEF EnumeratePhysicalDevices, Enter, Inv, TypeOK
  <1> DEFINE c == [Listing("insert", q) EXCEPT !.owner = i]
  <1>3. i \in used /\ i \in Objects
    BY DEF Inv, TypeOK, Of
  <1>4. c \in Call /\ c.at = "insert" /\ Unwritten(c) /\ c.handles = {} /\ c.owner = i
    BY <1>3, Queries DEF Listing, Idle, Call, Results, Unwritten
  <1>5. Become(t, c)
    BY <1>1
  <1> HIDE DEF c
  <1>6. Steady(c) /\ Told(c)'
    BY <1>4 DEF Steady, Told
  <1>7. Pending(t) = {}
    BY <1>2 DEF Inv, Calls, Steady, Pending
  <1> QED BY <1>2, <1>3, <1>4, <1>5, <1>6, <1>7, LocalStep

LEMMA WriteCountKeeps ==
  ASSUME Inv, NEW t \in Threads, WriteCount(t)
  PROVE  Inv'
  <1>0. PICK c : c = [call[t] EXCEPT !.count = call[t].total]
    OBVIOUS
  <1>1. /\ call[t] \in Call /\ call[t].at = "count" /\ Unwritten(call[t]) /\ Listed(call[t])
        /\ call[t].handles \subseteq used /\ call[t].owner \in used \cup {Root}
    BY DEF WriteCount, Inv, TypeOK, Calls, Steady
  <1>2. UNCHANGED <<parent, used, lock, told>> /\ told \subseteq used
    BY DEF WriteCount, Inv, TypeOK
  <1>3. /\ c \in Call /\ c.count = c.total /\ c.written = 0 /\ c.handles = call[t].handles
        /\ c.owner = call[t].owner /\ Listed(c)
    BY <1>0, <1>1 DEF Call, Unwritten, Listed
  <1>4. Pending(t) = c.handles
    BY <1>1, <1>3 DEF Pending
  <1>5. \A o \in c.handles : Kind[o] \notin {"command_pool", "command_buffer"}
    BY <1>1, <1>3 DEF Listed
  <1>6. CASE WantsValues(c)
    <2>0. PICK d : d = [c EXCEPT !.at = "values"]
      OBVIOUS
    <2>1. Become(t, d)
      BY <1>0, <1>6, <2>0 DEF WriteCount
    <2>2. /\ d \in Call /\ d.at = "values" /\ d.count = d.total /\ d.written = 0
          /\ d.handles = c.handles /\ d.owner = c.owner /\ Listed(d) /\ WantsValues(d)
      BY <1>3, <1>6, <2>0 DEF Call, Listed, WantsValues
    <2>3. Steady(d) /\ Told(d)'
      BY <2>2 DEF Steady, Told
    <2> QED BY <1>1, <1>2, <1>3, <1>4, <1>5, <2>1, <2>2, <2>3, LocalStep
  <1>7. CASE ~WantsValues(c)
    <2>0. PICK d : d = [c EXCEPT !.at = "done", !.result = ListResult(c.capacity, c)]
      OBVIOUS
    <2>1. Become(t, d)
      BY <1>0, <1>7, <2>0 DEF WriteCount, Answer
    <2>2. /\ d \in Call /\ d.at = "done" /\ d.count = d.total /\ d.written = 0
          /\ d.handles = c.handles /\ d.owner = c.owner /\ Listed(d) /\ ~WantsValues(d)
          /\ d.result = ListResult(d.capacity, d)
      BY <1>3, <1>7, <2>0 DEF Call, Listed, WantsValues, ListResult, Results
    <2>3. Answered(d)
      BY <2>2, CallsTyped DEF Answered, WantsValues, ListResult, Least
    <2>4. d.handles = {} \/ (d.capacity > 0 /\ ~d.buffer)
      <3>1. CASE d.capacity = 0 \/ d.total = 0
        <4>1. d.handles = {} \/ Cardinality(d.handles) = 0
          BY <2>2, <3>1, CallsTyped DEF Listed
        <4>2. IsFiniteSet(d.handles)
          BY <2>2, CallsTyped, ObjectsAssumption, FS_Subset
        <4> QED BY <4>1, <4>2, FS_EmptySet
      <3>2. CASE d.capacity # 0 /\ d.total # 0
        BY <2>2, <3>2, CallsTyped DEF WantsValues
      <3> QED BY <3>1, <3>2
    <2>5. Steady(d) /\ Told(d)'
      BY <2>2, <2>3, <2>4 DEF Steady, Told
    <2> QED BY <1>1, <1>2, <1>3, <1>4, <1>5, <2>1, <2>2, <2>5, LocalStep
  <1> QED BY <1>6, <1>7

LEMMA WriteValuesKeeps ==
  ASSUME Inv, NEW t \in Threads, WriteValues(t)
  PROVE  Inv'
  <1>a. PICK c : c = [call[t] EXCEPT !.written = Room(call[t])]
    OBVIOUS
  <1>b. PICK d : d = [c EXCEPT !.at = "done", !.result = ListResult(c.written, c)]
    OBVIOUS
  <1>1. /\ call[t] \in Call /\ call[t].at = "values" /\ Listed(call[t])
        /\ WantsValues(call[t]) /\ call[t].count = call[t].total
        /\ call[t].handles \subseteq used /\ call[t].owner \in used \cup {Root}
    BY DEF WriteValues, Inv, TypeOK, Calls, Steady
  <1>2. /\ UNCHANGED <<parent, used, lock>> /\ told' = told \cup call[t].handles
        /\ told \subseteq used /\ Become(t, d)
    BY <1>a, <1>b DEF WriteValues, Answer, Inv, TypeOK
  <1>3. /\ d \in Call /\ d.at = "done" /\ d.count = d.total /\ d.buffer = call[t].buffer
        /\ d.written = Least(d.capacity, d.total) /\ d.handles = call[t].handles
        /\ d.owner = call[t].owner /\ d.result = ListResult(d.written, d) /\ WantsValues(d)
    BY <1>a, <1>b, <1>1 DEF Call, ListResult, Results, Room, Least, WantsValues
  <1>4. Answered(d)
    BY <1>3, CallsTyped DEF Answered, WantsValues, ListResult, Least
  <1>5. Steady(d) /\ Told(d)'
    BY <1>2, <1>3, <1>4 DEF Steady, Told
  <1>6. \A o \in Pending(t) : o \in told'
    BY <1>1, <1>2 DEF Pending
  <1> QED BY <1>1, <1>2, <1>3, <1>5, <1>6, LocalStep

LEMMA WriteListFailsKeeps ==
  ASSUME Inv, NEW t \in Threads, WriteListFails(t)
  PROVE  Inv'
  <1>0. PICK d : d = [call[t] EXCEPT !.at = "done", !.result = "guest_memory"]
    OBVIOUS
  <1>1. /\ call[t] \in Call /\ call[t].at \in {"count", "values"} /\ Listed(call[t])
        /\ call[t].written = 0
        /\ call[t].handles \subseteq used /\ call[t].owner \in used \cup {Root}
    BY DEF WriteListFails, Inv, TypeOK, Calls, Steady, Unwritten
  <1>2. UNCHANGED <<parent, used, lock, told>> /\ told \subseteq used /\ Become(t, d)
    BY <1>0 DEF WriteListFails, Answer, Inv, TypeOK
  <1>3. /\ d \in Call /\ d.at = "done" /\ d.result = "guest_memory" /\ d.written = 0
        /\ d.handles = call[t].handles /\ d.owner = call[t].owner
    BY <1>0, <1>1 DEF Call, Results
  <1>4. Steady(d) /\ Told(d)'
    BY <1>3 DEF Steady, Told, Answered
  <1>5. \A o \in Pending(t) : Kind[o] \notin {"command_pool", "command_buffer"}
    BY <1>1 DEF Pending, Listed
  <1> QED BY <1>1, <1>2, <1>3, <1>4, <1>5, LocalStep

-----------------------------------------------------------------------------
(* Steps on the registry *)

\* A step of the only thread that may be in the lock.
LEMMA LockedStep ==
  ASSUME Inv, NEW t \in Threads, NEW c \in Call, Become(t, c),
         lock \in {NoThread, t}, lock' \in {NoThread, t},
         used \subseteq used', used' \subseteq Objects, Existing' \subseteq used', Forest',
         \A o \in Existing' : parent'[o] \in used' \cup {Root},
         told \subseteq told', told' \subseteq used',
         Steady(c), Told(c)', c.handles \subseteq used', c.owner \in used' \cup {Root},
         c.at = "handle" => lock' = t /\ Fresh(c.handles)',
         \A o \in Existing' :
           \/ Kind[o] \notin {"command_pool", "command_buffer"} \/ o \in told'
           \/ c.at # "done" /\ o \in c.handles
           \/ o \in Existing /\ o \notin Pending(t)
  PROVE  Inv'
  <1>1. /\ call' \in [Threads -> Call] /\ call'[t] = c
        /\ \A s \in Threads : s # t => call'[s] = call[s]
    BY Becomes DEF Inv
  <1>2. TypeOK'
    <2>1. \A s \in Threads : /\ call'[s].handles \subseteq used'
                             /\ call'[s].owner \in used' \cup {Root}
      BY <1>1 DEF Inv, TypeOK
    <2> QED BY <1>1, <2>1 DEF TypeOK
  <1>3. Calls'
    <2>1. ASSUME NEW s \in Threads, s # t
          PROVE  Steady(call'[s]) /\ Told(call[s])' /\ call'[s].at # "handle"
      <3>1. call[s].at # "handle"
        BY <2>1, NoThreadAssumption DEF Inv, Calls
      <3> QED BY <1>1, <2>1, <3>1 DEF Inv, Calls, Told
    <2>2. /\ Steady(call'[t]) /\ Told(call[t])'
          /\ call'[t].at = "handle" => lock' = t /\ Fresh(call[t].handles)'
      BY <1>1 DEF Told, Fresh
    <2> QED BY <2>1, <2>2 DEF Calls
  <1>4. RollbackComplete'
    <2> SUFFICES ASSUME NEW o \in Existing', Kind[o] \in {"command_pool", "command_buffer"},
                        o \notin told'
                 PROVE  \E s \in Threads : o \in Pending(s)'
      BY DEF RollbackComplete
    <2>1. CASE c.at # "done" /\ o \in c.handles
      BY <1>1, <2>1 DEF Pending
    <2>2. CASE o \in Existing /\ o \notin Pending(t)
      <3>1. PICK s \in Threads : o \in Pending(s)
        BY <2>2 DEF Inv, RollbackComplete
      <3> QED BY <1>1, <2>2, <3>1 DEF Pending
    <2> QED BY <2>1, <2>2
  <1> QED BY <1>2, <1>3, <1>4 DEF Inv

\* What registering fresh handles below a parent does to the registry.
LEMMA Registered ==
  ASSUME Inv, NEW new \in SUBSET (Objects \ used), NEW p \in used \cup {Root},
         Register(new, p)
  PROVE  /\ Existing' = Existing \cup new /\ used' = used \cup new /\ used' \subseteq Objects
         /\ Existing' \subseteq used' /\ Forest'
         /\ \A o \in Existing' : parent'[o] = IF o \in new THEN p ELSE parent[o]
         /\ \A o \in Existing' : parent'[o] \in used' \cup {Root}
         /\ Fresh(new)'
  <1>1. /\ parent' = [o \in Existing \cup new |-> IF o \in new THEN p ELSE parent[o]]
        /\ used' = used \cup new
    BY DEF Register
  <1>2. /\ Existing \subseteq used /\ used \subseteq Objects
        /\ \A o \in Existing : parent[o] \in used \cup {Root}
    BY DEF Inv, TypeOK
  <1>3. Existing' = Existing \cup new
    BY <1>1 DEF Existing
  <1>4. \A o \in Existing' : parent'[o] = IF o \in new THEN p ELSE parent[o]
    BY <1>1, <1>3
  <1>5. Forest'
    BY <1>1, <1>3, <1>4 DEF Forest
  <1>6. \A o \in Existing' : parent'[o] \in used \cup {Root}
    BY <1>2, <1>3, <1>4
  <1>7. Fresh(new)'
    <2>1. \A o \in Existing' : parent'[o] \notin new
      BY <1>6, RootAssumption
    <2> QED BY <1>3, <1>4, <2>1 DEF Fresh
  <1> QED BY <1>1, <1>2, <1>3, <1>4, <1>5, <1>6, <1>7

\* What erasing handles does to it.
LEMMA Erased ==
  ASSUME Inv, NEW gone, Erase(gone)
  PROVE  /\ Existing' = Existing \ gone /\ Forest'
         /\ \A o \in Existing' : parent'[o] = parent[o]
  <1>1. parent' = [o \in Existing \ gone |-> parent[o]]
    BY DEF Erase
  <1>2. Existing' = Existing \ gone
    BY <1>1 DEF Existing
  <1> QED BY <1>1, <1>2 DEF Forest

LEMMA CreateStep ==
  ASSUME Inv, NEW t \in Threads, NEW new \in SUBSET (Objects \ used),
         NEW p \in Existing \cup {Root}, Create(t, new, p)
  PROVE  Inv'
  <1>1. PICK c : c = [Idle EXCEPT !.at = "handle", !.handles = new]
    OBVIOUS
  <1>2. /\ lock = NoThread /\ lock' = t /\ call[t].at = "idle" /\ UNCHANGED told
        /\ Register(new, p) /\ Become(t, c)
    BY <1>1 DEF Create, Enter
  <1>3. c \in Call /\ c.at = "handle" /\ Unwritten(c) /\ c.handles = new /\ c.owner = Root
    BY <1>1 DEF Idle, Call, Results, Unwritten
  <1>4. p \in used \cup {Root} /\ told \subseteq used
    BY DEF Inv, TypeOK
  <1>5. Steady(c) /\ Told(c)'
    BY <1>3 DEF Steady, Told
  <1>6. /\ Existing' = Existing \cup new /\ used' = used \cup new /\ used' \subseteq Objects
        /\ Existing' \subseteq used' /\ Forest' /\ Fresh(new)'
        /\ \A o \in Existing' : parent'[o] \in used' \cup {Root}
    BY <1>2, <1>4, Registered
  <1>7. Pending(t) = {}
    BY <1>2 DEF Inv, Calls, Steady, Pending
  <1> QED BY <1>2, <1>3, <1>4, <1>5, <1>6, <1>7, LockedStep

LEMMA CreatesKeep ==
  ASSUME Inv, NEW t \in Threads,
         CreateInstance(t) \/ CreateChild(t) \/ AllocateCommandBuffers(t)
  PROVE  Inv'
  <1>1. \A k : Unused(k) \subseteq Objects \ used /\ Of(k) \subseteq Existing
    BY DEF Unused, Of
  <1>2. CASE CreateInstance(t)
    BY <1>1, <1>2, CreateStep DEF CreateInstance
  <1>3. CASE CreateChild(t)
    BY <1>1, <1>3, CreateStep DEF CreateChild
  <1>4. CASE AllocateCommandBuffers(t)
    BY <1>1, <1>4, CreateStep DEF AllocateCommandBuffers
  <1> QED BY <1>2, <1>3, <1>4

LEMMA InsertKeeps ==
  ASSUME Inv, NEW t \in Threads, InsertPhysicalDevices(t)
  PROVE  Inv'
  <1>1. PICK new \in SUBSET Unused("physical_device") :
          /\ Cardinality(new) = Least(call[t].capacity, call[t].found)
          /\ Register(new, call[t].owner)
          /\ Become(t, [call[t] EXCEPT !.at = "count", !.handles = new,
                                       !.total = Cardinality(new)])
    BY DEF InsertPhysicalDevices
  <1>2. PICK c : c = [call[t] EXCEPT !.at = "count", !.handles = new,
                                     !.total = Cardinality(new)]
    OBVIOUS
  <1>3. /\ call[t] \in Call /\ call[t].owner \in used \cup {Root} /\ lock = NoThread
        /\ call[t].at = "insert" /\ Unwritten(call[t]) /\ call[t].handles = {}
        /\ UNCHANGED <<lock, told>> /\ told \subseteq used
    BY DEF InsertPhysicalDevices, Inv, TypeOK, Calls, Steady
  <1>4. new \subseteq Objects \ used /\ \A o \in new : Kind[o] = "physical_device"
    BY DEF Unused
  <1>5. Cardinality(new) \in Nat /\ Cardinality(new) =< call[t].capacity
    BY <1>1, <1>3, CallsTyped DEF Least
  <1>6. /\ c \in Call /\ c.at = "count" /\ Unwritten(c) /\ c.handles = new
        /\ c.owner = call[t].owner /\ Listed(c)
    BY <1>2, <1>3, <1>4, <1>5 DEF Call, Unwritten, Listed
  <1>7. /\ Existing' = Existing \cup new /\ used' = used \cup new /\ used' \subseteq Objects
        /\ Existing' \subseteq used' /\ Forest'
        /\ \A o \in Existing' : parent'[o] \in used' \cup {Root}
    BY <1>1, <1>3, <1>4, Registered
  <1>8. Steady(c) /\ Told(c)'
    BY <1>6 DEF Steady, Told
  <1>9. Pending(t) = {}
    BY <1>3 DEF Pending
  <1>10. Become(t, c)
    BY <1>1, <1>2
  <1> QED BY <1>3, <1>6, <1>7, <1>8, <1>9, <1>10, LockedStep

LEMMA WriteHandlesKeeps ==
  ASSUME Inv, NEW t \in Threads, WriteHandles(t)
  PROVE  Inv'
  <1>1. PICK c : c = [call[t] EXCEPT !.at = "done", !.result = "success"]
    OBVIOUS
  <1>2. /\ call[t] \in Call /\ call[t].at = "handle" /\ Unwritten(call[t]) /\ lock = t
        /\ call[t].handles \subseteq used /\ call[t].owner \in used \cup {Root}
        /\ Existing \subseteq used /\ used \subseteq Objects /\ told \subseteq used /\ Forest
        /\ \A o \in Existing : parent[o] \in used \cup {Root}
    BY DEF WriteHandles, Inv, TypeOK, Calls, Steady
  <1>3. /\ UNCHANGED <<parent, used>> /\ told' = told \cup call[t].handles /\ lock' = NoThread
        /\ Become(t, c)
    BY <1>1 DEF WriteHandles, Answer
  <1>4. /\ c \in Call /\ c.at = "done" /\ c.handles = call[t].handles
        /\ c.owner = call[t].owner /\ Unwritten(c)
    BY <1>1, <1>2 DEF Call, Results, Unwritten
  <1>5. Steady(c) /\ Told(c)'
    BY <1>3, <1>4 DEF Steady, Told, Answered, Unwritten
  <1>6. Existing' = Existing /\ Forest' /\ \A o \in Pending(t) : o \in told'
    BY <1>2, <1>3 DEF Existing, Forest, Pending
  <1> QED BY <1>2, <1>3, <1>4, <1>5, <1>6, LockedStep

LEMMA WriteHandlesFailsKeeps ==
  ASSUME Inv, NEW t \in Threads, WriteHandlesFails(t)
  PROVE  Inv'
  <1>1. PICK c : c = [call[t] EXCEPT !.at = "done", !.result = "guest_memory"]
    OBVIOUS
  <1>2. /\ call[t] \in Call /\ call[t].at = "handle" /\ Unwritten(call[t]) /\ lock = t
        /\ call[t].handles \subseteq used /\ call[t].owner \in used \cup {Root}
        /\ Existing \subseteq used /\ used \subseteq Objects /\ told \subseteq used
        /\ \A o \in Existing : parent[o] \in used \cup {Root}
    BY DEF WriteHandlesFails, Inv, TypeOK, Calls, Steady
  <1>3. /\ UNCHANGED <<used, told>> /\ lock' = NoThread /\ Become(t, c)
        /\ Erase(TakenBack(call[t].handles))
    BY <1>1 DEF WriteHandlesFails, Answer
  <1>4. /\ c \in Call /\ c.at = "done" /\ c.handles = call[t].handles
        /\ c.owner = call[t].owner /\ Unwritten(c) /\ c.result = "guest_memory"
    BY <1>1, <1>2 DEF Call, Results, Unwritten
  <1>5. Steady(c) /\ Told(c)'
    BY <1>4 DEF Steady, Told, Answered, Unwritten
  <1>6. /\ Existing' = Existing \ TakenBack(call[t].handles) /\ Forest'
        /\ \A o \in Existing' : parent'[o] = parent[o]
    BY <1>3, Erased
  <1>7. \A o \in Existing' : Kind[o] \in {"command_pool", "command_buffer"}
                             => o \notin Pending(t)
    BY <1>2, <1>6 DEF Pending, TakenBack
  <1> QED BY <1>2, <1>3, <1>4, <1>5, <1>6, <1>7, LockedStep

LEMMA DestroyKeeps ==
  ASSUME Inv, NEW t \in Threads, Destroy(t)
  PROVE  Inv'
  <1>1. PICK gone \in SUBSET Existing : Erase(gone)
    BY DEF Destroy
  <1>2. PICK c : c = call[t]
    OBVIOUS
  <1>3. /\ c \in Call /\ c.at = "idle" /\ c.handles = {} /\ Steady(c) /\ Told(c)
        /\ lock = NoThread /\ UNCHANGED <<used, lock, told, call>>
        /\ call \in [Threads -> Call] /\ c.owner \in used \cup {Root}
        /\ Existing \subseteq used /\ used \subseteq Objects /\ told \subseteq used
        /\ \A o \in Existing : parent[o] \in used \cup {Root}
    BY <1>2 DEF Destroy, Enter, Inv, TypeOK, Calls, Steady
  <1>4. Become(t, c) /\ Told(c)' /\ Pending(t) = {}
    BY <1>2, <1>3 DEF Become, Told, Pending
  <1>5. /\ Existing' = Existing \ gone /\ Forest'
        /\ \A o \in Existing' : parent'[o] = parent[o]
    BY <1>1, Erased
  <1> QED BY <1>3, <1>4, <1>5, LockedStep

LEMMA NextInv == Inv /\ [Next]_vars => Inv'
  <1> SUFFICES ASSUME Inv, [Next]_vars PROVE Inv'
    OBVIOUS
  <1>1. CASE UNCHANGED vars
    <2>1. UNCHANGED <<parent, used, lock, told, call>>
      BY <1>1 DEF vars
    <2> QED BY <2>1 DEF Inv, TypeOK, Forest, Calls, RollbackComplete, Existing, Told, Fresh,
                       Pending
  <1>2. CASE Next
    <2>1. PICK t \in Threads :
            \/ CreateInstance(t) \/ CreateChild(t) \/ AllocateCommandBuffers(t)
            \/ WriteHandles(t) \/ WriteHandlesFails(t)
            \/ (call[t].at = "idle" /\ List(t))
            \/ EnumeratePhysicalDevices(t) \/ InsertPhysicalDevices(t)
            \/ WriteCount(t) \/ WriteValues(t) \/ WriteListFails(t)
            \/ Destroy(t) \/ Return(t)
      BY <1>2 DEF Next, Enter, EnumerateInstanceExtensionProperties,
                  EnumerateInstanceLayerProperties, EnumerateDeviceExtensionProperties,
                  GetPhysicalDeviceQueueFamilyProperties
    <2> QED BY <2>1, CreatesKeep, WriteHandlesKeeps, WriteHandlesFailsKeeps, ListKeeps,
               EnumerateKeeps, InsertKeeps, WriteCountKeeps, WriteValuesKeeps,
               WriteListFailsKeeps, DestroyKeeps, ReturnKeeps
  <1> QED BY <1>1, <1>2

LEMMA InitInv == Init => Inv
  <1> SUFFICES ASSUME Init PROVE Inv
    OBVIOUS
  <1>1. /\ Existing = {} /\ parent = [o \in {} |-> Root] /\ used = {} /\ told = {}
        /\ lock = NoThread
    BY DEF Init, Existing
  <1>2. call \in [Threads -> Call] /\ \A t \in Threads : call[t] = Idle
    BY IdleTyped DEF Init
  <1>3. TypeOK
    BY <1>1, <1>2, IdleTyped DEF TypeOK
  <1>4. Calls
    BY <1>2, IdleTyped DEF Calls, Steady, Told
  <1>5. Forest
    BY <1>1 DEF Forest
  <1> QED BY <1>1, <1>3, <1>4, <1>5 DEF Inv, RollbackComplete

LEMMA InvHolds == Spec => []Inv
  BY InitInv, NextInv, PTL DEF Spec

-----------------------------------------------------------------------------
(* The theorems *)

\* The variables have their types, and no handle is registered, held or told before it
\* was issued, for any number of guest threads.
THEOREM TypeCorrectness == Spec => []TypeOK
  <1>1. Inv => TypeOK
    BY DEF Inv
  <1> QED BY <1>1, InvHolds, PTL

\* A command pool or buffer whose handle could not be written never stays registered.
THEOREM RollbacksAreComplete == Spec => []RollbackComplete
  <1>1. Inv => RollbackComplete
    BY DEF Inv
  <1> QED BY <1>1, InvHolds, PTL

\* The answer of every call agrees with what it wrote to guest memory, for lists and
\* capacities of any length.
THEOREM AnswersAreTrue == Spec => []AnswersAgree
  <1>1. ASSUME Inv, NEW t \in Threads, call[t].at = "done"
        PROVE  Answered(call[t]) /\ Told(call[t])
    BY <1>1 DEF Inv, Calls, Steady
  <1>2. Inv => AnswersAgree
    BY <1>1 DEF AnswersAgree, Answered, Told
  <1> QED BY <1>2, InvHolds, PTL

\* Only the handle of a physical device can reach the guest after its object is gone.
THEOREM ToldHandlesAreRegistered == Spec => ToldIsRegistered
  <1> DEFINE TellsRegistered ==
        \A o \in Tells : o \in Existing' \/ Kind[o] = "physical_device"
  <1>1. Inv /\ [Next]_vars => [TellsRegistered]_vars
    <2> SUFFICES ASSUME Inv, Next PROVE TellsRegistered
      BY DEF Tells
    <2>1. ASSUME NEW t \in Threads, WriteHandles(t) PROVE TellsRegistered
      <3>1. call[t].at = "handle" /\ UNCHANGED parent /\ told' = told \cup call[t].handles
        BY <2>1 DEF WriteHandles
      <3>2. call[t].handles \subseteq Existing
        BY <3>1 DEF Inv, Calls, Fresh
      <3> QED BY <3>1, <3>2 DEF Tells, Existing
    <2>2. ASSUME NEW t \in Threads, WriteValues(t) PROVE TellsRegistered
      <3>1. call[t].at = "values" /\ told' = told \cup call[t].handles
        BY <2>2 DEF WriteValues
      <3>2. \A o \in call[t].handles : Kind[o] = "physical_device"
        BY <3>1 DEF Inv, Calls, Steady, Listed
      <3> QED BY <3>1, <3>2 DEF Tells
    <2>3. (\E t \in Threads : WriteHandles(t) \/ WriteValues(t)) \/ UNCHANGED told
      BY DEF Next, CreateInstance, CreateChild, AllocateCommandBuffers, Create,
             WriteHandlesFails, List, EnumerateInstanceExtensionProperties,
             EnumerateInstanceLayerProperties, EnumerateDeviceExtensionProperties,
             GetPhysicalDeviceQueueFamilyProperties, EnumeratePhysicalDevices,
             InsertPhysicalDevices, WriteCount, WriteListFails, Destroy, Return
    <2> QED BY <2>1, <2>2, <2>3 DEF Tells
  <1>2. [][TellsRegistered]_vars => ToldIsRegistered
    BY PTL DEF ToldIsRegistered
  <1> QED BY <1>1, <1>2, InvHolds, PTL DEF Spec

-----------------------------------------------------------------------------
(* The registry is a forest of lifetimes. *)

LEMMA RegisterAdds ==
  ASSUME Inv, NEW new \in SUBSET (Objects \ used), NEW p \in used \cup {Root},
         Register(new, p),
         p \in Existing \cup {Root} \/ \A o \in new : Kind[o] = "physical_device"
  PROVE  Lifetimes!Add
  <1>1. Existing' = Existing \cup new /\ used' = used \cup new
        /\ parent' = [o \in Existing \cup new |-> IF o \in new THEN p ELSE parent[o]]
        /\ Existing \subseteq used
    BY Registered DEF Register, Inv, TypeOK
  <1>2. DOMAIN parent' \ DOMAIN parent = new
    BY <1>1 DEF Existing
  <1>3. parent' = [o \in Existing \cup new |-> IF o \in new THEN parent'[o] ELSE parent[o]]
    BY <1>1
  <1>4. \A o \in new : parent'[o] = p
    BY <1>1
  <1> QED BY <1>1, <1>2, <1>3, <1>4 DEF Lifetimes!Add, Lifetimes!Existing, Existing

LEMMA EraseRemoves ==
  ASSUME Inv, NEW gone \in SUBSET Existing, Erase(gone), UNCHANGED used,
         \A o \in Existing : parent[o] \in gone => o \in gone,
         \A o, q \in gone : parent[o] \notin gone /\ parent[q] \notin gone
                            => parent[o] = parent[q]
  PROVE  [Lifetimes!Next]_<<parent, used>>
  <1>1. Existing' = Existing \ gone /\ parent' = [o \in Existing \ gone |-> parent[o]]
    BY Erased DEF Erase
  <1>2. CASE gone = {}
    BY <1>1, <1>2 DEF Inv, Forest
  <1>3. CASE gone # {}
    <2>1. DOMAIN parent \ DOMAIN parent' = gone
      BY <1>1 DEF Existing
    <2> QED BY <1>1, <1>3, <2>1 DEF Lifetimes!Next, Lifetimes!Remove, Lifetimes!Existing,
                                    Existing
  <1> QED BY <1>2, <1>3

LEMMA StepLifetimes == Inv /\ [Next]_vars => [Lifetimes!Next]_<<parent, used>>
  <1> SUFFICES ASSUME Inv, Next PROVE [Lifetimes!Next]_<<parent, used>>
    BY DEF vars
  <1>1. \A k : Unused(k) \subseteq Objects \ used /\ Of(k) \subseteq Existing
    BY DEF Unused, Of
  <1>2. Existing \subseteq used
    BY DEF Inv, TypeOK
  <1>3. ASSUME NEW t \in Threads, NEW new \in SUBSET (Objects \ used),
               NEW p \in Existing \cup {Root}, Create(t, new, p)
        PROVE  Lifetimes!Add
    BY <1>2, <1>3, RegisterAdds DEF Create
  <1>4. ASSUME NEW t \in Threads,
               CreateInstance(t) \/ CreateChild(t) \/ AllocateCommandBuffers(t)
        PROVE  Lifetimes!Add
    BY <1>1, <1>3, <1>4 DEF CreateInstance, CreateChild, AllocateCommandBuffers
  <1>5. ASSUME NEW t \in Threads, InsertPhysicalDevices(t)
        PROVE  Lifetimes!Add
    <2>1. PICK new \in SUBSET Unused("physical_device") : Register(new, call[t].owner)
      BY <1>5 DEF InsertPhysicalDevices
    <2>2. call[t].owner \in used \cup {Root}
      BY DEF Inv, TypeOK
    <2>3. \A o \in new : Kind[o] = "physical_device"
      BY DEF Unused
    <2> QED BY <1>1, <2>1, <2>2, <2>3, RegisterAdds
  <1>6. ASSUME NEW t \in Threads, WriteHandlesFails(t)
        PROVE  [Lifetimes!Next]_<<parent, used>>
    <2> DEFINE gone == TakenBack(call[t].handles)
    <2>1. Erase(gone) /\ UNCHANGED used /\ call[t].at = "handle"
      BY <1>6 DEF WriteHandlesFails
    <2>2. Fresh(call[t].handles) /\ gone \subseteq call[t].handles
      BY <2>1 DEF Inv, Calls, TakenBack
    <2> HIDE DEF gone
    <2> QED BY <2>1, <2>2, EraseRemoves DEF Fresh
  <1>7. ASSUME NEW t \in Threads, Destroy(t)
        PROVE  [Lifetimes!Next]_<<parent, used>>
    <2>1. PICK gone \in SUBSET Existing :
            /\ \A o, q \in {r \in gone : parent[r] \notin gone} :
                 o = q \/ (parent[o] = parent[q] /\ Kind[o] = "command_buffer")
            /\ Closed(gone) /\ Erase(gone)
      BY <1>7 DEF Destroy
    <2>2. UNCHANGED used
      BY <1>7 DEF Destroy
    <2> QED BY <2>1, <2>2, EraseRemoves DEF Closed
  <1>8. \/ \E t \in Threads : \/ CreateInstance(t) \/ CreateChild(t)
                              \/ AllocateCommandBuffers(t) \/ InsertPhysicalDevices(t)
                              \/ WriteHandlesFails(t) \/ Destroy(t)
        \/ UNCHANGED <<parent, used>>
    BY DEF Next, WriteHandles, List, EnumerateInstanceExtensionProperties,
           EnumerateInstanceLayerProperties, EnumerateDeviceExtensionProperties,
           GetPhysicalDeviceQueueFamilyProperties, EnumeratePhysicalDevices,
           WriteCount, WriteValues, WriteListFails, Return
  <1> QED BY <1>4, <1>5, <1>6, <1>7, <1>8 DEF Lifetimes!Next

\* The registry implements ObjectLifetimes, for any number of threads and handles:
\* objects are added below objects that exist, or for a physical device existed, and go
\* with everything below them.
THEOREM RegistryImplementsLifetimes == Spec => ImplementsLifetimes
  <1>1. Init => Lifetimes!Init
    BY DEF Init, Lifetimes!Init
  <1>2. Inv /\ [Next]_vars => [Lifetimes!Next]_Lifetimes!vars
    BY StepLifetimes DEF Lifetimes!vars
  <1> QED BY <1>1, <1>2, InvHolds, PTL DEF Spec, ImplementsLifetimes, Lifetimes!Spec
================================================================================
