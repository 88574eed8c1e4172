----------------------------- MODULE GuestResults -----------------------------
(***************************************************************************)
(* How results reach the guest: the entry points of vulkan/api.cc that     *)
(* register objects and write their handles to guest memory, and those     *)
(* that write a list (WriteGuestBuffer), called by several guest threads.  *)
(* Any write fails when the guest names memory it does not have.  A create *)
(* writes its handle under the context mutex.  A list is written without   *)
(* it, count first, values next; while they are written other threads may  *)
(* destroy what the handles in the list name.                              *)
(*                                                                         *)
(* The registry is the forest of ObjectLifetimes.  A handle is an object's *)
(* name, given to one object only (VulkanObjects has the tables and the    *)
(* driver).  Calls that write one plain value are left out: they change    *)
(* nothing else.                                                           *)
(*                                                                         *)
(* "Mutant of D" marks a broken variant of definition D.  No specification *)
(* uses it: it stands for a plausible bug in the code, put in place of D   *)
(* to see that a property notices.                                         *)
(***************************************************************************)
EXTENDS Integers, FiniteSets

CONSTANTS
  Threads,   \* guest threads
  NoThread,  \* the owner of the context mutex when it is free
  Objects,   \* handles that can be given out
  Kind,      \* handle -> the kind of object it names
  Root,      \* the parent of an instance
  MaxFound   \* bound: the longest list the driver returns, the largest capacity

\* "leaf" stands for the six kinds of object of a device that have no children.
Kinds == {"instance", "physical_device", "device", "queue", "leaf",
          "command_pool", "command_buffer"}

ASSUME NoThreadAssumption == NoThread \notin Threads
ASSUME RootAssumption == Root \notin Objects
ASSUME ObjectsAssumption == IsFiniteSet(Objects)
ASSUME KindAssumption == Kind \in [Objects -> Kinds]
ASSUME MaxFoundAssumption == MaxFound \in Nat

VARIABLES
  parent,  \* registered handle -> its parent
  used,    \* every handle issued
  lock,    \* the thread that keeps the context mutex across steps
  told,    \* handles the guest has found in its memory
  call     \* thread -> the call it is in, its locals and its answer

vars == <<parent, used, lock, told, call>>

Results == {"none", "success", "incomplete", "guest_memory"}
NotTold == -1

\* found is the length of the driver's list, total that of the list to write,
\* buffer whether the guest gave an address for it; count and written are what
\* has arrived in guest memory.
Call == [at : {"idle", "handle", "insert", "count", "values", "done"},
         owner : Objects \cup {Root}, handles : SUBSET Objects,
         found : Nat, total : Nat, capacity : Nat, buffer : BOOLEAN,
         result : Results, count : Nat \cup {NotTold}, written : Nat]
Idle == [at |-> "idle", owner |-> Root, handles |-> {}, found |-> 0, total |-> 0,
         capacity |-> 0, buffer |-> FALSE, result |-> "none", count |-> NotTold,
         written |-> 0]

-----------------------------------------------------------------------------
(* The registry *)

Existing == DOMAIN parent
Of(k) == {o \in Existing : Kind[o] = k}

Unused(k) == {o \in Objects \ used : Kind[o] = k}

\* Mutant of Register: the counter is not advanced.
RegisterNext(new, p) ==
  /\ parent' = [o \in Existing \cup new |-> IF o \in new THEN p ELSE parent[o]]
  /\ UNCHANGED used
Register(new, p) ==
  /\ parent' = [o \in Existing \cup new |-> IF o \in new THEN p ELSE parent[o]]
  /\ used' = used \cup new
Erase(gone) == parent' = [o \in Existing \ gone |-> parent[o]]

-----------------------------------------------------------------------------
(* Calls *)

Become(t, c) == call' = [call EXCEPT ![t] = c]
Enter(t) == lock = NoThread /\ call[t].at = "idle"
Answer(t, c, result) == Become(t, [c EXCEPT !.at = "done", !.result = result])

\* The guest looks at the answer and goes on.
Return(t) ==
  /\ call[t].at = "done"
  /\ Become(t, Idle)
  /\ UNCHANGED <<parent, used, lock, told>>

-----------------------------------------------------------------------------
(* Creates: registered, then written back under the same lock. *)

\* The kinds that are created one at a time, and that of their parent.
ParentKind == [device |-> "physical_device", queue |-> "device", leaf |-> "device",
               command_pool |-> "device"]

\* Mutant of Create: the lock is dropped before the handle is written.
CreateUnlocked(t, new, p) ==
  /\ Enter(t)
  /\ Register(new, p)
  /\ Become(t, [Idle EXCEPT !.at = "handle", !.handles = new])
  /\ UNCHANGED <<lock, told>>

Create(t, new, p) ==
  /\ Enter(t)
  /\ Register(new, p)
  /\ lock' = t
  /\ Become(t, [Idle EXCEPT !.at = "handle", !.handles = new])
  /\ UNCHANGED told

CreateInstance(t) == \E o \in Unused("instance") : Create(t, {o}, Root)

CreateChild(t) ==
  \E k \in DOMAIN ParentKind : \E o \in Unused(k), p \in Of(ParentKind[k]) :
    Create(t, {o}, p)

AllocateCommandBuffers(t) ==
  \E new \in SUBSET Unused("command_buffer") \ {{}}, p \in Of("command_pool") :
    Create(t, new, p)

\* The handles that are taken back when they cannot be written; any other
\* object stays registered under a handle nobody was told.
\* Mutant of TakenBack: command buffers stay as well.
TakenBackPools(handles) == {o \in handles : Kind[o] = "command_pool"}
TakenBack(handles) == {o \in handles : Kind[o] \in {"command_pool", "command_buffer"}}

WriteHandles(t) ==
  /\ call[t].at = "handle"
  /\ told' = told \cup call[t].handles
  /\ lock' = NoThread
  /\ Answer(t, call[t], "success")
  /\ UNCHANGED <<parent, used>>

WriteHandlesFails(t) ==
  /\ call[t].at = "handle"
  /\ Erase(TakenBack(call[t].handles))
  /\ lock' = NoThread
  /\ Answer(t, call[t], "guest_memory")
  /\ UNCHANGED <<used, told>>

-----------------------------------------------------------------------------
(* Lists: WriteGuestBuffer writes the count, then the values. *)

Least(m, n) == IF m =< n THEN m ELSE n

\* What the guest passes and the driver answers.
Query == [found : 0 .. MaxFound, capacity : 0 .. MaxFound, buffer : BOOLEAN]
Listing(at, q) == [Idle EXCEPT !.at = at, !.found = q.found, !.capacity = q.capacity,
                               !.buffer = q.buffer]

\* Bound: one list of plain values at a time, since they share nothing.
NoOtherList ==
  \A t \in Threads : call[t].at \in {"idle", "handle", "insert"} \/ call[t].handles # {}

\* The driver's list is written as it is.
List(t) ==
  /\ NoOtherList
  /\ \E q \in Query : Become(t, [Listing("count", q) EXCEPT !.total = q.found])
  /\ UNCHANGED <<parent, used, lock, told>>

EnumerateInstanceExtensionProperties(t) == call[t].at = "idle" /\ List(t)
EnumerateInstanceLayerProperties(t) == call[t].at = "idle" /\ List(t)

\* The driver is asked under the lock, and the list written without it.
EnumerateDeviceExtensionProperties(t) ==
  Enter(t) /\ Of("physical_device") # {} /\ List(t)
GetPhysicalDeviceQueueFamilyProperties(t) ==
  Enter(t) /\ Of("physical_device") # {} /\ List(t)

\* Within the bound Objects: handles enough for this call and those under way.
Spare(n) ==
  n + MaxFound * Cardinality({t \in Threads : call[t].at = "insert"})
    =< Cardinality(Unused("physical_device"))

EnumeratePhysicalDevices(t) ==
  /\ Enter(t)
  /\ \E i \in Of("instance"), q \in Query :
       /\ Spare(Least(q.capacity, q.found))
       /\ Become(t, [Listing("insert", q) EXCEPT !.owner = i])
  /\ UNCHANGED <<parent, used, lock, told>>

\* Locked again: as many handles as the guest has room for make the list to
\* write, under an instance that may be gone.
InsertPhysicalDevices(t) ==
  LET c == call[t] IN
  /\ lock = NoThread /\ c.at = "insert"
  /\ \E new \in SUBSET Unused("physical_device") :
       /\ Cardinality(new) = Least(c.capacity, c.found)
       /\ Register(new, c.owner)
       /\ Become(t, [c EXCEPT !.at = "count", !.handles = new, !.total = Cardinality(new)])
  /\ UNCHANGED <<lock, told>>

\* SUCCESS or INCOMPLETE, for a list of which the guest can take n values.
ListResult(n, c) == IF n < c.total THEN "incomplete" ELSE "success"

WantsValues(c) == c.capacity # 0 /\ c.buffer /\ c.total # 0

WriteCount(t) ==
  LET c == [call[t] EXCEPT !.count = call[t].total] IN
  /\ call[t].at = "count"
  /\ IF WantsValues(c) THEN Become(t, [c EXCEPT !.at = "values"])
                       ELSE Answer(t, c, ListResult(c.capacity, c))
  /\ UNCHANGED <<parent, used, lock, told>>

\* Mutant of Room: the whole list is written, whatever the guest has room for.
RoomForAll(c) == c.total
Room(c) == Least(c.capacity, c.total)

WriteValues(t) ==
  LET c == [call[t] EXCEPT !.written = Room(call[t])] IN
  /\ call[t].at = "values"
  /\ told' = told \cup c.handles
  /\ Answer(t, c, ListResult(c.written, c))
  /\ UNCHANGED <<parent, used, lock>>

\* Neither a count nor a list that cannot be written takes anything back.
WriteListFails(t) ==
  /\ call[t].at \in {"count", "values"}
  /\ Answer(t, call[t], "guest_memory")
  /\ UNCHANGED <<parent, used, lock, told>>

-----------------------------------------------------------------------------
(* Destruction, under the lock from beginning to end. *)

\* Mutant of Closed: the buffers of a pool stay when it goes.
ClosedButBuffers(gone) ==
  \A o \in Existing : parent[o] \in gone /\ Kind[o] # "command_buffer" => o \in gone
Closed(gone) == \A o \in Existing : parent[o] \in gone => o \in gone

Destroy(t) ==
  /\ Enter(t)
  /\ \E gone \in SUBSET Existing \ {{}} :
       LET roots == {o \in gone : parent[o] \notin gone} IN
       /\ \A o \in roots : Kind[o] \notin {"physical_device", "queue"}
       /\ \A o, q \in roots :
            o = q \/ (parent[o] = parent[q] /\ Kind[o] = "command_buffer")
       /\ Closed(gone)
       /\ Erase(gone)
  /\ UNCHANGED <<used, lock, told, call>>

-----------------------------------------------------------------------------
(* The specification *)

Init ==
  /\ parent = [o \in {} |-> Root]
  /\ used = {}
  /\ lock = NoThread
  /\ told = {}
  /\ call = [t \in Threads |-> Idle]

Next ==
  \E t \in Threads :
    \/ CreateInstance(t) \/ CreateChild(t) \/ AllocateCommandBuffers(t)
    \/ WriteHandles(t) \/ WriteHandlesFails(t)
    \/ EnumerateInstanceExtensionProperties(t) \/ EnumerateInstanceLayerProperties(t)
    \/ EnumerateDeviceExtensionProperties(t) \/ GetPhysicalDeviceQueueFamilyProperties(t)
    \/ EnumeratePhysicalDevices(t) \/ InsertPhysicalDevices(t)
    \/ WriteCount(t) \/ WriteValues(t) \/ WriteListFails(t)
    \/ Destroy(t) \/ Return(t)

Spec == Init /\ [][Next]_vars

-----------------------------------------------------------------------------
(* Properties *)

\* Handles of a call that have not reached the guest yet.
Pending(t) == IF call[t].at = "done" THEN {} ELSE call[t].handles

\* Every variable has its type, and handles are issued before they are
\* registered, held by a call or told to the guest.
TypeOK ==
  /\ used \subseteq Objects /\ Existing \subseteq used /\ told \subseteq used
  /\ \A o \in Existing : parent[o] \in used \cup {Root}
  /\ lock \in Threads \cup {NoThread}
  /\ call \in [Threads -> Call]
  /\ \A t \in Threads : call[t].handles \subseteq used /\ call[t].owner \in used \cup {Root}

\* A command pool or command buffer the guest was not told of, and no call is
\* about to tell it of, is not registered: the rollbacks of CreateCommandPool
\* and AllocateCommandBuffers leave nothing behind.
RollbackComplete ==
  \A o \in Existing :
    Kind[o] \in {"command_pool", "command_buffer"} =>
      o \in told \/ \E t \in Threads : o \in Pending(t)

\* A call is answered as the guest's memory shows: never more values than it has
\* room for or than the count says and none after a failure; otherwise all that
\* fit, unless it gave no address for them, INCOMPLETE exactly when its capacity
\* is below the count it was told, and no handle registered that it was not told
\* of, except of physical devices a guest has no place for.
AnswersAgree ==
  \A t \in Threads :
    LET c == call[t] IN
    c.at = "done" =>
      /\ c.written > 0 => c.written =< c.capacity /\ c.written =< c.count
      /\ c.result = "guest_memory" => c.written = 0
      /\ c.result # "guest_memory" /\ c.count # NotTold =>
           /\ c.result = "incomplete" <=> c.capacity < c.count
           /\ c.written = IF c.buffer THEN Least(c.capacity, c.count) ELSE 0
      /\ c.result # "guest_memory" =>
           c.handles \subseteq told \/ (c.capacity > 0 /\ ~c.buffer)

Tells == told' \ told

\* When the guest is told of a handle its object is registered, whatever other
\* threads do; only the physical devices of an enumeration, written after the
\* lock is dropped, may be gone by then.
ToldIsRegistered ==
  [][\A o \in Tells : o \in Existing' \/ Kind[o] = "physical_device"]_vars

\* Each step adds fresh handles or removes a whole subtree.
Lifetimes == INSTANCE ObjectLifetimes
               WITH Late <- {o \in Objects : Kind[o] = "physical_device"}
ImplementsLifetimes == Lifetimes!Spec

\* The count the guest is told is the length of the driver's list, as it is for
\* the lists that go to WriteGuestBuffer untruncated.
CountIsTotal ==
  \A t \in Threads :
    call[t].result \in {"success", "incomplete"} /\ call[t].count # NotTold =>
      call[t].count = call[t].found
=============================================================================
