---------------------------- MODULE GuestStructures ----------------------------
(***************************************************************************)
(* How the entry points of vulkan/api.cc take their arguments out of guest *)
(* memory: a structure first, then the arrays, strings and structures it   *)
(* refers to, each by a bounds-checked read into storage of the handler;   *)
(* then the driver is called with counts and pointers to that storage.     *)
(*                                                                         *)
(* Other guest threads may store to guest memory between any two reads, so *)
(* each read returns any value, or fails.  The values that only the driver *)
(* looks at are left out.  The storage is local to the call, so one call   *)
(* at a time is enough.                                                    *)
(*                                                                         *)
(* "Mutant of D" marks a broken variant of definition D.  No specification *)
(* uses it: it stands for a plausible bug in the code, put in place of D   *)
(* to see that a property notices.                                         *)
(***************************************************************************)
EXTENDS Naturals, Sequences

CONSTANT MaxCount  \* bound: the longest array or string the guest passes

ASSUME MaxCountAssumption == MaxCount \in Nat

WordSize == 4

-----------------------------------------------------------------------------
(* What each entry point reads after its structure, in this order. *)

BuildInstanceCreateInfo == <<"application", "layers", "extensions">>
BuildDeviceCreateInfo == <<"queues", "extensions", "features">>
BuildBufferCreateInfo == <<"families">>
BuildImageCreateInfo == <<"families">>
BuildShaderModuleCreateInfo == <<"code">>
BuildSemaphoreCreateInfo == <<>>
BuildFenceCreateInfo == <<>>
BuildCommandPoolCreateInfo == <<>>
BuildCommandBufferAllocateInfo == <<>>
BuildCommandBufferBeginInfo == <<>>
BuildMemoryAllocateInfo == <<>>
ReadCopyRegion == <<>>
ResolveFenceList == <<"handles">>
FreeCommandBuffers == <<"handles">>
ReadOptionalLayerName == <<"layer_name">>

Parts == [instance |-> BuildInstanceCreateInfo, device |-> BuildDeviceCreateInfo,
          buffer |-> BuildBufferCreateInfo, image |-> BuildImageCreateInfo,
          shader_module |-> BuildShaderModuleCreateInfo,
          semaphore |-> BuildSemaphoreCreateInfo, fence |-> BuildFenceCreateInfo,
          command_pool |-> BuildCommandPoolCreateInfo,
          command_buffers |-> BuildCommandBufferAllocateInfo,
          begin |-> BuildCommandBufferBeginInfo, memory |-> BuildMemoryAllocateInfo,
          copy |-> ReadCopyRegion, fence_list |-> ResolveFenceList,
          free_list |-> FreeCommandBuffers, layer_name |-> ReadOptionalLayerName]
Kinds == DOMAIN Parts
PartsOf(k) == {Parts[k][i] : i \in 1 .. Len(Parts[k])}

\* The parts that may be absent, told by a null address, and those that must not.
Optional == {"application", "features", "layer_name"}
Required == {"code", "handles"}

\* The parts whose elements refer to memory of their own: string views (the
\* application information has two), and queues with their priorities.
Nested == {"application", "layers", "extensions", "queues", "layer_name"}

\* An address, which may be null, and how many elements (bytes of code) it has.
Field(p) == [null : BOOLEAN,
             count : 0 .. (IF p = "code" THEN WordSize * MaxCount ELSE MaxCount)]

\* An element: the field it has in turn, and how much of that has been read.
Element(p) == IF p \in Nested
              THEN [null : BOOLEAN, count : 0 .. MaxCount, got : {0}]
              ELSE {[null |-> FALSE, count |-> 0, got |-> 0]}

\* The number of elements the handler makes room for.
Length(p, f) ==
  CASE p = "application" -> IF f.null THEN 0 ELSE 2
    [] p \in Optional -> IF f.null THEN 0 ELSE 1
    [] p = "code" -> f.count \div WordSize
    [] OTHER -> f.count
\* Elements' worth that the read copies, rounded up.
Copied(p, f) == IF p = "code" THEN (f.count + WordSize - 1) \div WordSize ELSE Length(p, f)

-----------------------------------------------------------------------------
VARIABLES
  call,   \* the call, with its locals
  driver  \* what the driver was called with: part -> count and elements

vars == <<call, driver>>

NoCall == [at |-> "idle", kind |-> "copy", info |-> <<>>, part |-> 1, arrays |-> <<>>,
           item |-> 1, fits |-> TRUE, result |-> "none"]
NotCalled == <<>>

Current == Parts[call.kind][call.part]
Array == call.arrays[Current]
Fail(result) == call' = [call EXCEPT !.at = "done", !.result = result] /\ UNCHANGED driver

\* The structure is read once and kept.
ReadStructure(k) ==
  /\ call.at = "idle"
  /\ \E info \in [PartsOf(k) -> UNION {Field(p) : p \in PartsOf(k)}] :
       /\ \A p \in PartsOf(k) : info[p] \in Field(p)
       /\ call' = [NoCall EXCEPT !.at = "part", !.kind = k, !.info = info]
  /\ UNCHANGED driver

\* A null address is refused before anything is read, an unreadable one then.
RejectStructure(k) ==
  /\ call.at = "idle"
  /\ call' = [NoCall EXCEPT !.at = "done", !.kind = k, !.result = "failed"]
  /\ UNCHANGED driver

\* Mutant of Absent: a null address makes any list an empty one.
AbsentIfNull(p, f) == f.null /\ p \notin Required
Absent(p, f) ==
  IF p \in Optional THEN f.null ELSE p \notin Required /\ f.count = 0

\* Mutant of Unusable: code need not be whole words.
UnusableIfNull(p, f) == p \notin Optional /\ (f.null \/ f.count = 0)
Unusable(p, f) ==
  \/ p \notin Optional /\ (f.null \/ f.count = 0)
  \/ p = "code" /\ f.count % WordSize # 0

Store(p, array) ==
  [q \in DOMAIN call.arrays \cup {p} |-> IF q = p THEN array ELSE call.arrays[q]]

SkipPart ==
  /\ call.at = "part" /\ call.part =< Len(Parts[call.kind])
  /\ Absent(Current, call.info[Current])
  /\ call' = [call EXCEPT !.part = @ + 1, !.arrays = Store(Current, <<>>)]
  /\ UNCHANGED driver

ReadPart ==
  LET f == call.info[Current] IN
  /\ call.at = "part" /\ call.part =< Len(Parts[call.kind])
  /\ ~Absent(Current, f) /\ ~Unusable(Current, f)
  /\ \E array \in [1 .. Length(Current, f) -> Element(Current)] :
       call' = [call EXCEPT !.at = "items", !.item = 1, !.arrays = Store(Current, array),
                            !.fits = @ /\ Copied(Current, f) =< Length(Current, f)]
  /\ UNCHANGED driver

FailPart ==
  /\ call.at = "part" /\ call.part =< Len(Parts[call.kind])
  /\ ~Absent(Current, call.info[Current])
  /\ Fail("failed")

\* A string or the priorities of a queue; an empty one is not read.
ReadItem ==
  /\ call.at = "items" /\ call.item \in DOMAIN Array
  /\ Current = "queues" => ~Array[call.item].null \/ Array[call.item].count = 0
  /\ call' = [call EXCEPT !.item = @ + 1,
                          !.arrays[Current][call.item].got = Array[call.item].count]
  /\ UNCHANGED driver

FailItem ==
  /\ call.at = "items" /\ call.item \in DOMAIN Array
  /\ Array[call.item].count # 0
  /\ Fail("failed")

EndPart ==
  /\ call.at = "items" /\ call.item \notin DOMAIN Array
  /\ call' = [call EXCEPT !.at = "part", !.part = @ + 1]
  /\ UNCHANGED driver

\* The count that goes to the driver with a part, by the field that was kept.
CountOf(p, f) == IF p = "code" THEN f.count ELSE Length(p, f)

\* Mutant of CallDriver: the counts are read from the guest once more.
CallDriverAfterReread ==
  /\ call.at = "part" /\ call.part > Len(Parts[call.kind])
  /\ \E info \in [PartsOf(call.kind) -> UNION {Field(p) : p \in PartsOf(call.kind)}] :
       driver' = [p \in PartsOf(call.kind) |->
                    [count |-> CountOf(p, info[p]), elements |-> call.arrays[p]]]
  /\ call' = [call EXCEPT !.at = "done", !.result = "success"]

CallDriver ==
  /\ call.at = "part" /\ call.part > Len(Parts[call.kind])
  /\ driver' = [p \in PartsOf(call.kind) |->
       [count |-> CountOf(p, call.info[p]), elements |-> call.arrays[p]]]
  /\ call' = [call EXCEPT !.at = "done", !.result = "success"]

\* What was read names an object that is not registered, or no object.
RefuseArguments ==
  /\ call.at = "part" /\ call.part > Len(Parts[call.kind])
  /\ Fail("failed")

Return == call.at = "done" /\ call' = NoCall /\ driver' = NotCalled

Init == call = NoCall /\ driver = NotCalled

Next ==
  \/ \E k \in Kinds : ReadStructure(k) \/ RejectStructure(k)
  \/ SkipPart \/ ReadPart \/ FailPart
  \/ ReadItem \/ FailItem \/ EndPart
  \/ CallDriver \/ RefuseArguments \/ Return

Spec == Init /\ [][Next]_vars

-----------------------------------------------------------------------------
(* Properties *)

\* The parts before the current one have been read, the current one when its
\* elements are being read, each with as many elements as its field says.
TypeOK ==
  /\ call.at \in {"idle", "part", "items", "done"}
  /\ call.kind \in Kinds /\ call.fits \in BOOLEAN
  /\ call.result \in {"none", "success", "failed"}
  /\ call.at \in {"part", "items"} =>
       /\ call.part \in 1 .. (Len(Parts[call.kind]) + 1)
       /\ DOMAIN call.info = PartsOf(call.kind)
       /\ DOMAIN call.arrays =
            {Parts[call.kind][i] : i \in 1 .. (IF call.at = "items" THEN call.part
                                                                    ELSE call.part - 1)}
       /\ \A p \in DOMAIN call.arrays : DOMAIN call.arrays[p] = 1 .. Length(p, call.info[p])
  /\ call.at = "items" => call.part =< Len(Parts[call.kind])

\* The driver may follow every pointer as far as the count beside it says, in
\* the structure and in every element, although the guest may change all of it
\* at any time.
DriverGetsWhatItCounts ==
  \A p \in DOMAIN driver :
    LET size == IF p = "code" THEN WordSize ELSE 1
        elements == driver[p].elements IN
    /\ driver[p].count % size = 0
    /\ DOMAIN elements = 1 .. (driver[p].count \div size)
    /\ \A i \in DOMAIN elements : elements[i].got = elements[i].count

\* No read copies more than the handler made room for.
ReadsFit == call.fits
=============================================================================
