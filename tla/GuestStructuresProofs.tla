------------------------- MODULE GuestStructuresProofs -------------------------
(***************************************************************************)
(* Proofs about GuestStructures for arrays and strings of any length.      *)
(***************************************************************************)
EXTENDS GuestStructures, TLAPS

\* The fields a call has, whatever they hold.
Shaped(c) ==
  c = [at |-> c.at, kind |-> c.kind, info |-> c.info, part |-> c.part, arrays |-> c.arrays,
       item |-> c.item, fits |-> c.fits, result |-> c.result]

Item == [null : BOOLEAN, count : Nat, got : Nat]
Filled(array) == \A i \in DOMAIN array : array[i].got = array[i].count

\* What has been read of a part: as many elements as its field says, of whole words.
Stored(p, field, array) ==
  /\ DOMAIN array = 1 .. Length(p, field)
  /\ \A i \in DOMAIN array : array[i] \in Item
  /\ p = "code" => field.count % WordSize = 0

\* While a call reads, every part before the current one is complete, and of the
\* current one every element before the current item.
Progress(c) ==
  /\ c.kind \in Kinds
  /\ c.part \in 1 .. (Len(Parts[c.kind]) + 1)
  /\ DOMAIN c.info = PartsOf(c.kind)
  /\ \A p \in PartsOf(c.kind) : c.info[p] \in Field(p)
  /\ DOMAIN c.arrays = {Parts[c.kind][i] : i \in 1 .. (IF c.at = "items" THEN c.part
                                                                       ELSE c.part - 1)}
  /\ \A p \in DOMAIN c.arrays : Stored(p, c.info[p], c.arrays[p])
  /\ c.at = "part" => \A p \in DOMAIN c.arrays : Filled(c.arrays[p])
  /\ c.at = "items" =>
       LET current == Parts[c.kind][c.part] IN
       /\ c.part =< Len(Parts[c.kind])
       /\ \A p \in DOMAIN c.arrays \ {current} : Filled(c.arrays[p])
       /\ c.item \in Nat \ {0}
       /\ \A i \in DOMAIN c.arrays[current] :
            i < c.item => c.arrays[current][i].got = c.arrays[current][i].count

Inv ==
  /\ Shaped(call)
  /\ call.at \in {"idle", "part", "items", "done"}
  /\ call.kind \in Kinds
  /\ call.fits = TRUE
  /\ call.result \in {"none", "success", "failed"}
  /\ call.at \in {"part", "items"} => Progress(call)
  /\ DriverGetsWhatItCounts

-----------------------------------------------------------------------------
(* The entry points *)

LEMMA PartsDiffer ==
  ASSUME NEW k \in Kinds
  PROVE  /\ Len(Parts[k]) \in Nat
         /\ \A i, j \in 1 .. Len(Parts[k]) : Parts[k][i] = Parts[k][j] => i = j
  <1>1. \/ k = "instance" \/ k = "device" \/ k = "buffer" \/ k = "image"
        \/ k = "shader_module" \/ k = "semaphore" \/ k = "fence" \/ k = "command_pool"
        \/ k = "command_buffers" \/ k = "begin" \/ k = "memory" \/ k = "copy"
        \/ k = "fence_list" \/ k = "free_list" \/ k = "layer_name"
    BY DEF Kinds, Parts
  <1>2. CASE k \in {"instance", "device"}
    <2>1. Parts["instance"] = <<"application", "layers", "extensions">>
      BY DEF Parts, BuildInstanceCreateInfo
    <2>2. Parts["device"] = <<"queues", "extensions", "features">>
      BY DEF Parts, BuildDeviceCreateInfo
    <2> QED BY <1>2, <2>1, <2>2
  <1>3. CASE k \in {"buffer", "image", "shader_module", "fence_list", "free_list", "layer_name"}
    BY <1>3 DEF Parts, BuildBufferCreateInfo, BuildImageCreateInfo, BuildShaderModuleCreateInfo,
                ResolveFenceList, FreeCommandBuffers, ReadOptionalLayerName
  <1>4. CASE k \in {"semaphore", "fence", "command_pool", "command_buffers", "begin", "memory",
                    "copy"}
    BY <1>4 DEF Parts, BuildSemaphoreCreateInfo, BuildFenceCreateInfo,
                BuildCommandPoolCreateInfo, BuildCommandBufferAllocateInfo,
                BuildCommandBufferBeginInfo, BuildMemoryAllocateInfo, ReadCopyRegion
  <1> QED BY <1>1, <1>2, <1>3, <1>4

LEMMA CurrentIsAPart ==
  ASSUME Inv, call.at \in {"part", "items"}, call.part =< Len(Parts[call.kind])
  PROVE  /\ call.part \in 1 .. Len(Parts[call.kind])
         /\ Current \in PartsOf(call.kind) /\ call.info[Current] \in Field(Current)
  BY PartsDiffer DEF Inv, Progress, Current, PartsOf

\* How many elements a part has.
LEMMA Lengths ==
  ASSUME NEW p, NEW f \in Field(p)
  PROVE  /\ f.count \in Nat /\ f.null \in BOOLEAN
         /\ Length(p, f) \in Nat
         /\ Absent(p, f) => Length(p, f) = 0 /\ p # "code"
         /\ ~Unusable(p, f) => /\ Copied(p, f) =< Length(p, f)
                               /\ p = "code" => f.count % WordSize = 0
  <1>1. f.count \in Nat /\ f.null \in BOOLEAN
    BY MaxCountAssumption DEF Field, WordSize
  <1>2. CASE p = "code"
    BY <1>1, <1>2 DEF Length, Absent, Unusable, Copied, Optional, Required, WordSize
  <1>3. CASE p # "code"
    BY <1>1, <1>3 DEF Length, Absent, Unusable, Copied, Optional, Required
  <1> QED BY <1>1, <1>2, <1>3

LEMMA ElementsAreItems ==
  ASSUME NEW p
  PROVE  Element(p) \subseteq Item
  <1>1. CASE p \in Nested
    BY <1>1, MaxCountAssumption DEF Element, Item
  <1>2. CASE p \notin Nested
    BY <1>2 DEF Element, Item
  <1> QED BY <1>1, <1>2

\* The array of the current part joins those of the parts before it.
LEMMA StoredParts ==
  ASSUME Inv, call.at = "part", call.part =< Len(Parts[call.kind]), NEW array
  PROVE  /\ DOMAIN Store(Current, array) = {Parts[call.kind][i] : i \in 1 .. call.part}
         /\ DOMAIN Store(Current, array) = DOMAIN call.arrays \cup {Current}
         /\ Store(Current, array)[Current] = array
         /\ \A p \in DOMAIN call.arrays : p # Current /\ Store(Current, array)[p] = call.arrays[p]
  <1>1. call.part \in 1 .. Len(Parts[call.kind])
    BY CurrentIsAPart
  <1>2. DOMAIN call.arrays = {Parts[call.kind][i] : i \in 1 .. (call.part - 1)}
    BY DEF Inv, Progress
  <1>3. \A i \in 1 .. (call.part - 1) : Parts[call.kind][i] # Current
    BY <1>1, PartsDiffer DEF Inv, Current
  <1>4. 1 .. call.part = (1 .. (call.part - 1)) \cup {call.part}
    BY <1>1
  <1> QED BY <1>2, <1>3, <1>4 DEF Store, Current

-----------------------------------------------------------------------------
(* Steps *)

LEMMA ReadStructureKeeps ==
  ASSUME Inv, NEW k \in Kinds, ReadStructure(k)
  PROVE  Inv'
  <1>1. PICK info \in [PartsOf(k) -> UNION {Field(p) : p \in PartsOf(k)}] :
          /\ \A p \in PartsOf(k) : info[p] \in Field(p)
          /\ call' = [NoCall EXCEPT !.at = "part", !.kind = k, !.info = info]
    BY DEF ReadStructure
  <1>2. /\ Shaped(call)' /\ call'.at = "part" /\ call'.kind = k /\ call'.info = info
        /\ call'.part = 1 /\ call'.arrays = <<>> /\ call'.fits = TRUE /\ call'.result = "none"
    BY <1>1 DEF NoCall, Shaped
  <1>3. Progress(call')
    BY <1>1, <1>2, PartsDiffer DEF Progress
  <1>4. UNCHANGED driver
    BY DEF ReadStructure
  <1> QED BY <1>2, <1>3, <1>4 DEF Inv, DriverGetsWhatItCounts, Progress

LEMMA EndsKeep ==
  ASSUME Inv,
         \/ \E k \in Kinds : RejectStructure(k)
         \/ FailPart \/ FailItem \/ RefuseArguments \/ Return
  PROVE  Inv'
  <1>1. CASE \E k \in Kinds : RejectStructure(k)
    <2>1. PICK k \in Kinds : RejectStructure(k)
      BY <1>1
    <2>2. /\ Shaped(call)' /\ call'.at = "done" /\ call'.kind \in Kinds
          /\ call'.fits = TRUE /\ call'.result = "failed"
      BY <2>1 DEF RejectStructure, NoCall, Shaped
    <2>3. UNCHANGED driver
      BY <2>1 DEF RejectStructure
    <2> QED BY <2>2, <2>3 DEF Inv, DriverGetsWhatItCounts
  <1>2. CASE FailPart \/ FailItem \/ RefuseArguments
    <2>1. call' = [call EXCEPT !.at = "done", !.result = "failed"] /\ UNCHANGED driver
      BY <1>2 DEF FailPart, FailItem, RefuseArguments, Fail
    <2> QED BY <2>1 DEF Inv, Shaped, DriverGetsWhatItCounts
  <1>3. CASE Return
    BY <1>3 DEF Return, Inv, NoCall, NotCalled, Shaped, DriverGetsWhatItCounts, Kinds, Parts
  <1> QED BY <1>1, <1>2, <1>3

LEMMA SkipPartKeeps == Inv /\ SkipPart => Inv'
  <1> SUFFICES ASSUME Inv, SkipPart PROVE Inv'
    OBVIOUS
  <1>1. call.at = "part" /\ call.part =< Len(Parts[call.kind])
    BY DEF SkipPart
  <1>2. /\ Shaped(call)' /\ call'.at = "part" /\ call'.kind = call.kind
        /\ call'.info = call.info /\ call'.part = call.part + 1
        /\ call'.arrays = Store(Current, <<>>)
        /\ call'.fits = call.fits /\ call'.result = call.result
    BY DEF SkipPart, Inv, Shaped
  <1>3. Stored(Current, call.info[Current], <<>>) /\ Filled(<<>>)
    <2>1. Length(Current, call.info[Current]) = 0 /\ Current # "code"
      BY <1>1, CurrentIsAPart, Lengths DEF SkipPart
    <2> QED BY <2>1 DEF Stored, Filled
  <1>4. Progress(call')
    <2>1. Progress(call) /\ call.part \in 1 .. Len(Parts[call.kind])
      BY <1>1, CurrentIsAPart DEF Inv
    <2>0. /\ DOMAIN Store(Current, <<>>) = {Parts[call.kind][i] : i \in 1 .. call.part}
          /\ DOMAIN Store(Current, <<>>) = DOMAIN call.arrays \cup {Current}
          /\ Store(Current, <<>>)[Current] = <<>>
          /\ \A p \in DOMAIN call.arrays : Store(Current, <<>>)[p] = call.arrays[p]
      BY <1>1, StoredParts
    <2>2. call'.part - 1 = call.part /\ call'.part \in 1 .. (Len(Parts[call.kind]) + 1)
      BY <1>2, <2>1, PartsDiffer DEF Inv
    <2>3. \A p \in DOMAIN call'.arrays : Stored(p, call.info[p], call'.arrays[p])
                                         /\ Filled(call'.arrays[p])
      <3>1. ASSUME NEW p \in DOMAIN call.arrays
            PROVE  /\ Stored(p, call.info[p], call'.arrays[p])
                   /\ Filled(call'.arrays[p])
        BY <1>1, <1>2, <2>0, <2>1 DEF Progress
      <3> QED BY <1>2, <1>3, <2>0, <3>1
    <2>4. DOMAIN call'.arrays = {Parts[call.kind][i] : i \in 1 .. call.part}
      BY <1>2, <2>0
    <2> QED BY <1>2, <2>1, <2>2, <2>3, <2>4 DEF Progress
  <1> QED BY <1>2, <1>4 DEF SkipPart, Inv, DriverGetsWhatItCounts

LEMMA ReadPartKeeps == Inv /\ ReadPart => Inv'
  <1> SUFFICES ASSUME Inv, ReadPart PROVE Inv'
    OBVIOUS
  <1> DEFINE f == call.info[Current]
  <1>1. call.at = "part" /\ call.part =< Len(Parts[call.kind]) /\ ~Unusable(Current, f)
    BY DEF ReadPart
  <1>2. PICK array \in [1 .. Length(Current, f) -> Element(Current)] :
          call' = [call EXCEPT !.at = "items", !.item = 1, !.arrays = Store(Current, array),
                               !.fits = @ /\ Copied(Current, f) =< Length(Current, f)]
    BY DEF ReadPart
  <1>3. Copied(Current, f) =< Length(Current, f) /\ (Current = "code" => f.count % WordSize = 0)
    BY <1>1, CurrentIsAPart, Lengths
  <1>4. /\ Shaped(call)' /\ call'.at = "items" /\ call'.kind = call.kind
        /\ call'.info = call.info /\ call'.part = call.part /\ call'.item = 1
        /\ call'.arrays = Store(Current, array)
        /\ call'.fits = TRUE /\ call'.result = call.result
    BY <1>2, <1>3 DEF Inv, Shaped
  <1>5. Stored(Current, f, array)
    BY <1>3, ElementsAreItems DEF Stored
  <1>6. \A i \in DOMAIN array : ~(i < 1)
    BY DEF Stored
  <1> HIDE DEF f
  <1>7. Progress(call')
    <2>1. Progress(call) /\ call.part \in 1 .. Len(Parts[call.kind])
      BY <1>1, CurrentIsAPart DEF Inv
    <2>0. /\ DOMAIN Store(Current, array) = {Parts[call.kind][i] : i \in 1 .. call.part}
          /\ DOMAIN Store(Current, array) = DOMAIN call.arrays \cup {Current}
          /\ Store(Current, array)[Current] = array
          /\ \A p \in DOMAIN call.arrays :
               p # Current /\ Store(Current, array)[p] = call.arrays[p]
      BY <1>1, StoredParts
    <2>2. /\ \A p \in DOMAIN call'.arrays : Stored(p, call.info[p], call'.arrays[p])
          /\ \A p \in DOMAIN call'.arrays \ {Current} : Filled(call'.arrays[p])
      <3>1. ASSUME NEW p \in DOMAIN call.arrays
            PROVE  /\ p # Current /\ Stored(p, call.info[p], call'.arrays[p])
                   /\ Filled(call'.arrays[p])
        BY <1>1, <1>4, <2>0, <2>1 DEF Progress
      <3> QED BY <1>4, <1>5, <2>0, <3>1 DEF f
    <2>3. DOMAIN call'.arrays = {Parts[call.kind][i] : i \in 1 .. call.part}
          /\ call'.arrays[Current] = array
      BY <1>4, <2>0
    <2>4. Current = Parts[call'.kind][call'.part]
      BY <1>4 DEF Current
    <2>5. /\ \A p \in DOMAIN call'.arrays : Stored(p, call'.info[p], call'.arrays[p])
          /\ \A p \in DOMAIN call'.arrays \ {Parts[call'.kind][call'.part]} :
               Filled(call'.arrays[p])
      BY <1>4, <2>2, <2>4
    <2>6. /\ call'.kind \in Kinds /\ call'.part \in 1 .. (Len(Parts[call'.kind]) + 1)
          /\ call'.part =< Len(Parts[call'.kind])
          /\ DOMAIN call'.info = PartsOf(call'.kind)
          /\ \A p \in PartsOf(call'.kind) : call'.info[p] \in Field(p)
      BY <1>1, <1>4, <2>1 DEF Progress
    <2>7. /\ call'.item \in Nat \ {0}
          /\ \A i \in DOMAIN call'.arrays[Parts[call'.kind][call'.part]] : ~(i < call'.item)
      <3>1. call'.arrays[Parts[call'.kind][call'.part]] = array
        BY <2>3, <2>4
      <3>2. call'.item = 1
        BY <1>4
      <3> QED BY <1>6, <3>1, <3>2
    <2>8. DOMAIN call'.arrays = {Parts[call'.kind][i] : i \in 1 .. call'.part}
      BY <1>4, <2>3
    <2> QED BY <1>4, <2>5, <2>6, <2>7, <2>8 DEF Progress
  <1> QED BY <1>4, <1>7 DEF ReadPart, Inv, DriverGetsWhatItCounts

LEMMA ReadItemKeeps == Inv /\ ReadItem => Inv'
  <1> SUFFICES ASSUME Inv, ReadItem PROVE Inv'
    OBVIOUS
  <1> DEFINE array == [Array EXCEPT ![call.item].got = Array[call.item].count]
  <1>1. call.at = "items" /\ call.item \in DOMAIN Array /\ Progress(call)
    BY DEF ReadItem, Inv
  <1>2. Current \in DOMAIN call.arrays
    BY <1>1, CurrentIsAPart DEF Progress, Current
  <1>3. /\ Shaped(call)' /\ call'.at = "items" /\ call'.kind = call.kind
        /\ call'.info = call.info /\ call'.part = call.part /\ call'.item = call.item + 1
        /\ call'.arrays = [call.arrays EXCEPT ![Current] = array]
        /\ call'.fits = call.fits /\ call'.result = call.result
    BY DEF ReadItem, Inv, Shaped, Array
  <1>4. Stored(Current, call.info[Current], Array)
    BY <1>1, <1>2 DEF Progress, Array
  <1>5. DOMAIN array = DOMAIN Array
        /\ \A i \in DOMAIN Array : array[i] \in Item
             /\ array[i].count = Array[i].count
             /\ array[i].got = IF i = call.item THEN Array[i].count ELSE Array[i].got
    BY <1>1, <1>4 DEF Stored, Item
  <1>6. Stored(Current, call.info[Current], array)
    BY <1>4, <1>5 DEF Stored
  <1>7. \A i \in DOMAIN array : i < call.item + 1 => array[i].got = array[i].count
    <2>1. \A i \in DOMAIN Array : i \in Nat /\ (i < call.item => Array[i].got = Array[i].count)
      <3>1. call.info[Current] \in Field(Current)
        BY <1>1, CurrentIsAPart DEF Progress
      <3>2. \A i \in DOMAIN Array : i \in Nat
        BY <1>4, <3>1, Lengths DEF Stored
      <3> QED BY <1>1, <3>2 DEF Progress, Current, Array
    <2>2. call.item \in Nat
      BY <1>1 DEF Progress
    <2> QED BY <1>5, <2>1, <2>2
  <1> HIDE DEF array
  <1>8. Progress(call')
    <2>1. call'.arrays[Current] = array /\ DOMAIN call'.arrays = DOMAIN call.arrays
          /\ \A p \in DOMAIN call.arrays \ {Current} : call'.arrays[p] = call.arrays[p]
      BY <1>2, <1>3
    <2>2. Current = Parts[call.kind][call.part]
      BY DEF Current
    <2>3. \A p \in DOMAIN call'.arrays : Stored(p, call'.info[p], call'.arrays[p])
      BY <1>1, <1>3, <1>6, <2>1 DEF Progress
    <2>4. \A p \in DOMAIN call'.arrays \ {Current} : Filled(call'.arrays[p])
      BY <1>1, <2>1, <2>2 DEF Progress
    <2>5. call'.item \in Nat \ {0}
      BY <1>1, <1>3 DEF Progress
    <2>6. DOMAIN call'.arrays = {Parts[call.kind][i] : i \in 1 .. call.part}
      BY <1>1, <2>1 DEF Progress
    <2>7. \A i \in DOMAIN call'.arrays[Current] : i < call'.item =>
            call'.arrays[Current][i].got = call'.arrays[Current][i].count
      BY <1>3, <1>7, <2>1
    <2> QED BY <1>1, <1>3, <2>2, <2>3, <2>4, <2>5, <2>6, <2>7 DEF Progress
  <1> QED BY <1>3, <1>8 DEF ReadItem, Inv, DriverGetsWhatItCounts

LEMMA EndPartKeeps == Inv /\ EndPart => Inv'
  <1> SUFFICES ASSUME Inv, EndPart PROVE Inv'
    OBVIOUS
  <1>1. call.at = "items" /\ call.item \notin DOMAIN Array /\ Progress(call)
    BY DEF EndPart, Inv
  <1>2. /\ Shaped(call)' /\ call'.at = "part" /\ call'.kind = call.kind
        /\ call'.info = call.info /\ call'.part = call.part + 1 /\ call'.arrays = call.arrays
        /\ call'.fits = call.fits /\ call'.result = call.result
    BY DEF EndPart, Inv, Shaped
  <1>3. Current \in DOMAIN call.arrays /\ call.part \in 1 .. Len(Parts[call.kind])
    BY <1>1, CurrentIsAPart DEF Progress, Current
  <1>4. Filled(Array)
    <2>1. DOMAIN Array = 1 .. Length(Current, call.info[Current])
      BY <1>1, <1>3 DEF Progress, Stored, Array
    <2>2. Length(Current, call.info[Current]) \in Nat /\ call.item \in Nat \ {0}
      BY <1>1, CurrentIsAPart, Lengths DEF Progress
    <2>3. \A i \in DOMAIN Array : i < call.item
      BY <1>1, <2>1, <2>2
    <2> QED BY <1>1, <2>3 DEF Progress, Filled, Array, Current
  <1>5. Progress(call')
    <2>1. \A p \in DOMAIN call.arrays : Filled(call.arrays[p])
      BY <1>1, <1>4 DEF Progress, Current, Array
    <2>2. call'.part - 1 = call.part /\ call'.part \in 1 .. (Len(Parts[call.kind]) + 1)
      BY <1>2, <1>3, <1>1, PartsDiffer DEF Progress
    <2> QED BY <1>1, <1>2, <2>1, <2>2 DEF Progress
  <1> QED BY <1>2, <1>5 DEF EndPart, Inv, DriverGetsWhatItCounts

LEMMA CallDriverKeeps == Inv /\ CallDriver => Inv'
  <1> SUFFICES ASSUME Inv, CallDriver PROVE Inv'
    OBVIOUS
  <1>1. call.at = "part" /\ call.part > Len(Parts[call.kind]) /\ Progress(call)
    BY DEF CallDriver, Inv
  <1>2. Shaped(call)' /\ call'.at = "done" /\ call'.kind = call.kind /\ call'.fits = call.fits
        /\ call'.result = "success"
    BY DEF CallDriver, Inv, Shaped
  <1>3. DOMAIN call.arrays = PartsOf(call.kind)
    BY <1>1, PartsDiffer DEF Progress, PartsOf
  <1>4. ASSUME NEW p \in PartsOf(call.kind)
        PROVE  LET size == IF p = "code" THEN WordSize ELSE 1
                   count == CountOf(p, call.info[p]) IN
               /\ count % size = 0
               /\ DOMAIN call.arrays[p] = 1 .. (count \div size)
               /\ Filled(call.arrays[p])
    <2>1. Stored(p, call.info[p], call.arrays[p]) /\ Filled(call.arrays[p])
      BY <1>1, <1>3, <1>4 DEF Progress
    <2>2. Length(p, call.info[p]) \in Nat /\ call.info[p].count \in Nat
      BY <1>1, <1>4, Lengths DEF Progress
    <2>3. CASE p = "code"
      BY <2>1, <2>2, <2>3 DEF Stored, CountOf, Length, Optional
    <2>4. CASE p # "code"
      BY <2>1, <2>2, <2>4 DEF Stored, CountOf
    <2> QED BY <2>3, <2>4
  <1>5. driver' = [p \in PartsOf(call.kind) |->
                    [count |-> CountOf(p, call.info[p]), elements |-> call.arrays[p]]]
    BY DEF CallDriver
  <1>6. DriverGetsWhatItCounts'
    BY <1>4, <1>5 DEF DriverGetsWhatItCounts, Filled
  <1> QED BY <1>2, <1>6 DEF Inv

LEMMA NextInv == Inv /\ [Next]_vars => Inv'
  <1> SUFFICES ASSUME Inv, [Next]_vars PROVE Inv'
    OBVIOUS
  <1>1. CASE UNCHANGED vars
    BY <1>1 DEF vars, Inv, DriverGetsWhatItCounts
  <1>2. CASE Next
    BY <1>2, ReadStructureKeeps, EndsKeep, SkipPartKeeps, ReadPartKeeps, ReadItemKeeps,
       EndPartKeeps, CallDriverKeeps DEF Next
  <1> QED BY <1>1, <1>2

LEMMA InitInv == Init => Inv
  BY DEF Init, Inv, NoCall, NotCalled, Shaped, DriverGetsWhatItCounts, Kinds, Parts

LEMMA InvHolds == Spec => []Inv
  BY InitInv, NextInv, PTL DEF Spec

-----------------------------------------------------------------------------
(* The theorems *)

\* Whatever the guest stores between two reads, a call is always at some part of its
\* structure with what it has read until then.
THEOREM TypeCorrectness == Spec => []TypeOK
  <1>1. Inv => TypeOK
    BY DEF Inv, TypeOK, Progress, Stored
  <1> QED BY <1>1, InvHolds, PTL

\* No read of an array copies more than the handler made room for, for any length.
THEOREM ReadsAreBounded == Spec => []ReadsFit
  <1>1. Inv => ReadsFit
    BY DEF Inv, ReadsFit
  <1> QED BY <1>1, InvHolds, PTL

\* Every count the driver is given is that of the storage beside it, for arrays and
\* strings of any length and whatever the guest does meanwhile.
THEOREM CountsAreTrue == Spec => []DriverGetsWhatItCounts
  <1>1. Inv => DriverGetsWhatItCounts
    BY DEF Inv
  <1> QED BY <1>1, InvHolds, PTL
================================================================================
