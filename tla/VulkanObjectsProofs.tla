------------------------- MODULE VulkanObjectsProofs -------------------------
(***************************************************************************)
(* Proofs about VulkanObjects for any set of threads, native handles and   *)
(* any number of handles of each kind.                                     *)
(***************************************************************************)
EXTENDS VulkanObjects, FiniteSetTheorems, TLAPS

-----------------------------------------------------------------------------
(* How steps change the tables: they insert fresh records of one kind, or  *)
(* they erase some.                                                        *)

Fits(k, r) ==
  /\ r \in Record
  /\ k \in DeviceChildKinds => r.parent \in Registered("device")
  /\ k = "device" => r.parent \in Registered("physical_device")
  /\ k = "command_buffer" =>
       /\ r.pool \in Registered("command_pool")
       /\ table["command_pool"][r.pool].parent = r.parent

Inserts(k, n) ==
  /\ Issue(k, n)
  /\ \E records :
       /\ DOMAIN records = Fresh(k, n)
       /\ \A h \in Fresh(k, n) : Fits(k, records[h])
       /\ Insert(k, records)

Shrinks ==
  /\ next' = next
  /\ DOMAIN table' = Kinds
  /\ \A k \in Kinds :
       /\ DOMAIN table'[k] \subseteq DOMAIN table[k]
       /\ \A h \in DOMAIN table'[k] : table'[k][h] = table[k][h]

\* What an insertion does to each table.
LEMMA InsertedTables ==
  ASSUME TablesTyped, NEW k \in Kinds, NEW n \in Nat, NEW records,
         DOMAIN records = Fresh(k, n), Insert(k, records)
  PROVE  /\ DOMAIN table' = Kinds
         /\ \A j \in Kinds \ {k} : table'[j] = table[j]
         /\ DOMAIN table'[k] = Fresh(k, n) \cup DOMAIN table[k]
         /\ \A h \in Fresh(k, n) : table'[k][h] = records[h]
         /\ \A h \in DOMAIN table[k] : h \notin Fresh(k, n) /\ table'[k][h] = table[k][h]
  <1>1. table' = [table EXCEPT ![k] = Override(records, table[k])]
    BY DEF Insert
  <1>2. table'[k] = Override(records, table[k])
    BY <1>1 DEF TablesTyped
  <1>3. \A h \in DOMAIN table[k] : h \notin Fresh(k, n)
    BY DEF TablesTyped, Registered, Fresh
  <1> QED BY <1>1, <1>2, <1>3 DEF TablesTyped, Override

\* Insertions keep the tables typed.
LEMMA InsertsTyped ==
  ASSUME TablesTyped, NEW k \in Kinds, NEW n \in Nat, Inserts(k, n)
  PROVE  TablesTyped' /\ KeepsHandles
  <1>1. PICK records :
          /\ DOMAIN records = Fresh(k, n)
          /\ \A h \in Fresh(k, n) : Fits(k, records[h])
          /\ Insert(k, records)
    BY DEF Inserts
  <1>2. /\ DOMAIN table' = Kinds
        /\ \A j \in Kinds \ {k} : table'[j] = table[j]
        /\ DOMAIN table'[k] = Fresh(k, n) \cup DOMAIN table[k]
        /\ \A h \in Fresh(k, n) : table'[k][h] = records[h]
        /\ \A h \in DOMAIN table[k] : h \notin Fresh(k, n) /\ table'[k][h] = table[k][h]
    BY <1>1, InsertedTables
  <1>3. /\ next' \in [Kinds -> Nat \ {0}]
        /\ next'[k] = next[k] + n
        /\ \A j \in Kinds \ {k} : next'[j] = next[j]
    BY DEF Inserts, Issue, TablesTyped
  <1>4. ASSUME NEW j \in Kinds, NEW h \in DOMAIN table'[j]
        PROVE  h \in 1 .. (next'[j] - 1) /\ table'[j][h] \in Record
    <2>1. CASE j # k
      BY <1>2, <1>3, <2>1 DEF TablesTyped, Registered
    <2>2. CASE j = k /\ h \in Fresh(k, n)
      <3>1. next[k] \in Nat \ {0}
        BY DEF TablesTyped
      <3>2. h \in 1 .. (next'[k] - 1)
        BY <2>2, <1>3, <3>1 DEF Fresh
      <3> QED BY <2>2, <3>2, <1>1, <1>2 DEF Fits
    <2>3. CASE j = k /\ h \in DOMAIN table[k]
      <3>1. h \in 1 .. (next[k] - 1) /\ table[k][h] \in Record
        BY <2>3 DEF TablesTyped, Registered
      <3>2. next[k] \in Nat
        BY DEF TablesTyped
      <3> QED BY <3>1, <3>2, <2>3, <1>2, <1>3
    <2> QED BY <1>2, <2>1, <2>2, <2>3
  <1>5. \A h \in Fresh(k, n) : ~ (h < next[k])
    BY DEF Fresh, TablesTyped
  <1>6. \A j \in Kinds : next[j] =< next'[j]
    BY <1>3 DEF TablesTyped
  <1>7. KeepsHandles
    BY <1>2, <1>5, <1>6 DEF KeepsHandles
  <1> QED BY <1>2, <1>3, <1>4, <1>7 DEF TablesTyped, Registered

\* So do erasures.
LEMMA ShrinksTyped == TablesTyped /\ Shrinks => TablesTyped' /\ KeepsHandles
  BY DEF TablesTyped, Shrinks, Registered, KeepsHandles

\* Insertions of records that fit keep the tables closed.
LEMMA InsertsClosed ==
  ASSUME TablesTyped, TablesClosed, NEW k \in Kinds, NEW n \in Nat, Inserts(k, n)
  PROVE  TablesClosed'
  <1>1. PICK records :
          /\ DOMAIN records = Fresh(k, n)
          /\ \A h \in Fresh(k, n) : Fits(k, records[h])
          /\ Insert(k, records)
    BY DEF Inserts
  <1>2. /\ DOMAIN table' = Kinds
        /\ \A j \in Kinds \ {k} : table'[j] = table[j]
        /\ DOMAIN table'[k] = Fresh(k, n) \cup DOMAIN table[k]
        /\ \A h \in Fresh(k, n) : table'[k][h] = records[h]
        /\ \A h \in DOMAIN table[k] : h \notin Fresh(k, n) /\ table'[k][h] = table[k][h]
    BY <1>1, InsertedTables
  <1>3. \A j \in Kinds : /\ DOMAIN table[j] \subseteq DOMAIN table'[j]
                         /\ \A h \in DOMAIN table[j] : table'[j][h] = table[j][h]
    BY <1>2
  <1>4. \A j \in Kinds : \A h \in DOMAIN table'[j] :
          h \in DOMAIN table[j] \/ (j = k /\ h \in Fresh(k, n))
    BY <1>2
  <1>5. ASSUME NEW j \in DeviceChildKinds, NEW h \in DOMAIN table'[j]
        PROVE  table'[j][h].parent \in DOMAIN table'["device"]
    <2>1. j \in Kinds /\ "device" \in Kinds
      BY DEF Kinds
    <2>2. CASE h \in DOMAIN table[j]
      BY <1>3, <2>1, <2>2 DEF TablesClosed, Registered
    <2>3. CASE j = k /\ h \in Fresh(k, n)
      BY <1>1, <1>2, <1>3, <2>1, <2>3 DEF Fits, Registered
    <2> QED BY <1>4, <2>1, <2>2, <2>3
  <1>6. ASSUME NEW h \in DOMAIN table'["device"]
        PROVE  table'["device"][h].parent \in DOMAIN table'["physical_device"]
    <2>1. "device" \in Kinds /\ "physical_device" \in Kinds
      BY DEF Kinds
    <2>2. CASE h \in DOMAIN table["device"]
      BY <1>3, <2>1, <2>2 DEF TablesClosed, Registered
    <2>3. CASE k = "device" /\ h \in Fresh(k, n)
      BY <1>1, <1>2, <1>3, <2>1, <2>3 DEF Fits, Registered
    <2> QED BY <1>4, <2>1, <2>2, <2>3
  <1>7. ASSUME NEW b \in DOMAIN table'["command_buffer"]
        PROVE  LET p == table'["command_buffer"][b].pool IN
               /\ p \in DOMAIN table'["command_pool"]
               /\ table'["command_pool"][p].parent = table'["command_buffer"][b].parent
    <2>1. "command_buffer" \in Kinds /\ "command_pool" \in Kinds
      BY DEF Kinds, DeviceChildKinds
    <2>2. CASE b \in DOMAIN table["command_buffer"]
      BY <1>3, <2>1, <2>2 DEF TablesClosed, Registered
    <2>3. CASE k = "command_buffer" /\ b \in Fresh(k, n)
      BY <1>1, <1>2, <1>3, <2>1, <2>3 DEF Fits, Registered
    <2> QED BY <1>4, <2>1, <2>2, <2>3
  <1> QED BY <1>5, <1>6, <1>7 DEF TablesClosed, Registered

\* A counter moves on without a record when a create is undone.
LEMMA IssueTyped ==
  ASSUME TablesTyped, NEW k \in Kinds, NEW n \in Nat, Issue(k, n), table' = table
  PROVE  TablesTyped' /\ KeepsHandles
  <1>1. \A j \in Kinds : next[j] \in Nat \ {0} /\ next'[j] \in Nat \ {0} /\ next[j] =< next'[j]
    BY DEF TablesTyped, Issue
  <1>2. next' \in [Kinds -> Nat \ {0}]
    BY DEF TablesTyped, Issue
  <1>3. ASSUME NEW j \in Kinds, NEW h \in DOMAIN table[j]
        PROVE  h \in 1 .. (next'[j] - 1)
    <2>1. h \in 1 .. (next[j] - 1)
      BY DEF TablesTyped, Registered
    <2> QED BY <1>1, <2>1
  <1> QED BY <1>1, <1>2, <1>3 DEF TablesTyped, Registered, KeepsHandles

-----------------------------------------------------------------------------
(* Which of these every step is. *)

LEMMA KindFacts ==
  /\ LeafKinds \subseteq DeviceChildKinds
  /\ DeviceChildKinds \subseteq Kinds
  /\ \A k \in LeafKinds : k \notin {"queue", "command_pool", "command_buffer"}
  /\ \A k \in DeviceChildKinds : k \notin {"instance", "physical_device", "device"}
  /\ {"queue", "command_pool", "command_buffer"} \subseteq DeviceChildKinds
  /\ {"instance", "physical_device", "device"} \subseteq Kinds
  BY DEF LeafKinds, DeviceChildKinds, Kinds

\* One new record.
LEMMA InsertsOne ==
  ASSUME TablesTyped, NEW k \in Kinds, NEW r, Fits(k, r),
         Insert(k, Only(next[k], r)), Issue(k, 1)
  PROVE  Inserts(k, 1)
  <1>1. Fresh(k, 1) = {next[k]}
    BY DEF Fresh, TablesTyped
  <1>2. DOMAIN Only(next[k], r) = Fresh(k, 1) /\ Only(next[k], r)[next[k]] = r
    BY <1>1 DEF Only
  <1> QED BY <1>1, <1>2 DEF Inserts

LEMMA CreateLeafInserts ==
  ASSUME TablesTyped, NEW t \in Threads, NEW k \in LeafKinds, CreateLeaf(t, k)
  PROVE  Inserts(k, 1)
  <1>1. PICK d \in Registered("device"), n \in Unused :
          Insert(k, Only(next[k], [native |-> n, parent |-> d, pool |-> NoHandle]))
    BY DEF CreateLeaf
  <1>2. d \in Nat
    BY KindFacts DEF TablesTyped, Registered
  <1>3. Fits(k, [native |-> n, parent |-> d, pool |-> NoHandle])
    BY <1>2, KindFacts DEF Fits, Record, NoHandle, Unused
  <1> QED BY <1>1, <1>3, InsertsOne, KindFacts DEF CreateLeaf

LEMMA GetDeviceQueueInserts ==
  ASSUME TablesTyped, NEW t \in Threads, GetDeviceQueue(t)
  PROVE  Inserts("queue", 1)
  <1>1. PICK d \in Registered("device") :
          Insert("queue", Only(next["queue"],
            [native |-> Native("device", d), parent |-> d, pool |-> NoHandle]))
    BY DEF GetDeviceQueue
  <1>2. d \in Nat /\ Native("device", d) \in Natives
    BY KindFacts DEF TablesTyped, Registered, Native, Record
  <1>3. Fits("queue", [native |-> Native("device", d), parent |-> d, pool |-> NoHandle])
    BY <1>2, KindFacts DEF Fits, Record, NoHandle
  <1> QED BY <1>1, <1>3, InsertsOne, KindFacts DEF GetDeviceQueue

LEMMA CreateDeviceInserts ==
  ASSUME TablesTyped, NEW t \in Threads, CreateDevice(t)
  PROVE  Inserts("device", 1)
  <1>1. PICK g \in Registered("physical_device"), n \in Unused :
          Insert("device", Only(next["device"],
            [native |-> n, parent |-> g, pool |-> NoHandle]))
    BY DEF CreateDevice
  <1>2. g \in Nat
    BY KindFacts DEF TablesTyped, Registered
  <1>3. Fits("device", [native |-> n, parent |-> g, pool |-> NoHandle])
    BY <1>2, KindFacts DEF Fits, Record, NoHandle, Unused
  <1> QED BY <1>1, <1>3, InsertsOne, KindFacts DEF CreateDevice

LEMMA InsertInstanceInserts ==
  ASSUME TablesTyped, CallsTyped, NEW t \in Threads, InsertInstance(t)
  PROVE  Inserts("instance", 1)
  <1>1. PICK n \in call[t].natives :
          Insert("instance", Only(next["instance"],
            [native |-> n, parent |-> NoHandle, pool |-> NoHandle]))
    BY DEF InsertInstance
  <1>2. n \in Natives
    BY DEF CallsTyped, Call
  <1>3. Fits("instance", [native |-> n, parent |-> NoHandle, pool |-> NoHandle])
    BY <1>2, KindFacts DEF Fits, Record, NoHandle
  <1> QED BY <1>1, <1>3, InsertsOne, KindFacts DEF InsertInstance

LEMMA InsertPhysicalDevicesInserts ==
  ASSUME TablesTyped, CallsTyped, NEW t \in Threads, InsertPhysicalDevices(t)
  PROVE  \E n \in Nat : Inserts("physical_device", n)
  <1>1. PICK count \in 0 .. Limit["physical_device"], n \in call[t].natives :
          /\ Insert("physical_device", [h \in Fresh("physical_device", count) |->
               [native |-> n, parent |-> call[t].owner, pool |-> NoHandle]])
          /\ Issue("physical_device", count)
    BY DEF InsertPhysicalDevices
  <1>2. n \in Natives /\ call[t].owner \in Nat
    BY DEF CallsTyped, Call
  <1>3. Fits("physical_device", [native |-> n, parent |-> call[t].owner, pool |-> NoHandle])
    BY <1>2, KindFacts DEF Fits, Record, NoHandle
  <1>4. count \in Nat
    BY LimitAssumption, KindFacts
  <1>5. Inserts("physical_device", count)
    BY <1>1, <1>3 DEF Inserts
  <1> QED BY <1>4, <1>5

LEMMA CreateCommandPoolInserts ==
  ASSUME TablesTyped, NEW t \in Threads, CreateCommandPool(t)
  PROVE  Inserts("command_pool", 1) \/ (table' = table /\ Issue("command_pool", 1))
  <1>1. PICK d \in Registered("device"), n \in Unused, written \in BOOLEAN :
          IF written
          THEN Insert("command_pool", Only(next["command_pool"],
                 [native |-> n, parent |-> d, pool |-> NoHandle]))
          ELSE table' = table
    BY DEF CreateCommandPool
  <1>2. d \in Nat
    BY KindFacts DEF TablesTyped, Registered
  <1>3. Fits("command_pool", [native |-> n, parent |-> d, pool |-> NoHandle])
    BY <1>2, KindFacts DEF Fits, Record, NoHandle, Unused
  <1>4. Issue("command_pool", 1)
    BY DEF CreateCommandPool
  <1> QED BY <1>1, <1>3, <1>4, InsertsOne, KindFacts

LEMMA AllocateCommandBuffersInserts ==
  ASSUME TablesTyped, NEW t \in Threads, AllocateCommandBuffers(t)
  PROVE  \E n \in Nat : \/ Inserts("command_buffer", n)
                        \/ table' = table /\ Issue("command_buffer", n)
  <1>0. PICK d \in Registered("device"), count \in 1 .. Limit["command_buffer"] :
          \E p \in Children("command_pool", {d}), written \in BOOLEAN :
            LET handles == Fresh("command_buffer", count) IN
            /\ Issue("command_buffer", count)
            /\ \E new \in Injections(handles, Unused) :
                 IF written
                 THEN Insert("command_buffer", [h \in handles |->
                        [native |-> new[h], parent |-> d, pool |-> p]])
                 ELSE table' = table
    BY DEF AllocateCommandBuffers
  <1>1. PICK p \in Children("command_pool", {d}), written \in BOOLEAN :
          LET handles == Fresh("command_buffer", count) IN
          /\ Issue("command_buffer", count)
          /\ \E new \in Injections(handles, Unused) :
               IF written
               THEN Insert("command_buffer", [h \in handles |->
                      [native |-> new[h], parent |-> d, pool |-> p]])
               ELSE table' = table
    BY <1>0
  <1>2. PICK new \in Injections(Fresh("command_buffer", count), Unused) :
          IF written
          THEN Insert("command_buffer", [h \in Fresh("command_buffer", count) |->
                 [native |-> new[h], parent |-> d, pool |-> p]])
          ELSE table' = table
    BY <1>1
  <1>3. /\ p \in Registered("command_pool")
        /\ table["command_pool"][p].parent = d
        /\ p \in Nat /\ d \in Nat
    BY KindFacts DEF Children, TablesTyped, Registered
  <1>4. ASSUME NEW h \in Fresh("command_buffer", count)
        PROVE  Fits("command_buffer", [native |-> new[h], parent |-> d, pool |-> p])
    <2>1. new[h] \in Natives
      BY <1>2 DEF Injections, Unused
    <2> QED BY <1>3, <2>1, KindFacts DEF Fits, Record
  <1>5. count \in Nat
    BY LimitAssumption, KindFacts
  <1>6. CASE written
    BY <1>1, <1>2, <1>4, <1>5, <1>6 DEF Inserts
  <1>7. CASE ~written
    BY <1>1, <1>2, <1>5, <1>7
  <1> QED BY <1>6, <1>7

-----------------------------------------------------------------------------
(* Erasures *)

\* Erasing objects nothing refers to keeps the tables closed.
LEMMA EraseKeeps ==
  ASSUME TablesTyped, TablesClosed, NEW k \in DeviceChildKinds \ {"command_pool"},
         NEW S, Erase(k, S), next' = next
  PROVE  Shrinks /\ TablesClosed'
  <1>1. /\ DOMAIN table' = Kinds
        /\ \A j \in Kinds \ {k} : table'[j] = table[j]
        /\ DOMAIN table'[k] = DOMAIN table[k] \ S
        /\ \A h \in DOMAIN table'[k] : table'[k][h] = table[k][h]
    BY KindFacts DEF Erase, Without, TablesTyped
  <1>2. Shrinks
    BY <1>1 DEF Shrinks
  <1>3. /\ table'["device"] = table["device"]
        /\ table'["physical_device"] = table["physical_device"]
        /\ table'["command_pool"] = table["command_pool"]
    BY <1>1, KindFacts
  <1>4. \A j \in Kinds : \A h \in DOMAIN table'[j] :
          h \in DOMAIN table[j] /\ table'[j][h] = table[j][h]
    BY <1>2 DEF Shrinks
  <1> QED BY <1>2, <1>3, <1>4, KindFacts DEF TablesClosed, Registered

\* A pool goes together with its command buffers.
LEMMA DestroyCommandPoolKeeps ==
  ASSUME TablesTyped, TablesClosed, NEW t \in Threads, DestroyCommandPool(t)
  PROVE  Shrinks /\ TablesClosed'
  <1>1. PICK p \in Registered("command_pool") :
          table' = [table EXCEPT
            !["command_pool"] = Without(@, {p}),
            !["command_buffer"] = Without(@, {b \in DOMAIN @ : @[b].pool = p})]
    BY DEF DestroyCommandPool, Children
  <1>2. /\ DOMAIN table' = Kinds
        /\ \A j \in Kinds \ {"command_pool", "command_buffer"} : table'[j] = table[j]
        /\ table'["command_pool"] = Without(table["command_pool"], {p})
        /\ table'["command_buffer"] =
             Without(table["command_buffer"],
                     {b \in DOMAIN table["command_buffer"] :
                        table["command_buffer"][b].pool = p})
    BY <1>1, KindFacts DEF TablesTyped
  <1>3. /\ DOMAIN table'["command_pool"] = DOMAIN table["command_pool"] \ {p}
        /\ \A h \in DOMAIN table'["command_pool"] :
             table'["command_pool"][h] = table["command_pool"][h]
    BY <1>2 DEF Without
  <1>4. \A b \in DOMAIN table'["command_buffer"] :
             /\ b \in DOMAIN table["command_buffer"]
             /\ table'["command_buffer"][b] = table["command_buffer"][b]
             /\ table["command_buffer"][b].pool # p
    BY <1>2 DEF Without
  <1>5. \A j \in Kinds : \A h \in DOMAIN table'[j] :
          h \in DOMAIN table[j] /\ table'[j][h] = table[j][h]
    BY <1>2, <1>3, <1>4
  <1>6. Shrinks
    BY <1>2, <1>5 DEF Shrinks, DestroyCommandPool
  <1>7. /\ table'["device"] = table["device"]
        /\ table'["physical_device"] = table["physical_device"]
    BY <1>2, KindFacts
  <1>8. ASSUME NEW b \in DOMAIN table'["command_buffer"]
        PROVE  LET q == table'["command_buffer"][b].pool IN
               /\ q \in DOMAIN table'["command_pool"]
               /\ table'["command_pool"][q].parent = table'["command_buffer"][b].parent
    BY <1>3, <1>4 DEF TablesClosed, Registered
  <1> QED BY <1>5, <1>6, <1>7, <1>8, KindFacts DEF TablesClosed, Registered

\* A tree goes as a whole, because the devices collected at the start are still
\* all devices below the owner.
LEMMA FinishTeardownKeeps ==
  ASSUME TablesTyped, TablesClosed, TeardownCurrent, NEW t \in Threads, FinishTeardown(t)
  PROVE  Shrinks /\ TablesClosed'
  <1> DEFINE c == call[t]
  <1>1. table' = [k \in Kinds |-> Without(table[k], Condemned(c, k))]
    BY DEF FinishTeardown
  <1>2. \A k \in Kinds : /\ DOMAIN table'[k] = DOMAIN table[k] \ Condemned(c, k)
                         /\ \A h \in DOMAIN table'[k] : table'[k][h] = table[k][h]
    BY <1>1 DEF Without
  <1>3. Shrinks
    BY <1>1, <1>2 DEF Shrinks, FinishTeardown
  <1>4. \A k \in DeviceChildKinds : Condemned(c, k) = Children(k, c.devices)
    BY KindFacts DEF Condemned
  <1>5. Condemned(c, "device") = c.devices
    BY KindFacts DEF Condemned
  <1>6. Condemned(c, "physical_device") =
          IF c.at = "destroy_instance" THEN Children("physical_device", {c.owner}) ELSE {}
    BY KindFacts DEF Condemned
  <1>7. ASSUME NEW k \in DeviceChildKinds, NEW h \in DOMAIN table'[k]
        PROVE  table'[k][h].parent \in DOMAIN table'["device"]
    <2>1. h \in DOMAIN table[k] /\ table'[k][h] = table[k][h] /\ h \notin Children(k, c.devices)
      BY <1>2, <1>4, KindFacts
    <2>2. table[k][h].parent \in DOMAIN table["device"] \ c.devices
      BY <2>1 DEF Children, Registered, TablesClosed
    <2> QED BY <2>1, <2>2, <1>2, <1>5, KindFacts
  <1>8. ASSUME NEW d \in DOMAIN table'["device"]
        PROVE  table'["device"][d].parent \in DOMAIN table'["physical_device"]
    <2>1. /\ d \in DOMAIN table["device"] \ c.devices
          /\ table'["device"][d] = table["device"][d]
      BY <1>2, <1>5, KindFacts
    <2>2. table["device"][d].parent \in DOMAIN table["physical_device"]
      BY <2>1 DEF TablesClosed, Registered
    <2>3. CASE c.at = "destroy_instance"
      <3>1. c.devices = Children("device", Children("physical_device", {c.owner}))
        BY <2>3 DEF TeardownCurrent, DevicesOf
      <3>2. table["device"][d].parent \notin Children("physical_device", {c.owner})
        BY <2>1, <3>1 DEF Children, Registered
      <3> QED BY <2>1, <2>2, <2>3, <3>2, <1>2, <1>6, KindFacts
    <2>4. CASE c.at # "destroy_instance"
      BY <2>1, <2>2, <2>4, <1>2, <1>6, KindFacts
    <2> QED BY <2>3, <2>4
  <1>9. ASSUME NEW b \in DOMAIN table'["command_buffer"]
        PROVE  LET p == table'["command_buffer"][b].pool IN
               /\ p \in DOMAIN table'["command_pool"]
               /\ table'["command_pool"][p].parent = table'["command_buffer"][b].parent
    <2> DEFINE p == table["command_buffer"][b].pool
    <2>1. /\ b \in DOMAIN table["command_buffer"] \ Children("command_buffer", c.devices)
          /\ table'["command_buffer"][b] = table["command_buffer"][b]
      BY <1>2, <1>4, KindFacts
    <2>2. /\ p \in DOMAIN table["command_pool"]
          /\ table["command_pool"][p].parent = table["command_buffer"][b].parent
      BY <2>1 DEF TablesClosed, Registered
    <2>3. p \notin Children("command_pool", c.devices)
      BY <2>1, <2>2 DEF Children, Registered
    <2>4. p \in DOMAIN table'["command_pool"]
      BY <2>2, <2>3, <1>2, <1>4, KindFacts
    <2> QED BY <2>1, <2>2, <2>4, <1>2, KindFacts
  <1> QED BY <1>3, <1>7, <1>8, <1>9 DEF TablesClosed, Registered

-----------------------------------------------------------------------------
(* The tables after any step *)

LEMMA LeafCallTables ==
  ASSUME TablesTyped, TablesClosed, NEW t \in Threads, LeafCall(t)
  PROVE  TablesTyped' /\ TablesClosed' /\ KeepsHandles
  <1>1. ASSUME NEW k \in LeafKinds, CreateLeaf(t, k)
        PROVE  TablesTyped' /\ TablesClosed' /\ KeepsHandles
    BY <1>1, CreateLeafInserts, InsertsTyped, InsertsClosed, KindFacts
  <1>2. ASSUME NEW k \in LeafKinds, DestroyLeaf(t, k)
        PROVE  TablesTyped' /\ TablesClosed' /\ KeepsHandles
    <2>1. \E S : Erase(k, S)
      BY <1>2 DEF DestroyLeaf
    <2>2. next' = next /\ k \in DeviceChildKinds \ {"command_pool"}
      BY <1>2, KindFacts DEF DestroyLeaf
    <2> QED BY <2>1, <2>2, EraseKeeps, ShrinksTyped
  <1>3. ASSUME table' = table, next' = next
        PROVE  TablesTyped' /\ TablesClosed' /\ KeepsHandles
    BY <1>3 DEF TablesTyped, TablesClosed, Registered, KeepsHandles
  <1>4. \/ \E k \in LeafKinds : CreateLeaf(t, k) \/ DestroyLeaf(t, k)
        \/ table' = table /\ next' = next
    BY DEF LeafCall, LeafKinds, UseChild, BindMemory,
           CreateShaderModule, DestroyShaderModule, CreateSemaphore, DestroySemaphore,
           CreateFence, DestroyFence, GetFenceStatus, CreateBuffer, DestroyBuffer,
           GetBufferMemoryRequirements, BindBufferMemory, CreateImage, DestroyImage,
           GetImageMemoryRequirements, BindImageMemory, AllocateMemory, FreeMemory,
           CopyGuestToDeviceMemory, CopyDeviceMemoryToGuest
  <1> QED BY <1>1, <1>2, <1>3, <1>4

LEMMA CommandCallTables ==
  ASSUME TablesTyped, TablesClosed, NEW t \in Threads, CommandCall(t)
  PROVE  TablesTyped' /\ TablesClosed' /\ KeepsHandles
  <1>1. ASSUME table' = table, NEW k \in Kinds, NEW n \in Nat, Issue(k, n)
        PROVE  TablesTyped' /\ TablesClosed' /\ KeepsHandles
    BY <1>1, IssueTyped DEF TablesClosed, Registered, KeepsHandles
  <1>2. CASE CreateCommandPool(t)
    BY <1>1, <1>2, CreateCommandPoolInserts, InsertsTyped, InsertsClosed, KindFacts
  <1>3. CASE AllocateCommandBuffers(t)
    BY <1>1, <1>3, AllocateCommandBuffersInserts, InsertsTyped, InsertsClosed, KindFacts
  <1>4. CASE DestroyCommandPool(t)
    BY <1>4, DestroyCommandPoolKeeps, ShrinksTyped
  <1>5. CASE FreeCommandBuffers(t)
    <2>1. (\E S : Erase("command_buffer", S)) /\ next' = next
      BY <1>5 DEF FreeCommandBuffers
    <2> QED BY <2>1, EraseKeeps, ShrinksTyped, KindFacts
  <1>6. CASE \/ ResetCommandPool(t) \/ BeginCommandBuffer(t)
             \/ EndCommandBuffer(t) \/ ResetCommandBuffer(t)
    <2>1. table' = table /\ next' = next
      BY <1>6 DEF ResetCommandPool, BeginCommandBuffer, EndCommandBuffer,
                  ResetCommandBuffer, UseChild, UseCommandBuffer
    <2> QED BY <2>1 DEF TablesTyped, TablesClosed, Registered, KeepsHandles
  <1> QED BY <1>2, <1>3, <1>4, <1>5, <1>6 DEF CommandCall

\* The steps that leave the tables and their counters alone.
LEMMA OtherCallTables ==
  ASSUME NEW t \in Threads,
         \/ RejectedCall(t) \/ QueryPhysicalDevice(t) \/ Start(t)
         \/ WaitForFences(t) \/ ResetFences(t) \/ FenceDeviceGone(t)
         \/ WaitReturns(t) \/ DestroyStage(t)
  PROVE  table' = table /\ next' = next
  <1>1. CASE Start(t)
    BY <1>1 DEF Start, CreateInstance, EnumeratePhysicalDevices, ResolveFenceList,
                DeviceWaitIdle, QueueWaitIdle, DestroyDevice, DestroyInstance
  <1> QED BY <1>1 DEF RejectedCall, vars, QueryPhysicalDevice, WaitForFences,
                      ResetFences, FenceDeviceGone, WaitReturns, DestroyStage

LEMMA StepTables ==
  ASSUME TypeOK, TablesClosed, TeardownCurrent, NEW t \in Threads, Step(t)
  PROVE  TablesTyped' /\ TablesClosed' /\ KeepsHandles
  <1> USE DEF TypeOK
  <1>1. CASE \/ RejectedCall(t) \/ QueryPhysicalDevice(t) \/ Start(t)
             \/ WaitForFences(t) \/ ResetFences(t) \/ FenceDeviceGone(t)
             \/ WaitReturns(t) \/ DestroyStage(t)
    <2>1. table' = table /\ next' = next
      BY <1>1, OtherCallTables
    <2> QED BY <2>1 DEF TablesTyped, TablesClosed, Registered, KeepsHandles
  <1>2. CASE LeafCall(t)
    BY <1>2, LeafCallTables
  <1>3. CASE CommandCall(t)
    BY <1>3, CommandCallTables
  <1>4. CASE CreateDevice(t)
    BY <1>4, CreateDeviceInserts, InsertsTyped, InsertsClosed, KindFacts
  <1>5. CASE GetDeviceQueue(t)
    BY <1>5, GetDeviceQueueInserts, InsertsTyped, InsertsClosed, KindFacts
  <1>6. CASE InsertInstance(t)
    BY <1>6, InsertInstanceInserts, InsertsTyped, InsertsClosed, KindFacts
  <1>7. CASE InsertPhysicalDevices(t)
    BY <1>7, InsertPhysicalDevicesInserts, InsertsTyped, InsertsClosed, KindFacts
  <1>8. CASE FinishTeardown(t)
    BY <1>8, FinishTeardownKeeps, ShrinksTyped
  <1> QED BY <1>1, <1>2, <1>3, <1>4, <1>5, <1>6, <1>7, <1>8
          DEF Step, DeviceCall, Reacquire, Continue, EnumerateDeviceExtensionProperties,
              GetPhysicalDeviceProperties, GetPhysicalDeviceFeatures,
              GetPhysicalDeviceMemoryProperties, GetPhysicalDeviceQueueFamilyProperties

-----------------------------------------------------------------------------
(* The calls and the lock after any step *)

\* What thread t may make of its call.
Moves(t) ==
  /\ lock \in {NoThread, t}
  /\ lock' \in {NoThread, t}
  /\ \E c \in Call : /\ Become(t, c)
                     /\ c.at \in Holding <=> lock' = t
                     /\ c.at = "destroy_device" =>
                          c.devices = {c.owner} /\ c.owner \in Registered("device")
                     /\ c.at = "destroy_instance" => c.devices = DevicesOf(c.owner)
                     /\ c.at \in Teardowns => table' = table

LEMMA PlainSteps ==
  ASSUME NEW t \in Threads,
         RejectedCall(t) \/ LeafCall(t) \/ CommandCall(t) \/ DeviceCall(t)
  PROVE  lock = NoThread /\ lock' = lock /\ call' = call
  <1>1. CASE RejectedCall(t)
    BY <1>1 DEF RejectedCall, Enter, vars
  <1>2. CASE LeafCall(t)
    BY <1>2 DEF LeafCall, UseChild, BindMemory, CreateLeaf, DestroyLeaf, Enter,
           CreateShaderModule, DestroyShaderModule, CreateSemaphore, DestroySemaphore,
           CreateFence, DestroyFence, GetFenceStatus, CreateBuffer, DestroyBuffer,
           GetBufferMemoryRequirements, BindBufferMemory, CreateImage, DestroyImage,
           GetImageMemoryRequirements, BindImageMemory, AllocateMemory, FreeMemory,
           CopyGuestToDeviceMemory, CopyDeviceMemoryToGuest
  <1>3. CASE CommandCall(t)
    BY <1>3 DEF CommandCall, CreateCommandPool, DestroyCommandPool, ResetCommandPool,
           AllocateCommandBuffers, FreeCommandBuffers, BeginCommandBuffer,
           EndCommandBuffer, ResetCommandBuffer, UseChild, UseCommandBuffer, Enter
  <1>4. CASE DeviceCall(t)
    BY <1>4 DEF DeviceCall, CreateDevice, GetDeviceQueue, QueryPhysicalDevice, Enter,
           EnumerateDeviceExtensionProperties, GetPhysicalDeviceProperties,
           GetPhysicalDeviceFeatures, GetPhysicalDeviceMemoryProperties,
           GetPhysicalDeviceQueueFamilyProperties
  <1> QED BY <1>1, <1>2, <1>3, <1>4

\* Moves keep the calls typed, the lock with the one call that needs it and the
\* collected devices current.
LEMMA MovesKeep ==
  ASSUME CallsTyped, LockHeld, TeardownCurrent, NEW t \in Threads, Moves(t)
  PROVE  CallsTyped' /\ LockHeld' /\ TeardownCurrent'
  <1>1. PICK c \in Call :
          /\ Become(t, c)
          /\ c.at \in Holding <=> lock' = t
          /\ c.at = "destroy_device" =>
               c.devices = {c.owner} /\ c.owner \in Registered("device")
          /\ c.at = "destroy_instance" => c.devices = DevicesOf(c.owner)
          /\ c.at \in Teardowns => table' = table
    BY DEF Moves
  <1>2. call' = [call EXCEPT ![t] = c] /\ call \in [Threads -> Call]
    BY <1>1 DEF Become, CallsTyped
  <1>3. CallsTyped'
    BY <1>2 DEF CallsTyped, Moves
  <1>4. \A u \in Threads \ {t} : call'[u] = call[u] /\ call[u].at \notin Holding
    BY <1>2, NoThreadAssumption DEF LockHeld, Moves
  <1>5. call'[t] = c
    BY <1>2
  <1>6. LockHeld'
    BY <1>1, <1>4, <1>5, NoThreadAssumption DEF LockHeld, Moves
  <1>7. \A u \in Threads \ {t} : call'[u].at \notin Teardowns
    BY <1>4 DEF Holding, Waits
  <1>8. c.at \in Teardowns => DevicesOf(c.owner)' = DevicesOf(c.owner)
                              /\ Registered("device")' = Registered("device")
    BY <1>1 DEF DevicesOf, Children, Registered
  <1>9. TeardownCurrent'
    BY <1>1, <1>5, <1>7, <1>8 DEF TeardownCurrent, Teardowns, DevicesOf, Children, Registered
  <1> QED BY <1>3, <1>6, <1>9

LEMMA IdleCall ==
  /\ Idle \in Call
  /\ Idle.at = "idle"
  /\ "idle" \notin Holding
  /\ \A at \in Unlocked : at \notin Holding
  BY DEF Idle, Call, Unlocked, Holding, Waits, Teardowns, NoHandle

\* Calls that end, or that only take or give back the lock.
LEMMA ReturnMoves ==
  ASSUME NEW t \in Threads, lock \in {NoThread, t}, lock' = NoThread, Return(t)
  PROVE  Moves(t)
  BY IdleCall, NoThreadAssumption DEF Moves, Return, Idle, Teardowns

LEMMA HoldMoves ==
  ASSUME NEW t \in Threads, lock = NoThread, NEW at \in {"waiting", "waiting_forever"},
         Hold(t, [Idle EXCEPT !.at = at])
  PROVE  Moves(t)
  <1> DEFINE c == [Idle EXCEPT !.at = at]
  <1>1. c \in Call /\ c.at = at
    BY DEF Idle, Call, Holding, Waits, NoHandle
  <1>2. at \in Holding /\ at \notin Teardowns
    BY DEF Holding, Waits, Teardowns
  <1> QED BY <1>1, <1>2 DEF Moves, Hold, Teardowns

LEMMA StartMoves ==
  ASSUME TablesTyped, NEW t \in Threads, Start(t), ~CreateInstance(t)
  PROVE  Moves(t)
  <1>1. CASE EnumeratePhysicalDevices(t)
    <2>1. PICK i \in Registered("instance") :
            Become(t, [Idle EXCEPT !.at = "insert_physical", !.owner = i,
                                   !.natives = {Native("instance", i)}])
      BY <1>1 DEF EnumeratePhysicalDevices
    <2>2. i \in Nat /\ Native("instance", i) \in Natives
      BY KindFacts DEF TablesTyped, Registered, Native, Record
    <2> DEFINE c == [Idle EXCEPT !.at = "insert_physical", !.owner = i,
                                 !.natives = {Native("instance", i)}]
    <2>3. c \in Call /\ c.at = "insert_physical"
      BY <2>2 DEF Idle, Call, Unlocked
    <2>4. lock = NoThread /\ lock' = lock
      BY <1>1 DEF EnumeratePhysicalDevices, Enter
    <2> QED BY <2>1, <2>3, <2>4, NoThreadAssumption DEF Moves, Holding, Waits, Teardowns
  <1>2. ASSUME NEW at \in {"wait_fences", "reset_fences"}, ResolveFenceList(t, at)
        PROVE  Moves(t)
    <2>1. PICK d \in Registered("device") :
            \E fences \in SUBSET Children("fence", {d}) \ {{}} :
              Become(t, [Idle EXCEPT !.at = at, !.owner = d,
                                     !.natives = NativesOf("fence", fences)])
      BY <1>2 DEF ResolveFenceList
    <2>2. PICK fences \in SUBSET Children("fence", {d}) \ {{}} :
            Become(t, [Idle EXCEPT !.at = at, !.owner = d,
                                   !.natives = NativesOf("fence", fences)])
      BY <2>1
    <2>3. d \in Nat /\ NativesOf("fence", fences) \subseteq Natives
      BY KindFacts DEF TablesTyped, Registered, NativesOf, Native, Record, Children,
                       LeafKinds, DeviceChildKinds, Kinds
    <2> DEFINE c == [Idle EXCEPT !.at = at, !.owner = d,
                                 !.natives = NativesOf("fence", fences)]
    <2>4. c \in Call /\ c.at = at
      BY <2>3 DEF Idle, Call, Unlocked
    <2>5. lock = NoThread /\ lock' = lock
      BY <1>2 DEF ResolveFenceList, Enter
    <2> QED BY <2>2, <2>4, <2>5, NoThreadAssumption DEF Moves, Holding, Waits, Teardowns
  <1>3. CASE DeviceWaitIdle(t) \/ QueueWaitIdle(t)
    BY <1>3, HoldMoves DEF DeviceWaitIdle, QueueWaitIdle, Enter
  <1>4. CASE DestroyDevice(t)
    <2>1. PICK d \in Registered("device") :
            Hold(t, [Idle EXCEPT !.at = "destroy_device", !.owner = d,
                                 !.devices = {d}, !.stage = 1])
      BY <1>4 DEF DestroyDevice
    <2>2. d \in Nat
      BY KindFacts DEF TablesTyped, Registered
    <2> DEFINE c == [Idle EXCEPT !.at = "destroy_device", !.owner = d,
                                 !.devices = {d}, !.stage = 1]
    <2>3. c \in Call /\ c.at = "destroy_device" /\ c.devices = {d} /\ c.owner = d
      BY <2>2 DEF Idle, Call, Holding, Waits, Teardowns
    <2>4. lock = NoThread /\ table' = table
      BY <1>4 DEF DestroyDevice, Enter
    <2> QED BY <2>1, <2>3, <2>4 DEF Moves, Hold, Holding, Waits, Teardowns
  <1>5. CASE DestroyInstance(t)
    <2>1. PICK i \in Registered("instance") :
            Hold(t, [Idle EXCEPT !.at = "destroy_instance", !.owner = i,
                                 !.devices = DevicesOf(i), !.stage = 1])
      BY <1>5 DEF DestroyInstance
    <2>2. i \in Nat /\ DevicesOf(i) \subseteq Nat
      BY KindFacts DEF TablesTyped, Registered, DevicesOf, Children
    <2> DEFINE c == [Idle EXCEPT !.at = "destroy_instance", !.owner = i,
                                 !.devices = DevicesOf(i), !.stage = 1]
    <2>3. c \in Call /\ c.at = "destroy_instance" /\ c.devices = DevicesOf(i) /\ c.owner = i
      BY <2>2 DEF Idle, Call, Holding, Waits, Teardowns
    <2>4. lock = NoThread /\ table' = table
      BY <1>5 DEF DestroyInstance, Enter
    <2> QED BY <2>1, <2>3, <2>4 DEF Moves, Hold, Holding, Waits, Teardowns
  <1> QED BY <1>1, <1>2, <1>3, <1>4, <1>5 DEF Start

LEMMA ReacquireMoves ==
  ASSUME NEW t \in Threads, Reacquire(t)
  PROVE  Moves(t)
  <1>1. CASE \/ InsertInstance(t) \/ InsertPhysicalDevices(t)
             \/ ResetFences(t) \/ FenceDeviceGone(t)
    BY <1>1, ReturnMoves DEF InsertInstance, InsertPhysicalDevices, ResetFences,
                             FenceDeviceGone, Resume
  <1>2. CASE WaitForFences(t)
    <2>1. PICK forever \in {UnboundedWaits, FALSE} :
            Hold(t, [Idle EXCEPT !.at = IF forever THEN "waiting_forever" ELSE "waiting"])
      BY <1>2 DEF WaitForFences
    <2>2. lock = NoThread
      BY <1>2 DEF WaitForFences, Resume
    <2>3. (IF forever THEN "waiting_forever" ELSE "waiting") \in {"waiting", "waiting_forever"}
      OBVIOUS
    <2> QED BY <2>1, <2>2, <2>3, HoldMoves
  <1> QED BY <1>1, <1>2 DEF Reacquire

LEMMA ContinueMoves ==
  ASSUME CallsTyped, LockHeld, TeardownCurrent, NEW t \in Threads, Continue(t)
  PROVE  Moves(t)
  <1>1. call[t].at \in Holding
    BY DEF Continue, WaitReturns, DestroyStage, FinishTeardown, Holding, Waits
  <1>2. lock = t
    BY <1>1 DEF LockHeld
  <1>3. CASE WaitReturns(t) \/ FinishTeardown(t)
    BY <1>2, <1>3, ReturnMoves DEF WaitReturns, FinishTeardown
  <1>4. CASE DestroyStage(t)
    <2> DEFINE c == [call[t] EXCEPT !.stage = @ + 1]
    <2>1. call[t] \in Call
      BY DEF CallsTyped
    <2>2. /\ c \in Call
          /\ c.at = call[t].at /\ c.devices = call[t].devices /\ c.owner = call[t].owner
      BY <2>1 DEF Call
    <2>3. Become(t, c) /\ table' = table /\ lock' = lock
      BY <1>4 DEF DestroyStage
    <2> QED BY <1>1, <1>2, <2>2, <2>3 DEF Moves, TeardownCurrent
  <1> QED BY <1>3, <1>4 DEF Continue

\* CreateInstance takes its first step while another thread may have the lock.
LEMMA CreateInstanceKeeps ==
  ASSUME CallsTyped, LockHeld, TeardownCurrent, NEW t \in Threads, CreateInstance(t)
  PROVE  CallsTyped' /\ LockHeld' /\ TeardownCurrent'
  <1>1. PICK n \in Unused :
          Become(t, [Idle EXCEPT !.at = "insert_instance", !.natives = {n}])
    BY DEF CreateInstance
  <1> DEFINE c == [Idle EXCEPT !.at = "insert_instance", !.natives = {n}]
  <1>2. c \in Call /\ c.at = "insert_instance"
    BY <1>1 DEF Unused, Idle, Call, Unlocked, NoHandle
  <1>3. call' = [call EXCEPT ![t] = c] /\ call \in [Threads -> Call]
    BY <1>1 DEF Become, CallsTyped
  <1>4. call'[t] = c /\ \A u \in Threads \ {t} : call'[u] = call[u]
    BY <1>3
  <1>5. lock' = lock /\ table' = table /\ call[t].at = "idle"
    BY DEF CreateInstance
  <1>6. c.at \notin Holding /\ call[t].at \notin Holding /\ c.at \notin Teardowns
    BY <1>2, <1>5, IdleCall DEF Holding, Waits, Teardowns
  <1>7. CallsTyped'
    BY <1>2, <1>3, <1>5 DEF CallsTyped
  <1>8. LockHeld'
    BY <1>4, <1>5, <1>6 DEF LockHeld
  <1>9. TeardownCurrent'
    <2>1. \A u \in Threads : call'[u].at \in Teardowns => call'[u] = call[u]
      BY <1>4, <1>6
    <2>2. Registered("device")' = Registered("device")
      BY <1>5 DEF Registered
    <2>3. \A o : DevicesOf(o)' = DevicesOf(o)
      BY <1>5 DEF DevicesOf, Children, Registered
    <2> QED BY <2>1, <2>2, <2>3 DEF TeardownCurrent, Teardowns
  <1> QED BY <1>7, <1>8, <1>9

LEMMA StepCalls ==
  ASSUME TypeOK, LockHeld, TeardownCurrent, NEW t \in Threads, Step(t)
  PROVE  CallsTyped' /\ LockHeld' /\ TeardownCurrent'
  <1>1. CASE RejectedCall(t) \/ LeafCall(t) \/ CommandCall(t) \/ DeviceCall(t)
    <2>1. lock = NoThread /\ lock' = lock /\ call' = call
      BY <1>1, PlainSteps
    <2>2. \A u \in Threads : call'[u].at \notin Teardowns
      BY <2>1, NoThreadAssumption DEF LockHeld, Holding, Waits
    <2>3. CallsTyped' /\ LockHeld'
      BY <2>1 DEF TypeOK, CallsTyped, LockHeld
    <2>4. TeardownCurrent'
      BY <2>2 DEF TeardownCurrent, Teardowns
    <2> QED BY <2>3, <2>4
  <1>2. CASE CreateInstance(t)
    BY <1>2, CreateInstanceKeeps DEF TypeOK
  <1>3. CASE Start(t) /\ ~CreateInstance(t)
    BY <1>3, StartMoves, MovesKeep DEF TypeOK
  <1>4. CASE Reacquire(t)
    BY <1>4, ReacquireMoves, MovesKeep DEF TypeOK
  <1>5. CASE Continue(t)
    BY <1>5, ContinueMoves, MovesKeep DEF TypeOK
  <1> QED BY <1>1, <1>2, <1>3, <1>4, <1>5 DEF Step

-----------------------------------------------------------------------------
(* The driver's objects after any step *)

LEMMA StepMisuse ==
  ASSUME DriverTyped, NEW t \in Threads, Step(t)
  PROVE  misuse' \subseteq Misuses
  <1>1. \/ misuse' = misuse
        \/ \E way \in Misuses : misuse' = misuse \cup {way}
    <2>1. CASE LeafCall(t)
      BY <2>1 DEF LeafCall, UseChild, BindMemory, CreateLeaf, DestroyLeaf, Report, Misuses,
           CreateShaderModule, DestroyShaderModule, CreateSemaphore, DestroySemaphore,
           CreateFence, DestroyFence, GetFenceStatus, CreateBuffer, DestroyBuffer,
           GetBufferMemoryRequirements, BindBufferMemory, CreateImage, DestroyImage,
           GetImageMemoryRequirements, BindImageMemory, AllocateMemory, FreeMemory,
           CopyGuestToDeviceMemory, CopyDeviceMemoryToGuest
    <2>2. CASE CommandCall(t)
      BY <2>2 DEF CommandCall, CreateCommandPool, DestroyCommandPool, ResetCommandPool,
           AllocateCommandBuffers, FreeCommandBuffers, BeginCommandBuffer,
           EndCommandBuffer, ResetCommandBuffer, UseChild, UseCommandBuffer, Report, Misuses
    <2>3. CASE RejectedCall(t) \/ DeviceCall(t)
      BY <2>3 DEF RejectedCall, vars, DeviceCall, CreateDevice, GetDeviceQueue,
           QueryPhysicalDevice, EnumerateDeviceExtensionProperties,
           GetPhysicalDeviceProperties, GetPhysicalDeviceFeatures,
           GetPhysicalDeviceMemoryProperties, GetPhysicalDeviceQueueFamilyProperties,
           Report, Misuses
    <2>4. CASE Start(t)
      BY <2>4 DEF Start, CreateInstance, EnumeratePhysicalDevices, ResolveFenceList,
           DeviceWaitIdle, QueueWaitIdle, DestroyDevice, DestroyInstance, Report, Misuses
    <2>5. CASE Reacquire(t)
      BY <2>5 DEF Reacquire, InsertInstance, InsertPhysicalDevices, WaitForFences,
           ResetFences, FenceDeviceGone, UseFences, Report, Misuses
    <2>6. CASE WaitReturns(t) \/ FinishTeardown(t)
      BY <2>6 DEF WaitReturns, FinishTeardown
    <2>7. CASE DestroyStage(t)
      <3>1. \E way \in Misuses : misuse' = misuse \/ misuse' = misuse \cup {way}
        BY <2>7 DEF DestroyStage, Report, Misuses
      <3> QED BY <3>1
    <2> QED BY <2>1, <2>2, <2>3, <2>4, <2>5, <2>6, <2>7 DEF Step, Continue
  <1> QED BY <1>1 DEF DriverTyped

LiveTyped ==
  /\ DOMAIN live \subseteq Natives
  /\ \A n \in DOMAIN live : live[n] \in DriverObject

LEMMA CreatedLive ==
  ASSUME LiveTyped, NEW ns \in SUBSET Natives, NEW o \in DriverObject,
         live' = Override([n \in ns |-> o], live)
  PROVE  LiveTyped'
  BY DEF LiveTyped, Override

LEMMA CreatedOneLive ==
  ASSUME LiveTyped, NEW n \in Natives, NEW o \in DriverObject,
         live' = Override(Only(n, o), live)
  PROVE  LiveTyped'
  BY DEF LiveTyped, Override, Only

LEMMA DestroyedLive ==
  ASSUME LiveTyped, NEW S, live' = Without(live, S)
  PROVE  LiveTyped'
  BY DEF LiveTyped, Without

LEMMA NativesTyped ==
  ASSUME TablesTyped, NEW k \in Kinds, NEW h \in Registered(k)
  PROVE  Native(k, h) \in Natives
  BY DEF TablesTyped, Registered, Native, Record

LEMMA OwningFacts ==
  /\ LeafKinds \subseteq OwningKinds
  /\ {"instance", "device", "command_pool", "command_buffer"} \subseteq OwningKinds
  BY DEF OwningKinds, Kinds, DeviceChildKinds, LeafKinds

LEMMA StepLive ==
  ASSUME TablesTyped, LiveTyped, NEW t \in Threads, Step(t)
  PROVE  LiveTyped'
  <1>0. ASSUME live' = live PROVE LiveTyped'
    BY <1>0 DEF LiveTyped
  <1>1. ASSUME NEW k \in LeafKinds, CreateLeaf(t, k) PROVE LiveTyped'
    <2>1. PICK d \in Registered("device"), n \in Unused :
            live' = Override(Only(n, [kind |-> k, parent |-> Native("device", d)]), live)
      BY <1>1 DEF CreateLeaf
    <2>2. [kind |-> k, parent |-> Native("device", d)] \in DriverObject
      BY NativesTyped, KindFacts, OwningFacts DEF DriverObject
    <2> QED BY <2>1, <2>2, CreatedOneLive DEF Unused
  <1>2. ASSUME NEW k \in LeafKinds, DestroyLeaf(t, k) PROVE LiveTyped'
    BY <1>2, DestroyedLive DEF DestroyLeaf
  <1>3. CASE LeafCall(t)
    <2>1. \/ \E k \in LeafKinds : CreateLeaf(t, k) \/ DestroyLeaf(t, k)
          \/ live' = live
      BY <1>3 DEF LeafCall, LeafKinds, UseChild, BindMemory,
           CreateShaderModule, DestroyShaderModule, CreateSemaphore, DestroySemaphore,
           CreateFence, DestroyFence, GetFenceStatus, CreateBuffer, DestroyBuffer,
           GetBufferMemoryRequirements, BindBufferMemory, CreateImage, DestroyImage,
           GetImageMemoryRequirements, BindImageMemory, AllocateMemory, FreeMemory,
           CopyGuestToDeviceMemory, CopyDeviceMemoryToGuest
    <2> QED BY <2>1, <1>0, <1>1, <1>2
  <1>4. CASE CreateCommandPool(t)
    <2>1. PICK d \in Registered("device"), n \in Unused :
            \/ live' = live
            \/ live' = Override(Only(n, [kind |-> "command_pool",
                                         parent |-> Native("device", d)]), live)
      BY <1>4 DEF CreateCommandPool
    <2>2. [kind |-> "command_pool", parent |-> Native("device", d)] \in DriverObject
      BY NativesTyped, KindFacts, OwningFacts DEF DriverObject
    <2> QED BY <2>1, <2>2, <1>0, CreatedOneLive DEF Unused
  <1>5. CASE AllocateCommandBuffers(t)
    <2>1. PICK d \in Registered("device"), count \in 1 .. Limit["command_buffer"] :
            \E p \in Children("command_pool", {d}), written \in BOOLEAN :
              \E new \in Injections(Fresh("command_buffer", count), Unused) :
                IF written
                THEN live' = Override(
                       [n \in {new[h] : h \in Fresh("command_buffer", count)} |->
                          [kind |-> "command_buffer",
                           parent |-> Native("command_pool", p)]], live)
                ELSE live' = live
      BY <1>5 DEF AllocateCommandBuffers
    <2>2. PICK p \in Children("command_pool", {d}), written \in BOOLEAN,
               new \in Injections(Fresh("command_buffer", count), Unused) :
            IF written
            THEN live' = Override(
                   [n \in {new[h] : h \in Fresh("command_buffer", count)} |->
                      [kind |-> "command_buffer",
                       parent |-> Native("command_pool", p)]], live)
            ELSE live' = live
      BY <2>1
    <2> DEFINE ns == {new[h] : h \in Fresh("command_buffer", count)}
               o == [kind |-> "command_buffer", parent |-> Native("command_pool", p)]
    <2>3. p \in Registered("command_pool")
      BY DEF Children
    <2>4. o \in DriverObject
      BY <2>3, NativesTyped, KindFacts, OwningFacts DEF DriverObject
    <2>5. ns \in SUBSET Natives
      BY DEF Injections, Unused
    <2>6. live' = live \/ live' = Override([n \in ns |-> o], live)
      BY <2>2
    <2> HIDE DEF ns, o
    <2> QED BY <2>4, <2>5, <2>6, <1>0, CreatedLive
  <1>6. CASE DestroyCommandPool(t)
    BY <1>6, DestroyedLive DEF DestroyCommandPool
  <1>7. CASE FreeCommandBuffers(t)
    BY <1>7, DestroyedLive DEF FreeCommandBuffers
  <1>8. CASE CreateDevice(t)
    <2>1. PICK g \in Registered("physical_device"), n \in Unused :
            live' = Override(Only(n, [kind |-> "device",
                                      parent |-> Native("physical_device", g)]), live)
      BY <1>8 DEF CreateDevice
    <2>2. [kind |-> "device", parent |-> Native("physical_device", g)] \in DriverObject
      BY NativesTyped, KindFacts, OwningFacts DEF DriverObject
    <2> QED BY <2>1, <2>2, CreatedOneLive DEF Unused
  <1>9. CASE CreateInstance(t)
    <2>1. PICK n \in Unused :
            live' = Override(Only(n, [kind |-> "instance", parent |-> NoNative]), live)
      BY <1>9 DEF CreateInstance
    <2>2. [kind |-> "instance", parent |-> NoNative] \in DriverObject
      BY OwningFacts DEF DriverObject
    <2> QED BY <2>1, <2>2, CreatedOneLive DEF Unused
  <1>10. CASE DestroyStage(t)
    BY <1>10, DestroyedLive DEF DestroyStage
  <1>11. CASE CommandCall(t)
    <2>1. \/ CreateCommandPool(t) \/ AllocateCommandBuffers(t)
          \/ DestroyCommandPool(t) \/ FreeCommandBuffers(t) \/ live' = live
      BY <1>11 DEF CommandCall, ResetCommandPool, BeginCommandBuffer,
           EndCommandBuffer, ResetCommandBuffer, UseChild, UseCommandBuffer
    <2> QED BY <2>1, <1>0, <1>4, <1>5, <1>6, <1>7
  <1>12. CASE Start(t) \/ DeviceCall(t)
    <2>1. CreateInstance(t) \/ CreateDevice(t) \/ live' = live
      BY <1>12 DEF Start, EnumeratePhysicalDevices, ResolveFenceList,
           DeviceWaitIdle, QueueWaitIdle, DestroyDevice, DestroyInstance, DeviceCall,
           GetDeviceQueue, QueryPhysicalDevice, EnumerateDeviceExtensionProperties,
           GetPhysicalDeviceProperties, GetPhysicalDeviceFeatures,
           GetPhysicalDeviceMemoryProperties, GetPhysicalDeviceQueueFamilyProperties
    <2> QED BY <2>1, <1>0, <1>8, <1>9
  <1>13. CASE RejectedCall(t) \/ Reacquire(t) \/ WaitReturns(t) \/ FinishTeardown(t)
    <2>1. live' = live
      BY <1>13 DEF RejectedCall, vars, Reacquire, InsertInstance, InsertPhysicalDevices,
           WaitForFences, ResetFences, FenceDeviceGone, WaitReturns, FinishTeardown
    <2> QED BY <2>1, <1>0
  <1> QED BY <1>3, <1>10, <1>11, <1>12, <1>13 DEF Step, Continue

-----------------------------------------------------------------------------
(* The theorems *)

\* The invariant that is inductive: the tables stay closed when a tree is erased
\* because the devices its handler collected are current, and these are because
\* no other thread gets into a critical section meanwhile.
Inv == TypeOK /\ LockHeld /\ TeardownCurrent /\ TablesClosed

LEMMA InitInv == Init => Inv
  <1> SUFFICES ASSUME Init PROVE Inv
    OBVIOUS
  <1>1. TablesTyped
    BY DEF Init, TablesTyped, Registered
  <1>2. DriverTyped
    BY DEF Init, DriverTyped
  <1>3. CallsTyped
    BY IdleCall DEF Init, CallsTyped
  <1>4. LockHeld
    BY IdleCall, NoThreadAssumption DEF Init, LockHeld
  <1>5. TeardownCurrent
    BY IdleCall DEF Init, TeardownCurrent
  <1>6. TablesClosed
    BY KindFacts DEF Init, TablesClosed, Registered
  <1> QED BY <1>1, <1>2, <1>3, <1>4, <1>5, <1>6 DEF Inv, TypeOK

LEMMA NextInv == Inv /\ [Next]_vars => Inv' /\ (KeepsHandles \/ UNCHANGED vars)
  <1> SUFFICES ASSUME Inv, [Next]_vars
               PROVE  Inv' /\ (KeepsHandles \/ UNCHANGED vars)
    OBVIOUS
  <1>1. ASSUME NEW t \in Threads, Step(t) PROVE Inv' /\ KeepsHandles
    <2>1. TablesTyped' /\ TablesClosed' /\ KeepsHandles
      BY <1>1, StepTables DEF Inv
    <2>2. CallsTyped' /\ LockHeld' /\ TeardownCurrent'
      BY <1>1, StepCalls DEF Inv
    <2>3. DriverTyped'
      BY <1>1, StepLive, StepMisuse DEF Inv, TypeOK, DriverTyped, LiveTyped
    <2> QED BY <2>1, <2>2, <2>3 DEF Inv, TypeOK
  <1>2. CASE UNCHANGED vars
    BY <1>2 DEF vars, Inv, TypeOK, TablesTyped, DriverTyped, CallsTyped, LockHeld,
                TeardownCurrent, DevicesOf, Children, Registered, TablesClosed
  <1> QED BY <1>1, <1>2 DEF Next

\* All parts of the state keep their types and every registered handle was
\* issued by the counter of its table.
THEOREM TypeSafety == Spec => []TypeOK
  <1>1. Inv => TypeOK
    BY DEF Inv
  <1>2. Inv /\ [Next]_vars => Inv'
    BY NextInv
  <1> QED BY <1>1, <1>2, InitInv, PTL DEF Spec

\* The thread that keeps the context mutex across steps is the only one.
THEOREM MutualExclusion == Spec => []LockHeld
  <1>1. Inv => LockHeld
    BY DEF Inv
  <1>2. Inv /\ [Next]_vars => Inv'
    BY NextInv
  <1> QED BY <1>1, <1>2, InitInv, PTL DEF Spec

\* DestroyDevice and DestroyInstance erase by the devices they collected when they
\* took the lock, and these are still the right ones.
THEOREM TeardownsStayCurrent == Spec => []TeardownCurrent
  <1>1. Inv => TeardownCurrent
    BY DEF Inv
  <1>2. Inv /\ [Next]_vars => Inv'
    BY NextInv
  <1> QED BY <1>1, <1>2, InitInv, PTL DEF Spec

\* The handle tables never hold a dangling reference, whatever the guest threads
\* create and destroy.
THEOREM NoDanglingReferences == Spec => []TablesClosed
  <1>1. Inv => TablesClosed
    BY DEF Inv
  <1>2. Inv /\ [Next]_vars => Inv'
    BY NextInv
  <1> QED BY <1>1, <1>2, InitInv, PTL DEF Spec

\* A handle never names anything but the object it was issued for.
THEOREM HandlesAreFinal == Spec => HandlesFinal
  <1>1. Inv /\ [Next]_vars => Inv'
    BY NextInv
  <1>2. Inv /\ [Next]_vars => [KeepsHandles]_vars
    BY NextInv
  <1> QED BY <1>1, <1>2, InitInv, PTL DEF Spec, HandlesFinal

-----------------------------------------------------------------------------
(* The tables taken together are a forest of lifetimes. *)

Parents == [o \in Existing |-> ParentObject(o[1], o[2])]
Spent == UNION {{k} \X (1 .. (next[k] - 1)) : k \in Kinds}

\* An enumeration under way knows an instance that was issued.
OwnersIssued ==
  \A t \in Threads : call[t].at = "insert_physical" => call[t].owner \in 1 .. (next["instance"] - 1)

LEMMA Objects ==
  /\ \A k, h : <<k, h>> \in Existing <=> k \in Kinds /\ h \in Registered(k)
  /\ \A o \in Existing : o = <<o[1], o[2]>>
  /\ \A k, h : <<k, h>> \in Spent <=> k \in Kinds /\ h \in 1 .. (next[k] - 1)
  /\ \A o \in Spent : o = <<o[1], o[2]>>
  /\ DOMAIN Parents = Existing
  /\ \A o \in Existing : Parents[o] = ParentObject(o[1], o[2])
  BY DEF Existing, Spent, Parents

LEMMA ObjectsAfter ==
  /\ \A k, h : <<k, h>> \in Existing' <=> k \in Kinds /\ h \in Registered(k)'
  /\ \A o \in Existing' : o = <<o[1], o[2]>>
  /\ \A k, h : <<k, h>> \in Spent' <=> k \in Kinds /\ h \in 1 .. (next'[k] - 1)
  /\ \A o \in Spent' : o = <<o[1], o[2]>>
  /\ \A o \in Existing' : Parents'[o] = ParentObject(o[1], o[2])'
  BY DEF Existing, Spent, Parents

\* The parent of an object is that of its record.
LEMMA ParentsKept ==
  ASSUME NEW k \in Kinds, NEW h, table'[k][h] = table[k][h]
  PROVE  ParentObject(k, h)' = ParentObject(k, h)
  BY DEF ParentObject

\* The parent of every object but a physical device is registered, after a step.
LEMMA ParentsExistAfter ==
  ASSUME TablesClosed', NEW k \in Kinds \ {"physical_device"}, NEW h \in Registered(k)'
  PROVE  ParentObject(k, h)' \in Existing' \cup {<<"none", NoHandle>>}
  <1>1. CASE k = "instance"
    BY <1>1 DEF ParentObject
  <1>2. CASE k = "device"
    <2>1. table'[k][h].parent \in Registered("physical_device")'
      BY <1>2 DEF TablesClosed
    <2> QED BY <1>2, <2>1, ObjectsAfter, KindFacts DEF ParentObject
  <1>3. CASE k = "command_buffer"
    <2>1. table'[k][h].pool \in Registered("command_pool")'
      BY <1>3 DEF TablesClosed
    <2> QED BY <1>3, <2>1, ObjectsAfter, KindFacts DEF ParentObject
  <1>4. CASE k \notin {"instance", "device", "command_buffer"}
    <2>1. k \in DeviceChildKinds
      BY <1>4 DEF Kinds
    <2>2. table'[k][h].parent \in Registered("device")'
      BY <2>1 DEF TablesClosed
    <2>3. ParentObject(k, h)' = <<"device", table'[k][h].parent>>
      BY <1>4 DEF ParentObject
    <2> QED BY <2>2, <2>3, ObjectsAfter, KindFacts
  <1> QED BY <1>1, <1>2, <1>3, <1>4

\* Steps of ObjectLifetimes by their effect on the forest.
LEMMA AddsToForest ==
  ASSUME NEW new, Existing' = Existing \cup new, new \cap Spent = {},
         Existing \subseteq Spent,
         Spent \subseteq Spent', new \subseteq Spent',
         \A o \in Existing : Parents'[o] = Parents[o],
         \A o \in new : \/ Parents'[o] \in Existing \cup {<<"none", NoHandle>>}
                        \/ o \in {"physical_device"} \X Nat /\ Parents'[o] \in Spent
  PROVE  Lifetimes!Add
  <1>1. DOMAIN Parents = Existing /\ DOMAIN Parents' = Existing'
    BY DEF Parents
  <1>2. DOMAIN Parents' \ DOMAIN Parents = new
    BY <1>1
  <1>3. Parents' = [o \in DOMAIN Parents' |-> Parents'[o]]
    BY DEF Parents
  <1>4. Parents' = [o \in Existing \cup new |-> IF o \in new THEN Parents'[o] ELSE Parents[o]]
    BY <1>1, <1>2, <1>3
  <1>5. LET fresh == DOMAIN Parents' \ DOMAIN Parents IN
        /\ Spent \cup fresh \subseteq Spent' /\ fresh \cap Spent = {}
        /\ Parents' = [o \in DOMAIN Parents \cup fresh |->
                         IF o \in fresh THEN Parents'[o] ELSE Parents[o]]
        /\ \A o \in fresh : \/ Parents'[o] \in DOMAIN Parents \cup {<<"none", NoHandle>>}
                            \/ o \in {"physical_device"} \X Nat /\ Parents'[o] \in Spent
    BY <1>1, <1>2, <1>4
  <1> QED BY <1>5 DEF Lifetimes!Add, Lifetimes!Existing, Parents, Spent

LEMMA RemovesFromForest ==
  ASSUME NEW gone, gone \subseteq Existing, gone # {}, Existing' = Existing \ gone,
         Spent' = Spent,
         \A o \in Existing' : Parents'[o] = Parents[o],
         \A o \in Existing : Parents[o] \in gone => o \in gone,
         \A o, q \in gone : Parents[o] \notin gone /\ Parents[q] \notin gone
                            => Parents[o] = Parents[q]
  PROVE  Lifetimes!Remove
  <1>1. DOMAIN Parents = Existing /\ DOMAIN Parents' = Existing'
    BY DEF Parents
  <1>2. DOMAIN Parents \ DOMAIN Parents' = gone
    BY <1>1
  <1>3. Parents' = [o \in DOMAIN Parents' |-> Parents'[o]]
    BY DEF Parents
  <1>4. Parents' = [o \in Existing \ gone |-> Parents[o]]
    BY <1>1, <1>3
  <1>5. LET lost == DOMAIN Parents \ DOMAIN Parents' IN
        /\ lost # {}
        /\ Parents' = [o \in DOMAIN Parents \ lost |-> Parents[o]]
        /\ \A o \in DOMAIN Parents : Parents[o] \in lost => o \in lost
        /\ \A o, q \in lost : Parents[o] \notin lost /\ Parents[q] \notin lost
                              => Parents[o] = Parents[q]
        /\ Spent' = Spent
    BY <1>1, <1>2, <1>4
  <1> QED BY <1>5 DEF Lifetimes!Remove, Lifetimes!Existing, Parents, Spent

\* The forest that does not change.
ForestKept == Parents' = Parents /\ Spent' = Spent

LEMMA SpentGrows ==
  ASSUME TablesTyped, NEW k \in Kinds, NEW n \in Nat, Issue(k, n)
  PROVE  /\ Spent' = Spent \cup ({k} \X Fresh(k, n))
         /\ ({k} \X Fresh(k, n)) \cap Spent = {}
         /\ Existing \subseteq Spent
  <1>1. /\ next[k] \in Nat \ {0} /\ next'[k] = next[k] + n
        /\ \A j \in Kinds \ {k} : next'[j] = next[j]
    BY DEF TablesTyped, Issue
  <1>2. 1 .. (next'[k] - 1) = (1 .. (next[k] - 1)) \cup Fresh(k, n)
    BY <1>1 DEF Fresh
  <1>3. \A h \in Fresh(k, n) : h \notin 1 .. (next[k] - 1)
    BY <1>1 DEF Fresh
  <1>4. \A j, h : <<j, h>> \in Spent' <=> j \in Kinds /\ h \in 1 .. (next'[j] - 1)
    BY ObjectsAfter
  <1>5. \A o \in Spent' : o = <<o[1], o[2]>>
    BY ObjectsAfter
  <1>6. \A j, h : <<j, h>> \in Spent' <=> <<j, h>> \in Spent \/ (j = k /\ h \in Fresh(k, n))
    BY <1>1, <1>2, <1>4, Objects
  <1>7. \A o \in {k} \X Fresh(k, n) : o = <<k, o[2]>> /\ o[2] \in Fresh(k, n)
    OBVIOUS
  <1>8. Spent' = Spent \cup ({k} \X Fresh(k, n))
    <2>1. ASSUME NEW o \in Spent' PROVE o \in Spent \cup ({k} \X Fresh(k, n))
      BY <1>5, <1>6, <2>1
    <2>2. ASSUME NEW o \in Spent \cup ({k} \X Fresh(k, n)) PROVE o \in Spent'
      BY <1>6, <1>7, <2>2, Objects
    <2> QED BY <2>1, <2>2
  <1>9. ({k} \X Fresh(k, n)) \cap Spent = {}
    BY <1>3, <1>7, Objects
  <1>10. Existing \subseteq Spent
    <2>1. \A j \in Kinds : \A h \in Registered(j) : h \in 1 .. (next[j] - 1)
      BY DEF TablesTyped
    <2> QED BY <2>1, Objects
  <1> QED BY <1>8, <1>9, <1>10

\* The parent objects of new records, and of those that stay.
LEMMA ParentsAfter ==
  ASSUME NEW k \in Kinds, NEW h \in Registered(k), h \in Registered(k)',
         table'[k][h] = table[k][h]
  PROVE  Parents'[<<k, h>>] = Parents[<<k, h>>]
  <1>1. Parents'[<<k, h>>] = ParentObject(k, h)'
    BY ObjectsAfter
  <1>2. Parents[<<k, h>>] = ParentObject(k, h)
    BY Objects
  <1> QED BY <1>1, <1>2, ParentsKept

\* A new record that fits has its parent in the forest.
LEMMA FittingParent ==
  ASSUME NEW k \in Kinds, NEW h, Fits(k, table'[k][h]), h \in Registered(k)',
         k = "physical_device" => table'[k][h].parent \in 1 .. (next["instance"] - 1),
         k = "physical_device" => h \in Nat
  PROVE  \/ Parents'[<<k, h>>] \in Existing \cup {<<"none", NoHandle>>}
         \/ <<k, h>> \in {"physical_device"} \X Nat /\ Parents'[<<k, h>>] \in Spent
  <1>1. Parents'[<<k, h>>] = ParentObject(k, h)'
    BY ObjectsAfter
  <1>2. CASE k = "instance"
    BY <1>1, <1>2 DEF ParentObject
  <1>3. CASE k = "device"
    BY <1>1, <1>3, Objects, KindFacts DEF ParentObject, Fits
  <1>4. CASE k = "command_buffer"
    BY <1>1, <1>4, Objects, KindFacts DEF ParentObject, Fits
  <1>5. CASE k = "physical_device"
    BY <1>1, <1>5, Objects, KindFacts DEF ParentObject
  <1>6. CASE k \notin {"instance", "physical_device", "device", "command_buffer"}
    <2>1. k \in DeviceChildKinds
      BY <1>6 DEF Kinds
    <2>2. ParentObject(k, h)' = <<"device", table'[k][h].parent>>
      BY <1>6 DEF ParentObject
    <2> QED BY <1>1, <2>1, <2>2, Objects, KindFacts DEF Fits
  <1> QED BY <1>2, <1>3, <1>4, <1>5, <1>6

LEMMA InsertsAdd ==
  ASSUME TablesTyped, NEW k \in Kinds, NEW n \in Nat, Inserts(k, n),
         k = "physical_device" =>
           \A h \in Fresh(k, n) : table'[k][h].parent \in 1 .. (next["instance"] - 1)
  PROVE  Lifetimes!Add
  <1> DEFINE new == {k} \X Fresh(k, n)
  <1>1. PICK records :
          /\ DOMAIN records = Fresh(k, n)
          /\ \A h \in Fresh(k, n) : Fits(k, records[h])
          /\ Insert(k, records)
    BY DEF Inserts
  <1>2. /\ \A j \in Kinds \ {k} : table'[j] = table[j]
        /\ DOMAIN table'[k] = Fresh(k, n) \cup DOMAIN table[k]
        /\ \A h \in Fresh(k, n) : table'[k][h] = records[h]
        /\ \A h \in DOMAIN table[k] : h \notin Fresh(k, n) /\ table'[k][h] = table[k][h]
    BY <1>1, InsertedTables
  <1>3. Spent' = Spent \cup new /\ new \cap Spent = {} /\ Existing \subseteq Spent
    BY SpentGrows DEF Inserts
  <1>4. \A o \in new : o = <<k, o[2]>> /\ o[2] \in Fresh(k, n)
    OBVIOUS
  <1>5. \A j, h : <<j, h>> \in Existing' <=> <<j, h>> \in Existing \/ (j = k /\ h \in Fresh(k, n))
    BY <1>2, Objects, ObjectsAfter DEF Registered
  <1>6. Existing' = Existing \cup new
    <2>1. ASSUME NEW o \in Existing' PROVE o \in Existing \cup new
      BY <1>5, <2>1, ObjectsAfter
    <2>2. ASSUME NEW o \in Existing \cup new PROVE o \in Existing'
      BY <1>4, <1>5, <2>2, Objects
    <2> QED BY <2>1, <2>2
  <1>7. ASSUME NEW o \in Existing PROVE Parents'[o] = Parents[o]
    <2>1. /\ o = <<o[1], o[2]>> /\ o[1] \in Kinds /\ o[2] \in Registered(o[1])
          /\ o[2] \in Registered(o[1])'
      BY <1>6, Objects, ObjectsAfter
    <2>2. table'[o[1]][o[2]] = table[o[1]][o[2]]
      BY <1>2, <2>1 DEF Registered
    <2> QED BY <2>1, <2>2, ParentsAfter
  <1>8. ASSUME NEW o \in new
        PROVE  \/ Parents'[o] \in Existing \cup {<<"none", NoHandle>>}
               \/ o \in {"physical_device"} \X Nat /\ Parents'[o] \in Spent
    <2>1. o = <<k, o[2]>> /\ o[2] \in Fresh(k, n)
      BY <1>4
    <2>2. Fits(k, table'[k][o[2]]) /\ o[2] \in Registered(k)'
      BY <1>1, <1>2, <2>1 DEF Registered
    <2>3. o[2] \in Nat
      BY <2>1 DEF Fresh, TablesTyped
    <2> QED BY <2>1, <2>2, <2>3, FittingParent
  <1> HIDE DEF new
  <1> QED BY <1>3, <1>6, <1>7, <1>8, AddsToForest

LEMMA IssueAdds ==
  ASSUME TablesTyped, NEW k \in Kinds, NEW n \in Nat, Issue(k, n), table' = table
  PROVE  Lifetimes!Add
  <1>1. Spent \subseteq Spent' /\ Existing \subseteq Spent
    BY SpentGrows
  <1>2. Existing' = Existing
    BY DEF Existing, Registered
  <1>3. Parents' = Parents
    BY <1>2 DEF Parents, ParentObject
  <1>4. PICK new : new = {}
    OBVIOUS
  <1>5. Existing' = Existing \cup new /\ new \cap Spent = {} /\ new \subseteq Spent'
    BY <1>2, <1>4
  <1>6. /\ \A o \in Existing : Parents'[o] = Parents[o]
        /\ \A o \in new : o \in {}
    BY <1>3, <1>4
  <1> QED BY <1>1, <1>5, <1>6, AddsToForest

\* What an erasure leaves is closed; what goes has one parent.
LEMMA ShrinksRemove ==
  ASSUME TablesTyped, Shrinks, TablesClosed', NEW top,
         \A g \in Registered("physical_device") :
           /\ g \in Registered("physical_device")'
           /\ table["physical_device"][g].parent \in Registered("instance")
           => table["physical_device"][g].parent \in Registered("instance")',
         \A k \in Kinds : \A h \in Registered(k) \ Registered(k)' :
           \/ ParentObject(k, h) = top
           \/ ParentObject(k, h) \in Existing \ Existing'
  PROVE  [Lifetimes!Next]_<<Parents, Spent>>
  <1> DEFINE gone == Existing \ Existing'
  <1>1. \A k \in Kinds : /\ Registered(k)' \subseteq Registered(k)
                         /\ \A h \in Registered(k)' : table'[k][h] = table[k][h]
    BY DEF Shrinks, Registered
  <1>2. Existing' \subseteq Existing
    BY <1>1, Objects, ObjectsAfter
  <1>3. Spent' = Spent
    BY DEF Spent, Shrinks
  <1>4. ASSUME NEW o \in Existing'
        PROVE  Parents'[o] = Parents[o]
    <2>1. /\ o = <<o[1], o[2]>> /\ o[1] \in Kinds /\ o[2] \in Registered(o[1])
          /\ o[2] \in Registered(o[1])'
      BY <1>2, Objects, ObjectsAfter
    <2> QED BY <1>1, <2>1, ParentsAfter
  <1>5. ASSUME NEW o \in Existing, Parents[o] \in gone PROVE o \in gone
    <2> SUFFICES ASSUME o \in Existing' PROVE FALSE
      BY <1>5
    <2>1. /\ o = <<o[1], o[2]>> /\ o[1] \in Kinds /\ o[2] \in Registered(o[1])
          /\ o[2] \in Registered(o[1])'
      BY Objects, ObjectsAfter
    <2>2. Parents[o] = ParentObject(o[1], o[2]) /\ ParentObject(o[1], o[2])' = Parents[o]
      BY <1>4, Objects, ObjectsAfter
    <2>3. CASE o[1] = "physical_device"
      <3> DEFINE i == table["physical_device"][o[2]].parent
      <3>1. Parents[o] = <<"instance", i>>
        BY <2>2, <2>3 DEF ParentObject
      <3>2. i \in Registered("instance") /\ i \notin Registered("instance")'
        BY <1>5, <3>1, Objects, ObjectsAfter, KindFacts
      <3> QED BY <2>1, <2>3, <3>2
    <2>4. CASE o[1] # "physical_device"
      <3>1. ParentObject(o[1], o[2])' \in Existing' \cup {<<"none", NoHandle>>}
        BY <2>1, <2>4, ParentsExistAfter
      <3>2. <<"none", NoHandle>> \notin Existing
        BY Objects DEF Kinds, DeviceChildKinds, LeafKinds
      <3> QED BY <1>5, <2>2, <3>1, <3>2
    <2> QED BY <2>3, <2>4
  <1>6. \A o \in gone : Parents[o] \in gone \/ Parents[o] = top
    <2> SUFFICES ASSUME NEW o \in gone PROVE Parents[o] \in gone \/ Parents[o] = top
      OBVIOUS
    <2>1. o = <<o[1], o[2]>> /\ o[1] \in Kinds /\ o[2] \in Registered(o[1]) \ Registered(o[1])'
      BY Objects, ObjectsAfter
    <2>2. Parents[o] = ParentObject(o[1], o[2])
      BY Objects
    <2> QED BY <2>1, <2>2
  <1>7. CASE gone = {}
    <2>1. Existing' = Existing
      BY <1>2, <1>7
    <2>2. Parents' = Parents
      BY <1>4, <2>1 DEF Parents
    <2> QED BY <1>3, <2>2
  <1>8. CASE gone # {}
    <2>1. Existing' = Existing \ gone
      BY <1>2
    <2> HIDE DEF gone
    <2>2. gone \subseteq Existing
      BY DEF gone
    <2>3. Lifetimes!Remove
      BY <1>3, <1>4, <1>5, <1>6, <1>8, <2>1, <2>2, RemovesFromForest
    <2> QED BY <2>3 DEF Lifetimes!Next
  <1> QED BY <1>7, <1>8

LEMMA EraseRemoves ==
  ASSUME TablesTyped, TablesClosed, NEW k \in DeviceChildKinds \ {"command_pool"},
         NEW S, Erase(k, S), next' = next, NEW top,
         \A h \in S \cap Registered(k) : ParentObject(k, h) = top
  PROVE  [Lifetimes!Next]_<<Parents, Spent>>
  <1>1. Shrinks /\ TablesClosed'
    BY EraseKeeps
  <1>2. /\ \A j \in Kinds \ {k} : table'[j] = table[j]
        /\ DOMAIN table'[k] = DOMAIN table[k] \ S
    BY KindFacts DEF Erase, Without, TablesTyped
  <1>3. Registered("instance")' = Registered("instance")
    BY <1>2, KindFacts DEF Registered
  <1>4. \A j \in Kinds : \A h \in Registered(j) \ Registered(j)' :
          j = k /\ h \in S \cap Registered(k)
    BY <1>2 DEF Registered
  <1> QED BY <1>1, <1>3, <1>4, ShrinksRemove

LEMMA DestroyLeafRemoves ==
  ASSUME TablesTyped, TablesClosed, NEW t \in Threads, NEW k \in LeafKinds, DestroyLeaf(t, k)
  PROVE  [Lifetimes!Next]_<<Parents, Spent>>
  <1>1. PICK h : Erase(k, {h})
    BY DEF DestroyLeaf
  <1>2. next' = next /\ k \in DeviceChildKinds \ {"command_pool"}
    BY KindFacts DEF DestroyLeaf
  <1>3. \A g \in {h} \cap Registered(k) : ParentObject(k, g) = ParentObject(k, h)
    OBVIOUS
  <1> QED BY <1>1, <1>2, <1>3, EraseRemoves

LEMMA FreeCommandBuffersRemoves ==
  ASSUME TablesTyped, TablesClosed, NEW t \in Threads, FreeCommandBuffers(t)
  PROVE  [Lifetimes!Next]_<<Parents, Spent>>
  <1>a. PICK d \in Registered("device") :
          \E p \in Children("command_pool", {d}) :
            \E list \in SUBSET BuffersOf(d, p) : Erase("command_buffer", list)
    BY DEF FreeCommandBuffers
  <1>b. PICK p \in Children("command_pool", {d}) :
          \E list \in SUBSET BuffersOf(d, p) : Erase("command_buffer", list)
    BY <1>a
  <1>1. PICK list \in SUBSET BuffersOf(d, p) : Erase("command_buffer", list)
    BY <1>b
  <1>2. next' = next /\ "command_buffer" \in DeviceChildKinds \ {"command_pool"}
    BY KindFacts DEF FreeCommandBuffers
  <1>3. \A b \in list \cap Registered("command_buffer") :
          ParentObject("command_buffer", b) = <<"command_pool", p>>
    BY <1>1 DEF BuffersOf, ParentObject
  <1> QED BY <1>1, <1>2, <1>3, EraseRemoves

LEMMA DestroyCommandPoolRemoves ==
  ASSUME TablesTyped, TablesClosed, NEW t \in Threads, DestroyCommandPool(t)
  PROVE  [Lifetimes!Next]_<<Parents, Spent>>
  <1>1. Shrinks /\ TablesClosed'
    BY DestroyCommandPoolKeeps
  <1>2. PICK p \in Registered("command_pool") :
          table' = [table EXCEPT
            !["command_pool"] = Without(@, {p}),
            !["command_buffer"] = Without(@, {b \in DOMAIN @ : @[b].pool = p})]
    BY DEF DestroyCommandPool, Children
  <1>3. /\ \A j \in Kinds \ {"command_pool", "command_buffer"} : table'[j] = table[j]
        /\ DOMAIN table'["command_pool"] = DOMAIN table["command_pool"] \ {p}
        /\ DOMAIN table'["command_buffer"] =
             DOMAIN table["command_buffer"] \ {b \in DOMAIN table["command_buffer"] :
                                                 table["command_buffer"][b].pool = p}
    BY <1>2, KindFacts DEF TablesTyped, Without
  <1>4. Registered("instance")' = Registered("instance")
    BY <1>3, KindFacts DEF Registered
  <1>5. <<"command_pool", p>> \in Existing \ Existing'
    BY <1>3, Objects, ObjectsAfter, KindFacts DEF Registered
  <1>6. ASSUME NEW j \in Kinds, NEW h \in Registered(j) \ Registered(j)'
        PROVE  \/ ParentObject(j, h) = ParentObject("command_pool", p)
               \/ ParentObject(j, h) \in Existing \ Existing'
    <2>1. \/ j = "command_pool" /\ h = p
          \/ j = "command_buffer" /\ table["command_buffer"][h].pool = p
      BY <1>3 DEF Registered
    <2> QED BY <1>5, <2>1 DEF ParentObject
  <1> QED BY <1>1, <1>4, <1>6, ShrinksRemove

LEMMA FinishTeardownRemoves ==
  ASSUME TablesTyped, TablesClosed, TeardownCurrent, NEW t \in Threads, FinishTeardown(t)
  PROVE  [Lifetimes!Next]_<<Parents, Spent>>
  <1> DEFINE c == call[t]
  <1>1. Shrinks /\ TablesClosed'
    BY FinishTeardownKeeps
  <1>2. \A k \in Kinds : Registered(k)' = Registered(k) \ Condemned(c, k)
    BY DEF FinishTeardown, Without, Registered
  <1>3. /\ \A k \in DeviceChildKinds : Condemned(c, k) = Children(k, c.devices)
        /\ Condemned(c, "device") = c.devices
        /\ Condemned(c, "physical_device") =
             IF c.at = "destroy_instance" THEN Children("physical_device", {c.owner}) ELSE {}
        /\ Condemned(c, "instance") = IF c.at = "destroy_instance" THEN {c.owner} ELSE {}
    BY KindFacts DEF Condemned
  <1>4. c.at \in Teardowns
    BY DEF FinishTeardown
  <1> HIDE DEF c
  <1>5. ASSUME NEW g \in Registered("physical_device"), g \in Registered("physical_device")',
               table["physical_device"][g].parent \in Registered("instance")
        PROVE  table["physical_device"][g].parent \in Registered("instance")'
    <2>1. CASE c.at = "destroy_instance"
      <3>1. g \notin Children("physical_device", {c.owner})
        BY <1>2, <1>3, <1>5, <2>1, KindFacts
      <3>2. table["physical_device"][g].parent # c.owner
        BY <3>1 DEF Children
      <3> QED BY <1>2, <1>3, <1>5, <2>1, <3>2, KindFacts
    <2>2. CASE c.at # "destroy_instance"
      BY <1>2, <1>3, <1>5, <2>2, KindFacts
    <2> QED BY <2>1, <2>2
  <1>6. ASSUME NEW d \in c.devices \cap Registered("device")
        PROVE  <<"device", d>> \in Existing \ Existing'
    BY <1>2, <1>3, Objects, ObjectsAfter, KindFacts
  <1>7. ASSUME NEW p \in Children("command_pool", c.devices)
        PROVE  <<"command_pool", p>> \in Existing \ Existing'
    BY <1>2, <1>3, Objects, ObjectsAfter, KindFacts DEF Children
  <1>8. ASSUME NEW k \in DeviceChildKinds, NEW h \in Registered(k) \ Registered(k)'
        PROVE  ParentObject(k, h) \in Existing \ Existing'
    <2>1. h \in Children(k, c.devices)
      BY <1>2, <1>3, KindFacts
    <2>2. table[k][h].parent \in c.devices \cap Registered("device")
      BY <2>1 DEF Children, TablesClosed
    <2>3. CASE k = "command_buffer"
      <3>1. table[k][h].pool \in Children("command_pool", c.devices)
        BY <2>2, <2>3 DEF TablesClosed, Children
      <3> QED BY <1>7, <2>3, <3>1 DEF ParentObject
    <2>4. CASE k # "command_buffer"
      BY <1>6, <2>2, <2>4, KindFacts DEF ParentObject
    <2> QED BY <2>3, <2>4
  <1>9. CASE c.at = "destroy_device"
    <2>1. c.devices = {c.owner}
      BY <1>9 DEF TeardownCurrent, c
    <2>2. ASSUME NEW k \in Kinds, NEW h \in Registered(k) \ Registered(k)'
          PROVE  \/ ParentObject(k, h) = ParentObject("device", c.owner)
                 \/ ParentObject(k, h) \in Existing \ Existing'
      <3>1. CASE k \in DeviceChildKinds
        BY <1>8, <3>1
      <3>2. CASE k \notin DeviceChildKinds
        <4>1. k \in {"instance", "physical_device", "device"}
          BY <3>2 DEF Kinds
        <4>2. k = "device" /\ h = c.owner
          BY <1>2, <1>3, <1>9, <2>1, <4>1
        <4> QED BY <4>2
      <3> QED BY <3>1, <3>2
    <2> QED BY <1>1, <1>5, <2>2, ShrinksRemove
  <1>10. CASE c.at = "destroy_instance"
    <2>1. c.devices = Children("device", Children("physical_device", {c.owner}))
      BY <1>10 DEF TeardownCurrent, DevicesOf, c
    <2>2. ASSUME NEW g \in Children("physical_device", {c.owner})
          PROVE  /\ <<"physical_device", g>> \in Existing \ Existing'
                 /\ ParentObject("physical_device", g) = <<"instance", c.owner>>
      BY <1>2, <1>3, <1>10, Objects, ObjectsAfter, KindFacts DEF Children, ParentObject
    <2>3. ASSUME NEW k \in Kinds, NEW h \in Registered(k) \ Registered(k)'
          PROVE  \/ ParentObject(k, h) \in Existing \ Existing'
                 \/ k = "physical_device" /\ ParentObject(k, h) = <<"instance", c.owner>>
                 \/ k = "instance" /\ h = c.owner
      <3>1. CASE k \in DeviceChildKinds
        BY <1>8, <3>1
      <3>2. CASE k = "device"
        <4>1. h \in Children("device", Children("physical_device", {c.owner}))
          BY <1>2, <1>3, <2>1, <3>2, KindFacts
        <4>2. table["device"][h].parent \in Children("physical_device", {c.owner})
          BY <4>1 DEF Children
        <4> QED BY <2>2, <3>2, <4>2 DEF ParentObject
      <3>3. CASE k = "physical_device"
        <4>1. h \in Children("physical_device", {c.owner})
          BY <1>2, <1>3, <1>10, <3>3, KindFacts
        <4> QED BY <2>2, <3>3, <4>1
      <3>4. CASE k = "instance"
        BY <1>2, <1>3, <1>10, <3>4, KindFacts
      <3> QED BY <3>1, <3>2, <3>3, <3>4 DEF Kinds
    <2>4. CASE c.owner \in Registered("instance")
      <3>1. <<"instance", c.owner>> \in Existing \ Existing'
        BY <1>2, <1>3, <1>10, <2>4, Objects, ObjectsAfter, KindFacts
      <3>2. ParentObject("instance", c.owner) = <<"none", NoHandle>>
        BY DEF ParentObject
      <3> QED BY <1>1, <1>5, <2>3, <3>1, <3>2, ShrinksRemove
    <2>5. CASE c.owner \notin Registered("instance")
      BY <1>1, <1>5, <2>3, <2>5, ShrinksRemove
    <2> QED BY <2>4, <2>5
  <1> QED BY <1>4, <1>9, <1>10 DEF Teardowns

LEMMA EnumeratedAdd ==
  ASSUME TypeOK, OwnersIssued, NEW t \in Threads, InsertPhysicalDevices(t)
  PROVE  Lifetimes!Add
  <1> USE DEF TypeOK
  <1>1. PICK count \in 0 .. Limit["physical_device"], n \in call[t].natives :
          /\ Insert("physical_device", [h \in Fresh("physical_device", count) |->
               [native |-> n, parent |-> call[t].owner, pool |-> NoHandle]])
          /\ Issue("physical_device", count)
    BY DEF InsertPhysicalDevices
  <1>2. n \in Natives /\ call[t].owner \in Nat
    BY DEF CallsTyped, Call
  <1>3. PICK r : r = [native |-> n, parent |-> call[t].owner, pool |-> NoHandle]
    OBVIOUS
  <1>4. PICK records : records = [h \in Fresh("physical_device", count) |-> r]
    OBVIOUS
  <1>5. Fits("physical_device", r)
    BY <1>2, <1>3, KindFacts DEF Fits, Record, NoHandle
  <1>6. count \in Nat
    BY LimitAssumption, KindFacts
  <1>7. /\ DOMAIN records = Fresh("physical_device", count)
        /\ \A h \in Fresh("physical_device", count) : records[h] = r
        /\ Insert("physical_device", records)
    BY <1>1, <1>3, <1>4
  <1>8. Inserts("physical_device", count)
    BY <1>1, <1>5, <1>7 DEF Inserts
  <1>9. \A h \in Fresh("physical_device", count) : table'["physical_device"][h] = r
    BY <1>6, <1>7, InsertedTables, KindFacts
  <1>10. call[t].owner \in 1 .. (next["instance"] - 1)
    BY DEF InsertPhysicalDevices, Resume, OwnersIssued
  <1>11. r.parent = call[t].owner
    BY <1>3
  <1> QED BY <1>6, <1>8, <1>9, <1>10, <1>11, InsertsAdd, KindFacts

LEMMA StepForest ==
  ASSUME TypeOK, TablesClosed, TeardownCurrent, OwnersIssued, NEW t \in Threads, Step(t)
  PROVE  [Lifetimes!Next]_<<Parents, Spent>>
  <1> USE DEF TypeOK
  <1>1. ASSUME table' = table, next' = next
        PROVE  [Lifetimes!Next]_<<Parents, Spent>>
    BY <1>1 DEF Parents, Spent, Existing, Registered, ParentObject
  <1>2. ASSUME NEW k \in Kinds \ {"physical_device"}, NEW n \in Nat,
               Inserts(k, n) \/ (table' = table /\ Issue(k, n))
        PROVE  [Lifetimes!Next]_<<Parents, Spent>>
    BY <1>2, InsertsAdd, IssueAdds DEF Lifetimes!Next
  <1>3. CASE \/ RejectedCall(t) \/ QueryPhysicalDevice(t) \/ Start(t)
             \/ WaitForFences(t) \/ ResetFences(t) \/ FenceDeviceGone(t)
             \/ WaitReturns(t) \/ DestroyStage(t)
    BY <1>1, <1>3, OtherCallTables
  <1>4. CASE LeafCall(t)
    <2>1. \/ \E k \in LeafKinds : CreateLeaf(t, k) \/ DestroyLeaf(t, k)
          \/ table' = table /\ next' = next
      BY <1>4 DEF LeafCall, LeafKinds, UseChild, BindMemory,
             CreateShaderModule, DestroyShaderModule, CreateSemaphore, DestroySemaphore,
             CreateFence, DestroyFence, GetFenceStatus, CreateBuffer, DestroyBuffer,
             GetBufferMemoryRequirements, BindBufferMemory, CreateImage, DestroyImage,
             GetImageMemoryRequirements, BindImageMemory, AllocateMemory, FreeMemory,
             CopyGuestToDeviceMemory, CopyDeviceMemoryToGuest
    <2>2. \A k \in LeafKinds : k \in Kinds \ {"physical_device"}
      BY KindFacts
    <2> QED BY <1>1, <1>2, <2>1, <2>2, CreateLeafInserts, DestroyLeafRemoves
  <1>5. CASE CommandCall(t)
    <2>1. {"command_pool", "command_buffer"} \subseteq Kinds \ {"physical_device"}
      BY KindFacts
    <2>2. CASE CreateCommandPool(t)
      BY <1>2, <2>1, <2>2, CreateCommandPoolInserts
    <2>3. CASE AllocateCommandBuffers(t)
      BY <1>2, <2>1, <2>3, AllocateCommandBuffersInserts
    <2>4. CASE DestroyCommandPool(t) \/ FreeCommandBuffers(t)
      BY <2>4, DestroyCommandPoolRemoves, FreeCommandBuffersRemoves
    <2>5. CASE \/ ResetCommandPool(t) \/ BeginCommandBuffer(t)
               \/ EndCommandBuffer(t) \/ ResetCommandBuffer(t)
      BY <1>1, <2>5 DEF ResetCommandPool, BeginCommandBuffer, EndCommandBuffer,
                        ResetCommandBuffer, UseChild, UseCommandBuffer
    <2> QED BY <1>5, <2>2, <2>3, <2>4, <2>5 DEF CommandCall
  <1>6. CASE CreateDevice(t)
    BY <1>2, <1>6, CreateDeviceInserts, KindFacts
  <1>7. CASE GetDeviceQueue(t)
    BY <1>2, <1>7, GetDeviceQueueInserts, KindFacts
  <1>8. CASE InsertInstance(t)
    BY <1>2, <1>8, InsertInstanceInserts, KindFacts
  <1>9. CASE InsertPhysicalDevices(t)
    BY <1>9, EnumeratedAdd DEF Lifetimes!Next
  <1>10. CASE FinishTeardown(t)
    BY <1>10, FinishTeardownRemoves
  <1> QED BY <1>3, <1>4, <1>5, <1>6, <1>7, <1>8, <1>9, <1>10
          DEF Step, DeviceCall, Reacquire, Continue, EnumerateDeviceExtensionProperties,
              GetPhysicalDeviceProperties, GetPhysicalDeviceFeatures,
              GetPhysicalDeviceMemoryProperties, GetPhysicalDeviceQueueFamilyProperties

\* Only EnumeratePhysicalDevices starts an insertion of physical devices.
LEMMA StepEnumerations ==
  ASSUME TypeOK, NEW t \in Threads, Step(t), ~EnumeratePhysicalDevices(t)
  PROVE  \A u \in Threads : call'[u].at = "insert_physical" => call'[u] = call[u]
  <1> DEFINE Goal == \A u \in Threads : call'[u].at = "insert_physical" => call'[u] = call[u]
  <1>1. ASSUME NEW c, Become(t, c), c.at # "insert_physical" PROVE Goal
    BY <1>1 DEF Become, TypeOK, CallsTyped
  <1>2. CASE RejectedCall(t) \/ LeafCall(t) \/ CommandCall(t) \/ DeviceCall(t)
    BY <1>2, PlainSteps
  <1>3. CASE Start(t)
    <2>1. CASE CreateInstance(t)
      BY <1>1, <2>1 DEF CreateInstance, Idle
    <2>2. CASE ResolveFenceList(t, "wait_fences") \/ ResolveFenceList(t, "reset_fences")
      BY <1>1, <2>2 DEF ResolveFenceList, Idle
    <2>3. CASE DeviceWaitIdle(t) \/ QueueWaitIdle(t)
      BY <1>1, <2>3 DEF DeviceWaitIdle, QueueWaitIdle, Hold, Idle
    <2>4. CASE DestroyDevice(t) \/ DestroyInstance(t)
      BY <1>1, <2>4 DEF DestroyDevice, DestroyInstance, Hold, Idle
    <2> QED BY <1>3, <2>1, <2>2, <2>3, <2>4 DEF Start
  <1>4. CASE WaitForFences(t)
    <2>1. PICK at \in Waits : Become(t, [Idle EXCEPT !.at = at])
      BY <1>4 DEF WaitForFences, Hold, Waits
    <2>2. [Idle EXCEPT !.at = at].at = at /\ at # "insert_physical"
      BY DEF Idle, Waits
    <2> QED BY <1>1, <2>1, <2>2
  <1>5. CASE DestroyStage(t)
    <2>1. PICK c : c = [call[t] EXCEPT !.stage = @ + 1]
      OBVIOUS
    <2>2. Become(t, c) /\ call[t].at \in Teardowns
      BY <1>5, <2>1 DEF DestroyStage
    <2>3. c.at = call[t].at
      BY <2>1 DEF TypeOK, CallsTyped, Call
    <2> QED BY <1>1, <2>2, <2>3 DEF Teardowns
  <1>6. CASE Return(t)
    BY <1>1, <1>6, IdleCall DEF Return
  <1> QED BY <1>2, <1>3, <1>4, <1>5, <1>6
          DEF Step, Reacquire, Continue, InsertInstance, InsertPhysicalDevices, ResetFences,
              FenceDeviceGone, WaitReturns, FinishTeardown

LEMMA EnumeratedCall ==
  ASSUME TypeOK, NEW t \in Threads, EnumeratePhysicalDevices(t)
  PROVE  \E i \in Registered("instance") : \A u \in Threads :
           IF u = t THEN /\ call'[u].owner = i
                         /\ call'[u].natives = {Native("instance", i)}
                    ELSE call'[u] = call[u]
  <1>1. PICK i \in Registered("instance") :
          Become(t, [Idle EXCEPT !.at = "insert_physical", !.owner = i,
                                 !.natives = {Native("instance", i)}])
    BY DEF EnumeratePhysicalDevices
  <1>2. PICK c : c = [Idle EXCEPT !.at = "insert_physical", !.owner = i,
                                  !.natives = {Native("instance", i)}]
    OBVIOUS
  <1>3. c.owner = i /\ c.natives = {Native("instance", i)}
    BY <1>2 DEF Idle
  <1>4. \A u \in Threads : call'[u] = IF u = t THEN c ELSE call[u]
    BY <1>1, <1>2 DEF Become, TypeOK, CallsTyped
  <1> QED BY <1>3, <1>4

LEMMA StepOwners ==
  ASSUME TypeOK, OwnersIssued, TablesTyped', KeepsHandles, NEW t \in Threads, Step(t)
  PROVE  OwnersIssued'
  <1>1. next["instance"] \in Nat /\ next'["instance"] \in Nat /\ next["instance"] =< next'["instance"]
    BY KindFacts DEF TypeOK, TablesTyped, KeepsHandles
  <1>2. \A x \in 1 .. (next["instance"] - 1) : x \in 1 .. (next'["instance"] - 1)
    BY <1>1
  <1>3. CASE ~EnumeratePhysicalDevices(t)
    <2>1. \A u \in Threads : call'[u].at = "insert_physical" => call'[u] = call[u]
      BY <1>3, StepEnumerations
    <2> QED BY <1>2, <2>1 DEF OwnersIssued
  <1>4. CASE EnumeratePhysicalDevices(t)
    <2>1. PICK i \in Registered("instance") : \A u \in Threads :
            IF u = t THEN call'[u].owner = i ELSE call'[u] = call[u]
      BY <1>4, EnumeratedCall
    <2>2. i \in 1 .. (next["instance"] - 1)
      BY KindFacts DEF TypeOK, TablesTyped
    <2> QED BY <1>2, <2>1, <2>2 DEF OwnersIssued
  <1> QED BY <1>3, <1>4

\* Taken together the tables implement ObjectLifetimes, for any number of threads and
\* handles: no handle comes back, and whatever is destroyed takes everything below it
\* along, in one step that no other thread sees half done.
THEOREM TablesImplementLifetimes == Spec => ImplementsLifetimes
  <1>1. Init => Lifetimes!Init
    <2> SUFFICES ASSUME Init PROVE Lifetimes!Init
      OBVIOUS
    <2>1. Existing = {}
      BY DEF Init, Existing, Registered
    <2>2. Spent = {}
      BY DEF Init, Spent
    <2> QED BY <2>1, <2>2 DEF Lifetimes!Init, Spent
  <1>2. Init => OwnersIssued
    BY IdleCall DEF Init, OwnersIssued, Idle
  <1>3. Inv /\ OwnersIssued /\ [Next]_vars => OwnersIssued'
    <2> SUFFICES ASSUME Inv, OwnersIssued, [Next]_vars PROVE OwnersIssued'
      OBVIOUS
    <2>1. CASE UNCHANGED vars
      BY <2>1 DEF vars, OwnersIssued
    <2>2. CASE Next
      <3>1. PICK t \in Threads : Step(t)
        BY <2>2 DEF Next
      <3>2. TablesTyped' /\ KeepsHandles
        BY <3>1, StepTables DEF Inv
      <3> QED BY <3>1, <3>2, StepOwners DEF Inv
    <2> QED BY <2>1, <2>2
  <1>4. Inv /\ OwnersIssued /\ [Next]_vars => [Lifetimes!Next]_Lifetimes!vars
    <2> SUFFICES ASSUME Inv, OwnersIssued, [Next]_vars PROVE [Lifetimes!Next]_<<Parents, Spent>>
      BY DEF Lifetimes!vars, Parents, Spent
    <2>1. CASE UNCHANGED vars
      BY <2>1 DEF vars, Parents, Spent, Existing, Registered, ParentObject
    <2>2. CASE Next
      BY <2>2, StepForest DEF Next, Inv
    <2> QED BY <2>1, <2>2
  <1>5. Inv /\ [Next]_vars => Inv'
    BY NextInv
  <1> QED BY <1>1, <1>2, <1>3, <1>4, <1>5, InitInv, PTL
          DEF Spec, ImplementsLifetimes, Lifetimes!Spec

-----------------------------------------------------------------------------
(***************************************************************************)
(* The driver: its live objects are those of the tables, so that no call   *)
(* hands it an object it lacks.                                            *)
(***************************************************************************)
-----------------------------------------------------------------------------
(* How far a teardown is *)

Done(c) == {TeardownOrder(c)[i] : i \in 1 .. (c.stage - 1)}
Buffers(kinds) == IF "command_pool" \in kinds THEN {"command_buffer"} ELSE {}
Gone(c) == Done(c) \cup Buffers(Done(c))

LEMMA ChildOrderFacts ==
  /\ ChildOrder \in Seq(Kinds) /\ Len(ChildOrder) = 7
  /\ {ChildOrder[i] : i \in 1 .. 7} = LeafKinds \cup {"command_pool"}
  BY DEF ChildOrder, Kinds, DeviceChildKinds, LeafKinds

LEMMA OrderFacts ==
  ASSUME NEW c, c.at \in Teardowns
  PROVE  /\ Len(TeardownOrder(c)) = IF c.at = "destroy_device" THEN 8 ELSE 9
         /\ \A i \in 1 .. 7 : TeardownOrder(c)[i] = ChildOrder[i]
         /\ TeardownOrder(c)[8] = "device"
         /\ c.at = "destroy_instance" => TeardownOrder(c)[9] = "instance"
  <1>1. CASE c.at = "destroy_device"
    <2>1. TeardownOrder(c) = ChildOrder \o <<"device">>
      BY <1>1 DEF TeardownOrder
    <2> QED BY <1>1, <2>1 DEF ChildOrder
  <1>2. CASE c.at = "destroy_instance"
    <2>1. TeardownOrder(c) = ChildOrder \o <<"device", "instance">>
      BY <1>2 DEF TeardownOrder
    <2> QED BY <1>2, <2>1 DEF ChildOrder
  <1> QED BY <1>1, <1>2 DEF Teardowns

\* The stages of a call c that has got somewhere in its order.
Staged(c) == c.at \in Teardowns /\ c.stage \in 1 .. (Len(TeardownOrder(c)) + 1)

Final(c) == LeafKinds \cup {"command_pool", "device"}
            \cup (IF c.at = "destroy_instance" THEN {"instance"} ELSE {})

LEMMA DoneFacts ==
  ASSUME NEW c, Staged(c)
  PROVE  /\ Done(c) \subseteq Final(c)
         /\ "device" \in Done(c) => LeafKinds \cup {"command_pool"} \subseteq Done(c)
         /\ "instance" \in Done(c) => "device" \in Done(c)
         /\ c.stage > Len(TeardownOrder(c)) => Done(c) = Final(c)
         /\ c.stage = 1 => Done(c) = {}
  <1> DEFINE order == TeardownOrder(c)
             n == IF c.at = "destroy_device" THEN 8 ELSE 9
  <1>1. /\ Len(order) = n /\ order[8] = "device"
        /\ \A i \in 1 .. 7 : order[i] = ChildOrder[i]
        /\ c.at = "destroy_instance" => order[9] = "instance"
    BY OrderFacts DEF Staged
  <1>2. c.at \in {"destroy_device", "destroy_instance"} /\ c.stage \in 1 .. (n + 1)
    BY <1>1 DEF Staged, Teardowns
  <1>3. Done(c) = {order[i] : i \in 1 .. (c.stage - 1)}
    BY DEF Done
  <1> HIDE DEF order
  <1>4. \A i \in 1 .. 7 : order[i] \in LeafKinds \cup {"command_pool"}
    BY <1>1, ChildOrderFacts
  <1>5. \A k \in LeafKinds \cup {"command_pool"} : \E i \in 1 .. 7 : order[i] = k
    BY <1>1, ChildOrderFacts
  <1>6. "device" \notin LeafKinds \cup {"command_pool"}
        /\ "instance" \notin LeafKinds \cup {"command_pool"}
    BY DEF LeafKinds
  <1>7. Done(c) \subseteq Final(c)
    <2> SUFFICES ASSUME NEW i \in 1 .. (c.stage - 1) PROVE order[i] \in Final(c)
      BY <1>3
    <2>1. i \in 1 .. 7 \/ i = 8 \/ (i = 9 /\ c.at = "destroy_instance")
      BY <1>2
    <2> QED BY <1>1, <1>2, <1>4, <2>1 DEF Final
  <1>8. ASSUME c.stage > 8 PROVE LeafKinds \cup {"command_pool", "device"} \subseteq Done(c)
    <2>1. \A i \in 1 .. 8 : order[i] \in Done(c)
      BY <1>2, <1>3, <1>8
    <2>2. LeafKinds \cup {"command_pool"} \subseteq Done(c)
      BY <1>5, <2>1
    <2>3. "device" \in Done(c)
      BY <1>1, <2>1
    <2> QED BY <2>2, <2>3
  <1>9. ASSUME ~(c.stage > 8) PROVE "device" \notin Done(c) /\ "instance" \notin Done(c)
    <2>1. \A i \in 1 .. (c.stage - 1) : i \in 1 .. 7
      BY <1>2, <1>9
    <2> QED BY <1>3, <1>4, <1>6, <2>1
  <1>10. c.stage > n => Done(c) = Final(c)
    <2> SUFFICES ASSUME c.stage > n PROVE Final(c) \subseteq Done(c)
      BY <1>7
    <2>1. c.stage > 8
      BY <1>2
    <2>2. c.at = "destroy_instance" => "instance" \in Done(c)
      <3>1. c.at = "destroy_instance" => 9 \in 1 .. (c.stage - 1)
        BY <1>2
      <3> QED BY <1>1, <1>3, <3>1
    <2> QED BY <1>2, <1>8, <2>1, <2>2 DEF Final
  <1>11. c.stage = 1 => Done(c) = {}
    BY <1>3
  <1>12. c.stage > Len(TeardownOrder(c)) => Done(c) = Final(c)
    BY <1>1, <1>10 DEF order
  <1> QED BY <1>7, <1>8, <1>9, <1>11, <1>12

LEMMA NextStage ==
  ASSUME NEW c, NEW d, Staged(c), c.stage =< Len(TeardownOrder(c)),
         d.at = c.at, d.stage = c.stage + 1
  PROVE  LET k == TeardownOrder(c)[c.stage] IN
         /\ Staged(d) /\ Done(d) = Done(c) \cup {k}
         /\ k \in Final(c) /\ k \notin Done(c)
         /\ k = "device" => LeafKinds \cup {"command_pool"} \subseteq Done(c)
         /\ k = "instance" => "device" \in Done(c)
  <1> DEFINE k == TeardownOrder(c)[c.stage]
  <1>1. TeardownOrder(d) = TeardownOrder(c)
    BY DEF TeardownOrder
  <1>2. Len(TeardownOrder(c)) \in Nat
    BY OrderFacts DEF Staged
  <1>3. Staged(d)
    BY <1>1, <1>2 DEF Staged
  <1>4. Done(d) = Done(c) \cup {k}
    <2>1. 1 .. (d.stage - 1) = (1 .. (c.stage - 1)) \cup {c.stage}
      BY <1>2 DEF Staged
    <2> QED BY <1>1, <2>1 DEF Done
  <1>5. k \in Final(c)
    <2>1. Done(d) \subseteq Final(d)
      BY <1>3, DoneFacts
    <2> QED BY <1>4, <2>1 DEF Final
  <1>6. k \notin Done(c)
    <2>1. ASSUME NEW i \in 1 .. (c.stage - 1) PROVE TeardownOrder(c)[i] # k
      <3>1. c.at \in {"destroy_device", "destroy_instance"} /\ c.at \in Teardowns
        BY DEF Staged, Teardowns
      <3>2. Len(TeardownOrder(c)) = IF c.at = "destroy_device" THEN 8 ELSE 9
        BY <3>1, OrderFacts
      <3>3. c.stage \in Nat /\ c.stage >= 1
        BY <1>2 DEF Staged
      <3>4. c.at \in {"destroy_device", "destroy_instance"} /\ c.stage \in 1 .. 9 /\ i < c.stage
            /\ i \in 1 .. 8 /\ (c.at = "destroy_device" => c.stage \in 1 .. 8)
        BY <3>1, <3>2, <3>3
      <3>5. CASE c.stage \in 1 .. 7
        <4>0. \A j \in 1 .. 7 : TeardownOrder(c)[j] = ChildOrder[j]
          BY <3>1, OrderFacts
        <4>1. i \in 1 .. 7 /\ k = ChildOrder[c.stage] /\ TeardownOrder(c)[i] = ChildOrder[i]
          <5>1. i \in 1 .. 7
            BY <3>4, <3>5
          <5> QED BY <3>5, <4>0, <5>1
        <4>2. ChildOrder[i] # ChildOrder[c.stage]
          BY <3>4, <3>5, <4>1 DEF ChildOrder
        <4> QED BY <4>1, <4>2
      <3>6. CASE c.stage = 8
        <4>1. k = "device" /\ i \in 1 .. 7 /\ TeardownOrder(c)[i] = ChildOrder[i]
          BY <3>4, <3>6, OrderFacts DEF Staged
        <4>2. ChildOrder[i] \in LeafKinds \cup {"command_pool"}
          BY <4>1, ChildOrderFacts
        <4> QED BY <4>1, <4>2 DEF LeafKinds
      <3>7. CASE c.stage = 9
        <4>1. k = "instance"
          BY <3>4, <3>7, OrderFacts DEF Staged
        <4>2. TeardownOrder(c)[i] = "device" \/ TeardownOrder(c)[i] \in LeafKinds \cup {"command_pool"}
          <5>1. i \in 1 .. 7 \/ i = 8
            BY <3>4, <3>7
          <5> QED BY <5>1, OrderFacts, ChildOrderFacts DEF Staged
        <4> QED BY <4>1, <4>2 DEF LeafKinds
      <3> QED BY <3>4, <3>5, <3>6, <3>7
    <2> QED BY <2>1 DEF Done
  <1>7. /\ "device" \in Done(d) => LeafKinds \cup {"command_pool"} \subseteq Done(d)
        /\ "instance" \in Done(d) => "device" \in Done(d)
    BY <1>3, DoneFacts
  <1>8. k = "device" => LeafKinds \cup {"command_pool"} \subseteq Done(c)
    BY <1>4, <1>7 DEF LeafKinds
  <1>9. k = "instance" => "device" \in Done(c)
    BY <1>4, <1>7
  <1> QED BY <1>3, <1>4, <1>5, <1>6, <1>8, <1>9

LEMMA TornBy ==
  ASSUME LockHeld, NEW t \in Threads, Staged(call[t]), NEW k, NEW h
  PROVE  Torn(k, h) <=> k \in Gone(call[t]) /\ h \in Condemned(call[t], k)
  <1>1. \A u \in Threads : call[u].at \in Teardowns => u = t
    <2>1. \A u \in Threads : call[u].at \in Teardowns => lock = u
      BY DEF LockHeld, Holding
    <2> QED BY <2>1 DEF Staged
  <1>2. call[t].at \in Teardowns
    BY DEF Staged
  <1>3. Torn(k, h) <=>
          \E i \in 1 .. (call[t].stage - 1) :
            \/ k = TeardownOrder(call[t])[i] /\ h \in Condemned(call[t], k)
            \/ /\ k = "command_buffer" /\ TeardownOrder(call[t])[i] = "command_pool"
               /\ h \in Condemned(call[t], k)
    BY <1>1, <1>2 DEF Torn
  <1>4. \A j : j \in Done(call[t]) <=> \E i \in 1 .. (call[t].stage - 1) :
                                         j = TeardownOrder(call[t])[i]
    BY DEF Done
  <1> QED BY <1>3, <1>4 DEF Gone, Buffers

LEMMA NothingTorn ==
  ASSUME \A t \in Threads : call[t].at \notin Teardowns, NEW k, NEW h
  PROVE  ~Torn(k, h)
  BY DEF Torn

-----------------------------------------------------------------------------
(* The driver's objects and the tables *)

\* Records whose object the driver must have.
Standing(k, h) == k \in OwningKinds /\ h \in Registered(k) /\ ~Torn(k, h)

\* An instance that CreateInstance has made and not yet registered.
Arrives(t, n) == call[t].at = "insert_instance" /\ n \in call[t].natives

Backed ==
  /\ \A k, h : Standing(k, h) =>
       /\ Native(k, h) \in DOMAIN live
       /\ live[Native(k, h)] = [kind |-> k, parent |-> ParentNative(k, h)]
  /\ \A k, h, g : Standing(k, h) /\ Standing(k, g) /\ Native(k, h) = Native(k, g) => h = g
  /\ \A n \in DOMAIN live : \/ \E k, h : Standing(k, h) /\ Native(k, h) = n
                            \/ \E t \in Threads : Arrives(t, n)

Arriving ==
  /\ \A t \in Threads : \A n : Arrives(t, n) =>
       /\ n \in DOMAIN live /\ live[n] = [kind |-> "instance", parent |-> NoNative]
       /\ \A k, h : Standing(k, h) => Native(k, h) # n
  /\ \A t, u \in Threads : \A n : Arrives(t, n) /\ Arrives(u, n) => t = u
  /\ \A t \in Threads : call[t].at = "insert_instance" => \E n : call[t].natives = {n}

\* A step of no thread that creates an instance.
ArrivalsKept ==
  \A t \in Threads :
    call'[t].at = "insert_instance" \/ call[t].at = "insert_instance" => call'[t] = call[t]

RecordsKept ==
  \A k \in OwningKinds : \A h \in Registered(k) :
    h \in Registered(k)' => /\ Native(k, h)' = Native(k, h)
                            /\ ParentNative(k, h)' = ParentNative(k, h)

\* No step changes the object behind a record or its parent.
LEMMA RecordsStay ==
  ASSUME TablesTyped, TablesClosed, TablesClosed', KeepsHandles
  PROVE  RecordsKept
  <1>1. \A k \in Kinds : \A h \in Registered(k) :
          h \in Registered(k)' => table'[k][h] = table[k][h]
    BY DEF TablesTyped, Registered, KeepsHandles
  <1> SUFFICES ASSUME NEW k \in OwningKinds, NEW h \in Registered(k), h \in Registered(k)'
               PROVE  /\ Native(k, h)' = Native(k, h)
                      /\ ParentNative(k, h)' = ParentNative(k, h)
    BY DEF RecordsKept
  <1>2. k \in Kinds /\ table'[k][h] = table[k][h]
    BY <1>1 DEF OwningKinds
  <1>3. Native(k, h)' = Native(k, h)
    BY <1>2 DEF Native
  <1>4. CASE k = "instance"
    BY <1>3, <1>4 DEF ParentNative
  <1>5. CASE k = "device"
    <2> DEFINE g == table[k][h].parent
    <2>1. g \in Registered("physical_device") /\ g \in Registered("physical_device")'
      BY <1>2, <1>5 DEF TablesClosed
    <2>2. table'["physical_device"][g] = table["physical_device"][g]
      BY <1>1, <2>1, KindFacts
    <2> QED BY <1>2, <1>3, <1>5, <2>2 DEF ParentNative, Native
  <1>6. CASE k = "command_buffer"
    <2> DEFINE g == table[k][h].pool
    <2>1. g \in Registered("command_pool") /\ g \in Registered("command_pool")'
      BY <1>2, <1>6 DEF TablesClosed
    <2>2. table'["command_pool"][g] = table["command_pool"][g]
      BY <1>1, <2>1, KindFacts
    <2> QED BY <1>2, <1>3, <1>6, <2>2 DEF ParentNative, Native
  <1>7. CASE k \notin {"instance", "device", "command_buffer"}
    <2> DEFINE g == table[k][h].parent
    <2>0. k \in DeviceChildKinds
      BY <1>7 DEF OwningKinds, Kinds
    <2>1. g \in Registered("device") /\ g \in Registered("device")'
      BY <1>2, <2>0 DEF TablesClosed
    <2>2. table'["device"][g] = table["device"][g]
      BY <1>1, <2>1, KindFacts
    <2>3. /\ ParentNative(k, h) = table["device"][g].native
          /\ ParentNative(k, h)' = table'["device"][table'[k][h].parent].native
      BY <1>7 DEF ParentNative, Native
    <2> QED BY <1>2, <1>3, <2>2, <2>3
  <1> QED BY <1>4, <1>5, <1>6, <1>7

\* A record stands on as long as the driver has its object.
StandOn ==
  \A k, h : Standing(k, h) /\ Native(k, h) \in DOMAIN live' => Standing(k, h)'

\* The driver destroys the objects in S, and no others lose their record.
LEMMA Loses ==
  ASSUME Backed, Arriving, RecordsKept, ArrivalsKept, NEW S,
         DOMAIN live' = DOMAIN live \ S, \A n \in DOMAIN live' : live'[n] = live[n],
         \A k, h : Standing(k, h)' <=> Standing(k, h) /\ Native(k, h) \notin S,
         \A t \in Threads : \A n : Arrives(t, n) => n \notin S
  PROVE  Backed' /\ Arriving' /\ StandOn
  <1>1. \A t \in Threads : \A n : Arrives(t, n)' <=> Arrives(t, n)
    BY DEF ArrivalsKept, Arrives
  <1>2. \A k, h : Standing(k, h)' => /\ Standing(k, h)
                                     /\ Native(k, h)' = Native(k, h)
                                     /\ ParentNative(k, h)' = ParentNative(k, h)
    <2>1. ASSUME NEW k, NEW h, Standing(k, h)'
          PROVE  Standing(k, h) /\ k \in OwningKinds /\ h \in Registered(k) /\ h \in Registered(k)'
      BY <2>1 DEF Standing
    <2> QED BY <2>1 DEF RecordsKept
  <1>3. \A k, h : Standing(k, h)' =>
          /\ Native(k, h)' \in DOMAIN live'
          /\ live'[Native(k, h)'] = [kind |-> k, parent |-> ParentNative(k, h)']
    BY <1>2 DEF Backed
  <1>4. \A k, h, g : Standing(k, h)' /\ Standing(k, g)' /\ Native(k, h)' = Native(k, g)' => h = g
    BY <1>2 DEF Backed
  <1>5. ASSUME NEW n \in DOMAIN live'
        PROVE  \/ \E k, h : Standing(k, h)' /\ Native(k, h)' = n
               \/ \E t \in Threads : Arrives(t, n)'
    <2>1. n \in DOMAIN live /\ n \notin S
      OBVIOUS
    <2>2. CASE \E t \in Threads : Arrives(t, n)
      BY <1>1, <2>2
    <2>3. CASE \E k, h : Standing(k, h) /\ Native(k, h) = n
      <3>1. PICK k, h : Standing(k, h) /\ Native(k, h) = n
        BY <2>3
      <3> QED BY <1>2, <2>1, <3>1
    <2> QED BY <2>1, <2>2, <2>3 DEF Backed
  <1>6. Backed'
    BY <1>3, <1>4, <1>5 DEF Backed
  <1>7. Arriving'
    <2>1. ASSUME NEW t \in Threads, NEW n, Arrives(t, n)'
          PROVE  /\ n \in DOMAIN live' /\ live'[n] = [kind |-> "instance", parent |-> NoNative]
                 /\ \A k, h : Standing(k, h)' => Native(k, h)' # n
      BY <1>1, <1>2, <2>1 DEF Arriving
    <2>2. \A t \in Threads : call'[t].at = "insert_instance" => \E n : call'[t].natives = {n}
      BY DEF Arriving, ArrivalsKept
    <2> QED BY <1>1, <2>1, <2>2 DEF Arriving
  <1>8. StandOn
    BY DEF StandOn
  <1> QED BY <1>6, <1>7, <1>8

\* The driver creates one object below p for each new record of kind k.
Gained(k, new, p) ==
  /\ \A h \in new : ~Standing(k, h) /\ Native(k, h)' \notin DOMAIN live
                    /\ ParentNative(k, h)' = p
  /\ \A h, g \in new : Native(k, h)' = Native(k, g)' => h = g
  /\ \A x : x \in DOMAIN live' <=> \/ x \in DOMAIN live
                                   \/ \E h \in new : x = Native(k, h)'
  /\ \A n \in DOMAIN live : live'[n] = live[n]
  /\ \A h \in new : live'[Native(k, h)'] = [kind |-> k, parent |-> p]
  /\ \A j, h : Standing(j, h)' <=> Standing(j, h) \/ (j = k /\ h \in new)

LEMMA Gains ==
  ASSUME Backed, Arriving, RecordsKept, ArrivalsKept, NEW k \in OwningKinds, NEW new, NEW p,
         Gained(k, new, p)
  PROVE  Backed' /\ Arriving' /\ StandOn
  <1> /\ \A h \in new : ~Standing(k, h) /\ Native(k, h)' \notin DOMAIN live
                         /\ ParentNative(k, h)' = p
      /\ \A h, g \in new : Native(k, h)' = Native(k, g)' => h = g
      /\ \A x : x \in DOMAIN live' <=> \/ x \in DOMAIN live
                                       \/ \E h \in new : x = Native(k, h)'
      /\ \A n \in DOMAIN live : live'[n] = live[n]
      /\ \A h \in new : live'[Native(k, h)'] = [kind |-> k, parent |-> p]
      /\ \A j, h : Standing(j, h)' <=> Standing(j, h) \/ (j = k /\ h \in new)
    BY DEF Gained
  <1>1. \A t \in Threads : \A n : Arrives(t, n)' <=> Arrives(t, n)
    BY DEF ArrivalsKept, Arrives
  <1>2. \A j, h : Standing(j, h) => /\ Standing(j, h)'
                                    /\ Native(j, h)' = Native(j, h)
                                    /\ ParentNative(j, h)' = ParentNative(j, h)
    <2>1. ASSUME NEW j, NEW h, Standing(j, h)
          PROVE  Standing(j, h)' /\ j \in OwningKinds /\ h \in Registered(j) /\ h \in Registered(j)'
      <3>1. Standing(j, h)'
        BY <2>1
      <3> QED BY <2>1, <3>1 DEF Standing
    <2> QED BY <2>1 DEF RecordsKept
  <1>3. ASSUME NEW j, NEW h, Standing(j, h)'
        PROVE  /\ Native(j, h)' \in DOMAIN live'
               /\ live'[Native(j, h)'] = [kind |-> j, parent |-> ParentNative(j, h)']
    <2>1. CASE Standing(j, h)
      BY <1>2, <2>1 DEF Backed
    <2>2. CASE j = k /\ h \in new
      BY <2>2
    <2> QED BY <1>3, <2>1, <2>2
  <1>4. ASSUME NEW j, NEW h, NEW g, Standing(j, h)', Standing(j, g)',
               Native(j, h)' = Native(j, g)'
        PROVE  h = g
    <2>1. ASSUME NEW x, Standing(j, x) PROVE Native(j, x)' \in DOMAIN live
      <3>1. Native(j, x) \in DOMAIN live
        BY <2>1 DEF Backed
      <3>2. Native(j, x)' = Native(j, x)
        BY <1>2, <2>1
      <3> QED BY <3>1, <3>2
    <2>2. CASE Standing(j, h) /\ Standing(j, g)
      BY <1>2, <1>4, <2>2 DEF Backed
    <2>3. CASE j = k /\ h \in new /\ g \in new
      BY <1>4, <2>3
    <2>4. CASE j = k /\ (h \in new \/ g \in new) /\ (Standing(j, h) \/ Standing(j, g))
      BY <1>4, <2>1, <2>2, <2>3, <2>4
    <2> QED BY <1>4, <2>2, <2>3, <2>4
  <1>5. ASSUME NEW n \in DOMAIN live'
        PROVE  \/ \E j, h : Standing(j, h)' /\ Native(j, h)' = n
               \/ \E t \in Threads : Arrives(t, n)'
    <2>1. CASE n \in DOMAIN live
      <3>1. CASE \E t \in Threads : Arrives(t, n)
        BY <1>1, <3>1
      <3>2. CASE \E j, h : Standing(j, h) /\ Native(j, h) = n
        <4>1. PICK j, h : Standing(j, h) /\ Native(j, h) = n
          BY <3>2
        <4> QED BY <1>2, <4>1
      <3> QED BY <2>1, <3>1, <3>2 DEF Backed
    <2>2. CASE n \notin DOMAIN live
      <3>1. PICK h \in new : n = Native(k, h)'
        BY <1>5, <2>2
      <3> QED BY <3>1
    <2> QED BY <2>1, <2>2
  <1>6. Backed'
    BY <1>3, <1>4, <1>5 DEF Backed
  <1>7. Arriving'
    <2>1. ASSUME NEW t \in Threads, NEW n, Arrives(t, n)'
          PROVE  /\ n \in DOMAIN live' /\ live'[n] = [kind |-> "instance", parent |-> NoNative]
                 /\ \A j, h : Standing(j, h)' => Native(j, h)' # n
      BY <1>1, <1>2, <2>1 DEF Arriving
    <2>2. \A t \in Threads : call'[t].at = "insert_instance" => \E n : call'[t].natives = {n}
      BY DEF Arriving, ArrivalsKept
    <2> QED BY <1>1, <2>1, <2>2 DEF Arriving
  <1>8. StandOn
    BY <1>2 DEF StandOn
  <1> QED BY <1>6, <1>7, <1>8

-----------------------------------------------------------------------------
(* Steps while no object has been torn down from under its record *)

Untorn == \A t \in Threads : call[t].at \in Teardowns => call[t].stage = 1

LEMMA UntornStanding ==
  ASSUME Untorn, NEW k, NEW h
  PROVE  Standing(k, h) <=> k \in OwningKinds /\ h \in Registered(k)
  <1>1. ~Torn(k, h)
    BY DEF Untorn, Torn
  <1> QED BY <1>1 DEF Standing

LEMMA UntornStandingAfter ==
  ASSUME Untorn', NEW k, NEW h
  PROVE  Standing(k, h)' <=> k \in OwningKinds /\ h \in Registered(k)'
  <1>1. ~Torn(k, h)'
    BY DEF Untorn, Torn
  <1> QED BY <1>1 DEF Standing

LEMMA FreeUntorn ==
  ASSUME LockHeld, lock = NoThread
  PROVE  Untorn
  BY NoThreadAssumption DEF LockHeld, Untorn, Holding

Kept == Backed /\ Arriving /\ RecordsKept /\ ArrivalsKept /\ Untorn /\ Untorn'

\* The driver's objects and the records that own them stay.
LEMMA Quiet ==
  ASSUME Kept, live' = live, \A k \in OwningKinds : Registered(k)' = Registered(k)
  PROVE  Backed' /\ Arriving' /\ StandOn
  <1>1. \A k, h : Standing(k, h)' <=> Standing(k, h)
    BY UntornStanding, UntornStandingAfter DEF Kept
  <1>2. PICK S : S = {}
    OBVIOUS
  <1>3. DOMAIN live' = DOMAIN live \ S /\ \A n \in DOMAIN live' : live'[n] = live[n]
    BY <1>2
  <1>4. \A k, h : Standing(k, h)' <=> Standing(k, h) /\ Native(k, h) \notin S
    BY <1>1, <1>2
  <1>5. \A t \in Threads : \A n : Arrives(t, n) => n \notin S
    BY <1>2
  <1> QED BY <1>3, <1>4, <1>5, Loses DEF Kept

\* New records with new objects below one object.
LEMMA Creates ==
  ASSUME Kept, TablesTyped, NEW k \in OwningKinds, NEW n \in Nat, NEW records, NEW p,
         DOMAIN records = Fresh(k, n), Insert(k, records),
         \A h \in Fresh(k, n) : records[h].native \in Unused /\ ParentNative(k, h)' = p,
         \A h, g \in Fresh(k, n) : records[h].native = records[g].native => h = g,
         live' = Override([x \in {records[h].native : h \in Fresh(k, n)} |->
                             [kind |-> k, parent |-> p]], live)
  PROVE  Backed' /\ Arriving' /\ StandOn
  <1>0. k \in Kinds
    BY DEF OwningKinds
  <1>1. PICK new : new = Fresh(k, n)
    OBVIOUS
  <1>2. /\ \A j \in Kinds \ {k} : table'[j] = table[j]
        /\ DOMAIN table'[k] = new \cup DOMAIN table[k]
        /\ \A h \in new : table'[k][h] = records[h]
        /\ \A h \in DOMAIN table[k] : h \notin new
    BY <1>0, <1>1, InsertedTables
  <1>3. \A h \in new : Native(k, h)' = records[h].native
    BY <1>2 DEF Native
  <1>4. ASSUME NEW h \in new
        PROVE  /\ ~Standing(k, h) /\ Native(k, h)' \notin DOMAIN live
               /\ ParentNative(k, h)' = p
    <2>1. h \notin Registered(k)
      BY <1>2 DEF Registered
    <2> QED BY <1>1, <1>3, <2>1 DEF Standing, Unused
  <1>5. \A h, g \in new : Native(k, h)' = Native(k, g)' => h = g
    BY <1>1, <1>3
  <1>6. \A h \in new : records[h].native \notin DOMAIN live
    BY <1>1 DEF Unused
  <1>7. \A x : x \in DOMAIN live' <=> \/ x \in DOMAIN live
                                       \/ \E h \in new : x = Native(k, h)'
    BY <1>1, <1>3 DEF Override
  <1>8. \A x \in DOMAIN live : live'[x] = live[x]
    BY <1>1, <1>6 DEF Override
  <1>9. \A h \in new : live'[Native(k, h)'] = [kind |-> k, parent |-> p]
    BY <1>1, <1>3, <1>6 DEF Override
  <1>10. \A j, h : Standing(j, h)' <=> Standing(j, h) \/ (j = k /\ h \in new)
    <2> SUFFICES ASSUME NEW j, NEW h
                 PROVE  Standing(j, h)' <=> Standing(j, h) \/ (j = k /\ h \in new)
      OBVIOUS
    <2>1. /\ Standing(j, h) <=> j \in OwningKinds /\ h \in DOMAIN table[j]
          /\ Standing(j, h)' <=> j \in OwningKinds /\ h \in DOMAIN table'[j]
      BY UntornStanding, UntornStandingAfter DEF Kept, Registered
    <2>2. CASE j = k
      BY <1>2, <2>1, <2>2
    <2>3. CASE j # k
      BY <1>2, <2>1, <2>3 DEF OwningKinds
    <2> QED BY <2>2, <2>3
  <1>11. Backed /\ Arriving /\ RecordsKept /\ ArrivalsKept
    BY DEF Kept
  <1>12. \A h \in new : ~Standing(k, h) /\ Native(k, h)' \notin DOMAIN live
                         /\ ParentNative(k, h)' = p
    BY <1>4
  <1>13. Gained(k, new, p)
    BY <1>5, <1>7, <1>8, <1>9, <1>10, <1>12 DEF Gained
  <1> QED BY <1>11, <1>13, Gains

LEMMA CreatesOne ==
  ASSUME Kept, TablesTyped, NEW k \in OwningKinds, NEW new, new = next[k], NEW r, NEW p,
         Insert(k, Only(new, r)), r.native \in Unused, ParentNative(k, new)' = p,
         live' = Override(Only(r.native, [kind |-> k, parent |-> p]), live)
  PROVE  Backed' /\ Arriving' /\ StandOn
  <1>1. PICK records : records = Only(new, r)
    OBVIOUS
  <1>2. Fresh(k, 1) = {new} /\ 1 \in Nat
    BY DEF Fresh, TablesTyped, OwningKinds
  <1>3. DOMAIN records = Fresh(k, 1) /\ \A h \in Fresh(k, 1) : records[h] = r /\ h = new
    BY <1>1, <1>2 DEF Only
  <1>4. {records[h].native : h \in Fresh(k, 1)} = {r.native}
    BY <1>2, <1>3
  <1>5. live' = Override([x \in {records[h].native : h \in Fresh(k, 1)} |->
                            [kind |-> k, parent |-> p]], live)
    BY <1>4 DEF Only
  <1>6. Insert(k, records)
    BY <1>1
  <1>7. \A h \in Fresh(k, 1) : records[h].native \in Unused /\ ParentNative(k, h)' = p
    BY <1>3
  <1>8. \A h, g \in Fresh(k, 1) : records[h].native = records[g].native => h = g
    BY <1>3
  <1> QED BY <1>2, <1>3, <1>5, <1>6, <1>7, <1>8, Creates

\* Records that go with their objects.
LEMMA Destroys ==
  ASSUME Kept, TablesTyped, NEW k \in OwningKinds, NEW handles \in SUBSET Registered(k),
         live' = Without(live, NativesOf(k, handles)), Erase(k, handles)
  PROVE  Backed' /\ Arriving' /\ StandOn
  <1>1. PICK S : S = NativesOf(k, handles)
    OBVIOUS
  <1>2. DOMAIN live' = DOMAIN live \ S /\ \A n \in DOMAIN live' : live'[n] = live[n]
    BY <1>1 DEF Without
  <1>3. /\ \A j \in Kinds \ {k} : table'[j] = table[j]
        /\ DOMAIN table'[k] = DOMAIN table[k] \ handles
    BY DEF Erase, Without, TablesTyped, OwningKinds
  <1>4. \A h \in handles : Standing(k, h)
    BY UntornStanding DEF Kept
  <1>5. \A j, h : Standing(j, h)' <=> Standing(j, h) /\ Native(j, h) \notin S
    <2> SUFFICES ASSUME NEW j, NEW h
                 PROVE  Standing(j, h)' <=> Standing(j, h) /\ Native(j, h) \notin S
      OBVIOUS
    <2>1. /\ Standing(j, h) <=> j \in OwningKinds /\ h \in DOMAIN table[j]
          /\ Standing(j, h)' <=> j \in OwningKinds /\ h \in DOMAIN table'[j]
      BY UntornStanding, UntornStandingAfter DEF Kept, Registered
    <2>2. ASSUME Standing(j, h), Native(j, h) \in S PROVE j = k /\ h \in handles
      <3>1. PICK g \in handles : Native(k, g) = Native(j, h)
        BY <1>1, <2>2 DEF NativesOf
      <3>2. /\ live[Native(j, h)] = [kind |-> j, parent |-> ParentNative(j, h)]
            /\ live[Native(k, g)] = [kind |-> k, parent |-> ParentNative(k, g)]
        BY <1>4, <2>2 DEF Kept, Backed
      <3>3. j = k
        BY <3>1, <3>2
      <3>4. h = g
        BY <1>4, <2>2, <3>1, <3>3 DEF Kept, Backed
      <3> QED BY <3>3, <3>4
    <2>3. j = k /\ h \in handles => Native(j, h) \in S
      BY <1>1 DEF NativesOf
    <2>4. j \in OwningKinds => j \in Kinds
      BY DEF OwningKinds
    <2> QED BY <1>3, <2>1, <2>2, <2>3, <2>4
  <1>6. \A t \in Threads : \A n : Arrives(t, n) => n \notin S
    BY <1>1, <1>4 DEF NativesOf, Kept, Arriving
  <1> QED BY <1>2, <1>5, <1>6, Loses DEF Kept

-----------------------------------------------------------------------------
(* The steps that start and end in one critical section *)

LEMMA PlainKept ==
  ASSUME Backed, Arriving, RecordsKept, LockHeld, lock = NoThread, call' = call
  PROVE  Kept
  <1>1. Untorn
    BY FreeUntorn
  <1>2. Untorn'
    BY <1>1 DEF Untorn
  <1>3. ArrivalsKept
    BY DEF ArrivalsKept
  <1> QED BY <1>1, <1>2, <1>3 DEF Kept

\* The parent of a new record lies in a table that has not changed.
LEMMA NewParent ==
  ASSUME TablesTyped, NEW k \in Kinds, NEW n \in Nat, NEW records, NEW h \in Fresh(k, n),
         DOMAIN records = Fresh(k, n), Insert(k, records)
  PROVE  /\ k \in LeafKinds \cup {"command_pool"} =>
              ParentNative(k, h)' = Native("device", records[h].parent)
         /\ k = "device" =>
              ParentNative(k, h)' = Native("physical_device", records[h].parent)
         /\ k = "command_buffer" =>
              ParentNative(k, h)' = Native("command_pool", records[h].pool)
  <1>1. /\ \A j \in Kinds \ {k} : table'[j] = table[j]
        /\ \A g \in Fresh(k, n) : table'[k][g] = records[g]
    BY InsertedTables
  <1>2. CASE k \in LeafKinds \cup {"command_pool"}
    <2>1. k \notin {"instance", "device", "command_buffer"}
      BY <1>2 DEF LeafKinds
    <2>2. ParentNative(k, h)' = table'["device"][table'[k][h].parent].native
      BY <2>1 DEF ParentNative, Native
    <2>3. table'["device"] = table["device"]
      BY <1>1, <2>1, KindFacts
    <2> QED BY <1>1, <2>1, <2>2, <2>3 DEF Native
  <1>3. CASE k = "device"
    <2>1. ParentNative(k, h)' = table'["physical_device"][table'[k][h].parent].native
      BY <1>3 DEF ParentNative, Native
    <2>2. table'["physical_device"] = table["physical_device"]
      BY <1>1, <1>3, KindFacts
    <2> QED BY <1>1, <1>3, <2>1, <2>2 DEF Native, LeafKinds
  <1>4. CASE k = "command_buffer"
    <2>1. ParentNative(k, h)' = table'["command_pool"][table'[k][h].pool].native
      BY <1>4 DEF ParentNative, Native
    <2>2. table'["command_pool"] = table["command_pool"]
      BY <1>1, <1>4, KindFacts
    <2> QED BY <1>1, <1>4, <2>1, <2>2 DEF Native, LeafKinds
  <1> QED BY <1>2, <1>3, <1>4

LEMMA NewParentOfOne ==
  ASSUME TablesTyped, NEW k \in Kinds, NEW new, new = next[k], NEW r, Insert(k, Only(new, r))
  PROVE  /\ k \in LeafKinds \cup {"command_pool"} =>
              ParentNative(k, new)' = Native("device", r.parent)
         /\ k = "device" => ParentNative(k, new)' = Native("physical_device", r.parent)
  <1>1. PICK records : records = Only(new, r)
    OBVIOUS
  <1>2. Fresh(k, 1) = {new} /\ 1 \in Nat
    BY DEF Fresh, TablesTyped
  <1>3. DOMAIN records = Fresh(k, 1) /\ new \in Fresh(k, 1) /\ records[new] = r
    BY <1>1, <1>2 DEF Only
  <1>4. Insert(k, records)
    BY <1>1
  <1> QED BY <1>2, <1>3, <1>4, NewParent

LEMMA CreateLeafDriven ==
  ASSUME Kept, TablesTyped, NEW t \in Threads, NEW k \in LeafKinds, CreateLeaf(t, k)
  PROVE  Backed' /\ Arriving' /\ StandOn
  <1>1. PICK d \in Registered("device"), n \in Unused :
          /\ live' = Override(Only(n, [kind |-> k, parent |-> Native("device", d)]), live)
          /\ Insert(k, Only(next[k], [native |-> n, parent |-> d, pool |-> NoHandle]))
    BY DEF CreateLeaf
  <1>2. PICK new : new = next[k]
    OBVIOUS
  <1>3. PICK p : p = Native("device", d)
    OBVIOUS
  <1>4. PICK r : r = [native |-> n, parent |-> d, pool |-> NoHandle]
    OBVIOUS
  <1>5. k \in OwningKinds /\ k \in Kinds
    BY OwningFacts, KindFacts
  <1>6. Insert(k, Only(new, r)) /\ r.native = n /\ r.parent = d
    BY <1>1, <1>2, <1>4
  <1>7. ParentNative(k, new)' = p
    BY <1>2, <1>3, <1>5, <1>6, NewParentOfOne
  <1>8. live' = Override(Only(r.native, [kind |-> k, parent |-> p]), live)
    BY <1>1, <1>3, <1>6
  <1> QED BY <1>1, <1>2, <1>5, <1>6, <1>7, <1>8, CreatesOne

LEMMA CreateDeviceDriven ==
  ASSUME Kept, TablesTyped, NEW t \in Threads, CreateDevice(t)
  PROVE  Backed' /\ Arriving' /\ StandOn
  <1>1. PICK g \in Registered("physical_device"), n \in Unused :
          /\ live' = Override(Only(n, [kind |-> "device",
                                       parent |-> Native("physical_device", g)]), live)
          /\ Insert("device", Only(next["device"],
               [native |-> n, parent |-> g, pool |-> NoHandle]))
    BY DEF CreateDevice
  <1>2. PICK new : new = next["device"]
    OBVIOUS
  <1>3. PICK p : p = Native("physical_device", g)
    OBVIOUS
  <1>4. PICK r : r = [native |-> n, parent |-> g, pool |-> NoHandle]
    OBVIOUS
  <1>5. PICK k : k = "device"
    OBVIOUS
  <1>6. k \in OwningKinds /\ k \in Kinds
    BY <1>5, OwningFacts, KindFacts
  <1>7. Insert(k, Only(new, r)) /\ r.native = n /\ r.parent = g /\ new = next[k]
    BY <1>1, <1>2, <1>4, <1>5
  <1>8. ParentNative(k, new)' = p
    BY <1>3, <1>5, <1>6, <1>7, NewParentOfOne
  <1>9. live' = Override(Only(r.native, [kind |-> k, parent |-> p]), live)
    BY <1>1, <1>3, <1>5, <1>7
  <1> QED BY <1>1, <1>6, <1>7, <1>8, <1>9, CreatesOne

LEMMA CreateCommandPoolDriven ==
  ASSUME Kept, TablesTyped, NEW t \in Threads, CreateCommandPool(t)
  PROVE  Backed' /\ Arriving' /\ StandOn
  <1>1. PICK d \in Registered("device"), n \in Unused, written \in BOOLEAN :
          IF written
          THEN /\ live' = Override(Only(n, [kind |-> "command_pool",
                                            parent |-> Native("device", d)]), live)
               /\ Insert("command_pool", Only(next["command_pool"],
                    [native |-> n, parent |-> d, pool |-> NoHandle]))
          ELSE UNCHANGED <<live, table>>
    BY DEF CreateCommandPool
  <1>2. CASE ~written
    <2>1. live' = live /\ \A k \in OwningKinds : Registered(k)' = Registered(k)
      BY <1>1, <1>2 DEF Registered
    <2> QED BY <2>1, Quiet
  <1>3. CASE written
    <2>2. PICK new : new = next["command_pool"]
      OBVIOUS
    <2>3. PICK p : p = Native("device", d)
      OBVIOUS
    <2>4. PICK r : r = [native |-> n, parent |-> d, pool |-> NoHandle]
      OBVIOUS
    <2>5. PICK k : k = "command_pool"
      OBVIOUS
    <2>6. k \in OwningKinds /\ k \in Kinds
      BY <2>5, OwningFacts, KindFacts
    <2>7. Insert(k, Only(new, r)) /\ r.native = n /\ r.parent = d /\ new = next[k]
      BY <1>1, <1>3, <2>2, <2>4, <2>5
    <2>8. ParentNative(k, new)' = p
      BY <2>3, <2>5, <2>6, <2>7, NewParentOfOne
    <2>9. live' = Override(Only(r.native, [kind |-> k, parent |-> p]), live)
      BY <1>1, <1>3, <2>3, <2>5, <2>7
    <2> QED BY <1>1, <2>6, <2>7, <2>8, <2>9, CreatesOne
  <1> QED BY <1>2, <1>3

LEMMA AllocateCommandBuffersDriven ==
  ASSUME Kept, TablesTyped, NEW t \in Threads, AllocateCommandBuffers(t)
  PROVE  Backed' /\ Arriving' /\ StandOn
  <1>1. PICK d \in Registered("device"), count \in 1 .. Limit["command_buffer"] :
          \E p \in Children("command_pool", {d}), written \in BOOLEAN :
            \E new \in Injections(Fresh("command_buffer", count), Unused) :
              IF written
              THEN /\ live' = Override(
                        [n \in {new[h] : h \in Fresh("command_buffer", count)} |->
                           [kind |-> "command_buffer",
                            parent |-> Native("command_pool", p)]], live)
                   /\ Insert("command_buffer", [h \in Fresh("command_buffer", count) |->
                        [native |-> new[h], parent |-> d, pool |-> p]])
              ELSE UNCHANGED <<live, table>>
    BY DEF AllocateCommandBuffers
  <1>2. PICK p \in Children("command_pool", {d}), written \in BOOLEAN,
             new \in Injections(Fresh("command_buffer", count), Unused) :
          IF written
          THEN /\ live' = Override(
                    [n \in {new[h] : h \in Fresh("command_buffer", count)} |->
                       [kind |-> "command_buffer",
                        parent |-> Native("command_pool", p)]], live)
               /\ Insert("command_buffer", [h \in Fresh("command_buffer", count) |->
                    [native |-> new[h], parent |-> d, pool |-> p]])
          ELSE UNCHANGED <<live, table>>
    BY <1>1
  <1>3. CASE ~written
    <2>1. live' = live /\ \A k \in OwningKinds : Registered(k)' = Registered(k)
      BY <1>2, <1>3 DEF Registered
    <2> QED BY <2>1, Quiet
  <1>4. CASE written
    <2>1. PICK k : k = "command_buffer"
      OBVIOUS
    <2>2. k \in OwningKinds /\ k \in Kinds /\ count \in Nat
      BY <2>1, OwningFacts, KindFacts, LimitAssumption
    <2>3. PICK records : records = [h \in Fresh(k, count) |->
                                      [native |-> new[h], parent |-> d, pool |-> p]]
      OBVIOUS
    <2>4. PICK q : q = Native("command_pool", p)
      OBVIOUS
    <2>5. /\ DOMAIN records = Fresh(k, count)
          /\ \A h \in Fresh(k, count) : records[h].native = new[h] /\ records[h].pool = p
      BY <2>3
    <2>6. Insert(k, records)
      BY <1>2, <1>4, <2>1, <2>3
    <2>7. \A h \in Fresh(k, count) : ParentNative(k, h)' = q
      BY <2>1, <2>2, <2>4, <2>5, <2>6, NewParent
    <2>8. /\ \A h \in Fresh(k, count) : new[h] \in Unused
          /\ \A h, g \in Fresh(k, count) : new[h] = new[g] => h = g
      BY <1>2, <2>1 DEF Injections
    <2>9. {records[h].native : h \in Fresh(k, count)} = {new[h] : h \in Fresh(k, count)}
      BY <2>5
    <2>10. live' = Override([x \in {records[h].native : h \in Fresh(k, count)} |->
                              [kind |-> k, parent |-> q]], live)
      BY <1>2, <1>4, <2>1, <2>4, <2>9
    <2>11. \A h \in Fresh(k, count) : records[h].native \in Unused /\ ParentNative(k, h)' = q
      BY <2>5, <2>7, <2>8
    <2>12. \A h, g \in Fresh(k, count) : records[h].native = records[g].native => h = g
      BY <2>5, <2>8
    <2> QED BY <2>2, <2>5, <2>6, <2>10, <2>11, <2>12, Creates
  <1> QED BY <1>3, <1>4

LEMMA DestroyLeafDriven ==
  ASSUME Kept, TablesTyped, NEW t \in Threads, NEW k \in LeafKinds, DestroyLeaf(t, k)
  PROVE  Backed' /\ Arriving' /\ StandOn
  <1>1. PICK d \in Registered("device") : \E h \in Children(k, {d}) :
          live' = Without(live, {Native(k, h)}) /\ Erase(k, {h})
    BY DEF DestroyLeaf
  <1>2. PICK h \in Children(k, {d}) : live' = Without(live, {Native(k, h)}) /\ Erase(k, {h})
    BY <1>1
  <1>3. k \in OwningKinds
    BY OwningFacts
  <1>4. PICK handles : handles = {h}
    OBVIOUS
  <1>5. NativesOf(k, handles) = {Native(k, h)}
    BY <1>4 DEF NativesOf
  <1>6. handles \in SUBSET Registered(k) /\ Erase(k, handles)
    BY <1>2, <1>4 DEF Children
  <1> QED BY <1>2, <1>3, <1>5, <1>6, Destroys

LEMMA FreeCommandBuffersDriven ==
  ASSUME Kept, TablesTyped, NEW t \in Threads, FreeCommandBuffers(t)
  PROVE  Backed' /\ Arriving' /\ StandOn
  <1>1. PICK d \in Registered("device") : \E p \in Children("command_pool", {d}) :
          \E list \in SUBSET BuffersOf(d, p) :
            /\ live' = Without(live, NativesOf("command_buffer", list))
            /\ Erase("command_buffer", list)
    BY DEF FreeCommandBuffers
  <1>2. PICK p \in Children("command_pool", {d}) :
          \E list \in SUBSET BuffersOf(d, p) :
            /\ live' = Without(live, NativesOf("command_buffer", list))
            /\ Erase("command_buffer", list)
    BY <1>1
  <1>3. PICK list \in SUBSET BuffersOf(d, p) :
          /\ live' = Without(live, NativesOf("command_buffer", list))
          /\ Erase("command_buffer", list)
    BY <1>2
  <1>4. list \in SUBSET Registered("command_buffer") /\ "command_buffer" \in OwningKinds
    BY OwningFacts DEF BuffersOf, Children
  <1> QED BY <1>3, <1>4, Destroys

\* A command buffer does not outlast its pool.
PoolsStand ==
  \A b : Standing("command_buffer", b) => Standing("command_pool", table["command_buffer"][b].pool)

\* What lives or dies with some objects of kind k and the buffers of a pool.
LEMMA BuriedOwners ==
  ASSUME Backed, Arriving, PoolsStand, NEW k \in OwningKinds, NEW handles,
         \A h \in handles : Standing(k, h), NEW S, S = Buried(NativesOf(k, handles))
  PROVE  /\ \A j, h : Standing(j, h) =>
              (Native(j, h) \in S <=>
                 \/ j = k /\ h \in handles
                 \/ /\ k = "command_pool" /\ j = "command_buffer"
                    /\ table["command_buffer"][h].pool \in handles)
         /\ \A t \in Threads : \A n : Arrives(t, n) => n \notin S
  <1>1. \A n : n \in S <=> \/ \E g \in handles : n = Native(k, g)
                           \/ /\ n \in DOMAIN live /\ live[n].kind = "command_buffer"
                              /\ \E g \in handles : live[n].parent = Native(k, g)
    BY DEF Buried, NativesOf
  <1>2. ASSUME NEW j, NEW h, Standing(j, h), NEW g \in handles, Native(j, h) = Native(k, g)
        PROVE  j = k /\ h = g
    <2>1. /\ live[Native(j, h)] = [kind |-> j, parent |-> ParentNative(j, h)]
          /\ live[Native(k, g)] = [kind |-> k, parent |-> ParentNative(k, g)]
      BY <1>2 DEF Backed
    <2>2. j = k
      BY <1>2, <2>1
    <2> QED BY <1>2, <2>2 DEF Backed
  <1>3. ASSUME NEW j, NEW h, Standing(j, h), Native(j, h) \in S,
               ~(j = k /\ h \in handles)
        PROVE  /\ k = "command_pool" /\ j = "command_buffer"
               /\ table["command_buffer"][h].pool \in handles
    <2>1. PICK g \in handles : live[Native(j, h)].kind = "command_buffer"
                               /\ live[Native(j, h)].parent = Native(k, g)
      BY <1>1, <1>2, <1>3
    <2>2. live[Native(j, h)] = [kind |-> j, parent |-> ParentNative(j, h)]
      BY <1>3 DEF Backed
    <2>3. j = "command_buffer" /\ ParentNative(j, h) = Native(k, g)
      BY <2>1, <2>2
    <2>4. PICK p : p = table["command_buffer"][h].pool
      OBVIOUS
    <2>5. Standing("command_pool", p) /\ Native("command_pool", p) = Native(k, g)
      BY <1>3, <2>3, <2>4 DEF PoolsStand, ParentNative
    <2>6. "command_pool" = k /\ p = g
      BY <1>2, <2>5
    <2> QED BY <2>3, <2>4, <2>6
  <1>4. ASSUME NEW h, k = "command_pool", Standing("command_buffer", h),
               table["command_buffer"][h].pool \in handles
        PROVE  Native("command_buffer", h) \in S
    <2>1. /\ Native("command_buffer", h) \in DOMAIN live
          /\ live[Native("command_buffer", h)] =
               [kind |-> "command_buffer", parent |-> ParentNative("command_buffer", h)]
      BY <1>4 DEF Backed
    <2>2. ParentNative("command_buffer", h) = Native(k, table["command_buffer"][h].pool)
      BY <1>4 DEF ParentNative
    <2> QED BY <1>1, <1>4, <2>1, <2>2
  <1>5. ASSUME NEW t \in Threads, NEW n, Arrives(t, n) PROVE n \notin S
    <2>1. live[n].kind = "instance" /\ \A j, h : Standing(j, h) => Native(j, h) # n
      BY <1>5 DEF Arriving
    <2> QED BY <1>1, <2>1
  <1> QED BY <1>1, <1>3, <1>4, <1>5

LEMMA DestroyCommandPoolDriven ==
  ASSUME Kept, TablesTyped, TablesClosed, NEW t \in Threads, DestroyCommandPool(t)
  PROVE  Backed' /\ Arriving' /\ StandOn
  <1>1. PICK d \in Registered("device") : \E p \in Children("command_pool", {d}) :
          /\ live' = Without(live, Buried({Native("command_pool", p)}))
          /\ table' = [table EXCEPT
               !["command_pool"] = Without(@, {p}),
               !["command_buffer"] = Without(@, {b \in DOMAIN @ : @[b].pool = p})]
    BY DEF DestroyCommandPool
  <1>2. PICK p \in Children("command_pool", {d}) :
          /\ live' = Without(live, Buried({Native("command_pool", p)}))
          /\ table' = [table EXCEPT
               !["command_pool"] = Without(@, {p}),
               !["command_buffer"] = Without(@, {b \in DOMAIN @ : @[b].pool = p})]
    BY <1>1
  <1>3. PICK k : k = "command_pool"
    OBVIOUS
  <1>4. k \in OwningKinds /\ p \in Registered(k)
    BY <1>3, OwningFacts DEF Children
  <1>5. PICK S : S = Buried(NativesOf(k, {p}))
    OBVIOUS
  <1>6. NativesOf(k, {p}) = {Native("command_pool", p)}
    BY <1>3 DEF NativesOf
  <1>7. DOMAIN live' = DOMAIN live \ S /\ \A n \in DOMAIN live' : live'[n] = live[n]
    BY <1>2, <1>5, <1>6 DEF Without
  <1>8. PoolsStand
    <2> SUFFICES ASSUME NEW b, Standing("command_buffer", b)
                 PROVE  Standing("command_pool", table["command_buffer"][b].pool)
      BY DEF PoolsStand
    <2>1. table["command_buffer"][b].pool \in Registered("command_pool")
      BY DEF Standing, TablesClosed
    <2> QED BY <1>3, <1>4, <2>1, UntornStanding DEF Kept
  <1>9. \A h \in {p} : Standing(k, h)
    BY <1>4, UntornStanding DEF Kept
  <1>10. /\ \A j, h : Standing(j, h) =>
              (Native(j, h) \in S <=>
                 \/ j = k /\ h \in {p}
                 \/ /\ k = "command_pool" /\ j = "command_buffer"
                    /\ table["command_buffer"][h].pool \in {p})
         /\ \A u \in Threads : \A n : Arrives(u, n) => n \notin S
    BY <1>4, <1>5, <1>8, <1>9, BuriedOwners DEF Kept
  <1>11. /\ \A j \in Kinds \ {"command_pool", "command_buffer"} : table'[j] = table[j]
         /\ DOMAIN table'["command_pool"] = DOMAIN table["command_pool"] \ {p}
         /\ DOMAIN table'["command_buffer"] =
              {b \in DOMAIN table["command_buffer"] : table["command_buffer"][b].pool # p}
    BY <1>2, KindFacts DEF Without, TablesTyped
  <1>12. \A j, h : Standing(j, h)' <=> Standing(j, h) /\ Native(j, h) \notin S
    <2> SUFFICES ASSUME NEW j, NEW h
                 PROVE  Standing(j, h)' <=> Standing(j, h) /\ Native(j, h) \notin S
      OBVIOUS
    <2>1. /\ Standing(j, h) <=> j \in OwningKinds /\ h \in DOMAIN table[j]
          /\ Standing(j, h)' <=> j \in OwningKinds /\ h \in DOMAIN table'[j]
      BY UntornStanding, UntornStandingAfter DEF Kept, Registered
    <2>2. j \in OwningKinds => j \in Kinds
      BY DEF OwningKinds
    <2>3. CASE j = "command_pool"
      BY <1>3, <1>10, <1>11, <2>1, <2>3
    <2>4. CASE j = "command_buffer"
      BY <1>3, <1>10, <1>11, <2>1, <2>4
    <2>5. CASE j \notin {"command_pool", "command_buffer"}
      BY <1>3, <1>10, <1>11, <2>1, <2>2, <2>5
    <2> QED BY <2>3, <2>4, <2>5
  <1> QED BY <1>7, <1>10, <1>12, Loses DEF Kept

-----------------------------------------------------------------------------
(* Instances *)

LEMMA InsertInstanceDriven ==
  ASSUME Backed, Arriving, RecordsKept, TablesTyped, CallsTyped, Untorn,
         NEW t \in Threads, InsertInstance(t)
  PROVE  Backed' /\ Arriving' /\ StandOn
  <1>1. PICK n \in call[t].natives :
          Insert("instance", Only(next["instance"],
            [native |-> n, parent |-> NoHandle, pool |-> NoHandle]))
    BY DEF InsertInstance
  <1>2. PICK new : new = next["instance"]
    OBVIOUS
  <1>3. Arrives(t, n) /\ call[t].natives = {n}
    <2>1. call[t].at = "insert_instance"
      BY DEF InsertInstance, Resume
    <2> QED BY <1>1, <2>1 DEF Arriving, Arrives
  <1>4. live' = live /\ \A u \in Threads : call'[u] = IF u = t THEN Idle ELSE call[u]
    BY DEF InsertInstance, Return, Become, CallsTyped
  <1>5. Untorn'
    BY <1>4, IdleCall DEF Untorn, Teardowns
  <1>6. /\ \A j \in Kinds \ {"instance"} : table'[j] = table[j]
        /\ DOMAIN table'["instance"] = {new} \cup DOMAIN table["instance"]
        /\ table'["instance"][new].native = n /\ new \notin DOMAIN table["instance"]
    <2>1. PICK records : records = Only(next["instance"],
                           [native |-> n, parent |-> NoHandle, pool |-> NoHandle])
      OBVIOUS
    <2>2. Fresh("instance", 1) = {new} /\ 1 \in Nat /\ "instance" \in Kinds
      BY <1>2, KindFacts DEF Fresh, TablesTyped
    <2>3. DOMAIN records = Fresh("instance", 1) /\ records[new].native = n
      BY <1>2, <2>1, <2>2 DEF Only
    <2>4. Insert("instance", records)
      BY <1>1, <2>1
    <2> QED BY <2>2, <2>3, <2>4, InsertedTables
  <1>7. \A j, h : Standing(j, h)' <=> Standing(j, h) \/ (j = "instance" /\ h = new)
    <2> SUFFICES ASSUME NEW j, NEW h
                 PROVE  Standing(j, h)' <=> Standing(j, h) \/ (j = "instance" /\ h = new)
      OBVIOUS
    <2>1. /\ Standing(j, h) <=> j \in OwningKinds /\ h \in DOMAIN table[j]
          /\ Standing(j, h)' <=> j \in OwningKinds /\ h \in DOMAIN table'[j]
      BY <1>5, UntornStanding, UntornStandingAfter DEF Registered
    <2>2. CASE j = "instance"
      BY <1>6, <2>1, <2>2, OwningFacts
    <2>3. CASE j # "instance"
      BY <1>6, <2>1, <2>3 DEF OwningKinds
    <2> QED BY <2>2, <2>3
  <1>8. Native("instance", new)' = n /\ ParentNative("instance", new)' = NoNative
    BY <1>6 DEF Native, ParentNative
  <1>9. \A j, h : Standing(j, h) => /\ Standing(j, h)'
                                    /\ Native(j, h)' = Native(j, h)
                                    /\ ParentNative(j, h)' = ParentNative(j, h)
    <2>1. ASSUME NEW j, NEW h, Standing(j, h)
          PROVE  Standing(j, h)' /\ j \in OwningKinds /\ h \in Registered(j) /\ h \in Registered(j)'
      <3>1. Standing(j, h)'
        BY <1>7, <2>1
      <3> QED BY <2>1, <3>1 DEF Standing
    <2> QED BY <2>1 DEF RecordsKept
  <1>10. /\ n \in DOMAIN live /\ live[n] = [kind |-> "instance", parent |-> NoNative]
         /\ \A j, h : Standing(j, h) => Native(j, h) # n
    BY <1>3 DEF Arriving
  <1>11. ASSUME NEW j, NEW h, Standing(j, h)'
         PROVE  /\ Native(j, h)' \in DOMAIN live'
                /\ live'[Native(j, h)'] = [kind |-> j, parent |-> ParentNative(j, h)']
    <2>1. CASE Standing(j, h)
      BY <1>4, <1>9, <2>1 DEF Backed
    <2>2. CASE j = "instance" /\ h = new
      BY <1>4, <1>8, <1>10, <2>2
    <2> QED BY <1>7, <1>11, <2>1, <2>2
  <1>12. ASSUME NEW j, NEW h, NEW g, Standing(j, h)', Standing(j, g)',
                Native(j, h)' = Native(j, g)'
         PROVE  h = g
    <2>1. CASE Standing(j, h) /\ Standing(j, g)
      BY <1>9, <1>12, <2>1 DEF Backed
    <2>2. CASE ~(Standing(j, h) /\ Standing(j, g))
      BY <1>7, <1>8, <1>9, <1>10, <1>12, <2>2
    <2> QED BY <2>1, <2>2
  <1>13. ASSUME NEW m \in DOMAIN live'
         PROVE  \/ \E j, h : Standing(j, h)' /\ Native(j, h)' = m
                \/ \E u \in Threads : Arrives(u, m)'
    <2>1. CASE \E j, h : Standing(j, h) /\ Native(j, h) = m
      <3>1. PICK j, h : Standing(j, h) /\ Native(j, h) = m
        BY <2>1
      <3> QED BY <1>9, <3>1
    <2>2. CASE \E u \in Threads : Arrives(u, m)
      <3>1. PICK u \in Threads : Arrives(u, m)
        BY <2>2
      <3>2. CASE u = t
        <4>1. m = n
          BY <1>3, <3>1, <3>2 DEF Arrives
        <4>2. Standing("instance", new)'
          BY <1>7
        <4> QED BY <1>8, <4>1, <4>2
      <3>3. CASE u # t
        BY <1>4, <3>1, <3>3 DEF Arrives
      <3> QED BY <3>2, <3>3
    <2> QED BY <1>4, <2>1, <2>2 DEF Backed
  <1>14. Backed'
    BY <1>11, <1>12, <1>13 DEF Backed
  <1>15. \A u \in Threads : \A m : Arrives(u, m)' => Arrives(u, m) /\ u # t
    BY <1>4, IdleCall DEF Arrives
  <1>16. ASSUME NEW u \in Threads, NEW m, Arrives(u, m)'
         PROVE  /\ m \in DOMAIN live' /\ live'[m] = [kind |-> "instance", parent |-> NoNative]
                /\ \A j, h : Standing(j, h)' => Native(j, h)' # m
    <2>1. Arrives(u, m) /\ u # t
      BY <1>15, <1>16
    <2>2. m # n
      BY <1>3, <2>1 DEF Arriving
    <2>3. /\ m \in DOMAIN live /\ live[m] = [kind |-> "instance", parent |-> NoNative]
          /\ \A j, h : Standing(j, h) => Native(j, h) # m
      BY <2>1 DEF Arriving
    <2> QED BY <1>4, <1>7, <1>8, <1>9, <2>2, <2>3
  <1>17. \A u, w \in Threads : \A m : Arrives(u, m)' /\ Arrives(w, m)' => u = w
    BY <1>15 DEF Arriving
  <1>18. \A u \in Threads : call'[u].at = "insert_instance" => \E m : call'[u].natives = {m}
    BY <1>4, IdleCall DEF Arriving
  <1>19. Arriving'
    BY <1>16, <1>17, <1>18 DEF Arriving
  <1>20. StandOn
    BY <1>9 DEF StandOn
  <1> QED BY <1>14, <1>19, <1>20

LEMMA CreateInstanceDriven ==
  ASSUME Backed, Arriving, RecordsKept, CallsTyped, NEW t \in Threads, CreateInstance(t)
  PROVE  Backed' /\ Arriving' /\ StandOn
  <1>1. PICK n \in Unused :
          /\ live' = Override(Only(n, [kind |-> "instance", parent |-> NoNative]), live)
          /\ Become(t, [Idle EXCEPT !.at = "insert_instance", !.natives = {n}])
    BY DEF CreateInstance
  <1>2. PICK c : c = [Idle EXCEPT !.at = "insert_instance", !.natives = {n}]
    OBVIOUS
  <1>3. c.at = "insert_instance" /\ c.natives = {n}
    BY <1>2 DEF Idle
  <1>4. /\ table' = table /\ call[t].at = "idle"
        /\ \A u \in Threads : call'[u] = IF u = t THEN c ELSE call[u]
    BY <1>1, <1>2 DEF CreateInstance, Become, CallsTyped
  <1>5. \A u \in Threads : call'[u].at \in Teardowns \/ call[u].at \in Teardowns
                             => call'[u] = call[u]
    BY <1>3, <1>4 DEF Teardowns
  <1>6. \A x, k : Condemned(x, k)' = Condemned(x, k)
    BY <1>4 DEF Condemned, Children, Registered
  <1>7. \A k, h : Torn(k, h)' <=> Torn(k, h)
    BY <1>5, <1>6 DEF Torn
  <1>8. \A k, h : /\ Standing(k, h)' <=> Standing(k, h)
                  /\ Native(k, h)' = Native(k, h)
                  /\ ParentNative(k, h)' = ParentNative(k, h)
    BY <1>4, <1>7 DEF Standing, Registered, Native, ParentNative
  <1>9. /\ DOMAIN live' = DOMAIN live \cup {n} /\ n \notin DOMAIN live
        /\ live'[n] = [kind |-> "instance", parent |-> NoNative]
        /\ \A m \in DOMAIN live : live'[m] = live[m]
    BY <1>1 DEF Override, Only, Unused
  <1>10. ASSUME NEW u \in Threads, NEW m
         PROVE  Arrives(u, m)' <=> Arrives(u, m) \/ (u = t /\ m = n)
    BY <1>3, <1>4 DEF Arrives
  <1>11. \A k, h : Standing(k, h) => Native(k, h) # n
    BY <1>9 DEF Backed
  <1>12. \A k, h : Standing(k, h)' =>
           /\ Native(k, h)' \in DOMAIN live'
           /\ live'[Native(k, h)'] = [kind |-> k, parent |-> ParentNative(k, h)']
    BY <1>8, <1>9 DEF Backed
  <1>13. \A k, h, g : Standing(k, h)' /\ Standing(k, g)' /\ Native(k, h)' = Native(k, g)' => h = g
    BY <1>8 DEF Backed
  <1>14. ASSUME NEW m \in DOMAIN live'
         PROVE  \/ \E k, h : Standing(k, h)' /\ Native(k, h)' = m
                \/ \E u \in Threads : Arrives(u, m)'
    <2>1. CASE m = n
      BY <1>10, <2>1
    <2>2. CASE \E k, h : Standing(k, h) /\ Native(k, h) = m
      <3>1. PICK k, h : Standing(k, h) /\ Native(k, h) = m
        BY <2>2
      <3> QED BY <1>8, <3>1
    <2>3. CASE \E u \in Threads : Arrives(u, m)
      BY <1>10, <2>3
    <2> QED BY <1>9, <2>1, <2>2, <2>3 DEF Backed
  <1>15. Backed'
    BY <1>12, <1>13, <1>14 DEF Backed
  <1>16. ASSUME NEW u \in Threads, NEW m, Arrives(u, m)'
         PROVE  /\ m \in DOMAIN live' /\ live'[m] = [kind |-> "instance", parent |-> NoNative]
                /\ \A k, h : Standing(k, h)' => Native(k, h)' # m
    <2>1. CASE Arrives(u, m)
      BY <1>8, <1>9, <2>1 DEF Arriving
    <2>2. CASE m = n
      BY <1>8, <1>9, <1>11, <2>2
    <2> QED BY <1>10, <1>16, <2>1, <2>2
  <1>17. ASSUME NEW u \in Threads, NEW w \in Threads, NEW m, Arrives(u, m)', Arrives(w, m)'
         PROVE  u = w
    <2>1. \A x \in Threads : Arrives(x, m) => m \in DOMAIN live
      BY DEF Arriving
    <2> QED BY <1>9, <1>10, <1>17, <2>1 DEF Arriving
  <1>18. \A u \in Threads : call'[u].at = "insert_instance" => \E m : call'[u].natives = {m}
    BY <1>3, <1>4 DEF Arriving
  <1>19. Arriving'
    BY <1>16, <1>17, <1>18 DEF Arriving
  <1>20. StandOn
    BY <1>8 DEF StandOn
  <1> QED BY <1>15, <1>19, <1>20

-----------------------------------------------------------------------------
(* Teardowns *)

\* A teardown is somewhere in its order, and its root is registered until its end.
TeardownsStaged ==
  \A t \in Threads : call[t].at \in Teardowns =>
    /\ Staged(call[t])
    /\ call[t].at = "destroy_instance" => call[t].owner \in Registered("instance")

LEMMA TornByAfter ==
  ASSUME LockHeld', NEW t \in Threads, Staged(call'[t]), NEW k, NEW h
  PROVE  Torn(k, h)' <=> k \in Gone(call'[t]) /\ h \in Condemned(call[t], k)'
  <1>1. \A u \in Threads : call'[u].at \in Teardowns => u = t
    <2>1. \A u \in Threads : call'[u].at \in Teardowns => lock' = u
      BY DEF LockHeld, Holding
    <2> QED BY <2>1 DEF Staged
  <1>2. call'[t].at \in Teardowns
    BY DEF Staged
  <1>3. Torn(k, h)' <=>
          \E i \in 1 .. (call'[t].stage - 1) :
            \/ k = TeardownOrder(call'[t])[i] /\ h \in Condemned(call[t], k)'
            \/ /\ k = "command_buffer" /\ TeardownOrder(call'[t])[i] = "command_pool"
               /\ h \in Condemned(call[t], k)'
    BY <1>1, <1>2 DEF Torn
  <1>4. \A j : j \in Done(call'[t]) <=> \E i \in 1 .. (call'[t].stage - 1) :
                                          j = TeardownOrder(call'[t])[i]
    BY DEF Done
  <1> QED BY <1>3, <1>4 DEF Gone, Buffers

\* While a teardown is under way a buffer goes with its pool, if not before.
LEMMA TeardownPools ==
  ASSUME LockHeld, TablesClosed, NEW t \in Threads, Staged(call[t])
  PROVE  PoolsStand
  <1> SUFFICES ASSUME NEW b, Standing("command_buffer", b)
               PROVE  Standing("command_pool", table["command_buffer"][b].pool)
    BY DEF PoolsStand
  <1>1. PICK p : p = table["command_buffer"][b].pool
    OBVIOUS
  <1>2. /\ b \in Registered("command_buffer") /\ p \in Registered("command_pool")
        /\ table["command_pool"][p].parent = table["command_buffer"][b].parent
    BY <1>1 DEF Standing, TablesClosed
  <1>3. ASSUME Torn("command_pool", p) PROVE FALSE
    <2>1. "command_pool" \in Gone(call[t]) /\ p \in Condemned(call[t], "command_pool")
      BY <1>3, TornBy
    <2>2. "command_buffer" \in Gone(call[t])
      BY <2>1 DEF Gone, Buffers
    <2>3. b \in Condemned(call[t], "command_buffer")
      BY <1>2, <2>1, KindFacts DEF Condemned, Children
    <2> QED BY <2>2, <2>3, TornBy DEF Standing
  <1> QED BY <1>1, <1>2, <1>3, OwningFacts DEF Standing

\* What a stage destroys is still there.
LEMMA CondemnedStand ==
  ASSUME LockHeld, TeardownCurrent, TeardownsStaged, NEW t \in Threads,
         call[t].at \in Teardowns, NEW k \in Final(call[t]), k \notin Done(call[t]),
         NEW h \in Condemned(call[t], k)
  PROVE  Standing(k, h)
  <1>1. k \in OwningKinds /\ k # "command_buffer"
    BY OwningFacts DEF Final, LeafKinds
  <1>2. k \notin Gone(call[t])
    BY <1>1 DEF Gone, Buffers
  <1>3. ~Torn(k, h)
    BY <1>2, TornBy DEF TeardownsStaged
  <1>4. h \in Registered(k)
    <2>1. CASE k \in LeafKinds \cup {"command_pool"}
      BY <2>1, KindFacts DEF Condemned, Children
    <2>2. CASE k = "device"
      <3>1. h \in call[t].devices
        BY <2>2, KindFacts DEF Condemned
      <3>2. call[t].devices \subseteq Registered("device")
        BY DEF TeardownCurrent, Teardowns, DevicesOf, Children
      <3> QED BY <2>2, <3>1, <3>2
    <2>3. CASE k = "instance"
      <3>1. call[t].at = "destroy_instance"
        BY <2>3 DEF Final, LeafKinds
      <3>2. h = call[t].owner
        BY <2>3, <3>1, KindFacts DEF Condemned
      <3> QED BY <2>3, <3>1, <3>2 DEF TeardownsStaged
    <2> QED BY <2>1, <2>2, <2>3 DEF Final
  <1> QED BY <1>1, <1>3, <1>4 DEF Standing

LEMMA DestroyStageDriven ==
  ASSUME Inv, TeardownsStaged, Backed, Arriving, RecordsKept, LockHeld',
         NEW t \in Threads, DestroyStage(t)
  PROVE  Backed' /\ Arriving' /\ StandOn
  <1>1. PICK c : c = call[t]
    OBVIOUS
  <1>2. PICK k : k = TeardownOrder(c)[c.stage]
    OBVIOUS
  <1>3. PICK handles : handles = Condemned(c, k)
    OBVIOUS
  <1>4. PICK S : S = Buried(NativesOf(k, handles))
    OBVIOUS
  <1>5. PICK d : d = [c EXCEPT !.stage = @ + 1]
    OBVIOUS
  <1>6. /\ c.at \in Teardowns /\ c.stage =< Len(TeardownOrder(c))
        /\ live' = Without(live, S) /\ Become(t, d) /\ table' = table
    BY <1>1, <1>2, <1>3, <1>4, <1>5 DEF DestroyStage
  <1>7. Staged(c) /\ c \in Call
    BY <1>1, <1>6 DEF TeardownsStaged, Inv, TypeOK, CallsTyped
  <1>8. /\ d.at = c.at /\ d.stage = c.stage + 1
        /\ d.owner = c.owner /\ d.devices = c.devices
    BY <1>5, <1>7 DEF Call
  <1>9. /\ Staged(d) /\ Done(d) = Done(c) \cup {k}
        /\ k \in Final(c) /\ k \notin Done(c)
    BY <1>2, <1>6, <1>7, <1>8, NextStage
  <1>10. \A u \in Threads : call'[u] = IF u = t THEN d ELSE call[u]
    BY <1>6 DEF Become, Inv, TypeOK, CallsTyped
  <1>11. k \in OwningKinds /\ k # "command_buffer" /\ "command_buffer" \notin Final(c)
    BY <1>9, OwningFacts DEF Final, LeafKinds
  <1>12. \A h \in handles : Standing(k, h)
    BY <1>1, <1>3, <1>6, <1>9, CondemnedStand DEF Inv
  <1>13. PoolsStand
    BY <1>1, <1>7, TeardownPools DEF Inv
  <1>14. /\ \A j, h : Standing(j, h) =>
              (Native(j, h) \in S <=>
                 \/ j = k /\ h \in handles
                 \/ /\ k = "command_pool" /\ j = "command_buffer"
                    /\ table["command_buffer"][h].pool \in handles)
         /\ \A u \in Threads : \A n : Arrives(u, n) => n \notin S
    BY <1>4, <1>11, <1>12, <1>13, BuriedOwners
  <1>15. \A j : j \in Gone(d) <=> \/ j \in Gone(c) \/ j = k
                                  \/ k = "command_pool" /\ j = "command_buffer"
    BY <1>9 DEF Gone, Buffers
  <1>16. \A j, h : h \in Condemned(call[t], j)' <=> h \in Condemned(c, j)
    <2>1. \A j : Condemned(call[t], j)' = Condemned(c, j)
      BY <1>6, <1>8, <1>10 DEF Condemned, Children, Registered
    <2> QED BY <2>1
  <1>17. \A j, h : /\ Torn(j, h) <=> j \in Gone(c) /\ h \in Condemned(c, j)
                   /\ Torn(j, h)' <=> j \in Gone(d) /\ h \in Condemned(c, j)
    <2>1. \A j, h : Torn(j, h) <=> j \in Gone(c) /\ h \in Condemned(c, j)
      BY <1>1, <1>7, TornBy DEF Inv
    <2>2. call'[t] = d
      BY <1>10
    <2>3. \A j, h : Torn(j, h)' <=> j \in Gone(d) /\ h \in Condemned(c, j)
      BY <1>9, <1>16, <2>2, TornByAfter
    <2> QED BY <2>1, <2>3
  <1>18. ASSUME NEW h, Standing("command_buffer", h), k = "command_pool"
         PROVE  table["command_buffer"][h].pool \in handles
                  <=> h \in Condemned(c, "command_buffer")
    <2>1. PICK p : p = table["command_buffer"][h].pool
      OBVIOUS
    <2>2. /\ h \in Registered("command_buffer") /\ p \in Registered("command_pool")
          /\ table["command_pool"][p].parent = table["command_buffer"][h].parent
      BY <1>18, <2>1 DEF Standing, Inv, TablesClosed
    <2>3. /\ p \in handles <=> p \in Children("command_pool", c.devices)
          /\ h \in Condemned(c, "command_buffer") <=> h \in Children("command_buffer", c.devices)
      BY <1>3, <1>18, KindFacts DEF Condemned
    <2> QED BY <2>1, <2>2, <2>3 DEF Children
  <1>19. \A j, h : Standing(j, h)' <=> Standing(j, h) /\ Native(j, h) \notin S
    <2> SUFFICES ASSUME NEW j, NEW h
                 PROVE  Standing(j, h)' <=> Standing(j, h) /\ Native(j, h) \notin S
      OBVIOUS
    <2>1. /\ Standing(j, h) <=> j \in OwningKinds /\ h \in Registered(j) /\ ~Torn(j, h)
          /\ Standing(j, h)' <=> j \in OwningKinds /\ h \in Registered(j) /\ ~Torn(j, h)'
      BY <1>6 DEF Standing, Registered
    <2>2. Standing(j, h)' <=> /\ Standing(j, h)
                              /\ ~(j = k /\ h \in handles)
                              /\ ~(k = "command_pool" /\ j = "command_buffer"
                                   /\ h \in Condemned(c, "command_buffer"))
      BY <1>3, <1>15, <1>17, <2>1
    <2> QED BY <1>14, <1>18, <2>2
  <1>20. DOMAIN live' = DOMAIN live \ S /\ \A n \in DOMAIN live' : live'[n] = live[n]
    BY <1>6 DEF Without
  <1>21. ArrivalsKept
    BY <1>1, <1>6, <1>8, <1>10 DEF ArrivalsKept, Teardowns
  <1> QED BY <1>14, <1>19, <1>20, <1>21, Loses

LEMMA FinishTeardownDriven ==
  ASSUME Inv, TeardownsStaged, Backed, Arriving, RecordsKept,
         NEW t \in Threads, FinishTeardown(t)
  PROVE  Backed' /\ Arriving' /\ StandOn
  <1>1. PICK c : c = call[t]
    OBVIOUS
  <1>2. /\ c.at \in Teardowns /\ c.stage > Len(TeardownOrder(c))
        /\ table' = [k \in Kinds |-> Without(table[k], Condemned(c, k))]
        /\ live' = live /\ Return(t)
    BY <1>1 DEF FinishTeardown
  <1>3. Staged(c)
    BY <1>1, <1>2 DEF TeardownsStaged
  <1>4. Done(c) = Final(c)
    BY <1>2, <1>3, DoneFacts
  <1>5. \A u \in Threads : call'[u] = IF u = t THEN Idle ELSE call[u]
    BY <1>2 DEF Return, Become, Inv, TypeOK, CallsTyped
  <1>6. \A u \in Threads \ {t} : call[u].at \notin Teardowns
    BY <1>1, <1>2 DEF Inv, LockHeld, Holding
  <1>7. Untorn'
    BY <1>5, <1>6, IdleCall DEF Untorn, Teardowns
  <1>8. ASSUME NEW k \in OwningKinds, NEW h \in Condemned(c, k) PROVE k \in Gone(c)
    <2>1. CASE k \in DeviceChildKinds
      <3>1. k \in LeafKinds \cup {"command_pool", "command_buffer"}
        BY <2>1 DEF OwningKinds, DeviceChildKinds
      <3> QED BY <1>4, <3>1 DEF Gone, Buffers, Final
    <2>2. CASE k = "device"
      BY <1>4, <2>2 DEF Gone, Final
    <2>3. CASE k = "instance"
      <3>1. c.at = "destroy_instance"
        BY <1>8, <2>3, KindFacts DEF Condemned
      <3> QED BY <1>4, <2>3, <3>1 DEF Gone, Final
    <2> QED BY <2>1, <2>2, <2>3 DEF OwningKinds, Kinds
  <1>9. \A j, h : Torn(j, h) <=> j \in Gone(c) /\ h \in Condemned(c, j)
    BY <1>1, <1>3, TornBy DEF Inv
  <1>10. \A j, h : Standing(j, h)' <=> Standing(j, h)
    <2> SUFFICES ASSUME NEW j, NEW h PROVE Standing(j, h)' <=> Standing(j, h)
      OBVIOUS
    <2>1. Standing(j, h)' <=> j \in OwningKinds /\ h \in DOMAIN table'[j]
      BY <1>7, UntornStandingAfter DEF Registered
    <2>2. j \in OwningKinds => DOMAIN table'[j] = DOMAIN table[j] \ Condemned(c, j)
      BY <1>2 DEF Without, OwningKinds
    <2>3. Standing(j, h) <=> j \in OwningKinds /\ h \in DOMAIN table[j] /\ ~Torn(j, h)
      BY DEF Standing, Registered
    <2> QED BY <1>8, <1>9, <2>1, <2>2, <2>3
  <1>11. ArrivalsKept
    BY <1>1, <1>2, <1>5, IdleCall DEF ArrivalsKept, Teardowns
  <1>12. PICK S : S = {}
    OBVIOUS
  <1>13. DOMAIN live' = DOMAIN live \ S /\ \A n \in DOMAIN live' : live'[n] = live[n]
    BY <1>2, <1>12
  <1>14. /\ \A k, h : Standing(k, h)' <=> Standing(k, h) /\ Native(k, h) \notin S
         /\ \A u \in Threads : \A n : Arrives(u, n) => n \notin S
    BY <1>10, <1>12
  <1> QED BY <1>11, <1>13, <1>14, Loses

-----------------------------------------------------------------------------
(* Every step *)

\* A call moves on while no object has been torn down.
LEMMA MovedKept ==
  ASSUME Backed, Arriving, RecordsKept, CallsTyped, Untorn, NEW t \in Threads, NEW c,
         Become(t, c), call[t].at # "insert_instance", c.at # "insert_instance",
         c.at \in Teardowns => c.stage = 1
  PROVE  Kept
  <1>1. \A u \in Threads : call'[u] = IF u = t THEN c ELSE call[u]
    BY DEF Become, CallsTyped
  <1>2. Untorn'
    BY <1>1 DEF Untorn
  <1>3. ArrivalsKept
    BY <1>1 DEF ArrivalsKept
  <1> QED BY <1>2, <1>3 DEF Kept

\* The first critical section of a call that needs more than one.
LEMMA StartKept ==
  ASSUME Backed, Arriving, RecordsKept, CallsTyped, LockHeld,
         NEW t \in Threads, Start(t), ~CreateInstance(t)
  PROVE  Kept /\ live' = live /\ table' = table
  <1>1. live' = live /\ table' = table /\ lock = NoThread /\ call[t].at = "idle"
    BY DEF Start, EnumeratePhysicalDevices, ResolveFenceList, DeviceWaitIdle, QueueWaitIdle,
           DestroyDevice, DestroyInstance, Enter
  <1>2. Untorn
    BY <1>1, FreeUntorn
  <1>3. ASSUME NEW c, Become(t, c), c.at # "insert_instance",
               c.at \in Teardowns => c.stage = 1
        PROVE  Kept
    BY <1>1, <1>2, <1>3, MovedKept
  <1>4. CASE EnumeratePhysicalDevices(t)
    <2>1. PICK i \in Registered("instance") :
            Become(t, [Idle EXCEPT !.at = "insert_physical", !.owner = i,
                                   !.natives = {Native("instance", i)}])
      BY <1>4 DEF EnumeratePhysicalDevices
    <2>2. [Idle EXCEPT !.at = "insert_physical", !.owner = i,
                       !.natives = {Native("instance", i)}].at = "insert_physical"
      BY DEF Idle
    <2> QED BY <1>1, <1>3, <2>1, <2>2 DEF Teardowns
  <1>5. ASSUME NEW at \in {"wait_fences", "reset_fences"}, ResolveFenceList(t, at)
        PROVE  Kept
    <2>1. PICK d, fences : Become(t, [Idle EXCEPT
            !.at = at, !.owner = d, !.natives = NativesOf("fence", fences)])
      BY <1>5 DEF ResolveFenceList
    <2>2. PICK c : c = [Idle EXCEPT
            !.at = at, !.owner = d, !.natives = NativesOf("fence", fences)]
      OBVIOUS
    <2>3. Become(t, c)
      BY <2>1, <2>2
    <2>4. c.at = at
      BY <2>2 DEF Idle
    <2> QED BY <1>3, <2>3, <2>4 DEF Teardowns
  <1>6. CASE DeviceWaitIdle(t) \/ QueueWaitIdle(t)
    <2>1. Become(t, [Idle EXCEPT !.at = "waiting"])
      BY <1>6 DEF DeviceWaitIdle, QueueWaitIdle, Hold
    <2>2. PICK c : c = [Idle EXCEPT !.at = "waiting"]
      OBVIOUS
    <2>3. Become(t, c)
      BY <2>1, <2>2
    <2>4. c.at = "waiting"
      BY <2>2 DEF Idle
    <2> QED BY <1>1, <1>3, <2>3, <2>4 DEF Teardowns
  <1>7. CASE DestroyDevice(t)
    <2>1. PICK d : Become(t, [Idle EXCEPT
            !.at = "destroy_device", !.owner = d, !.devices = {d}, !.stage = 1])
      BY <1>7 DEF DestroyDevice, Hold
    <2>2. PICK c : c = [Idle EXCEPT
            !.at = "destroy_device", !.owner = d, !.devices = {d}, !.stage = 1]
      OBVIOUS
    <2>3. Become(t, c)
      BY <2>1, <2>2
    <2>4. c.at = "destroy_device" /\ c.stage = 1
      BY <2>2 DEF Idle
    <2> QED BY <1>1, <1>3, <2>3, <2>4 DEF Teardowns
  <1>8. CASE DestroyInstance(t)
    <2>1. PICK i : Become(t, [Idle EXCEPT
            !.at = "destroy_instance", !.owner = i, !.devices = DevicesOf(i), !.stage = 1])
      BY <1>8 DEF DestroyInstance, Hold
    <2>2. PICK c : c = [Idle EXCEPT
            !.at = "destroy_instance", !.owner = i, !.devices = DevicesOf(i), !.stage = 1]
      OBVIOUS
    <2>3. Become(t, c)
      BY <2>1, <2>2
    <2>4. c.at = "destroy_instance" /\ c.stage = 1
      BY <2>2 DEF Idle
    <2> QED BY <1>1, <1>3, <2>3, <2>4 DEF Teardowns
  <1> QED BY <1>1, <1>4, <1>5, <1>6, <1>7, <1>8 DEF Start

\* The other steps that keep the driver's objects.
LEMMA RestKept ==
  ASSUME Backed, Arriving, RecordsKept, CallsTyped, LockHeld, NEW t \in Threads,
         InsertPhysicalDevices(t) \/ WaitForFences(t) \/ ResetFences(t) \/ FenceDeviceGone(t)
           \/ WaitReturns(t)
  PROVE  Kept /\ live' = live
  <1>1. live' = live
    BY DEF InsertPhysicalDevices, WaitForFences, ResetFences, FenceDeviceGone, WaitReturns
  <1>2. ASSUME NEW c, Become(t, c), Untorn, call[t].at # "insert_instance",
               c.at # "insert_instance", c.at \notin Teardowns
        PROVE  Kept
    BY <1>2, MovedKept
  <1>3. lock = NoThread => Untorn
    BY FreeUntorn
  <1>4. Idle.at # "insert_instance" /\ Idle.at \notin Teardowns
    BY IdleCall DEF Teardowns
  <1>5. CASE InsertPhysicalDevices(t) \/ ResetFences(t) \/ FenceDeviceGone(t)
    <2>1. lock = NoThread /\ call[t].at # "insert_instance" /\ Become(t, Idle)
      BY <1>5 DEF InsertPhysicalDevices, ResetFences, FenceDeviceGone, Resume, Return
    <2> QED BY <1>1, <1>2, <1>3, <1>4, <2>1
  <1>6. CASE WaitForFences(t)
    <2>1. PICK c : Become(t, c) /\ c.at \in Waits
      BY <1>6 DEF WaitForFences, Hold, Idle, Waits
    <2>2. lock = NoThread /\ call[t].at # "insert_instance"
      BY <1>6 DEF WaitForFences, Resume
    <2> QED BY <1>1, <1>2, <1>3, <2>1, <2>2 DEF Teardowns, Waits
  <1>7. CASE WaitReturns(t)
    <2>1. call[t].at = "waiting" /\ Become(t, Idle)
      BY <1>7 DEF WaitReturns, Return
    <2>2. Untorn
      BY <2>1 DEF LockHeld, Untorn, Holding, Waits, Teardowns
    <2> QED BY <1>1, <1>2, <1>4, <2>1, <2>2
  <1> QED BY <1>5, <1>6, <1>7

LEMMA StepDriven ==
  ASSUME Inv, TeardownsStaged, Backed, Arriving, NEW t \in Threads, Step(t)
  PROVE  Backed' /\ Arriving' /\ StandOn
  <1>1. RecordsKept
    <2>1. TablesTyped' /\ TablesClosed' /\ KeepsHandles
      BY StepTables DEF Inv
    <2> QED BY <2>1, RecordsStay DEF Inv, TypeOK
  <1>2. LockHeld'
    BY StepCalls DEF Inv
  <1>3. LockHeld /\ TablesTyped /\ TablesClosed /\ CallsTyped
    BY DEF Inv, TypeOK
  <1>4. CASE RejectedCall(t) \/ LeafCall(t) \/ CommandCall(t) \/ DeviceCall(t)
    <2>1. Kept
      <3>1. lock = NoThread /\ call' = call
        BY <1>4, PlainSteps
      <3> QED BY <1>1, <1>3, <3>1, PlainKept
    <2>2. ASSUME live' = live, table' = table PROVE Backed' /\ Arriving' /\ StandOn
      <3>1. \A k \in OwningKinds : Registered(k)' = Registered(k)
        BY <2>2 DEF Registered
      <3> QED BY <2>1, <2>2, <3>1, Quiet
    <2>3. CASE LeafCall(t)
      <3>1. \/ \E k \in LeafKinds : CreateLeaf(t, k) \/ DestroyLeaf(t, k)
            \/ table' = table /\ live' = live
        BY <2>3 DEF LeafCall, LeafKinds, UseChild, BindMemory,
               CreateShaderModule, DestroyShaderModule, CreateSemaphore, DestroySemaphore,
               CreateFence, DestroyFence, GetFenceStatus, CreateBuffer, DestroyBuffer,
               GetBufferMemoryRequirements, BindBufferMemory, CreateImage, DestroyImage,
               GetImageMemoryRequirements, BindImageMemory, AllocateMemory, FreeMemory,
               CopyGuestToDeviceMemory, CopyDeviceMemoryToGuest
      <3> QED BY <1>3, <2>1, <2>2, <3>1, CreateLeafDriven, DestroyLeafDriven
    <2>4. CASE CommandCall(t)
      <3>1. CASE \/ ResetCommandPool(t) \/ BeginCommandBuffer(t)
                 \/ EndCommandBuffer(t) \/ ResetCommandBuffer(t)
        BY <2>2, <3>1 DEF ResetCommandPool, BeginCommandBuffer, EndCommandBuffer,
                          ResetCommandBuffer, UseChild, UseCommandBuffer
      <3>2. CASE ~(\/ ResetCommandPool(t) \/ BeginCommandBuffer(t)
                   \/ EndCommandBuffer(t) \/ ResetCommandBuffer(t))
        BY <1>3, <2>1, <2>4, <3>2, CreateCommandPoolDriven, DestroyCommandPoolDriven,
           AllocateCommandBuffersDriven, FreeCommandBuffersDriven DEF CommandCall
      <3> QED BY <3>1, <3>2
    <2>5. CASE CreateDevice(t)
      BY <1>3, <2>1, <2>5, CreateDeviceDriven
    <2>6. CASE GetDeviceQueue(t)
      <3>1. live' = live /\ \A k \in Kinds \ {"queue"} : table'[k] = table[k]
        BY <1>3, <2>6 DEF GetDeviceQueue, Insert, TablesTyped
      <3>2. \A k \in OwningKinds : Registered(k)' = Registered(k)
        BY <3>1 DEF OwningKinds, Registered
      <3> QED BY <2>1, <3>1, <3>2, Quiet
    <2>7. CASE RejectedCall(t) \/ QueryPhysicalDevice(t)
      BY <2>2, <2>7 DEF RejectedCall, vars, QueryPhysicalDevice
    <2> QED BY <1>4, <2>3, <2>4, <2>5, <2>6, <2>7
            DEF DeviceCall, EnumerateDeviceExtensionProperties, GetPhysicalDeviceProperties,
                GetPhysicalDeviceFeatures, GetPhysicalDeviceMemoryProperties,
                GetPhysicalDeviceQueueFamilyProperties
  <1>5. CASE CreateInstance(t)
    BY <1>1, <1>3, <1>5, CreateInstanceDriven
  <1>6. CASE Start(t) /\ ~CreateInstance(t)
    <2>1. Kept /\ live' = live /\ table' = table
      BY <1>1, <1>3, <1>6, StartKept
    <2>2. \A k \in OwningKinds : Registered(k)' = Registered(k)
      BY <2>1 DEF Registered
    <2> QED BY <2>1, <2>2, Quiet
  <1>7. CASE InsertInstance(t)
    <2>1. Untorn
      BY <1>3, <1>7, FreeUntorn DEF InsertInstance, Resume
    <2> QED BY <1>1, <1>3, <1>7, <2>1, InsertInstanceDriven
  <1>8. CASE \/ InsertPhysicalDevices(t) \/ WaitForFences(t) \/ ResetFences(t)
             \/ FenceDeviceGone(t) \/ WaitReturns(t)
    <2>1. Kept /\ live' = live
      BY <1>1, <1>3, <1>8, RestKept
    <2>2. \A k \in Kinds \ {"physical_device"} : table'[k] = table[k]
      BY <1>3, <1>8 DEF InsertPhysicalDevices, Insert, WaitForFences, ResetFences,
                        FenceDeviceGone, WaitReturns, TablesTyped
    <2>3. \A k \in OwningKinds : Registered(k)' = Registered(k)
      BY <2>2 DEF OwningKinds, Registered
    <2> QED BY <2>1, <2>3, Quiet
  <1>9. CASE DestroyStage(t)
    BY <1>1, <1>2, <1>9, DestroyStageDriven
  <1>10. CASE FinishTeardown(t)
    BY <1>1, <1>10, FinishTeardownDriven
  <1> QED BY <1>4, <1>5, <1>6, <1>7, <1>8, <1>9, <1>10 DEF Step, Reacquire, Continue

LEMMA StepStaged ==
  ASSUME Inv, TeardownsStaged, NEW t \in Threads, Step(t)
  PROVE  TeardownsStaged'
  <1>1. LockHeld /\ TablesTyped /\ CallsTyped
    BY DEF Inv, TypeOK
  <1>2. ASSUME lock \in {NoThread, t}, NEW u \in Threads \ {t} PROVE call[u].at \notin Teardowns
    BY <1>1, <1>2, NoThreadAssumption DEF LockHeld, Holding
  <1>3. ASSUME lock \in {NoThread, t}, NEW c, Become(t, c),
               c.at \in Teardowns =>
                 Staged(c) /\ (c.at = "destroy_instance" => c.owner \in Registered("instance")')
        PROVE  TeardownsStaged'
    <2>1. \A u \in Threads : call'[u] = IF u = t THEN c ELSE call[u]
      BY <1>1, <1>3 DEF Become, CallsTyped
    <2> QED BY <1>2, <1>3, <2>1 DEF TeardownsStaged
  <1>4. ASSUME NEW c, c.at \in Teardowns, c.stage = 1 PROVE Staged(c)
    <2>1. Len(TeardownOrder(c)) \in {8, 9}
      BY <1>4, OrderFacts
    <2> QED BY <1>4, <2>1 DEF Staged
  <1>5. CASE RejectedCall(t) \/ LeafCall(t) \/ CommandCall(t) \/ DeviceCall(t)
    <2>1. lock = NoThread /\ call' = call
      BY <1>5, PlainSteps
    <2>2. \A u \in Threads : call'[u].at \notin Teardowns
      BY <1>1, <2>1, NoThreadAssumption DEF LockHeld, Holding
    <2> QED BY <2>2 DEF TeardownsStaged
  <1>6. CASE CreateInstance(t)
    <2>1. PICK n : Become(t, [Idle EXCEPT !.at = "insert_instance", !.natives = {n}])
      BY <1>6 DEF CreateInstance
    <2>2. PICK c : c = [Idle EXCEPT !.at = "insert_instance", !.natives = {n}]
      OBVIOUS
    <2>3. Become(t, c) /\ table' = table
      BY <1>6, <2>1, <2>2 DEF CreateInstance
    <2>4. c.at \notin Teardowns
      BY <2>2 DEF Idle, Teardowns
    <2>5. \A u \in Threads : call'[u] = IF u = t THEN c ELSE call[u]
      BY <1>1, <2>3 DEF Become, CallsTyped
    <2>6. Registered("instance")' = Registered("instance")
      BY <2>3 DEF Registered
    <2> QED BY <2>4, <2>5, <2>6 DEF TeardownsStaged
  <1>7. CASE Start(t) /\ ~CreateInstance(t) /\ ~DestroyDevice(t) /\ ~DestroyInstance(t)
    <2>1. lock = NoThread
      BY <1>7 DEF Start, EnumeratePhysicalDevices, ResolveFenceList, DeviceWaitIdle,
                  QueueWaitIdle, Enter
    <2>2. ASSUME NEW c, Become(t, c), c.at \notin Teardowns PROVE TeardownsStaged'
      BY <1>3, <2>1, <2>2
    <2>3. CASE EnumeratePhysicalDevices(t)
      BY <2>2, <2>3 DEF EnumeratePhysicalDevices, Idle, Teardowns
    <2>4. CASE ResolveFenceList(t, "wait_fences") \/ ResolveFenceList(t, "reset_fences")
      BY <2>2, <2>4 DEF ResolveFenceList, Idle, Teardowns
    <2>5. CASE DeviceWaitIdle(t) \/ QueueWaitIdle(t)
      BY <2>2, <2>5 DEF DeviceWaitIdle, QueueWaitIdle, Hold, Idle, Teardowns
    <2> QED BY <1>7, <2>3, <2>4, <2>5 DEF Start
  <1>8. CASE DestroyDevice(t)
    <2>1. PICK d : Become(t, [Idle EXCEPT
            !.at = "destroy_device", !.owner = d, !.devices = {d}, !.stage = 1])
      BY <1>8 DEF DestroyDevice, Hold
    <2>2. PICK c : c = [Idle EXCEPT
            !.at = "destroy_device", !.owner = d, !.devices = {d}, !.stage = 1]
      OBVIOUS
    <2>3. Become(t, c) /\ lock = NoThread
      BY <1>8, <2>1, <2>2 DEF DestroyDevice, Enter
    <2>4. c.at = "destroy_device" /\ c.stage = 1
      BY <2>2 DEF Idle
    <2> QED BY <1>3, <1>4, <2>3, <2>4 DEF Teardowns
  <1>9. CASE DestroyInstance(t)
    <2>1. PICK i \in Registered("instance") : Become(t, [Idle EXCEPT
            !.at = "destroy_instance", !.owner = i, !.devices = DevicesOf(i), !.stage = 1])
      BY <1>9 DEF DestroyInstance, Hold
    <2>2. PICK c : c = [Idle EXCEPT
            !.at = "destroy_instance", !.owner = i, !.devices = DevicesOf(i), !.stage = 1]
      OBVIOUS
    <2>3. Become(t, c) /\ lock = NoThread
      BY <1>9, <2>1, <2>2 DEF DestroyInstance, Enter
    <2>4. c.at = "destroy_instance" /\ c.stage = 1 /\ c.owner = i
      BY <2>2 DEF Idle
    <2>5. i \in Registered("instance")'
      BY <1>9 DEF DestroyInstance, Registered
    <2> QED BY <1>3, <1>4, <2>3, <2>4, <2>5 DEF Teardowns
  <1>10. CASE Reacquire(t)
    <2>1. lock = NoThread
      BY <1>10 DEF Reacquire, InsertInstance, InsertPhysicalDevices, WaitForFences,
                   ResetFences, FenceDeviceGone, Resume
    <2>2. CASE Return(t)
      BY <1>3, <2>1, <2>2, IdleCall DEF Return, Teardowns
    <2>3. CASE WaitForFences(t)
      <3>1. PICK at \in Waits : Become(t, [Idle EXCEPT !.at = at])
        BY <2>3 DEF WaitForFences, Hold, Waits
      <3>2. [Idle EXCEPT !.at = at].at = at /\ at \notin Teardowns
        BY DEF Idle, Waits, Teardowns
      <3> QED BY <1>3, <2>1, <3>1, <3>2
    <2> QED BY <1>10, <2>2, <2>3 DEF Reacquire, InsertInstance, InsertPhysicalDevices,
                                    ResetFences, FenceDeviceGone
  <1>11. CASE WaitReturns(t) \/ FinishTeardown(t)
    <2>1. lock = t /\ Become(t, Idle)
      BY <1>1, <1>11 DEF LockHeld, Holding, Waits, WaitReturns, FinishTeardown, Return
    <2> QED BY <1>3, <2>1, IdleCall DEF Teardowns
  <1>12. CASE DestroyStage(t)
    <2>1. PICK c : c = [call[t] EXCEPT !.stage = @ + 1]
      OBVIOUS
    <2>2. /\ Become(t, c) /\ call[t].at \in Teardowns /\ table' = table
          /\ call[t].stage =< Len(TeardownOrder(call[t]))
      BY <1>12, <2>1 DEF DestroyStage
    <2>3. c.at = call[t].at /\ c.owner = call[t].owner /\ c.stage = call[t].stage + 1
      BY <1>1, <2>1 DEF CallsTyped, Call
    <2>4. Staged(c)
      BY <2>2, <2>3, NextStage DEF TeardownsStaged
    <2>5. lock = t
      BY <1>1, <2>2 DEF LockHeld, Holding
    <2>6. Registered("instance")' = Registered("instance")
      BY <2>2 DEF Registered
    <2> QED BY <1>3, <2>2, <2>3, <2>4, <2>5, <2>6 DEF TeardownsStaged
  <1> QED BY <1>5, <1>6, <1>7, <1>8, <1>9, <1>10, <1>11, <1>12 DEF Step, Continue

-----------------------------------------------------------------------------
(* The records that own nothing: physical devices and queues *)

\* A physical device stands for its instance in the driver, while this is there, and
\* a queue for its device.
Views ==
  /\ \A g \in Registered("physical_device") :
       LET i == table["physical_device"][g].parent IN
       /\ i \in 1 .. (next["instance"] - 1)
       /\ i \in Registered("instance") => Native("physical_device", g) = Native("instance", i)
  /\ \A q \in Registered("queue") :
       Native("queue", q) = Native("device", table["queue"][q].parent)
  /\ \A t \in Threads : call[t].at = "insert_physical" /\ call[t].owner \in Registered("instance")
       => call[t].natives \subseteq {Native("instance", call[t].owner)}

\* Who registers physical devices and queues.
LEMMA StepViewTables ==
  ASSUME TypeOK, TablesClosed, TeardownCurrent, NEW t \in Threads, Step(t)
  PROVE  /\ InsertPhysicalDevices(t) \/
              DOMAIN table'["physical_device"] \subseteq DOMAIN table["physical_device"]
         /\ GetDeviceQueue(t) \/ DOMAIN table'["queue"] \subseteq DOMAIN table["queue"]
  <1> USE DEF TypeOK
  <1> DEFINE Goal == /\ InsertPhysicalDevices(t) \/
                          DOMAIN table'["physical_device"] \subseteq DOMAIN table["physical_device"]
                     /\ GetDeviceQueue(t) \/ DOMAIN table'["queue"] \subseteq DOMAIN table["queue"]
  <1>0. {"physical_device", "queue"} \subseteq Kinds
    BY KindFacts
  <1>1. ASSUME \A k \in {"physical_device", "queue"} : DOMAIN table'[k] \subseteq DOMAIN table[k]
        PROVE  Goal
    BY <1>1
  <1>2. ASSUME NEW k \in Kinds, NEW f, table' = [table EXCEPT ![k] = f],
               k \notin {"physical_device", "queue"}
        PROVE  Goal
    BY <1>0, <1>1, <1>2 DEF TablesTyped
  <1>3. CASE \/ RejectedCall(t) \/ QueryPhysicalDevice(t) \/ Start(t)
             \/ WaitForFences(t) \/ ResetFences(t) \/ FenceDeviceGone(t)
             \/ WaitReturns(t) \/ DestroyStage(t)
    BY <1>1, <1>3, OtherCallTables
  <1>4. CASE LeafCall(t)
    <2>1. \/ \E k \in LeafKinds : \E f : table' = [table EXCEPT ![k] = f]
          \/ table' = table
      BY <1>4 DEF LeafCall, LeafKinds, UseChild, BindMemory, CreateLeaf, DestroyLeaf, Insert,
             Erase, CreateShaderModule, DestroyShaderModule, CreateSemaphore, DestroySemaphore,
             CreateFence, DestroyFence, GetFenceStatus, CreateBuffer, DestroyBuffer,
             GetBufferMemoryRequirements, BindBufferMemory, CreateImage, DestroyImage,
             GetImageMemoryRequirements, BindImageMemory, AllocateMemory, FreeMemory,
             CopyGuestToDeviceMemory, CopyDeviceMemoryToGuest
    <2> QED BY <1>1, <1>2, <2>1, KindFacts
  <1>5. CASE CreateCommandPool(t) \/ AllocateCommandBuffers(t) \/ FreeCommandBuffers(t)
    <2>1. \/ \E k \in {"command_pool", "command_buffer"} :
            \E f : table' = [table EXCEPT ![k] = f]
          \/ table' = table
      BY <1>5 DEF CreateCommandPool, AllocateCommandBuffers, FreeCommandBuffers, Insert, Erase
    <2> QED BY <1>1, <1>2, <2>1, KindFacts
  <1>6. CASE DestroyCommandPool(t)
    BY <1>0, <1>1, <1>6, DestroyCommandPoolKeeps DEF Shrinks
  <1>7. CASE \/ ResetCommandPool(t) \/ BeginCommandBuffer(t)
             \/ EndCommandBuffer(t) \/ ResetCommandBuffer(t)
    BY <1>1, <1>7 DEF ResetCommandPool, BeginCommandBuffer, EndCommandBuffer,
                      ResetCommandBuffer, UseChild, UseCommandBuffer
  <1>8. CASE CreateDevice(t)
    <2>1. \E f : table' = [table EXCEPT !["device"] = f]
      BY <1>8 DEF CreateDevice, Insert
    <2> QED BY <1>2, <2>1, KindFacts
  <1>9. CASE InsertInstance(t)
    <2>1. \E f : table' = [table EXCEPT !["instance"] = f]
      BY <1>9 DEF InsertInstance, Insert
    <2> QED BY <1>2, <2>1, KindFacts
  <1>10. CASE GetDeviceQueue(t)
    <2>1. \E f : table' = [table EXCEPT !["queue"] = f]
      BY <1>10 DEF GetDeviceQueue, Insert
    <2> QED BY <1>10, <2>1
  <1>11. CASE InsertPhysicalDevices(t)
    <2>1. \E f : table' = [table EXCEPT !["physical_device"] = f]
      BY <1>11 DEF InsertPhysicalDevices, Insert
    <2> QED BY <1>11, <2>1
  <1>12. CASE FinishTeardown(t)
    BY <1>0, <1>1, <1>12, FinishTeardownKeeps DEF Shrinks
  <1> QED BY <1>3, <1>4, <1>5, <1>6, <1>7, <1>8, <1>9, <1>10, <1>11, <1>12
          DEF Step, CommandCall, DeviceCall, Reacquire, Continue,
              EnumerateDeviceExtensionProperties, GetPhysicalDeviceProperties,
              GetPhysicalDeviceFeatures, GetPhysicalDeviceMemoryProperties,
              GetPhysicalDeviceQueueFamilyProperties

LEMMA EnumeratedViews ==
  ASSUME TypeOK, OwnersIssued, Views, NEW t \in Threads, InsertPhysicalDevices(t),
         NEW g \in DOMAIN table'["physical_device"], g \notin DOMAIN table["physical_device"]
  PROVE  LET i == table'["physical_device"][g].parent IN
         /\ i \in 1 .. (next["instance"] - 1)
         /\ i \in Registered("instance") =>
              table'["physical_device"][g].native = Native("instance", i)
  <1>1. PICK count \in 0 .. Limit["physical_device"], n \in call[t].natives :
          Insert("physical_device", [h \in Fresh("physical_device", count) |->
            [native |-> n, parent |-> call[t].owner, pool |-> NoHandle]])
    BY DEF InsertPhysicalDevices
  <1>2. PICK r : r = [native |-> n, parent |-> call[t].owner, pool |-> NoHandle]
    OBVIOUS
  <1>3. PICK records : records = [h \in Fresh("physical_device", count) |-> r]
    OBVIOUS
  <1>4. count \in Nat /\ "physical_device" \in Kinds
    BY LimitAssumption, KindFacts
  <1>5. Insert("physical_device", records) /\ DOMAIN records = Fresh("physical_device", count)
    BY <1>1, <1>2, <1>3
  <1>6. g \in Fresh("physical_device", count) /\ table'["physical_device"][g] = records[g]
    BY <1>4, <1>5, InsertedTables DEF TypeOK
  <1>7. table'["physical_device"][g].parent = call[t].owner
        /\ table'["physical_device"][g].native = n
    BY <1>2, <1>3, <1>6
  <1>8. call[t].at = "insert_physical"
    BY DEF InsertPhysicalDevices, Resume
  <1> QED BY <1>1, <1>7, <1>8 DEF OwnersIssued, Views

LEMMA NewQueueView ==
  ASSUME TypeOK, NEW t \in Threads, GetDeviceQueue(t),
         NEW q \in DOMAIN table'["queue"], q \notin DOMAIN table["queue"]
  PROVE  /\ table'["queue"][q].native = Native("device", table'["queue"][q].parent)
         /\ table'["queue"][q].parent \in Registered("device")
  <1>1. PICK d \in Registered("device") :
          Insert("queue", Only(next["queue"],
            [native |-> Native("device", d), parent |-> d, pool |-> NoHandle]))
    BY DEF GetDeviceQueue
  <1>2. PICK r : r = [native |-> Native("device", d), parent |-> d, pool |-> NoHandle]
    OBVIOUS
  <1>3. PICK records : records = Only(next["queue"], r)
    OBVIOUS
  <1>4. Fresh("queue", 1) = {next["queue"]} /\ 1 \in Nat /\ "queue" \in Kinds
    BY KindFacts DEF Fresh, TypeOK, TablesTyped
  <1>5. Insert("queue", records) /\ DOMAIN records = Fresh("queue", 1)
    BY <1>1, <1>2, <1>3, <1>4 DEF Only
  <1>6. q \in Fresh("queue", 1) /\ table'["queue"][q] = records[q]
    BY <1>4, <1>5, InsertedTables DEF TypeOK
  <1>7. table'["queue"][q] = r
    BY <1>3, <1>4, <1>6 DEF Only
  <1> QED BY <1>1, <1>2, <1>7

LEMMA StepViews ==
  ASSUME Inv, Inv', KeepsHandles, OwnersIssued, Views, NEW t \in Threads, Step(t)
  PROVE  Views'
  <1>1. TypeOK /\ TablesClosed /\ TeardownCurrent
    BY DEF Inv
  <1>2. /\ InsertPhysicalDevices(t) \/
             DOMAIN table'["physical_device"] \subseteq DOMAIN table["physical_device"]
        /\ GetDeviceQueue(t) \/ DOMAIN table'["queue"] \subseteq DOMAIN table["queue"]
    BY <1>1, StepViewTables
  <1>3. /\ next["instance"] \in Nat /\ next'["instance"] \in Nat
        /\ next["instance"] =< next'["instance"]
    BY KindFacts DEF Inv, TypeOK, TablesTyped, KeepsHandles
  <1>4. \A x \in 1 .. (next["instance"] - 1) : x \in 1 .. (next'["instance"] - 1)
    BY <1>3
  <1>5. \A i \in 1 .. (next["instance"] - 1) :
          i \in DOMAIN table'["instance"] =>
            i \in DOMAIN table["instance"] /\ table'["instance"][i] = table["instance"][i]
    BY <1>3, KindFacts DEF KeepsHandles
  <1>6. \A k \in Kinds : \A h \in DOMAIN table[k] :
          h \in DOMAIN table'[k] => table'[k][h] = table[k][h]
    BY <1>1 DEF TypeOK, TablesTyped, Registered, KeepsHandles
  <1>7. ASSUME NEW g \in DOMAIN table'["physical_device"]
        PROVE  LET i == table'["physical_device"][g].parent IN
               /\ i \in 1 .. (next'["instance"] - 1)
               /\ i \in DOMAIN table'["instance"] =>
                    table'["physical_device"][g].native = table'["instance"][i].native
    <2>1. PICK i : i = table'["physical_device"][g].parent
      OBVIOUS
    <2>2. /\ i \in 1 .. (next["instance"] - 1)
          /\ i \in DOMAIN table["instance"] =>
               table'["physical_device"][g].native = table["instance"][i].native
      <3>1. CASE g \in DOMAIN table["physical_device"]
        <4>1. table'["physical_device"][g] = table["physical_device"][g]
          BY <1>6, <3>1, KindFacts
        <4> QED BY <2>1, <3>1, <4>1 DEF Views, Registered, Native
      <3>2. CASE g \notin DOMAIN table["physical_device"]
        <4>1. InsertPhysicalDevices(t)
          BY <1>2, <3>2
        <4> QED BY <1>1, <2>1, <3>2, <4>1, EnumeratedViews DEF Registered, Native
      <3> QED BY <3>1, <3>2
    <2> QED BY <1>4, <1>5, <2>1, <2>2
  <1>8. ASSUME NEW q \in DOMAIN table'["queue"]
        PROVE  table'["queue"][q].native = table'["device"][table'["queue"][q].parent].native
    <2>1. PICK d : d = table'["queue"][q].parent
      OBVIOUS
    <2>2. d \in DOMAIN table'["device"]
      BY <2>1, KindFacts DEF Inv, TablesClosed, Registered
    <2>3. d \in DOMAIN table["device"] /\ table'["queue"][q].native = table["device"][d].native
      <3>1. CASE q \in DOMAIN table["queue"]
        <4>1. table'["queue"][q] = table["queue"][q]
          BY <1>6, <3>1, KindFacts
        <4> QED BY <1>1, <2>1, <3>1, <4>1, KindFacts DEF Views, Registered, Native, TablesClosed
      <3>2. CASE q \notin DOMAIN table["queue"]
        <4>1. GetDeviceQueue(t)
          BY <1>2, <3>2
        <4> QED BY <1>1, <2>1, <3>2, <4>1, NewQueueView DEF Registered, Native
      <3> QED BY <3>1, <3>2
    <2>4. table'["device"][d] = table["device"][d]
      BY <1>6, <2>2, <2>3, KindFacts
    <2> QED BY <2>1, <2>3, <2>4
  <1>9. ASSUME NEW u \in Threads, call'[u].at = "insert_physical",
               call'[u].owner \in DOMAIN table'["instance"]
        PROVE  call'[u].natives \subseteq {table'["instance"][call'[u].owner].native}
    <2>1. CASE ~EnumeratePhysicalDevices(t)
      <3>1. call'[u] = call[u]
        BY <1>1, <1>9, <2>1, StepEnumerations
      <3>2. call[u].owner \in 1 .. (next["instance"] - 1)
        BY <1>9, <3>1 DEF OwnersIssued
      <3> QED BY <1>5, <1>9, <3>1, <3>2 DEF Views, Registered, Native
    <2>2. CASE EnumeratePhysicalDevices(t)
      <3>1. table' = table
        BY <2>2 DEF EnumeratePhysicalDevices
      <3>2. PICK i \in Registered("instance") : \A w \in Threads :
              IF w = t THEN /\ call'[w].owner = i
                            /\ call'[w].natives = {Native("instance", i)}
                       ELSE call'[w] = call[w]
        BY <1>1, <2>2, EnumeratedCall
      <3>3. CASE u = t
        BY <3>1, <3>2, <3>3 DEF Native
      <3>4. CASE u # t
        BY <1>9, <3>1, <3>2, <3>4 DEF Views, Registered, Native
      <3> QED BY <3>3, <3>4
    <2> QED BY <2>1, <2>2
  <1> QED BY <1>7, <1>8, <1>9 DEF Views, Registered, Native

-----------------------------------------------------------------------------
(* What the driver is handed *)

LEMMA StandingLive ==
  ASSUME Backed, NEW k, NEW h, Standing(k, h)
  PROVE  /\ Native(k, h) \in DOMAIN live
         /\ live[Native(k, h)].kind = k /\ live[Native(k, h)].parent = ParentNative(k, h)
  <1>1. /\ Native(k, h) \in DOMAIN live
        /\ live[Native(k, h)] = [kind |-> k, parent |-> ParentNative(k, h)]
    BY DEF Backed
  <1> QED BY <1>1

\* A handler that has just got the lock finds every record backed.
LEMMA FreeBacked ==
  ASSUME Inv, Backed, lock = NoThread, NEW k \in OwningKinds, NEW h \in Registered(k)
  PROVE  /\ Native(k, h) \in DOMAIN live
         /\ live[Native(k, h)] = [kind |-> k, parent |-> ParentNative(k, h)]
  <1>1. Untorn
    BY FreeUntorn DEF Inv
  <1>2. Standing(k, h)
    BY <1>1, UntornStanding
  <1> QED BY <1>2 DEF Backed

LEMMA FreeLive ==
  ASSUME Inv, Backed, lock = NoThread, NEW k \in OwningKinds, NEW h \in Registered(k)
  PROVE  IsLive(k, Native(k, h))
  <1>1. Standing(k, h)
    BY FreeUntorn, UntornStanding DEF Inv
  <1> QED BY <1>1, StandingLive DEF IsLive

LEMMA FreeOwned ==
  ASSUME Inv, Backed, lock = NoThread, NEW k \in LeafKinds \cup {"command_pool"}, NEW d,
         NEW h \in Children(k, {d})
  PROVE  Owns(Native("device", d), k, {Native(k, h)})
  <1>1. k \in OwningKinds /\ k \notin {"instance", "device", "command_buffer"}
    BY OwningFacts DEF LeafKinds
  <1>2. h \in Registered(k) /\ table[k][h].parent = d
    BY DEF Children
  <1>3. ParentNative(k, h) = Native("device", d)
    BY <1>1, <1>2 DEF ParentNative
  <1> QED BY <1>1, <1>2, <1>3, FreeBacked DEF Owns

Safe == "direct" \in misuse' => "direct" \in misuse

LEMMA LeafCallSafe ==
  ASSUME Inv, Backed, NEW t \in Threads, LeafCall(t)
  PROVE  Safe
  <1>0. lock = NoThread
    BY PlainSteps
  <1>1. ASSUME NEW k \in LeafKinds, CreateLeaf(t, k) PROVE Safe
    BY <1>0, <1>1, FreeLive, OwningFacts DEF CreateLeaf, Report, Safe
  <1>2. ASSUME NEW k \in LeafKinds, DestroyLeaf(t, k) PROVE Safe
    BY <1>0, <1>2, FreeOwned DEF DestroyLeaf, Report, Safe
  <1>3. ASSUME NEW k \in LeafKinds, UseChild(t, k) PROVE Safe
    BY <1>0, <1>3, FreeOwned DEF UseChild, Report, Safe
  <1>4. ASSUME NEW k \in LeafKinds, BindMemory(t, k) PROVE Safe
    <2>1. PICK d \in Registered("device") :
            \E h \in Children(k, {d}), m \in Children("memory", {d}) :
              Report("direct", /\ Owns(Native("device", d), k, {Native(k, h)})
                               /\ Owns(Native("device", d), "memory", {Native("memory", m)}))
      BY <1>4 DEF BindMemory
    <2>2. \A h \in Children(k, {d}) : Owns(Native("device", d), k, {Native(k, h)})
      BY <1>0, FreeOwned
    <2>3. \A m \in Children("memory", {d}) :
            Owns(Native("device", d), "memory", {Native("memory", m)})
      BY <1>0, FreeOwned DEF LeafKinds
    <2> QED BY <2>1, <2>2, <2>3 DEF Report, Safe
  <1>5. \E k \in LeafKinds : \/ CreateLeaf(t, k) \/ DestroyLeaf(t, k)
                             \/ UseChild(t, k) \/ BindMemory(t, k)
    BY DEF LeafCall, LeafKinds,
           CreateShaderModule, DestroyShaderModule, CreateSemaphore, DestroySemaphore,
           CreateFence, DestroyFence, GetFenceStatus, CreateBuffer, DestroyBuffer,
           GetBufferMemoryRequirements, BindBufferMemory, CreateImage, DestroyImage,
           GetImageMemoryRequirements, BindImageMemory, AllocateMemory, FreeMemory,
           CopyGuestToDeviceMemory, CopyDeviceMemoryToGuest
  <1> QED BY <1>1, <1>2, <1>3, <1>4, <1>5

LEMMA CommandCallSafe ==
  ASSUME Inv, Backed, NEW t \in Threads, CommandCall(t)
  PROVE  Safe
  <1>0. lock = NoThread
    BY PlainSteps
  <1>1. CASE CreateCommandPool(t)
    <2>1. \A d \in Registered("device") : IsLive("device", Native("device", d))
      BY <1>0, FreeLive, OwningFacts
    <2> QED BY <1>1, <2>1 DEF CreateCommandPool, Report, Safe
  <1>2. CASE DestroyCommandPool(t) \/ ResetCommandPool(t)
    <2>1. \A d : \A p \in Children("command_pool", {d}) :
            Owns(Native("device", d), "command_pool", {Native("command_pool", p)})
      BY <1>0, FreeOwned
    <2> QED BY <1>2, <2>1 DEF DestroyCommandPool, ResetCommandPool, UseChild, Report, Safe
  <1>3. CASE AllocateCommandBuffers(t)
    <2>1. PICK d \in Registered("device") : \E p \in Children("command_pool", {d}) :
            Report("direct", Owns(Native("device", d), "command_pool", {Native("command_pool", p)}))
      BY <1>3 DEF AllocateCommandBuffers
    <2>2. \A p \in Children("command_pool", {d}) :
            Owns(Native("device", d), "command_pool", {Native("command_pool", p)})
      BY <1>0, FreeOwned
    <2> QED BY <2>1, <2>2 DEF Report, Safe
  <1>4. CASE FreeCommandBuffers(t)
    <2>1. PICK d \in Registered("device") : \E p \in Children("command_pool", {d}) :
            \E list \in SUBSET BuffersOf(d, p), repeated \in BOOLEAN :
              IF repeated
              THEN Report("free_list", FALSE)
              ELSE Report("direct", Owns(Native("command_pool", p), "command_buffer",
                                         NativesOf("command_buffer", list)))
      BY <1>4 DEF FreeCommandBuffers
    <2>2. PICK p \in Children("command_pool", {d}) :
            \E list \in SUBSET BuffersOf(d, p), repeated \in BOOLEAN :
              IF repeated
              THEN Report("free_list", FALSE)
              ELSE Report("direct", Owns(Native("command_pool", p), "command_buffer",
                                         NativesOf("command_buffer", list)))
      BY <2>1
    <2>3. PICK list \in SUBSET BuffersOf(d, p), repeated \in BOOLEAN :
            IF repeated
            THEN Report("free_list", FALSE)
            ELSE Report("direct", Owns(Native("command_pool", p), "command_buffer",
                                       NativesOf("command_buffer", list)))
      BY <2>2
    <2>4. ASSUME NEW b \in list
          PROVE  /\ Native("command_buffer", b) \in DOMAIN live
                 /\ live[Native("command_buffer", b)] =
                      [kind |-> "command_buffer", parent |-> Native("command_pool", p)]
      <3>1. b \in Registered("command_buffer") /\ table["command_buffer"][b].pool = p
        BY DEF BuffersOf, Children
      <3>2. ParentNative("command_buffer", b) = Native("command_pool", p)
        BY <3>1 DEF ParentNative
      <3> QED BY <1>0, <3>1, <3>2, FreeBacked, OwningFacts
    <2>5. Owns(Native("command_pool", p), "command_buffer", NativesOf("command_buffer", list))
      BY <2>4 DEF Owns, NativesOf
    <2> QED BY <2>3, <2>5 DEF Report, Safe
  <1>5. CASE UseCommandBuffer(t)
    <2>1. PICK d \in Registered("device") : \E b \in Children("command_buffer", {d}) :
            Report("direct", /\ IsLive("command_buffer", Native("command_buffer", b))
                             /\ Owns(Native("device", d), "command_pool",
                                     {live[Native("command_buffer", b)].parent}))
      BY <1>5 DEF UseCommandBuffer
    <2>2. ASSUME NEW b \in Children("command_buffer", {d})
          PROVE  /\ IsLive("command_buffer", Native("command_buffer", b))
                 /\ Owns(Native("device", d), "command_pool",
                         {live[Native("command_buffer", b)].parent})
      <3>1. PICK p : p = table["command_buffer"][b].pool
        OBVIOUS
      <3>2. b \in Registered("command_buffer") /\ table["command_buffer"][b].parent = d
        BY DEF Children
      <3>3. p \in Children("command_pool", {d})
        BY <3>1, <3>2 DEF Inv, TablesClosed, Children
      <3>4. ParentNative("command_buffer", b) = Native("command_pool", p)
        BY <3>1 DEF ParentNative
      <3>5. /\ Native("command_buffer", b) \in DOMAIN live
            /\ live[Native("command_buffer", b)] =
                 [kind |-> "command_buffer", parent |-> Native("command_pool", p)]
        BY <1>0, <3>2, <3>4, FreeBacked, OwningFacts
      <3>6. Owns(Native("device", d), "command_pool", {Native("command_pool", p)})
        BY <1>0, <3>3, FreeOwned
      <3> QED BY <3>5, <3>6 DEF IsLive
    <2> QED BY <2>1, <2>2 DEF Report, Safe
  <1> QED BY <1>1, <1>2, <1>3, <1>4, <1>5
          DEF CommandCall, BeginCommandBuffer, EndCommandBuffer, ResetCommandBuffer

\* When the devices go, nothing else is left below them.
LEMMA DevicesChildless ==
  ASSUME Inv, TeardownsStaged, Backed, Arriving, NEW t \in Threads, call[t].at \in Teardowns,
         NEW devices, devices = Condemned(call[t], "device"),
         \A d \in devices : Standing("device", d),
         LeafKinds \cup {"command_pool"} \subseteq Done(call[t]), "device" \notin Done(call[t])
  PROVE  Childless("device", NativesOf("device", devices))
  <1>1. PICK c : c = call[t]
    OBVIOUS
  <1>2. Staged(c)
    BY <1>1 DEF TeardownsStaged
  <1>3. \A j, h : Torn(j, h) <=> j \in Gone(c) /\ h \in Condemned(c, j)
    BY <1>1, <1>2, TornBy DEF Inv
  <1>4. devices = c.devices
    BY <1>1, KindFacts DEF Condemned
  <1>5. PICK ns : ns = NativesOf("device", devices)
    OBVIOUS
  <1>6. \A x : x \in ns <=> \E d \in devices : x = Native("device", d)
    BY <1>5 DEF NativesOf
  <1>7. \A d \in devices : Native("device", d) \in DOMAIN live
                           /\ live[Native("device", d)].kind = "device"
    BY StandingLive
  <1>8. NoNative \notin ns
    BY <1>6, <1>7, NoNativeAssumption DEF Inv, TypeOK, DriverTyped
  <1>9. ASSUME NEW j, NEW h, Standing(j, h), j # "device"
        PROVE  ParentNative(j, h) \notin ns
    <2>1. CASE j = "instance"
      BY <1>8, <2>1 DEF ParentNative
    <2>2. CASE j = "command_buffer"
      <3>1. PICK p : p = table["command_buffer"][h].pool
        OBVIOUS
      <3>2. Standing("command_pool", p)
        BY <1>1, <1>2, <1>9, <2>2, <3>1, TeardownPools DEF Inv, PoolsStand
      <3>3. live[Native("command_pool", p)].kind = "command_pool"
        BY <3>2, StandingLive
      <3>4. ParentNative(j, h) = Native("command_pool", p)
        BY <2>2, <3>1 DEF ParentNative
      <3> QED BY <1>6, <1>7, <3>3, <3>4
    <2>3. CASE j \in LeafKinds \cup {"command_pool"}
      <3>1. PICK d : d = table[j][h].parent
        OBVIOUS
      <3>2. j \in DeviceChildKinds /\ j \notin {"instance", "device", "command_buffer"}
        BY <2>3, KindFacts DEF LeafKinds
      <3>3. ParentNative(j, h) = Native("device", d) /\ d \in Registered("device")
        BY <1>9, <3>1, <3>2 DEF ParentNative, Standing, Inv, TablesClosed
      <3>4. d \notin devices
        <4>1. j \in Gone(c)
          BY <1>1, <2>3 DEF Gone
        <4>2. h \notin Condemned(c, j) /\ h \in Registered(j)
          BY <1>3, <1>9, <4>1 DEF Standing
        <4>3. Condemned(c, j) = Children(j, c.devices)
          BY <3>2, KindFacts DEF Condemned
        <4> QED BY <1>4, <3>1, <4>2, <4>3 DEF Children
      <3>5. Standing("device", d)
        <4>1. "device" \notin Gone(c)
          BY <1>1 DEF Gone, Buffers
        <4> QED BY <1>3, <3>3, <4>1, OwningFacts DEF Standing
      <3> QED BY <1>6, <3>3, <3>4, <3>5 DEF Backed
    <2> QED BY <1>9, <2>1, <2>2, <2>3 DEF Standing, OwningKinds, Kinds, DeviceChildKinds
  <1>10. ASSUME NEW n \in DOMAIN live, live[n].kind # "device" PROVE live[n].parent \notin ns
    <2>1. CASE \E t1 \in Threads : Arrives(t1, n)
      BY <1>8, <2>1 DEF Arriving
    <2>2. CASE \E j, h : Standing(j, h) /\ Native(j, h) = n
      <3>1. PICK j, h : Standing(j, h) /\ Native(j, h) = n
        BY <2>2
      <3>2. live[n] = [kind |-> j, parent |-> ParentNative(j, h)]
        BY <3>1 DEF Backed
      <3> QED BY <1>9, <1>10, <3>1, <3>2
    <2> QED BY <2>1, <2>2 DEF Backed
  <1> QED BY <1>5, <1>10 DEF Childless

LEMMA DestroyStageSafe ==
  ASSUME Inv, TeardownsStaged, Backed, Arriving, NEW t \in Threads, DestroyStage(t)
  PROVE  Safe
  <1>1. PICK k : k = TeardownOrder(call[t])[call[t].stage]
    OBVIOUS
  <1>2. PICK handles : handles = Condemned(call[t], k)
    OBVIOUS
  <1>3. call[t].at \in Teardowns /\ call[t].stage =< Len(TeardownOrder(call[t]))
        /\ Staged(call[t])
    BY DEF DestroyStage, TeardownsStaged
  <1>4. /\ k \in Final(call[t]) /\ k \notin Done(call[t])
        /\ k = "device" => LeafKinds \cup {"command_pool"} \subseteq Done(call[t])
    <2>1. call[t] \in Call
      BY DEF Inv, TypeOK, CallsTyped
    <2>2. PICK d : d = [call[t] EXCEPT !.stage = @ + 1]
      OBVIOUS
    <2>3. d.at = call[t].at /\ d.stage = call[t].stage + 1
      BY <2>1, <2>2 DEF Call
    <2> QED BY <1>1, <1>3, <2>3, NextStage
  <1>5. \A h \in handles : Standing(k, h)
    BY <1>2, <1>3, <1>4, CondemnedStand DEF Inv
  <1>6. CASE k = "instance"
    <2>1. \E ok : Report("physical_device", ok)
      BY <1>1, <1>6 DEF DestroyStage
    <2> QED BY <2>1 DEF Report, Safe
  <1>7. CASE k = "device"
    <2>1. Report("direct", /\ \A n \in NativesOf(k, handles) : IsLive(k, n)
                           /\ Childless(k, NativesOf(k, handles)))
      BY <1>1, <1>2, <1>7 DEF DestroyStage
    <2>2. \A n \in NativesOf(k, handles) : IsLive(k, n)
      BY <1>5, StandingLive DEF NativesOf, IsLive
    <2>3. Childless(k, NativesOf(k, handles))
      BY <1>2, <1>3, <1>4, <1>5, <1>7, DevicesChildless
    <2> QED BY <2>1, <2>2, <2>3 DEF Report, Safe
  <1>8. CASE k \in LeafKinds \cup {"command_pool"}
    <2>1. k \notin {"instance", "device", "command_buffer"}
      BY <1>8 DEF LeafKinds
    <2>2. Report("direct", \A h \in handles :
            Owns(Native("device", table[k][h].parent), k, {Native(k, h)}))
      BY <1>1, <1>2, <2>1 DEF DestroyStage
    <2>3. ASSUME NEW h \in handles
          PROVE  Owns(Native("device", table[k][h].parent), k, {Native(k, h)})
      <3>1. ParentNative(k, h) = Native("device", table[k][h].parent)
        BY <2>1 DEF ParentNative
      <3> QED BY <1>5, <3>1 DEF Backed, Owns
    <2> QED BY <2>2, <2>3 DEF Report, Safe
  <1> QED BY <1>4, <1>6, <1>7, <1>8 DEF Final

LEMMA StepSafe ==
  ASSUME Inv, TeardownsStaged, Backed, Arriving, Views, NEW t \in Threads, Step(t)
  PROVE  Safe
  <1>1. CASE LeafCall(t) \/ CommandCall(t)
    BY <1>1, LeafCallSafe, CommandCallSafe
  <1>2. lock = NoThread => \A d \in Registered("device") : IsLive("device", Native("device", d))
    BY FreeLive, OwningFacts
  <1>3. CASE RejectedCall(t) \/ DeviceCall(t)
    <2>1. lock = NoThread
      BY <1>3, PlainSteps
    <2>2. CASE GetDeviceQueue(t)
      BY <1>2, <2>1, <2>2 DEF GetDeviceQueue, Report, Safe
    <2>3. CASE CreateDevice(t)
      <3>1. \E ok : Report("physical_device", ok)
        BY <2>3 DEF CreateDevice
      <3> QED BY <3>1 DEF Report, Safe
    <2>4. CASE QueryPhysicalDevice(t)
      <3>1. \E ok : Report("physical_device", ok)
        BY <2>4 DEF QueryPhysicalDevice
      <3> QED BY <3>1 DEF Report, Safe
    <2>5. CASE RejectedCall(t)
      BY <2>5 DEF RejectedCall, vars, Safe
    <2> QED BY <1>3, <2>2, <2>3, <2>4, <2>5
            DEF DeviceCall, EnumerateDeviceExtensionProperties, GetPhysicalDeviceProperties,
                GetPhysicalDeviceFeatures, GetPhysicalDeviceMemoryProperties,
                GetPhysicalDeviceQueueFamilyProperties
  <1>4. CASE misuse' = misuse
    BY <1>4 DEF Safe
  <1>5. CASE EnumeratePhysicalDevices(t)
    <2>1. PICK i \in Registered("instance") :
            Report("direct", IsLive("instance", Native("instance", i)))
      BY <1>5 DEF EnumeratePhysicalDevices
    <2>2. IsLive("instance", Native("instance", i))
      BY <1>5, FreeLive, OwningFacts DEF EnumeratePhysicalDevices, Enter
    <2> QED BY <2>1, <2>2 DEF Report, Safe
  <1>6. CASE DeviceWaitIdle(t)
    BY <1>2, <1>6 DEF DeviceWaitIdle, Enter, Report, Safe
  <1>7. CASE QueueWaitIdle(t)
    <2>1. PICK q \in Registered("queue") :
            /\ table["queue"][q].parent \in Registered("device")
            /\ Report("direct", /\ IsLive("device", Native("device", table["queue"][q].parent))
                                /\ IsLive("device", Native("queue", q)))
      BY <1>7 DEF QueueWaitIdle
    <2>2. lock = NoThread /\ Native("queue", q) = Native("device", table["queue"][q].parent)
      BY <1>7 DEF QueueWaitIdle, Enter, Views
    <2> QED BY <1>2, <2>1, <2>2 DEF Report, Safe
  <1>8. CASE WaitForFences(t) \/ ResetFences(t)
    <2>1. \E ok : Report("fence_list", ok)
      BY <1>8 DEF WaitForFences, ResetFences, UseFences
    <2> QED BY <2>1 DEF Report, Safe
  <1>9. CASE DestroyStage(t)
    BY <1>9, DestroyStageSafe
  <1>10. CASE \/ CreateInstance(t) \/ DestroyDevice(t) \/ DestroyInstance(t)
              \/ ResolveFenceList(t, "wait_fences") \/ ResolveFenceList(t, "reset_fences")
    BY <1>4, <1>10 DEF CreateInstance, DestroyDevice, DestroyInstance, ResolveFenceList
  <1>11. CASE \/ InsertInstance(t) \/ InsertPhysicalDevices(t) \/ FenceDeviceGone(t)
              \/ WaitReturns(t) \/ FinishTeardown(t)
    BY <1>4, <1>11 DEF InsertInstance, InsertPhysicalDevices, FenceDeviceGone, WaitReturns,
                       FinishTeardown
  <1> QED BY <1>1, <1>3, <1>5, <1>6, <1>7, <1>8, <1>9, <1>10, <1>11
          DEF Step, Start, Reacquire, Continue

-----------------------------------------------------------------------------
(* The theorems *)

\* The inductive invariant: the live objects are those of the records, less what the
\* teardown under way has destroyed, plus the instances not registered yet.
DriverInv ==
  /\ Inv /\ OwnersIssued /\ TeardownsStaged
  /\ Backed /\ Arriving /\ Views /\ LockedCallsAreSafe

LEMMA InitDriverInv == Init => DriverInv
  <1> SUFFICES ASSUME Init PROVE DriverInv
    OBVIOUS
  <1>1. \A t \in Threads : call[t].at = "idle"
    BY IdleCall DEF Init
  <1>2. OwnersIssued /\ TeardownsStaged
    BY <1>1 DEF OwnersIssued, TeardownsStaged, Teardowns
  <1>3. \A k \in Kinds : Registered(k) = {}
    BY DEF Init, Registered
  <1>4. \A k, h : ~Standing(k, h)
    BY <1>3 DEF Standing, OwningKinds
  <1>5. Backed
    BY <1>4 DEF Init, Backed
  <1>6. Arriving
    BY <1>1 DEF Arriving, Arrives
  <1>7. Views
    BY <1>1, <1>3, KindFacts DEF Views
  <1>8. LockedCallsAreSafe
    BY DEF Init, LockedCallsAreSafe
  <1> QED BY <1>2, <1>5, <1>6, <1>7, <1>8, InitInv DEF DriverInv

LEMMA NextDriverInv == DriverInv /\ [Next]_vars => DriverInv'
  <1> SUFFICES ASSUME DriverInv, [Next]_vars PROVE DriverInv'
    OBVIOUS
  <1>1. Inv'
    BY NextInv DEF DriverInv
  <1>2. ASSUME NEW t \in Threads, Step(t) PROVE DriverInv'
    <2>1. TablesTyped' /\ TablesClosed' /\ KeepsHandles
      BY <1>2, StepTables DEF DriverInv, Inv
    <2>2. OwnersIssued'
      BY <1>2, <2>1, StepOwners DEF DriverInv, Inv
    <2>3. TeardownsStaged'
      BY <1>2, StepStaged DEF DriverInv
    <2>4. Backed' /\ Arriving'
      BY <1>2, StepDriven DEF DriverInv
    <2>5. Views'
      BY <1>1, <1>2, <2>1, StepViews DEF DriverInv
    <2>6. LockedCallsAreSafe'
      BY <1>2, StepSafe DEF DriverInv, Safe, LockedCallsAreSafe
    <2> QED BY <1>1, <2>2, <2>3, <2>4, <2>5, <2>6 DEF DriverInv
  <1>3. CASE UNCHANGED vars
    <2>1. /\ \A k, h : /\ Standing(k, h)' <=> Standing(k, h)
                       /\ Native(k, h)' = Native(k, h)
                       /\ ParentNative(k, h)' = ParentNative(k, h)
          /\ \A t \in Threads : \A n : Arrives(t, n)' <=> Arrives(t, n)
      <3>1. \A c, k : Condemned(c, k)' = Condemned(c, k)
        BY <1>3 DEF vars, Condemned, Children, Registered
      <3>2. \A k, h : Torn(k, h)' <=> Torn(k, h)
        BY <1>3, <3>1 DEF vars, Torn
      <3> QED BY <1>3, <3>2 DEF vars, Standing, Registered, Native, ParentNative, Arrives
    <2>2. Backed' /\ Arriving'
      BY <1>3, <2>1 DEF vars, DriverInv, Backed, Arriving
    <2>3. OwnersIssued' /\ TeardownsStaged' /\ Views' /\ LockedCallsAreSafe'
      BY <1>3 DEF vars, DriverInv, OwnersIssued, TeardownsStaged, Views, LockedCallsAreSafe,
                  Registered, Native
    <2> QED BY <1>1, <2>2, <2>3 DEF DriverInv
  <1> QED BY <1>2, <1>3 DEF Next

\* The object of a registered record is there, of the right kind and below the right
\* parent, unless the teardown that holds the lock has just destroyed it.
THEOREM RegisteredObjectsLive == Spec => []RecordsBacked
  <1>1. DriverInv => RecordsBacked
    BY StandingLive DEF DriverInv, RecordsBacked, Standing, IsLive
  <1> QED BY <1>1, InitDriverInv, NextDriverInv, PTL DEF Spec

\* Nothing leaks in the driver and nothing is owned twice, whatever the threads create,
\* destroy and roll back.
THEOREM NothingLeaksInTheDriver == Spec => []ExactlyOneOwner
  <1>1. ASSUME DriverInv, NEW n \in DOMAIN live PROVE Cardinality(Owners(n)) = 1
    <2>1. Backed /\ Arriving /\ live[n].kind \in OwningKinds
      BY <1>1 DEF DriverInv, Inv, TypeOK, DriverTyped, DriverObject
    <2>2. \A k, h : Standing(k, h) /\ Native(k, h) = n => k = live[n].kind
      BY <2>1, StandingLive
    <2>3. \A o : o \in Owners(n) <=>
            \/ \E h : /\ Standing(live[n].kind, h) /\ Native(live[n].kind, h) = n
                      /\ o = [kind |-> live[n].kind, handle |-> h]
            \/ o \in Threads /\ Arrives(o, n)
      BY <2>1 DEF Owners, Standing, Arrives
    <2>4. \E x : Owners(n) = {x}
      <3>1. CASE \E t \in Threads : Arrives(t, n)
        <4>1. PICK t \in Threads : Arrives(t, n)
          BY <3>1
        <4>2. \A k, h : Standing(k, h) => Native(k, h) # n
          BY <2>1, <4>1 DEF Arriving
        <4>3. \A o : o \in Owners(n) <=> o = t
          BY <2>1, <2>3, <4>1, <4>2 DEF Arriving
        <4> QED BY <4>3
      <3>2. CASE ~\E t \in Threads : Arrives(t, n)
        <4>1. PICK k, h : Standing(k, h) /\ Native(k, h) = n
          BY <2>1, <3>2 DEF Backed
        <4>2. k = live[n].kind
          BY <2>2, <4>1
        <4>3. \A g : Standing(k, g) /\ Native(k, g) = n => g = h
          BY <2>1, <4>1 DEF Backed
        <4>4. PICK x : x = [kind |-> k, handle |-> h]
          OBVIOUS
        <4>5. \A o : o \in Owners(n) <=> o = x
          BY <2>3, <3>2, <4>1, <4>2, <4>3, <4>4
        <4>6. Owners(n) = {x}
          BY <4>5
        <4> QED BY <4>6
      <3> QED BY <3>1, <3>2
    <2> QED BY <2>4, FS_Singleton
  <1>2. DriverInv => ExactlyOneOwner
    BY <1>1 DEF ExactlyOneOwner
  <1> QED BY <1>2, InitDriverInv, NextDriverInv, PTL DEF Spec

\* A driver call whose handles are looked up under the lock that covers it gets live
\* objects, and a device is destroyed after all that was made from it, whatever other
\* threads do.
THEOREM LockedCallsGetLiveObjects == Spec => []LockedCallsAreSafe
  <1>1. DriverInv => LockedCallsAreSafe
    BY DEF DriverInv
  <1> QED BY <1>1, InitDriverInv, NextDriverInv, PTL DEF Spec

\* Above a record that stands is one that stands, up to the physical devices.
LEMMA ParentsStand ==
  ASSUME DriverInv, NEW k \in OwningKinds, NEW h, Standing(k, h)
  PROVE  /\ k = "command_buffer" => Standing("command_pool", table[k][h].pool)
         /\ k \in LeafKinds \cup {"command_pool"} => Standing("device", table[k][h].parent)
         /\ k = "device" =>
              LET g == table[k][h].parent
                  i == table["physical_device"][g].parent IN
              /\ g \in Registered("physical_device")
              /\ i \in Registered("instance") => Standing("instance", i)
  <1>1. CASE \E t \in Threads : call[t].at \in Teardowns
    <2>1. PICK t \in Threads : call[t].at \in Teardowns
      BY <1>1
    <2>2. PICK c : c = call[t]
      OBVIOUS
    <2>3. Staged(c) /\ c.at \in {"destroy_device", "destroy_instance"}
      BY <2>1, <2>2 DEF DriverInv, TeardownsStaged, Teardowns
    <2>4. \A j, g : Torn(j, g) <=> j \in Gone(c) /\ g \in Condemned(c, j)
      BY <2>2, <2>3, TornBy DEF DriverInv, Inv
    <2>5. /\ "device" \in Done(c) => LeafKinds \cup {"command_pool"} \subseteq Done(c)
          /\ "instance" \in Done(c) => "device" \in Done(c)
          /\ Done(c) \subseteq Gone(c)
      BY <2>3, DoneFacts DEF Gone
    <2>6. /\ "device" \in Gone(c) => "device" \in Done(c)
          /\ "instance" \in Gone(c) => "instance" \in Done(c)
      BY DEF Gone, Buffers
    <2>7. k = "command_buffer" => Standing("command_pool", table[k][h].pool)
      BY <2>2, <2>3, TeardownPools DEF DriverInv, Inv, PoolsStand
    <2>8. ASSUME k \in LeafKinds \cup {"command_pool"} PROVE Standing("device", table[k][h].parent)
      <3>1. PICK d : d = table[k][h].parent
        OBVIOUS
      <3>2. k \in DeviceChildKinds
        BY <2>8, KindFacts
      <3>3. h \in Registered(k) /\ d \in Registered("device")
        BY <3>1, <3>2 DEF Standing, DriverInv, Inv, TablesClosed
      <3>4. ASSUME Torn("device", d) PROVE FALSE
        <4>1. "device" \in Gone(c) /\ d \in Condemned(c, "device")
          BY <2>4, <3>4
        <4>2. k \in Gone(c)
          BY <2>5, <2>6, <2>8, <4>1
        <4>3. /\ Condemned(c, "device") = c.devices
              /\ Condemned(c, k) = Children(k, c.devices)
          BY <3>2, KindFacts DEF Condemned
        <4>4. h \in Condemned(c, k)
          BY <3>1, <3>3, <4>1, <4>3 DEF Children
        <4> QED BY <2>4, <4>2, <4>4 DEF Standing
      <3> QED BY <3>1, <3>3, <3>4, OwningFacts DEF Standing
    <2>9. ASSUME k = "device"
          PROVE  LET g == table[k][h].parent
                     i == table["physical_device"][g].parent IN
                 /\ g \in Registered("physical_device")
                 /\ i \in Registered("instance") => Standing("instance", i)
      <3>1. PICK g : g = table[k][h].parent
        OBVIOUS
      <3>2. PICK i : i = table["physical_device"][g].parent
        OBVIOUS
      <3>3. h \in Registered("device") /\ g \in Registered("physical_device")
        BY <2>9, <3>1 DEF Standing, DriverInv, Inv, TablesClosed
      <3>4. ASSUME i \in Registered("instance"), Torn("instance", i) PROVE FALSE
        <4>1. "instance" \in Gone(c) /\ i \in Condemned(c, "instance")
          BY <2>4, <3>4
        <4>2. "device" \in Gone(c)
          BY <2>5, <2>6, <4>1
        <4>3. c.at = "destroy_instance" /\ i = c.owner
          BY <4>1, KindFacts DEF Condemned
        <4>4. Condemned(c, "device") = DevicesOf(i)
          BY <2>2, <4>3, KindFacts DEF Condemned, DriverInv, Inv, TeardownCurrent
        <4>5. h \in DevicesOf(i)
          BY <2>9, <3>1, <3>2, <3>3 DEF DevicesOf, Children
        <4> QED BY <2>4, <2>9, <4>2, <4>4, <4>5 DEF Standing
      <3> QED BY <3>1, <3>2, <3>3, <3>4, OwningFacts DEF Standing
    <2> QED BY <2>7, <2>8, <2>9
  <1>2. CASE ~\E t \in Threads : call[t].at \in Teardowns
    <2>1. \A j, g : ~Torn(j, g)
      BY <1>2, NothingTorn
    <2>2. h \in Registered(k) /\ TablesClosed
      BY DEF Standing, DriverInv, Inv
    <2> QED BY <2>1, <2>2, KindFacts, OwningFacts DEF Standing, TablesClosed
  <1> QED BY <1>1, <1>2

\* No live driver object has a dead parent, as long as no physical device has outlived
\* its instance: whatever is destroyed goes before what it was made from.
THEOREM ChildrenGoFirst == Spec => []ParentsOutliveChildren
  <1>1. ASSUME DriverInv, NoOrphans, NEW n \in DOMAIN live
        PROVE  live[n].parent \in DOMAIN live \cup {NoNative}
    <2>1. CASE \E t \in Threads : Arrives(t, n)
      BY <1>1, <2>1 DEF DriverInv, Arriving
    <2>2. CASE \E k, h : Standing(k, h) /\ Native(k, h) = n
      <3>1. PICK k, h : Standing(k, h) /\ Native(k, h) = n
        BY <2>2
      <3>2. Backed /\ live[n].parent = ParentNative(k, h) /\ k \in OwningKinds
        BY <1>1, <3>1, StandingLive DEF DriverInv, Standing
      <3>3. CASE k = "instance"
        BY <3>2, <3>3 DEF ParentNative
      <3>4. CASE k = "command_buffer"
        <4>1. Standing("command_pool", table[k][h].pool)
          BY <1>1, <3>1, <3>2, <3>4, ParentsStand
        <4> QED BY <3>2, <3>4, <4>1, StandingLive DEF ParentNative
      <3>5. CASE k \in LeafKinds \cup {"command_pool"}
        <4>1. Standing("device", table[k][h].parent)
          BY <1>1, <3>1, <3>2, <3>5, ParentsStand
        <4>2. ParentNative(k, h) = Native("device", table[k][h].parent)
          BY <3>5 DEF ParentNative, LeafKinds
        <4> QED BY <3>2, <4>1, <4>2, StandingLive
      <3>6. CASE k = "device"
        <4>1. PICK g : g = table[k][h].parent
          OBVIOUS
        <4>2. PICK i : i = table["physical_device"][g].parent
          OBVIOUS
        <4>3. /\ g \in Registered("physical_device")
              /\ i \in Registered("instance") => Standing("instance", i)
          BY <1>1, <3>1, <3>2, <3>6, <4>1, <4>2, ParentsStand
        <4>4. i \in Registered("instance")
          BY <1>1, <4>2, <4>3 DEF NoOrphans
        <4>5. Native("physical_device", g) = Native("instance", i)
          BY <1>1, <4>2, <4>3, <4>4 DEF DriverInv, Views
        <4>6. ParentNative(k, h) = Native("physical_device", g)
          BY <3>6, <4>1 DEF ParentNative
        <4> QED BY <3>2, <4>3, <4>4, <4>5, <4>6, StandingLive
      <3> QED BY <3>2, <3>3, <3>4, <3>5, <3>6 DEF OwningKinds, Kinds, DeviceChildKinds
    <2> QED BY <1>1, <2>1, <2>2 DEF DriverInv, Backed
  <1>2. DriverInv => ParentsOutliveChildren
    BY <1>1 DEF ParentsOutliveChildren
  <1> QED BY <1>2, InitDriverInv, NextDriverInv, PTL DEF Spec
-----------------------------------------------------------------------------
(* How far a call has come.  Whether the threads run is a matter of        *)
(* fairness; that running gets them to the end is not.                     *)

\* The steps of its own that a call still needs at most.
StepsLeft(c) ==
  CASE c.at = "idle" -> 0
    [] c.at \in {"insert_instance", "insert_physical", "reset_fences"} \cup Waits -> 1
    [] c.at = "wait_fences" -> 2
    [] OTHER -> Len(TeardownOrder(c)) + 2 - c.stage

FewStepsLeft ==
  \A t \in Threads :
    StepsLeft(call[t]) \in 0 .. 10 /\ (StepsLeft(call[t]) = 0 <=> call[t].at = "idle")

\* A call under way stays as it is or gets closer to its end, always by a step of its
\* own thread there, and the thread keeps the mutex it has exactly until that end.
CallsAdvance ==
  \A t \in Threads : call[t].at # "idle" =>
    /\ call'[t] = call[t] \/ StepsLeft(call'[t]) < StepsLeft(call[t])
    /\ Reacquire(t) \/ Continue(t) => StepsLeft(call'[t]) < StepsLeft(call[t])
    /\ lock = t => IF call'[t].at = "idle" THEN lock' = NoThread ELSE lock' = t

\* What the calls that wait for the mutex ask for beside it.
Unblocked ==
  /\ \A t \in Threads :
       call[t].at \in {"insert_instance", "insert_physical"} => call[t].natives # {}
  /\ Room("physical_device", 0)

LEMMA PlainStepsEnter ==
  ASSUME NEW t \in Threads,
         RejectedCall(t) \/ LeafCall(t) \/ CommandCall(t) \/ DeviceCall(t)
  PROVE  call[t].at = "idle"
  <1>1. CASE RejectedCall(t)
    BY <1>1 DEF RejectedCall, Enter
  <1>2. CASE LeafCall(t)
    BY <1>2 DEF LeafCall, UseChild, BindMemory, CreateLeaf, DestroyLeaf, Enter,
           CreateShaderModule, DestroyShaderModule, CreateSemaphore, DestroySemaphore,
           CreateFence, DestroyFence, GetFenceStatus, CreateBuffer, DestroyBuffer,
           GetBufferMemoryRequirements, BindBufferMemory, CreateImage, DestroyImage,
           GetImageMemoryRequirements, BindImageMemory, AllocateMemory, FreeMemory,
           CopyGuestToDeviceMemory, CopyDeviceMemoryToGuest
  <1>3. CASE CommandCall(t)
    BY <1>3 DEF CommandCall, CreateCommandPool, DestroyCommandPool, ResetCommandPool,
           AllocateCommandBuffers, FreeCommandBuffers, BeginCommandBuffer,
           EndCommandBuffer, ResetCommandBuffer, UseChild, UseCommandBuffer, Enter
  <1>4. CASE DeviceCall(t)
    BY <1>4 DEF DeviceCall, CreateDevice, GetDeviceQueue, QueryPhysicalDevice, Enter,
           EnumerateDeviceExtensionProperties, GetPhysicalDeviceProperties,
           GetPhysicalDeviceFeatures, GetPhysicalDeviceMemoryProperties,
           GetPhysicalDeviceQueueFamilyProperties
  <1> QED BY <1>1, <1>2, <1>3, <1>4

LEMMA SimpleStepsLeft ==
  /\ \A c : c.at = "idle" => StepsLeft(c) = 0
  /\ \A c : c.at \in {"insert_instance", "insert_physical", "reset_fences"} \cup Waits
       => StepsLeft(c) = 1
  /\ \A c : c.at = "wait_fences" => StepsLeft(c) = 2
  /\ \A c : c.at \in Teardowns => StepsLeft(c) = Len(TeardownOrder(c)) + 2 - c.stage
  BY DEF StepsLeft, Waits, Teardowns

LEMMA TeardownStepsLeft ==
  ASSUME NEW c, Staged(c)
  PROVE  StepsLeft(c) \in 1 .. 10
  <1>1. c.at \in Teardowns
    BY DEF Staged
  <1>2. StepsLeft(c) = Len(TeardownOrder(c)) + 2 - c.stage
    BY <1>1, SimpleStepsLeft
  <1>3. Len(TeardownOrder(c)) \in {8, 9}
    BY <1>1, OrderFacts
  <1>4. PICK n \in {8, 9} : Len(TeardownOrder(c)) = n
    BY <1>3
  <1>5. PICK stage \in 1 .. (n + 1) : c.stage = stage
    BY <1>4 DEF Staged
  <1>6. n + 2 - stage \in 1 .. 10
    OBVIOUS
  <1> QED BY <1>2, <1>4, <1>5, <1>6

LEMMA StepsAreFew == TypeOK /\ TeardownsStaged => FewStepsLeft
  <1> SUFFICES ASSUME TypeOK, TeardownsStaged, NEW t \in Threads
               PROVE  /\ StepsLeft(call[t]) \in 0 .. 10
                      /\ StepsLeft(call[t]) = 0 <=> call[t].at = "idle"
    BY DEF FewStepsLeft
  <1>1. call[t].at \in Unlocked \cup Holding
    BY DEF TypeOK, CallsTyped, Call
  <1>2. CASE call[t].at \in Teardowns
    <2>1. StepsLeft(call[t]) \in 1 .. 10
      BY <1>2, TeardownStepsLeft DEF TeardownsStaged
    <2> QED BY <1>2, <2>1 DEF Teardowns
  <1>3. CASE call[t].at \notin Teardowns
    BY <1>1, <1>3, SimpleStepsLeft DEF Unlocked, Holding, Waits
  <1> QED BY <1>2, <1>3

\* A call under way goes on by its last two groups of actions.
LEMMA UnderWay ==
  ASSUME NEW t \in Threads, Step(t), call[t].at # "idle"
  PROVE  Reacquire(t) \/ Continue(t)
  <1>1. ~(RejectedCall(t) \/ LeafCall(t) \/ CommandCall(t) \/ DeviceCall(t))
    BY PlainStepsEnter
  <1>2. ~Start(t)
    BY DEF Start, CreateInstance, EnumeratePhysicalDevices, ResolveFenceList, DeviceWaitIdle,
           QueueWaitIdle, DestroyDevice, DestroyInstance, Enter
  <1> QED BY <1>1, <1>2 DEF Step

\* The steps that let go of the mutex, or take it, make one of two calls.
LEMMA ReacquireAdvances ==
  ASSUME TypeOK, NEW t \in Threads, Reacquire(t)
  PROVE  /\ lock = NoThread
         /\ \A u \in Threads \ {t} : call'[u] = call[u]
         /\ StepsLeft(call'[t]) < StepsLeft(call[t])
  <1>1. lock = NoThread
    BY DEF Reacquire, InsertInstance, InsertPhysicalDevices, WaitForFences, ResetFences,
           FenceDeviceGone, Resume
  <1>2. call[t].at \in {"insert_instance", "insert_physical", "reset_fences", "wait_fences"}
    BY DEF Reacquire, InsertInstance, InsertPhysicalDevices, WaitForFences, ResetFences,
           FenceDeviceGone, Resume
  <1>3. StepsLeft(call[t]) \in {1, 2}
    BY <1>2, SimpleStepsLeft
  <1>4. CASE Return(t)
    <2>1. \A u \in Threads : call'[u] = IF u = t THEN Idle ELSE call[u]
      BY <1>4 DEF Return, Become, TypeOK, CallsTyped
    <2>2. StepsLeft(call'[t]) = 0
      BY <2>1, IdleCall, SimpleStepsLeft
    <2> QED BY <1>1, <1>3, <2>1, <2>2
  <1>5. CASE WaitForFences(t)
    <2>1. PICK at \in Waits : Become(t, [Idle EXCEPT !.at = at])
      BY <1>5 DEF WaitForFences, Hold, Waits
    <2>2. PICK c : c = [Idle EXCEPT !.at = at]
      OBVIOUS
    <2>3. c.at \in Waits
      BY <2>2 DEF Idle
    <2>4. \A u \in Threads : call'[u] = IF u = t THEN c ELSE call[u]
      BY <2>1, <2>2 DEF Become, TypeOK, CallsTyped
    <2>5. StepsLeft(call'[t]) = 1
      BY <2>3, <2>4, SimpleStepsLeft
    <2>6. StepsLeft(call[t]) = 2
      BY <1>5, SimpleStepsLeft DEF WaitForFences, Resume
    <2> QED BY <1>1, <2>4, <2>5, <2>6
  <1> QED BY <1>4, <1>5 DEF Reacquire, InsertInstance, InsertPhysicalDevices, ResetFences,
                            FenceDeviceGone

LEMMA ContinueAdvances ==
  ASSUME TypeOK, LockHeld, TeardownsStaged, NEW t \in Threads, Continue(t)
  PROVE  /\ lock = t
         /\ \A u \in Threads \ {t} : call'[u] = call[u]
         /\ StepsLeft(call'[t]) < StepsLeft(call[t])
         /\ IF call'[t].at = "idle" THEN lock' = NoThread ELSE lock' = t
  <1>1. call[t].at \in Holding /\ lock = t
    BY DEF Continue, WaitReturns, DestroyStage, FinishTeardown, Holding, Waits, LockHeld
  <1>2. CASE WaitReturns(t) \/ FinishTeardown(t)
    <2>1. lock' = NoThread /\ \A u \in Threads : call'[u] = IF u = t THEN Idle ELSE call[u]
      BY <1>2 DEF WaitReturns, FinishTeardown, Return, Become, TypeOK, CallsTyped
    <2>2. StepsLeft(call'[t]) = 0 /\ call'[t].at = "idle"
      BY <2>1, IdleCall, SimpleStepsLeft
    <2>3. StepsLeft(call[t]) \in 0 .. 10 /\ StepsLeft(call[t]) # 0
      BY <1>1, IdleCall, StepsAreFew DEF FewStepsLeft
    <2> QED BY <1>1, <2>1, <2>2, <2>3
  <1>3. CASE DestroyStage(t)
    <2>1. PICK c : c = [call[t] EXCEPT !.stage = @ + 1]
      OBVIOUS
    <2>2. /\ call[t].at \in Teardowns /\ lock' = lock
          /\ call[t].stage =< Len(TeardownOrder(call[t])) /\ Become(t, c)
      BY <1>3, <2>1 DEF DestroyStage
    <2>3. c.at = call[t].at /\ c.stage = call[t].stage + 1
      BY <2>1 DEF TypeOK, CallsTyped, Call
    <2>4. \A u \in Threads : call'[u] = IF u = t THEN c ELSE call[u]
      BY <2>2 DEF Become, TypeOK, CallsTyped
    <2>5. TeardownOrder(c) = TeardownOrder(call[t])
      BY <2>3 DEF TeardownOrder
    <2>6. /\ StepsLeft(call[t]) = Len(TeardownOrder(call[t])) + 2 - call[t].stage
          /\ StepsLeft(c) = Len(TeardownOrder(call[t])) + 2 - (call[t].stage + 1)
      BY <2>2, <2>3, <2>5, SimpleStepsLeft
    <2>7. Len(TeardownOrder(call[t])) \in {8, 9} /\ call[t].stage \in Nat
      BY <2>2, OrderFacts DEF TypeOK, CallsTyped, Call
    <2>8. StepsLeft(c) < StepsLeft(call[t])
      BY <2>6, <2>7
    <2>9. call'[t] = c /\ c.at # "idle"
      BY <2>2, <2>3, <2>4 DEF Teardowns
    <2> QED BY <1>1, <2>2, <2>4, <2>8, <2>9
  <1> QED BY <1>2, <1>3 DEF Continue

\* No step touches the call of another thread.
LEMMA StepKeepsOthers ==
  ASSUME TypeOK, LockHeld, TeardownsStaged, NEW t \in Threads, Step(t), NEW u \in Threads, u # t
  PROVE  call'[u] = call[u] /\ (lock = u => lock' = u)
  <1>1. CASE CreateInstance(t)
    BY <1>1 DEF CreateInstance, Become, TypeOK, CallsTyped
  <1>2. CASE RejectedCall(t) \/ LeafCall(t) \/ CommandCall(t) \/ DeviceCall(t)
    BY <1>2, PlainSteps, NoThreadAssumption
  <1>3. CASE Start(t) /\ ~CreateInstance(t)
    <2>1. Moves(t)
      BY <1>3, StartMoves DEF TypeOK
    <2>2. lock # u
      BY <2>1, NoThreadAssumption DEF Moves
    <2> QED BY <2>1, <2>2 DEF Moves, Become, TypeOK, CallsTyped
  <1>4. CASE Reacquire(t)
    BY <1>4, ReacquireAdvances, NoThreadAssumption
  <1>5. CASE Continue(t)
    BY <1>5, ContinueAdvances
  <1> QED BY <1>1, <1>2, <1>3, <1>4, <1>5 DEF Step

LEMMA StepAdvances ==
  ASSUME TypeOK, LockHeld, TeardownsStaged, NEW t \in Threads, Step(t)
  PROVE  CallsAdvance
  <1> SUFFICES ASSUME NEW u \in Threads, call[u].at # "idle"
               PROVE  /\ call'[u] = call[u] \/ StepsLeft(call'[u]) < StepsLeft(call[u])
                      /\ Reacquire(u) \/ Continue(u) =>
                           StepsLeft(call'[u]) < StepsLeft(call[u])
                      /\ lock = u =>
                           IF call'[u].at = "idle" THEN lock' = NoThread ELSE lock' = u
    BY DEF CallsAdvance
  <1>1. Reacquire(u) \/ Continue(u) => StepsLeft(call'[u]) < StepsLeft(call[u])
    BY ReacquireAdvances, ContinueAdvances
  <1>2. CASE u = t
    <2>1. Reacquire(t) \/ Continue(t)
      BY <1>2, UnderWay
    <2>2. CASE Reacquire(t)
      BY <1>1, <1>2, <2>2, ReacquireAdvances, NoThreadAssumption
    <2>3. CASE Continue(t)
      BY <1>1, <1>2, <2>3, ContinueAdvances
    <2> QED BY <2>1, <2>2, <2>3
  <1>3. CASE u # t
    BY <1>1, <1>3, StepKeepsOthers
  <1> QED BY <1>2, <1>3

LEMMA StepNatives ==
  ASSUME TypeOK, NEW t \in Threads, Step(t),
         call'[t].at \in {"insert_instance", "insert_physical"}, call'[t].natives = {}
  PROVE  call'[t] = call[t]
  <1>1. ASSUME NEW c, Become(t, c),
               c.at \notin {"insert_instance", "insert_physical"} \/ c.natives # {}
        PROVE  FALSE
    BY <1>1 DEF Become, TypeOK, CallsTyped
  <1>2. CASE Return(t)
    BY <1>1, <1>2, IdleCall DEF Return
  <1>3. CASE CreateInstance(t)
    <2>1. PICK n : Become(t, [Idle EXCEPT !.at = "insert_instance", !.natives = {n}])
      BY <1>3 DEF CreateInstance
    <2> QED BY <1>1, <2>1 DEF Idle
  <1>4. CASE EnumeratePhysicalDevices(t)
    <2>1. PICK i : Become(t, [Idle EXCEPT !.at = "insert_physical", !.owner = i,
                                          !.natives = {Native("instance", i)}])
      BY <1>4 DEF EnumeratePhysicalDevices
    <2> QED BY <1>1, <2>1 DEF Idle
  <1>5. CASE ResolveFenceList(t, "wait_fences") \/ ResolveFenceList(t, "reset_fences")
    BY <1>1, <1>5 DEF ResolveFenceList, Idle
  <1>6. CASE DeviceWaitIdle(t) \/ QueueWaitIdle(t)
    BY <1>1, <1>6 DEF DeviceWaitIdle, QueueWaitIdle, Hold, Idle
  <1>7. CASE DestroyDevice(t) \/ DestroyInstance(t)
    BY <1>1, <1>7 DEF DestroyDevice, DestroyInstance, Hold, Idle
  <1>8. CASE WaitForFences(t)
    <2>1. PICK at \in Waits : Become(t, [Idle EXCEPT !.at = at])
      BY <1>8 DEF WaitForFences, Hold, Waits
    <2> QED BY <1>1, <2>1 DEF Idle, Waits
  <1>9. CASE DestroyStage(t)
    <2>1. PICK c : c = [call[t] EXCEPT !.stage = @ + 1]
      OBVIOUS
    <2>2. Become(t, c) /\ call[t].at \in Teardowns
      BY <1>9, <2>1 DEF DestroyStage
    <2>3. c.at = call[t].at
      BY <2>1 DEF TypeOK, CallsTyped, Call
    <2> QED BY <1>1, <2>2, <2>3 DEF Teardowns
  <1>10. CASE RejectedCall(t) \/ LeafCall(t) \/ CommandCall(t) \/ DeviceCall(t)
    BY <1>10, PlainSteps
  <1> QED BY <1>2, <1>3, <1>4, <1>5, <1>6, <1>7, <1>8, <1>9, <1>10
          DEF Step, Start, Reacquire, Continue, InsertInstance, InsertPhysicalDevices,
              ResetFences, FenceDeviceGone, WaitReturns, FinishTeardown

\* Only an enumeration spends handles of physical devices.
LEMMA StepIssues ==
  ASSUME TypeOK, NEW t \in Threads, Step(t), ~InsertPhysicalDevices(t)
  PROVE  next'["physical_device"] = next["physical_device"]
  <1>1. ASSUME NEW k \in Kinds \ {"physical_device"}, NEW n, Issue(k, n)
        PROVE  next'["physical_device"] = next["physical_device"]
    BY <1>1, KindFacts DEF Issue, TypeOK, TablesTyped
  <1>2. CASE LeafCall(t)
    <2>1. (\E k \in LeafKinds : Issue(k, 1)) \/ next' = next
      BY <1>2 DEF LeafCall, LeafKinds, CreateLeaf, DestroyLeaf, UseChild, BindMemory,
           CreateShaderModule, DestroyShaderModule, CreateSemaphore, DestroySemaphore,
           CreateFence, DestroyFence, GetFenceStatus, CreateBuffer, DestroyBuffer,
           GetBufferMemoryRequirements, BindBufferMemory, CreateImage, DestroyImage,
           GetImageMemoryRequirements, BindImageMemory, AllocateMemory, FreeMemory,
           CopyGuestToDeviceMemory, CopyDeviceMemoryToGuest
    <2> QED BY <1>1, <2>1, KindFacts
  <1>3. CASE CommandCall(t)
    <2>1. (\E k \in {"command_pool", "command_buffer"} : \E n : Issue(k, n)) \/ next' = next
      BY <1>3 DEF CommandCall, CreateCommandPool, DestroyCommandPool, ResetCommandPool,
           AllocateCommandBuffers, FreeCommandBuffers, BeginCommandBuffer, EndCommandBuffer,
           ResetCommandBuffer, UseChild, UseCommandBuffer
    <2> QED BY <1>1, <2>1, KindFacts
  <1>4. CASE CreateDevice(t) \/ GetDeviceQueue(t) \/ InsertInstance(t)
    <2>1. \E k \in {"device", "queue", "instance"} : Issue(k, 1)
      BY <1>4 DEF CreateDevice, GetDeviceQueue, InsertInstance
    <2> QED BY <1>1, <2>1, KindFacts
  <1>5. CASE FinishTeardown(t)
    BY <1>5 DEF FinishTeardown
  <1>6. CASE \/ RejectedCall(t) \/ QueryPhysicalDevice(t) \/ Start(t)
             \/ WaitForFences(t) \/ ResetFences(t) \/ FenceDeviceGone(t)
             \/ WaitReturns(t) \/ DestroyStage(t)
    BY <1>6, OtherCallTables
  <1> QED BY <1>2, <1>3, <1>4, <1>5, <1>6
          DEF Step, DeviceCall, Reacquire, Continue, EnumerateDeviceExtensionProperties,
              GetPhysicalDeviceProperties, GetPhysicalDeviceFeatures,
              GetPhysicalDeviceMemoryProperties, GetPhysicalDeviceQueueFamilyProperties

LEMMA StepUnblocked ==
  ASSUME TypeOK, LockHeld, TeardownsStaged, Unblocked, NEW t \in Threads, Step(t)
  PROVE  Unblocked'
  <1>1. ASSUME NEW u \in Threads, call'[u].at \in {"insert_instance", "insert_physical"}
        PROVE  call'[u].natives # {}
    <2>1. CASE u = t
      BY <1>1, <2>1, StepNatives DEF Unblocked
    <2>2. CASE u # t
      <3>1. call'[u] = call[u]
        BY <2>2, StepKeepsOthers
      <3> QED BY <1>1, <3>1 DEF Unblocked
    <2> QED BY <2>1, <2>2
  <1>2. Room("physical_device", 0)'
    <2>1. CASE InsertPhysicalDevices(t)
      <3>1. PICK count \in 0 .. Limit["physical_device"] :
              Room("physical_device", count) /\ Issue("physical_device", count)
        BY <2>1 DEF InsertPhysicalDevices
      <3>2. next'["physical_device"] = next["physical_device"] + count
        BY <3>1, KindFacts DEF Issue, TypeOK, TablesTyped
      <3>3. count \in Nat /\ next["physical_device"] \in Nat /\ Limit["physical_device"] \in Nat
        BY LimitAssumption, KindFacts DEF TypeOK, TablesTyped
      <3> QED BY <3>1, <3>2, <3>3 DEF Room
    <2>2. CASE ~InsertPhysicalDevices(t)
      BY <2>2, StepIssues DEF Unblocked, Room
    <2> QED BY <2>1, <2>2
  <1> QED BY <1>1, <1>2 DEF Unblocked

\* A call that is under way needs at most ten more steps of its own thread.
THEOREM CallsAreShort == Spec => []FewStepsLeft
  <1>1. DriverInv => FewStepsLeft
    BY StepsAreFew DEF DriverInv, Inv
  <1> QED BY <1>1, InitDriverInv, NextDriverInv, PTL DEF Spec

\* Nothing but a step of its own thread changes a call under way, each such step gets
\* it closer to its end, and a thread that keeps the mutex lets go of it exactly there:
\* no handler starts over, and none returns with the mutex.  Together with the theorem
\* above and the next this is LockReleased and CallsReturn without the fairness.
THEOREM CallsOnlyAdvance == Spec => [][CallsAdvance]_vars
  <1>1. DriverInv /\ [Next]_vars => [CallsAdvance]_vars
    BY StepAdvances DEF DriverInv, Inv, Next
  <1> QED BY <1>1, InitDriverInv, NextDriverInv, PTL DEF Spec

\* A call that needs the mutex to go on needs nothing else: what it is to register is
\* there, and there is room for it.
THEOREM OnlyTheMutexBlocks == Spec => []Unblocked
  <1>1. Init => Unblocked
    <2> SUFFICES ASSUME Init PROVE Unblocked
      OBVIOUS
    <2>1. \A t \in Threads : call[t].at = "idle"
      BY IdleCall DEF Init
    <2>2. next["physical_device"] = 1 /\ Limit["physical_device"] \in Nat
      BY LimitAssumption, KindFacts DEF Init
    <2> QED BY <2>1, <2>2 DEF Unblocked, Room
  <1>2. DriverInv /\ Unblocked /\ [Next]_vars => Unblocked'
    <2>1. ASSUME Unblocked, UNCHANGED vars PROVE Unblocked'
      BY <2>1 DEF Unblocked, Room, vars
    <2> QED BY <2>1, StepUnblocked DEF DriverInv, Inv, Next
  <1> QED BY <1>1, <1>2, InitDriverInv, NextDriverInv, PTL DEF Spec

-----------------------------------------------------------------------------
(* Guests that spare what a call of theirs still works with *)

Between == {"insert_physical", "wait_fences", "reset_fences"}

\* A step that destroys no object a call holds on to between two critical sections.
Spares ==
  \A u \in Threads :
    call[u].at \in Between /\ call[u].natives \subseteq DOMAIN live
      => call[u].natives \subseteq DOMAIN live'

\* What the call c has found under the lock still stands when it takes it again.
Found(c) ==
  /\ c.at = "insert_physical" =>
       Standing("instance", c.owner) /\ c.natives = {Native("instance", c.owner)}
  /\ c.at \in {"wait_fences", "reset_fences"} =>
       \A n \in c.natives : \E h :
         Standing("fence", h) /\ Native("fence", h) = n /\ table["fence"][h].parent = c.owner

FoundStands == \A u \in Threads : Found(call[u])

\* Therefore the lock finds it as it left it.
Carried ==
  \A t \in Threads :
    /\ call[t].at = "insert_physical" => call[t].owner \in Registered("instance")
    /\ call[t].at \in {"wait_fences", "reset_fences"} =>
         Owns(Native("device", call[t].owner), "fence", call[t].natives)

LEMMA FoundCarried ==
  ASSUME Backed, FoundStands
  PROVE  Carried
  <1>1. ASSUME NEW t \in Threads, call[t].at = "insert_physical"
        PROVE  call[t].owner \in Registered("instance")
    BY <1>1 DEF FoundStands, Found, Standing
  <1>2. ASSUME NEW t \in Threads, call[t].at \in {"wait_fences", "reset_fences"},
               NEW n \in call[t].natives
        PROVE  n \in DOMAIN live
               /\ live[n] = [kind |-> "fence", parent |-> Native("device", call[t].owner)]
    <2>1. PICK h : /\ Standing("fence", h) /\ Native("fence", h) = n
                   /\ table["fence"][h].parent = call[t].owner
      BY <1>2 DEF FoundStands, Found
    <2>2. ParentNative("fence", h) = Native("device", call[t].owner)
      BY <2>1 DEF ParentNative
    <2> QED BY <2>1, <2>2 DEF Backed
  <1> QED BY <1>1, <1>2 DEF Carried, Owns

\* What was found stays with its record as long as the driver has it.
LEMMA FoundOn ==
  ASSUME Backed, TablesTyped, KeepsHandles, StandOn, NEW c, Found(c), c.at \in Between,
         c.natives \subseteq DOMAIN live => c.natives \subseteq DOMAIN live'
  PROVE  Found(c)'
  <1>1. ASSUME NEW k, NEW h, Standing(k, h), Native(k, h) \in DOMAIN live'
        PROVE  Standing(k, h)' /\ table'[k][h] = table[k][h] /\ Native(k, h)' = Native(k, h)
    <2>1. Standing(k, h)'
      BY <1>1 DEF StandOn
    <2>2. h \in DOMAIN table[k] /\ h \in DOMAIN table'[k] /\ k \in Kinds
      BY <1>1, <2>1 DEF Standing, Registered, OwningKinds
    <2>3. h < next[k]
      BY <2>2 DEF TablesTyped, Registered
    <2>4. table'[k][h] = table[k][h]
      BY <2>2, <2>3 DEF KeepsHandles
    <2> QED BY <2>1, <2>4 DEF Native
  <1>2. CASE c.at = "insert_physical"
    <2>1. Standing("instance", c.owner) /\ c.natives = {Native("instance", c.owner)}
      BY <1>2 DEF Found
    <2>2. Native("instance", c.owner) \in DOMAIN live
      BY <2>1 DEF Backed
    <2>3. Native("instance", c.owner) \in DOMAIN live'
      BY <2>1, <2>2
    <2>4. /\ Standing("instance", c.owner)'
          /\ Native("instance", c.owner)' = Native("instance", c.owner)
      BY <1>1, <2>1, <2>3
    <2> QED BY <1>2, <2>1, <2>4 DEF Found
  <1>3. CASE c.at \in {"wait_fences", "reset_fences"}
    <2>1. \A n \in c.natives : \E h :
            Standing("fence", h) /\ Native("fence", h) = n /\ table["fence"][h].parent = c.owner
      BY <1>3 DEF Found
    <2>2. \A n \in c.natives : n \in DOMAIN live'
      <3>1. ASSUME NEW n \in c.natives PROVE n \in DOMAIN live
        <4>1. PICK h : Standing("fence", h) /\ Native("fence", h) = n
          BY <2>1
        <4> QED BY <4>1, StandingLive
      <3> QED BY <3>1
    <2>3. ASSUME NEW n \in c.natives
          PROVE  \E h : /\ Standing("fence", h)' /\ Native("fence", h)' = n
                        /\ table'["fence"][h].parent = c.owner
      <3>1. PICK h : /\ Standing("fence", h) /\ Native("fence", h) = n
                     /\ table["fence"][h].parent = c.owner
        BY <2>1
      <3>2. Native("fence", h) \in DOMAIN live'
        BY <2>2, <3>1
      <3>3. /\ Standing("fence", h)' /\ Native("fence", h)' = Native("fence", h)
            /\ table'["fence"][h] = table["fence"][h]
        BY <1>1, <3>1, <3>2
      <3> QED BY <3>1, <3>3
    <2> QED BY <1>3, <2>3 DEF Found
  <1> QED BY <1>2, <1>3 DEF Between

\* Only the beginning of a call leaves it between two critical sections.
LEMMA StepBetween ==
  ASSUME TypeOK, NEW t \in Threads, Step(t), call'[t].at \in Between
  PROVE  \/ EnumeratePhysicalDevices(t)
         \/ ResolveFenceList(t, "wait_fences") \/ ResolveFenceList(t, "reset_fences")
         \/ RejectedCall(t) \/ LeafCall(t) \/ CommandCall(t) \/ DeviceCall(t)
  <1>1. ASSUME NEW c, Become(t, c), c.at \notin Between PROVE FALSE
    BY <1>1 DEF Become, TypeOK, CallsTyped
  <1>2. CASE Return(t)
    BY <1>1, <1>2, IdleCall DEF Return, Between
  <1>3. CASE CreateInstance(t)
    BY <1>1, <1>3 DEF CreateInstance, Idle, Between
  <1>4. CASE DeviceWaitIdle(t) \/ QueueWaitIdle(t)
    BY <1>1, <1>4 DEF DeviceWaitIdle, QueueWaitIdle, Hold, Idle, Between
  <1>5. CASE DestroyDevice(t) \/ DestroyInstance(t)
    BY <1>1, <1>5 DEF DestroyDevice, DestroyInstance, Hold, Idle, Between
  <1>6. CASE WaitForFences(t)
    <2>1. PICK at \in Waits : Become(t, [Idle EXCEPT !.at = at])
      BY <1>6 DEF WaitForFences, Hold, Waits
    <2>2. [Idle EXCEPT !.at = at].at = at /\ at \notin Between
      BY DEF Idle, Waits, Between
    <2> QED BY <1>1, <2>1, <2>2
  <1>7. CASE DestroyStage(t)
    <2>1. PICK c : c = [call[t] EXCEPT !.stage = @ + 1]
      OBVIOUS
    <2>2. Become(t, c) /\ call[t].at \in Teardowns
      BY <1>7, <2>1 DEF DestroyStage
    <2>3. c.at = call[t].at
      BY <2>1 DEF TypeOK, CallsTyped, Call
    <2> QED BY <1>1, <2>2, <2>3 DEF Teardowns, Between
  <1> QED BY <1>2, <1>3, <1>4, <1>5, <1>6, <1>7
          DEF Step, Start, Reacquire, Continue, InsertInstance, InsertPhysicalDevices,
              ResetFences, FenceDeviceGone, WaitReturns, FinishTeardown

\* It is found under the lock.
LEMMA FoundFirst ==
  ASSUME DriverInv, KeepsHandles, StandOn, NEW t \in Threads,
         \/ EnumeratePhysicalDevices(t)
         \/ ResolveFenceList(t, "wait_fences") \/ ResolveFenceList(t, "reset_fences")
  PROVE  \E c : call'[t] = c /\ Found(c)'
  <1>0. live' = live /\ table' = table /\ lock = NoThread /\ TypeOK /\ Inv /\ Backed
    BY DEF EnumeratePhysicalDevices, ResolveFenceList, Enter, DriverInv, Inv
  <1>1. ASSUME NEW k \in OwningKinds, NEW h \in Registered(k)
        PROVE  Standing(k, h)' /\ Native(k, h)' = Native(k, h)
    <2>1. Standing(k, h)
      BY <1>0, FreeUntorn, UntornStanding DEF Inv
    <2>2. Native(k, h) \in DOMAIN live'
      BY <1>0, <2>1 DEF Backed
    <2> QED BY <1>0, <2>1, <2>2 DEF StandOn, Native
  <1>2. CASE EnumeratePhysicalDevices(t)
    <2>1. PICK i \in Registered("instance") :
            Become(t, [Idle EXCEPT !.at = "insert_physical", !.owner = i,
                                   !.natives = {Native("instance", i)}])
      BY <1>2 DEF EnumeratePhysicalDevices
    <2>2. PICK c : c = [Idle EXCEPT !.at = "insert_physical", !.owner = i,
                                    !.natives = {Native("instance", i)}]
      OBVIOUS
    <2>3. call'[t] = c
      BY <1>0, <2>1, <2>2 DEF Become, TypeOK, CallsTyped
    <2>4. c.at = "insert_physical" /\ c.owner = i /\ c.natives = {Native("instance", i)}
      BY <2>2 DEF Idle
    <2>5. Standing("instance", i)' /\ Native("instance", i)' = Native("instance", i)
      BY <1>1, OwningFacts
    <2>6. Found(c)'
      BY <2>4, <2>5 DEF Found
    <2> QED BY <2>3, <2>6
  <1>3. ASSUME NEW at \in {"wait_fences", "reset_fences"}, ResolveFenceList(t, at)
        PROVE  \E c : call'[t] = c /\ Found(c)'
    <2>1. PICK d, fences :
            /\ d \in Registered("device") /\ fences \in SUBSET Children("fence", {d})
            /\ Become(t, [Idle EXCEPT !.at = at, !.owner = d,
                                      !.natives = NativesOf("fence", fences)])
      BY <1>3 DEF ResolveFenceList
    <2>2. PICK c : c = [Idle EXCEPT !.at = at, !.owner = d,
                                    !.natives = NativesOf("fence", fences)]
      OBVIOUS
    <2>3. call'[t] = c
      BY <1>0, <2>1, <2>2 DEF Become, TypeOK, CallsTyped
    <2>4. c.at = at /\ c.owner = d /\ c.natives = NativesOf("fence", fences)
      BY <2>2 DEF Idle
    <2>5. ASSUME NEW h \in fences
          PROVE  /\ Standing("fence", h)' /\ Native("fence", h)' = Native("fence", h)
                 /\ table'["fence"][h].parent = d
      <3>1. h \in Registered("fence") /\ table["fence"][h].parent = d
        BY <2>1 DEF Children
      <3> QED BY <1>0, <1>1, <3>1, OwningFacts DEF LeafKinds
    <2>6. \A n \in c.natives : \E h : /\ Standing("fence", h)' /\ Native("fence", h)' = n
                                       /\ table'["fence"][h].parent = d
      BY <2>4, <2>5 DEF NativesOf
    <2>7. Found(c)'
      BY <2>4, <2>6 DEF Found
    <2> QED BY <2>3, <2>7
  <1> QED BY <1>2, <1>3

\* With such a guest it stands on.
LEMMA StepFound ==
  ASSUME DriverInv, FoundStands, Spares, NEW t \in Threads, Step(t)
  PROVE  FoundStands'
  <1>1. Inv /\ TypeOK /\ TablesTyped /\ Backed /\ LockHeld /\ TeardownsStaged
    BY DEF DriverInv, Inv, TypeOK
  <1>2. KeepsHandles /\ StandOn
    BY <1>1, StepTables, StepDriven DEF DriverInv, Inv
  <1> SUFFICES ASSUME NEW u \in Threads PROVE Found(call[u])'
    BY DEF FoundStands
  <1>3. ASSUME NEW c, call'[u] = c, Found(c)' PROVE Found(call[u])'
    BY <1>3 DEF Found
  <1>4. CASE call'[u] = call[u] /\ call[u].at \in Between
    <2>1. PICK c : c = call[u]
      OBVIOUS
    <2>2. Found(c)
      BY <2>1 DEF FoundStands
    <2>3. c.natives \subseteq DOMAIN live => c.natives \subseteq DOMAIN live'
      BY <1>4, <2>1 DEF Spares
    <2>4. Found(c)'
      BY <1>1, <1>2, <1>4, <2>1, <2>2, <2>3, FoundOn
    <2> QED BY <1>3, <1>4, <2>1, <2>4
  <1>5. CASE call'[u].at \notin Between
    BY <1>5 DEF Found, Between
  <1>6. CASE call'[u].at \in Between /\ call'[u] # call[u]
    <2>1. u = t
      BY <1>1, <1>6, StepKeepsOthers
    <2>2. ~(RejectedCall(t) \/ LeafCall(t) \/ CommandCall(t) \/ DeviceCall(t))
      BY <1>6, <2>1, PlainSteps
    <2>3. \/ EnumeratePhysicalDevices(t)
          \/ ResolveFenceList(t, "wait_fences") \/ ResolveFenceList(t, "reset_fences")
      BY <1>1, <1>6, <2>1, <2>2, StepBetween
    <2>4. PICK c : call'[t] = c /\ Found(c)'
      BY <1>2, <2>3, FoundFirst
    <2> QED BY <1>3, <2>1, <2>4
  <1> QED BY <1>4, <1>5, <1>6

\* An instance takes its physical devices along.
LEMMA StepNoOrphans ==
  ASSUME DriverInv, NoOrphans, Carried, NEW t \in Threads, Step(t)
  PROVE  NoOrphans'
  <1>1. TypeOK /\ TablesClosed /\ TeardownCurrent /\ OwnersIssued
    BY DEF DriverInv, Inv
  <1>2. CASE InsertPhysicalDevices(t)
    <2>1. PICK count, n, f :
            /\ count \in Nat
            /\ f = [h \in Fresh("physical_device", count) |->
                      [native |-> n, parent |-> call[t].owner, pool |-> NoHandle]]
            /\ Insert("physical_device", f)
      BY <1>2, LimitAssumption DEF InsertPhysicalDevices
    <2>2. call[t].owner \in Registered("instance")
      BY <1>2 DEF InsertPhysicalDevices, Resume, Carried
    <2>3. /\ Registered("instance")' = Registered("instance")
          /\ table'["physical_device"] = Override(f, table["physical_device"])
      BY <1>1, <2>1, KindFacts DEF Insert, Registered, TypeOK, TablesTyped
    <2>4. \A g \in Registered("physical_device")' :
            table'["physical_device"][g].parent \in Registered("instance")
      BY <2>1, <2>2, <2>3 DEF Override, NoOrphans, Registered
    <2> QED BY <2>3, <2>4 DEF NoOrphans
  <1>3. CASE ~InsertPhysicalDevices(t)
    <2> SUFFICES ASSUME NEW g \in Registered("physical_device")'
                 PROVE  table'["physical_device"][g].parent \in Registered("instance")'
      BY DEF NoOrphans
    <2>1. g \in Registered("physical_device")
      BY <1>1, <1>3, StepViewTables DEF Registered
    <2>2. table'["physical_device"][g] = table["physical_device"][g]
      <3>1. KeepsHandles
        BY <1>1, StepTables
      <3>2. g < next["physical_device"]
        BY <1>1, <2>1, KindFacts DEF TypeOK, TablesTyped
      <3> QED BY <2>1, <3>1, <3>2, KindFacts DEF KeepsHandles, Registered
    <2>3. PICK i : i = table["physical_device"][g].parent
      OBVIOUS
    <2>4. i \in Registered("instance")
      BY <2>1, <2>3 DEF NoOrphans
    <2>5. /\ <<"physical_device", g>> \in Existing \cap Existing'
          /\ <<"instance", i>> \in Existing
          /\ Parents[<<"physical_device", g>>] = <<"instance", i>>
      BY <2>1, <2>3, <2>4, KindFacts, Objects, ObjectsAfter DEF ParentObject
    <2>6. DOMAIN Parents = Existing /\ DOMAIN Parents' = Existing'
      BY DEF Parents
    <2>7. [Lifetimes!Next]_<<Parents, Spent>>
      BY <1>1, StepForest
    <2>8. <<"instance", i>> \in Existing'
      <3>1. CASE UNCHANGED Parents
        BY <2>5, <2>6, <3>1
      <3>2. CASE Lifetimes!Add
        <4>1. Parents' = [o \in Existing \cup (Existing' \ Existing) |-> Parents'[o]]
          BY <2>6, <3>2 DEF Lifetimes!Add, Lifetimes!Existing, Parents
        <4> QED BY <2>5, <2>6, <4>1
      <3>3. CASE Lifetimes!Remove
        <4>1. \A o \in Existing : Parents[o] \in Existing \ Existing' => o \in Existing \ Existing'
          BY <2>6, <3>3 DEF Lifetimes!Remove, Lifetimes!Existing, Parents
        <4> QED BY <2>5, <4>1
      <3> QED BY <2>7, <3>1, <3>2, <3>3 DEF Lifetimes!Next
    <2> QED BY <2>2, <2>3, <2>8, ObjectsAfter
  <1> QED BY <1>2, <1>3

\* A physical device leads to a live instance, as long as it has one.
LEMMA FreePhysical ==
  ASSUME DriverInv, NoOrphans, lock = NoThread, NEW g \in Registered("physical_device")
  PROVE  IsLive("instance", Native("physical_device", g))
  <1>1. PICK i : i = table["physical_device"][g].parent
    OBVIOUS
  <1>2. i \in Registered("instance") /\ Native("physical_device", g) = Native("instance", i)
    BY <1>1 DEF NoOrphans, DriverInv, Views
  <1> QED BY <1>2, FreeLive, OwningFacts DEF DriverInv

\* When an instance goes no device is left below it.
LEMMA InstanceChildless ==
  ASSUME DriverInv, NoOrphans, NEW t \in Threads, call[t].at = "destroy_instance",
         "device" \in Done(call[t]), "instance" \notin Done(call[t])
  PROVE  /\ Standing("instance", call[t].owner)
         /\ Childless("instance", {Native("instance", call[t].owner)})
  <1>1. PICK c : c = call[t]
    OBVIOUS
  <1>2. Inv /\ TeardownsStaged /\ Backed /\ Arriving /\ Views
    BY DEF DriverInv
  <1>3. Staged(c)
    BY <1>1, <1>2 DEF TeardownsStaged, Teardowns
  <1>4. \A j, h : Torn(j, h) <=> j \in Gone(c) /\ h \in Condemned(c, j)
    BY <1>1, <1>2, <1>3, TornBy DEF Inv
  <1>5. "device" \in Gone(c) /\ "instance" \notin Gone(c)
    BY <1>1 DEF Gone, Buffers
  <1>6. Condemned(c, "device") = DevicesOf(c.owner)
    BY <1>1, <1>2, KindFacts DEF Condemned, Inv, TeardownCurrent
  <1>7. Standing("instance", c.owner)
    BY <1>1, <1>2, <1>4, <1>5, OwningFacts DEF Standing, TeardownsStaged, Teardowns
  <1>8. ASSUME NEW n \in DOMAIN live, live[n].kind = "device",
               live[n].parent = Native("instance", c.owner)
        PROVE  FALSE
    <2>1. ~\E u \in Threads : Arrives(u, n)
      BY <1>2, <1>8 DEF Arriving
    <2>2. PICK k, d : Standing(k, d) /\ Native(k, d) = n
      BY <1>2, <2>1 DEF Backed
    <2>3. k = "device" /\ ParentNative(k, d) = live[n].parent
      BY <1>2, <1>8, <2>2, StandingLive
    <2>4. PICK g : g = table["device"][d].parent
      OBVIOUS
    <2>5. PICK i : i = table["physical_device"][g].parent
      OBVIOUS
    <2>6. /\ g \in Registered("physical_device")
          /\ i \in Registered("instance") => Standing("instance", i)
      BY <2>2, <2>3, <2>4, <2>5, ParentsStand, OwningFacts
    <2>7. Standing("instance", i)
      BY <2>5, <2>6 DEF NoOrphans
    <2>8. ParentNative(k, d) = Native("instance", i)
      BY <1>2, <2>3, <2>4, <2>5, <2>6, <2>7 DEF ParentNative, Views, Standing
    <2>9. i = c.owner
      BY <1>2, <1>7, <1>8, <2>3, <2>7, <2>8 DEF Backed
    <2>10. d \in DevicesOf(c.owner)
      BY <2>2, <2>3, <2>4, <2>5, <2>6, <2>9 DEF DevicesOf, Children, Standing
    <2> QED BY <1>4, <1>5, <1>6, <2>2, <2>3, <2>10 DEF Standing
  <1> QED BY <1>1, <1>7, <1>8 DEF Childless

\* Which steps may report more than calls under one lock.
LEMMA StepReports ==
  ASSUME NEW t \in Threads, Step(t)
  PROVE  \/ CreateDevice(t) \/ QueryPhysicalDevice(t)
         \/ WaitForFences(t) \/ ResetFences(t) \/ DestroyStage(t)
         \/ misuse' \subseteq misuse \cup {"direct", "free_list"}
  <1>1. CASE LeafCall(t)
    BY <1>1 DEF LeafCall, UseChild, BindMemory, CreateLeaf, DestroyLeaf, Report,
         CreateShaderModule, DestroyShaderModule, CreateSemaphore, DestroySemaphore,
         CreateFence, DestroyFence, GetFenceStatus, CreateBuffer, DestroyBuffer,
         GetBufferMemoryRequirements, BindBufferMemory, CreateImage, DestroyImage,
         GetImageMemoryRequirements, BindImageMemory, AllocateMemory, FreeMemory,
         CopyGuestToDeviceMemory, CopyDeviceMemoryToGuest
  <1>2. CASE CommandCall(t)
    BY <1>2 DEF CommandCall, CreateCommandPool, DestroyCommandPool, ResetCommandPool,
         AllocateCommandBuffers, FreeCommandBuffers, BeginCommandBuffer,
         EndCommandBuffer, ResetCommandBuffer, UseChild, UseCommandBuffer, Report
  <1>3. CASE RejectedCall(t) \/ DeviceCall(t)
    BY <1>3 DEF RejectedCall, vars, DeviceCall, GetDeviceQueue, Report,
         EnumerateDeviceExtensionProperties, GetPhysicalDeviceProperties,
         GetPhysicalDeviceFeatures, GetPhysicalDeviceMemoryProperties,
         GetPhysicalDeviceQueueFamilyProperties
  <1>4. CASE Start(t)
    BY <1>4 DEF Start, CreateInstance, EnumeratePhysicalDevices, ResolveFenceList,
         DeviceWaitIdle, QueueWaitIdle, DestroyDevice, DestroyInstance, Report
  <1>5. CASE Reacquire(t) \/ Continue(t)
    BY <1>5 DEF Reacquire, Continue, InsertInstance, InsertPhysicalDevices,
         FenceDeviceGone, WaitReturns, FinishTeardown
  <1> QED BY <1>1, <1>2, <1>3, <1>4, <1>5 DEF Step

LEMMA StepSequential ==
  ASSUME DriverInv, NoOrphans, Carried, SequentialCallsAreSafe, NEW t \in Threads, Step(t)
  PROVE  SequentialCallsAreSafe'
  <1>1. "direct" \notin misuse'
    BY StepSafe DEF DriverInv, Safe, SequentialCallsAreSafe
  <1>2. ASSUME NEW way, Report(way, TRUE) PROVE SequentialCallsAreSafe'
    BY <1>2 DEF Report, SequentialCallsAreSafe
  <1>3. CASE CreateDevice(t) \/ QueryPhysicalDevice(t)
    <2>1. /\ lock = NoThread
          /\ \E g \in Registered("physical_device") :
               Report("physical_device", IsLive("instance", Native("physical_device", g)))
      BY <1>3 DEF CreateDevice, QueryPhysicalDevice, Enter
    <2> QED BY <1>2, <2>1, FreePhysical
  <1>4. CASE WaitForFences(t) \/ ResetFences(t)
    <2>1. /\ call[t].at \in {"wait_fences", "reset_fences"}
          /\ Report("fence_list", Owns(Native("device", call[t].owner), "fence", call[t].natives))
      BY <1>4 DEF WaitForFences, ResetFences, UseFences, Resume
    <2> QED BY <1>2, <2>1 DEF Carried
  <1>5. CASE DestroyStage(t)
    <2>1. PICK c : c = call[t]
      OBVIOUS
    <2>2. PICK k : k = TeardownOrder(c)[c.stage]
      OBVIOUS
    <2>3. Staged(c) /\ c \in Call /\ c.stage =< Len(TeardownOrder(c))
      BY <1>5, <2>1 DEF DestroyStage, DriverInv, Inv, TypeOK, CallsTyped, TeardownsStaged
    <2>4. CASE k # "instance"
      <3>1. \E ok : Report("direct", ok)
        BY <1>5, <2>1, <2>2, <2>4 DEF DestroyStage
      <3> QED BY <1>1, <3>1 DEF Report, SequentialCallsAreSafe
    <2>5. CASE k = "instance"
      <3>1. PICK d : d = [c EXCEPT !.stage = @ + 1]
        OBVIOUS
      <3>2. d.at = c.at /\ d.stage = c.stage + 1
        BY <2>3, <3>1 DEF Call
      <3>3. k \in Final(c) /\ k \notin Done(c) /\ "device" \in Done(c)
        BY <2>2, <2>3, <2>5, <3>2, NextStage
      <3>4. c.at = "destroy_instance"
        BY <2>5, <3>3 DEF Final, LeafKinds
      <3>5. Condemned(c, k) = {c.owner}
        BY <2>5, <3>4, KindFacts DEF Condemned
      <3>6. NativesOf(k, {c.owner}) = {Native("instance", c.owner)}
        BY <2>5 DEF NativesOf
      <3>7. Report("physical_device",
                   /\ \A n \in {Native("instance", c.owner)} : IsLive("instance", n)
                   /\ Childless("instance", {Native("instance", c.owner)}))
        BY <1>5, <2>1, <2>2, <2>5, <3>5, <3>6 DEF DestroyStage
      <3>8. /\ Standing("instance", c.owner)
            /\ Childless("instance", {Native("instance", c.owner)})
        BY <2>1, <2>5, <3>3, <3>4, InstanceChildless
      <3>9. IsLive("instance", Native("instance", c.owner))
        BY <3>8, StandingLive DEF DriverInv, IsLive
      <3> QED BY <1>2, <3>7, <3>8, <3>9
    <2> QED BY <2>4, <2>5
  <1>6. CASE misuse' \subseteq misuse \cup {"direct", "free_list"}
    BY <1>1, <1>6 DEF SequentialCallsAreSafe
  <1> QED BY <1>3, <1>4, <1>5, <1>6, StepReports

\* No physical device outlives its instance then, and no fence goes between the two
\* halves of a wait.
Spared == NoOrphans /\ SequentialCallsAreSafe /\ FoundStands

LEMMA InitSpared == Init => Spared
  <1> SUFFICES ASSUME Init PROVE Spared
    OBVIOUS
  <1>1. \A t \in Threads : call[t].at = "idle"
    BY IdleCall DEF Init
  <1>2. Registered("physical_device") = {}
    BY KindFacts DEF Init, Registered
  <1> QED BY <1>1, <1>2 DEF Init, Spared, NoOrphans, SequentialCallsAreSafe, FoundStands, Found

LEMMA NextSpared == DriverInv /\ Spared /\ [Next]_vars /\ Spares => Spared'
  <1> SUFFICES ASSUME DriverInv, Spared, [Next]_vars, Spares PROVE Spared'
    OBVIOUS
  <1>1. NoOrphans /\ SequentialCallsAreSafe /\ FoundStands
    BY DEF Spared
  <1>2. CASE Next
    <2>1. PICK t \in Threads : Step(t)
      BY <1>2 DEF Next
    <2>2. Carried
      BY <1>1, FoundCarried DEF DriverInv
    <2>3. NoOrphans' /\ SequentialCallsAreSafe' /\ FoundStands'
      BY <1>1, <2>1, <2>2, StepNoOrphans, StepSequential, StepFound
    <2> QED BY <2>3 DEF Spared
  <1>3. CASE UNCHANGED vars
    <2>1. table' = table /\ live' = live /\ call' = call /\ misuse' = misuse
      BY <1>3 DEF vars
    <2>2. \A c, k : Condemned(c, k)' = Condemned(c, k)
      BY <2>1 DEF Condemned, Children, Registered
    <2>3. \A k, h : Torn(k, h)' <=> Torn(k, h)
      BY <2>1, <2>2 DEF Torn
    <2>4. \A k, h : (Standing(k, h)' <=> Standing(k, h)) /\ Native(k, h)' = Native(k, h)
      BY <2>1, <2>3 DEF Standing, Registered, Native
    <2>5. FoundStands'
      BY <1>1, <2>1, <2>4 DEF FoundStands, Found
    <2> QED BY <1>1, <2>1, <2>5 DEF Spared, NoOrphans, SequentialCallsAreSafe, Registered
  <1> QED BY <1>2, <1>3

\* A guest with any number of threads gets along if none of them destroys an object that
\* another's EnumeratePhysicalDevices, WaitForFences or ResetFences has in hand between
\* two critical sections: no physical device outlives its instance, and the driver never
\* gets a dead object but through a handle repeated in a list it frees.
THEOREM SparingGuestsGetLiveObjects ==
  Spec /\ [][Spares]_vars => [](NoOrphans /\ SequentialCallsAreSafe)
  <1>1. DriverInv /\ Spared /\ [Next]_vars /\ [Spares]_vars => Spared'
    <2> SUFFICES ASSUME UNCHANGED vars PROVE Spares
      BY NextSpared
    <2> QED BY DEF vars, Spares
  <1>2. Spared => NoOrphans /\ SequentialCallsAreSafe
    BY DEF Spared
  <1> QED BY <1>1, <1>2, InitSpared, InitDriverInv, NextDriverInv, PTL DEF Spec

OneThread == \E t : Threads = {t}

\* A single thread has nobody to spare: between the critical sections it does not destroy.
LEMMA OneThreadSpares == OneThread /\ [Next]_vars => Spares
  <1> SUFFICES ASSUME OneThread, [Next]_vars, NEW u \in Threads, call[u].at \in Between,
                      call[u].natives \subseteq DOMAIN live
               PROVE  call[u].natives \subseteq DOMAIN live'
    BY DEF Spares
  <1>1. live' = live
    <2>1. CASE Next
      <3>1. Step(u)
        BY <2>1 DEF Next, OneThread
      <3>2. Reacquire(u) /\ ~InsertInstance(u)
        <4>1. call[u].at # "idle" /\ call[u].at \notin Teardowns
          BY DEF Between, Teardowns
        <4> QED BY <3>1, <4>1, PlainStepsEnter
              DEF Step, Start, Continue, CreateInstance, EnumeratePhysicalDevices,
                  ResolveFenceList, DeviceWaitIdle, QueueWaitIdle, DestroyDevice,
                  DestroyInstance, Enter, WaitReturns, DestroyStage, FinishTeardown,
                  Reacquire, InsertInstance, Resume, Between
      <3> QED BY <3>2 DEF Reacquire, InsertPhysicalDevices, WaitForFences, ResetFences,
                          FenceDeviceGone
    <2> QED BY <2>1 DEF vars
  <1> QED BY <1>1

\* A single guest thread never has the driver work on an object it does not have, but
\* by repeating a handle in a list it frees.
THEOREM OneThreadGetsLiveObjects == Spec => [](OneThread => SequentialCallsAreSafe)
  <1>1. Init => (OneThread => Spared)
    BY InitSpared
  <1>2. DriverInv /\ (OneThread => Spared) /\ [Next]_vars => (OneThread => Spared)'
    BY OneThreadSpares, NextSpared DEF OneThread
  <1>3. (OneThread => Spared) => (OneThread => SequentialCallsAreSafe)
    BY DEF Spared
  <1> QED BY <1>1, <1>2, <1>3, InitDriverInv, NextDriverInv, PTL DEF Spec

=============================================================================
