------------------------- MODULE WasiFileSystemProofs -------------------------
(***************************************************************************)
(* Proofs about WasiFileSystem for any number of threads and whatever      *)
(* tables the host has.                                                    *)
(***************************************************************************)
EXTENDS WasiFileSystem, TLAPS

\* The functions that are called.
Called == {"fd_close", "fd_read", "fd_pread", "fd_seek", "fd_write", "fd_prestat_get",
           "fd_prestat_dir_name", "path_open", "path_filestat_get"}

Looking == {"in_size", "present", "supported"}

\* What a call has learned of the table it looked at first, as long as it has seen
\* no other.
Knows(c) ==
  /\ c.at # "idle" => c.function \in Called
  /\ c.at # "done" => c.fault = "none" /\ c.answer = "none"
  /\ c.at \in {"idle", "resolved", "available"} => c.same
  /\ c.at \in Looking => Available(c.first)
  /\ c.at \in {"present", "supported"} /\ c.same => HasField(c.first, c.function)
  /\ c.at = "supported" /\ c.same => c.function \in Contents[c.first].has
  /\ c.fault # "none" => ~c.same
  /\ c.at = "done" /\ c.same /\ c.fault = "none" =>
       (c.answer = "forwarded" <=> Provides(c.first, c.function))

\* While the host leaves its table alone every call that is under way has resolved,
\* stored and seen the table that governs now.
Undisturbed(c) ==
  /\ c.at # "idle" => ~storing
  /\ c.at = "resolved" => c.table = ResolveWasiHostApi
  /\ c.at \in Looking \cup {"available"} => host_api = ResolveWasiHostApi
  /\ c.at \in Looking \cup {"done"} => c.first = ResolveWasiHostApi
  /\ c.same

Inv ==
  /\ TypeOK
  /\ \A t \in Threads : Knows(call[t])
  /\ settled => \A t \in Threads : Undisturbed(call[t])

-----------------------------------------------------------------------------
(* Fields of a table *)

LEMMA PlaceOf ==
  ASSUME NEW i \in 1 .. Len(Functions)
  PROVE  (CHOOSE j \in 1 .. Len(Functions) : Functions[j] = Functions[i]) = i
  BY DEF Functions

LEMMA EndOf ==
  ASSUME NEW i \in 1 .. Len(Functions)
  PROVE  End(Functions[i]) = Header + Pointer * i
  BY PlaceOf DEF End

\* Every function that is called comes after args_sizes_get: a table that has
\* the one has room for the other.
LEMMA CalledEnds ==
  ASSUME NEW f \in Called
  PROVE  f \in Names /\ End(f) \in Nat /\ End("args_sizes_get") =< End(f)
  <1>1. /\ Len(Functions) = 32
        /\ Functions[2] = "args_sizes_get" /\ Functions[9] = "fd_close"
        /\ Functions[21] = "fd_read" /\ Functions[17] = "fd_pread"
        /\ Functions[24] = "fd_seek" /\ Functions[27] = "fd_write"
        /\ Functions[19] = "fd_prestat_get" /\ Functions[18] = "fd_prestat_dir_name"
        /\ Functions[32] = "path_open" /\ Functions[29] = "path_filestat_get"
    BY DEF Functions
  <1>2. PICK i \in 2 .. 32 : Functions[i] = f
    <2>1. \E i \in {9, 21, 17, 24, 27, 19, 18, 32, 29} : Functions[i] = f
      BY <1>1 DEF Called
    <2> QED BY <2>1
  <1>3. End(f) = Header + Pointer * i
    BY <1>1, <1>2, EndOf
  <1>4. End("args_sizes_get") = Header + Pointer * 2
    BY <1>1, EndOf
  <1> QED BY <1>1, <1>2, <1>3, <1>4 DEF Names, Header, Pointer

\* What a table provides passes every check.
LEMMA ProvidesMeansChecked ==
  ASSUME NEW a \in TableOrNull, NEW f \in Called
  PROVE  Provides(a, f) <=> Available(a) /\ HasField(a, f) /\ f \in Contents[a].has
  <1>1. a # NoTable => Contents[a].size \in Nat /\ Contents[a].version \in Nat
    BY ContentsAssumption, NoTableAssumption DEF TableOrNull
  <1>2. End("args_sizes_get") \in Nat
    BY EndOf DEF Functions, Header, Pointer
  <1>3. CASE a = NoTable
    BY <1>3 DEF Provides, Available
  <1>4. CASE a # NoTable
    BY <1>1, <1>2, <1>4, CalledEnds DEF Provides, Available, HasField, Version
  <1> QED BY <1>3, <1>4

-----------------------------------------------------------------------------
(* Steps *)

LEMMA IdleCall ==
  Idle \in Call /\ Knows(Idle) /\ Idle.at = "idle" /\ Idle.same /\ Idle.answer = "none"
  BY DEF Idle, Call, Knows, Names, Functions, TableOrNull, Looking

LEMMA Moved ==
  ASSUME TypeOK, NEW t \in Threads, NEW c \in Call, Become(t, c)
  PROVE  /\ call' \in [Threads -> Call]
         /\ call'[t] = c
         /\ \A u \in Threads \ {t} : call'[u] = call[u]
  BY DEF TypeOK, Become

\* What a read of host_api_ leaves of a call.
LEMMA ReadMoves ==
  ASSUME TypeOK, NEW t \in Threads, NEW c \in Call, Read(t, c),
         c.first = call[t].first, c.same = call[t].same
  PROVE  /\ call' \in [Threads -> Call]
         /\ \A u \in Threads \ {t} : call'[u] = call[u]
         /\ call'[t].at = c.at /\ call'[t].function = c.function
         /\ call'[t].fault = c.fault /\ call'[t].answer = c.answer
         /\ call'[t].first = Seen(t)
         /\ call'[t].same = (call[t].same /\ Seen(t) = host_api)
  <1> DEFINE d == [c EXCEPT !.first = Seen(t), !.same = @ /\ Seen(t) = host_api]
  <1>1. Seen(t) \in TableOrNull
    BY DEF Seen, TypeOK, Call
  <1>2. /\ d \in Call
        /\ d.at = c.at /\ d.function = c.function /\ d.fault = c.fault /\ d.answer = c.answer
        /\ d.first = Seen(t) /\ d.same = (call[t].same /\ Seen(t) = host_api)
    BY <1>1 DEF Call
  <1>3. Become(t, d)
    BY DEF Read
  <1> HIDE DEF d
  <1> QED BY <1>2, <1>3, Moved

\* A step of one call that leaves the tables alone, after which that call knows what
\* it should and has seen what governs.
LEMMA OneCallKeeps ==
  ASSUME Inv, NEW t \in Threads, UNCHANGED <<settled, exported, explicit, host_api, storing>>,
         call' \in [Threads -> Call],
         \A u \in Threads \ {t} : call'[u] = call[u],
         Knows(call'[t]), settled => Undisturbed(call'[t]),
         call'[t].at = "done" => ((call'[t].answer = "none") <=> (call'[t].fault # "none"))
  PROVE  Inv'
  <1>1. TypeOK'
    BY DEF Inv, TypeOK
  <1>2. \A u \in Threads : Knows(call'[u])
    BY DEF Inv
  <1>3. ASSUME NEW u \in Threads, settled PROVE Undisturbed(call[u])'
    <2>1. Undisturbed(call'[u])
      BY <1>3 DEF Inv
    <2> QED BY <2>1 DEF Undisturbed, ResolveWasiHostApi
  <1> QED BY <1>1, <1>2, <1>3 DEF Inv, Knows

LEMMA SetExplicitWasiHostApiKeeps == Inv /\ SetExplicitWasiHostApi => Inv'
  <1> SUFFICES ASSUME Inv, SetExplicitWasiHostApi PROVE Inv'
    OBVIOUS
  <1>1. TypeOK' /\ \A t \in Threads : Knows(call[t])'
    BY DEF SetExplicitWasiHostApi, Inv, TypeOK, Knows
  <1>2. ASSUME NEW t \in Threads, settled PROVE Undisturbed(call[t])'
    BY <1>2 DEF SetExplicitWasiHostApi, Inv, Knows, Undisturbed, Looking
  <1> QED BY <1>1, <1>2 DEF SetExplicitWasiHostApi, Inv

LEMMA StoreExplicitKeeps == Inv /\ StoreExplicit => Inv'
  <1> SUFFICES ASSUME Inv, StoreExplicit PROVE Inv'
    OBVIOUS
  <1>1. TypeOK' /\ \A t \in Threads : Knows(call[t])'
    BY DEF StoreExplicit, Inv, TypeOK, Knows, ResolveWasiHostApi
  <1>2. ASSUME NEW t \in Threads, settled PROVE Undisturbed(call[t])'
    BY <1>2 DEF StoreExplicit, Inv, Undisturbed, Looking
  <1> QED BY <1>1, <1>2 DEF StoreExplicit, Inv

LEMMA ResolveKeeps ==
  ASSUME Inv, NEW t \in Threads, NEW f \in Called, Resolve(t, f)
  PROVE  Inv'
  <1> DEFINE c == [Idle EXCEPT !.at = "resolved", !.function = f, !.table = ResolveWasiHostApi]
  <1>1. /\ c \in Call
        /\ c.at = "resolved" /\ c.function = f /\ c.table = ResolveWasiHostApi
        /\ c.same /\ c.fault = "none" /\ c.answer = "none"
    BY CalledEnds DEF Idle, Call, Inv, TypeOK, TableOrNull, ResolveWasiHostApi
  <1>2. Knows(c)
    BY <1>1 DEF Knows, Looking
  <1>3. settled => Undisturbed(c)
    BY <1>1 DEF Undisturbed, Resolve, Looking
  <1>4. Become(t, c) /\ UNCHANGED <<settled, exported, explicit, host_api, storing>>
    BY DEF Resolve
  <1> HIDE DEF c
  <1>5. call'[t] = c /\ call' \in [Threads -> Call] /\ \A u \in Threads \ {t} : call'[u] = call[u]
    BY <1>1, <1>4, Moved DEF Inv
  <1> QED BY <1>1, <1>2, <1>3, <1>4, <1>5, OneCallKeeps

LEMMA SetHostApiKeeps ==
  ASSUME Inv, NEW t \in Threads, SetHostApi(t)
  PROVE  Inv'
  <1> DEFINE c == [call[t] EXCEPT !.at = "available", !.table = NoTable]
  <1>1. /\ c \in Call
        /\ c.at = "available" /\ c.function = call[t].function /\ c.same = call[t].same
        /\ c.fault = call[t].fault /\ c.answer = call[t].answer
    BY DEF Call, Inv, TypeOK, TableOrNull
  <1>2. Knows(c)
    BY <1>1 DEF Inv, Knows, Looking, SetHostApi
  <1>3. /\ call'[t] = c /\ call' \in [Threads -> Call]
        /\ \A u \in Threads \ {t} : call'[u] = call[u]
    <2>1. Become(t, c)
      BY DEF SetHostApi
    <2> HIDE DEF c
    <2> QED BY <1>1, <2>1, Moved DEF Inv
  <1> HIDE DEF c
  <1>4. TypeOK'
    BY <1>1, <1>3 DEF SetHostApi, Inv, TypeOK, Call
  <1>5. \A u \in Threads : Knows(call'[u])
    BY <1>2, <1>3 DEF Inv
  <1>6. ASSUME settled, NEW u \in Threads PROVE Undisturbed(call[u])'
    <2>1. host_api' = ResolveWasiHostApi
      BY <1>6 DEF SetHostApi, Inv, Undisturbed
    <2>2. Undisturbed(call[u])
      BY <1>6 DEF Inv
    <2>3. CASE u = t
      BY <2>1, <2>2, <2>3, <1>1, <1>3 DEF Undisturbed, ResolveWasiHostApi, SetHostApi, Looking
    <2>4. CASE u # t
      BY <2>1, <2>2, <2>4, <1>3 DEF Undisturbed, ResolveWasiHostApi, SetHostApi, Looking
    <2> QED BY <2>3, <2>4
  <1>7. UNCHANGED settled
    BY DEF SetHostApi
  <1> QED BY <1>4, <1>5, <1>6, <1>7 DEF Inv, Knows

\* The four places where a call reads host_api_.
Reading == {"available"} \cup Looking

Ends(t, at, answer, fault) ==
  Read(t, [call[t] EXCEPT !.at = at, !.answer = answer, !.fault = fault])

\* What has to be known of the table for a read of it to end so.
Justified(t, at, answer, fault) ==
  LET same == call[t].same /\ Seen(t) = host_api
      f == call[t].function IN
  /\ at # "done" => fault = "none" /\ answer = "none"
  /\ at \in Looking => Available(Seen(t))
  /\ at \in {"present", "supported"} /\ same => HasField(host_api, f)
  /\ at = "supported" /\ same => f \in Contents[host_api].has
  /\ at = "done" => (answer = "none" <=> fault # "none")
  /\ fault # "none" => ~same
  /\ at = "done" /\ same /\ fault = "none" =>
       (answer = "forwarded" <=> Provides(host_api, f))

LEMMA ReadsKeep ==
  ASSUME Inv, NEW t \in Threads, call[t].at \in Reading,
         NEW at \in Looking \cup {"done"},
         NEW answer \in {"none", "enosys", "forwarded"},
         NEW fault \in {"none", "no_table", "beyond", "null_call"},
         Ends(t, at, answer, fault), Justified(t, at, answer, fault)
  PROVE  Inv'
  <1> DEFINE c == [call[t] EXCEPT !.at = at, !.answer = answer, !.fault = fault]
  <1>1. /\ c \in Call
        /\ c.at = at /\ c.answer = answer /\ c.fault = fault
        /\ c.function = call[t].function /\ c.first = call[t].first /\ c.same = call[t].same
    BY DEF Inv, TypeOK, Call, Looking
  <1>2. Read(t, c)
    BY DEF Ends
  <1> HIDE DEF c
  <1>3. /\ call' \in [Threads -> Call]
        /\ \A u \in Threads \ {t} : call'[u] = call[u]
        /\ call'[t].at = at /\ call'[t].function = call[t].function
        /\ call'[t].fault = fault /\ call'[t].answer = answer
        /\ call'[t].first = Seen(t)
        /\ call'[t].same = (call[t].same /\ Seen(t) = host_api)
    BY <1>1, <1>2, ReadMoves DEF Inv
  <1>4. UNCHANGED <<settled, exported, explicit, host_api, storing>>
    BY <1>2 DEF Read
  <1>5. Knows(call'[t])
    <2>1. call[t].function \in Called
      BY DEF Inv, Knows, Reading, Looking
    <2> QED BY <2>1, <1>3 DEF Knows, Justified, Looking
  <1>6. ASSUME settled PROVE Undisturbed(call'[t])
    <2>1. Undisturbed(call[t])
      BY <1>6 DEF Inv
    <2> QED BY <2>1, <1>3 DEF Undisturbed, Looking, Reading, Seen
  <1>7. call'[t].at = "done" => ((call'[t].answer = "none") <=> (call'[t].fault # "none"))
    BY <1>3 DEF Justified
  <1> QED BY <1>3, <1>4, <1>5, <1>6, <1>7, OneCallKeeps

LEMMA Outcomes ==
  ASSUME Inv, NEW t \in Threads, call[t].at \in Reading
  PROVE  /\ \A at \in Looking : Go(t, at) =>
              Ends(t, at, "none", "none")
         /\ Refuse(t) =>
              Ends(t, "done", "enosys", "none")
         /\ \A fault : Break(t, fault) =>
              Ends(t, "done", "none", fault)
  <1>1. call[t] \in Call /\ call[t].answer = "none" /\ call[t].fault = "none"
    BY DEF Inv, TypeOK, Knows, Reading, Looking
  <1>2. \A at \in Looking :
          [call[t] EXCEPT !.at = at] = [call[t] EXCEPT !.at = at, !.answer = "none", !.fault = "none"]
    BY <1>1 DEF Call
  <1>3. [call[t] EXCEPT !.at = "done", !.answer = "enosys"]
          = [call[t] EXCEPT !.at = "done", !.answer = "enosys", !.fault = "none"]
    BY <1>1 DEF Call
  <1>4. \A fault : [call[t] EXCEPT !.at = "done", !.fault = fault]
          = [call[t] EXCEPT !.at = "done", !.answer = "none", !.fault = fault]
    BY <1>1 DEF Call
  <1> QED BY <1>2, <1>3, <1>4 DEF Go, Refuse, Break, Ends

\* What a call that is reading knows already, of the table it looks at now.
LEMMA KnowsNow ==
  ASSUME Inv, NEW t \in Threads, call[t].at \in Reading
  PROVE  LET same == call[t].same /\ Seen(t) = host_api
             f == call[t].function IN
         /\ f \in Called
         /\ host_api \in TableOrNull
         /\ call[t].at \in Looking => Available(Seen(t))
         /\ call[t].at \in Looking /\ same => Available(host_api)
         /\ call[t].at \in {"present", "supported"} /\ same => HasField(host_api, f)
         /\ call[t].at = "supported" /\ same => f \in Contents[host_api].has
  BY DEF Inv, TypeOK, Knows, Reading, Looking, Seen

\* A field that a table has is read without harm.
LEMMA FieldsAreThere ==
  ASSUME NEW a \in TableOrNull, NEW f \in Called
  PROVE  /\ ReadFault(a, f) \in {"none", "no_table", "beyond"}
         /\ CallFault(a, f) \in {"none", "no_table", "beyond", "null_call"}
         /\ ReadFault(a, f) = "none" => a # NoTable /\ HasField(a, f)
         /\ a # NoTable /\ HasField(a, f) => ReadFault(a, f) = "none"
         /\ CallFault(a, f) = "none" <=> ReadFault(a, f) = "none" /\ f \in Contents[a].has
  <1>1. a # NoTable => Contents[a].size \in Nat
    BY ContentsAssumption DEF TableOrNull
  <1> QED BY <1>1, CalledEnds DEF ReadFault, CallFault, HasField

LEMMA CheckAvailableKeeps ==
  ASSUME Inv, NEW t \in Threads, CheckAvailable(t)
  PROVE  Inv'
  <1>1. call[t].at = "available" /\ call[t].at \in Reading /\ Seen(t) = host_api
    BY DEF CheckAvailable, Reading, Seen
  <1>2. CASE Available(host_api)
    <2>1. Ends(t, "in_size", "none", "none")
      BY <1>1, <1>2, Outcomes DEF CheckAvailable, Looking
    <2>4. Justified(t, "in_size", "none", "none")
      BY <1>1, <1>2, <2>1 DEF Justified, Looking
    <2> QED BY <1>1, <2>1, <2>4, ReadsKeep DEF Looking
  <1>3. CASE ~Available(host_api)
    <2>1. Ends(t, "done", "enosys", "none")
      BY <1>1, <1>3, Outcomes DEF CheckAvailable
    <2>2. ~Provides(host_api, call[t].function)
      BY <1>1, <1>3, KnowsNow, ProvidesMeansChecked
    <2>4. Justified(t, "done", "enosys", "none")
      BY <1>1, <2>1, <2>2 DEF Justified, Looking
    <2> QED BY <1>1, <2>1, <2>4, ReadsKeep DEF Looking
  <1> QED BY <1>2, <1>3

LEMMA CheckFieldKeeps ==
  ASSUME Inv, NEW t \in Threads, CheckField(t)
  PROVE  Inv'
  <1>1. call[t].at = "in_size" /\ call[t].at \in Reading
    BY DEF CheckField, Reading, Looking
  <1>2. CASE host_api = NoTable
    <2>1. Ends(t, "done", "none", "no_table")
      BY <1>1, <1>2, Outcomes DEF CheckField
    <2>2. ~(call[t].same /\ Seen(t) = host_api)
      BY <1>1, <1>2, KnowsNow DEF Available, Looking
    <2>4. Justified(t, "done", "none", "no_table")
      BY <1>1, <2>1, <2>2 DEF Justified, Looking
    <2> QED BY <1>1, <2>1, <2>4, ReadsKeep DEF Looking
  <1>3. CASE host_api # NoTable /\ HasField(host_api, call[t].function)
    <2>1. Ends(t, "present", "none", "none")
      BY <1>1, <1>3, Outcomes DEF CheckField, Looking
    <2>4. Justified(t, "present", "none", "none")
      BY <1>1, <1>3, <2>1, KnowsNow DEF Justified, Looking
    <2> QED BY <1>1, <2>1, <2>4, ReadsKeep DEF Looking
  <1>4. CASE host_api # NoTable /\ ~HasField(host_api, call[t].function)
    <2>1. Ends(t, "done", "enosys", "none")
      BY <1>1, <1>4, Outcomes DEF CheckField
    <2>2. ~Provides(host_api, call[t].function)
      BY <1>1, <1>4, KnowsNow, ProvidesMeansChecked
    <2>4. Justified(t, "done", "enosys", "none")
      BY <1>1, <2>1, <2>2 DEF Justified, Looking
    <2> QED BY <1>1, <2>1, <2>4, ReadsKeep DEF Looking
  <1> QED BY <1>2, <1>3, <1>4

LEMMA CheckPresentKeeps ==
  ASSUME Inv, NEW t \in Threads, CheckPresent(t)
  PROVE  Inv'
  <1> DEFINE f == call[t].function
  <1>1. call[t].at = "present" /\ call[t].at \in Reading
    BY DEF CheckPresent, Reading, Looking
  <1>2. f \in Called /\ host_api \in TableOrNull
    BY <1>1, KnowsNow
  <1>3. CASE ReadFault(host_api, f) # "none"
    <2>1. Ends(t, "done", "none", ReadFault(host_api, f))
      BY <1>1, <1>3, Outcomes DEF CheckPresent
    <2>2. ~(call[t].same /\ Seen(t) = host_api)
      BY <1>1, <1>2, <1>3, KnowsNow, FieldsAreThere DEF Available, Looking
    <2>3. ReadFault(host_api, f) \in {"none", "no_table", "beyond", "null_call"}
      BY <1>2, FieldsAreThere
    <2>4. Justified(t, "done", "none", ReadFault(host_api, f))
      BY <1>1, <1>3, <2>1, <2>2, <2>3 DEF Justified, Looking
    <2> QED BY <1>1, <2>1, <2>3, <2>4, ReadsKeep DEF Looking
  <1>4. CASE ReadFault(host_api, f) = "none" /\ f \in Contents[host_api].has
    <2>1. Ends(t, "supported", "none", "none")
      BY <1>1, <1>4, Outcomes DEF CheckPresent, Looking
    <2>4. Justified(t, "supported", "none", "none")
      BY <1>1, <1>4, <2>1, KnowsNow DEF Justified, Looking
    <2> QED BY <1>1, <2>1, <2>4, ReadsKeep DEF Looking
  <1>5. CASE ReadFault(host_api, f) = "none" /\ f \notin Contents[host_api].has
    <2>1. Ends(t, "done", "enosys", "none")
      BY <1>1, <1>5, Outcomes DEF CheckPresent
    <2>2. ~Provides(host_api, f)
      BY <1>2, <1>5, ProvidesMeansChecked
    <2>4. Justified(t, "done", "enosys", "none")
      BY <1>1, <2>1, <2>2 DEF Justified, Looking
    <2> QED BY <1>1, <2>1, <2>4, ReadsKeep DEF Looking
  <1> QED BY <1>3, <1>4, <1>5

LEMMA ForwardKeeps ==
  ASSUME Inv, NEW t \in Threads, Forward(t)
  PROVE  Inv'
  <1> DEFINE f == call[t].function
  <1>1. call[t].at = "supported" /\ call[t].at \in Reading
    BY DEF Forward, Reading, Looking
  <1>2. f \in Called /\ host_api \in TableOrNull
    BY <1>1, KnowsNow
  <1>3. CASE CallFault(host_api, f) # "none"
    <2>1. Ends(t, "done", "none", CallFault(host_api, f))
      BY <1>1, <1>3, Outcomes DEF Forward
    <2>2. ~(call[t].same /\ Seen(t) = host_api)
      BY <1>1, <1>2, <1>3, KnowsNow, FieldsAreThere DEF Available, Looking
    <2>3. CallFault(host_api, f) \in {"none", "no_table", "beyond", "null_call"}
      BY <1>2, FieldsAreThere
    <2>4. Justified(t, "done", "none", CallFault(host_api, f))
      BY <1>1, <1>3, <2>1, <2>2, <2>3 DEF Justified, Looking
    <2> QED BY <1>1, <2>1, <2>3, <2>4, ReadsKeep DEF Looking
  <1>4. CASE CallFault(host_api, f) = "none"
    <2>1. call[t] \in Call /\ call[t].answer = "none" /\ call[t].fault = "none"
      BY <1>1 DEF Inv, TypeOK, Knows
    <2>2. [call[t] EXCEPT !.at = "done", !.answer = "forwarded"]
            = [call[t] EXCEPT !.at = "done", !.answer = "forwarded", !.fault = "none"]
      BY <2>1 DEF Call
    <2>3. Ends(t, "done", "forwarded", "none")
      BY <1>4, <2>2 DEF Forward, Ends
    <2>4. call[t].same /\ Seen(t) = host_api => Provides(host_api, f)
      BY <1>1, <1>2, <1>4, KnowsNow, FieldsAreThere, ProvidesMeansChecked DEF Looking
    <2>5. Justified(t, "done", "forwarded", "none")
      BY <1>1, <2>3, <2>4 DEF Justified, Looking
    <2> QED BY <1>1, <2>3, <2>5, ReadsKeep DEF Looking
  <1> QED BY <1>3, <1>4

LEMMA ReturnKeeps ==
  ASSUME Inv, NEW t \in Threads, Return(t)
  PROVE  Inv'
  <1>1. Become(t, Idle) /\ UNCHANGED <<settled, exported, explicit, host_api, storing>>
    BY DEF Return
  <1>2. /\ call' \in [Threads -> Call] /\ call'[t] = Idle
        /\ \A u \in Threads \ {t} : call'[u] = call[u]
    BY <1>1, IdleCall, Moved DEF Inv
  <1>3. Undisturbed(Idle)
    BY IdleCall DEF Undisturbed, Looking
  <1> QED BY <1>1, <1>2, <1>3, IdleCall, OneCallKeeps

LEMMA NextInv == Inv /\ [Next]_vars => Inv'
  <1> SUFFICES ASSUME Inv, [Next]_vars PROVE Inv'
    OBVIOUS
  <1>1. CASE UNCHANGED vars
    BY <1>1 DEF vars, Inv, TypeOK, Knows, Undisturbed, ResolveWasiHostApi
  <1>2. ASSUME NEW t \in Threads, Start(t) PROVE Inv'
    <2>1. PICK f \in Called : Resolve(t, f)
      BY <1>2 DEF Start, Called, FdClose, FdRead, FdPRead, FdSeek, FdWrite, FdPrestatGet,
                  FdPrestatDirName, PathOpen, PathFilestatGet
    <2> QED BY <2>1, ResolveKeeps
  <1>3. ASSUME NEW t \in Threads, Step(t) PROVE Inv'
    BY <1>3, SetHostApiKeeps, CheckAvailableKeeps, CheckFieldKeeps, CheckPresentKeeps,
       ForwardKeeps, ReturnKeeps DEF Step
  <1> QED BY <1>1, <1>2, <1>3, SetExplicitWasiHostApiKeeps, StoreExplicitKeeps DEF Next

LEMMA InitInv == Init => Inv
  BY IdleCall DEF Init, Inv, TypeOK, Knows, Undisturbed, Looking, TableOrNull

LEMMA InvHolds == Spec => []Inv
  BY InitInv, NextInv, PTL DEF Spec

-----------------------------------------------------------------------------
(* The theorems *)

\* The tables and the calls keep their types, and no call of the wrapper returns
\* without an answer.
THEOREM TypeCorrectness == Spec => []TypeOK
  <1>1. Inv => TypeOK
    BY DEF Inv
  <1> QED BY <1>1, InvHolds, PTL

\* The checks of the wrapper, none of them locked, are enough for any number of
\* threads as long as the host leaves its table alone during a call; and where it
\* does not, only a call that meets two tables goes wrong.
THEOREM FaultsNeedReplacement == Spec => []OnlyReplacementFaults
  <1>1. Inv => OnlyReplacementFaults
    BY DEF Inv, OnlyReplacementFaults, Knows, Undisturbed
  <1> QED BY <1>1, InvHolds, PTL

\* A call is forwarded exactly when the table it met has the function, whichever
\* version and length the host's tables have.
THEOREM AnswersAreThoseOfTheTable == Spec => []AnswersMatchTable
  <1>1. Inv => AnswersMatchTable
    BY DEF Inv, AnswersMatchTable, Knows
  <1> QED BY <1>1, InvHolds, PTL
===============================================================================
