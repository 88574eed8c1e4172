---------------------------- MODULE WasiFileSystem ----------------------------
(***************************************************************************)
(* The plugin's way to the file system: runtime/wasi_file_system.h, which  *)
(* forwards calls to the WASI functions of a table the host provides, and  *)
(* the part of PluginContext that decides which table that is.  The table  *)
(* grows with the versions of the host: it says how many bytes of it there *)
(* are, and any of its functions may be absent.                            *)
(*                                                                         *)
(* Nothing here is locked.  A call reads host_api_ once for each of its     *)
(* checks and once to call through it, each a step, and another thread may *)
(* resolve the table between two of them; the host may replace its table   *)
(* between calls, and unless it is settled during one.  The wrapper has  *)
(* no caller in the plugin yet but its tests.  Arguments are passed on     *)
(* unchanged and left out.                                                 *)
(*                                                                         *)
(* "Mutant of D" marks a broken variant of definition D.  No specification *)
(* uses it: it stands for a plausible bug in the code, put in place of D   *)
(* to see that a property notices.                                         *)
(***************************************************************************)
EXTENDS Naturals, Sequences

CONSTANTS
  Threads,  \* threads of the plugin
  Tables,   \* the tables the host may provide
  NoTable,  \* the null pointer
  Contents  \* table -> its version, its struct_size, the functions it has

\* The functions of uwvm_wasip1_host_api_v1 in their order.
Functions ==
  <<"args_get", "args_sizes_get", "clock_res_get", "clock_time_get", "environ_get",
    "environ_sizes_get", "fd_advise", "fd_allocate", "fd_close", "fd_datasync",
    "fd_fdstat_get", "fd_fdstat_set_flags", "fd_fdstat_set_rights", "fd_filestat_get",
    "fd_filestat_set_size", "fd_filestat_set_times", "fd_pread", "fd_prestat_dir_name",
    "fd_prestat_get", "fd_pwrite", "fd_read", "fd_readdir", "fd_renumber", "fd_seek",
    "fd_sync", "fd_tell", "fd_write", "path_create_directory", "path_filestat_get",
    "path_filestat_set_times", "path_link", "path_open">>
Names == {Functions[i] : i \in 1 .. Len(Functions)}

Pointer == 8  \* bytes of a pointer
Header == 16  \* bytes of struct_size and abi_version, with padding

ASSUME NoTableAssumption == NoTable \notin Tables
ASSUME ContentsAssumption ==
  Contents \in [Tables -> [version : Nat, size : Nat, has : SUBSET Names]]

Version == 1  \* UWVM_WASIP1_HOST_API_V1_ABI_VERSION

VARIABLES
  settled,  \* whether the host leaves its table alone while a call is made
  exported,  \* the table of uwvm_get_wasip1_host_api_v1, if the process has it
  explicit,  \* explicit_wasi_host_api_
  host_api,  \* host_api_ of the wrapper
  storing,   \* whether the host has set its table and not yet host_api_
  call       \* thread -> the call it is in

vars == <<settled, exported, explicit, host_api, storing, call>>

TableOrNull == Tables \cup {NoTable}

\* A call has the function it is for, the table its context resolved for it, the
\* one it looked at first, whether it has seen another one since, and what went
\* wrong: a table that is not there, a field beyond its end, a null function.
Call == [at : {"idle", "resolved", "available", "in_size", "present", "supported", "done"},
         function : Names, table : TableOrNull, first : TableOrNull, same : BOOLEAN,
         fault : {"none", "no_table", "beyond", "null_call"},
         answer : {"none", "enosys", "forwarded"}]
Idle == [at |-> "idle", function |-> "fd_close", table |-> NoTable, first |-> NoTable,
         same |-> TRUE, fault |-> "none", answer |-> "none"]

-----------------------------------------------------------------------------
(* Fields of a table *)

End(f) == Header + Pointer * (CHOOSE i \in 1 .. Len(Functions) : Functions[i] = f)

\* Mutant of HasField: the field only has to begin within the table.
FieldBegins(a, f) == End(f) < Contents[a].size + Pointer
HasField(a, f) == End(f) =< Contents[a].size

\* What reading a field of a table, or calling through it, does when it is not
\* there.
ReadFault(a, f) ==
  CASE a = NoTable -> "no_table"
    [] a # NoTable /\ End(f) > Contents[a].size -> "beyond"
    [] OTHER -> "none"
CallFault(a, f) ==
  IF ReadFault(a, f) = "none" /\ f \notin Contents[a].has THEN "null_call"
                                                            ELSE ReadFault(a, f)

\* Mutant of Available: the version is not compared.
AvailableAnyVersion(a) == a # NoTable /\ HasField(a, "args_sizes_get")
Available(a) ==
  /\ a # NoTable
  /\ Contents[a].version = Version
  /\ HasField(a, "args_sizes_get")

-----------------------------------------------------------------------------
(* Which table: PluginContext *)

Become(t, c) == call' = [call EXCEPT ![t] = c]

ResolveWasiHostApi == IF explicit # NoTable THEN explicit ELSE exported

\* The host sets its table or takes it back ...
SetExplicitWasiHostApi ==
  /\ ~storing
  /\ settled => \A t \in Threads : call[t].at = "idle"
  /\ explicit' \in TableOrNull
  /\ storing' = TRUE
  /\ UNCHANGED <<settled, exported, host_api, call>>

\* ... and stores what that resolves to.
StoreExplicit ==
  /\ storing
  /\ storing' = FALSE
  /\ host_api' = ResolveWasiHostApi
  /\ UNCHANGED <<settled, exported, explicit, call>>

\* Bound: one call at a time where the host does not wait for calls to end.
Alone == settled \/ \A t \in Threads : call[t].at = "idle"

\* A helper gets the wrapper from the context, which resolves the table ...
Resolve(t, f) ==
  /\ call[t].at = "idle"
  /\ settled => ~storing
  /\ Alone
  /\ Become(t, [Idle EXCEPT !.at = "resolved", !.function = f, !.table = ResolveWasiHostApi])
  /\ UNCHANGED <<settled, exported, explicit, host_api, storing>>

\* ... and stores it.
SetHostApi(t) ==
  /\ call[t].at = "resolved"
  /\ host_api' = call[t].table
  /\ Become(t, [call[t] EXCEPT !.at = "available", !.table = NoTable])
  /\ UNCHANGED <<settled, exported, explicit, storing>>

FdClose(t) == Resolve(t, "fd_close")
FdRead(t) == Resolve(t, "fd_read")
FdPRead(t) == Resolve(t, "fd_pread")
FdSeek(t) == Resolve(t, "fd_seek")
FdWrite(t) == Resolve(t, "fd_write")
FdPrestatGet(t) == Resolve(t, "fd_prestat_get")
FdPrestatDirName(t) == Resolve(t, "fd_prestat_dir_name")
PathOpen(t) == Resolve(t, "path_open")
PathFilestatGet(t) == Resolve(t, "path_filestat_get")

-----------------------------------------------------------------------------
(* A call: each step reads host_api_ again. *)

Seen(t) == IF call[t].at = "available" THEN host_api ELSE call[t].first
Read(t, c) ==
  /\ Become(t, [c EXCEPT !.first = Seen(t), !.same = @ /\ Seen(t) = host_api])
  /\ UNCHANGED <<settled, exported, explicit, host_api, storing>>

\* The check holds; it does not; what it reads or calls is not there.
Go(t, at) == Read(t, [call[t] EXCEPT !.at = at])
\* Mutant of Refuse: errno_code is left as it was.
RefuseSilently(t) == Read(t, [call[t] EXCEPT !.at = "done"])
Refuse(t) == Read(t, [call[t] EXCEPT !.at = "done", !.answer = "enosys"])
Break(t, fault) == Read(t, [call[t] EXCEPT !.at = "done", !.fault = fault])

\* (Each of the conditions of Available reads host_api_, wasi_file_system.h:38-40; one
\* step reads it for all three.  A table that is replaced between two of them can do
\* what one can that is replaced before the next check.)
CheckAvailable(t) ==
  /\ call[t].at = "available"
  /\ IF Available(host_api) THEN Go(t, "in_size") ELSE Refuse(t)

CheckField(t) ==
  /\ call[t].at = "in_size"
  /\ IF host_api = NoTable THEN Break(t, "no_table")
     ELSE IF HasField(host_api, call[t].function) THEN Go(t, "present") ELSE Refuse(t)

CheckPresent(t) ==
  LET f == call[t].function IN
  /\ call[t].at = "present"
  /\ IF ReadFault(host_api, f) # "none" THEN Break(t, ReadFault(host_api, f))
     ELSE IF f \in Contents[host_api].has THEN Go(t, "supported") ELSE Refuse(t)

Forward(t) ==
  LET fault == CallFault(host_api, call[t].function) IN
  /\ call[t].at = "supported"
  /\ IF fault # "none" THEN Break(t, fault)
     ELSE Read(t, [call[t] EXCEPT !.at = "done", !.answer = "forwarded"])

Return(t) ==
  /\ call[t].at = "done" /\ call[t].fault = "none"
  /\ Become(t, Idle)
  /\ UNCHANGED <<settled, exported, explicit, host_api, storing>>

-----------------------------------------------------------------------------
(* The specification *)

Init ==
  /\ settled \in BOOLEAN
  /\ exported \in TableOrNull
  /\ explicit = NoTable
  /\ host_api = NoTable
  /\ storing = FALSE
  /\ call = [t \in Threads |-> Idle]

Start(t) ==
  \/ FdClose(t) \/ FdRead(t) \/ FdPRead(t) \/ FdSeek(t) \/ FdWrite(t)
  \/ FdPrestatGet(t) \/ FdPrestatDirName(t) \/ PathOpen(t) \/ PathFilestatGet(t)

Step(t) ==
  \/ SetHostApi(t)
  \/ CheckAvailable(t) \/ CheckField(t) \/ CheckPresent(t) \/ Forward(t)
  \/ Return(t)

Next ==
  \/ SetExplicitWasiHostApi
  \/ StoreExplicit
  \/ \E t \in Threads : Start(t) \/ Step(t)

Spec == Init /\ [][Next]_vars

-----------------------------------------------------------------------------
(* Properties *)

\* Every variable has its type, and a call that is over was answered or went wrong:
\* no return leaves errno_code unset.
TypeOK ==
  /\ settled \in BOOLEAN
  /\ exported \in TableOrNull /\ explicit \in TableOrNull /\ host_api \in TableOrNull
  /\ storing \in BOOLEAN
  /\ call \in [Threads -> Call]
  /\ \A t \in Threads :
       call[t].at = "done" => ((call[t].answer = "none") <=> (call[t].fault # "none"))

\* A call reads beyond a table's end, reads a table that is not there or calls a
\* null function only when the host replaces its table during the call and the
\* call meets both: while the host leaves it alone, no number of threads that
\* resolve and store it between one another's checks does harm.
OnlyReplacementFaults ==
  \A t \in Threads : call[t].fault # "none" => ~settled /\ ~call[t].same

\* A call that met one table only is forwarded when that table is of the version
\* the plugin knows and has the function, whole and not null, and is answered
\* ENOSYS otherwise: an older, shorter table loses exactly what it does not have.
Provides(a, f) ==
  /\ a # NoTable
  /\ Contents[a].version = 1 /\ Contents[a].size >= End(f) /\ f \in Contents[a].has
AnswersMatchTable ==
  \A t \in Threads :
    call[t].at = "done" /\ call[t].same /\ call[t].fault = "none" =>
      (call[t].answer = "forwarded" <=> Provides(call[t].first, call[t].function))
=============================================================================
