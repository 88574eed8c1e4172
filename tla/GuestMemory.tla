----------------------------- MODULE GuestMemory ------------------------------
(***************************************************************************)
(* Access to a guest's linear memory (runtime/memory_access.cc) through    *)
(* the host API the plugin context resolves (runtime/plugin_context.cc).   *)
(*                                                                         *)
(* The host delivers the memory in one of several ways.  An access reads   *)
(* the memory's descriptor, checks its range as the delivery asks for and  *)
(* copies, in steps between which the guest may grow the memory.  The      *)
(* bytes are left out: what is modelled is whether an access goes through  *)
(* and what it touches.  A read and a write differ only in the direction   *)
(* of the copy.  One memory stands for the one a call names by its index.  *)
(***************************************************************************)
EXTENDS Naturals

CONSTANTS
  Threads,           \* guest threads that call into the plugin
  Word,              \* addresses, sizes and lengths are below it (2^64 in the code)
  LimitWithinLength  \* whether the host's protection limit lies within the memory

ASSUME WordAssumption == Word \in Nat \ {0}
ASSUME LimitWithinLengthAssumption == LimitWithinLength \in BOOLEAN

VARIABLES
  delivery,  \* how the host delivers the memory, if it describes it at all
  limit,     \* partial_protection_limit_bytes of its descriptor
  length,    \* its current length, which the guest may grow
  exported,  \* whether the process exports uwvm_get_preload_host_api_v1
  explicit,  \* whether the host has set an API (explicit_host_api_)
  host,      \* whether the accessor has an API (host_api_)
  access     \* thread -> the access it is in, with its locals

vars == <<delivery, limit, length, exported, explicit, host, access>>
fixed == <<delivery, limit, exported>>

Sizes == 0 .. (Word - 1)
DirectDeliveries == {"full", "partial", "dynamic", "dynamic_without_length"}
RejectedDeliveries == {"none", "mmap_without_view"}
Deliveries == {"missing", "copy"} \cup DirectDeliveries \cup RejectedDeliveries

\* An access has the byte_length of the descriptor it found.
Access == [at : {"idle", "called", "found", "move", "done"}, address : Sizes,
           size : Sizes, length : Sizes, ok : BOOLEAN]
Idle == [at |-> "idle", address |-> 0, size |-> 0, length |-> 0, ok |-> FALSE]

-----------------------------------------------------------------------------
(* Bounds *)

\* Mutant of RangeIsValid: the end of the range wraps around.
RangeWraps(byte_length, address, size) == (address + size) % Word =< byte_length
\* Mutant of RangeIsValid: a range may not reach the last byte.
RangeEndsBefore(byte_length, address, size) ==
  address < byte_length /\ size < byte_length - address
RangeIsValid(byte_length, address, size) ==
  address =< byte_length /\ size =< byte_length - address

DirectRangeIsValid(c) ==
  CASE delivery = "full" -> RangeIsValid(c.length, c.address, c.size)
    [] delivery = "partial" -> \/ RangeIsValid(limit, c.address, c.size)
                               \/ RangeIsValid(c.length, c.address, c.size)
    [] delivery = "dynamic" -> RangeIsValid(length, c.address, c.size)
    [] OTHER -> FALSE

-----------------------------------------------------------------------------
(* The host *)

ResolveHostApi == explicit \/ exported

\* The host sets its API before guests run, or between their calls.
SetExplicitHostApi ==
  /\ \A t \in Threads : access[t] = Idle
  /\ explicit' \in BOOLEAN
  /\ host' = (explicit' \/ exported)
  /\ UNCHANGED <<fixed, length, access>>

\* memory.grow of the guest; linear memories never shrink.
Grow ==
  /\ length' \in (length + 1) .. (Word - 1)
  /\ UNCHANGED <<fixed, explicit, host, access>>

-----------------------------------------------------------------------------
(* An access *)

Proceed(t, c) == access' = [access EXCEPT ![t] = c]
Finish(t, ok) == Proceed(t, [access[t] EXCEPT !.at = "done", !.ok = ok])

\* Every caller gets the accessor from the context, which resolves the API anew.
Call(t) ==
  /\ access[t] = Idle
  /\ host' = ResolveHostApi
  /\ \E address, size \in Sizes :
       Proceed(t, [Idle EXCEPT !.at = "called", !.address = address, !.size = size])
  /\ UNCHANGED <<fixed, length, explicit>>

Read(t) == Call(t)
Write(t) == Call(t)
ReadString(t) == Call(t)

EmptyAccess(t) ==
  /\ access[t].at = "called" /\ access[t].size = 0
  /\ Finish(t, TRUE)
  /\ UNCHANGED <<fixed, length, explicit, host>>

\* Mutant of FindDescriptor: the length is rounded up.
FindRoundedDescriptor(t) ==
  /\ access[t].at = "called" /\ access[t].size # 0
  /\ IF host /\ delivery # "missing"
     THEN Proceed(t, [access[t] EXCEPT !.at = "found", !.length = length + 1])
     ELSE Finish(t, FALSE)
  /\ UNCHANGED <<fixed, length, explicit, host>>

FindDescriptor(t) ==
  /\ access[t].at = "called" /\ access[t].size # 0
  /\ IF host /\ delivery # "missing"
     THEN Proceed(t, [access[t] EXCEPT !.at = "found", !.length = length])
     ELSE Finish(t, FALSE)
  /\ UNCHANGED <<fixed, length, explicit, host>>

\* The host's callback checks and copies at once.
CopyThroughHost(t) ==
  /\ access[t].at = "found" /\ delivery = "copy"
  /\ Finish(t, host /\ access[t].address + access[t].size =< length)
  /\ UNCHANGED <<fixed, length, explicit, host>>

Reject(t) ==
  /\ access[t].at = "found" /\ delivery \in RejectedDeliveries
  /\ Finish(t, FALSE)
  /\ UNCHANGED <<fixed, length, explicit, host>>

CheckRange(t) ==
  /\ access[t].at = "found" /\ delivery \in DirectDeliveries
  /\ IF DirectRangeIsValid(access[t])
     THEN Proceed(t, [access[t] EXCEPT !.at = "move"])
     ELSE Finish(t, FALSE)
  /\ UNCHANGED <<fixed, length, explicit, host>>

\* The plugin's own memcpy from or to the mapped view.
Move(t) ==
  /\ access[t].at = "move"
  /\ Finish(t, TRUE)
  /\ UNCHANGED <<fixed, length, explicit, host>>

Return(t) ==
  /\ access[t].at = "done"
  /\ Proceed(t, Idle)
  /\ UNCHANGED <<fixed, length, explicit, host>>

-----------------------------------------------------------------------------
(* The specification *)

Init ==
  /\ delivery \in Deliveries
  /\ limit \in Sizes
  /\ length \in Sizes
  /\ delivery # "partial" => limit = 0
  /\ LimitWithinLength => limit =< length
  /\ exported \in BOOLEAN
  /\ explicit = FALSE
  /\ host = FALSE
  /\ access = [t \in Threads |-> Idle]

Step(t) ==
  \/ Read(t) \/ Write(t) \/ ReadString(t)
  \/ EmptyAccess(t) \/ FindDescriptor(t) \/ CopyThroughHost(t)
  \/ Reject(t) \/ CheckRange(t) \/ Move(t) \/ Return(t)

Next == SetExplicitHostApi \/ Grow \/ \E t \in Threads : Step(t)

Spec == Init /\ [][Next]_vars

-----------------------------------------------------------------------------
(* Properties *)

\* The variables have their types.
TypeOK ==
  /\ delivery \in Deliveries
  /\ limit \in Sizes /\ length \in Sizes
  /\ exported \in BOOLEAN /\ explicit \in BOOLEAN /\ host \in BOOLEAN
  /\ access \in [Threads -> Access]

\* What the plugin copies itself lies within the memory at that moment, though
\* it was checked against a length read earlier.
DirectInBounds ==
  \A t \in Threads :
    access[t].at = "move" => access[t].address + access[t].size =< length

\* Every delivery keeps the promise of AtomicMemory.  Where the length is that of
\* the descriptor, the access takes effect when it finds the descriptor, otherwise
\* when its range is checked.
Decided(c) ==
  \/ c.at \in {"move", "done"}
  \/ c.at = "found" /\ delivery \in {"full", "partial"}

Abstract(c) ==
  [at |-> IF c.at = "idle" THEN "idle" ELSE IF Decided(c) THEN "decided" ELSE "called",
   address |-> c.address, size |-> c.size,
   ok |-> IF c.at = "found" THEN Decided(c) /\ DirectRangeIsValid(c)
          ELSE c.at = "move" \/ c.ok]

Reachable == ResolveHostApi /\ delivery \in {"copy", "full", "partial", "dynamic"}

Atomic == INSTANCE AtomicMemory
  WITH reachable <- Reachable, access <- [t \in Threads |-> Abstract(access[t])]

AtomicAccess == Atomic!Spec
=============================================================================
