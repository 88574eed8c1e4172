--------------------------- MODULE GuestMemoryProofs ---------------------------
(***************************************************************************)
(* Proofs about GuestMemory for any number of threads and any word size.   *)
(***************************************************************************)
EXTENDS GuestMemory, TLAPS

\* What a running access knows: the API was resolved for it, the length it read
\* was a length of the memory, its range was checked before the copy, and it has
\* not gone through before it is done.
Knows(c) ==
  /\ c.at = "idle" => c = Idle
  /\ c.at # "idle" => host = ResolveHostApi
  /\ c.at # "done" => ~ c.ok
  /\ c.at = "found" => host /\ c.length =< length /\ c.size # 0
  /\ c.at = "move" => c.address + c.size =< length

Inv ==
  /\ TypeOK
  /\ LimitWithinLength => limit =< length
  /\ \A t \in Threads : Knows(access[t])

\* A range check compares the end of the range with the length.
LEMMA RangeIsExact ==
  ASSUME NEW byte_length \in Nat, NEW address \in Nat, NEW size \in Nat
  PROVE  RangeIsValid(byte_length, address, size) <=> address + size =< byte_length
  BY DEF RangeIsValid

LEMMA SizesAreNat == Sizes \subseteq Nat
  BY WordAssumption DEF Sizes

\* A direct check lets through what fits the memory as it is now.
LEMMA DirectCheckIsSound ==
  ASSUME LimitWithinLength, Inv, NEW t \in Threads,
         access[t].at = "found", DirectRangeIsValid(access[t])
  PROVE  access[t].address + access[t].size =< length
  <1> DEFINE c == access[t]
  <1>1. c.address \in Nat /\ c.size \in Nat /\ c.length \in Nat /\ length \in Nat /\ limit \in Nat
    BY SizesAreNat DEF Inv, TypeOK, Access
  <1>2. c.length =< length /\ limit =< length
    BY DEF Inv, Knows
  <1>3. \/ RangeIsValid(limit, c.address, c.size)
        \/ RangeIsValid(c.length, c.address, c.size)
        \/ RangeIsValid(length, c.address, c.size)
    BY DEF DirectRangeIsValid
  <1>4. \/ c.address + c.size =< limit
        \/ c.address + c.size =< c.length
        \/ c.address + c.size =< length
    BY <1>1, <1>3, RangeIsExact
  <1> QED BY <1>1, <1>2, <1>4

\* One thread's access moves on and everything else stays.
LEMMA AccessMoves ==
  ASSUME Inv, NEW t \in Threads, NEW c \in Access, Proceed(t, c),
         UNCHANGED <<fixed, length, explicit>>, host' = ResolveHostApi \/ host' = host,
         Knows(c)'
  PROVE  Inv'
  <1>1. TypeOK'
    BY DEF Inv, TypeOK, Proceed, fixed, ResolveHostApi
  <1>2. access' = [access EXCEPT ![t] = c] /\ access \in [Threads -> Access]
    BY DEF Proceed, Inv, TypeOK
  <1>3. ASSUME NEW u \in Threads
        PROVE  Knows(access[u])'
    <2>1. CASE u = t
      BY <1>2, <2>1
    <2>2. CASE u # t
      <3>1. access'[u] = access[u] /\ Knows(access[u])
        BY <1>2, <2>2 DEF Inv
      <3> QED BY <3>1 DEF Knows, ResolveHostApi, fixed
    <2> QED BY <2>1, <2>2
  <1>4. LimitWithinLength => limit' =< length'
    BY DEF Inv, fixed
  <1> QED BY <1>1, <1>3, <1>4 DEF Inv

LEMMA InitInv == Init => Inv
  <1> SUFFICES ASSUME Init PROVE Inv
    OBVIOUS
  <1>1. Idle \in Access
    BY WordAssumption DEF Idle, Access, Sizes
  <1>2. TypeOK
    BY <1>1 DEF Init, TypeOK
  <1>3. \A t \in Threads : Knows(access[t])
    BY DEF Init, Knows, Idle
  <1> QED BY <1>2, <1>3 DEF Init, Inv

LEMMA CallKeeps ==
  ASSUME Inv, NEW t \in Threads, Call(t)
  PROVE  Inv'
  <1>1. PICK address \in Sizes, size \in Sizes :
          Proceed(t, [Idle EXCEPT !.at = "called", !.address = address, !.size = size])
    BY DEF Call
  <1>2. PICK c \in Access :
          c = [Idle EXCEPT !.at = "called", !.address = address, !.size = size]
    <2>1. 0 \in Sizes
      BY WordAssumption DEF Sizes
    <2> QED BY <2>1 DEF Idle, Access
  <1>3. c.at = "called" /\ ~ c.ok
    BY <1>2 DEF Idle
  <1>4. Knows(c)'
    BY <1>3 DEF Knows, Call, ResolveHostApi, fixed
  <1> QED BY <1>1, <1>2, <1>4, AccessMoves DEF Call

\* The steps that end an access or bring it closer to its end.
LEMMA FinishKeeps ==
  ASSUME Inv, NEW t \in Threads, NEW ok \in BOOLEAN, access[t].at # "idle",
         Finish(t, ok), UNCHANGED <<fixed, length, explicit, host>>
  PROVE  Inv'
  <1>1. PICK c \in Access : c = [access[t] EXCEPT !.at = "done", !.ok = ok]
    BY DEF Inv, TypeOK, Access
  <1>2. host = ResolveHostApi
    BY DEF Inv, Knows
  <1>3. c.at = "done"
    BY <1>1 DEF Inv, TypeOK, Access
  <1>4. Knows(c)'
    BY <1>2, <1>3 DEF Knows, ResolveHostApi, fixed
  <1>5. Proceed(t, c)
    BY <1>1 DEF Finish
  <1> QED BY <1>4, <1>5, AccessMoves

LEMMA FindDescriptorKeeps ==
  ASSUME Inv, NEW t \in Threads, FindDescriptor(t)
  PROVE  Inv'
  <1>1. CASE Finish(t, FALSE)
    BY <1>1, FinishKeeps DEF FindDescriptor
  <1>2. CASE host /\ Proceed(t, [access[t] EXCEPT !.at = "found", !.length = length])
    <2>1. PICK c \in Access : c = [access[t] EXCEPT !.at = "found", !.length = length]
      BY DEF Inv, TypeOK, Access
    <2>2. /\ c.at = "found" /\ c.length = length /\ length \in Nat
          /\ ~ c.ok /\ c.size # 0
      BY <2>1, SizesAreNat DEF Inv, TypeOK, Access, Knows, FindDescriptor
    <2>3. host = ResolveHostApi /\ host
      BY <1>2 DEF Inv, Knows, FindDescriptor
    <2>4. UNCHANGED <<length, host>> /\ ResolveHostApi' = ResolveHostApi
      BY DEF ResolveHostApi, fixed, FindDescriptor
    <2>5. host' = ResolveHostApi' /\ host'
      BY <2>3, <2>4
    <2>6. c.length =< length'
      BY <2>2, <2>4
    <2>7. Knows(c)'
      BY <2>2, <2>5, <2>6, Zenon DEF Knows
    <2> QED BY <1>2, <2>1, <2>7, AccessMoves DEF FindDescriptor
  <1> QED BY <1>1, <1>2 DEF FindDescriptor

LEMMA CheckRangeKeeps ==
  ASSUME LimitWithinLength, Inv, NEW t \in Threads, CheckRange(t)
  PROVE  Inv'
  <1>1. CASE Finish(t, FALSE)
    BY <1>1, FinishKeeps DEF CheckRange
  <1>2. CASE /\ DirectRangeIsValid(access[t])
             /\ Proceed(t, [access[t] EXCEPT !.at = "move"])
    <2>1. PICK c \in Access : c = [access[t] EXCEPT !.at = "move"]
      BY DEF Inv, TypeOK, Access
    <2>2. /\ c.at = "move" /\ ~ c.ok
          /\ c.address = access[t].address /\ c.size = access[t].size
      BY <2>1 DEF Inv, TypeOK, Access, Knows, CheckRange
    <2>3. access[t].address + access[t].size =< length
      BY <1>2, DirectCheckIsSound DEF CheckRange
    <2>4. host = ResolveHostApi
      BY DEF Inv, Knows, CheckRange
    <2>5. Knows(c)'
      BY <2>2, <2>3, <2>4 DEF Knows, ResolveHostApi, fixed, CheckRange
    <2> QED BY <1>2, <2>1, <2>5, AccessMoves DEF CheckRange
  <1> QED BY <1>1, <1>2 DEF CheckRange

LEMMA ReturnKeeps ==
  ASSUME Inv, NEW t \in Threads, Return(t)
  PROVE  Inv'
  <1>1. Idle \in Access /\ Idle.at = "idle" /\ ~ Idle.ok
    BY WordAssumption DEF Idle, Access, Sizes
  <1>2. Knows(Idle)'
    BY <1>1 DEF Knows
  <1> QED BY <1>1, <1>2, AccessMoves DEF Return

LEMMA StepKeeps ==
  ASSUME LimitWithinLength, Inv, NEW t \in Threads, Step(t)
  PROVE  Inv'
  <1>1. CASE Read(t) \/ Write(t) \/ ReadString(t)
    BY <1>1, CallKeeps DEF Read, Write, ReadString
  <1>2. CASE EmptyAccess(t)
    BY <1>2, FinishKeeps DEF EmptyAccess
  <1>3. CASE FindDescriptor(t)
    BY <1>3, FindDescriptorKeeps
  <1>4. CASE CopyThroughHost(t)
    <2>1. (host /\ access[t].address + access[t].size =< length) \in BOOLEAN
      OBVIOUS
    <2> QED BY <1>4, <2>1, FinishKeeps DEF CopyThroughHost
  <1>5. CASE Reject(t)
    BY <1>5, FinishKeeps DEF Reject
  <1>6. CASE CheckRange(t)
    BY <1>6, CheckRangeKeeps
  <1>7. CASE Move(t)
    BY <1>7, FinishKeeps DEF Move
  <1>8. CASE Return(t)
    BY <1>8, ReturnKeeps
  <1> QED BY <1>1, <1>2, <1>3, <1>4, <1>5, <1>6, <1>7, <1>8 DEF Step

LEMMA GrowKeeps == Inv /\ Grow => Inv'
  <1> SUFFICES ASSUME Inv, Grow PROVE Inv'
    OBVIOUS
  <1>1. length \in Nat /\ limit \in Nat /\ length' \in Sizes /\ length =< length'
    BY SizesAreNat, WordAssumption DEF Inv, TypeOK, Grow, Sizes
  <1>2. length' \in Nat
    BY <1>1, SizesAreNat
  <1>3. TypeOK'
    BY <1>1 DEF Inv, TypeOK, Grow, fixed
  <1>4. ASSUME NEW t \in Threads
        PROVE  Knows(access[t])'
    <2>1. /\ access[t].address \in Nat /\ access[t].size \in Nat
          /\ access[t].length \in Nat
      BY SizesAreNat DEF Inv, TypeOK, Access
    <2>2. access'[t] = access[t] /\ Knows(access[t])
      BY DEF Inv, Grow
    <2> QED BY <1>1, <1>2, <2>1, <2>2 DEF Knows, Grow, ResolveHostApi, fixed
  <1>5. LimitWithinLength => limit' =< length'
    BY <1>1, <1>2 DEF Inv, Grow, fixed
  <1> QED BY <1>3, <1>4, <1>5 DEF Inv

LEMMA SetExplicitHostApiKeeps == Inv /\ SetExplicitHostApi => Inv'
  <1> SUFFICES ASSUME Inv, SetExplicitHostApi PROVE Inv'
    OBVIOUS
  <1>1. TypeOK'
    BY DEF Inv, TypeOK, SetExplicitHostApi, fixed
  <1>2. \A t \in Threads : Knows(access[t])'
    BY DEF SetExplicitHostApi, Knows, Idle
  <1> QED BY <1>1, <1>2 DEF Inv, SetExplicitHostApi, fixed

LEMMA NextInv ==
  ASSUME LimitWithinLength, Inv, [Next]_vars
  PROVE  Inv'
  <1>1. CASE Next
    BY <1>1, StepKeeps, GrowKeeps, SetExplicitHostApiKeeps DEF Next
  <1>2. CASE UNCHANGED vars
    BY <1>2 DEF vars, Inv, TypeOK, Knows, ResolveHostApi
  <1> QED BY <1>1, <1>2

LEMMA InvHolds ==
  ASSUME LimitWithinLength
  PROVE  Spec => []Inv
  BY InitInv, NextInv, PTL DEF Spec

\* What an access knows of the memory, the lengths it read and the range it was
\* given included, keeps its type through every delivery and growth.
THEOREM TypeCorrectness ==
  ASSUME LimitWithinLength
  PROVE  Spec => []TypeOK
  <1>1. Inv => TypeOK
    BY DEF Inv
  <1> QED BY <1>1, InvHolds, PTL

\* What the plugin copies itself lies within the memory as it is at that moment
\* (GuestMemoryAccessor::Read and Write), wherever the host's protection limit
\* lies within the memory.
THEOREM DirectAccessesAreInBounds ==
  ASSUME LimitWithinLength
  PROVE  Spec => []DirectInBounds
  <1>1. Inv => DirectInBounds
    BY DEF Inv, Knows, DirectInBounds
  <1> QED BY <1>1, InvHolds, PTL

-----------------------------------------------------------------------------
(* GuestMemory implements AtomicMemory. *)

\* What a step of one thread does to what is seen from outside.
LEMMA OneMoves ==
  ASSUME Inv, NEW t \in Threads, NEW c \in Access, Proceed(t, c), UNCHANGED fixed
  PROVE  [u \in Threads |-> Abstract(access[u])]'
           = [[u \in Threads |-> Abstract(access[u])] EXCEPT ![t] = Abstract(c)]
  <1>1. access' = [access EXCEPT ![t] = c] /\ access \in [Threads -> Access]
    BY DEF Proceed, Inv, TypeOK
  <1>2. \A u \in Threads : access'[u] = IF u = t THEN c ELSE access[u]
    BY <1>1
  <1>3. ASSUME NEW u \in Threads
        PROVE  Abstract(access[u])' = IF u = t THEN Abstract(c) ELSE Abstract(access[u])
    <2>1. CASE u = t
      <3>1. access'[u] = c
        BY <1>2, <2>1
      <3> QED BY <3>1, <2>1 DEF fixed, Abstract, Decided, DirectRangeIsValid
    <2>2. CASE u # t
      <3>1. access'[u] = access[u]
        BY <1>2, <2>2
      <3> QED BY <3>1, <2>2 DEF fixed, Abstract, Decided, DirectRangeIsValid
    <2> QED BY <2>1, <2>2
  <1> QED BY <1>3

\* A step to the same abstract access stutters.
LEMMA Stutters ==
  ASSUME Inv, NEW t \in Threads, NEW c \in Access, Proceed(t, c),
         UNCHANGED <<fixed, length, explicit>>, Abstract(c) = Abstract(access[t])
  PROVE  UNCHANGED Atomic!vars
  <1>1. [u \in Threads |-> Abstract(access[u])]'
          = [[u \in Threads |-> Abstract(access[u])] EXCEPT ![t] = Abstract(c)]
    BY OneMoves DEF fixed
  <1>2. Reachable' = Reachable
    BY DEF Reachable, ResolveHostApi, fixed
  <1> QED BY <1>1, <1>2 DEF Atomic!vars

\* A step that settles the outcome decides.
LEMMA Decides ==
  ASSUME Inv, NEW t \in Threads, NEW c \in Access, Proceed(t, c),
         UNCHANGED <<fixed, length, explicit>>,
         access[t].at \in {"called", "found"}, ~ Decided(access[t]),
         Decided(c), c.address = access[t].address, c.size = access[t].size,
         Abstract(c).ok = (c.size = 0 \/ (Reachable /\ c.address + c.size =< length))
  PROVE  Atomic!Decide(t)
  <1>1. [u \in Threads |-> Abstract(access[u])]'
          = [[u \in Threads |-> Abstract(access[u])] EXCEPT ![t] = Abstract(c)]
    BY OneMoves DEF fixed
  <1>2. Reachable' = Reachable
    BY DEF Reachable, ResolveHostApi, fixed
  <1>3. Abstract(access[t]).at = "called" /\ c.at # "idle"
    BY DEF Abstract, Decided
  <1>4. Abstract(c) = [at |-> "decided", address |-> c.address, size |-> c.size,
                       ok |-> c.size = 0 \/ (Reachable /\ c.address + c.size =< length)]
    BY <1>3 DEF Abstract
  <1>5. /\ Abstract(access[t]).size = c.size
        /\ Abstract(access[t]).address = c.address
    BY DEF Abstract
  <1> QED BY <1>1, <1>2, <1>3, <1>4, <1>5 DEF Atomic!Decide, Atomic!InBounds

\* The exact check of a reachable memory, on the length an access goes by.
LEMMA DirectCheckIsExact ==
  ASSUME LimitWithinLength, Inv, NEW c \in Access, c.length = length,
         delivery \in {"full", "partial", "dynamic"}
  PROVE  DirectRangeIsValid(c) <=> c.address + c.size =< length
  <1>1. c.address \in Nat /\ c.size \in Nat /\ length \in Nat /\ limit \in Nat
    BY SizesAreNat DEF Inv, TypeOK, Access
  <1>2. limit =< length
    BY DEF Inv
  <1>3. RangeIsValid(length, c.address, c.size) <=> c.address + c.size =< length
    BY <1>1, RangeIsExact
  <1>4. RangeIsValid(limit, c.address, c.size) <=> c.address + c.size =< limit
    BY <1>1, RangeIsExact
  <1> QED BY <1>1, <1>2, <1>3, <1>4 DEF DirectRangeIsValid

LEMMA CallMaps ==
  ASSUME Inv, NEW t \in Threads, Call(t)
  PROVE  Atomic!Call(t)
  <1>1. PICK address \in Sizes, size \in Sizes :
          Proceed(t, [Idle EXCEPT !.at = "called", !.address = address, !.size = size])
    BY DEF Call
  <1>2. PICK c \in Access :
          c = [Idle EXCEPT !.at = "called", !.address = address, !.size = size]
    <2>1. 0 \in Sizes
      BY WordAssumption DEF Sizes
    <2> QED BY <2>1 DEF Idle, Access
  <1>3. Abstract(c) = [at |-> "called", address |-> address, size |-> size, ok |-> FALSE]
    BY <1>2 DEF Abstract, Decided, Idle
  <1>4. [u \in Threads |-> Abstract(access[u])]'
          = [[u \in Threads |-> Abstract(access[u])] EXCEPT ![t] = Abstract(c)]
    BY <1>1, <1>2, OneMoves DEF Call, fixed
  <1>5. Abstract(access[t]) = Atomic!Idle
    <2>1. access[t] = Idle
      BY DEF Call
    <2>2. Abstract(Idle) = Atomic!Idle
      BY DEF Abstract, Idle, Atomic!Idle
    <2> QED BY <2>1, <2>2
  <1>6. Reachable' = Reachable /\ length' = length
    BY DEF Call, Reachable, ResolveHostApi, fixed
  <1> QED BY <1>3, <1>4, <1>5, <1>6 DEF Atomic!Call, Sizes

\* A finished access was still to be decided, or its outcome was already fixed.
LEMMA FinishMaps ==
  ASSUME Inv, NEW t \in Threads, NEW ok \in BOOLEAN, Finish(t, ok),
         UNCHANGED <<fixed, length, explicit>>, access[t].at \in {"called", "found", "move"},
         IF Decided(access[t])
         THEN ok = Abstract(access[t]).ok
         ELSE ok = (access[t].size = 0
                    \/ (Reachable /\ access[t].address + access[t].size =< length))
  PROVE  Atomic!Decide(t) \/ UNCHANGED Atomic!vars
  <1>1. PICK c \in Access : c = [access[t] EXCEPT !.at = "done", !.ok = ok]
    BY DEF Inv, TypeOK, Access
  <1>2. /\ c.at = "done" /\ c.ok = ok
        /\ c.address = access[t].address /\ c.size = access[t].size
    BY <1>1 DEF Inv, TypeOK, Access
  <1>3. Decided(c)
    BY <1>2 DEF Decided
  <1>4. Abstract(c) = [at |-> "decided", address |-> c.address, size |-> c.size, ok |-> ok]
    BY <1>2, <1>3 DEF Abstract
  <1>5. Proceed(t, c)
    BY <1>1 DEF Finish
  <1>6. CASE Decided(access[t])
    <2>1. Abstract(access[t]) =
            [at |-> "decided", address |-> c.address, size |-> c.size, ok |-> ok]
      BY <1>2, <1>6 DEF Abstract
    <2> QED BY <1>4, <1>5, <2>1, Stutters
  <1>7. CASE ~ Decided(access[t])
    <2>1. access[t].at \in {"called", "found"}
      BY <1>7 DEF Decided
    <2>2. Abstract(c).ok = (c.size = 0 \/ (Reachable /\ c.address + c.size =< length))
      BY <1>2, <1>4, <1>7
    <2> QED BY <1>2, <1>3, <1>5, <1>7, <2>1, <2>2, Decides
  <1> QED BY <1>6, <1>7

LEMMA FindDescriptorMaps ==
  ASSUME LimitWithinLength, Inv, NEW t \in Threads, FindDescriptor(t)
  PROVE  Atomic!Decide(t) \/ UNCHANGED Atomic!vars
  <1>1. /\ access[t].at = "called" /\ access[t].size # 0 /\ ~ access[t].ok
        /\ host = ResolveHostApi /\ ~ Decided(access[t])
    BY DEF FindDescriptor, Inv, Knows, Decided
  <1>2. CASE ~ (host /\ delivery # "missing")
    <2>1. ~ Reachable
      BY <1>1, <1>2 DEF Reachable
    <2>2. Finish(t, FALSE) /\ UNCHANGED <<fixed, length, explicit>>
      BY <1>2 DEF FindDescriptor
    <2> QED BY <1>1, <2>1, <2>2, FinishMaps
  <1>3. CASE host /\ delivery # "missing"
    <2>1. PICK c \in Access : c = [access[t] EXCEPT !.at = "found", !.length = length]
      BY DEF Inv, TypeOK, Access
    <2>2. /\ c.at = "found" /\ c.length = length /\ ~ c.ok
          /\ c.address = access[t].address /\ c.size = access[t].size
      BY <1>1, <2>1 DEF Inv, TypeOK, Access
    <2>3. Proceed(t, c) /\ UNCHANGED <<fixed, length, explicit>>
      BY <1>3, <2>1 DEF FindDescriptor
    <2>4. CASE delivery \in {"full", "partial"}
      <3>1. Decided(c) /\ Reachable
        BY <1>1, <1>3, <2>2, <2>4 DEF Decided, Reachable
      <3>2. DirectRangeIsValid(c) <=> c.address + c.size =< length
        BY <2>2, <2>4, DirectCheckIsExact
      <3>3. DirectRangeIsValid(c) \in BOOLEAN
        BY <2>4 DEF DirectRangeIsValid, RangeIsValid
      <3>4. Abstract(c).ok = (c.size = 0 \/ (Reachable /\ c.address + c.size =< length))
        BY <1>1, <2>2, <3>1, <3>2, <3>3 DEF Abstract
      <3> QED BY <1>1, <2>2, <2>3, <3>1, <3>4, Decides
    <2>5. CASE delivery \notin {"full", "partial"}
      <3>1. ~ Decided(c)
        BY <2>2, <2>5 DEF Decided
      <3>2. access[t].ok = FALSE
        BY <1>1 DEF Inv, TypeOK, Access
      <3>3. Abstract(c) = Abstract(access[t])
        BY <1>1, <2>2, <3>1, <3>2 DEF Abstract
      <3> QED BY <2>3, <3>3, Stutters
    <2> QED BY <2>4, <2>5
  <1> QED BY <1>2, <1>3

LEMMA CheckRangeMaps ==
  ASSUME LimitWithinLength, Inv, NEW t \in Threads, CheckRange(t)
  PROVE  Atomic!Decide(t) \/ UNCHANGED Atomic!vars
  <1>1. /\ access[t].at = "found" /\ delivery \in DirectDeliveries
        /\ host = ResolveHostApi /\ UNCHANGED <<fixed, length, explicit>>
    BY DEF CheckRange, Inv, Knows
  <1>2. DirectRangeIsValid(access[t]) \in BOOLEAN
    BY <1>1 DEF DirectRangeIsValid, RangeIsValid, DirectDeliveries
  <1>3. /\ access[t].address \in Nat /\ access[t].size \in Nat /\ length \in Nat
    BY SizesAreNat DEF Inv, TypeOK, Access
  <1>4. CASE ~ DirectRangeIsValid(access[t])
    <2>1. Finish(t, FALSE)
      BY <1>4 DEF CheckRange
    <2>2. CASE Decided(access[t])
      <3>1. Abstract(access[t]).ok = FALSE
        BY <1>1, <1>2, <1>4, <2>2 DEF Abstract
      <3> QED BY <1>1, <2>1, <2>2, <3>1, FinishMaps
    <2>3. CASE ~ Decided(access[t])
      <3>1. access[t].size # 0
        BY <1>1 DEF Inv, Knows
      <3>2. delivery = "dynamic" => ~ (access[t].address + access[t].size =< length)
        BY <1>3, <1>4, RangeIsExact DEF DirectRangeIsValid
      <3>3. ~ (Reachable /\ access[t].address + access[t].size =< length)
        BY <1>1, <2>3, <3>2 DEF Reachable, Decided, DirectDeliveries
      <3> QED BY <1>1, <2>1, <2>3, <3>1, <3>3, FinishMaps
    <2> QED BY <2>2, <2>3
  <1>5. CASE DirectRangeIsValid(access[t])
    <2>1. PICK c \in Access : c = [access[t] EXCEPT !.at = "move"]
      BY DEF Inv, TypeOK, Access
    <2>2. /\ c.at = "move" /\ c.address = access[t].address /\ c.size = access[t].size
      BY <2>1 DEF Inv, TypeOK, Access
    <2>3. Proceed(t, c)
      BY <1>5, <2>1 DEF CheckRange
    <2>4. Decided(c)
      BY <2>2 DEF Decided
    <2>5. Abstract(c) = [at |-> "decided", address |-> access[t].address,
                         size |-> access[t].size, ok |-> TRUE]
      BY <2>2, <2>4 DEF Abstract
    <2>6. CASE Decided(access[t])
      <3>1. Abstract(access[t]) = Abstract(c)
        BY <1>1, <1>5, <2>5, <2>6 DEF Abstract
      <3> QED BY <1>1, <2>3, <3>1, Stutters
    <2>7. CASE ~ Decided(access[t])
      <3>1. delivery = "dynamic"
        BY <1>1, <1>5, <2>7 DEF Decided, DirectRangeIsValid, DirectDeliveries
      <3>2. Reachable
        BY <1>1, <3>1 DEF Reachable, Inv, Knows
      <3>3. access[t].address + access[t].size =< length
        BY <1>3, <1>5, <3>1, RangeIsExact DEF DirectRangeIsValid
      <3>4. Abstract(c).ok = (c.size = 0 \/ (Reachable /\ c.address + c.size =< length))
        <4>1. c.address + c.size =< length /\ Abstract(c).ok = TRUE
          BY <2>2, <2>5, <3>3
        <4> QED BY <3>2, <4>1, Zenon
      <3> QED BY <1>1, <2>2, <2>3, <2>4, <2>7, <3>4, Decides
    <2> QED BY <2>6, <2>7
  <1> QED BY <1>4, <1>5

LEMMA ReturnMaps ==
  ASSUME Inv, NEW t \in Threads, Return(t)
  PROVE  Atomic!Return(t)
  <1>1. Idle \in Access
    BY WordAssumption DEF Idle, Access, Sizes
  <1>2. [u \in Threads |-> Abstract(access[u])]'
          = [[u \in Threads |-> Abstract(access[u])] EXCEPT ![t] = Abstract(Idle)]
    BY <1>1, OneMoves DEF Return, fixed
  <1>3. Abstract(Idle) = Atomic!Idle
    BY DEF Abstract, Idle, Atomic!Idle
  <1>4. Abstract(access[t]).at = "decided"
    BY DEF Return, Abstract, Decided
  <1>5. Reachable' = Reachable /\ length' = length
    BY DEF Return, Reachable, ResolveHostApi, fixed
  <1> QED BY <1>2, <1>3, <1>4, <1>5 DEF Atomic!Return

LEMMA StepMaps ==
  ASSUME LimitWithinLength, Inv, NEW t \in Threads, Step(t)
  PROVE  [Atomic!Next]_(Atomic!vars)
  <1>1. CASE Read(t) \/ Write(t) \/ ReadString(t)
    BY <1>1, CallMaps DEF Read, Write, ReadString, Atomic!Next
  <1>2. CASE EmptyAccess(t)
    <2>1. ~ Decided(access[t])
      BY <1>2 DEF EmptyAccess, Decided
    <2> QED BY <1>2, <2>1, FinishMaps DEF EmptyAccess, Atomic!Next
  <1>3. CASE FindDescriptor(t)
    BY <1>3, FindDescriptorMaps DEF Atomic!Next
  <1>4. CASE CopyThroughHost(t)
    <2>1. ~ Decided(access[t]) /\ access[t].size # 0
      BY <1>4 DEF CopyThroughHost, Decided, Inv, Knows
    <2>2. Reachable /\ host
      BY <1>4 DEF CopyThroughHost, Reachable, Inv, Knows
    <2> DEFINE ok == host /\ access[t].address + access[t].size =< length
    <2>3. PICK b \in BOOLEAN : b = ok
      OBVIOUS
    <2>4. Finish(t, b) /\ UNCHANGED <<fixed, length, explicit>> /\ access[t].at = "found"
      BY <1>4, <2>3 DEF CopyThroughHost
    <2>5. b = (access[t].size = 0
               \/ (Reachable /\ access[t].address + access[t].size =< length))
      BY <2>1, <2>2, <2>3
    <2> QED BY <2>1, <2>4, <2>5, FinishMaps DEF Atomic!Next
  <1>5. CASE Reject(t)
    <2>1. ~ Decided(access[t]) /\ ~ Reachable /\ access[t].size # 0
      BY <1>5 DEF Reject, Decided, Reachable, RejectedDeliveries, Inv, Knows
    <2> QED BY <1>5, <2>1, FinishMaps DEF Reject, Atomic!Next
  <1>6. CASE CheckRange(t)
    BY <1>6, CheckRangeMaps DEF Atomic!Next
  <1>7. CASE Move(t)
    <2>1. Decided(access[t]) /\ Abstract(access[t]).ok = TRUE
      BY <1>7 DEF Move, Decided, Abstract
    <2> QED BY <1>7, <2>1, FinishMaps DEF Move, Atomic!Next
  <1>8. CASE Return(t)
    BY <1>8, ReturnMaps DEF Atomic!Next
  <1> QED BY <1>1, <1>2, <1>3, <1>4, <1>5, <1>6, <1>7, <1>8 DEF Step

\* Outside the threads' own steps the accesses look the same.
LEMMA RestKept ==
  ASSUME UNCHANGED <<fixed, access>>
  PROVE  [u \in Threads |-> Abstract(access[u])]' = [u \in Threads |-> Abstract(access[u])]
  <1>1. \A u \in Threads : Abstract(access[u])' = Abstract(access[u])
    BY DEF fixed, Abstract, Decided, DirectRangeIsValid
  <1> QED BY <1>1

LEMMA NextMaps ==
  ASSUME LimitWithinLength, Inv, [Next]_vars
  PROVE  [Atomic!Next]_(Atomic!vars)
  <1>1. CASE \E t \in Threads : Step(t)
    BY <1>1, StepMaps
  <1>2. CASE Grow
    <2>1. [u \in Threads |-> Abstract(access[u])]' = [u \in Threads |-> Abstract(access[u])]
      BY <1>2, RestKept DEF Grow
    <2>2. Reachable' = Reachable
      BY <1>2 DEF Grow, Reachable, ResolveHostApi, fixed
    <2> QED BY <1>2, <2>1, <2>2 DEF Grow, Atomic!Grow, Atomic!Next
  <1>3. CASE SetExplicitHostApi
    <2>1. [u \in Threads |-> Abstract(access[u])]' = [u \in Threads |-> Abstract(access[u])]
      BY <1>3, RestKept DEF SetExplicitHostApi, fixed
    <2>2. Abstract(Idle) = Atomic!Idle
      BY DEF Abstract, Idle, Atomic!Idle
    <2>3. \A t \in Threads : Abstract(access[t]) = Atomic!Idle
      BY <1>3, <2>2 DEF SetExplicitHostApi
    <2>4. Reachable' \in BOOLEAN
      BY DEF Reachable
    <2> QED BY <1>3, <2>1, <2>3, <2>4 DEF SetExplicitHostApi, Atomic!Connect, Atomic!Next
  <1>4. CASE UNCHANGED vars
    <2>1. [u \in Threads |-> Abstract(access[u])]' = [u \in Threads |-> Abstract(access[u])]
      BY <1>4, RestKept DEF vars, fixed
    <2> QED BY <1>4, <2>1 DEF vars, Reachable, ResolveHostApi, Atomic!vars
  <1> QED BY <1>1, <1>2, <1>3, <1>4 DEF Next

LEMMA InitMaps == Init => Atomic!Init
  <1> SUFFICES ASSUME Init PROVE Atomic!Init
    OBVIOUS
  <1>1. Abstract(Idle) = Atomic!Idle
    BY DEF Abstract, Idle, Atomic!Idle
  <1>2. \A t \in Threads : Abstract(access[t]) = Atomic!Idle
    BY <1>1 DEF Init
  <1> QED BY <1>2 DEF Init, Reachable, Sizes, Atomic!Init

\* Every way of delivering the memory keeps the promise of AtomicMemory: each
\* access is decided at one instant by the length the memory then has, although
\* the code reads the length, checks and copies in separate steps.
THEOREM AccessesAreAtomic ==
  ASSUME LimitWithinLength
  PROVE  Spec => AtomicAccess
  BY InvHolds, InitMaps, NextMaps, PTL DEF Spec, AtomicAccess, Atomic!Spec
=============================================================================
