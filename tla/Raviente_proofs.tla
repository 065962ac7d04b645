--------------------------- MODULE Raviente_proofs ---------------------------
(* Proofs about Raviente, for any hunters, rooms, registers, generations,     *)
(* processes and failing statements.  RoomsInv is about the rooms and the     *)
(* registers; RecordsInv, which is proved from it, about the tracker and its  *)
(* table, and is what makes every step one of RunRecords; HistoryInv, proved  *)
(* from both, is what makes the table agree with the registers.               *)
EXTENDS Raviente, FiniteSetTheorems, SequenceTheorems, TLAPS

USE SemaphoreAssumption, TrackerAssumption, RavienteAssumption

-----------------------------------------------------------------------------
(* Rooms and registers.                                                      *)

\* The set of semaphores a hunter is in is finite, and empty if it has no element.
LEMMA MembershipCount ==
    ASSUME NEW h \in Hunter
    PROVE  Cardinality(Memberships(h)) \in Nat
<1>1. Memberships(h) \subseteq Name
  BY DEF Memberships, Registered
<1> QED
  BY <1>1, FS_Subset, FS_CardinalityType

LEMMA NoneIsNoSemaphore ==
    ASSUME NEW x \in Semaphore
    PROVE  x # NoSemaphore
  OBVIOUS

\* Registers hold values of their width.
LEMMA WrittenType ==
    ASSUME NEW reg \in [Reg -> 0 .. RegMod - 1], NEW u \in Update
    PROVE  /\ Written(reg, u) \in [Reg -> 0 .. RegMod - 1]
           /\ ~RoomOpen /\ reg[1] = 0 /\ reg[2] = 0
                => Written(reg, u)[1] = 0 /\ Written(reg, u)[2] = 0
<1>1. u.dest \in Reg /\ u.data \in 0 .. RegMod - 1 /\ u.op \in {"add", "set"}
  BY DEF Update
<1>2. (reg[u.dest] + u.data) % RegMod \in 0 .. RegMod - 1
  BY <1>1
<1>3. Written(reg, u) \in [Reg -> 0 .. RegMod - 1]
  BY <1>1, <1>2 DEF Written
<1>4. ASSUME ~RoomOpen, reg[1] = 0, reg[2] = 0
      PROVE  Written(reg, u)[1] = 0 /\ Written(reg, u)[2] = 0
  <2>1. CASE ~Accepted(reg, u)
    BY <1>4, <2>1 DEF Written
  <2>2. CASE Accepted(reg, u) /\ u.dest = 3
    BY <1>1, <1>4, <2>2 DEF Written, Reg
  <2>3. CASE Accepted(reg, u) /\ u.dest # 3
    <3>1. u.data = 0 /\ reg[u.dest] = 0
      BY <1>1, <1>4, <2>3 DEF Accepted, Reg
    <3>2. (0 + 0) % RegMod = 0
      OBVIOUS
    <3> QED
      BY <1>1, <1>4, <2>3, <3>1, <3>2 DEF Written, Reg
  <2> QED
    BY <2>1, <2>2, <2>3
<1> QED
  BY <1>3, <1>4

\* What a sweep leaves.
LEMMA SweptRooms ==
    ASSUME NEW reg \in [Name -> Semaphore \cup {NoSemaphore}], NEW among \in SUBSET Name
    PROVE  /\ Swept(reg, among) \in [Name -> Semaphore \cup {NoSemaphore}]
           /\ \A n \in Name : Swept(reg, among)[n] # NoSemaphore =>
                 /\ Swept(reg, among)[n] = reg[n]
                 /\ n \in among => reg[n].clients # {}
  BY DEF Swept

Remaining(reg, h, among) ==
    /\ reg \in [Name -> Semaphore \cup {NoSemaphore}]
    /\ \A n \in Name :
         /\ reg[n] # NoSemaphore <=> Exists(n)
         /\ Exists(n) => reg[n].clients =
               IF n \in among THEN registry[n].clients \ {h} ELSE registry[n].clients

LEMMA WithoutRooms ==
    ASSUME SemaphoreTypeOK, NEW h \in Hunter, NEW among, among \subseteq Name
    PROVE  Remaining(Without(h, among), h, among)
<1>1. registry \in [Name -> Semaphore \cup {NoSemaphore}]
  BY DEF SemaphoreTypeOK
<1>2. ASSUME NEW n \in Name, Exists(n)
      PROVE  /\ registry[n] \in Semaphore
             /\ [registry[n] EXCEPT !.clients = @ \ {h}] \in Semaphore
             /\ [registry[n] EXCEPT !.clients = @ \ {h}].clients = registry[n].clients \ {h}
  BY <1>1, <1>2 DEF Exists, Semaphore
<1> QED
  BY <1>1, <1>2, NoneIsNoSemaphore DEF Without, Exists, Remaining

\* A room that a removal has left in the registry is one of before, with the same
\* hunters or one less, and not empty.
Shrunk(reg) ==
    /\ reg \in [Name -> Semaphore \cup {NoSemaphore}]
    /\ \A n \in Name : reg[n] # NoSemaphore =>
         /\ Exists(n) /\ reg[n].clients \subseteq registry[n].clients /\ reg[n].clients # {}

LEMMA SweepShrinks ==
    ASSUME SemaphoreTypeOK
    PROVE  Shrunk(SweepEmpty)
<1>1. registry \in [Name -> Semaphore \cup {NoSemaphore}]
  BY DEF SemaphoreTypeOK
<1> QED
  BY <1>1, SweptRooms DEF Shrunk, SweepEmpty, Exists

LEMMA RemovalShrinks ==
    ASSUME SemaphoreTypeOK, NEW h \in Hunter
    PROVE  /\ Shrunk(RemoveSession(h))
           /\ \A n \in Name : RemoveSession(h)[n] # NoSemaphore
                                => h \notin RemoveSession(h)[n].clients
<1> DEFINE reg == Without(h, Name)
<1>1. /\ reg \in [Name -> Semaphore \cup {NoSemaphore}]
      /\ \A n \in Name : /\ reg[n] # NoSemaphore <=> Exists(n)
                         /\ Exists(n) => reg[n].clients = registry[n].clients \ {h}
  <2>1. Remaining(reg, h, Name)
    BY WithoutRooms
  <2> QED
    BY <2>1 DEF Remaining
<1>2. RemoveSession(h) = Swept(reg, Name)
  BY DEF RemoveSession
<1> HIDE DEF reg
<1>3. /\ Swept(reg, Name) \in [Name -> Semaphore \cup {NoSemaphore}]
      /\ \A n \in Name : Swept(reg, Name)[n] # NoSemaphore =>
            Swept(reg, Name)[n] = reg[n] /\ reg[n].clients # {}
  BY <1>1, SweptRooms
<1> QED
  BY <1>1, <1>2, <1>3 DEF Shrunk

LEMMA DeletionShrinks ==
    ASSUME SemaphoreTypeOK, NoEmptySemaphore, NEW h \in Hunter, NEW m \in Name
    PROVE  Shrunk(DeleteAt(h, m))
<1>1. PICK among \in SUBSET Name : among = {m}
  BY Zenon
<1> DEFINE reg == Without(h, among)
<1>2. /\ reg \in [Name -> Semaphore \cup {NoSemaphore}]
      /\ \A n \in Name : /\ reg[n] # NoSemaphore <=> Exists(n)
                         /\ Exists(n) => reg[n].clients =
                              IF n \in among THEN registry[n].clients \ {h}
                              ELSE registry[n].clients
  <2>1. Remaining(reg, h, among)
    BY WithoutRooms
  <2> HIDE DEF reg
  <2> QED
    BY <2>1, Zenon DEF Remaining
<1>3. DeleteAt(h, m) = Swept(reg, among)
  BY <1>1 DEF DeleteAt
<1> HIDE DEF reg
<1>4. /\ Swept(reg, among) \in [Name -> Semaphore \cup {NoSemaphore}]
      /\ \A n \in Name : Swept(reg, among)[n] # NoSemaphore =>
            Swept(reg, among)[n] = reg[n] /\ (n \in among => reg[n].clients # {})
  BY <1>2, SweptRooms
<1>5. ASSUME NEW n \in Name, Swept(reg, among)[n] # NoSemaphore
      PROVE  /\ Exists(n) /\ Swept(reg, among)[n].clients \subseteq registry[n].clients
             /\ Swept(reg, among)[n].clients # {}
  <2>1. Swept(reg, among)[n] = reg[n] /\ Exists(n)
    BY <1>2, <1>4, <1>5, Zenon
  <2>2. registry[n].clients # {}
    BY <2>1 DEF NoEmptySemaphore, Registered
  <2>3. CASE n \in among
    BY <1>2, <1>4, <1>5, <2>1, <2>3, Zenon
  <2>4. CASE n \notin among
    BY <1>2, <2>1, <2>2, <2>4, Zenon
  <2> QED
    BY <2>3, <2>4
<1> QED
  BY <1>3, <1>4, <1>5 DEF Shrunk

LEMMA InitRooms == RavienteInit => RoomsInv
<1> SUFFICES ASSUME RavienteInit PROVE RoomsInv
  OBVIOUS
<1> USE DEF RavienteInit, SemaphoreInit
<1>1. SemaphoreTypeOK
  BY DEF SemaphoreTypeOK, Handling, Leaving
<1>2. SiegeTypeOK
  BY DEF SiegeTypeOK, Zero, Disarmed, Reg
<1>3. NoEmptySemaphore /\ NoSiegeWithoutRoom
  BY DEF NoEmptySemaphore, NoSiegeWithoutRoom, Registered, Exists, Zero, Reg
<1>4. GoneHoldsNothing /\ LeavingIsOffline
  BY DEF GoneHoldsNothing, LeavingIsOffline
<1> QED
  BY <1>1, <1>2, <1>3, <1>4 DEF RoomsInv

\* Registers and rooms after a section that removes members.
LEMMA RemoveKeeps ==
    ASSUME RoomsInv, NEW reg, Shrunk(reg), RemoveMembers(reg)
    PROVE  /\ SiegeTypeOK' /\ NoEmptySemaphore' /\ NoSiegeWithoutRoom'
           /\ registry' \in [Name -> Semaphore \cup {NoSemaphore}]
           /\ \A h \in Hunter : Memberships(h)' \subseteq Memberships(h)
           /\ UNCHANGED <<idState, offline>>
<1>1. registry' = reg /\ UNCHANGED <<idState, offline, tick, timer, killed>>
  BY DEF RemoveMembers
<1>2. SiegeTypeOK'
  <2>1. CASE ~RoomsClose(reg)
    BY <1>1, <2>1 DEF RemoveMembers, Teardown, RoomsInv, SiegeTypeOK
  <2>2. CASE RoomsClose(reg)
    <3>1. gen < MaxGen /\ gen' = gen + 1 /\ register' = Zero
          /\ calls' = <<Call(IF register[1] # 0 /\ register[2] # 0
                            THEN "complete" ELSE "abort")>>
      BY <2>2 DEF RemoveMembers, Teardown
    <3>2. gen' \in 0 .. MaxGen /\ gen \in Nat
      BY <3>1 DEF RoomsInv, SiegeTypeOK
    <3>3. calls' \in Seq([op : {"start", "complete", "abort"}, gen : Nat])
      BY <3>1, <3>2 DEF Call
    <3>4. register' \in [Reg -> 0 .. RegMod - 1]
      BY <3>1 DEF Zero
    <3> QED
      BY <1>1, <3>2, <3>3, <3>4 DEF RoomsInv, SiegeTypeOK
  <2> QED
    BY <2>1, <2>2
<1>3. NoEmptySemaphore'
  BY <1>1 DEF NoEmptySemaphore, Registered, Exists, Shrunk
<1>4. NoSiegeWithoutRoom'
  <2>1. CASE RoomsClose(reg)
    BY <2>1 DEF RemoveMembers, Teardown, NoSiegeWithoutRoom, Zero, Reg
  <2>2. CASE ~RoomsClose(reg)
    <3>1. register' = register
      BY <2>2 DEF RemoveMembers, Teardown
    <3> SUFFICES ASSUME \A n \in RaviName : registry'[n] = NoSemaphore
                 PROVE  register[1] = 0 /\ register[2] = 0
      BY <3>1 DEF NoSiegeWithoutRoom, Exists
    <3>2. \A n \in RaviName : ~Exists(n)
      BY <1>1, <2>2 DEF RoomsClose
    <3> QED
      BY <3>2 DEF RoomsInv, NoSiegeWithoutRoom
  <2> QED
    BY <2>1, <2>2
<1>5. \A h \in Hunter : Memberships(h)' \subseteq Memberships(h)
  BY <1>1 DEF Memberships, Registered, Exists, Shrunk
<1> QED
  BY <1>1, <1>2, <1>3, <1>4, <1>5 DEF Shrunk

\* Removal by packets and logouts.
LEMMA RemovalSteps ==
    ASSUME RoomsInv, NEW h \in Hunter, Delete(h) \/ DeleteMember(h) \/ LeaveRooms(h) \/ CleanUp(h)
    PROVE  RoomsInv'
<1> USE DEF RoomsInv
<1>1. CASE Delete(h)
  <2>1. RemoveMembers(SweepEmpty) /\ UNCHANGED leaving
        /\ \E n \in Registered : handling' = [handling EXCEPT ![h] = [op |-> "delete", id |-> registry[n].id]]
    BY <1>1, Zenon DEF Delete, Working
  <2>2. /\ SiegeTypeOK' /\ NoEmptySemaphore' /\ NoSiegeWithoutRoom'
        /\ registry' \in [Name -> Semaphore \cup {NoSemaphore}]
        /\ \A k \in Hunter : Memberships(k)' \subseteq Memberships(k)
        /\ UNCHANGED <<idState, offline>>
    BY <2>1, SweepShrinks, RemoveKeeps
  <2>3. \A n \in Registered : registry[n].id \in Id
    BY DEF Registered, Exists, SemaphoreTypeOK, Semaphore
  <2>4. handling' \in [Hunter -> Handling]
    BY <2>1, <2>3 DEF SemaphoreTypeOK, Handling
  <2>5. SemaphoreTypeOK'
    BY <2>1, <2>2, <2>4 DEF SemaphoreTypeOK
  <2>6. GoneHoldsNothing'
    BY <2>1, <2>2 DEF GoneHoldsNothing, HoldsLifecycle, SemaphoreTypeOK
  <2>7. LeavingIsOffline'
    BY <2>1, <2>2 DEF LeavingIsOffline
  <2> QED
    BY <2>2, <2>5, <2>6, <2>7
<1>2. CASE DeleteMember(h)
  <2>1. UNCHANGED leaving /\ handling' = [handling EXCEPT ![h] = Idle]
    BY <1>2 DEF DeleteMember, Working
  <2>2. /\ SiegeTypeOK' /\ NoEmptySemaphore' /\ NoSiegeWithoutRoom'
        /\ registry' \in [Name -> Semaphore \cup {NoSemaphore}]
        /\ \A k \in Hunter : Memberships(k)' \subseteq Memberships(k)
        /\ UNCHANGED <<idState, offline>>
    <3>1. CASE \E n \in WithId(handling[h].id) : RemoveMembers(DeleteAt(h, n))
      BY <3>1, DeletionShrinks, RemoveKeeps DEF WithId, Registered
    <3>2. CASE RemoveMembers(registry)
      <4>1. Shrunk(registry)
        BY Zenon DEF Shrunk, SemaphoreTypeOK, NoEmptySemaphore, Registered, Exists
      <4> QED
        BY <3>2, <4>1, RemoveKeeps
    <3> QED
      BY <1>2, <3>1, <3>2 DEF DeleteMember
  <2>3. SemaphoreTypeOK'
    BY <2>1, <2>2 DEF SemaphoreTypeOK, Handling
  <2>4. GoneHoldsNothing'
    BY <2>1, <2>2 DEF GoneHoldsNothing, HoldsLifecycle, Idle, SemaphoreTypeOK
  <2>5. LeavingIsOffline'
    BY <2>1, <2>2 DEF LeavingIsOffline
  <2> QED
    BY <2>2, <2>3, <2>4, <2>5
<1>3. CASE LeaveRooms(h)
  <2>1. leaving[h] = "leave" /\ leaving' = [leaving EXCEPT ![h] = "cleanup"]
        /\ UNCHANGED handling
    BY <1>3 DEF LeaveRooms
  <2>2. /\ SiegeTypeOK' /\ NoEmptySemaphore' /\ NoSiegeWithoutRoom'
        /\ registry' \in [Name -> Semaphore \cup {NoSemaphore}]
        /\ \A k \in Hunter : Memberships(k)' \subseteq Memberships(k)
        /\ UNCHANGED <<idState, offline>>
    <3>1. CASE RemoveMembers(RemoveSession(h))
      BY <3>1, RemovalShrinks, RemoveKeeps
    <3>2. CASE UNCHANGED <<registry, idState, offline, trackerVars, siegeVars>>
      <4>1. UNCHANGED <<registry, idState, offline, siegeVars>>
        BY <3>2
      <4>2. SiegeTypeOK'
        BY <4>1 DEF SiegeTypeOK, siegeVars
      <4>3. NoEmptySemaphore' /\ NoSiegeWithoutRoom' /\ \A k \in Hunter : Memberships(k)' = Memberships(k)
        BY <4>1 DEF NoEmptySemaphore, NoSiegeWithoutRoom, Memberships, Registered, Exists,
           siegeVars
      <4>4. registry' \in [Name -> Semaphore \cup {NoSemaphore}]
        BY <4>1 DEF SemaphoreTypeOK
      <4> QED
        BY <4>1, <4>2, <4>3, <4>4
    <3> QED
      BY <1>3, <3>1, <3>2 DEF LeaveRooms
  <2>3. SemaphoreTypeOK'
    BY <2>1, <2>2 DEF SemaphoreTypeOK, Leaving
  <2>4. GoneHoldsNothing'
    BY <2>1, <2>2 DEF GoneHoldsNothing, HoldsLifecycle, SemaphoreTypeOK
  <2>5. LeavingIsOffline'
    BY <2>1, <2>2 DEF LeavingIsOffline, SemaphoreTypeOK
  <2> QED
    BY <2>2, <2>3, <2>4, <2>5
<1>4. CASE CleanUp(h)
  <2>1. leaving[h] = "cleanup" /\ leaving' = [leaving EXCEPT ![h] = "gone"]
        /\ UNCHANGED handling /\ ~HoldsLifecycle(h)
    BY <1>4 DEF CleanUp
  <2>2. /\ SiegeTypeOK' /\ NoEmptySemaphore' /\ NoSiegeWithoutRoom'
        /\ registry' \in [Name -> Semaphore \cup {NoSemaphore}]
        /\ \A k \in Hunter : Memberships(k)' \subseteq Memberships(k)
        /\ UNCHANGED <<idState, offline>>
    BY <1>4, RemovalShrinks, RemoveKeeps DEF CleanUp
  <2>3. SemaphoreTypeOK'
    BY <2>1, <2>2 DEF SemaphoreTypeOK, Leaving
  <2>4. Memberships(h)' = {}
    BY <1>4, RemovalShrinks DEF CleanUp, RemoveMembers, Memberships, Registered, Exists
  <2>5. GoneHoldsNothing'
    BY <2>1, <2>2, <2>4 DEF GoneHoldsNothing, HoldsLifecycle, SemaphoreTypeOK
  <2>6. LeavingIsOffline'
    BY <2>1, <2>2 DEF LeavingIsOffline, SemaphoreTypeOK
  <2> QED
    BY <2>2, <2>3, <2>5, <2>6
<1> QED
  BY <1>1, <1>2, <1>3, <1>4

\* A room is created with its first member, or joined, or its host changes.
LEMMA JoinSteps ==
    ASSUME RoomsInv, NEW h \in Hunter, Join(h)
    PROVE  RoomsInv'
<1> USE DEF RoomsInv
<1>1. UNCHANGED <<gen, register, calls, tick, timer, killed, offline, leaving>>
  BY Zenon DEF Join, siegeVars, CreateAcquire, AcquireHost, Store
<1>2. SiegeTypeOK' /\ LeavingIsOffline'
  BY <1>1 DEF SiegeTypeOK, LeavingIsOffline
<1>3. ASSUME NEW n \in Name, CreateAcquire(h, n)
      PROVE  RoomsInv'
  <2>1. registry' = registry /\ ~offline[h]
        /\ handling' = [handling EXCEPT ![h] = [op |-> "store", name |-> n]]
    BY <1>3 DEF CreateAcquire, Working, StillOnline
  <2>2. idState' \in [Hunter -> [alt : BOOLEAN, used : [BOOLEAN -> 0 .. MaxCreates]]]
    <3>1. idState[h].alt \in BOOLEAN /\ idState[h].used \in [BOOLEAN -> 0 .. MaxCreates]
      BY DEF SemaphoreTypeOK
    <3>2. PICK alt, used :
            /\ alt = IF HasSemaphore(h) THEN ~idState[h].alt ELSE idState[h].alt
            /\ used = idState[h].used /\ used[alt] < MaxCreates
            /\ idState' = [idState EXCEPT ![h] =
                 [alt |-> alt, used |-> [used EXCEPT ![alt] = @ + 1]]]
      BY <1>3, Zenon DEF CreateAcquire
    <3>3. alt \in BOOLEAN
      BY <3>1, <3>2, Zenon
    <3>4. [used EXCEPT ![alt] = @ + 1] \in [BOOLEAN -> 0 .. MaxCreates]
      BY <3>1, <3>2, <3>3
    <3>5. [alt |-> alt, used |-> [used EXCEPT ![alt] = @ + 1]]
            \in [alt : BOOLEAN, used : [BOOLEAN -> 0 .. MaxCreates]]
      BY <3>3, <3>4, Zenon
    <3>6. PICK v \in [alt : BOOLEAN, used : [BOOLEAN -> 0 .. MaxCreates]] :
            idState' = [idState EXCEPT ![h] = v]
      BY <3>2, <3>5, Zenon
    <3> QED
      BY <3>6 DEF SemaphoreTypeOK
  <2>3. handling' \in [Hunter -> Handling]
    BY <2>1 DEF SemaphoreTypeOK, Handling
  <2>4. SemaphoreTypeOK'
    BY <1>1, <2>1, <2>2, <2>3 DEF SemaphoreTypeOK
  <2>5. NoEmptySemaphore' /\ NoSiegeWithoutRoom'
    BY <1>1, <2>1 DEF NoEmptySemaphore, NoSiegeWithoutRoom, Registered, Exists
  <2>6. GoneHoldsNothing'
    BY <1>1, <2>1 DEF GoneHoldsNothing, LeavingIsOffline, HoldsLifecycle, Memberships,
                      Registered, Exists, SemaphoreTypeOK
  <2> QED
    BY <1>2, <2>4, <2>5, <2>6
<1>4. ASSUME NEW n \in Name, AcquireHost(h, n)
      PROVE  RoomsInv'
  <2>1. registry[n] \in Semaphore /\ ~offline[h]
        /\ registry' = [registry EXCEPT ![n] = [registry[n] EXCEPT !.host = h]]
        /\ UNCHANGED <<idState, handling>>
    BY <1>4 DEF AcquireHost, Exists, SemaphoreTypeOK
  <2>2. [registry[n] EXCEPT !.host = h] \in Semaphore
        /\ [registry[n] EXCEPT !.host = h].clients = registry[n].clients
    BY <2>1 DEF Semaphore
  <2>3. registry' \in [Name -> Semaphore \cup {NoSemaphore}]
        /\ \A m \in Name : /\ Exists(m)' <=> Exists(m)
                           /\ Exists(m) => registry'[m].clients = registry[m].clients
    BY <2>1, <2>2, NoneIsNoSemaphore, Zenon DEF Exists, SemaphoreTypeOK
  <2>4. SemaphoreTypeOK'
    BY <1>1, <2>1, <2>3 DEF SemaphoreTypeOK
  <2>5. NoEmptySemaphore' /\ NoSiegeWithoutRoom'
    BY <1>1, <2>3 DEF NoEmptySemaphore, NoSiegeWithoutRoom, Registered
  <2>6. GoneHoldsNothing'
    BY <1>1, <2>1, <2>3 DEF GoneHoldsNothing, HoldsLifecycle, Memberships, Registered
  <2> QED
    BY <1>2, <2>4, <2>5, <2>6
<1>5. ASSUME Store(h)
      PROVE  RoomsInv'
  <2> DEFINE n == handling[h].name
             sema == IF Exists(n) THEN registry[n] ELSE NewSemaphore(h, n)
             joined == [sema EXCEPT !.clients = @ \cup {h}]
  <2>1. n \in Name /\ handling[h].op = "store" /\ handling[h] \in Handling
    BY <1>5 DEF Store, SemaphoreTypeOK, Handling, Idle
  <2>2. /\ registry' = IF Refused(h, n) THEN registry
                       ELSE [registry EXCEPT ![n] = IF MayJoin(h, sema) THEN joined ELSE sema]
        /\ handling' = [handling EXCEPT ![h] = Idle] /\ UNCHANGED idState
    BY <1>5 DEF Store, Working
  <2>3. NewSemaphore(h, n) \in Semaphore /\ NewSemaphore(h, n).clients = {}
        /\ NewSemaphore(h, n).max \in Nat \ {0}
    <3>1. CASE n \in RaviName
      BY <3>1 DEF NewSemaphore, Semaphore, Id
    <3>2. CASE n \notin RaviName
      <4>1. idState[h].alt \in BOOLEAN /\ idState[h].used[idState[h].alt] \in 0 .. MaxCreates
        BY DEF SemaphoreTypeOK
      <4>2. [alt |-> idState[h].alt, number |-> idState[h].used[idState[h].alt]] \in Id
        BY <4>1 DEF Id
      <4> QED
        BY <3>2, <4>2 DEF NewSemaphore, Semaphore
    <3> QED
      BY <3>1, <3>2
  <2>4. sema \in Semaphore
    BY <2>1, <2>3 DEF SemaphoreTypeOK, Exists
  <2>5. joined \in Semaphore /\ joined.clients = sema.clients \cup {h}
    BY <2>4 DEF Semaphore
  <2>6. ~Exists(n) /\ ~Refused(h, n) => MayJoin(h, sema)
    <3>1. Cardinality({}) = 0
      BY FS_EmptySet
    <3> SUFFICES ASSUME ~Exists(n), ~Refused(h, n)
                 PROVE  MayJoin(h, sema)
      OBVIOUS
    <3>2. sema.clients = {} /\ sema.max \in Nat \ {0}
      BY <2>3
    <3> HIDE DEF n, sema, joined
    <3>3. Cardinality(Memberships(h)) < MaxMemberships
      BY MembershipCount DEF Refused
    <3>4. Cardinality(sema.clients) < sema.max
      BY <3>1, <3>2
    <3> QED
      BY <3>3, <3>4 DEF MayJoin
  <2>7. ~Exists(n) \/ sema = registry[n]
    OBVIOUS
  <2> HIDE DEF n, sema, joined
  <2>8. /\ registry' \in [Name -> Semaphore \cup {NoSemaphore}]
        /\ \A m \in Name : /\ Exists(m) => Exists(m)'
                           /\ Exists(m)' /\ ~Exists(m) => registry'[m].clients = {h} \/ registry'[m].clients = sema.clients \cup {h}
                           /\ Exists(m) => /\ registry[m].clients \subseteq registry'[m].clients
                                           /\ registry'[m].clients \subseteq registry[m].clients \cup {h}
    <3>1. CASE Refused(h, n)
      BY <2>2, <3>1 DEF SemaphoreTypeOK, Exists
    <3>2. CASE ~Refused(h, n) /\ MayJoin(h, sema)
      <4>1. registry' = [registry EXCEPT ![n] = joined]
        BY <2>2, <3>2
      <4> QED
        BY <2>1, <2>5, <2>7, <4>1, NoneIsNoSemaphore DEF SemaphoreTypeOK, Exists
    <3>3. CASE ~Refused(h, n) /\ ~MayJoin(h, sema)
      <4>1. registry' = [registry EXCEPT ![n] = sema] /\ sema = registry[n] /\ Exists(n)
        BY <2>2, <2>6, <2>7, <3>3
      <4> QED
        BY <2>1, <4>1 DEF SemaphoreTypeOK, Exists
    <3> QED
      BY <3>1, <3>2, <3>3
  <2>9. SemaphoreTypeOK'
    BY <1>1, <2>2, <2>8 DEF SemaphoreTypeOK, Handling
  <2>10. NoEmptySemaphore'
    BY <2>8 DEF NoEmptySemaphore, Registered
  <2>11. NoSiegeWithoutRoom'
    BY <1>1, <2>8 DEF NoSiegeWithoutRoom
  <2>12. GoneHoldsNothing'
    <3> SUFFICES ASSUME NEW k \in Hunter, leaving'[k] = "gone"
                 PROVE  Memberships(k)' = {} /\ ~HoldsLifecycle(k)'
      BY DEF GoneHoldsNothing
    <3>1. Memberships(k) = {} /\ ~HoldsLifecycle(k)
      BY <1>1 DEF GoneHoldsNothing
    <3>2. k # h
      BY <2>1, <3>1 DEF HoldsLifecycle
    <3>3. ~HoldsLifecycle(k)'
      BY <2>2, <3>1, <3>2 DEF HoldsLifecycle, SemaphoreTypeOK
    <3>4. \A m \in Name : registry'[m] = registry[m] \/ m = n
      BY <2>2 DEF SemaphoreTypeOK
    <3>5. Memberships(k)' = {}
      <4> SUFFICES ASSUME NEW m \in Name, Exists(m)', k \in registry'[m].clients
                   PROVE  FALSE
        BY DEF Memberships, Registered
      <4>1. CASE Exists(m)
        BY <2>8, <3>1, <3>2, <4>1 DEF Memberships, Registered
      <4>2. CASE ~Exists(m)
        <5>1. m = n /\ sema.clients = {}
          BY <2>3, <3>4, <4>2 DEF Exists, sema, n
        <5> QED
          BY <2>8, <3>2, <4>2, <5>1
      <4> QED
        BY <4>1, <4>2
    <3> QED
      BY <3>3, <3>5
  <2> QED
    BY <1>2, <2>9, <2>10, <2>11, <2>12
<1> QED
  <2>1. (\E n \in Name : CreateAcquire(h, n) \/ AcquireHost(h, n)) \/ Store(h)
    BY DEF Join
  <2> QED
    BY <1>3, <1>4, <1>5, <2>1, Zenon

\* A change of the registers, by a packet, the command or the timer.
CallType == [op : {"start", "complete", "abort"}, gen : Nat]

LEMMA RegistersKeepRooms ==
    ASSUME RoomsInv, UNCHANGED semaphoreVars,
           register' \in [Reg -> 0 .. RegMod - 1], calls' \in Seq(CallType),
           ~RoomOpen /\ register[1] = 0 /\ register[2] = 0
               => register'[1] = 0 /\ register'[2] = 0,
           gen' = gen, killed' \subseteq Nat \X Nat,
           timer' \in [armed : BOOLEAN, gen : Nat, due : BOOLEAN],
           tick' \in {Waiting} \cup [at : {"registers"}, room : BOOLEAN, players : BOOLEAN]
                         \cup [at : {"fire"}, gen : Nat]
    PROVE  RoomsInv'
<1>1. /\ registry' = registry /\ idState' = idState /\ offline' = offline
      /\ handling' = handling /\ leaving' = leaving
  BY DEF semaphoreVars
<1>2. SemaphoreTypeOK' /\ NoEmptySemaphore' /\ GoneHoldsNothing' /\ LeavingIsOffline'
  <2>1. SemaphoreTypeOK /\ NoEmptySemaphore /\ GoneHoldsNothing /\ LeavingIsOffline
    BY Zenon DEF RoomsInv
  <2>2. SemaphoreTypeOK'
    BY <1>1, <2>1, Zenon DEF SemaphoreTypeOK
  <2>3. NoEmptySemaphore' /\ LeavingIsOffline'
    BY <1>1, <2>1, Zenon DEF NoEmptySemaphore, LeavingIsOffline, Registered, Exists
  <2>4. GoneHoldsNothing'
    BY <1>1, <2>1, Zenon
       DEF GoneHoldsNothing, Memberships, Registered, Exists, HoldsLifecycle
  <2> QED
    BY <2>2, <2>3, <2>4
<1>3. SiegeTypeOK'
  BY DEF RoomsInv, SiegeTypeOK, CallType
<1>4. NoSiegeWithoutRoom'
  BY <1>1 DEF RoomsInv, NoSiegeWithoutRoom, RoomOpen, Exists
<1> QED
  BY <1>2, <1>3, <1>4 DEF RoomsInv

LEMMA TypesOfSiege ==
    ASSUME RoomsInv
    PROVE  /\ register \in [Reg -> 0 .. RegMod - 1] /\ calls \in Seq(CallType)
           /\ gen \in Nat
           /\ timer \in [armed : BOOLEAN, gen : Nat, due : BOOLEAN]
           /\ tick \in {Waiting} \cup [at : {"registers"}, room : BOOLEAN, players : BOOLEAN]
                         \cup [at : {"fire"}, gen : Nat]
           /\ killed \subseteq Nat \X Nat
  BY DEF RoomsInv, SiegeTypeOK, CallType

LEMMA CallIsCall ==
    ASSUME RoomsInv, NEW op \in {"start", "complete", "abort"}
    PROVE  Call(op) \in CallType
  BY DEF RoomsInv, SiegeTypeOK, CallType, Call

LEMMA OperateSteps ==
    ASSUME RoomsInv, TrackerTypeOK, NEW p \in Packet, OperateRegister(p[1], p[2])
    PROVE  RoomsInv'
<1> DEFINE first == Written(register, p[1])
           second == Written(first, p[2])
           starts == IF (register[1] = 0 /\ first[1] # 0) \/ (first[1] = 0 /\ second[1] # 0)
                     THEN <<Call("start")>> ELSE <<>>
           ends == IF (register[2] = 0 /\ first[2] # 0) \/ (first[2] = 0 /\ second[2] # 0)
                   THEN <<Call("complete")>> ELSE <<>>
<1>1. p[1] \in Update /\ p[2] \in Update
  BY DEF RavienteAssumption
<1>2. /\ register' = second /\ calls' = starts \o ends
      /\ killed' = killed \/ killed' = killed \cup {<<boot, gen>>}
      /\ UNCHANGED <<gen, tick, timer>> /\ UNCHANGED semaphoreVars
  BY DEF OperateRegister
<1>3. first \in [Reg -> 0 .. RegMod - 1]
      /\ (~RoomOpen /\ register[1] = 0 /\ register[2] = 0 => first[1] = 0 /\ first[2] = 0)
  BY <1>1, WrittenType, TypesOfSiege
<1> HIDE DEF first
<1>4. second \in [Reg -> 0 .. RegMod - 1]
      /\ (~RoomOpen /\ first[1] = 0 /\ first[2] = 0 => second[1] = 0 /\ second[2] = 0)
  BY <1>1, <1>3, WrittenType
<1>5. starts \in Seq(CallType) /\ ends \in Seq(CallType)
  <2>1. Call("start") \in CallType /\ Call("complete") \in CallType
    BY CallIsCall
  <2>2. <<>> \in Seq(CallType) /\ <<Call("start")>> \in Seq(CallType)
        /\ <<Call("complete")>> \in Seq(CallType)
    BY <2>1
  <2> QED
    BY <2>2, Zenon
<1> HIDE DEF second, starts, ends
<1>6. calls' \in Seq(CallType)
  BY <1>2, <1>5
<1>7. killed' \subseteq Nat \X Nat
  <2>1. killed \subseteq Nat \X Nat /\ <<boot, gen>> \in Nat \X Nat
    BY TypesOfSiege DEF TrackerTypeOK
  <2> QED
    BY <1>2, <2>1
<1> QED
  BY <1>2, <1>3, <1>4, <1>6, <1>7, TypesOfSiege, RegistersKeepRooms

LEMMA StartKeepsRooms ==
    ASSUME RoomsInv, MayStart, StartNow, UNCHANGED <<gen, killed, semaphoreVars>>,
           timer' = timer \/ timer' = Disarmed, tick' = tick \/ tick' = Waiting
    PROVE  RoomsInv'
<1>1. calls' = <<Call("start")>> /\ register' = [register EXCEPT ![1] = register[3]]
  BY DEF StartNow
<1>2. calls' \in Seq(CallType)
  BY <1>1, CallIsCall
<1>3. register' \in [Reg -> 0 .. RegMod - 1]
  <2>1. register \in [Reg -> 0 .. RegMod - 1] /\ 3 \in Reg
    BY TypesOfSiege DEF Reg
  <2> QED
    BY <1>1, <2>1, Zenon
<1>4. RoomOpen
  BY DEF MayStart
<1>5. Disarmed \in [armed : BOOLEAN, gen : Nat, due : BOOLEAN]
  BY DEF Disarmed
<1> QED
  BY <1>2, <1>3, <1>4, <1>5, TypesOfSiege, RegistersKeepRooms

LEMMA ClockSteps ==
    ASSUME RoomsInv, TickRoom \/ TickRegisters \/ TimeUp \/ Fire
    PROVE  RoomsInv'
<1> DEFINE Timers == [armed : BOOLEAN, gen : Nat, due : BOOLEAN]
           Ticks == {Waiting} \cup [at : {"registers"}, room : BOOLEAN, players : BOOLEAN]
                         \cup [at : {"fire"}, gen : Nat]
<1>1. timer \in Timers /\ tick \in Ticks /\ gen \in Nat
  BY TypesOfSiege
<1>2. Disarmed \in Timers /\ Waiting \in Ticks
  BY DEF Disarmed
<1>3. ASSUME UNCHANGED tickUnchanged, timer' \in Timers, tick' \in Ticks
      PROVE  RoomsInv'
  BY <1>3, TypesOfSiege, RegistersKeepRooms DEF tickUnchanged
<1>4. CASE TickRoom
  <2>1. PICK open \in BOOLEAN, some \in BOOLEAN :
           tick' = [at |-> "registers", room |-> open, players |-> some]
    BY <1>4, Zenon DEF TickRoom, RoomOpen, Exists
  <2>2. tick' \in Ticks
    BY <2>1
  <2> QED
    BY <1>1, <1>3, <1>4, <2>2 DEF TickRoom
<1>5. CASE TickRegisters
  <2>1. UNCHANGED tickUnchanged
    BY <1>5 DEF TickRegisters
  <2>2. /\ tick' = Waiting \/ tick' = tick \/ tick' = [at |-> "fire", gen |-> gen]
        /\ timer' = Disarmed \/ timer' = timer
           \/ timer' = [armed |-> TRUE, gen |-> gen, due |-> FALSE]
    BY <1>5 DEF TickRegisters
  <2>3. [at |-> "fire", gen |-> gen] \in Ticks
        /\ [armed |-> TRUE, gen |-> gen, due |-> FALSE] \in Timers
    BY <1>1
  <2> HIDE DEF Timers, Ticks
  <2> QED
    BY <1>1, <1>2, <1>3, <2>1, <2>2, <2>3, Zenon
<1>6. CASE TimeUp
  <2>1. timer' \in Timers
    BY <1>1, <1>6, Zenon DEF TimeUp
  <2> QED
    BY <1>1, <1>3, <1>6, <2>1 DEF TimeUp
<1>7. CASE Fire
  <2>1. tick' = Waiting /\ timer' = Disarmed /\ UNCHANGED <<gen, killed, semaphoreVars>>
    BY <1>7 DEF Fire
  <2>2. CASE StillGathering
    BY <1>7, <2>1, <2>2, StartKeepsRooms DEF Fire, StillGathering
  <2>3. CASE ~StillGathering
    BY <1>2, <1>7, <2>1, <2>3, TypesOfSiege, RegistersKeepRooms DEF Fire
  <2> QED
    BY <2>2, <2>3
<1> QED
  BY <1>4, <1>5, <1>6, <1>7

LEMMA DisconnectSteps ==
    ASSUME RoomsInv, NEW h \in Hunter, Disconnect(h)
    PROVE  RoomsInv'
<1>1. /\ UNCHANGED <<registry, idState, handling>> /\ UNCHANGED siegeVars
      /\ offline' = [offline EXCEPT ![h] = TRUE]
      /\ leaving[h] = "online" /\ leaving' = [leaving EXCEPT ![h] = "leave"]
  BY DEF Disconnect
<1>2. SemaphoreTypeOK'
  BY <1>1 DEF RoomsInv, SemaphoreTypeOK, Leaving
<1>3. SiegeTypeOK' /\ NoSiegeWithoutRoom' /\ NoEmptySemaphore'
  BY <1>1 DEF RoomsInv, SiegeTypeOK, NoSiegeWithoutRoom, NoEmptySemaphore, siegeVars,
              Registered, Exists
<1>4. GoneHoldsNothing' /\ LeavingIsOffline'
  BY <1>1 DEF RoomsInv, GoneHoldsNothing, LeavingIsOffline, Memberships, Registered, Exists,
              HoldsLifecycle, SemaphoreTypeOK
<1> QED
  BY <1>2, <1>3, <1>4 DEF RoomsInv

LEMMA RestartSteps ==
    ASSUME RoomsInv, Restart
    PROVE  RoomsInv'
<1>1. /\ registry' = [n \in Name |-> NoSemaphore]
      /\ idState' = [h \in Hunter |-> [alt |-> FALSE, used |-> [m \in BOOLEAN |-> 0]]]
      /\ offline' = [h \in Hunter |-> FALSE] /\ handling' = [h \in Hunter |-> Idle]
      /\ leaving' = [h \in Hunter |-> "online"]
      /\ gen' = 0 /\ register' = Zero /\ calls' = <<>>
      /\ tick' = Waiting /\ timer' = Disarmed /\ killed' = killed
  BY DEF Restart
<1>2. SemaphoreTypeOK'
  BY <1>1 DEF SemaphoreTypeOK, Handling, Leaving
<1>3. SiegeTypeOK'
  BY <1>1 DEF RoomsInv, SiegeTypeOK, Zero, Disarmed, Reg
<1>4. NoEmptySemaphore' /\ NoSiegeWithoutRoom'
  BY <1>1 DEF NoEmptySemaphore, NoSiegeWithoutRoom, Registered, Exists, Zero, Reg
<1>5. GoneHoldsNothing' /\ LeavingIsOffline'
  BY <1>1 DEF GoneHoldsNothing, LeavingIsOffline
<1> QED
  BY <1>2, <1>3, <1>4, <1>5 DEF RoomsInv

LEMMA QuietSteps ==
    ASSUME RoomsInv, UNCHANGED <<semaphoreVars, gen, register, tick, timer, killed>>,
           calls' = calls \/ (calls # <<>> /\ calls' = Tail(calls))
    PROVE  RoomsInv'
<1>1. calls' \in Seq(CallType)
  <2>1. calls \in Seq(CallType)
    BY TypesOfSiege
  <2> HIDE DEF CallType
  <2> QED
    BY <2>1
<1> QED
  BY <1>1, TypesOfSiege, RegistersKeepRooms

LEMMA RoomsStep == TrackerTypeOK /\ RoomsInv /\ [RavienteNext]_raviVars => RoomsInv'
<1> SUFFICES ASSUME TrackerTypeOK, RoomsInv, [RavienteNext]_raviVars
             PROVE  RoomsInv'
  OBVIOUS
<1>1. ASSUME NEW h \in Hunter, Join(h)
      PROVE  RoomsInv'
  BY <1>1, JoinSteps
<1>2. ASSUME NEW h \in Hunter, Delete(h) \/ DeleteMember(h) \/ LeaveRooms(h) \/ CleanUp(h)
      PROVE  RoomsInv'
  BY <1>2, RemovalSteps
<1>3. ASSUME NEW h \in Hunter, Disconnect(h)
      PROVE  RoomsInv'
  BY <1>3, DisconnectSteps
<1>4. ASSUME NEW p \in Packet, OperateRegister(p[1], p[2])
      PROVE  RoomsInv'
  BY <1>4, OperateSteps
<1>5. CASE StartCommand
  BY <1>5, StartKeepsRooms DEF StartCommand
<1>6. CASE TrackerCall
  BY <1>6, QuietSteps DEF TrackerCall
<1>7. ASSUME NEW k \in Kind, NEW p \in Player, EnterQuest(k, p)
      PROVE  RoomsInv'
  BY <1>7, QuietSteps DEF EnterQuest, siegeVars
<1>8. CASE AutoStart \/ TimeUp
  BY <1>8, ClockSteps DEF AutoStart
<1>9. CASE Restart
  BY <1>9, RestartSteps
<1>10. CASE UNCHANGED raviVars
  BY <1>10, QuietSteps DEF raviVars, siegeVars
<1> QED
  BY <1>1, <1>2, <1>3, <1>4, <1>5, <1>6, <1>7, <1>8, <1>9, <1>10, Zenon DEF RavienteNext

-----------------------------------------------------------------------------
(* The tracker and its table.                                                *)

\* A generation that has been marked is over.
LEMMA MarkedTerminal ==
    ASSUME terminal \in Seq(Nat), NEW g \in Nat
    PROVE  /\ MarkTerminal(g) \in Seq(Nat)
           /\ \E i \in DOMAIN MarkTerminal(g) : MarkTerminal(g)[i] = g
<1>1. CASE Over(g)
  BY <1>1 DEF Over, MarkTerminal
<1>2. CASE ~Over(g)
  <2> DEFINE all == Append(terminal, g)
  <2>1. all \in Seq(Nat) /\ Len(all) = Len(terminal) + 1 /\ all[Len(all)] = g
        /\ Len(terminal) \in Nat
    OBVIOUS
  <2>2. MarkTerminal(g) = IF Len(all) <= History THEN all ELSE Tail(all)
    BY <1>2 DEF MarkTerminal
  <2>3. CASE Len(all) <= History
    BY <2>1, <2>2, <2>3
  <2>4. CASE Len(all) > History
    <3>1. Len(terminal) >= 1 /\ MarkTerminal(g) = Tail(all)
      BY <2>1, <2>2, <2>4 DEF TrackerAssumption
    <3> HIDE DEF all
    <3>2. all # <<>>
      BY <2>1
    <3>3. /\ Tail(all) \in Seq(Nat) /\ Len(Tail(all)) = Len(all) - 1
          /\ \A i \in 1 .. Len(Tail(all)) : Tail(all)[i] = all[i + 1]
      BY <2>1, <3>2, HeadTailProperties
    <3>4. Len(terminal) \in 1 .. Len(Tail(all)) /\ Tail(all)[Len(terminal)] = g
      BY <2>1, <3>1, <3>3
    <3>5. Len(terminal) \in DOMAIN Tail(all)
      BY <3>3, <3>4, LenProperties
    <3> QED
      BY <3>1, <3>3, <3>4, <3>5, Zenon
  <2> QED
    BY <2>1, <2>3, <2>4
<1> QED
  BY <1>1, <1>2

\* The table with one row changed, which does not become active.
SameBut(table, id) ==
    /\ table \in Seq(Row) /\ DOMAIN table = DOMAIN rows /\ Len(table) = Len(rows)
    /\ \A j \in DOMAIN rows :
         /\ table[j].siege = rows[j].siege
         /\ table[j].status = "active" => rows[j].status = "active"
         /\ j # id => table[j] = rows[j]

LEMMA RowsReplaced ==
    ASSUME rows \in Seq(Row), NEW id \in DOMAIN rows, NEW r \in Row,
           r.siege = rows[id].siege, r.status = "active" => rows[id].status = "active"
    PROVE  SameBut([rows EXCEPT ![id] = r], id) /\ [rows EXCEPT ![id] = r][id] = r
<1>1. id \in 1 .. Len(rows) /\ DOMAIN rows = 1 .. Len(rows)
  BY LenProperties
<1> DEFINE table == [rows EXCEPT ![id] = r]
<1>2. /\ table \in Seq(Row) /\ Len(table) = Len(rows)
      /\ \A j \in 1 .. Len(rows) : table[j] = IF j = id THEN r ELSE rows[j]
  BY <1>1, ExceptSeq
<1>3. DOMAIN table = DOMAIN rows
  OBVIOUS
<1> HIDE DEF table
<1>4. SameBut(table, id) /\ table[id] = r
  BY <1>1, <1>2, <1>3 DEF SameBut
<1> QED
  BY <1>4 DEF table

LEMMA RowParts ==
    ASSUME rows \in Seq(Row), NEW id \in DOMAIN rows
    PROVE  /\ rows[id] \in Row /\ rows[id].siege \in Nat \X Nat
           /\ rows[id].status \in {"active", "completed", "aborted"}
           /\ rows[id].kind \in Kind \cup {Unknown} /\ rows[id].team \subseteq Player
<1>1. rows[id] \in Row
  BY LenProperties, ElementOfSeq
<1> QED
  BY <1>1 DEF Row

LEMMA RowsEnded ==
    ASSUME rows \in Seq(Row), NEW id \in DOMAIN rows
    PROVE  LET table == End(id, "aborted") IN
           /\ SameBut(table, id) /\ table[id].status # "active"
           /\ table[id].status = "completed" => table[id] = rows[id]
           /\ table = rows \/ (rows[id].status = "active"
                                 /\ table = [rows EXCEPT ![id].status = "aborted"])
<1>0. rows[id] \in Row
  BY RowParts
<1> DEFINE r == [rows[id] EXCEPT !.status = "aborted"]
<1>1. CASE rows[id].status = "active"
  <2>1. r \in Row /\ r.siege = rows[id].siege /\ r.status = "aborted"
    BY <1>0, Zenon DEF Row
  <2>2. End(id, "aborted") = [rows EXCEPT ![id] = r]
    BY <1>1 DEF End
  <2>3. End(id, "aborted") = [rows EXCEPT ![id].status = "aborted"]
    BY <1>1 DEF End
  <2> HIDE DEF r
  <2>4. SameBut([rows EXCEPT ![id] = r], id) /\ [rows EXCEPT ![id] = r][id] = r
    BY <2>1, RowsReplaced, Zenon
  <2> QED
    BY <1>1, <2>1, <2>2, <2>3, <2>4, Zenon
<1>2. CASE rows[id].status # "active"
  BY <1>2 DEF End, SameBut
<1> QED
  BY <1>1, <1>2

LEMMA RowsEnrolled ==
    ASSUME rows \in Seq(Row), NEW id \in DOMAIN rows, NEW k \in Kind, NEW p \in Player
    PROVE  LET table == Enrolled(id, k, p) IN
           /\ SameBut(table, id) /\ table[id].status = rows[id].status
           /\ table[id].kind \in {k, rows[id].kind} /\ rows[id].team \subseteq table[id].team
           /\ \/ table = rows
              \/ /\ rows[id].status = "active" /\ rows[id].kind \in {k, Unknown}
                 /\ table = [rows EXCEPT ![id].kind = k, ![id].team = @ \cup {p}]
<1>0. rows[id] \in Row
  BY RowParts
<1> DEFINE r == [rows[id] EXCEPT !.kind = k, !.team = @ \cup {p}]
<1>1. CASE rows[id].status = "active" /\ rows[id].kind \in {k, Unknown}
  <2>1. r \in Row /\ r.siege = rows[id].siege /\ r.status = rows[id].status
        /\ r.kind = k /\ r.team = rows[id].team \cup {p}
    BY <1>0, Zenon DEF Row
  <2>2. Enrolled(id, k, p) = [rows EXCEPT ![id].kind = k, ![id].team = @ \cup {p}]
    BY <1>1 DEF Enrolled
  <2>3. Enrolled(id, k, p) = [rows EXCEPT ![id] = r]
    BY <1>1, Zenon DEF Enrolled
  <2> HIDE DEF r
  <2>4. SameBut([rows EXCEPT ![id] = r], id) /\ [rows EXCEPT ![id] = r][id] = r
    BY <2>1, RowsReplaced, Zenon
  <2> QED
    BY <1>1, <2>1, <2>2, <2>3, <2>4, Zenon
<1>2. CASE ~(rows[id].status = "active" /\ rows[id].kind \in {k, Unknown})
  BY <1>2 DEF Enrolled, SameBut
<1> QED
  BY <1>1, <1>2, Zenon

LEMMA RowsCompleted ==
    ASSUME rows \in Seq(Row), NEW id \in DOMAIN rows, NEW k \in Kind,
           NEW team \in SUBSET Player
    PROVE  /\ SameBut(Completed(id, k, team), id)
           /\ Completed(id, k, team)[id].status # "active"
           /\ rows[id].status # "active" => Completed(id, k, team) = rows
           /\ rows[id].status = "active"
                => Completed(id, k, team)[id].team = rows[id].team \cup team
<1>0. rows[id] \in Row
  BY RowParts
<1> DEFINE r == [rows[id] EXCEPT !.status = "completed", !.kind = k, !.team = @ \cup team]
<1>1. CASE rows[id].status = "active"
  <2>1. r \in Row /\ r.siege = rows[id].siege /\ r.status = "completed"
        /\ r.team = rows[id].team \cup team
    BY <1>0, Zenon DEF Row
  <2>2. Completed(id, k, team) = [rows EXCEPT ![id] = r]
    BY <1>1, Zenon DEF Completed
  <2> HIDE DEF r
  <2>3. SameBut([rows EXCEPT ![id] = r], id) /\ [rows EXCEPT ![id] = r][id] = r
    BY <2>1, RowsReplaced, Zenon
  <2> QED
    BY <1>1, <2>1, <2>2, <2>3
<1>2. CASE rows[id].status # "active"
  BY <1>2 DEF Completed, SameBut
<1> QED
  BY <1>1, <1>2

\* What a tracker operation about the generation of the tracker's run, or about the
\* current one, leaves; and what it is for the readers of the history.
Same == UNCHANGED <<boot, gen>> /\ killed \subseteq killed'

Kept ==
    /\ TrackerTypeOK' /\ OneActive' /\ RunHasItsRow' /\ RowsAreOld' /\ RecordedIsKnown'
    /\ CompletedWereKilled' /\ [Records!Next]_rows

\* What does not depend on the operation as long as it changes one row.
LEMMA SameTable ==
    ASSUME RecordsInv, Same, NEW id \in DOMAIN rows, SameBut(rows', id),
           rows'[id].status = "completed" => rows'[id].siege \in killed' /\ rows'[id].team # {}
    PROVE  /\ OneActive' /\ RowsAreOld' /\ CompletedWereKilled'
           /\ \A g : Recorded(g)' <=> Recorded(g)
<1> USE DEF SameBut, RecordsInv, Same
<1>1. OneActive'
  BY DEF OneActive
<1>2. RowsAreOld'
  BY DEF RowsAreOld
<1>3. \A g : Recorded(g)' <=> Recorded(g)
  BY Zenon DEF Recorded
<1>4. CompletedWereKilled'
  BY DEF CompletedWereKilled
<1> QED
  BY <1>1, <1>2, <1>3, <1>4

LEMMA RunParts ==
    ASSUME RecordsInv, active # NoRun
    PROVE  /\ active \in Run /\ active.id \in DOMAIN rows /\ active.gen \in Nat
           /\ active.gen <= gen /\ rows[active.id].siege = <<boot, active.gen>>
           /\ rows \in Seq(Row) /\ terminal \in Seq(Nat) /\ boot \in Nat \ {0}
           /\ active.team \subseteq Player /\ active.kind \in Kind \cup {Unknown}
           /\ [active EXCEPT !.closed = TRUE] \in Run
           /\ [active EXCEPT !.closed = TRUE].id = active.id
           /\ [active EXCEPT !.closed = TRUE].gen = active.gen
           /\ [active EXCEPT !.closed = TRUE].kind = active.kind
  BY Zenon DEF RecordsInv, TrackerTypeOK, RunHasItsRow, Run

LEMMA FaultsCounted ==
    ASSUME RecordsInv, NEW a, Count(a)
    PROVE  faults' \in Nat
  BY DEF Count, RecordsInv, TrackerTypeOK

LEMMA TombstoneKeeps ==
    ASSUME RecordsInv, Same, NEW g \in Nat, Tombstone(g), g # gen => ~Recorded(gen)
    PROVE  Kept /\ (Recorded(gen)' <=> Recorded(gen))
<1>1. terminal' = MarkTerminal(g) /\ UNCHANGED <<boot, active, rows, faults>>
  BY DEF Tombstone
<1>2. terminal' \in Seq(Nat) /\ \E i \in DOMAIN terminal' : terminal'[i] = g
  BY <1>1, MarkedTerminal DEF RecordsInv, TrackerTypeOK
<1>3. TrackerTypeOK' /\ OneActive' /\ RunHasItsRow' /\ RowsAreOld' /\ CompletedWereKilled'
  BY <1>1, <1>2, Zenon DEF RecordsInv, TrackerTypeOK, OneActive, RunHasItsRow, RowsAreOld,
                    CompletedWereKilled, Same
<1>4. RecordedIsKnown'
  BY <1>1, <1>2 DEF RecordedIsKnown, Recorded, Over, Same
<1> QED
  BY <1>1, <1>3, <1>4 DEF Kept, Recorded, Same

LEMMA GivenUp ==
    ASSUME rows \in Seq(Row), NEW id \in DOMAIN rows, rows' = rows \/ rows' = End(id, "aborted")
    PROVE  [Records!Next]_rows
<1>1. CASE rows' = rows
  BY <1>1
<1>2. CASE rows[id].status = "active" /\ rows' = [rows EXCEPT ![id].status = "aborted"]
  BY <1>2, Zenon DEF Records!Next, Records!GiveUp
<1> QED
  BY <1>1, <1>2, RowsEnded

LEMMA AbortKeeps ==
    ASSUME RecordsInv, Same, NEW g \in Nat, active # NoRun, active.gen = g, AbortActive(g),
           g # gen => ~Recorded(gen)
    PROVE  Kept /\ (Recorded(gen)' <=> Recorded(gen))
<1>1. PICK a \in Answers :
         /\ rows' = IF a.applied THEN End(active.id, "aborted") ELSE rows
         /\ Count(a)
         /\ \/ active' = NoRun /\ terminal' = MarkTerminal(g)
            \/ active' = [active EXCEPT !.closed = TRUE] /\ UNCHANGED terminal
  BY DEF AbortActive
<1> DEFINE id == active.id
<1>2. /\ SameBut(rows', id)
      /\ rows'[id].status = "active" => rows' = rows
      /\ rows'[id].status = "completed" => rows'[id] = rows[id]
  <2>1. CASE rows' = rows
    BY <2>1, RunParts DEF SameBut
  <2>2. CASE rows' = End(id, "aborted")
    BY <2>2, RunParts, RowsEnded, Zenon
  <2> QED
    BY <1>1, <2>1, <2>2
<1>3. OneActive' /\ RowsAreOld' /\ CompletedWereKilled' /\ \A k : Recorded(k)' <=> Recorded(k)
  <2>1. rows'[id].status = "completed" =>
                rows'[id].siege \in killed' /\ rows'[id].team # {}
    BY <1>2, RunParts, Zenon DEF RecordsInv, CompletedWereKilled, Same
  <2> HIDE DEF id
  <2>2. id \in DOMAIN rows
    BY RunParts DEF id
  <2> QED
    BY <1>2, <2>1, <2>2, SameTable
<1>4. faults' \in Nat /\ boot' = boot /\ gen' = gen /\ boot \in Nat \ {0}
  BY <1>1, FaultsCounted, RunParts DEF Same
<1>5. [Records!Next]_rows
  BY <1>1, RunParts, GivenUp
<1>6. CASE active' = NoRun /\ terminal' = MarkTerminal(g)
  <2>1. terminal' \in Seq(Nat) /\ \E i \in DOMAIN terminal' : terminal'[i] = g
    BY <1>6, RunParts, MarkedTerminal, Zenon
  <2>2. TrackerTypeOK' /\ RunHasItsRow'
    BY <1>2, <1>4, <1>6, <2>1 DEF TrackerTypeOK, RunHasItsRow, SameBut
  <2>3. RecordedIsKnown'
    BY <1>3, <1>4, <2>1, Zenon DEF RecordedIsKnown, Over, Recorded
  <2> QED
    BY <1>3, <1>4, <1>5, <2>2, <2>3, Zenon DEF Kept, Recorded
<1>7. CASE active' = [active EXCEPT !.closed = TRUE] /\ terminal' = terminal
  <2>1. /\ active' \in Run /\ active'.id = id /\ active'.gen = active.gen
        /\ active'.kind = active.kind /\ terminal' \in Seq(Nat)
    BY <1>7, RunParts
  <2>2. TrackerTypeOK'
    BY <1>2, <1>4, <2>1 DEF TrackerTypeOK, SameBut
  <2>3. RunHasItsRow'
    <3>1. id \in DOMAIN rows' /\ rows'[id].siege = rows[id].siege
      BY <1>2, RunParts, Zenon DEF SameBut
    <3>2. rows'[id].status = "active" => rows'[id].kind \in {Unknown, active.kind}
      BY <1>2 DEF RecordsInv, RunHasItsRow
    <3> QED
      BY <1>4, <2>1, <3>1, <3>2, RunParts, Zenon DEF RunHasItsRow
  <2>4. RecordedIsKnown'
    <3>1. active' # NoRun
      BY <2>1 DEF TrackerAssumption
    <3> QED
      BY <1>3, <1>4, <2>1, <3>1, Zenon DEF RecordedIsKnown, RunIs, Recorded
  <2> QED
    BY <1>3, <1>4, <1>5, <2>2, <2>3, <2>4, Zenon DEF Kept, Recorded
<1> QED
  BY <1>1, <1>6, <1>7

LEMMA CompleteKeeps ==
    ASSUME RecordsInv, Same, NEW g \in Nat, Complete(g), g # gen => ~Recorded(gen),
           <<boot, g>> \in killed
    PROVE  Kept /\ (Recorded(gen)' <=> Recorded(gen))
<1>1. CASE Tombstone(g)
  BY <1>1, TombstoneKeeps
<1>2. CASE ~Stale(g) /\ UNCHANGED trackerVars
  BY <1>2 DEF trackerVars, Kept, Recorded, Same, RecordsInv, TrackerTypeOK, OneActive,
              RunHasItsRow, RowsAreOld, RecordedIsKnown, CompletedWereKilled, Over, RunIs
<1>3. CASE ~Stale(g) /\ AbortActive(g)
  BY <1>3, AbortKeeps DEF Stale
<1>4. CASE /\ ~Stale(g) /\ active.kind # Unknown /\ active.team # {}
           /\ \E a \in Answers :
                /\ rows' = IF a.applied THEN Completed(active.id, active.kind, active.team)
                           ELSE rows
                /\ Count(a)
                /\ IF a.ok THEN active' = NoRun /\ terminal' = MarkTerminal(g)
                   ELSE UNCHANGED <<active, terminal>>
  <2>1. PICK a \in Answers :
           /\ rows' = IF a.applied THEN Completed(active.id, active.kind, active.team)
                      ELSE rows
           /\ Count(a)
           /\ \/ active' = NoRun /\ terminal' = MarkTerminal(g)
              \/ UNCHANGED <<active, terminal>>
    BY <1>4
  <2> DEFINE id == active.id
  <2>2. active # NoRun /\ active.gen = g /\ active.kind # Unknown /\ active.team # {}
    BY <1>4 DEF Stale
  <2>3. active.kind \in Kind /\ active.team \in SUBSET Player
    BY <2>2, RunParts, Zenon
  <2>4. /\ SameBut(rows', id)
        /\ rows'[id].status = "active" => rows' = rows
        /\ \/ rows' = rows
           \/ /\ rows[id].status = "active" /\ rows'[id].team = rows[id].team \cup active.team
              /\ rows' = Completed(id, active.kind, active.team)
    <3>1. CASE rows' = rows
      BY <2>2, <3>1, RunParts DEF SameBut
    <3>2. CASE rows' = Completed(id, active.kind, active.team)
      <4>1. id \in DOMAIN rows /\ rows \in Seq(Row)
        BY <2>2, RunParts
      <4> HIDE DEF id
      <4> QED
        BY <2>3, <3>2, <4>1, RowsCompleted
    <3> QED
      BY <2>1, <3>1, <3>2
  <2>5. OneActive' /\ RowsAreOld' /\ CompletedWereKilled' /\ \A k : Recorded(k)' <=> Recorded(k)
    <3>1. id \in DOMAIN rows /\ rows'[id].siege = <<boot, g>>
      BY <2>2, <2>4, RunParts, Zenon DEF SameBut
    <3>2. rows'[id].status = "completed" =>
                rows'[id].siege \in killed' /\ rows'[id].team # {}
      BY <2>2, <2>4, <3>1 DEF RecordsInv, CompletedWereKilled, Same
    <3> HIDE DEF id
    <3> QED
      BY <2>4, <3>1, <3>2, SameTable
  <2>6. faults' \in Nat /\ boot' = boot /\ gen' = gen /\ boot \in Nat \ {0}
    BY <2>1, <2>2, FaultsCounted, RunParts DEF Same
  <2>7. [Records!Next]_rows
    <3>1. CASE rows' = rows
      BY <3>1
    <3>2. CASE rows' # rows
      <4>1. rows[id].kind \in {active.kind, Unknown} /\ id \in DOMAIN rows
        BY <2>2, <2>4, <3>2, RunParts, Zenon DEF RecordsInv, RunHasItsRow
      <4>2. rows[id].team \cup active.team # {}
        BY <2>2
      <4>3. /\ rows[id].status = "active"
            /\ rows' = [rows EXCEPT ![id].status = "completed", ![id].kind = active.kind,
                                    ![id].team = @ \cup active.team]
        BY <2>4, <3>2 DEF Completed
      <4>4. Records!Finish
        BY <2>3, <4>1, <4>2, <4>3, Zenon DEF Records!Finish
      <4> QED
        BY <4>4 DEF Records!Next
    <3> QED
      BY <3>1, <3>2
  <2>8. CASE active' = NoRun /\ terminal' = MarkTerminal(g)
    <3>1. terminal' \in Seq(Nat) /\ \E i \in DOMAIN terminal' : terminal'[i] = g
      BY <2>2, <2>8, RunParts, MarkedTerminal, Zenon
    <3>2. TrackerTypeOK' /\ RunHasItsRow'
      BY <2>4, <2>6, <2>8, <3>1 DEF TrackerTypeOK, RunHasItsRow, SameBut
    <3>3. RecordedIsKnown'
      BY <2>5, <2>6, <3>1, Zenon DEF RecordedIsKnown, Over, Recorded
    <3> QED
      BY <2>5, <2>6, <2>7, <3>2, <3>3, Zenon DEF Kept, Recorded
  <2>9. CASE UNCHANGED <<active, terminal>>
    <3>1. TrackerTypeOK'
      BY <2>4, <2>6, <2>9 DEF TrackerTypeOK, SameBut, RecordsInv
    <3>2. RunHasItsRow'
      <4>1. id \in DOMAIN rows' /\ rows'[id].siege = rows[id].siege
        BY <2>2, <2>4, RunParts, Zenon DEF SameBut
      <4>2. rows'[id].status = "active" => rows'[id].kind \in {Unknown, active.kind}
        BY <2>2, <2>4 DEF RecordsInv, RunHasItsRow
      <4> QED
        BY <2>2, <2>6, <2>9, <4>1, <4>2, RunParts, Zenon DEF RunHasItsRow
    <3>3. RecordedIsKnown'
      BY <2>2, <2>5, <2>6, <2>9, Zenon DEF RecordedIsKnown, RunIs, Recorded
    <3> QED
      BY <2>5, <2>6, <2>7, <3>1, <3>2, <3>3, Zenon DEF Kept, Recorded
  <2> QED
    BY <2>1, <2>8, <2>9
<1> QED
  BY <1>1, <1>2, <1>3, <1>4 DEF Complete

LEMMA ObserveKeeps ==
    ASSUME RecordsInv, Same, NEW k \in Kind, NEW p \in Player, Observe(k, p)
    PROVE  Kept /\ (Recorded(gen)' <=> Recorded(gen))
<1> DEFINE id == active.id
           run == [active EXCEPT !.kind = k, !.team = @ \cup {p}]
<1>1. PICK a \in Answers :
         /\ rows' = IF a.applied THEN Enrolled(active.id, k, p) ELSE rows
         /\ Count(a)
  BY DEF Observe
<1>2. /\ active # NoRun /\ active.kind \in {k, Unknown} /\ active' = run
      /\ UNCHANGED terminal
  BY DEF Observe
<1>3. /\ run \in Run /\ run.id = id /\ run.gen = active.gen /\ run.kind = k
  BY <1>2, RunParts, Zenon DEF Run
<1>4. id \in DOMAIN rows /\ rows \in Seq(Row) /\ terminal \in Seq(Nat)
  BY <1>2, RunParts
<1> HIDE DEF id, run
<1>5. rows' = rows \/ rows' = Enrolled(id, k, p)
  BY <1>1 DEF id
<1>6. /\ SameBut(rows', id) /\ rows'[id].status = rows[id].status
      /\ rows'[id].kind \in {k, rows[id].kind} /\ rows[id].team \subseteq rows'[id].team
      /\ \/ rows' = rows
         \/ /\ rows[id].status = "active" /\ rows[id].kind \in {k, Unknown}
            /\ rows' = [rows EXCEPT ![id].kind = k, ![id].team = @ \cup {p}]
  <2>1. CASE rows' = rows
    BY <1>4, <2>1 DEF SameBut
  <2>2. CASE rows' = Enrolled(id, k, p)
    BY <1>4, <2>2, RowsEnrolled, ZenonT(60)
  <2> QED
    BY <1>5, <2>1, <2>2
<1>7. OneActive' /\ RowsAreOld' /\ CompletedWereKilled' /\ \A g : Recorded(g)' <=> Recorded(g)
  <2>1. rows'[id].status = "completed" => rows'[id].siege \in killed' /\ rows'[id].team # {}
    BY <1>4, <1>6, Zenon DEF RecordsInv, CompletedWereKilled, Same, SameBut
  <2> QED
    BY <1>4, <1>6, <2>1, SameTable, Zenon
<1>8. faults' \in Nat /\ boot' = boot /\ gen' = gen /\ boot \in Nat \ {0}
  BY <1>1, <1>2, FaultsCounted, RunParts DEF Same
<1>9. [Records!Next]_rows
  <2>1. CASE rows' = rows
    BY <2>1
  <2>2. CASE rows' # rows
    BY <1>4, <1>6, <2>2, Zenon DEF Records!Next, Records!Join
  <2> QED
    BY <2>1, <2>2
<1>10. TrackerTypeOK'
  BY <1>2, <1>3, <1>4, <1>6, <1>8 DEF TrackerTypeOK, SameBut
<1>11. RunHasItsRow'
  <2>1. id \in DOMAIN rows' /\ rows'[id].siege = rows[id].siege
    BY <1>4, <1>6 DEF SameBut
  <2>2. rows'[id].status = "active" => rows'[id].kind \in {Unknown, k}
    BY <1>2, <1>6 DEF RecordsInv, RunHasItsRow, id
  <2> QED
    BY <1>2, <1>3, <1>8, <2>1, <2>2, RunParts, Zenon DEF RunHasItsRow, id
<1>12. RecordedIsKnown'
  <2>1. active' # NoRun
    BY <1>2, <1>3 DEF TrackerAssumption
  <2> SUFFICES ASSUME NEW i \in DOMAIN rows', rows'[i].siege = <<boot, gen>>
               PROVE  Over(gen)' \/ RunIs(gen)' \/ rows'[i].status = "active"
    BY <1>8 DEF RecordedIsKnown
  <2>2. Over(gen) \/ RunIs(gen) \/ rows[i].status = "active"
    BY <1>6, Zenon DEF SameBut, RecordsInv, RecordedIsKnown
  <2>3. i = id \/ rows'[i] = rows[i]
    BY <1>6 DEF SameBut
  <2> QED
    BY <1>2, <1>3, <1>6, <1>8, <2>1, <2>2, <2>3 DEF Over, RunIs
<1> QED
  BY <1>7, <1>8, <1>9, <1>10, <1>11, <1>12, Zenon DEF Kept, Recorded

LEMMA InitializeKeeps ==
    ASSUME RecordsInv, RoomsInv, Restart
    PROVE  /\ TrackerTypeOK' /\ OneActive' /\ RunHasItsRow' /\ RowsAreOld'
           /\ RecordedIsKnown' /\ CompletedWereKilled' /\ [Records!Next]_rows
<1>1. /\ boot' = boot + 1 /\ active' = NoRun /\ terminal' = <<>> /\ gen' = 0
      /\ killed' = killed /\ boot < MaxBoots
  BY DEF Restart, Initialize
<1>2. /\ rows \in Seq(Row) /\ boot \in Nat \ {0} /\ MaxBoots \in Nat
  BY DEF RecordsInv, TrackerTypeOK, RavienteAssumption
<1> DEFINE closed == [i \in DOMAIN rows |->
                        [rows[i] EXCEPT !.status = IF @ = "active" THEN "aborted" ELSE @]]
<1>3. PICK a \in Answers : rows' = (IF a.applied THEN closed ELSE rows) /\ Count(a)
  BY DEF Restart, Initialize
<1>4. \A i \in DOMAIN rows :
         /\ closed[i] \in Row /\ closed[i].siege = rows[i].siege
         /\ closed[i].status # "active"
         /\ rows[i].status # "active" => closed[i] = rows[i]
         /\ rows[i].status = "active" => closed[i] = [rows[i] EXCEPT !.status = "aborted"]
         /\ closed[i].status = "completed" => closed[i] = rows[i]
  <2> SUFFICES ASSUME NEW i \in DOMAIN rows
               PROVE  /\ closed[i] \in Row /\ closed[i].siege = rows[i].siege
                      /\ closed[i].status # "active"
                      /\ rows[i].status # "active" => closed[i] = rows[i]
                      /\ rows[i].status = "active"
                            => closed[i] = [rows[i] EXCEPT !.status = "aborted"]
                      /\ closed[i].status = "completed" => closed[i] = rows[i]
    OBVIOUS
  <2>1. rows[i] \in Row
    BY <1>2, RowParts
  <2>2. closed[i] = [rows[i] EXCEPT !.status = IF @ = "active" THEN "aborted" ELSE @]
    OBVIOUS
  <2> HIDE DEF closed
  <2>3. CASE rows[i].status = "active"
    <3>1. closed[i] = [rows[i] EXCEPT !.status = "aborted"]
      BY <2>2, <2>3
    <3> QED
      BY <2>1, <2>3, <3>1 DEF Row
  <2>4. CASE rows[i].status # "active"
    <3>1. closed[i] = [rows[i] EXCEPT !.status = rows[i].status]
      BY <2>2, <2>4
    <3>2. closed[i] = rows[i]
      BY <2>1, <3>1 DEF Row
    <3> QED
      BY <2>1, <2>4, <3>2 DEF Row
  <2> QED
    BY <2>3, <2>4
<1>5. closed \in Seq(Row) /\ DOMAIN closed = DOMAIN rows
  <2>1. DOMAIN closed = DOMAIN rows
    OBVIOUS
  <2>2. DOMAIN rows = 1 .. Len(rows) /\ Len(rows) \in Nat
    BY <1>2, LenProperties
  <2>3. closed \in [1 .. Len(rows) -> Row]
    BY <1>4, <2>2, Zenon
  <2> HIDE DEF closed
  <2> QED
    BY <2>1, <2>2, <2>3, SeqDef
<1>6. rows' \in Seq(Row) /\ DOMAIN rows' = DOMAIN rows
      /\ \A i \in DOMAIN rows :
           /\ rows'[i].siege = rows[i].siege
           /\ rows'[i].status = "active" => rows[i].status = "active"
           /\ rows'[i].status = "completed" => rows'[i] = rows[i]
  <2> HIDE DEF closed
  <2>1. rows' = rows \/ rows' = closed
    BY <1>3
  <2> QED
    BY <1>2, <1>4, <1>5, <2>1, Zenon
<1>7. faults' \in Nat
  BY <1>3, FaultsCounted
<1>8. TrackerTypeOK' /\ RunHasItsRow'
  BY <1>1, <1>2, <1>6, <1>7 DEF TrackerTypeOK, RunHasItsRow
<1>9. \A i \in DOMAIN rows : rows[i].siege[1] <= boot /\ rows[i].siege \in Nat \X Nat
  BY <1>2, RowParts DEF RecordsInv, RowsAreOld
<1>10. OneActive' /\ CompletedWereKilled'
  BY <1>1, <1>6 DEF OneActive, CompletedWereKilled, RecordsInv
<1>11. RowsAreOld' /\ RecordedIsKnown'
  <2>1. \A i \in DOMAIN rows' : rows'[i].siege[1] < boot' /\ rows'[i].siege[1] <= boot'
    BY <1>1, <1>2, <1>6, <1>9
  <2>2. RowsAreOld'
    BY <1>1, <1>2, <2>1 DEF RowsAreOld
  <2>3. \A i \in DOMAIN rows' : rows'[i].siege # <<boot', gen'>>
    BY <1>1, <1>2, <2>1
  <2> QED
    BY <2>2, <2>3 DEF RecordedIsKnown
<1>12. [Records!Next]_rows
  <2>1. CASE \A i \in DOMAIN rows : rows[i].status # "active"
    <3>1. closed = [i \in DOMAIN rows |-> rows[i]]
      BY <1>4, <2>1, Zenon
    <3>2. rows = [i \in DOMAIN rows |-> rows[i]]
      BY <1>2
    <3> QED
      BY <1>3, <3>1, <3>2
  <2>2. CASE \E i \in DOMAIN rows : rows[i].status = "active"
    <3>1. PICK i \in DOMAIN rows : rows[i].status = "active"
      BY <2>2
    <3>2. \A j \in DOMAIN rows : j # i => rows[j].status # "active"
      BY <3>1 DEF RecordsInv, OneActive
    <3>3. [rows EXCEPT ![i].status = "aborted"]
            = [j \in DOMAIN rows |-> IF j = i THEN [rows[i] EXCEPT !.status = "aborted"]
                                     ELSE rows[j]]
      BY <1>2, Zenon
    <3>4. closed = [j \in DOMAIN rows |-> IF j = i THEN [rows[i] EXCEPT !.status = "aborted"]
                                          ELSE rows[j]]
      BY <1>4, <3>1, <3>2, Zenon
    <3> HIDE DEF closed
    <3>5. rows' = rows \/ rows' = [rows EXCEPT ![i].status = "aborted"]
      BY <1>3, <3>3, <3>4
    <3> QED
      BY <3>1, <3>5 DEF Records!Next, Records!GiveUp
  <2> QED
    BY <2>1, <2>2
<1> QED
  BY <1>8, <1>10, <1>11, <1>12

\* A table that a new row may be added to.
Ready(table) ==
    /\ table \in Seq(Row)
    /\ \A i \in DOMAIN table :
         /\ table[i].siege[1] <= boot
         /\ table[i].siege[1] = boot => table[i].siege[2] <= gen
         /\ table[i].status = "completed" => table[i].siege \in killed /\ table[i].team # {}
         /\ table[i].siege = <<boot, gen>> => table[i].status = "active"
    /\ \A i, j \in DOMAIN table :
         table[i].status = "active" /\ table[j].status = "active" => i = j

LEMMA OpenKeeps ==
    ASSUME RecordsInv, Same, gen \in Nat, NEW table, Ready(table),
           NEW b \in {Done, Failed, Lost}, Open(table, gen, b),
           terminal' \in Seq(Nat), faults' \in Nat
    PROVE  /\ TrackerTypeOK' /\ OneActive' /\ RunHasItsRow' /\ RowsAreOld'
           /\ RecordedIsKnown' /\ CompletedWereKilled'
           /\ \/ rows' = table
              \/ /\ rows' = Append(table, NewRow(gen))
                 /\ \A i \in DOMAIN table : table[i].status # "active"
                 /\ \A i \in DOMAIN table : table[i].siege # <<boot, gen>>
<1>1. /\ boot' = boot /\ gen' = gen /\ boot \in Nat \ {0} /\ boot <= MaxBoots
      /\ table \in Seq(Row) /\ killed \subseteq killed'
  BY DEF Same, RecordsInv, TrackerTypeOK, Ready, RowsAreOld
<1>2. CASE ~b.applied
  <2>1. ~b.ok
    BY <1>2 DEF Done, Failed, Lost
  <2>2. rows' = table /\ active' = NoRun
    BY <1>2, <2>1 DEF Open
  <2>3. TrackerTypeOK' /\ RunHasItsRow'
    BY <1>1, <2>2 DEF TrackerTypeOK, RunHasItsRow
  <2>4. OneActive' /\ RowsAreOld' /\ RecordedIsKnown' /\ CompletedWereKilled'
    BY <1>1, <2>2 DEF OneActive, RowsAreOld, RecordedIsKnown, CompletedWereKilled, Ready
  <2> QED
    BY <2>2, <2>3, <2>4
<1>3. CASE b.applied
  <2> DEFINE id == Len(table) + 1
             row == NewRow(gen)
             run == NewRun(gen, id)
  <2>1. b # Failed
    BY <1>3 DEF Failed
  <2>2. \A i \in DOMAIN table : table[i].status # "active"
    BY <2>1 DEF Open, SomeActive
  <2>3. \A i \in DOMAIN table : table[i].siege # <<boot, gen>>
    BY <2>2, Zenon DEF Ready
  <2>4. rows' = Append(table, row) /\ (active' = run \/ active' = NoRun)
    BY <1>3 DEF Open
  <2>5. /\ row \in Row /\ row.siege = <<boot, gen>> /\ row.status = "active"
        /\ row.kind = Unknown
    BY <1>1 DEF NewRow, Row
  <2>6. Len(table) \in Nat /\ DOMAIN table = 1 .. Len(table)
    BY <1>1, LenProperties
  <2>7. run \in Run /\ run.id = id /\ run.gen = gen /\ run.kind = Unknown
    BY <2>6 DEF NewRun, Run
  <2> HIDE DEF row, run
  <2>8. /\ rows' \in Seq(Row) /\ Len(rows') = id /\ rows'[id] = row
        /\ \A i \in 1 .. Len(table) : rows'[i] = table[i]
    BY <1>1, <2>4, <2>5, AppendProperties
  <2>9. DOMAIN rows' = 1 .. id
    BY <2>8, LenProperties
  <2>10. \A i \in DOMAIN rows' : i = id \/ (i \in DOMAIN table /\ rows'[i] = table[i])
    BY <2>6, <2>8, <2>9
  <2>11. id \in DOMAIN rows'
    BY <2>6, <2>9
  <2> HIDE DEF id
  <2>12. TrackerTypeOK' /\ RunHasItsRow'
    BY <1>1, <2>4, <2>5, <2>7, <2>8, <2>11 DEF TrackerTypeOK, RunHasItsRow
  <2>13. OneActive'
    BY <2>2, <2>10 DEF OneActive
  <2>14. RowsAreOld'
    <3>1. row.siege[1] = boot /\ row.siege[2] = gen /\ MaxBoots \in Nat
      BY <2>5 DEF RavienteAssumption
    <3>2. \A i \in DOMAIN rows' :
             /\ rows'[i].siege[1] <= boot
             /\ rows'[i].siege[1] = boot => rows'[i].siege[2] <= gen
      BY <1>1, <2>8, <2>10, <3>1, SMTT(40) DEF Ready
    <3> QED
      BY <1>1, <3>2 DEF RowsAreOld
  <2>15. RecordedIsKnown'
    BY <1>1, <2>3, <2>5, <2>8, <2>10, Zenon DEF RecordedIsKnown
  <2>16. CompletedWereKilled'
    BY <1>1, <2>5, <2>8, <2>10, Zenon DEF CompletedWereKilled, Ready
  <2> QED
    BY <2>2, <2>3, <2>4, <2>12, <2>13, <2>14, <2>15, <2>16 DEF row
<1> QED
  BY <1>2, <1>3

LEMMA AnswersAre == Answers \subseteq {Done, Failed, Lost}
  BY DEF Answers

LEMMA BegunOrNot ==
    ASSUME RecordsInv, gen \in 0 .. MaxGen,
           rows' = Append(rows, NewRow(gen)),
           \A i \in DOMAIN rows : rows[i].status # "active",
           \A i \in DOMAIN rows : rows[i].siege # <<boot, gen>>
    PROVE  [Records!Next]_rows
<1>1. <<boot, gen>> \in (1 .. MaxBoots) \X (0 .. MaxGen)
  BY DEF RecordsInv, TrackerTypeOK, RowsAreOld, RavienteAssumption
<1>2. Records!Begin
  BY <1>1, Zenon DEF Records!Begin, NewRow
<1> QED
  BY <1>2 DEF Records!Next

LEMMA StartFirstKeeps ==
    ASSUME RecordsInv, Same, gen \in 0 .. MaxGen, StartFirst(gen)
    PROVE  Kept
<1>1. ~Over(gen) /\ active = NoRun
  BY DEF StartFirst, Known
<1>2. PICK a \in Answers \cup (IF SomeActive(rows) THEN {Failed} ELSE {}) :
         /\ Open(rows, gen, a)
         /\ faults' = IF a.ok \/ SomeActive(rows) THEN faults ELSE faults + 1
  BY DEF StartFirst
<1>3. a \in {Done, Failed, Lost}
  BY <1>2, AnswersAre
<1>4. terminal' \in Seq(Nat) /\ faults' \in Nat
  BY <1>2 DEF StartFirst, RecordsInv, TrackerTypeOK
<1>5. Ready(rows)
  BY <1>1 DEF Ready, RecordsInv, TrackerTypeOK, RowsAreOld, OneActive, CompletedWereKilled,
              RecordedIsKnown, RunIs
<1>6. /\ TrackerTypeOK' /\ OneActive' /\ RunHasItsRow' /\ RowsAreOld'
      /\ RecordedIsKnown' /\ CompletedWereKilled'
      /\ \/ rows' = rows
         \/ /\ rows' = Append(rows, NewRow(gen))
            /\ \A i \in DOMAIN rows : rows[i].status # "active"
            /\ \A i \in DOMAIN rows : rows[i].siege # <<boot, gen>>
  BY <1>2, <1>3, <1>4, <1>5, OpenKeeps
<1>7. [Records!Next]_rows
  BY <1>6, BegunOrNot
<1> QED
  BY <1>6, <1>7 DEF Kept

LEMMA StartNextKeeps ==
    ASSUME RecordsInv, Same, gen \in 0 .. MaxGen, StartNext(gen)
    PROVE  Kept
<1> DEFINE id == active.id
           table == End(id, "aborted")
<1>1. ~Over(gen) /\ active # NoRun
  BY DEF StartNext, Known
<1>2. /\ id \in DOMAIN rows /\ active.gen \in Nat /\ rows \in Seq(Row)
      /\ rows[id].siege = <<boot, active.gen>> /\ terminal \in Seq(Nat) /\ boot \in Nat \ {0}
  BY <1>1, RunParts, Zenon
<1>3. /\ SameBut(table, id) /\ table[id].status # "active"
      /\ table[id].status = "completed" => table[id] = rows[id]
      /\ table = rows \/ (rows[id].status = "active"
                            /\ table = [rows EXCEPT ![id].status = "aborted"])
  BY <1>2, RowsEnded, Zenon
<1>4. \A i \in DOMAIN rows : rows[i].siege = <<boot, gen>> =>
         active.gen = gen \/ (i # id /\ rows[i].status = "active")
  BY <1>1, <1>2 DEF RecordsInv, RecordedIsKnown, RunIs
<1> DEFINE T(a) == IF a.applied THEN table ELSE rows
<1>5. PICK a \in Answers :
         IF ~a.ok
         THEN /\ rows' = T(a) /\ active' = [active EXCEPT !.closed = TRUE]
              /\ Count(a) /\ UNCHANGED terminal
         ELSE /\ terminal' = MarkTerminal(active.gen)
              /\ IF active.gen = gen
                 THEN rows' = T(a) /\ active' = NoRun /\ UNCHANGED faults
                 ELSE \E b \in Answers \cup (IF SomeActive(T(a)) THEN {Failed} ELSE {}) :
                        /\ Open(T(a), gen, b)
                        /\ faults' = IF b.ok \/ SomeActive(T(a)) THEN faults
                                     ELSE faults + 1
  BY DEF StartNext
<1>6. boot' = boot /\ gen' = gen /\ gen \in Nat
  BY DEF Same
<1> HIDE DEF id, table
<1>7. CASE ~a.ok
  <2>1. rows' = rows \/ rows' = table
    BY <1>5, <1>7
  <2>2. /\ active' \in Run /\ active'.id = id /\ active'.gen = active.gen
        /\ active'.kind = active.kind /\ terminal' = terminal /\ faults' \in Nat
    BY <1>1, <1>5, <1>7, RunParts, FaultsCounted, Zenon DEF id
  <2>3. SameBut(rows', id) /\ (rows'[id].status = "completed" => rows'[id] = rows[id])
        /\ (rows'[id].status = "active" => rows' = rows)
    BY <1>2, <1>3, <2>1, Zenon DEF SameBut
  <2>4. OneActive' /\ RowsAreOld' /\ CompletedWereKilled'
    <3>1. rows'[id].status = "completed" => rows'[id].siege \in killed' /\ rows'[id].team # {}
      BY <1>2, <2>3, Zenon DEF RecordsInv, CompletedWereKilled, Same
    <3> QED
      BY <1>2, <2>3, <3>1, SameTable
  <2>5. TrackerTypeOK'
    BY <1>2, <1>6, <2>2, <2>3 DEF TrackerTypeOK, SameBut
  <2>6. RunHasItsRow'
    <3>1. id \in DOMAIN rows' /\ rows'[id].siege = rows[id].siege
      BY <1>2, <2>3 DEF SameBut
    <3>2. rows'[id].status = "active" => rows'[id].kind \in {Unknown, active.kind}
      BY <1>1, <2>3 DEF RecordsInv, RunHasItsRow, id
    <3> QED
      BY <1>1, <1>2, <1>6, <2>2, <3>1, <3>2, RunParts DEF RunHasItsRow
  <2>7. RecordedIsKnown'
    <3>1. active' # NoRun
      BY <2>2 DEF TrackerAssumption
    <3>2. \A i \in DOMAIN rows' : rows'[i].siege = <<boot, gen>> =>
             active.gen = gen \/ rows'[i].status = "active"
      BY <1>4, <2>3 DEF SameBut
    <3> QED
      BY <1>6, <2>2, <3>1, <3>2 DEF RecordedIsKnown, RunIs
  <2>8. [Records!Next]_rows
    BY <1>2, <2>1, GivenUp DEF table
  <2> QED
    BY <2>4, <2>5, <2>6, <2>7, <2>8 DEF Kept
<1>8. CASE a.ok
  <2>1. T(a) = table
    BY <1>5, <1>8, AnswersAre DEF Done, Failed, Lost
  <2>2. terminal' \in Seq(Nat) /\ \E i \in DOMAIN terminal' : terminal'[i] = active.gen
    BY <1>2, <1>5, <1>8, MarkedTerminal, Zenon
  <2>3. CASE active.gen = gen
    <3>1. rows' = table /\ active' = NoRun /\ faults' = faults
      BY <1>5, <1>8, <2>1, <2>3
    <3>2. OneActive' /\ RowsAreOld' /\ CompletedWereKilled'
      <4>1. rows'[id].status = "completed" => rows'[id].siege \in killed' /\ rows'[id].team # {}
        BY <1>2, <1>3, <3>1, Zenon DEF RecordsInv, CompletedWereKilled, Same
      <4> QED
        BY <1>2, <1>3, <3>1, <4>1, SameTable, Zenon
    <3>3. TrackerTypeOK' /\ RunHasItsRow'
      BY <1>2, <1>3, <1>6, <2>2, <3>1 DEF TrackerTypeOK, RunHasItsRow, SameBut, RecordsInv
    <3>4. RecordedIsKnown'
      BY <1>6, <2>2, <2>3 DEF RecordedIsKnown, Over
    <3>5. [Records!Next]_rows
      BY <1>2, <3>1, GivenUp DEF table
    <3> QED
      BY <3>2, <3>3, <3>4, <3>5 DEF Kept
  <2>4. CASE active.gen # gen
    <3>1. PICK b \in Answers \cup (IF SomeActive(table) THEN {Failed} ELSE {}) :
            /\ Open(table, gen, b)
            /\ faults' = IF b.ok \/ SomeActive(table) THEN faults ELSE faults + 1
      BY <1>5, <1>8, <2>1, <2>4
    <3>2. b \in {Done, Failed, Lost} /\ faults' \in Nat
      BY <3>1, AnswersAre DEF RecordsInv, TrackerTypeOK
    <3>3. Ready(table)
      <4>1. table \in Seq(Row) /\ DOMAIN table = DOMAIN rows
        BY <1>3 DEF SameBut
      <4>2. \A i \in DOMAIN table :
               /\ table[i].siege = rows[i].siege
               /\ table[i].status = "active" => rows[i].status = "active"
               /\ i # id => table[i] = rows[i]
               /\ table[i].status = "completed" => table[i] = rows[i]
        BY <1>3, Zenon DEF SameBut
      <4>3. \A i \in DOMAIN table : table[i].siege = <<boot, gen>> => table[i].status = "active"
        BY <1>4, <2>4, <4>1, <4>2
      <4>4. \A i \in DOMAIN table :
               /\ table[i].siege[1] <= boot
               /\ table[i].siege[1] = boot => table[i].siege[2] <= gen
        BY <4>1, <4>2 DEF RecordsInv, RowsAreOld
      <4>5. \A i \in DOMAIN table : table[i].status = "completed" =>
               table[i].siege \in killed /\ table[i].team # {}
        BY <4>1, <4>2 DEF RecordsInv, CompletedWereKilled
      <4>6. \A i, j \in DOMAIN table :
               table[i].status = "active" /\ table[j].status = "active" => i = j
        BY <4>1, <4>2 DEF RecordsInv, OneActive
      <4> QED
        BY <4>1, <4>3, <4>4, <4>5, <4>6 DEF Ready
    <3>4. /\ TrackerTypeOK' /\ OneActive' /\ RunHasItsRow' /\ RowsAreOld'
          /\ RecordedIsKnown' /\ CompletedWereKilled'
          /\ \/ rows' = table
             \/ /\ rows' = Append(table, NewRow(gen))
                /\ \A i \in DOMAIN table : table[i].status # "active"
                /\ \A i \in DOMAIN table : table[i].siege # <<boot, gen>>
      BY <1>6, <2>2, <3>1, <3>2, <3>3, OpenKeeps
    <3>5. [Records!Next]_rows
      <4>1. CASE rows' = table
        BY <1>2, <4>1, GivenUp DEF table
      <4>2. CASE /\ rows' = Append(table, NewRow(gen)) /\ table = rows
                 /\ \A i \in DOMAIN table : table[i].status # "active"
                 /\ \A i \in DOMAIN table : table[i].siege # <<boot, gen>>
        BY <4>2, BegunOrNot
      <4>3. CASE /\ rows' = Append(table, NewRow(gen)) /\ table # rows
                 /\ \A i \in DOMAIN table : table[i].siege # <<boot, gen>>
        <5>1. rows[id].status = "active" /\ table = [rows EXCEPT ![id].status = "aborted"]
          BY <1>3, <4>3
        <5>2. \A j \in DOMAIN rows :
                 rows[j].siege # <<boot, gen>> /\ (j # id => rows[j].status # "active")
          BY <1>2, <1>3, <4>3, <5>1, Zenon DEF SameBut, RecordsInv, OneActive
        <5>3. <<boot, gen>> \in (1 .. MaxBoots) \X (0 .. MaxGen)
          BY DEF RecordsInv, TrackerTypeOK, RowsAreOld, RavienteAssumption
        <5>4. Records!Supersede
          BY <1>2, <4>3, <5>1, <5>2, <5>3, Zenon DEF Records!Supersede, NewRow
        <5> QED
          BY <5>4 DEF Records!Next
      <4> QED
        BY <3>4, <4>1, <4>2, <4>3
    <3> QED
      BY <3>4, <3>5 DEF Kept
  <2> QED
    BY <2>3, <2>4
<1> QED
  BY <1>7, <1>8

-----------------------------------------------------------------------------
(* Steps.                                                                    *)

\* A step that leaves the tracker alone, of this generation.
LEMMA TrackerUntouched ==
    ASSUME RecordsInv, UNCHANGED trackerVars, Same, CallsAreDue'
    PROVE  RecordsInv' /\ [Records!Next]_rows
<1>1. UNCHANGED <<boot, active, terminal, rows, faults, gen>> /\ killed \subseteq killed'
  BY DEF trackerVars, Same
<1>2. TrackerTypeOK' /\ OneActive' /\ RunHasItsRow' /\ RowsAreOld' /\ CompletedWereKilled'
  BY <1>1, Zenon DEF RecordsInv, TrackerTypeOK, OneActive, RunHasItsRow, RowsAreOld,
              CompletedWereKilled
<1>3. RecordedIsKnown'
  BY <1>1 DEF RecordsInv, RecordedIsKnown, Over, RunIs
<1> QED
  BY <1>1, <1>2, <1>3 DEF RecordsInv

LEMMA NothingDue ==
    ASSUME RecordsInv, UNCHANGED <<trackerVars, gen, register, calls, killed>>
    PROVE  RecordsInv' /\ [Records!Next]_rows
<1>1. CallsAreDue'
  BY DEF RecordsInv, CallsAreDue, Recorded, trackerVars
<1>2. UNCHANGED trackerVars /\ Same
  BY DEF Same, trackerVars
<1> QED
  BY <1>1, <1>2, TrackerUntouched

\* The calls of one section, which are all about the current generation.
LEMMA SectionCalls ==
    ASSUME RecordsInv, UNCHANGED <<trackerVars, gen>>, killed \subseteq killed',
           \A i \in DOMAIN calls' : /\ calls'[i].gen = gen
                                    /\ calls'[i].op = "complete" => <<boot, gen>> \in killed',
           register'[2] # 0 => <<boot, gen>> \in killed'
    PROVE  RecordsInv' /\ [Records!Next]_rows
<1>1. CallsAreDue'
  BY DEF CallsAreDue, trackerVars
<1>2. UNCHANGED trackerVars /\ Same
  BY DEF Same, trackerVars
<1> QED
  BY <1>1, <1>2, TrackerUntouched

LEMMA StartCalls ==
    ASSUME RecordsInv, RoomsInv, StartNow, UNCHANGED <<trackerVars, gen, killed>>
    PROVE  RecordsInv' /\ [Records!Next]_rows
<1>1. calls' = <<Call("start")>> /\ register' = [register EXCEPT ![1] = register[3]]
  BY DEF StartNow
<1>2. \A i \in DOMAIN calls' : calls'[i].gen = gen /\ calls'[i].op # "complete"
  BY <1>1 DEF Call
<1>3. register'[2] # 0 => <<boot, gen>> \in killed
  BY <1>1, TypesOfSiege DEF RecordsInv, CallsAreDue, Reg
<1> QED
  BY <1>2, <1>3, SectionCalls

LEMMA OperateCalls ==
    ASSUME RecordsInv, RoomsInv, NEW p \in Packet, OperateRegister(p[1], p[2])
    PROVE  RecordsInv' /\ [Records!Next]_rows
<1> DEFINE first == Written(register, p[1])
           second == Written(first, p[2])
           crosses(r) == \/ register[r] = 0 /\ first[r] # 0
                         \/ first[r] = 0 /\ second[r] # 0
           starts == IF crosses(1) THEN <<Call("start")>> ELSE <<>>
           ends == IF crosses(2) THEN <<Call("complete")>> ELSE <<>>
<1>1. /\ register' = second /\ calls' = starts \o ends
      /\ killed' = IF crosses(2) THEN killed \cup {<<boot, gen>>} ELSE killed
      /\ UNCHANGED <<gen, trackerVars>>
  BY DEF OperateRegister
<1>2. register[2] # 0 => <<boot, gen>> \in killed
  BY DEF RecordsInv, CallsAreDue
<1>3. register'[2] # 0 => <<boot, gen>> \in killed'
  <2> HIDE DEF first, second
  <2> QED
    BY <1>1, <1>2
<1>4. \A i \in DOMAIN calls' : /\ calls'[i].gen = gen
                               /\ calls'[i].op = "complete" => <<boot, gen>> \in killed'
  <2>1. Call("start").gen = gen /\ Call("complete").gen = gen /\ Call("start").op = "start"
    BY DEF Call
  <2>2. crosses(2) => <<boot, gen>> \in killed'
    BY <1>1
  <2> HIDE DEF crosses
  <2>3. CASE crosses(1) /\ crosses(2)
    <3>1. calls' = <<Call("start")>> \o <<Call("complete")>>
      BY <1>1, <2>3
    <3>2. calls' \in Seq({Call("start"), Call("complete")})
      <4>1. /\ <<Call("start")>> \in Seq({Call("start"), Call("complete")})
            /\ <<Call("complete")>> \in Seq({Call("start"), Call("complete")})
        OBVIOUS
      <4> QED
        BY <3>1, <4>1, ConcatProperties
    <3>3. \A i \in DOMAIN calls' : calls'[i] \in {Call("start"), Call("complete")}
      BY <3>2, LenProperties, ElementOfSeq
    <3> QED
      BY <2>1, <2>2, <2>3, <3>3
  <2>4. CASE crosses(1) /\ ~crosses(2)
    <3>1. calls' = <<Call("start")>>
      BY <1>1, <2>4
    <3> QED
      BY <2>1, <3>1
  <2>5. CASE ~crosses(1) /\ crosses(2)
    <3>1. calls' = <<Call("complete")>>
      BY <1>1, <2>5
    <3> QED
      BY <2>1, <2>2, <2>5, <3>1
  <2>6. CASE ~crosses(1) /\ ~crosses(2)
    <3>1. calls' = <<>>
      BY <1>1, <2>6
    <3> QED
      BY <3>1
  <2> QED
    BY <2>3, <2>4, <2>5, <2>6
<1>5. killed \subseteq killed'
  BY <1>1
<1> HIDE DEF first, second, crosses, starts, ends
<1> QED
  BY <1>1, <1>3, <1>4, <1>5, SectionCalls, Zenon

LEMMA TeardownCalls ==
    ASSUME RecordsInv, RoomsInv, NEW reg, RemoveMembers(reg)
    PROVE  RecordsInv' /\ [Records!Next]_rows
<1>1. UNCHANGED trackerVars /\ killed' = killed
  BY DEF RemoveMembers
<1>2. CASE ~RoomsClose(reg)
  BY <1>1, <1>2, NothingDue DEF RemoveMembers, Teardown
<1>3. CASE RoomsClose(reg)
  <2>1. /\ gen' = gen + 1 /\ register' = Zero /\ gen \in Nat
        /\ calls' = <<Call(IF register[1] # 0 /\ register[2] # 0 THEN "complete" ELSE "abort")>>
    BY <1>3, TypesOfSiege DEF RemoveMembers, Teardown
  <2>2. UNCHANGED <<boot, active, terminal, rows, faults>>
    BY <1>1 DEF trackerVars
  <2>3. \A i \in DOMAIN rows : rows[i].siege # <<boot, gen + 1>>
    BY <2>1 DEF RecordsInv, RowsAreOld
  <2>4. TrackerTypeOK' /\ OneActive' /\ CompletedWereKilled'
    BY <1>1, <2>2 DEF RecordsInv, TrackerTypeOK, OneActive, CompletedWereKilled
  <2>5. RunHasItsRow'
    <3>1. active # NoRun => active.gen <= gen + 1
      BY <2>1, RunParts, SMTT(40)
    <3> QED
      BY <2>1, <2>2, <3>1 DEF RecordsInv, RunHasItsRow
  <2>6. RowsAreOld'
    <3>1. \A i \in DOMAIN rows : rows[i].siege[2] \in Nat
      BY RowParts DEF RecordsInv, TrackerTypeOK
    <3> QED
      BY <2>1, <2>2, <3>1 DEF RecordsInv, RowsAreOld
  <2>7. RecordedIsKnown'
    BY <2>1, <2>2, <2>3 DEF RecordedIsKnown
  <2>8. CallsAreDue'
    <3>1. /\ Len(calls') = 1 /\ DOMAIN calls' = {1} /\ calls'[1].gen = gen
          /\ calls'[1].op # "start"
          /\ calls'[1].op = "complete" => register[2] # 0
      BY <2>1 DEF Call
    <3>2. register'[2] = 0
      BY <2>1 DEF Zero, Reg
    <3>3. ~Recorded(gen)'
      BY <2>1, <2>2, <2>3 DEF Recorded
    <3>4. register[2] # 0 => <<boot, gen>> \in killed'
      BY <1>1 DEF RecordsInv, CallsAreDue
    <3> QED
      BY <2>2, <3>1, <3>2, <3>3, <3>4 DEF CallsAreDue
  <2> QED
    BY <2>2, <2>4, <2>5, <2>6, <2>7, <2>8 DEF RecordsInv
<1> QED
  BY <1>2, <1>3

LEMMA CallSteps ==
    ASSUME RecordsInv, RoomsInv, TrackerCall
    PROVE  RecordsInv' /\ [Records!Next]_rows
<1> DEFINE c == Head(calls)
<1>1. calls # <<>> /\ calls' = Tail(calls) /\ UNCHANGED <<gen, register, killed>>
  BY DEF TrackerCall
<1>2. calls \in Seq(CallType) /\ Len(calls) \in Nat \ {0} /\ DOMAIN calls = 1 .. Len(calls)
  <2>1. calls \in Seq(CallType)
    BY TypesOfSiege
  <2> QED
    BY <1>1, <2>1, EmptySeq, LenProperties
<1>3. c = calls[1] /\ c.gen \in Nat /\ 1 \in DOMAIN calls
      /\ c.op \in {"start", "complete", "abort"}
  <2>1. c = calls[1] /\ 1 \in 1 .. Len(calls)
    BY <1>2
  <2>2. calls[1] \in CallType
    BY <1>2, <2>1, ElementOfSeq
  <2> QED
    BY <1>2, <2>1, <2>2 DEF CallType
<1>4. /\ c.op = "complete" => <<boot, c.gen>> \in killed
      /\ c.gen # gen => Len(calls) = 1 /\ c.op # "start" /\ ~Recorded(gen)
  BY <1>3 DEF RecordsInv, CallsAreDue
<1>5. gen \in 0 .. MaxGen
  BY DEF RoomsInv, SiegeTypeOK
<1> HIDE DEF c
<1>6. Kept /\ Same
  <2>1. CASE c.op = "start" /\ StartRun(c.gen)
    <3>1. c.gen = gen
      BY <1>4, <2>1
    <3>2. CASE UNCHANGED trackerVars
      BY <1>1, <3>2, Zenon
         DEF trackerVars, Kept, Same, RecordsInv, TrackerTypeOK, OneActive,
             RunHasItsRow, RowsAreOld, RecordedIsKnown, CompletedWereKilled, Over, RunIs
    <3>3. CASE StartFirst(gen)
      <4>1. Same
        BY <1>1, <3>3 DEF StartFirst, Same
      <4> QED
        BY <1>5, <3>3, <4>1, StartFirstKeeps
    <3>4. CASE StartNext(gen)
      <4>1. Same
        BY <1>1, <3>4 DEF StartNext, Same
      <4> QED
        BY <1>5, <3>4, <4>1, StartNextKeeps
    <3> QED
      BY <2>1, <3>1, <3>2, <3>3, <3>4 DEF StartRun
  <2>2. CASE c.op = "complete" /\ Complete(c.gen)
    <3>1. Same
      BY <1>1, <2>2 DEF Complete, Tombstone, AbortActive, trackerVars, Same
    <3> QED
      BY <1>3, <1>4, <2>2, <3>1, CompleteKeeps
  <2>3. CASE c.op = "abort" /\ Abort(c.gen)
    <3>1. Same
      BY <1>1, <2>3 DEF Abort, Tombstone, AbortActive, Same
    <3>2. CASE Tombstone(c.gen)
      BY <1>3, <1>4, <3>1, <3>2, TombstoneKeeps
    <3>3. CASE ~Stale(c.gen) /\ AbortActive(c.gen)
      BY <1>3, <1>4, <3>1, <3>3, AbortKeeps DEF Stale
    <3> QED
      BY <2>3, <3>2, <3>3 DEF Abort
  <2> QED
    BY <2>1, <2>2, <2>3 DEF TrackerCall, c
<1>7. CallsAreDue'
  <2>1. /\ calls' \in Seq(CallType) /\ Len(calls') = Len(calls) - 1
        /\ \A i \in 1 .. Len(calls') : calls'[i] = calls[i + 1]
    BY <1>1, <1>2, HeadTailProperties
  <2>2. \A i \in DOMAIN calls' : i + 1 \in DOMAIN calls /\ calls'[i] = calls[i + 1]
                                 /\ Len(calls) # 1
    BY <1>2, <2>1, LenProperties
  <2>3. \A i \in DOMAIN calls' : /\ calls'[i].op = "complete" => <<boot, calls'[i].gen>> \in killed
                                 /\ calls'[i].gen = gen
    BY <2>2 DEF RecordsInv, CallsAreDue
  <2> QED
    BY <1>1, <1>6, <2>3 DEF RecordsInv, CallsAreDue, Same
<1> QED
  BY <1>6, <1>7 DEF Kept, RecordsInv

LEMMA EnterCalls ==
    ASSUME RecordsInv, NEW k \in Kind, NEW p \in Player, EnterQuest(k, p)
    PROVE  RecordsInv' /\ [Records!Next]_rows
<1>1. Observe(k, p) /\ UNCHANGED <<gen, register, calls, killed>> /\ boot' = boot
  BY DEF EnterQuest, Observe, siegeVars
<1>2. Kept /\ (Recorded(gen)' <=> Recorded(gen))
  BY <1>1, ObserveKeeps DEF Same
<1>3. CallsAreDue'
  BY <1>1, <1>2 DEF RecordsInv, CallsAreDue, Recorded
<1> QED
  BY <1>2, <1>3 DEF Kept, RecordsInv

LEMMA RestartCalls ==
    ASSUME RecordsInv, RoomsInv, Restart
    PROVE  RecordsInv' /\ [Records!Next]_rows
<1>1. calls' = <<>> /\ register' = Zero
  BY DEF Restart
<1>2. CallsAreDue'
  BY <1>1 DEF CallsAreDue, Zero, Reg
<1> QED
  BY <1>2, InitializeKeeps DEF RecordsInv

LEMMA RecordsStep ==
    ASSUME RecordsInv, RoomsInv, [RavienteNext]_raviVars
    PROVE  RecordsInv' /\ [Records!Next]_rows
<1> DEFINE Goal == RecordsInv' /\ [Records!Next]_rows
<1>1. ASSUME NEW h \in Hunter, Join(h) \/ Disconnect(h)
      PROVE  Goal
  BY <1>1, NothingDue DEF Join, Disconnect, siegeVars
<1>2. ASSUME NEW h \in Hunter, Delete(h) \/ DeleteMember(h) \/ LeaveRooms(h) \/ CleanUp(h)
      PROVE  Goal
  <2>1. CASE UNCHANGED <<trackerVars, siegeVars>>
    BY <2>1, NothingDue DEF siegeVars
  <2>2. CASE \E reg : RemoveMembers(reg)
    BY <2>2, TeardownCalls
  <2>3. (\E reg : RemoveMembers(reg)) \/ UNCHANGED <<trackerVars, siegeVars>>
    BY <1>2, Zenon DEF Delete, DeleteMember, LeaveRooms, CleanUp
  <2> QED
    BY <2>1, <2>2, <2>3
<1>3. ASSUME NEW p \in Packet, OperateRegister(p[1], p[2])
      PROVE  Goal
  BY <1>3, OperateCalls
<1>4. CASE StartCommand
  BY <1>4, StartCalls DEF StartCommand, semaphoreVars
<1>5. CASE TrackerCall
  BY <1>5, CallSteps
<1>6. ASSUME NEW k \in Kind, NEW p \in Player, EnterQuest(k, p)
      PROVE  Goal
  BY <1>6, EnterCalls
<1>7. CASE TickRoom \/ TickRegisters \/ TimeUp
  BY <1>7, NothingDue DEF TickRoom, TickRegisters, TimeUp, tickUnchanged
<1>8. CASE Fire
  <2>1. UNCHANGED <<trackerVars, gen, killed>>
    BY <1>8 DEF Fire
  <2>2. CASE StillGathering
    BY <1>8, <2>1, <2>2, StartCalls DEF Fire
  <2>3. CASE ~StillGathering
    BY <1>8, <2>1, <2>3, NothingDue DEF Fire
  <2> QED
    BY <2>2, <2>3
<1>9. CASE Restart
  BY <1>9, RestartCalls
<1>10. CASE UNCHANGED raviVars
  BY <1>10, NothingDue DEF raviVars, siegeVars
<1> QED
  BY <1>1, <1>2, <1>3, <1>4, <1>5, <1>6, <1>7, <1>8, <1>9, <1>10, Zenon
     DEF RavienteNext, AutoStart

LEMMA InitRecords == RavienteInit => RecordsInv
<1> SUFFICES ASSUME RavienteInit PROVE RecordsInv
  OBVIOUS
<1> USE DEF RavienteInit, TrackerInit
<1>1. TrackerTypeOK
  BY DEF TrackerTypeOK
<1>2. OneActive /\ RunHasItsRow /\ RowsAreOld /\ RecordedIsKnown /\ CompletedWereKilled
  BY DEF OneActive, RunHasItsRow, RowsAreOld, RecordedIsKnown, CompletedWereKilled,
         RavienteAssumption
<1>3. CallsAreDue
  BY DEF CallsAreDue, Zero, Reg
<1> QED
  BY <1>1, <1>2, <1>3 DEF RecordsInv

LEMMA BothInvariance == RavienteSpec => [](RoomsInv /\ RecordsInv)
<1>1. RavienteInit => RoomsInv /\ RecordsInv
  BY InitRooms, InitRecords
<1>2. RoomsInv /\ RecordsInv /\ [RavienteNext]_raviVars => (RoomsInv /\ RecordsInv)'
  BY RoomsStep, RecordsStep DEF RecordsInv
<1> QED
  BY <1>1, <1>2, PTL DEF RavienteSpec

-----------------------------------------------------------------------------
(* The history, as long as no statement fails.                               *)

\* While nobody holds ravienteLifecycleMu nothing is due.
LEMMA NothingIsDue ==
    ASSUME Free
    PROVE  DOMAIN calls = {} /\ \A op, g : ~Due(op, g)
  BY DEF Free, Due

LEMMA FreeHistory ==
    ASSUME Free, Faultless, RecordsInv
    PROVE  /\ active # NoRun => active.gen = gen
           /\ register[1] # 0 \/ <<boot, gen>> \in killed => Recorded(gen)
           /\ \A i \in DOMAIN rows : rows[i].siege[1] = boot /\ rows[i].siege \in killed
                                       => Ended(rows[i])
  BY NothingIsDue, Zenon DEF Faultless, RunIsDue, StartIsDue, ResultIsDue

\* HistoryAgrees is what is left of it then.
LEMMA HistoryAgreesLater ==
    ASSUME HistoryInv, RecordsInv
    PROVE  HistoryAgrees
<1> SUFFICES ASSUME faults = 0, Free
             PROVE  /\ register[1] # 0 => Recorded(gen)
                    /\ \A i \in DOMAIN rows :
                         /\ rows[i].status = "active" => rows[i].siege = <<boot, gen>>
                         /\ rows[i].siege[1] = boot /\ rows[i].siege \in killed
                               => Ended(rows[i])
  BY Zenon DEF HistoryAgrees, Ended, Recorded
<1>1. Faultless
  BY DEF HistoryInv
<1>2. ASSUME NEW i \in DOMAIN rows, rows[i].status = "active"
      PROVE  rows[i].siege = <<boot, gen>>
  <2>1. active # NoRun /\ rows[active.id].status = "active"
    BY <1>1, <1>2 DEF Faultless, Synced, SomeActive
  <2>2. i = active.id
    BY <1>2, <2>1, RunParts, Zenon DEF RecordsInv, OneActive
  <2> QED
    BY <1>1, <2>1, <2>2, RunParts, FreeHistory, Zenon
<1> QED
  BY <1>1, <1>2, FreeHistory

\* A step that changes neither the tracker nor what is due.
LEMMA HistoryQuiet ==
    ASSUME HistoryInv, UNCHANGED <<trackerVars, gen, register, calls, killed>>
    PROVE  HistoryInv'
<1>1. UNCHANGED <<boot, active, terminal, rows, faults, gen, register, calls, killed>>
  BY DEF trackerVars
<1>2. Ordered'
  BY <1>1 DEF HistoryInv, Ordered
<1>3. ASSUME Faultless PROVE Faultless'
  <2>1. Synced' /\ RunIsDue'
    BY <1>1, <1>3 DEF Faultless, Synced, RunIsDue, Due, SomeActive
  <2>2. StartIsDue'
    BY <1>1, <1>3 DEF Faultless, StartIsDue, Due, Recorded, Over
  <2>3. ResultIsDue'
    BY <1>1, <1>3 DEF Faultless, ResultIsDue, Due, Ended
  <2> QED
    BY <2>1, <2>2, <2>3 DEF Faultless
<1> QED
  BY <1>1, <1>2, <1>3 DEF HistoryInv

\* A section about the registers: what it leaves to be called.
LEMMA HistorySection ==
    ASSUME HistoryInv, RecordsInv, RoomsInv, Free, UNCHANGED <<trackerVars, gen>>,
           killed \subseteq killed', killed' \subseteq killed \cup {<<boot, gen>>},
           <<boot, gen>> \in killed' => <<boot, gen>> \in killed \/ Due("complete", gen)',
           register'[1] # 0 \/ <<boot, gen>> \in killed' =>
               register[1] # 0 \/ <<boot, gen>> \in killed \/ Due("start", gen)',
           \A i \in DOMAIN calls' : /\ calls'[i].op = "start" => i = 1
                                    /\ calls'[i].gen = gen /\ calls'[i].op # "abort"
    PROVE  HistoryInv'
<1>1. /\ boot' = boot /\ active' = active /\ terminal' = terminal /\ rows' = rows
      /\ faults' = faults /\ gen' = gen
  BY DEF trackerVars
<1>2. gen \in Nat /\ boot \in Nat
  BY TypesOfSiege DEF RecordsInv, TrackerTypeOK
<1>3. Ordered'
  <2>1. \A siege \in killed' : siege[1] <= boot /\ (siege[1] = boot => siege[2] <= gen)
    BY <1>2 DEF HistoryInv, Ordered
  <2>2. \A i \in DOMAIN terminal : terminal[i] <= gen
    BY DEF HistoryInv, Ordered
  <2>3. \A i \in DOMAIN calls' : calls'[i].gen <= gen
    BY <1>2
  <2> QED
    BY <1>1, <2>1, <2>2, <2>3 DEF Ordered
<1>4. ASSUME Faultless PROVE Faultless'
  <2>1. /\ active # NoRun => active.gen = gen
        /\ register[1] # 0 \/ <<boot, gen>> \in killed => Recorded(gen)
        /\ \A i \in DOMAIN rows : rows[i].siege[1] = boot /\ rows[i].siege \in killed
                                    => Ended(rows[i])
    BY <1>4, FreeHistory
  <2>2. Synced' /\ RunIsDue'
    BY <1>1, <1>4, <2>1 DEF Faultless, Synced, RunIsDue, SomeActive
  <2>3. StartIsDue'
    <3>1. Recorded(gen)' <=> Recorded(gen)
      BY <1>1 DEF Recorded
    <3>2. Over(gen) => Recorded(gen)
      BY <1>4 DEF Faultless, StartIsDue
    <3>3. Over(gen)' <=> Over(gen)
      BY <1>1 DEF Over
    <3>4. register'[1] # 0 => Recorded(gen) \/ Due("start", gen)'
      BY <2>1
    <3>5. <<boot, gen>> \in killed'
            => Recorded(gen) \/ (Due("start", gen)' /\ Due("complete", gen)')
      BY <2>1
    <3> QED
      BY <1>1, <3>1, <3>2, <3>3, <3>4, <3>5 DEF StartIsDue
  <2>4. ResultIsDue'
    <3> SUFFICES ASSUME NEW i \in DOMAIN rows, rows[i].siege[1] = boot
                 PROVE  /\ rows[i].siege \in killed' =>
                              \/ Ended(rows[i])
                              \/ rows[i].status = "active" /\ Due("complete", rows[i].siege[2])'
                        /\ rows[i].status = "aborted" /\ rows[i].siege[2] = gen
                              => rows[i].team = {}
      BY <1>1 DEF ResultIsDue, Due, Ended
    <3>1. rows[i].status = "aborted" /\ rows[i].siege[2] = gen => rows[i].team = {}
      BY <1>4 DEF Faultless, ResultIsDue
    <3>2. CASE rows[i].siege \in killed \/ rows[i].siege \notin killed'
      BY <2>1, <3>1, <3>2
    <3>3. CASE rows[i].siege \in killed' /\ rows[i].siege \notin killed
      <4>1. rows[i].siege = <<boot, gen>> /\ Due("complete", gen)' /\ rows[i].siege[2] = gen
        BY <3>3
      <4>2. rows[i].status = "completed" => rows[i].team # {}
        BY DEF RecordsInv, CompletedWereKilled
      <4>3. rows[i].status \in {"active", "completed", "aborted"}
        BY RowParts DEF RecordsInv, TrackerTypeOK
      <4> QED
        BY <1>1, <3>1, <4>1, <4>2, <4>3 DEF Ended, Due
    <3> QED
      BY <3>2, <3>3
  <2> QED
    BY <2>2, <2>3, <2>4 DEF Faultless
<1> QED
  BY <1>1, <1>3, <1>4 DEF HistoryInv

LEMMA HistoryStarts ==
    ASSUME HistoryInv, RecordsInv, RoomsInv, Free, StartNow,
           UNCHANGED <<trackerVars, gen, killed>>
    PROVE  HistoryInv'
<1>1. calls' = <<Call("start")>> /\ gen' = gen /\ killed' = killed
  BY DEF StartNow
<1>2. calls'[1].op = "start" /\ calls'[1].gen = gen /\ DOMAIN calls' = {1}
  BY <1>1 DEF Call
<1>3. Due("start", gen)'
  BY <1>1, <1>2 DEF Due
<1> QED
  BY <1>1, <1>2, <1>3, HistorySection

LEMMA HistoryTeardown ==
    ASSUME HistoryInv, RecordsInv, RoomsInv, NEW reg, RemoveMembers(reg)
    PROVE  HistoryInv'
<1>1. UNCHANGED trackerVars /\ killed' = killed /\ Free
  BY DEF RemoveMembers
<1>2. CASE ~RoomsClose(reg)
  BY <1>1, <1>2, HistoryQuiet DEF RemoveMembers, Teardown
<1>3. CASE RoomsClose(reg)
  <2>1. /\ gen' = gen + 1 /\ register' = Zero /\ gen \in Nat
        /\ calls' = <<Call(IF register[1] # 0 /\ register[2] # 0 THEN "complete" ELSE "abort")>>
    BY <1>3, TypesOfSiege DEF RemoveMembers, Teardown
  <2>2. /\ boot' = boot /\ active' = active /\ terminal' = terminal /\ rows' = rows
        /\ faults' = faults /\ boot \in Nat
    BY <1>1 DEF trackerVars, RecordsInv, TrackerTypeOK
  <2>3. /\ DOMAIN calls' = {1} /\ calls'[1].gen = gen
        /\ calls'[1].op \in {"complete", "abort"}
    BY <2>1 DEF Call
  <2>4. Ordered'
    <3>1. \A siege \in killed : siege[2] \in Nat
      BY TypesOfSiege
    <3>2. \A i \in DOMAIN terminal : terminal[i] \in Nat
      BY DEF RecordsInv, TrackerTypeOK
    <3> QED
      BY <1>1, <2>1, <2>2, <2>3, <3>1, <3>2 DEF HistoryInv, Ordered
  <2>5. ASSUME Faultless PROVE Faultless'
    <3>1. /\ active # NoRun => active.gen = gen
          /\ \A i \in DOMAIN rows : rows[i].siege[1] = boot /\ rows[i].siege \in killed
                                      => Ended(rows[i])
      BY <1>1, <2>5, FreeHistory
    <3>2. Synced'
      BY <2>2, <2>5 DEF Faultless, Synced, SomeActive
    <3>3. RunIsDue'
      BY <2>2, <2>3, <3>1 DEF RunIsDue, Due
    <3>4. StartIsDue'
      <4>1. <<boot, gen + 1>> \notin killed
        BY <2>1 DEF HistoryInv, Ordered
      <4>2. ~ Over(gen + 1)
        BY <2>1 DEF HistoryInv, Ordered, Over
      <4>3. register'[1] = 0
        BY <2>1 DEF Zero, Reg
      <4>4. ~Over(gen)'
        BY <2>1, <2>2, <4>2 DEF Over
      <4> QED
        BY <1>1, <2>1, <2>2, <4>1, <4>3, <4>4 DEF StartIsDue
    <3>5. ResultIsDue'
      <4>1. \A i \in DOMAIN rows : rows[i].siege[1] = boot => rows[i].siege[2] # gen + 1
        BY <2>1 DEF RecordsInv, RowsAreOld
      <4> QED
        BY <1>1, <2>1, <2>2, <3>1, <4>1 DEF ResultIsDue, Ended
    <3> QED
      BY <3>2, <3>3, <3>4, <3>5 DEF Faultless
  <2> QED
    BY <2>2, <2>4, <2>5 DEF HistoryInv
<1> QED
  BY <1>2, <1>3

\* The killed time is registered for a started siege only.
LEMMA KilledAfterStart ==
    ASSUME NEW reg \in [Reg -> 0 .. RegMod - 1], NEW u \in Update,
           Written(reg, u)[2] # reg[2]
    PROVE  reg[1] # 0
<1>1. Accepted(reg, u) /\ u.dest \in Reg
  BY DEF Written, Update
<1>2. u.dest = 2
  BY <1>1 DEF Written, Reg
<1> QED
  BY <1>1, <1>2 DEF Accepted

LEMMA HistoryOperate ==
    ASSUME HistoryInv, RecordsInv, RoomsInv, NEW p \in Packet, OperateRegister(p[1], p[2])
    PROVE  HistoryInv'
<1>0. p[1] \in Update /\ p[2] \in Update
  BY DEF RavienteAssumption
<1> DEFINE first == Written(register, p[1])
           second == Written(first, p[2])
           crosses(r) == \/ register[r] = 0 /\ first[r] # 0
                         \/ first[r] = 0 /\ second[r] # 0
           starts == IF crosses(1) THEN <<Call("start")>> ELSE <<>>
           ends == IF crosses(2) THEN <<Call("complete")>> ELSE <<>>
<1>1. /\ register' = second /\ calls' = starts \o ends
      /\ killed' = IF crosses(2) THEN killed \cup {<<boot, gen>>} ELSE killed
      /\ UNCHANGED <<gen, trackerVars>> /\ Free
  BY DEF OperateRegister
<1>2. crosses(2) => register[1] # 0 \/ crosses(1)
  <2>1. p[1] \in Update /\ p[2] \in Update
    BY <1>0
  <2>2. register \in [Reg -> 0 .. RegMod - 1]
    BY TypesOfSiege
  <2>3. first \in [Reg -> 0 .. RegMod - 1]
    BY <2>1, <2>2, WrittenType
  <2>4. first[2] # register[2] => register[1] # 0
    BY <2>1, <2>2, KilledAfterStart
  <2> HIDE DEF first
  <2>5. second[2] # first[2] => first[1] # 0
    BY <2>1, <2>3, KilledAfterStart
  <2> HIDE DEF second
  <2> QED
    BY <2>4, <2>5
<1>3. /\ \A i \in DOMAIN calls' : /\ calls'[i].op = "start" => i = 1
                                  /\ calls'[i].gen = gen /\ calls'[i].op # "abort"
      /\ crosses(1) => Due("start", gen)'
      /\ crosses(2) => Due("complete", gen)'
  <2>1. /\ Call("start").gen = gen /\ Call("start").op = "start"
        /\ Call("complete").gen = gen /\ Call("complete").op = "complete" /\ gen' = gen
    BY <1>1 DEF Call
  <2> HIDE DEF crosses
  <2>2. CASE crosses(1) /\ crosses(2)
    <3>1. calls' = <<Call("start")>> \o <<Call("complete")>>
      BY <1>1, <2>2
    <3> DEFINE S == {Call("start"), Call("complete")}
               s == <<Call("start")>>
               t == <<Call("complete")>>
    <3>2. s \in Seq(S) /\ t \in Seq(S) /\ Len(s) = 1 /\ Len(t) = 1
          /\ s[1] = Call("start") /\ t[1] = Call("complete")
      OBVIOUS
    <3> HIDE DEF S, s, t
    <3>3. /\ s \o t \in Seq(S) /\ Len(s \o t) = 2
          /\ \A i \in 1 .. 2 : (s \o t)[i] = IF i <= 1 THEN s[i] ELSE t[i - 1]
      BY <3>2, ConcatProperties, SMTT(40)
    <3>4. /\ DOMAIN (s \o t) = 1 .. 2
          /\ (s \o t)[1] = Call("start") /\ (s \o t)[2] = Call("complete")
      BY <3>2, <3>3, LenProperties
    <3>5. calls' = s \o t
      BY <3>1 DEF s, t
    <3> QED
      BY <2>1, <3>4, <3>5 DEF Due
  <2>3. CASE crosses(1) /\ ~crosses(2)
    <3>1. calls' = <<Call("start")>>
      BY <1>1, <2>3
    <3>2. DOMAIN calls' = {1} /\ calls'[1] = Call("start")
      BY <3>1
    <3> QED
      BY <2>1, <2>3, <3>2 DEF Due
  <2>4. CASE ~crosses(1) /\ crosses(2)
    <3>1. calls' = <<Call("complete")>>
      BY <1>1, <2>4
    <3>2. DOMAIN calls' = {1} /\ calls'[1] = Call("complete")
      BY <3>1
    <3> QED
      BY <2>1, <2>4, <3>2 DEF Due
  <2>5. CASE ~crosses(1) /\ ~crosses(2)
    <3>1. DOMAIN calls' = {}
      BY <1>1, <2>5
    <3> QED
      BY <2>5, <3>1
  <2> QED
    BY <2>2, <2>3, <2>4, <2>5
<1>4. register'[1] # 0 => register[1] # 0 \/ crosses(1)
  <2> HIDE DEF first, second
  <2> QED
    BY <1>1
<1> HIDE DEF crosses
<1>5. /\ killed \subseteq killed' /\ killed' \subseteq killed \cup {<<boot, gen>>}
      /\ <<boot, gen>> \in killed' => <<boot, gen>> \in killed \/ crosses(2)
  BY <1>1
<1> QED
  BY <1>1, <1>2, <1>3, <1>4, <1>5, HistorySection

-----------------------------------------------------------------------------
\* What is still due once the first call has been made.
DueLater(op, g) == \E i \in DOMAIN calls' : calls'[i].op = op /\ calls'[i].gen = g

LEMMA CallsLeft ==
    ASSUME HistoryInv, RecordsInv, RoomsInv, TrackerCall, NEW c, c = Head(calls)
    PROVE  /\ c.gen \in Nat /\ c.gen <= gen /\ c.op \in {"start", "complete", "abort"}
           /\ c.op = "start" => c.gen = gen
           /\ c.op = "abort" => c.gen < gen
           /\ c.op = "complete" => <<boot, c.gen>> \in killed
           /\ c.gen # gen => \A op, g : Due(op, g) => op = c.op /\ g = c.gen
           /\ c.op # "start" => \A g : ~Due("start", g)
           /\ \A op, g : Due(op, g) => DueLater(op, g) \/ (op = c.op /\ g = c.gen)
           /\ \A i \in DOMAIN calls' : /\ calls'[i].op # "start" /\ calls'[i].gen <= gen
                                       /\ calls'[i].op = "abort" => calls'[i].gen < gen
<1>1. calls # <<>> /\ calls' = Tail(calls)
  BY DEF TrackerCall
<1>2. calls \in Seq(CallType) /\ Len(calls) \in Nat \ {0} /\ DOMAIN calls = 1 .. Len(calls)
  <2>1. calls \in Seq(CallType)
    BY TypesOfSiege
  <2> QED
    BY <1>1, <2>1, EmptySeq, LenProperties
<1>3. c = calls[1] /\ 1 \in DOMAIN calls
  BY <1>2
<1>4. c.gen \in Nat /\ c.op \in {"start", "complete", "abort"}
  <2>1. calls[1] \in CallType
    BY <1>2, ElementOfSeq
  <2> QED
    BY <1>3, <2>1 DEF CallType
<1>5. \A i \in DOMAIN calls : /\ calls[i].op = "start" => i = 1
                              /\ calls[i].gen <= gen
                              /\ calls[i].op = "abort" => calls[i].gen < gen
  BY DEF HistoryInv, Ordered
<1>6. \A i \in DOMAIN calls :
         /\ calls[i].op = "complete" => <<boot, calls[i].gen>> \in killed
         /\ calls[i].gen # gen => Len(calls) = 1 /\ calls[i].op # "start"
  BY DEF RecordsInv, CallsAreDue
<1>7. /\ Len(calls') = Len(calls) - 1 /\ DOMAIN calls' = 1 .. Len(calls')
      /\ \A i \in 1 .. Len(calls') : calls'[i] = calls[i + 1]
  <2>1. /\ calls' \in Seq(CallType) /\ Len(calls') = Len(calls) - 1
        /\ \A i \in 1 .. Len(calls') : calls'[i] = calls[i + 1]
    BY <1>1, <1>2, HeadTailProperties
  <2> QED
    BY <2>1, LenProperties
<1>8. \A i \in DOMAIN calls' : i + 1 \in DOMAIN calls /\ calls'[i] = calls[i + 1] /\ i + 1 # 1
  BY <1>2, <1>7
<1>9. \A i \in DOMAIN calls : i = 1 \/ (i - 1 \in DOMAIN calls' /\ calls'[i - 1] = calls[i])
  BY <1>2, <1>7
<1>10. \A op, g : Due(op, g) => DueLater(op, g) \/ (op = c.op /\ g = c.gen)
  BY <1>3, <1>9 DEF Due, DueLater
<1>11. \A i \in DOMAIN calls' : /\ calls'[i].op # "start" /\ calls'[i].gen <= gen
                                /\ calls'[i].op = "abort" => calls'[i].gen < gen
  BY <1>5, <1>8
<1>12. c.op # "start" => \A g : ~Due("start", g)
  BY <1>3, <1>5 DEF Due
<1>13. c.gen # gen => \A op, g : Due(op, g) => op = c.op /\ g = c.gen
  <2>1. c.gen # gen => Len(calls) = 1
    BY <1>3, <1>6, Zenon
  <2>2. c.gen # gen => \A i \in DOMAIN calls : i = 1
    BY <1>2, <2>1
  <2> QED
    BY <1>3, <2>2 DEF Due
<1> QED
  BY <1>3, <1>4, <1>5, <1>6, <1>10, <1>11, <1>12, <1>13

\* A generation is over because it was, or because it has just been marked.
LEMMA MarkedOnly ==
    ASSUME terminal \in Seq(Nat), NEW g \in Nat, terminal' = MarkTerminal(g)
    PROVE  \A i \in DOMAIN terminal' : terminal'[i] = g \/ Over(terminal'[i])
<1>1. CASE Over(g)
  BY <1>1 DEF Over, MarkTerminal
<1>2. CASE ~Over(g)
  <2> DEFINE all == Append(terminal, g)
  <2>1. /\ all \in Seq(Nat) /\ Len(all) = Len(terminal) + 1 /\ all[Len(all)] = g
        /\ Len(terminal) \in Nat /\ DOMAIN terminal = 1 .. Len(terminal)
        /\ \A i \in 1 .. Len(terminal) : all[i] = terminal[i]
    OBVIOUS
  <2>2. terminal' = all \/ terminal' = Tail(all)
    BY <1>2 DEF MarkTerminal
  <2> HIDE DEF all
  <2>3. \A i \in 1 .. Len(all) : all[i] = g \/ Over(all[i])
    BY <2>1, SMTT(40) DEF Over
  <2>4. CASE terminal' = all
    BY <2>1, <2>3, <2>4, LenProperties
  <2>5. CASE terminal' = Tail(all)
    <3>1. all # <<>>
      BY <2>1
    <3>2. /\ Tail(all) \in Seq(Nat) /\ Len(Tail(all)) = Len(all) - 1
          /\ \A i \in 1 .. Len(Tail(all)) : Tail(all)[i] = all[i + 1]
      BY <2>1, <3>1, HeadTailProperties
    <3>3. DOMAIN Tail(all) = 1 .. Len(Tail(all))
      BY <3>2, LenProperties
    <3> QED
      BY <2>1, <2>3, <2>5, <3>2, <3>3, SMTT(40)
  <2> QED
    BY <2>2, <2>4, <2>5
<1> QED
  BY <1>1, <1>2

\* A call that leaves the tracker's table as it was.
LEMMA UntouchedHistory ==
    ASSUME Faultless, RecordsInv, NEW g, NEW op,
           UNCHANGED <<boot, gen, register, killed, active, rows>>,
           \A h : Over(h)' => Over(h) \/ h = g,
           op # "start" => \A h : ~Due("start", h),
           \A o, h : Due(o, h) => DueLater(o, h) \/ (o = op /\ h = g),
           active # NoRun /\ active.gen = g => op = "start",
           g = gen => Recorded(gen)
    PROVE  Faultless'
<1>1. /\ boot' = boot /\ gen' = gen /\ register' = register /\ killed' = killed
      /\ active' = active /\ rows' = rows
  OBVIOUS
<1> USE DEF Faultless
<1>2. Synced'
  BY <1>1 DEF Synced, SomeActive
<1>3. RunIsDue'
  <2>1. active # NoRun =>
          active.gen = gen \/ DueLater("complete", active.gen) \/ DueLater("abort", active.gen)
    BY DEF RunIsDue
  <2> QED
    BY <1>1, <2>1 DEF RunIsDue, Due, DueLater
<1>4. StartIsDue'
  <2>1. /\ register[1] # 0 => Recorded(gen) \/ DueLater("start", gen)
        /\ <<boot, gen>> \in killed =>
              Recorded(gen) \/ (DueLater("start", gen) /\ DueLater("complete", gen))
        /\ Over(gen)' => Recorded(gen)
    BY <1>1, Zenon DEF StartIsDue
  <2>2. Recorded(gen)' <=> Recorded(gen)
    BY <1>1 DEF Recorded
  <2> QED
    BY <1>1, <2>1, <2>2 DEF StartIsDue, Due, DueLater
<1>5. ResultIsDue'
  <2> SUFFICES ASSUME NEW i \in DOMAIN rows, rows[i].siege[1] = boot
               PROVE  /\ rows[i].siege \in killed =>
                            \/ Ended(rows[i])
                            \/ rows[i].status = "active" /\ DueLater("complete", rows[i].siege[2])
                      /\ rows[i].status = "aborted" /\ rows[i].siege[2] = gen
                            => rows[i].team = {}
    BY <1>1 DEF ResultIsDue, Due, DueLater, Ended
  <2>1. /\ rows[i].siege \in killed =>
             Ended(rows[i]) \/ (rows[i].status = "active" /\ Due("complete", rows[i].siege[2]))
        /\ rows[i].status = "aborted" /\ rows[i].siege[2] = gen => rows[i].team = {}
    BY DEF ResultIsDue
  <2>2. ASSUME rows[i].status = "active", op = "complete"
        PROVE  rows[i].siege[2] # g
    <3>1. active # NoRun /\ rows[active.id].status = "active"
      BY <2>2 DEF Synced, SomeActive
    <3>2. i = active.id /\ rows[active.id].siege = <<boot, active.gen>>
      BY <2>2, <3>1, RunParts, Zenon DEF RecordsInv, OneActive
    <3> QED
      BY <2>2, <3>1, <3>2
  <2> QED
    BY <2>1, <2>2
<1> QED
  BY <1>2, <1>3, <1>4, <1>5

\* A call that ends the tracker's run and its row.
LEMMA EndedHistory ==
    ASSUME Faultless, RecordsInv, NEW g, NEW op, active # NoRun, active.gen = g,
           UNCHANGED <<boot, gen, register, killed>>, active' = NoRun,
           \A h : Over(h)' => Over(h) \/ h = g,
           \A h : ~Due("start", h),
           \A o, h : Due(o, h) => DueLater(o, h) \/ (o = op /\ h = g),
           SameBut(rows', active.id), rows'[active.id].status # "active",
           <<boot, g>> \in killed => Ended(rows'[active.id]),
           rows'[active.id].status = "aborted" /\ g = gen => rows'[active.id].team = {}
    PROVE  Faultless'
<1>1. boot' = boot /\ gen' = gen /\ register' = register /\ killed' = killed
  OBVIOUS
<1>2. /\ active.id \in DOMAIN rows /\ rows[active.id].siege = <<boot, g>>
      /\ rows[active.id].status = "active"
  BY RunParts, Zenon DEF Faultless, Synced
<1>3. /\ DOMAIN rows' = DOMAIN rows
      /\ \A i \in DOMAIN rows : rows'[i].siege = rows[i].siege
      /\ \A i \in DOMAIN rows : i # active.id => rows'[i] = rows[i] /\ rows[i].status # "active"
  BY <1>2 DEF SameBut, RecordsInv, OneActive
<1>4. Synced'
  BY <1>3 DEF Synced, SomeActive
<1>5. RunIsDue'
  BY DEF RunIsDue
<1>6. StartIsDue'
  <2>1. /\ register[1] # 0 => Recorded(gen)
        /\ <<boot, gen>> \in killed => Recorded(gen)
        /\ Over(gen) => Recorded(gen)
    BY DEF Faultless, StartIsDue
  <2>2. g = gen => Recorded(gen)
    BY <1>2 DEF Recorded
  <2>3. Recorded(gen)' <=> Recorded(gen)
    BY <1>1, <1>3 DEF Recorded
  <2>4. Over(gen)' => Recorded(gen)
    BY <1>1, <2>1, <2>2, Zenon
  <2> QED
    BY <1>1, <2>1, <2>3, <2>4 DEF StartIsDue
<1>7. ResultIsDue'
  <2> SUFFICES ASSUME NEW i \in DOMAIN rows, rows[i].siege[1] = boot
               PROVE  /\ rows[i].siege \in killed => Ended(rows'[i])
                      /\ rows'[i].status = "aborted" /\ rows[i].siege[2] = gen
                            => rows'[i].team = {}
    BY <1>1, <1>3 DEF ResultIsDue, Ended
  <2>1. CASE i = active.id
    BY <1>2, <2>1
  <2>2. CASE i # active.id
    <3>1. rows'[i] = rows[i] /\ rows[i].status # "active"
      BY <1>3, <2>2
    <3> QED
      BY <3>1 DEF Faultless, ResultIsDue
  <2> QED
    BY <2>1, <2>2
<1> QED
  BY <1>4, <1>5, <1>6, <1>7 DEF Faultless

\* A start that opens a run: no other is active, and the kill of this siege, if it has
\* been accepted already, is still to be reported.
LEMMA OpenedHistory ==
    ASSUME Faultless, RecordsInv, RoomsInv, active = NoRun,
           UNCHANGED <<boot, gen, register, killed, terminal>>,
           rows' = Append(rows, NewRow(gen)), active' = NewRun(gen, Len(rows) + 1),
           ~Recorded(gen),
           \A o, h : Due(o, h) => DueLater(o, h) \/ (o = "start" /\ h = gen)
    PROVE  Faultless'
<1> DEFINE id == Len(rows) + 1
           row == NewRow(gen)
<1>1. /\ boot' = boot /\ gen' = gen /\ register' = register /\ killed' = killed
      /\ terminal' = terminal /\ rows \in Seq(Row) /\ Len(rows) \in Nat
      /\ boot \in Nat /\ gen \in Nat
  BY TypesOfSiege DEF RecordsInv, TrackerTypeOK
<1>2. /\ row \in Row /\ row.siege = <<boot, gen>> /\ row.status = "active"
      /\ row.kind = Unknown /\ row.team = {}
  BY <1>1 DEF NewRow, Row
<1>3. /\ active'.id = id /\ active'.gen = gen /\ active'.kind = Unknown /\ active'.team = {}
      /\ ~active'.closed
  BY DEF NewRun
<1>4. active' # NoRun
  <2>1. active' \in Run
    BY <1>1 DEF NewRun, Run
  <2> QED
    BY <2>1 DEF TrackerAssumption
<1> HIDE DEF row
<1>5. /\ rows' \in Seq(Row) /\ Len(rows') = id /\ rows'[id] = row
      /\ \A i \in 1 .. Len(rows) : rows'[i] = rows[i]
  BY <1>1, <1>2, AppendProperties DEF row
<1>6. DOMAIN rows' = 1 .. id /\ DOMAIN rows = 1 .. Len(rows)
  BY <1>1, <1>5, LenProperties
<1>7. /\ id \in DOMAIN rows'
      /\ \A i \in DOMAIN rows' : i = id \/ (i \in DOMAIN rows /\ rows'[i] = rows[i])
  BY <1>1, <1>5, <1>6
<1> HIDE DEF id
<1>8. Synced'
  BY <1>2, <1>3, <1>4, <1>5, Zenon DEF Synced
<1>9. RunIsDue'
  BY <1>1, <1>3 DEF RunIsDue
<1>10. Recorded(gen)'
  BY <1>1, <1>2, <1>5, <1>7 DEF Recorded
<1>11. StartIsDue'
  BY <1>10 DEF StartIsDue
<1>12. ResultIsDue'
  <2> SUFFICES ASSUME NEW i \in DOMAIN rows', rows'[i].siege[1] = boot
               PROVE  /\ rows'[i].siege \in killed =>
                            \/ Ended(rows'[i])
                            \/ /\ rows'[i].status = "active"
                               /\ DueLater("complete", rows'[i].siege[2])
                      /\ rows'[i].status = "aborted" /\ rows'[i].siege[2] = gen
                            => rows'[i].team = {}
    BY <1>1 DEF ResultIsDue, Due, DueLater, Ended
  <2>1. CASE i = id
    <3>1. <<boot, gen>> \in killed => DueLater("complete", gen)
      BY DEF Faultless, StartIsDue
    <3> QED
      BY <1>2, <1>5, <2>1, <3>1
  <2>2. CASE i \in DOMAIN rows /\ rows'[i] = rows[i]
    BY <2>2 DEF Faultless, ResultIsDue
  <2> QED
    BY <1>7, <2>1, <2>2
<1> QED
  BY <1>8, <1>9, <1>11, <1>12 DEF Faultless

\* The calls of the siege, as they are made.
LEMMA StartHistory ==
    ASSUME Faultless, RecordsInv, RoomsInv, StartRun(gen), faults' = 0, faults = 0,
           UNCHANGED <<boot, gen, register, killed>>,
           active # NoRun /\ active.gen # gen =>
               ~Due("complete", active.gen) /\ ~Due("abort", active.gen),
           \A o, h : Due(o, h) => DueLater(o, h) \/ (o = "start" /\ h = gen)
    PROVE  Faultless'
<1>1. active # NoRun => ~active.closed /\ active.gen = gen
  BY DEF Faultless, Synced, RunIsDue
<1>2. CASE Known(gen) /\ UNCHANGED trackerVars
  <2>1. UNCHANGED <<active, terminal, rows>>
    BY <1>2 DEF trackerVars
  <2>2. Recorded(gen)
    <3>1. CASE Over(gen)
      BY <3>1 DEF Faultless, StartIsDue
    <3>2. CASE active # NoRun /\ active.gen = gen
      BY <3>2, RunParts, Zenon DEF Recorded
    <3> QED
      BY <1>2, <3>1, <3>2 DEF Known
  <2>3. \A h : Over(h)' => Over(h)
    BY <2>1 DEF Over
  <2> QED
    BY <2>1, <2>2, <2>3, UntouchedHistory
<1>3. CASE StartFirst(gen)
  <2>1. active = NoRun /\ ~Over(gen) /\ terminal' = terminal
    BY <1>3 DEF StartFirst, Known
  <2>2. ~SomeActive(rows)
    BY <2>1 DEF Faultless, Synced
  <2>3. PICK a \in Answers : /\ Open(rows, gen, a)
                             /\ faults' = IF a.ok THEN faults ELSE faults + 1
    BY <1>3, <2>2 DEF StartFirst
  <2>4. a = Done
    BY <2>3, AnswersAre DEF Done, Failed, Lost
  <2>5. rows' = Append(rows, NewRow(gen)) /\ active' = NewRun(gen, Len(rows) + 1)
    BY <2>3, <2>4 DEF Open, Done
  <2>6. ~Recorded(gen)
    BY <2>1, <2>2 DEF Recorded, RecordsInv, RecordedIsKnown, RunIs, SomeActive
  <2> QED
    BY <2>1, <2>5, <2>6, OpenedHistory
<1>4. CASE StartNext(gen)
  BY <1>1, <1>4 DEF StartNext, Known
<1> QED
  BY <1>2, <1>3, <1>4 DEF StartRun

LEMMA CompleteHistory ==
    ASSUME Faultless, RecordsInv, NEW g \in Nat, Complete(g), faults' = 0, faults = 0,
           UNCHANGED <<boot, gen, register, killed>>, <<boot, g>> \in killed,
           \A h : ~Due("start", h),
           \A o, h : Due(o, h) => DueLater(o, h) \/ (o = "complete" /\ h = g)
    PROVE  Faultless'
<1>0. terminal \in Seq(Nat)
  BY DEF RecordsInv, TrackerTypeOK
<1>1. CASE Tombstone(g)
  <2>1. \A h : Over(h)' => Over(h) \/ h = g
    BY <1>0, <1>1, MarkedOnly DEF Tombstone, Over
  <2>2. g = gen => Recorded(gen)
    BY DEF Faultless, StartIsDue
  <2>3. ~(active # NoRun /\ active.gen = g) /\ UNCHANGED <<active, rows>>
    BY <1>1 DEF Tombstone, Stale
  <2> QED
    BY <2>1, <2>2, <2>3, UntouchedHistory
<1>2. CASE /\ ~Stale(g) /\ (active.kind = Unknown \/ active.team = {})
           /\ AbortActive(g)
  <2>0. active # NoRun /\ active.gen = g
    BY <1>2 DEF Stale
  <2> DEFINE id == active.id
  <2>1. /\ active.team = {} /\ rows[id].team = {} /\ rows[id].status = "active"
    BY <1>2, <2>0 DEF Faultless, Synced
  <2>2. PICK a \in Answers :
           /\ rows' = IF a.applied THEN End(active.id, "aborted") ELSE rows
           /\ Count(a)
           /\ a.ok => active' = NoRun /\ terminal' = MarkTerminal(g)
    BY <1>2 DEF AbortActive
  <2>3. a = Done
    BY <2>2, AnswersAre DEF Count, Done, Failed, Lost
  <2>4. rows' = End(id, "aborted") /\ active' = NoRun /\ terminal' = MarkTerminal(g)
    BY <2>2, <2>3 DEF Done
  <2>5. id \in DOMAIN rows /\ rows \in Seq(Row)
    BY <2>0, RunParts
  <2> HIDE DEF id
  <2>6. /\ SameBut(rows', id) /\ rows'[id].status # "active"
        /\ rows'[id].status = "aborted" /\ rows'[id].team = {}
    <3>1. rows' = [rows EXCEPT ![id].status = "aborted"]
      BY <2>1, <2>4 DEF End
    <3>2. rows[id] \in Row
      BY <2>5, RowParts
    <3>3. rows'[id] = [rows[id] EXCEPT !.status = "aborted"]
      BY <2>5, <3>1
    <3>4. rows'[id].status = "aborted" /\ rows'[id].team = {}
      BY <2>1, <3>2, <3>3 DEF Row
    <3> QED
      BY <2>4, <2>5, <3>4, RowsEnded, Zenon
  <2>7. \A h : Over(h)' => Over(h) \/ h = g
    BY <1>0, <2>4, MarkedOnly DEF Over
  <2> QED
    BY <2>0, <2>4, <2>6, <2>7, EndedHistory DEF Ended, id
<1>3. CASE /\ ~Stale(g) /\ active.kind # Unknown /\ active.team # {}
           /\ \E a \in Answers :
                /\ rows' = IF a.applied THEN Completed(active.id, active.kind, active.team)
                           ELSE rows
                /\ Count(a)
                /\ IF a.ok THEN active' = NoRun /\ terminal' = MarkTerminal(g)
                   ELSE UNCHANGED <<active, terminal>>
  <2>0. active # NoRun /\ active.gen = g
    BY <1>3 DEF Stale
  <2> DEFINE id == active.id
  <2>1. rows[id].status = "active"
    BY <2>0 DEF Faultless, Synced
  <2>2. PICK a \in Answers :
           /\ rows' = IF a.applied THEN Completed(active.id, active.kind, active.team)
                      ELSE rows
           /\ Count(a)
           /\ a.ok => active' = NoRun /\ terminal' = MarkTerminal(g)
    BY <1>3
  <2>3. a = Done
    BY <2>2, AnswersAre DEF Count, Done, Failed, Lost
  <2>4. /\ rows' = Completed(id, active.kind, active.team) /\ active' = NoRun
        /\ terminal' = MarkTerminal(g)
    BY <2>2, <2>3 DEF Done
  <2>5. id \in DOMAIN rows /\ rows \in Seq(Row) /\ active.kind \in Kind
        /\ active.team \in SUBSET Player /\ active.team # {}
    BY <1>3, <2>0, RunParts, Zenon
  <2> HIDE DEF id
  <2>6. /\ SameBut(rows', id) /\ rows'[id].status # "active"
        /\ rows'[id].status = "completed" /\ rows'[id].team # {}
    <3>1. SameBut(rows', id) /\ rows'[id].status # "active" /\ rows'[id].team # {}
      BY <2>1, <2>4, <2>5, RowsCompleted
    <3>2. rows[id] \in Row
      BY <2>5, RowParts
    <3>3. rows'[id].status = "completed"
      BY <2>1, <2>4, <2>5, <3>2 DEF Completed, Row
    <3> QED
      BY <3>1, <3>3
  <2>7. \A h : Over(h)' => Over(h) \/ h = g
    BY <1>0, <2>4, MarkedOnly DEF Over
  <2> QED
    BY <2>0, <2>4, <2>6, <2>7, EndedHistory DEF Ended, id
<1>4. CASE ~Stale(g) /\ active.closed
  BY <1>4 DEF Stale, Faultless, Synced
<1> QED
  BY <1>1, <1>2, <1>3, <1>4 DEF Complete

LEMMA AbortHistory ==
    ASSUME Faultless, RecordsInv, NEW g \in Nat, Abort(g), faults' = 0, faults = 0,
           UNCHANGED <<boot, gen, register, killed>>, g # gen,
           \A h : ~Due("start", h), ~Due("complete", g),
           \A o, h : Due(o, h) => DueLater(o, h) \/ (o = "abort" /\ h = g)
    PROVE  Faultless'
<1>0. terminal \in Seq(Nat)
  BY DEF RecordsInv, TrackerTypeOK
<1>1. CASE Tombstone(g)
  <2>1. \A h : Over(h)' => Over(h) \/ h = g
    BY <1>0, <1>1, MarkedOnly DEF Tombstone, Over
  <2>2. ~(active # NoRun /\ active.gen = g) /\ UNCHANGED <<active, rows>>
    BY <1>1 DEF Tombstone, Stale
  <2> QED
    BY <2>1, <2>2, UntouchedHistory
<1>2. CASE ~Stale(g) /\ AbortActive(g)
  <2>0. active # NoRun /\ active.gen = g
    BY <1>2 DEF Stale
  <2> DEFINE id == active.id
  <2>1. PICK a \in Answers :
           /\ rows' = IF a.applied THEN End(active.id, "aborted") ELSE rows
           /\ Count(a)
           /\ a.ok => active' = NoRun /\ terminal' = MarkTerminal(g)
    BY <1>2 DEF AbortActive
  <2>2. a = Done
    BY <2>1, AnswersAre DEF Count, Done, Failed, Lost
  <2>3. rows' = End(id, "aborted") /\ active' = NoRun /\ terminal' = MarkTerminal(g)
    BY <2>1, <2>2 DEF Done
  <2>4. /\ id \in DOMAIN rows /\ rows \in Seq(Row) /\ rows[id].siege = <<boot, g>>
        /\ rows[id].status = "active"
    BY <2>0, RunParts, Zenon DEF Faultless, Synced
  <2>5. <<boot, g>> \notin killed
    BY <2>4 DEF Faultless, ResultIsDue, Ended
  <2> HIDE DEF id
  <2>6. SameBut(rows', id) /\ rows'[id].status # "active"
    BY <2>3, <2>4, RowsEnded, Zenon
  <2>7. \A h : Over(h)' => Over(h) \/ h = g
    BY <1>0, <2>3, MarkedOnly DEF Over
  <2> QED
    BY <2>0, <2>3, <2>5, <2>6, <2>7, EndedHistory DEF id
<1> QED
  BY <1>1, <1>2 DEF Abort

\* What a call marks is a generation there has been; a statement that fails is counted.
LEMMA MarkedBounds ==
    ASSUME RecordsInv, NEW g \in Nat, g <= gen,
           terminal' = terminal \/ terminal' = MarkTerminal(g), Ordered
    PROVE  \A i \in DOMAIN terminal' : terminal'[i] <= gen
<1>1. \A h : Over(h) => h <= gen
  BY DEF Ordered, Over
<1>2. terminal \in Seq(Nat)
  BY DEF RecordsInv, TrackerTypeOK
<1>3. CASE terminal' = terminal
  BY <1>3 DEF Ordered
<1>4. CASE terminal' = MarkTerminal(g)
  BY <1>1, <1>2, <1>4, MarkedOnly
<1> QED
  BY <1>3, <1>4

LEMMA CallOutcome ==
    ASSUME RecordsInv, RoomsInv, NEW g \in Nat, g <= gen,
           (g = gen /\ StartRun(g)) \/ Complete(g) \/ Abort(g)
    PROVE  /\ faults' = 0 => faults = 0
           /\ \E h \in 0 .. gen : terminal' = terminal \/ terminal' = MarkTerminal(h)
<1>0. faults \in Nat /\ gen \in Nat
  BY TypesOfSiege DEF RecordsInv, TrackerTypeOK
<1>1. \A a : Count(a) => (faults' = 0 => faults = 0)
  BY <1>0 DEF Count
<1>2. CASE g = gen /\ StartRun(g)
  <2>1. CASE UNCHANGED trackerVars
    BY <1>0, <2>1 DEF trackerVars
  <2>2. CASE StartFirst(g)
    BY <1>0, <2>2 DEF StartFirst
  <2>3. CASE StartNext(g)
    <3>1. active # NoRun
      BY <2>3 DEF StartNext
    <3>2. active.gen \in 0 .. gen
      BY <1>0, <3>1, RunParts, SMTT(40)
    <3>3. /\ terminal' = terminal \/ terminal' = MarkTerminal(active.gen)
          /\ \/ \E a \in Answers : Count(a)
             \/ faults' = faults \/ faults' = faults + 1
      BY <2>3 DEF StartNext
    <3> QED
      BY <1>0, <1>1, <3>2, <3>3
  <2> QED
    BY <1>2, <2>1, <2>2, <2>3 DEF StartRun
<1>3. CASE Complete(g) \/ Abort(g)
  <2>1. CASE Tombstone(g)
    BY <1>0, <2>1 DEF Tombstone
  <2>2. CASE UNCHANGED trackerVars
    BY <1>0, <2>2 DEF trackerVars
  <2>3. CASE \E a \in Answers :
               /\ Count(a)
               /\ terminal' = terminal \/ terminal' = MarkTerminal(g)
    BY <1>0, <1>1, <2>3
  <2>4. AbortActive(g) => \E a \in Answers :
               /\ Count(a)
               /\ terminal' = terminal \/ terminal' = MarkTerminal(g)
    BY DEF AbortActive
  <2> QED
    BY <1>3, <2>1, <2>2, <2>3, <2>4 DEF Complete, Abort
<1> QED
  BY <1>2, <1>3

LEMMA HistoryCall ==
    ASSUME HistoryInv, RecordsInv, RoomsInv, TrackerCall
    PROVE  HistoryInv'
<1>0. PICK c : c = Head(calls)
  OBVIOUS
<1>1. /\ c.gen \in Nat /\ c.gen <= gen /\ c.op \in {"start", "complete", "abort"}
      /\ c.op = "start" => c.gen = gen
      /\ c.op = "abort" => c.gen < gen
      /\ c.op = "complete" => <<boot, c.gen>> \in killed
      /\ c.gen # gen => \A op, g : Due(op, g) => op = c.op /\ g = c.gen
      /\ c.op # "start" => \A g : ~Due("start", g)
      /\ \A op, g : Due(op, g) => DueLater(op, g) \/ (op = c.op /\ g = c.gen)
      /\ \A i \in DOMAIN calls' : /\ calls'[i].op # "start" /\ calls'[i].gen <= gen
                                  /\ calls'[i].op = "abort" => calls'[i].gen < gen
  BY <1>0, CallsLeft
<1>2. /\ \/ c.op = "start" /\ StartRun(c.gen)
         \/ c.op = "complete" /\ Complete(c.gen)
         \/ c.op = "abort" /\ Abort(c.gen)
      /\ UNCHANGED <<gen, register, killed>>
  BY <1>0 DEF TrackerCall
<1>3. /\ faults' = 0 => faults = 0
      /\ \E h \in 0 .. gen : terminal' = terminal \/ terminal' = MarkTerminal(h)
  BY <1>1, <1>2, CallOutcome
<1>4. boot' = boot
  BY <1>2 DEF StartRun, StartFirst, StartNext, Complete, Abort, AbortActive, Tombstone,
              trackerVars
<1>5. Ordered'
  <2>1. \A i \in DOMAIN terminal' : terminal'[i] <= gen
    <3>1. gen \in Nat
      BY TypesOfSiege
    <3> QED
      BY <1>3, <3>1, MarkedBounds DEF HistoryInv
  <2> QED
    BY <1>1, <1>2, <1>4, <2>1 DEF HistoryInv, Ordered
<1>6. ASSUME Faultless, faults = 0, faults' = 0
      PROVE  Faultless'
  <2>1. CASE c.op = "start" /\ StartRun(c.gen)
    <3>1. \A h : h # gen => ~Due("complete", h) /\ ~Due("abort", h)
      <4>1. gen \in Nat
        BY TypesOfSiege
      <4>2. ASSUME NEW i \in DOMAIN calls, calls[i].gen # gen
            PROVE  FALSE
        <5>1. Due(calls[i].op, calls[i].gen)
          BY DEF Due
        <5>2. Len(calls) = 1 /\ calls[i].op # "start"
          BY <4>2, Zenon DEF RecordsInv, CallsAreDue
        <5>3. i = 1
          <6>1. calls \in Seq(CallType)
            BY TypesOfSiege
          <6> QED
            BY <5>2, <6>1, LenProperties
        <5>4. c = calls[1]
          BY <1>0
        <5> QED
          BY <2>1, <5>2, <5>3, <5>4
      <4> QED
        BY <4>2 DEF Due
    <3> QED
      BY <1>1, <1>2, <1>4, <1>6, <2>1, <3>1, StartHistory
  <2>2. CASE c.op = "complete" /\ Complete(c.gen)
    BY <1>1, <1>2, <1>4, <1>6, <2>2, CompleteHistory
  <2>3. CASE c.op = "abort" /\ Abort(c.gen)
    BY <1>1, <1>2, <1>4, <1>6, <2>3, AbortHistory
  <2> QED
    BY <1>2, <2>1, <2>2, <2>3
<1> QED
  BY <1>3, <1>5, <1>6 DEF HistoryInv

LEMMA HistoryObserve ==
    ASSUME HistoryInv, RecordsInv, RoomsInv, NEW k \in Kind, NEW p \in Player, EnterQuest(k, p)
    PROVE  HistoryInv'
<1>1. /\ Observe(k, p) /\ UNCHANGED <<gen, register, calls, killed>> /\ boot' = boot
      /\ terminal' = terminal
  BY DEF EnterQuest, Observe, siegeVars
<1>2. PICK a \in Answers :
         /\ rows' = IF a.applied THEN Enrolled(active.id, k, p) ELSE rows
         /\ Count(a)
  BY <1>1 DEF Observe
<1>3. faults' = 0 => faults = 0 /\ a.ok
  BY <1>2 DEF Count, RecordsInv, TrackerTypeOK
<1>4. Ordered'
  BY <1>1 DEF HistoryInv, Ordered
<1>5. ASSUME Faultless, a.ok
      PROVE  Faultless'
  <2> DEFINE id == active.id
             run == [active EXCEPT !.kind = k, !.team = @ \cup {p}]
  <2>1. active # NoRun /\ active' = run /\ active.kind \in {k, Unknown}
    BY <1>1 DEF Observe
  <2>2. /\ run \in Run /\ run.id = id /\ run.gen = active.gen /\ run.kind = k
        /\ run.team = active.team \cup {p} /\ run.closed = active.closed
    BY <2>1, RunParts, Zenon DEF Run
  <2>3. /\ id \in DOMAIN rows /\ rows \in Seq(Row)
        /\ rows[id].status = "active" /\ rows[id].kind = active.kind
        /\ rows[id].team = active.team /\ ~active.closed
    BY <1>5, <2>1, RunParts DEF Faultless, Synced
  <2>4. active' # NoRun
    BY <2>1, <2>2 DEF TrackerAssumption
  <2> HIDE DEF id, run
  <2>5. rows' = Enrolled(id, k, p)
    BY <1>2, <1>5, AnswersAre DEF Done, Failed, Lost, id
  <2>6. rows' = [rows EXCEPT ![id].kind = k, ![id].team = @ \cup {p}]
    BY <2>1, <2>3, <2>5 DEF Enrolled
  <2>7. SameBut(rows', id)
    BY <2>3, <2>5, RowsEnrolled, Zenon
  <2>8. /\ rows'[id].status = "active" /\ rows'[id].kind = k
        /\ rows'[id].team = active.team \cup {p}
    <3>1. rows[id] \in Row
      BY <2>3, RowParts
    <3>2. rows'[id] = [rows[id] EXCEPT !.kind = k, !.team = @ \cup {p}]
      BY <2>3, <2>6
    <3> QED
      BY <2>3, <3>1, <3>2 DEF Row
  <2>9. Synced'
    BY <2>1, <2>2, <2>3, <2>4, <2>8 DEF Synced, TrackerAssumption
  <2>10. RunIsDue'
    BY <1>1, <1>5, <2>1, <2>2 DEF Faultless, RunIsDue, Due
  <2>11. StartIsDue'
    <3>1. Recorded(gen)' <=> Recorded(gen)
      BY <1>1, <2>7 DEF Recorded, SameBut
    <3> QED
      BY <1>1, <1>5, <3>1 DEF Faultless, StartIsDue, Due, Over
  <2>12. ResultIsDue'
    <3>1. \A i \in DOMAIN rows : rows'[i].siege = rows[i].siege /\ (i # id => rows'[i] = rows[i])
      BY <2>7 DEF SameBut
    <3>2. ~Ended(rows[id])
      BY <2>3 DEF Ended
    <3> QED
      BY <1>1, <1>5, <2>3, <2>7, <2>8, <3>1, <3>2
         DEF Faultless, ResultIsDue, Due, Ended, SameBut
  <2> QED
    BY <2>9, <2>10, <2>11, <2>12 DEF Faultless
<1> QED
  BY <1>3, <1>4, <1>5 DEF HistoryInv

LEMMA HistoryRestart ==
    ASSUME HistoryInv, RecordsInv, RoomsInv, Restart
    PROVE  HistoryInv'
<1>1. /\ boot' = boot + 1 /\ active' = NoRun /\ terminal' = <<>> /\ gen' = 0
      /\ killed' = killed /\ calls' = <<>> /\ register' = Zero
  BY DEF Restart, Initialize
<1>2. /\ rows \in Seq(Row) /\ boot \in Nat
      /\ \A siege \in killed : siege[1] <= boot /\ siege[1] \in Nat
      /\ \A i \in DOMAIN rows : rows[i].siege[1] <= boot /\ rows[i].siege[1] \in Nat
  <2>1. \A siege \in killed : siege[1] \in Nat
    BY TypesOfSiege
  <2>2. \A i \in DOMAIN rows : rows[i].siege[1] \in Nat
    BY RowParts DEF RecordsInv, TrackerTypeOK
  <2> QED
    BY <2>1, <2>2 DEF RecordsInv, TrackerTypeOK, RowsAreOld, HistoryInv, Ordered
<1> DEFINE closed == [i \in DOMAIN rows |->
                        [rows[i] EXCEPT !.status = IF @ = "active" THEN "aborted" ELSE @]]
<1>3. PICK a \in Answers : rows' = (IF a.applied THEN closed ELSE rows) /\ Count(a)
  BY DEF Restart, Initialize
<1>4. \A i \in DOMAIN rows : closed[i].siege = rows[i].siege /\ closed[i].status # "active"
  <2> SUFFICES ASSUME NEW i \in DOMAIN rows
               PROVE  closed[i].siege = rows[i].siege /\ closed[i].status # "active"
    OBVIOUS
  <2>1. rows[i] \in Row
    BY <1>2, RowParts
  <2>2. closed[i] = [rows[i] EXCEPT !.status = IF @ = "active" THEN "aborted" ELSE @]
    OBVIOUS
  <2> HIDE DEF closed
  <2> QED
    BY <2>1, <2>2 DEF Row
<1>5. DOMAIN closed = DOMAIN rows
  OBVIOUS
<1> HIDE DEF closed
<1>6. \A i \in DOMAIN rows' : rows'[i].siege[1] # boot + 1
  <2>1. \A i \in DOMAIN rows : rows[i].siege[1] # boot + 1
    BY <1>2
  <2> QED
    BY <1>3, <1>4, <1>5, <2>1
<1>7. Ordered'
  <2>1. \A siege \in killed : siege[1] <= boot + 1 /\ siege[1] # boot + 1
    BY <1>2
  <2>2. DOMAIN terminal' = {} /\ DOMAIN calls' = {}
    BY <1>1
  <2> QED
    BY <1>1, <2>1, <2>2 DEF Ordered
<1>8. ASSUME faults' = 0 PROVE Faultless'
  <2>1. rows' = closed
    BY <1>3, <1>8, AnswersAre DEF Count, RecordsInv, TrackerTypeOK, Done, Failed, Lost
  <2>2. Synced' /\ RunIsDue'
    BY <1>1, <1>4, <1>5, <2>1 DEF Synced, RunIsDue, SomeActive
  <2>3. StartIsDue'
    <3>1. <<boot + 1, 0>> \notin killed
      BY <1>2
    <3>2. register'[1] = 0 /\ ~Over(gen)'
      BY <1>1 DEF Zero, Reg, Over
    <3> QED
      BY <1>1, <3>1, <3>2 DEF StartIsDue
  <2>4. ResultIsDue'
    BY <1>1, <1>6 DEF ResultIsDue
  <2> QED
    BY <2>2, <2>3, <2>4 DEF Faultless
<1> QED
  BY <1>7, <1>8 DEF HistoryInv

LEMMA HistoryStep ==
    ASSUME HistoryInv, RecordsInv, RoomsInv, [RavienteNext]_raviVars
    PROVE  HistoryInv'
<1>1. ASSUME NEW h \in Hunter, Join(h) \/ Disconnect(h)
      PROVE  HistoryInv'
  BY <1>1, HistoryQuiet DEF Join, Disconnect, siegeVars
<1>2. ASSUME NEW h \in Hunter, Delete(h) \/ DeleteMember(h) \/ LeaveRooms(h) \/ CleanUp(h)
      PROVE  HistoryInv'
  <2>1. CASE UNCHANGED <<trackerVars, siegeVars>>
    BY <2>1, HistoryQuiet DEF siegeVars
  <2>2. CASE \E reg : RemoveMembers(reg)
    BY <2>2, HistoryTeardown
  <2>3. (\E reg : RemoveMembers(reg)) \/ UNCHANGED <<trackerVars, siegeVars>>
    BY <1>2, Zenon DEF Delete, DeleteMember, LeaveRooms, CleanUp
  <2> QED
    BY <2>1, <2>2, <2>3
<1>3. ASSUME NEW p \in Packet, OperateRegister(p[1], p[2])
      PROVE  HistoryInv'
  BY <1>3, HistoryOperate
<1>4. CASE StartCommand
  BY <1>4, HistoryStarts DEF StartCommand
<1>5. CASE TrackerCall
  BY <1>5, HistoryCall
<1>6. ASSUME NEW k \in Kind, NEW p \in Player, EnterQuest(k, p)
      PROVE  HistoryInv'
  BY <1>6, HistoryObserve
<1>7. CASE TickRoom \/ TickRegisters \/ TimeUp
  BY <1>7, HistoryQuiet DEF TickRoom, TickRegisters, TimeUp, tickUnchanged
<1>8. CASE Fire
  <2>1. UNCHANGED <<trackerVars, gen, killed>> /\ Free
    BY <1>8 DEF Fire
  <2>2. CASE StillGathering
    BY <1>8, <2>1, <2>2, HistoryStarts DEF Fire
  <2>3. CASE ~StillGathering
    BY <1>8, <2>1, <2>3, HistoryQuiet DEF Fire
  <2> QED
    BY <2>2, <2>3
<1>9. CASE Restart
  BY <1>9, HistoryRestart
<1>10. CASE UNCHANGED raviVars
  BY <1>10, HistoryQuiet DEF raviVars, siegeVars
<1> QED
  BY <1>1, <1>2, <1>3, <1>4, <1>5, <1>6, <1>7, <1>8, <1>9, <1>10, Zenon
     DEF RavienteNext, AutoStart

LEMMA InitHistory == RavienteInit => HistoryInv
<1> SUFFICES ASSUME RavienteInit PROVE HistoryInv
  OBVIOUS
<1> USE DEF RavienteInit, TrackerInit
<1>1. Ordered
  BY DEF Ordered
<1>2. Synced /\ RunIsDue /\ ResultIsDue
  BY DEF Synced, RunIsDue, ResultIsDue, SomeActive
<1>3. StartIsDue
  BY DEF StartIsDue, Zero, Reg, Over
<1> QED
  BY <1>1, <1>2, <1>3 DEF HistoryInv, Faultless

-----------------------------------------------------------------------------
(* Theorems.                                                                 *)

\* No semaphore without a member, no register of a siege without a room, and no
\* hunter in the registry after its logout, however the sections interleave.
THEOREM RoomsInvariance == RavienteSpec => []RoomsInv
  BY BothInvariance, PTL

\* The tracker's memory and its table fit together in every process.
THEOREM RecordsInvariance == RavienteSpec => []RecordsInv
  BY BothInvariance, PTL

\* A siege in the history as completed was killed, with hunters, in its own room.
THEOREM OnlyKilledSieges == RavienteSpec => []CompletedWereKilled
<1>1. RecordsInv => CompletedWereKilled
  BY DEF RecordsInv
<1> QED
  BY <1>1, BothInvariance, PTL

\* Every step of the channel is a step of the history RunRecords promises, or
\* leaves it alone.
THEOREM HistoryIsKept == RavienteSpec => RunsRecordedOnce
<1>1. RavienteInit => Records!Init
  BY DEF RavienteInit, TrackerInit, Records!Init
<1>2. RoomsInv /\ RecordsInv /\ [RavienteNext]_raviVars => [Records!Next]_rows
  BY RecordsStep
<1> QED
  BY <1>1, <1>2, BothInvariance, PTL DEF RavienteSpec, RunsRecordedOnce, Records!Spec

\* What the history lacks is due, as long as no statement fails.
THEOREM HistoryInvariance == RavienteSpec => []HistoryInv
<1>1. RoomsInv /\ RecordsInv /\ HistoryInv /\ [RavienteNext]_raviVars => HistoryInv'
  BY HistoryStep
<1> QED
  BY <1>1, InitHistory, BothInvariance, PTL DEF RavienteSpec

\* The history agrees with the registers whenever nobody holds ravienteLifecycleMu: a
\* started siege is recorded, no other is active, and a killed one has its result.
THEOREM HistoryAgreesAlways == RavienteSpec => []HistoryAgrees
<1>1. RecordsInv /\ HistoryInv => HistoryAgrees
  BY HistoryAgreesLater
<1> QED
  BY <1>1, HistoryInvariance, BothInvariance, PTL

\* While the ticker waits to fire nobody touches its timer.
LEMMA TimerStep ==
    ASSUME TimerAwaited, [RavienteNext]_raviVars
    PROVE  TimerAwaited'
<1>1. CASE UNCHANGED <<tick, timer>>
  BY <1>1 DEF TimerAwaited
<1>2. ASSUME NEW h \in Hunter, Join(h) \/ Delete(h) \/ DeleteMember(h)
                               \/ Disconnect(h) \/ LeaveRooms(h) \/ CleanUp(h)
      PROVE  UNCHANGED <<tick, timer>>
  BY <1>2, Zenon
     DEF Join, Delete, DeleteMember, Disconnect, LeaveRooms, CleanUp, RemoveMembers, siegeVars
<1>3. ASSUME NEW p \in Packet, OperateRegister(p[1], p[2])
      PROVE  UNCHANGED <<tick, timer>>
  BY <1>3, Zenon DEF OperateRegister
<1>4. ASSUME \/ StartCommand \/ TrackerCall \/ UNCHANGED raviVars
             \/ \E k \in Kind, p \in Player : EnterQuest(k, p)
      PROVE  UNCHANGED <<tick, timer>>
  BY <1>4, Zenon DEF StartCommand, TrackerCall, EnterQuest, siegeVars, raviVars
<1>5. CASE TickRegisters
  <2>1. tick'.at = "fire" => /\ tick' = [at |-> "fire", gen |-> gen] /\ timer' = timer
                            /\ timer.armed /\ timer.due /\ timer.gen = gen
    BY <1>5 DEF TickRegisters, ArmNow, Waiting
  <2> QED
    BY <2>1 DEF TimerAwaited
<1>6. CASE TickRoom \/ Fire \/ Restart
  BY <1>6 DEF TickRoom, Fire, Restart, Waiting, TimerAwaited
<1>7. CASE TimeUp
  BY <1>7 DEF TimeUp, TimerAwaited
<1> QED
  BY <1>1, <1>2, <1>3, <1>4, <1>5, <1>6, <1>7, Zenon DEF RavienteNext, AutoStart

\* The automatic start never starts a siege its timer was not armed for, whatever
\* rooms close and open while it waits for ravienteLifecycleMu.
THEOREM TimersStartTheirSiege == RavienteSpec => OnlyTheTimersSiege
<1>1. RavienteInit => TimerAwaited
  BY DEF RavienteInit, Waiting, TimerAwaited
<1>2. TimerAwaited /\ [RavienteNext]_raviVars => TimerAwaited'
  BY TimerStep
<1>3. TimerAwaited =>
        [Fire /\ register' # register => timer.armed /\ timer.due /\ timer.gen = gen]_raviVars
  BY DEF TimerAwaited, Fire, StillGathering
<1> QED
  BY <1>1, <1>2, <1>3, PTL DEF RavienteSpec, OnlyTheTimersSiege

=============================================================================
