----------------------------- MODULE Semaphores -----------------------------
(* The semaphore registry of a channel (sys_semaphore.go,                    *)
(* handlers_semaphore.go).  A semaphore is a room of sessions under a name;  *)
(* it disappears with its last member.  Create-and-acquire runs under the    *)
(* session's lifecycleMu and takes two critical sections of the registry; a  *)
(* logout removes the session once on its way (logoutPlayerOnce) and once    *)
(* more under lifecycleMu (finalizeRuntimeLogout), possibly on the idle      *)
(* timeout's goroutine while a handler is still running.                     *)
EXTENDS Naturals, FiniteSets

CONSTANTS
    Hunter,          \* connections of the channel
    Name,            \* semaphore names clients use
    RaviName,        \* names that start with "hs_l0"
    BadName,         \* those of them whose last character is no digit
    RaviMax,         \* raviSemaphoreMax
    MaxMemberships,  \* maxSemaphoresPerSession
    MaxSemaphores,   \* maxSemaphoresPerChannel
    MaxCreates,      \* bound: create packets of one connection
    NoSemaphore, NoHunter

VARIABLES
    registry,   \* Server.semaphore: name -> semaphore or NoSemaphore
    idState,    \* [alt, used]: Session.semaphoreMode, semaphoreID
    offline,    \* Session.closed
    handling,   \* the create or delete packet a handler is working on
    leaving     \* where the logout is

semaphoreVars == <<registry, idState, offline, handling, leaving>>

Id == [ravi : RaviName] \cup [alt : BOOLEAN, number : 0 .. MaxCreates]

Idle == [op |-> "idle"]
Handling == {Idle} \cup [op : {"store"}, name : Name] \cup [op : {"delete"}, id : Id]

Leaving == {"online", "leave", "left", "cleanup", "gone"}

Semaphore == [id : Id, clients : SUBSET Hunter, max : Nat, host : Hunter \cup {NoHunter}]

ASSUME SemaphoreAssumption ==
    /\ BadName \subseteq RaviName /\ RaviName \subseteq Name
    /\ RaviMax \in Nat \ {0} /\ MaxMemberships \in Nat \ {0}
    /\ MaxSemaphores \in Nat \ {0} /\ MaxCreates \in Nat
    /\ NoHunter \notin Hunter /\ NoSemaphore \notin Semaphore
    /\ IsFiniteSet(Name)

SemaphoreTypeOK ==
    /\ registry \in [Name -> Semaphore \cup {NoSemaphore}]
    /\ idState \in [Hunter -> [alt : BOOLEAN, used : [BOOLEAN -> 0 .. MaxCreates]]]
    /\ offline \in [Hunter -> BOOLEAN]
    /\ handling \in [Hunter -> Handling]
    /\ leaving \in [Hunter -> Leaving]

SemaphoreInit ==
    /\ registry = [n \in Name |-> NoSemaphore]
    /\ idState = [h \in Hunter |-> [alt |-> FALSE, used |-> [m \in BOOLEAN |-> 0]]]
    /\ offline = [h \in Hunter |-> FALSE]
    /\ handling = [h \in Hunter |-> Idle]
    /\ leaving = [h \in Hunter |-> "online"]

Exists(n) == registry[n] # NoSemaphore
Registered == {n \in Name : Exists(n)}
Memberships(h) == {n \in Registered : h \in registry[n].clients}

\* HasSemaphore asks for the host, not for a member.
HasSemaphore(h) == \E n \in Registered : registry[n].host = h

Working(h, step) == handling' = [handling EXCEPT ![h] = step]

-----------------------------------------------------------------------------
(* handleMsgSysCreateAcquireSemaphore                                        *)

StillOnline(h) == ~offline[h]

\* Under lifecycleMu, up to the registry lock: a session that hosts something
\* switches the series its ids come from, and an id is used up.
CreateAcquire(h, n) ==
    /\ handling[h] = Idle /\ StillOnline(h)
    /\ LET alt  == IF HasSemaphore(h) THEN ~idState[h].alt ELSE idState[h].alt
           used == idState[h].used IN
       /\ used[alt] < MaxCreates
       /\ idState' = [idState EXCEPT ![h] =
                        [alt |-> alt, used |-> [used EXCEPT ![alt] = @ + 1]]]
    /\ Working(h, [op |-> "store", name |-> n])
    /\ UNCHANGED <<registry, offline, leaving>>

\* handling[h] is "store" exactly while the handler holds lifecycleMu.
HoldsLifecycle(h) == handling[h].op = "store"

NewSemaphore(h, n) ==
    IF n \in RaviName
    THEN [id |-> [ravi |-> n], clients |-> {}, max |-> RaviMax, host |-> NoHunter]
    ELSE [id |-> [alt |-> idState[h].alt, number |-> idState[h].used[idState[h].alt]],
          clients |-> {}, max |-> 1, host |-> h]

\* No room for another semaphore, or a name without a number.
Refused(h, n) ==
    /\ ~Exists(n)
    /\ \/ Cardinality(Registered) >= MaxSemaphores
       \/ Cardinality(Memberships(h)) >= MaxMemberships
       \/ n \in BadName

\* Below the session's limit and the semaphore's own.
MayJoin(h, sema) ==
    /\ Cardinality(Memberships(h)) < MaxMemberships
    /\ Cardinality(sema.clients) < sema.max

\* Under the registry lock: create, then join if there is room.
Store(h) ==
    /\ handling[h].op = "store"
    /\ LET n == handling[h].name
           sema == IF Exists(n) THEN registry[n] ELSE NewSemaphore(h, n) IN
       registry' = IF Refused(h, n) THEN registry
                   ELSE [registry EXCEPT ![n] =
                           IF MayJoin(h, sema) THEN [sema EXCEPT !.clients = @ \cup {h}]
                           ELSE sema]
    /\ Working(h, Idle)
    /\ UNCHANGED <<idState, offline, leaving>>

\* handleMsgSysAcquireSemaphore: whoever asks becomes the host, member or not.
AcquireHost(h, n) ==
    /\ handling[h] = Idle /\ ~offline[h] /\ Exists(n)
    /\ registry' = [registry EXCEPT ![n].host = h]
    /\ UNCHANGED <<idState, offline, handling, leaving>>

-----------------------------------------------------------------------------
(* Removal.  Each of these is a critical section of the registry lock, taken *)
(* under ravienteLifecycleMu.                                                *)

Without(h, among) ==
    [n \in Name |->
        IF Exists(n) /\ n \in among THEN [registry[n] EXCEPT !.clients = @ \ {h}]
        ELSE registry[n]]

\* Empty semaphores among some names disappear.
Swept(reg, among) ==
    [n \in Name |-> IF n \in among /\ reg[n] # NoSemaphore /\ reg[n].clients = {}
                    THEN NoSemaphore ELSE reg[n]]

\* resetRavi, and resetRavienteLocked's own test: a siege room has just gone and
\* no other one is left.
RoomsClose(reg) ==
    /\ \E n \in RaviName : Exists(n) /\ reg[n] = NoSemaphore
    /\ \A n \in RaviName : reg[n] = NoSemaphore

\* removeSessionFromSemaphore
RemoveSession(h) == Swept(Without(h, Name), Name)

\* destructEmptySemaphores
SweepEmpty == Swept(registry, Name)

\* handleMsgSysDeleteSemaphore after the sweep: the first semaphore with that id.
\* Ids of plain semaphores are counted per session, so there may be several.
WithId(id) == {n \in Registered : registry[n].id = id}
DeleteAt(h, n) == Swept(Without(h, {n}), {n})
=============================================================================
