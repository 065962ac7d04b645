--------------------------- MODULE StageLifecycle ---------------------------
(* Stages of one channel server: the stage map (sys_stage.go), the stage     *)
(* handlers (handlers_stage.go) and the logout path that detaches a session  *)
(* from every stage (handlers_session.go).                                   *)
(*                                                                           *)
(* Each session has two threads of control: its receive goroutine, which     *)
(* handles one packet at a time (pc), and a logout, which may run on that    *)
(* goroutine or on the idle-timeout goroutine while a handler is still busy  *)
(* (lpc).  One step is one critical section of a Stage lock, one operation   *)
(* on the sync.Map, or one read or write of a session field; everything in   *)
(* between can be interleaved with the other threads.  Session.lifecycleMu   *)
(* spans several steps, so it is a variable.                                 *)
EXTENDS Naturals, Sequences, FiniteSets

CONSTANTS
    Session,            \* connections of the channel
    Char,               \* characters
    charOf,             \* session -> its character; a channel transfer has two
    Stage,              \* *Stage pointers that may be allocated
    StageId,            \* stage ID strings
    HomeId,             \* "sl1Ns200p0a0u0", where an empty move stack leads
    Transient,          \* IDs of kind Qs, Ms, Gs or Ls
    Quest,              \* IDs of kind Qs
    PlayerCount,        \* PlayerCount values clients ask for
    DefaultMaxPlayers,  \* 127 in NewStage
    MaxHosted,          \* maxHostedStagesPerSession
    AdmissionMayReject, \* quest entry policies are configured
    InTown,             \* sessions that have already moved to the home stage
    Sends,              \* bound: session -> kinds of packets it sends
    MaxPackets,         \* bound: session -> number of packets it sends
    Leaves,             \* bound: sessions that may log out
    Panics,             \* sessions whose logout may panic
    NoStage, NoId, NoSession

Packet == {"create", "move", "enter", "back", "reserve", "unreserve",
           "lock", "unlock", "password"}

ASSUME StageAssumption ==
    /\ charOf \in [Session -> Char]
    /\ Sends \in [Session -> SUBSET Packet]
    /\ InTown \subseteq Session /\ Leaves \subseteq Session
    /\ Panics \subseteq Session
    /\ HomeId \in StageId
    /\ Quest \subseteq Transient /\ Transient \subseteq StageId
    /\ HomeId \notin Transient
    /\ PlayerCount \subseteq Nat /\ DefaultMaxPlayers \in Nat
    /\ MaxHosted \in Nat /\ MaxPackets \in [Session -> Nat]
    /\ AdmissionMayReject \in BOOLEAN
    /\ NoStage \notin Stage /\ NoId \notin StageId /\ NoSession \notin Session

\* Connections and characters at any time.
ASSUME FinitelyMany == IsFiniteSet(Session) /\ IsFiniteSet(Char)

VARIABLES
    stages,             \* StageMap: ID -> current Stage
    idOf,               \* Stage.id; NoId until the pointer is allocated
    clients,            \* Stage.clients
    reserved,           \* keys of Stage.reservedClientSlots
    host,               \* Stage.host
    limit,              \* Stage.maxPlayers
    barrier,            \* Stage.locked and Stage.password, by what they admit
    fresh,              \* createdAt is within stageEmptyGrace
    stage,              \* Session.stage
    reservationStage,   \* Session.reservationStage
    moveStack,          \* Session.stageMoveStack
    closed,             \* Session.closed
    sessions,           \* Server.sessions
    lifecycle,          \* holder of Session.lifecycleMu
    pc, arg,            \* the handler: where it is and its locals
    lpc, left, keep,    \* the logout: where it is, IDs left of a Range, the
                        \* stages a replacement session holds a slot in
    packets             \* packets the client may still send

stageVars   == <<stages, idOf, clients, reserved, host, limit, barrier, fresh>>
sessionVars == <<stage, reservationStage, moveStack, closed, sessions, lifecycle>>
handlerVars == <<pc, arg, packets>>
logoutVars  == <<lpc, left, keep>>
vars == <<stageVars, sessionVars, handlerVars, logoutVars>>

\* The handler holds lifecycleMu exactly at these points.
LockedPc == {"lookup", "join", "discard", "leaveOld", "sweepOld",
             "sweepHosted", "setStage", "reserveSlot", "reserveSave"}
OpenPc == Packet \cup {"idle", "createStore", "enterReserve", "transfer",
             "transferLock", "failed", "forget", "releaseOld", "sweep",
             "unreserveSlot", "unlockClear", "unlockForget", "unlockNotify",
             "passwordStage"}

OncePc == {"unregister", "snapshot", "leaveAll", "dropSlots", "leaveStage",
           "sweepOut", "sweepHostedOut"}
FinalPc == {"finalizeKeep", "finalizeStages", "detach"}
LogoutPc == {"none"} \cup OncePc \cup {"finalize"} \cup FinalPc \cup {"gone"}

Args == [kind: Packet, id: StageId, st: Stage \cup {NoStage},
         old: Stage \cup {NoStage}, created: BOOLEAN,
         todo: SUBSET StageId, chars: SUBSET Char]

NoArgs == [kind |-> "move", id |-> HomeId, st |-> NoStage, old |-> NoStage,
           created |-> FALSE, todo |-> {}, chars |-> {}]

StageTypes ==
    /\ stages \in [StageId -> Stage \cup {NoStage}]
    /\ idOf \in [Stage -> StageId \cup {NoId}]
    /\ clients \in [Stage -> SUBSET Session]
    /\ reserved \in [Stage -> SUBSET Char]
    /\ host \in [Stage -> Session \cup {NoSession}]
    /\ limit \in [Stage -> Nat]
    /\ barrier \in [Stage -> {"open", "password", "locked"}]
    /\ fresh \in [Stage -> BOOLEAN]

SessionTypes ==
    /\ stage \in [Session -> Stage \cup {NoStage}]
    /\ reservationStage \in [Session -> Stage \cup {NoStage}]
    /\ moveStack \in [Session -> Seq(StageId)]
    /\ closed \in [Session -> BOOLEAN]
    /\ sessions \subseteq Session
    /\ lifecycle \in [Session -> {"free", "handler", "logout"}]

HandlerTypes ==
    /\ pc \in [Session -> LockedPc \cup OpenPc]
    /\ arg \in [Session -> Args]
    /\ packets \in [Session -> Nat]

LogoutTypes ==
    /\ lpc \in [Session -> LogoutPc]
    /\ left \in [Session -> SUBSET StageId]
    /\ keep \in [Session -> SUBSET Stage]

TypeOK == StageTypes /\ SessionTypes /\ HandlerTypes /\ LogoutTypes

\* NewServer stores the permanent town stages; here, one of them, where the
\* sessions of InTown are.
Init ==
    /\ \E home \in Stage :
         /\ stages = [i \in StageId |-> IF i = HomeId THEN home ELSE NoStage]
         /\ idOf = [st \in Stage |-> IF st = home THEN HomeId ELSE NoId]
         /\ clients = [st \in Stage |-> IF st = home THEN InTown ELSE {}]
         /\ stage = [s \in Session |-> IF s \in InTown THEN home ELSE NoStage]
    /\ reserved = [st \in Stage |-> {}]
    /\ host = [st \in Stage |-> NoSession]
    /\ limit = [st \in Stage |-> DefaultMaxPlayers]
    /\ barrier = [st \in Stage |-> "open"]
    /\ fresh = [st \in Stage |-> FALSE]
    /\ reservationStage = [s \in Session |-> NoStage]
    /\ moveStack = [s \in Session |-> <<>>]
    /\ closed = [s \in Session |-> FALSE]
    /\ sessions = Session
    /\ lifecycle = [s \in Session |-> "free"]
    /\ pc = [s \in Session |-> "idle"]
    /\ arg = [s \in Session |-> NoArgs]
    /\ lpc = [s \in Session |-> "none"]
    /\ left = [s \in Session |-> {}]
    /\ keep = [s \in Session |-> {}]
    /\ packets = MaxPackets

-----------------------------------------------------------------------------
(* Reading the shared state.                                                 *)

HostedCount(s) == Cardinality({i \in StageId :
                     stages[i] # NoStage /\ host[stages[i]] = s})

\* Mutant: the map entry is not looked at again under the stage lock.
AnyPointer(id, st) == TRUE

\* StageMap.IsCurrent
IsCurrent(id, st) == stages[id] = st

\* Mutant: an operation that changes stages runs on a closed session, too.
OpenOrClosed(s) == TRUE

\* The test of Session.closed by a handler that holds lifecycleMu.
StillOpen(s) == ~closed[s]

\* Mutant: the capacity test lets one session too many in.
FullAboveLimit(s, st) ==
    /\ charOf[s] \notin reserved[st]
    /\ Cardinality(clients[st]) + Cardinality(reserved[st]) > limit[st]

\* isStageFull, and the capacity test of doStageTransfer under the lock.
Full(s, st) ==
    /\ charOf[s] \notin reserved[st]
    /\ Cardinality(clients[st]) + Cardinality(reserved[st]) >= limit[st]

IsStageFull(s, id) == stages[id] # NoStage /\ Full(s, stages[id])

Empty(st) == clients[st] = {} /\ reserved[st] = {}

\* Another connection of the same character is inside the stage.
ReplacementInside(s, st) ==
    \E t \in clients[st] \ {s} : charOf[t] = charOf[s]

\* reservationStagesForCharacter over the sessions still registered.
ReplacementReservations(s) ==
    {reservationStage[t] : t \in {u \in sessions \ {s} :
        charOf[u] = charOf[s] /\ reservationStage[u] # NoStage}}

\* Mutant: a sweep does not spare a stage its host has only just created.
SweepableAtOnce ==
    {id \in Transient : stages[id] # NoStage /\ Empty(stages[id])}

\* destructEmptyStages: the IDs whose stage it removes ...
Sweepable ==
    {id \in Transient : /\ stages[id] # NoStage
                        /\ Empty(stages[id]) /\ ~fresh[stages[id]]}

\* ... and destructEmptyHostedStages.
SweepableHosted(s) ==
    {id \in StageId : /\ stages[id] # NoStage
                      /\ Empty(stages[id]) /\ host[stages[id]] = s}

-----------------------------------------------------------------------------
(* Writing it.                                                               *)

\* StageMap.CompareAndDelete
CompareAndDelete(id, st) ==
    stages' = [stages EXCEPT ![id] = IF @ = st THEN NoStage ELSE @]

\* NewStage and sync.Map.LoadOrStore of an absent ID.
NewStage(st, id, h, max) ==
    /\ idOf[st] = NoId
    /\ idOf' = [idOf EXCEPT ![st] = id]
    /\ stages' = [stages EXCEPT ![id] = st]
    /\ host' = [host EXCEPT ![st] = h]
    /\ limit' = [limit EXCEPT ![st] = max]
    /\ fresh' = [fresh EXCEPT ![st] = TRUE]
    /\ clients' = [clients EXCEPT ![st] = {}]
    /\ UNCHANGED <<reserved, barrier>>

At(s, p)   == pc[s] = p
\* The handler goes on at p with the locals a, or with those it has; its
\* return forgets them.
GotoWith(s, p, a) == /\ pc' = [pc EXCEPT ![s] = p]
                     /\ arg' = [arg EXCEPT ![s] = IF p = "idle" THEN NoArgs ELSE a]
Goto(s, p) == GotoWith(s, p, arg[s])
Lock(s, who) == /\ lifecycle[s] = "free"
                /\ lifecycle' = [lifecycle EXCEPT ![s] = who]
Unlock(s)  == lifecycle' = [lifecycle EXCEPT ![s] = "free"]

\* The receive loop sees the session open and reads a packet; the session may
\* be closed by the time the handler runs.
Receive(s) ==
    /\ At(s, "idle") /\ ~closed[s] /\ packets[s] > 0
    /\ packets' = [packets EXCEPT ![s] = @ - 1]
    /\ \E k \in Sends[s], i \in StageId :
         /\ k \in {"back", "unreserve", "unlock", "password"} => i = HomeId
         /\ GotoWith(s, k, [arg[s] EXCEPT !.kind = k, !.id = i])
    /\ UNCHANGED <<stageVars, sessionVars, logoutVars>>

-----------------------------------------------------------------------------
(* handleMsgSysCreateStage                                                   *)

CreateCheck(s) ==
    /\ At(s, "create")
    /\ Goto(s, IF HostedCount(s) >= MaxHosted THEN "idle" ELSE "createStore")
    /\ UNCHANGED <<stageVars, sessionVars, packets, logoutVars>>

\* One section under lifecycleMu: closed check and StoreIfAbsent.
CreateStore(s) ==
    /\ At(s, "createStore")
    /\ lifecycle[s] = "free"
    /\ Goto(s, "idle")
    /\ IF StillOpen(s) /\ stages[arg[s].id] = NoStage
       THEN \E st \in Stage, max \in PlayerCount : NewStage(st, arg[s].id, s, max)
       ELSE UNCHANGED stageVars
    /\ UNCHANGED <<sessionVars, packets, logoutVars>>

-----------------------------------------------------------------------------
(* handleMsgSysMoveStage, handleMsgSysEnterStage, handleMsgSysBackStage up   *)
(* to their call of doStageTransfer.                                         *)

Move(s) ==
    /\ At(s, "move")
    /\ Goto(s, IF IsStageFull(s, arg[s].id) THEN "idle" ELSE "transfer")
    /\ UNCHANGED <<stageVars, sessionVars, packets, logoutVars>>

Enter(s) ==
    /\ At(s, "enter")
    /\ IF IsStageFull(s, arg[s].id)
       THEN Goto(s, "idle")
       ELSE GotoWith(s, IF stage[s] = NoStage THEN "transfer" ELSE "enterReserve",
                     [arg[s] EXCEPT !.old = stage[s]])
    /\ UNCHANGED <<stageVars, sessionVars, packets, logoutVars>>

\* The old stage keeps a slot for the way back; lifecycleMu is not held.
EnterReserve(s) ==
    /\ At(s, "enterReserve")
    /\ reserved' = [reserved EXCEPT ![arg[s].old] = @ \cup {charOf[s]}]
    /\ moveStack' = [moveStack EXCEPT ![s] = Append(@, idOf[arg[s].old])]
    /\ Goto(s, "transfer")
    /\ UNCHANGED <<stages, idOf, clients, host, limit, barrier, fresh>>
    /\ UNCHANGED <<stage, reservationStage, closed, sessions, lifecycle>>
    /\ UNCHANGED <<packets, logoutVars>>

Top(stack)  == stack[Len(stack)]
Rest(stack) == SubSeq(stack, 1, Len(stack) - 1)

\* An empty stack leads home; a full target is pushed back.
Back(s) ==
    /\ At(s, "back")
    /\ LET popped == moveStack[s] # <<>>
           target == IF popped THEN Top(moveStack[s]) ELSE HomeId
       IN IF IsStageFull(s, target)
          THEN /\ Goto(s, "idle")
               /\ moveStack' = [moveStack EXCEPT ![s] =
                                  IF popped THEN @ ELSE <<HomeId>>]
          ELSE /\ GotoWith(s, "transfer",
                           [arg[s] EXCEPT !.id = target, !.old = stage[s]])
               /\ moveStack' = [moveStack EXCEPT ![s] =
                                  IF popped THEN Rest(@) ELSE @]
    /\ UNCHANGED <<stageVars, stage, reservationStage, closed, sessions, lifecycle>>
    /\ UNCHANGED <<packets, logoutVars>>

-----------------------------------------------------------------------------
(* doStageTransfer                                                           *)

\* Before lifecycleMu: the hosted-stage limit, and for a quest the access
\* preflight, which reads a database and may fail.
Transfer(s) ==
    /\ At(s, "transfer")
    /\ \/ /\ stages[arg[s].id] # NoStage \/ HostedCount(s) < MaxHosted
          /\ Goto(s, "transferLock")
       \/ /\ \/ stages[arg[s].id] = NoStage /\ HostedCount(s) >= MaxHosted
             \/ AdmissionMayReject /\ arg[s].id \in Quest
          /\ Goto(s, "failed")
    /\ UNCHANGED <<stageVars, sessionVars, packets, logoutVars>>

\* Mutant: the early return on a closed session forgets to unlock.
TransferKeepsLock(s) ==
    /\ At(s, "transferLock")
    /\ Lock(s, "handler")
    /\ Goto(s, IF StillOpen(s) THEN "lookup" ELSE "failed")
    /\ UNCHANGED <<stageVars, stage, reservationStage, moveStack, closed, sessions>>
    /\ UNCHANGED <<packets, logoutVars>>

TransferLock(s) ==
    /\ At(s, "transferLock")
    /\ IF StillOpen(s)
       THEN Lock(s, "handler") /\ Goto(s, "lookup")
       ELSE lifecycle[s] = "free" /\ UNCHANGED lifecycle /\ Goto(s, "failed")
    /\ UNCHANGED <<stageVars, stage, reservationStage, moveStack, closed, sessions>>
    /\ UNCHANGED <<packets, logoutVars>>

\* StageMap.GetOrCreate, before the stage lock: the new stage has no host yet
\* and is visible to everyone.
Lookup(s) ==
    /\ At(s, "lookup")
    /\ LET cur == stages[arg[s].id]
       IN \/ /\ cur # NoStage
             /\ GotoWith(s, "join", [arg[s] EXCEPT !.st = cur, !.created = FALSE])
             /\ UNCHANGED stageVars
          \/ /\ cur = NoStage
             /\ \E st \in Stage :
                  /\ NewStage(st, arg[s].id, NoSession, DefaultMaxPlayers)
                  /\ GotoWith(s, "join", [arg[s] EXCEPT !.st = st, !.created = TRUE])
    /\ UNCHANGED <<sessionVars, packets, logoutVars>>

\* Under the stage lock: a stage swept meanwhile is looked up again; else
\* capacity, then quest admission, then the session is a client and its slot
\* is spent.
Join(s) ==
    LET st == arg[s].st
        member == s \in clients[st]
        rejected == \/ ~member /\ Full(s, st)
                    \/ AdmissionMayReject /\ arg[s].id \in Quest /\ ~member
    IN /\ At(s, "join")
       /\ \/ /\ ~IsCurrent(arg[s].id, st)
             /\ Goto(s, "lookup")
             /\ UNCHANGED <<clients, reserved, host>>
          \/ /\ IsCurrent(arg[s].id, st)
             /\ rejected
             /\ host' = [host EXCEPT ![st] = IF arg[s].created THEN s ELSE @]
             /\ Goto(s, "discard")
             /\ UNCHANGED <<clients, reserved>>
          \/ /\ IsCurrent(arg[s].id, st)
             /\ member \/ ~Full(s, st)
             /\ host' = [host EXCEPT ![st] = IF arg[s].created THEN s ELSE @]
             /\ clients' = [clients EXCEPT ![st] = @ \cup {s}]
             /\ reserved' = [reserved EXCEPT ![st] = @ \ {charOf[s]}]
             /\ Goto(s, IF stage[s] \in {NoStage, st} THEN "setStage" ELSE "leaveOld")
       /\ UNCHANGED <<stages, idOf, limit, barrier, fresh, sessionVars>>
       /\ UNCHANGED <<packets, logoutVars>>

\* A refused session removes the stage it created; the stage lock has been
\* released in between.
Discard(s) ==
    /\ At(s, "discard")
    /\ IF arg[s].created THEN CompareAndDelete(arg[s].id, arg[s].st)
                         ELSE UNCHANGED stages
    /\ Unlock(s)
    /\ Goto(s, "failed")
    /\ UNCHANGED <<idOf, clients, reserved, host, limit, barrier, fresh>>
    /\ UNCHANGED <<stage, reservationStage, moveStack, closed, sessions>>
    /\ UNCHANGED <<packets, logoutVars>>

\* removeSessionFromStage, then its two sweeps over every stage.
LeaveOld(s) ==
    /\ At(s, "leaveOld")
    /\ clients' = [clients EXCEPT ![stage[s]] = @ \ {s}]
    /\ GotoWith(s, "sweepOld", [arg[s] EXCEPT !.todo = Transient])
    /\ UNCHANGED <<stages, idOf, reserved, host, limit, barrier, fresh>>
    /\ UNCHANGED <<sessionVars, packets, logoutVars>>

\* One visit of the sweep at p, a Range over the IDs in todo: each stage is
\* looked at once, under its own lock, in whatever order sync.Map has.  The
\* last visit leads on to q, whose Range has the IDs in next.
SweepAt(s, p, doomed, q, next) ==
    /\ At(s, p)
    /\ \E id \in arg[s].todo :
         /\ stages' = [stages EXCEPT ![id] = IF id \in doomed THEN NoStage ELSE @]
         /\ IF arg[s].todo = {id}
            THEN GotoWith(s, q, [arg[s] EXCEPT !.todo = next])
            ELSE GotoWith(s, p, [arg[s] EXCEPT !.todo = @ \ {id}])
    /\ UNCHANGED <<idOf, clients, reserved, host, limit, barrier, fresh>>
    /\ UNCHANGED <<sessionVars, packets, logoutVars>>

SweepOld(s)    == SweepAt(s, "sweepOld", Sweepable, "sweepHosted", StageId)
SweepHosted(s) == SweepAt(s, "sweepHosted", SweepableHosted(s), "setStage", {})

\* Session.stage is set and lifecycleMu released; what follows in the caller
\* depends on the packet.
SetStage(s) ==
    /\ At(s, "setStage")
    /\ stage' = [stage EXCEPT ![s] = arg[s].st]
    /\ Unlock(s)
    /\ Goto(s, CASE arg[s].kind = "enter" -> "forget"
                 [] arg[s].kind = "back" /\ arg[s].old # NoStage -> "releaseOld"
                 [] OTHER -> "idle")
    /\ UNCHANGED <<stageVars, reservationStage, moveStack, closed, sessions>>
    /\ UNCHANGED <<packets, logoutVars>>

\* The end of a successful handleMsgSysEnterStage.
Forget(s) ==
    /\ At(s, "forget")
    /\ reservationStage' = [reservationStage EXCEPT ![s] = NoStage]
    /\ Goto(s, "idle")
    /\ UNCHANGED <<stageVars, stage, moveStack, closed, sessions, lifecycle>>
    /\ UNCHANGED <<packets, logoutVars>>

\* The end of a successful handleMsgSysBackStage.
ReleaseOld(s) ==
    /\ At(s, "releaseOld")
    /\ reserved' = [reserved EXCEPT ![arg[s].old] = @ \ {charOf[s]}]
    /\ GotoWith(s, "sweep", [arg[s] EXCEPT !.todo = Transient])
    /\ UNCHANGED <<stages, idOf, clients, host, limit, barrier, fresh>>
    /\ UNCHANGED <<sessionVars, packets, logoutVars>>

Sweep(s) == SweepAt(s, "sweep", Sweepable, "idle", {})

\* doStageTransfer returned false: Enter takes its slot and its move back,
\* Back pushes the target again.
Failed(s) ==
    /\ At(s, "failed")
    /\ Goto(s, "idle")
    /\ CASE arg[s].kind = "enter" /\ arg[s].old # NoStage ->
              /\ reserved' = [reserved EXCEPT ![arg[s].old] = @ \ {charOf[s]}]
              /\ moveStack' = [moveStack EXCEPT ![s] = Rest(@)]
         [] arg[s].kind = "back" ->
              /\ moveStack' = [moveStack EXCEPT ![s] = Append(@, arg[s].id)]
              /\ UNCHANGED reserved
         [] OTHER -> UNCHANGED <<reserved, moveStack>>
    /\ UNCHANGED <<stages, idOf, clients, host, limit, barrier, fresh>>
    /\ UNCHANGED <<stage, reservationStage, closed, sessions, lifecycle>>
    /\ UNCHANGED <<packets, logoutVars>>

-----------------------------------------------------------------------------
(* handleMsgSysReserveStage                                                  *)

Reserve(s) ==
    LET cur == stages[arg[s].id]
    IN /\ At(s, "reserve")
       /\ IF StillOpen(s) /\ cur # NoStage
          THEN /\ Lock(s, "handler")
               /\ GotoWith(s, "reserveSlot", [arg[s] EXCEPT !.st = cur])
          ELSE /\ lifecycle[s] = "free"
               /\ Goto(s, "idle")
               /\ UNCHANGED lifecycle
       /\ UNCHANGED <<stageVars, stage, reservationStage, moveStack, closed>>
       /\ UNCHANGED <<sessions, packets, logoutVars>>

\* Under the stage lock.  A repeat only changes the ready flag; a new slot
\* needs a free slot, an unlocked stage and the password, if there is one.
ReserveSlot(s) ==
    LET st == arg[s].st
        grantable == /\ IsCurrent(arg[s].id, st)
                     /\ charOf[s] \notin reserved[st]
                     /\ Cardinality(reserved[st]) < limit[st]
    IN /\ At(s, "reserveSlot")
       /\ \/ /\ grantable /\ barrier[st] # "locked"
             /\ reserved' = [reserved EXCEPT ![st] = @ \cup {charOf[s]}]
             /\ Goto(s, "reserveSave")
             /\ UNCHANGED lifecycle
          \/ /\ ~grantable \/ barrier[st] # "open"
             /\ Unlock(s)
             /\ Goto(s, "idle")
             /\ UNCHANGED reserved
       /\ UNCHANGED <<stages, idOf, clients, host, limit, barrier, fresh>>
       /\ UNCHANGED <<stage, reservationStage, moveStack, closed, sessions>>
       /\ UNCHANGED <<packets, logoutVars>>

ReserveSave(s) ==
    /\ At(s, "reserveSave")
    /\ reservationStage' = [reservationStage EXCEPT ![s] = arg[s].st]
    /\ Unlock(s)
    /\ Goto(s, "idle")
    /\ UNCHANGED <<stageVars, stage, moveStack, closed, sessions>>
    /\ UNCHANGED <<packets, logoutVars>>

-----------------------------------------------------------------------------
(* handleMsgSysUnreserveStage, LockStage, SetStagePass                       *)

Unreserve(s) ==
    /\ At(s, "unreserve")
    /\ reservationStage' = [reservationStage EXCEPT ![s] = NoStage]
    /\ GotoWith(s, IF reservationStage[s] = NoStage THEN "idle" ELSE "unreserveSlot",
                [arg[s] EXCEPT !.st = reservationStage[s]])
    /\ UNCHANGED <<stageVars, stage, moveStack, closed, sessions, lifecycle>>
    /\ UNCHANGED <<packets, logoutVars>>

UnreserveSlot(s) ==
    /\ At(s, "unreserveSlot")
    /\ reserved' = [reserved EXCEPT ![arg[s].st] = @ \ {charOf[s]}]
    /\ Goto(s, "idle")
    /\ UNCHANGED <<stages, idOf, clients, host, limit, barrier, fresh>>
    /\ UNCHANGED <<sessionVars, packets, logoutVars>>

\* Nothing lifts Stage.locked again.
LockStage(s) ==
    /\ At(s, "lock")
    /\ Goto(s, "idle")
    /\ LET st == stages[arg[s].id]
       IN barrier' = IF st = NoStage THEN barrier
                     ELSE [barrier EXCEPT ![st] = "locked"]
    /\ UNCHANGED <<stages, idOf, clients, reserved, host, limit, fresh>>
    /\ UNCHANGED <<sessionVars, packets, logoutVars>>

\* Without a reservation the password is kept in the session, where only
\* "does it match" matters: ReserveSlot leaves that open.
Password(s) ==
    /\ At(s, "password")
    /\ GotoWith(s, IF reservationStage[s] = NoStage THEN "idle" ELSE "passwordStage",
                [arg[s] EXCEPT !.st = reservationStage[s]])
    /\ UNCHANGED <<stageVars, sessionVars, packets, logoutVars>>

PasswordStage(s) ==
    LET st == arg[s].st
    IN /\ At(s, "passwordStage")
       /\ Goto(s, "idle")
       /\ \E b \in {"open", "password"} :
            barrier' = IF charOf[s] \in reserved[st] /\ barrier[st] # "locked"
                       THEN [barrier EXCEPT ![st] = b] ELSE barrier
       /\ UNCHANGED <<stages, idOf, clients, reserved, host, limit, fresh>>
       /\ UNCHANGED <<sessionVars, packets, logoutVars>>

-----------------------------------------------------------------------------
(* handleMsgSysUnlockStage                                                   *)

UnlockStage(s) ==
    /\ At(s, "unlock")
    /\ GotoWith(s, IF reservationStage[s] = NoStage THEN "sweep" ELSE "unlockClear",
                [arg[s] EXCEPT !.st = reservationStage[s], !.todo = Transient])
    /\ UNCHANGED <<stageVars, sessionVars, packets, logoutVars>>

\* Mutant: the stage goes even if somebody is in it.
UnlockRemoves(s) ==
    LET st == arg[s].st
    IN /\ At(s, "unlockClear")
       /\ reserved' = [reserved EXCEPT ![st] = {}]
       /\ CompareAndDelete(idOf[st], st)
       /\ GotoWith(s, "unlockForget", [arg[s] EXCEPT !.chars = reserved[st]])
       /\ UNCHANGED <<idOf, clients, host, limit, barrier, fresh>>
       /\ UNCHANGED <<sessionVars, packets, logoutVars>>

\* Under the stage lock: every slot is dropped, a stage nobody is in goes.
UnlockClear(s) ==
    LET st == arg[s].st
    IN /\ At(s, "unlockClear")
       /\ reserved' = [reserved EXCEPT ![st] = {}]
       /\ IF clients[st] = {} THEN CompareAndDelete(idOf[st], st)
                              ELSE UNCHANGED stages
       /\ GotoWith(s, "unlockForget", [arg[s] EXCEPT !.chars = reserved[st]])
       /\ UNCHANGED <<idOf, clients, host, limit, barrier, fresh>>
       /\ UNCHANGED <<sessionVars, packets, logoutVars>>

\* A session stops pointing at the unlocked stage.
DropPointer(t, st) ==
    reservationStage' = [reservationStage EXCEPT ![t] =
                           IF @ = st THEN NoStage ELSE @]

UnlockForget(s) ==
    /\ At(s, "unlockForget")
    /\ DropPointer(s, arg[s].st)
    /\ Goto(s, "unlockNotify")
    /\ UNCHANGED <<stageVars, stage, moveStack, closed, sessions, lifecycle>>
    /\ UNCHANGED <<packets, logoutVars>>

\* FindSessionByCharID returns any session of the character.
UnlockNotify(s) ==
    /\ At(s, "unlockNotify")
    /\ \/ /\ arg[s].chars = {}
          /\ Goto(s, "sweep")
          /\ UNCHANGED reservationStage
       \/ \E c \in arg[s].chars :
            LET found == {t \in sessions : charOf[t] = c}
            IN /\ GotoWith(s, "unlockNotify", [arg[s] EXCEPT !.chars = @ \ {c}])
               /\ \/ found = {} /\ UNCHANGED reservationStage
                  \/ \E t \in found : DropPointer(t, arg[s].st)
    /\ UNCHANGED <<stageVars, stage, moveStack, closed, sessions, lifecycle>>
    /\ UNCHANGED <<packets, logoutVars>>

-----------------------------------------------------------------------------
(* logoutPlayer                                                              *)

LGoto(s, p) == lpc' = [lpc EXCEPT ![s] = p]

\* markClosed; logoutOnce lets one caller through.  The caller is the receive
\* goroutine after its last packet, or the idle timeout at any moment.
StartLogout(s) ==
    /\ lpc[s] = "none" /\ s \in Leaves
    /\ closed' = [closed EXCEPT ![s] = TRUE]
    /\ LGoto(s, "unregister")
    /\ UNCHANGED <<stageVars, stage, reservationStage, moveStack, sessions>>
    /\ UNCHANGED <<lifecycle, handlerVars, left, keep>>

\* logoutPlayerOnce after the final save.
Unregister(s) ==
    /\ lpc[s] = "unregister"
    /\ sessions' = sessions \ {s}
    /\ LGoto(s, "snapshot")
    /\ UNCHANGED <<stageVars, stage, reservationStage, moveStack, closed>>
    /\ UNCHANGED <<lifecycle, handlerVars, left, keep>>

Snapshot(s) ==
    /\ lpc[s] = "snapshot"
    /\ keep' = [keep EXCEPT ![s] = ReplacementReservations(s)]
    /\ left' = [left EXCEPT ![s] = StageId]
    /\ LGoto(s, "leaveAll")
    /\ UNCHANGED <<stageVars, sessionVars, handlerVars>>

\* One visit of the logout's Range at p to the stage called id; the last one
\* leads on to q, whose Range has the IDs in next.
Visiting(s, p, id, q, next) ==
    /\ lpc[s] = p
    /\ id \in left[s]
    /\ IF left[s] = {id}
       THEN LGoto(s, q) /\ left' = [left EXCEPT ![s] = next]
       ELSE UNCHANGED lpc /\ left' = [left EXCEPT ![s] = @ \ {id}]
    /\ UNCHANGED keep

\* Mutant: the character is taken out of every stage, not the session.
LeaveByCharacter(s) ==
    \E id \in StageId :
      /\ Visiting(s, "leaveAll", id, "dropSlots", StageId)
      /\ clients' = IF stages[id] = NoStage THEN clients
                    ELSE [clients EXCEPT ![stages[id]] =
                            {t \in @ : charOf[t] # charOf[s]}]
      /\ UNCHANGED <<stages, idOf, reserved, host, limit, barrier, fresh>>
      /\ UNCHANGED <<sessionVars, handlerVars>>

\* The first Range: the session is no longer a client anywhere.
LeaveAll(s) ==
    \E id \in StageId :
      /\ Visiting(s, "leaveAll", id, "dropSlots", StageId)
      /\ clients' = IF stages[id] = NoStage THEN clients
                    ELSE [clients EXCEPT ![stages[id]] = @ \ {s}]
      /\ UNCHANGED <<stages, idOf, reserved, host, limit, barrier, fresh>>
      /\ UNCHANGED <<sessionVars, handlerVars>>

\* Mutant: any slot of the character is taken for a replacement's.
AnySlotInUse(s, st) == charOf[s] \in reserved[st]

\* The character's slot in st belongs to a replacement session.
SlotInUse(s, st) == ReplacementInside(s, st) \/ st \in keep[s]

\* reservedClientSlots after a logout has visited st.
SlotsAfter(s, st) == IF SlotInUse(s, st) THEN reserved[st]
                     ELSE reserved[st] \ {charOf[s]}

\* The second Range: the character's slots are dropped.
DropSlots(s) ==
    \E id \in StageId :
      /\ Visiting(s, "dropSlots", id, "leaveStage", {})
      /\ reserved' = IF stages[id] = NoStage THEN reserved
                     ELSE [reserved EXCEPT ![stages[id]] = SlotsAfter(s, stages[id])]
      /\ UNCHANGED <<stages, idOf, clients, host, limit, barrier, fresh>>
      /\ UNCHANGED <<sessionVars, handlerVars>>

\* removeSessionFromStage, without lifecycleMu.
LeaveStage(s) ==
    /\ lpc[s] = "leaveStage"
    /\ clients' = IF stage[s] = NoStage THEN clients
                  ELSE [clients EXCEPT ![stage[s]] = @ \ {s}]
    /\ IF stage[s] = NoStage
       THEN LGoto(s, "sweepHostedOut") /\ left' = [left EXCEPT ![s] = StageId]
       ELSE LGoto(s, "sweepOut") /\ left' = [left EXCEPT ![s] = Transient]
    /\ UNCHANGED <<stages, idOf, reserved, host, limit, barrier, fresh>>
    /\ UNCHANGED <<sessionVars, handlerVars, keep>>

\* Its two sweeps.  logoutPlayerOnce repeats the second; finalizeRuntimeLogout,
\* which follows, removes whatever the repeat could.
SweepingOut(s, p, doomed, q, next) ==
    \E id \in StageId :
      /\ Visiting(s, p, id, q, next)
      /\ stages' = [stages EXCEPT ![id] = IF id \in doomed THEN NoStage ELSE @]
      /\ UNCHANGED <<idOf, clients, reserved, host, limit, barrier, fresh>>
      /\ UNCHANGED <<sessionVars, handlerVars>>

SweepOut(s) == SweepingOut(s, "sweepOut", Sweepable, "sweepHostedOut", StageId)
SweepHostedOut(s) ==
    SweepingOut(s, "sweepHostedOut", SweepableHosted(s), "finalize", {})

\* Any of those phases may panic; the deferred finalizeRuntimeLogout still runs.
Panic(s) ==
    /\ lpc[s] \in OncePc /\ s \in Panics
    /\ LGoto(s, "finalize")
    /\ UNCHANGED <<stageVars, sessionVars, handlerVars, left, keep>>

\* finalizeRuntimeLogout takes lifecycleMu and keeps it to its end.
Finalize(s) ==
    /\ lpc[s] = "finalize"
    /\ Lock(s, "logout")
    /\ sessions' = sessions \ {s}
    /\ LGoto(s, "finalizeKeep")
    /\ UNCHANGED <<stageVars, stage, reservationStage, moveStack, closed>>
    /\ UNCHANGED <<handlerVars, left, keep>>

FinalizeKeep(s) ==
    /\ lpc[s] = "finalizeKeep"
    /\ keep' = [keep EXCEPT ![s] = ReplacementReservations(s)]
    /\ left' = [left EXCEPT ![s] = StageId]
    /\ LGoto(s, "finalizeStages")
    /\ UNCHANGED <<stageVars, sessionVars, handlerVars>>

\* The role of a leaving host passes to any client left.
NextHost(s, st) ==
    IF host[st] # s THEN {host[st]}
    ELSE IF clients[st] \ {s} = {} THEN {NoSession}
    ELSE clients[st] \ {s}

\* One stage of the "stage memberships" phase, under its lock.
FinalizeStage(s, id, st) ==
    LET emptied == clients[st] \ {s} = {} /\ SlotsAfter(s, st) = {}
    IN /\ clients' = [clients EXCEPT ![st] = @ \ {s}]
       /\ reserved' = [reserved EXCEPT ![st] = SlotsAfter(s, st)]
       /\ \E h \in NextHost(s, st) : host' = [host EXCEPT ![st] = h]
       /\ IF emptied /\ (host[st] = s \/ (id \in Transient /\ ~fresh[st]))
          THEN CompareAndDelete(id, st) ELSE UNCHANGED stages

FinalizeStages(s) ==
    \E id \in StageId :
      /\ Visiting(s, "finalizeStages", id, "detach", {})
      /\ IF stages[id] = NoStage
         THEN UNCHANGED <<stages, clients, reserved, host>>
         ELSE FinalizeStage(s, id, stages[id])
      /\ UNCHANGED <<idOf, limit, barrier, fresh, sessionVars, handlerVars>>

Detach(s) ==
    /\ lpc[s] = "detach"
    /\ stage' = [stage EXCEPT ![s] = NoStage]
    /\ reservationStage' = [reservationStage EXCEPT ![s] = NoStage]
    /\ Unlock(s)
    /\ LGoto(s, "gone")
    /\ keep' = [keep EXCEPT ![s] = {}]
    /\ UNCHANGED <<stageVars, moveStack, closed, sessions, handlerVars, left>>

-----------------------------------------------------------------------------

\* stageEmptyGrace runs out.
GraceEnds(st) ==
    /\ fresh[st]
    /\ fresh' = [fresh EXCEPT ![st] = FALSE]
    /\ UNCHANGED <<stages, idOf, clients, reserved, host, limit, barrier>>
    /\ UNCHANGED <<sessionVars, handlerVars, logoutVars>>

Handle(s) ==
    \/ CreateCheck(s) \/ CreateStore(s)
    \/ Move(s) \/ Enter(s) \/ EnterReserve(s) \/ Back(s)
    \/ Transfer(s) \/ TransferLock(s) \/ Lookup(s) \/ Join(s) \/ Discard(s)
    \/ LeaveOld(s) \/ SweepOld(s) \/ SweepHosted(s) \/ SetStage(s)
    \/ Forget(s) \/ ReleaseOld(s) \/ Sweep(s) \/ Failed(s)
    \/ Reserve(s) \/ ReserveSlot(s) \/ ReserveSave(s)
    \/ Unreserve(s) \/ UnreserveSlot(s)
    \/ LockStage(s) \/ Password(s) \/ PasswordStage(s)
    \/ UnlockStage(s) \/ UnlockClear(s) \/ UnlockForget(s) \/ UnlockNotify(s)

Logout(s) ==
    \/ Unregister(s) \/ Snapshot(s) \/ LeaveAll(s) \/ DropSlots(s)
    \/ LeaveStage(s) \/ SweepOut(s) \/ SweepHostedOut(s) \/ Panic(s)
    \/ Finalize(s) \/ FinalizeKeep(s) \/ FinalizeStages(s) \/ Detach(s)

Next ==
    \/ \E s \in Session : Receive(s) \/ Handle(s) \/ StartLogout(s) \/ Logout(s)
    \/ \E st \in Stage : GraceEnds(st)

\* Handlers and logouts are goroutines that nothing blocks but lifecycleMu;
\* clients need not send anything or leave.
Fairness == \A s \in Session : WF_vars(Handle(s)) /\ WF_vars(Logout(s))

Spec == Init /\ [][Next]_vars /\ Fairness

-----------------------------------------------------------------------------
(* Properties.                                                               *)

\* finalizeRuntimeLogout, "cannot leave a closed session referenced by the
\* live session, stage, or semaphore registries": once it has returned, no
\* stage of the map has the session as a client or as its host, whatever its
\* own handler was doing when the connection timed out.
DetachedAfterLogout ==
    \A s \in Session : lpc[s] = "gone" =>
        /\ s \notin sessions
        /\ stage[s] = NoStage /\ reservationStage[s] = NoStage
        /\ \A id \in StageId : stages[id] # NoStage =>
              s \notin clients[stages[id]] /\ host[stages[id]] # s

\* The inductive invariant behind it.  lifecycleMu is held by whoever is inside
\* one of its sections; and since a session joins a stage, or inherits one, only
\* under its own lifecycleMu or while it is a client of it, the stages the last
\* Range has visited stay clear of it.
LifecycleHeld ==
    \A s \in Session :
        /\ lifecycle[s] = "handler" <=> pc[s] \in LockedPc
        /\ lifecycle[s] = "logout" <=> lpc[s] \in FinalPc

Clear(s, id) ==
    stages[id] # NoStage =>
        s \notin clients[stages[id]] /\ host[stages[id]] # s

LogoutProgress ==
    \A s \in Session :
        /\ lpc[s] # "none" => closed[s]
        /\ lpc[s] \in FinalPc \cup {"gone"} => s \notin sessions
        /\ lpc[s] = "finalizeStages" => \A id \in StageId \ left[s] : Clear(s, id)
        /\ lpc[s] \in {"detach", "gone"} => \A id \in StageId : Clear(s, id)
        /\ lpc[s] = "gone" => /\ lifecycle[s] = "free"
                             /\ stage[s] = NoStage /\ reservationStage[s] = NoStage

\* Every pointer in use is one NewStage returned, and the handlers follow none
\* that is nil.
Allocated(st) == st # NoStage => idOf[st] # NoId

PointersAllocated ==
    /\ \A id \in StageId : Allocated(stages[id])
    /\ \A s \in Session :
         /\ Allocated(stage[s]) /\ Allocated(reservationStage[s])
         /\ Allocated(arg[s].st) /\ Allocated(arg[s].old)
         /\ pc[s] = "enterReserve" => arg[s].old # NoStage
         /\ pc[s] = "unlockClear" => arg[s].st # NoStage

IInv == TypeOK /\ PointersAllocated /\ LifecycleHeld /\ LogoutProgress

\* A character nobody plays any more holds no slot of a stage.
SlotsReleased ==
    \A c \in Char :
        (\A s \in Session : charOf[s] = c => lpc[s] = "gone" /\ pc[s] = "idle")
            => \A id \in StageId : stages[id] # NoStage => c \notin reserved[stages[id]]

\* Two connections of a character are not in the world at once: one is present
\* while it logs out, holds a reservation or is inside a stage of the map.
Present(s) ==
    \/ lpc[s] \notin {"none", "gone"} \/ reservationStage[s] # NoStage
    \/ \E id \in StageId : stages[id] # NoStage /\ s \in clients[stages[id]]

NeverTwice == \A s, t \in Session :
    charOf[s] = charOf[t] /\ Present(s) /\ Present(t) => s = t

\* The inductive invariant behind it, as long as no character is present twice.
\* For every slot somebody has yet to do something: a logout whose last Range has not
\* visited the stage, or an Enter that fails and takes its slot back.
TakesBack(s, st) ==
    pc[s] \in {"transfer", "transferLock", "failed"} /\ arg[s].kind = "enter" /\ arg[s].old = st

Owes(s, id) ==
    \/ lpc[s] \notin {"finalizeStages", "detach", "gone"}
    \/ lpc[s] = "finalizeStages" /\ id \in left[s]
    \/ TakesBack(s, stages[id])

SlotsInv ==
    /\ \A st \in Stage : idOf[st] = NoId => reserved[st] = {}
    /\ \A s \in Session : pc[s] \in {"enter", "enterReserve"} => arg[s].kind = "enter"
    /\ \A s \in Session : keep[s] = {}
    /\ \A id \in StageId : stages[id] # NoStage =>
          \A c \in reserved[stages[id]] : \E s \in Session : charOf[s] = c /\ Owes(s, id)

\* Sessions are in stages of the map only: no interleaving of a join or a
\* reservation with a sweep leaves one in a stage that has been removed.
NobodyInOrphans ==
    \A st \in Stage : idOf[st] # NoId /\ stages[idOf[st]] # st => clients[st] = {}

\* Between packets a session is a client of the stage it points at and of no
\* other, so its messages reach the stage it is in and nobody else's.
OneStageAtATime ==
    \A s \in Session : ~closed[s] /\ pc[s] = "idle" =>
        {st \in Stage : s \in clients[st]} = {stage[s]} \ {NoStage}

\* CHANGELOG.md:56, "leave another host's transient stage alone for 30 seconds
\* after its creation": whoever moves, leaves or is timed out meanwhile, a fresh
\* stage is removed only by its own host, or by a member of the party that
\* unlocks it.
FreshStagesKept ==
    [][\A id \in StageId :
        LET st == stages[id]
        IN st # NoStage /\ fresh[st] /\ stages'[id] # st
             => \E s \in Session : \/ s = host[st] /\ (Handle(s) \/ Logout(s))
                                   \/ UnlockClear(s)]_vars

\* TestDoStageTransferConcurrentCapacity: of the sessions that all saw a free
\* place before they locked the stage, only as many get in as it has places,
\* those that came with a reservation not counted.
LastPlaceOnce ==
    [][\A s \in Session, st \in Stage :
        s \in clients'[st] \ clients[st] /\ charOf[s] \notin reserved[st]
            => Cardinality(clients'[st]) + Cardinality(reserved'[st]) <= limit[st]]_vars

\* The waits for lifecycleMu never lock out a logout: a closed
\* session is always taken out of the world in the end.
LogoutCompletes == \A s \in Session : closed[s] ~> lpc[s] = "gone"
=============================================================================
