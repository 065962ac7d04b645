------------------------------ MODULE Raviente ------------------------------
(* The Raviente siege of a channel (raviente.go, handlers_register.go, the   *)
(* "!ravi start" command): its rooms are semaphores, its progress three      *)
(* shared registers, its history the run tracker.  ravienteLifecycleMu makes *)
(* one critical section of a change of the registers or the teardown of the  *)
(* last room and of the tracker calls that follow it; joining a room and the *)
(* tracker's observations of quest entries do not take that lock.            *)
EXTENDS Semaphores, RunTracker

CONSTANTS
    Canon,      \* the room the server counts, "hs_l0...3"
    RegMod,     \* 2^w for registers of w bits
    Packet,     \* bound: pairs of updates clients send in a packet
    MaxGen,     \* bound: generations of one process
    MaxBoots    \* bound: processes

Reg == 1 .. 3
Update == [op : {"add", "set"}, dest : Reg, data : 0 .. RegMod - 1]

ASSUME RavienteAssumption ==
    /\ Canon \in RaviName \ BadName
    /\ RegMod \in Nat /\ RegMod > 1
    /\ MaxGen \in Nat /\ MaxBoots \in Nat \ {0}
    /\ Packet \subseteq Update \X Update

VARIABLES
    gen,        \* Raviente.id
    register,   \* registers 1 (start), 2 (killed time) and 3 (start value)
    calls,      \* tracker calls due before ravienteLifecycleMu is released
    tick,       \* raviAutoStart: where the ticker is and what it has read
    timer,      \* raviAutoStart: armed, armedID and whether the time is up
    killed      \* history: sieges whose kill was accepted, with its room open

siegeVars == <<gen, register, calls, tick, timer, killed>>
raviVars == <<semaphoreVars, trackerVars, siegeVars>>

Zero == [r \in Reg |-> 0]
Waiting == [at |-> "wait"]
Disarmed == [armed |-> FALSE, gen |-> 0, due |-> FALSE]

RavienteInit ==
    /\ SemaphoreInit /\ TrackerInit
    /\ gen = 0 /\ register = Zero /\ calls = <<>>
    /\ tick = Waiting /\ timer = Disarmed /\ killed = {}

\* ravienteLifecycleMu is free.
Free == calls = <<>>

\* raviPlayerCount
RoomOpen == Exists(Canon)
Players == IF RoomOpen THEN registry[Canon].clients ELSE {}

Call(op) == [op |-> op, gen |-> gen]

-----------------------------------------------------------------------------
(* Rooms.                                                                    *)

\* Mutant: a started siege counts as completed.
CompleteStarted(reg) ==
    IF RoomsClose(reg)
    THEN /\ gen' = gen + 1
         /\ register' = Zero
         /\ calls' = <<Call(IF register[1] # 0 THEN "complete" ELSE "abort")>>
    ELSE UNCHANGED <<gen, register, calls>>

\* Mutant: the registers survive the last room.
KeepRegisters(reg) ==
    /\ gen' = IF RoomsClose(reg) THEN gen + 1 ELSE gen
    /\ calls' = IF RoomsClose(reg) THEN <<Call("abort")>> ELSE <<>>
    /\ UNCHANGED register

\* resetRavienteLocked and recordRavienteRunTeardown: with the last room the
\* siege ends, as completed if its kill had been registered.
Teardown(reg) ==
    IF RoomsClose(reg)
    THEN /\ gen' = gen + 1
         /\ register' = Zero
         /\ calls' = <<Call(IF register[1] # 0 /\ register[2] # 0
                            THEN "complete" ELSE "abort")>>
    ELSE UNCHANGED <<gen, register, calls>>

\* A section that removes members: ravienteLifecycleMu and the registry lock.
RemoveMembers(reg) ==
    /\ Free /\ (RoomsClose(reg) => gen < MaxGen)
    /\ registry' = reg
    /\ Teardown(reg)
    /\ UNCHANGED <<idState, offline, tick, timer, killed, trackerVars>>

Join(h) ==
    /\ \/ \E n \in Name : CreateAcquire(h, n) \/ AcquireHost(h, n)
       \/ Store(h)
    /\ UNCHANGED <<trackerVars, siegeVars>>

\* handleMsgSysDeleteSemaphore, its first section.
Delete(h) ==
    /\ handling[h] = Idle /\ ~offline[h]
    /\ RemoveMembers(SweepEmpty)
    /\ \E n \in Registered : Working(h, [op |-> "delete", id |-> registry[n].id])
    /\ UNCHANGED leaving

DeleteMember(h) ==
    /\ handling[h].op = "delete"
    /\ \/ \E n \in WithId(handling[h].id) : RemoveMembers(DeleteAt(h, n))
       \/ WithId(handling[h].id) = {} /\ RemoveMembers(registry)
    /\ Working(h, Idle)
    /\ UNCHANGED leaving

\* logoutPlayer: the idle timeout does not wait for the handler.
Disconnect(h) ==
    /\ leaving[h] = "online"
    /\ offline' = [offline EXCEPT ![h] = TRUE]
    /\ leaving' = [leaving EXCEPT ![h] = "leave"]
    /\ UNCHANGED <<registry, idState, handling, trackerVars, siegeVars>>

\* logoutPlayerOnce removes the session; a panic before skips it.
LeaveRooms(h) ==
    /\ leaving[h] = "leave"
    /\ leaving' = [leaving EXCEPT ![h] = "cleanup"]
    /\ UNCHANGED handling
    /\ \/ RemoveMembers(RemoveSession(h))
       \/ UNCHANGED <<registry, idState, offline, trackerVars, siegeVars>>

\* finalizeRuntimeLogout does so again, with lifecycleMu held.
CleanUp(h) ==
    /\ leaving[h] = "cleanup" /\ ~HoldsLifecycle(h)
    /\ RemoveMembers(RemoveSession(h))
    /\ leaving' = [leaving EXCEPT ![h] = "gone"]
    /\ UNCHANGED handling

-----------------------------------------------------------------------------
(* Registers.                                                                *)

\* A write that is ignored: to the start or the killed time without a room, and
\* to the killed time before the start.
Accepted(reg, u) ==
    /\ RoomOpen \/ u.dest = 3 \/ u.data = 0
    /\ u.dest = 2 => reg[1] # 0

\* updateRaviLocked: op 2 adds, 13 and 14 set; registers wrap.
Written(reg, u) ==
    IF ~Accepted(reg, u) THEN reg
    ELSE [reg EXCEPT ![u.dest] = IF u.op = "add" THEN (@ + u.data) % RegMod ELSE u.data]

\* handleMsgSysOperateRegister with two updates in a packet.
OperateRegister(u, v) ==
    LET first  == Written(register, u)
        second == Written(first, v)
        crosses(r) == \/ register[r] = 0 /\ first[r] # 0
                      \/ first[r] = 0 /\ second[r] # 0
    IN
    /\ Free
    /\ register' = second
    /\ calls' = (IF crosses(1) THEN <<Call("start")>> ELSE <<>>)
                \o (IF crosses(2) THEN <<Call("complete")>> ELSE <<>>)
    /\ killed' = IF crosses(2) THEN killed \cup {<<boot, gen>>} ELSE killed
    /\ UNCHANGED <<gen, tick, timer, semaphoreVars, trackerVars>>

\* "!ravi start" and the timer agree on when a siege may be started.
MayStart == RoomOpen /\ register[1] = 0 /\ register[3] # 0

StartNow ==
    /\ register' = [register EXCEPT ![1] = register[3]]
    /\ calls' = <<Call("start")>>

StartCommand ==
    /\ Free /\ MayStart
    /\ StartNow
    /\ UNCHANGED <<gen, tick, timer, killed, semaphoreVars, trackerVars>>

\* The next tracker call of whoever holds ravienteLifecycleMu.
TrackerCall ==
    /\ calls # <<>>
    /\ calls' = Tail(calls)
    /\ LET c == Head(calls) IN
       \/ c.op = "start" /\ StartRun(c.gen)
       \/ c.op = "complete" /\ Complete(c.gen)
       \/ c.op = "abort" /\ Abort(c.gen)
    /\ UNCHANGED <<gen, register, tick, timer, killed, semaphoreVars>>

\* A hunter enters a siege quest (doStageTransfer); no Raviente lock is taken.
EnterQuest(k, p) ==
    /\ Observe(k, p)
    /\ UNCHANGED <<semaphoreVars, siegeVars>>

-----------------------------------------------------------------------------
(* raviAutoStart: a ticker reads the room and the registers, each under its  *)
(* own lock, arms a timer, and fires when the time is up.                    *)

tickUnchanged == <<gen, register, calls, killed, semaphoreVars, trackerVars>>

TickRoom ==
    /\ tick = Waiting
    /\ tick' = [at |-> "registers", room |-> RoomOpen, players |-> Players # {}]
    /\ UNCHANGED <<timer, tickUnchanged>>

Gathering == tick.room /\ register[3] # 0 /\ register[1] = 0

\* Mutant: every tick arms the timer again.
ArmAlways == TRUE

\* Not armed yet, or armed for a siege that is over.
ArmNow == ~timer.armed \/ timer.gen # gen

TickRegisters ==
    /\ tick.at = "registers"
    /\ \/ /\ ~Gathering
          /\ timer' = Disarmed /\ tick' = Waiting
       \/ /\ Gathering /\ ArmNow
          /\ timer' = [armed |-> TRUE, gen |-> gen, due |-> FALSE] /\ tick' = Waiting
       \/ /\ Gathering /\ ~ArmNow /\ ~timer.due
          /\ tick' = Waiting /\ UNCHANGED timer
       \/ /\ Gathering /\ ~ArmNow /\ timer.due
          /\ IF tick.players THEN tick' = [at |-> "fire", gen |-> gen] /\ UNCHANGED timer
             ELSE timer' = Disarmed /\ tick' = Waiting
    /\ UNCHANGED tickUnchanged

\* The deadline passes.
TimeUp ==
    /\ timer.armed /\ ~timer.due
    /\ timer' = [timer EXCEPT !.due = TRUE]
    /\ UNCHANGED <<tick, tickUnchanged>>

\* Mutant: the siege that gathers now may be another one.
AnyGathering == MayStart /\ Players # {}

StillGathering == MayStart /\ Players # {} /\ gen = tick.gen

Fire ==
    /\ tick.at = "fire" /\ Free
    /\ IF StillGathering THEN StartNow ELSE UNCHANGED <<register, calls>>
    /\ tick' = Waiting /\ timer' = Disarmed
    /\ UNCHANGED <<gen, killed, semaphoreVars, trackerVars>>

-----------------------------------------------------------------------------
\* The process ends, wherever it is, and another one starts.  Rooms, registers
\* and the tracker's memory are gone; every hunter has to connect again.
Restart ==
    /\ boot < MaxBoots
    /\ Initialize
    /\ registry' = [n \in Name |-> NoSemaphore]
    /\ idState' = [h \in Hunter |-> [alt |-> FALSE, used |-> [m \in BOOLEAN |-> 0]]]
    /\ offline' = [h \in Hunter |-> FALSE]
    /\ handling' = [h \in Hunter |-> Idle]
    /\ leaving' = [h \in Hunter |-> "online"]
    /\ gen' = 0 /\ register' = Zero /\ calls' = <<>>
    /\ tick' = Waiting /\ timer' = Disarmed
    /\ UNCHANGED killed

AutoStart == TickRoom \/ TickRegisters \/ Fire

RavienteNext ==
    \/ \E h \in Hunter : Join(h) \/ Delete(h) \/ DeleteMember(h)
                         \/ Disconnect(h) \/ LeaveRooms(h) \/ CleanUp(h)
    \/ \E p \in Packet : OperateRegister(p[1], p[2])
    \/ StartCommand \/ TrackerCall
    \/ \E k \in Kind, p \in Player : EnterQuest(k, p)
    \/ AutoStart \/ TimeUp \/ Restart

\* A holder of the lock goes on, timers expire, the ticker ticks, and a mutex does
\* not starve the one that waits for it (sync.Mutex hands over after 1 ms).
RavienteFairness ==
    /\ WF_raviVars(TrackerCall)
    /\ WF_raviVars(TickRoom \/ TickRegisters) /\ SF_raviVars(Fire)
    /\ WF_raviVars(TimeUp)

RavienteSpec == RavienteInit /\ [][RavienteNext]_raviVars /\ RavienteFairness

-----------------------------------------------------------------------------
(* Properties.                                                               *)

SiegeTypeOK ==
    /\ gen \in 0 .. MaxGen /\ register \in [Reg -> 0 .. RegMod - 1]
    /\ calls \in Seq([op : {"start", "complete", "abort"}, gen : Nat])
    /\ timer \in [armed : BOOLEAN, gen : Nat, due : BOOLEAN]
    /\ tick \in {Waiting} \cup [at : {"registers"}, room : BOOLEAN, players : BOOLEAN]
                         \cup [at : {"fire"}, gen : Nat]
    /\ killed \subseteq Nat \X Nat

\* finalizeRuntimeLogout, "cannot leave a closed session referenced by the live
\* ... semaphore registries": after its logout a hunter is in no semaphore and
\* about to join none, however its handlers were overtaken.
GoneHoldsNothing ==
    \A h \in Hunter : leaving[h] = "gone" =>
        Memberships(h) = {} /\ ~HoldsLifecycle(h)

\* A semaphore lives as long as somebody is in it.
NoEmptySemaphore == \A n \in Registered : registry[n].clients # {}

\* Registers 1 and 2 do not outlive the rooms of the siege, and no delayed
\* packet sets them again before there is a room (handlers_register.go:106).
NoSiegeWithoutRoom ==
    (\A n \in RaviName : ~Exists(n)) => register[1] = 0 /\ register[2] = 0

\* A logout begins with the end of the connection.
LeavingIsOffline == \A h \in Hunter : leaving[h] # "online" => offline[h]

RoomsInv ==
    /\ SemaphoreTypeOK /\ SiegeTypeOK
    /\ NoEmptySemaphore /\ NoSiegeWithoutRoom /\ GoneHoldsNothing /\ LeavingIsOffline

\* Only a siege whose kill was accepted while its room was open, and in which
\* somebody fought, is in the history as completed; whatever fails, crashes or
\* arrives late.
CompletedWereKilled ==
    \A i \in DOMAIN rows : rows[i].status = "completed" =>
        rows[i].siege \in killed /\ rows[i].team # {}

OneActive ==
    \A i, j \in DOMAIN rows : rows[i].status = "active" /\ rows[j].status = "active" => i = j

\* The run in the tracker's memory has a row, of no other kind while it is active.
RunHasItsRow ==
    active # NoRun =>
        /\ active.id \in DOMAIN rows /\ active.gen <= gen
        /\ rows[active.id].siege = <<boot, active.gen>>
        /\ rows[active.id].status = "active" =>
              rows[active.id].kind \in {Unknown, active.kind}

RowsAreOld ==
    /\ boot <= MaxBoots
    /\ \A i \in DOMAIN rows :
         /\ rows[i].siege[1] <= boot
         /\ rows[i].siege[1] = boot => rows[i].siege[2] <= gen

Recorded(g) == \E i \in DOMAIN rows : rows[i].siege = <<boot, g>>

RunIs(g) == active # NoRun /\ active.gen = g

\* Why a siege is not recorded twice: once it has a row, its generation is over, or
\* it is the tracker's run, or the row is active and the index refuses another one.
RecordedIsKnown ==
    \A i \in DOMAIN rows : rows[i].siege = <<boot, gen>> =>
        Over(gen) \/ RunIs(gen) \/ rows[i].status = "active"

\* The calls of a section are about the current generation, the single call of a
\* teardown about the one before, and a completion is due for a killed siege only.
CallsAreDue ==
    /\ \A i \in DOMAIN calls :
         /\ calls[i].op = "complete" => <<boot, calls[i].gen>> \in killed
         /\ calls[i].gen # gen =>
              Len(calls) = 1 /\ calls[i].op # "start" /\ ~Recorded(gen)
    /\ register[2] # 0 => <<boot, gen>> \in killed

RecordsInv ==
    /\ TrackerTypeOK /\ OneActive /\ RunHasItsRow /\ RowsAreOld /\ RecordedIsKnown
    /\ CallsAreDue /\ CompletedWereKilled

\* As long as no statement fails, the history agrees with the registers whenever
\* nobody holds ravienteLifecycleMu: a started siege is recorded, the only
\* active row is the one of this generation, and a killed siege is completed
\* unless nobody fought in it.
HistoryAgrees ==
    faults = 0 /\ Free =>
        /\ register[1] # 0 => \E i \in DOMAIN rows : rows[i].siege = <<boot, gen>>
        /\ \A i \in DOMAIN rows :
             /\ rows[i].status = "active" => rows[i].siege = <<boot, gen>>
             /\ rows[i].siege[1] = boot /\ rows[i].siege \in killed =>
                  rows[i].status = IF rows[i].team = {} THEN "aborted" ELSE "completed"

\* The inductive invariant behind it: an order of calls, generations and kills, and,
\* as long as no statement fails, that what the history lacks is due.
Ordered ==
    /\ \A siege \in killed : siege[1] <= boot /\ (siege[1] = boot => siege[2] <= gen)
    /\ \A i \in DOMAIN terminal : terminal[i] <= gen
    /\ \A i \in DOMAIN calls : /\ calls[i].op = "start" => i = 1
                               /\ calls[i].gen <= gen
                               /\ calls[i].op = "abort" => calls[i].gen < gen

Due(op, g) == \E i \in DOMAIN calls : calls[i].op = op /\ calls[i].gen = g

\* The tracker's run and the active row are one siege with one team.
Synced ==
    IF active = NoRun THEN ~SomeActive(rows)
    ELSE /\ rows[active.id].status = "active" /\ rows[active.id].team = active.team
         /\ rows[active.id].kind = active.kind /\ ~active.closed
         /\ active.kind = Unknown => active.team = {}

\* The tracker's run is of this generation, or about to end.
RunIsDue ==
    active # NoRun =>
        active.gen = gen \/ Due("complete", active.gen) \/ Due("abort", active.gen)

StartIsDue ==
    /\ register[1] # 0 => Recorded(gen) \/ Due("start", gen)
    /\ <<boot, gen>> \in killed =>
          Recorded(gen) \/ (Due("start", gen) /\ Due("complete", gen))
    /\ Over(gen) => Recorded(gen)

Ended(row) == row.status = IF row.team = {} THEN "aborted" ELSE "completed"

ResultIsDue ==
    \A i \in DOMAIN rows : rows[i].siege[1] = boot =>
        /\ rows[i].siege \in killed =>
              Ended(rows[i]) \/ (rows[i].status = "active" /\ Due("complete", rows[i].siege[2]))
        /\ rows[i].status = "aborted" /\ rows[i].siege[2] = gen => rows[i].team = {}

Faultless == Synced /\ RunIsDue /\ StartIsDue /\ ResultIsDue

HistoryInv == Ordered /\ (faults = 0 => Faultless)

Records == INSTANCE RunRecords WITH
    Siege <- (1 .. MaxBoots) \X (0 .. MaxGen)

\* The rows are a history of sieges as RunRecords promises it.
RunsRecordedOnce == Records!Spec

\* raviAutoStart, "never touch a session that reset() has since torn down": it starts
\* only the siege its timer was armed for, and not before the time is up, although a
\* room may close and another gather between the ticker's reads and the lock.
OnlyTheTimersSiege ==
    [][Fire /\ register' # register => timer.armed /\ timer.due /\ timer.gen = gen]_raviVars

\* The inductive invariant behind it.
TimerAwaited == tick.at = "fire" => timer.armed /\ timer.due /\ timer.gen = tick.gen

\* raviAutoStart: a room that has set its start value is started sooner or later,
\* unless it closes or takes the value back.
GatheringStarts ==
    RoomOpen /\ register[3] # 0 /\ register[1] = 0
        ~> ~RoomOpen \/ register[3] = 0 \/ register[1] # 0
=============================================================================
