# TLA+ models of Erupe

Erupe is a private server for an online hunting game: a sign server, an entrance
server, an HTTP API and a set of channel servers over one PostgreSQL database.
What is hard to get right, and hard to test, is in the channel server: hundreds
of sessions, each with its own goroutines, share maps of stages, sessions and
semaphores, and a session can be logged out by a timeout while its own handler
is still at work. These modules model that part: the stages and the quest departures that
pass through them, the login guard, the world rotations, the shutdown, the
send queue and the workers of a session, the semaphores and the Raviente siege
with its run history, the coin deliveries, the daily coins, and a character's
savedata with its starter items.

Paths below are relative to `src/server/channelserver/` unless they start with
`src/`.

## 1. Inventory

### The process

`src/main.go` starts the servers, waits for a signal, and drains the channels.
A channel server (`Server`, `sys_channel_server.go`) has four goroutines of its
own: `acceptClients`, `manageSessions`, `invalidateSessions` (idle timeouts) and
the Raviente timers. Each connection is a `Session` with a receive and a send
goroutine; `recvLoop` handles one packet group at a time by calling the handler
of each packet in the group.

| Component | State | Operations | Hard behaviour | What makes it correct |
|---|---|---|---|---|
| Stages (`sys_stage.go`, `handlers_stage.go`) | `StageMap`, `Stage.clients`, `reservedClientSlots`, `host`, `maxPlayers`, `locked`, `password`, `createdAt`; `Session.stage`, `reservationStage`, `stageMoveStack` | create, move, enter, back, reserve, unreserve, lock, unlock, password, the two sweeps | lookups and locks are separate steps; sweeps of everybody's stages run in every transfer; a timeout logs out a session whose handler runs | no session in a stage nobody can find; one stage per session; capacity; slots released; a closed session referenced nowhere |
| Logout (`handlers_session.go`) | `closed`, `logoutOnce`, `lifecycleMu`, `Server.sessions` | `logoutPlayer`, `logoutPlayerOnce`, `finalizeRuntimeLogout` | runs on either of two goroutines, panics are recovered, a replacement connection of the character may exist already | detached from every registry, once; the replacement keeps what is its own; it always ends |
| Login and account guard (`handlers_session.go`, `channel_registry_local.go`) | `charID`, `userID`, every channel's session map | login, `FindOtherCharacterSession` | two logins race across channels; a scan is not atomic | one character of an account plays at a time |
| Accept, sessions, drain (`sys_channel_server.go`, `src/main.go`) | `sessions`, `done`, `isShuttingDown`, listener | accept, register, idle check, `Shutdown`, `DrainPassive`, `ShutdownAndDrain` | a connection in flight when `done` closes; logout during the snapshot | a completed drain has saved everybody |
| World rotations (`collab.go`, `mezfes_rotation.go`) | draw and counter per world, seat per session | acquire, release | login handler overtaken by the timeout | counters equal seats, one draw per world, cleared when empty |
| Send queue, session workers (`sys_session.go`, `daily_gacha_coins.go`, `cafe_daily_bonus.go`, `dashboard_coin_delivery.go`) | `sendPackets` (20), worker done channels | queue, drop, notice-and-wait, start, wait | full queue, a worker waiting for an ack of a dead connection while the logout waits for the worker | logout never waits forever; no coin twice |
| Semaphores (`sys_semaphore.go`, `handlers_semaphore.go`) | `Server.semaphore`, clients, host, counters per session | create-and-acquire, delete, acquire, sweep | mode toggling, limits, hand-over of the host | bounded, no dead member, unique numbers |
| Raviente (`raviente.go`, `raviente_run_tracker.go`) | registers and generation, timers, tracked run | update, reset, auto start, auto support, record | timers against packets, retried generations | a generation is recorded once and never reopened |
| Dashboard coin sessions (`src/server/dashboarddelivery`, `repo_session.go`) | rows of tracked sessions and queued deliveries | bind, finish, deliver | retries after a commit, two channels, crash | a delivery is made once |
| Daily coins (`daily_gacha_coins.go`) | intervals per day | merge, settle | midnight, overlaps | each second counts once |
| Character saves (`char_save_locks.go`, `model_character.go`, `repo_character.go`) | blob, inventory generation, claimed starter receipts, backups; a mutex per character and channel | load, repair, save, final save, claim | two channels, handlers that do not lock, commits whose answer is lost, damaged blobs | what is loaded holds exactly the items whose receipts are claimed |
| Quest licences, access, deliveries, supplies (`quest_access_gameplay.go`, `quest_delivery_departure.go`) | rights and schedules in SQL; pinned departure, receipt and rights snapshot per session | read rights, admit, set up, judge, reject late, count a departure | the rights are read before any lock; a setup is judged after players have entered and left | nobody hunts without the right he had at his admission; only unlicensed hunters are thrown out; one count per departure |
| Guild, gacha, shop, mail, festa, tournament, Diva, Tower, Pallone, house, mercenary, Rengoku and the other game handlers | SQL rows | load, store | SQL transactions | data conversion and accounting in SQL |
| Sign, entrance, API, Discord, network codec, config, migrations, tools | - | request/response | - | data conversion |

How they interact: handlers call the stage map and the semaphore map directly
and send to other sessions through their queues; the logout walks all
registries; the registry (`channel_registry_local.go`) lets a login look into
the maps of all channels; the rotations are shared by the channels of an
entrance world; the drain only closes connections and counts the session map.
`PROJECT.json` lists every component with its status, and under `hazards` what
can go wrong, at the line where it bites.

### Lock discipline the models rely on

`Stage` locks, `Session.Mutex`, `Server.Mutex` and the semaphore lock are held
for short sections and are never held while waiting for a client.
`Session.lifecycleMu` is different: a transfer and a reservation hold it from
their check of `closed` to the assignment of `Session.stage` or
`reservationStage`, and `finalizeRuntimeLogout` holds it to its end. So one step
of a model is one critical section of a short lock or one operation on the
`sync.Map`, while `lifecycleMu` is a variable.

## 2. Modules

### StageLifecycle

One module for the stage map, the stage handlers and the stage part of the
logout, since every hazard is in their interleaving.

* `stages` is `StageMap`; a `*Stage` is an element of `Stage` that `NewStage`
  hands out once, so a pointer may be current (`stages[id] = st`) or orphaned.
  `clients`, `reserved`, `host`, `limit` are its fields; `barrier` abstracts
  `locked` and `password` to what they admit; `fresh` says `createdAt` is within
  `stageEmptyGrace`, and `GraceEnds` may end that at any moment.
* A session has two threads: `pc` is where its handler is, with its locals in
  `arg`; `lpc` is where its logout is. A logout may start at any moment, which
  is the idle timeout; when it starts with `pc = "idle"` it is the receive
  goroutine's own.
* `Receive` is `recvLoop` choosing a packet; it looks at `closed` first, so a
  handler may still run on a session closed since. Each handler is the sequence
  of actions named after it in the module; `doStageTransfer` is
  `Transfer, TransferLock, Lookup, Join, Discard, LeaveOld, SweepOld,
  SweepHosted, SetStage`, shared by move, enter and back.
* A sweep (`sync.Map.Range`) visits the stages in any order, one step each,
  re-evaluating the test under the stage lock; loading an entry and locking its
  stage is one step. IDs absent from the map are visited without effect.
* `logoutPlayerOnce` is `Unregister ... SweepHostedOut`, `Panic` jumps from any
  of them to `finalizeRuntimeLogout`, which is `Finalize ... Detach`. The second
  call of `destructEmptyHostedStages` in `logoutPlayerOnce` is not a step of its
  own: it could only remove stages the finalizer visits next.
* The quest bookkeeping of a transfer (supplies, licences, Pallone, tower, run
  modes) is a database's business: it appears as an admission that may be
  refused for quest stages (`AdmissionMayReject`). The tower refusal (line 162)
  does not discard the stage, but reads a setup only the stage's host can have
  stored, so it never meets a stage it has just created.
* Left out: stage objects, binaries, broadcasts, the ready flag of a slot, and
  semaphores.

### LoginGuard

The login handler up to the account guard, on any number of channels. `charID`
and `userID` are the published fields, `passed` records that the guard has let
the current character in; `Collect` copies one channel's map per step, `Inspect`
and `Compare` look at one candidate under its own lock. `batch` is the rest of
the packet group, so that a rejected login may be followed by another packet.
The code writes `userID` without a lock; the channel locks that both scans take
afterwards order the write of one of two racing sessions before the read of the
other, so the model's atomic write is what a login can observe of its rival.

### WorldRotation

Both rotations with the seats of the sessions. The seat and the counter change
together on acquire (the rotation is called under `Session.Mutex`) but apart on
release, and the login handler may run after the logout has released: both are
as in the code. `RandomCollab` and `RandomMezFes` are the sessions of the
channels that take part.

### ServerDrain

One channel server from Accept to exit: the accept and the manage goroutine with
their unbuffered hand-over (`Deliver`), the idle check with the list its pass has
collected (`timedOut`), sessions with the four steps of a logout a drain can
tell apart (running, saved, out of the map, finished), and main's sequence
`Shutdown`, `DrainPassive`, `ShutdownAndDrain`. With `done` closed, a select may
take either of its ready cases.

### Semaphores

The registry of one channel. `Name` is a semaphore's name, `idState` a hunter's
series of numbers, `handling` what his handler is doing and `leaving` how far
his logout is. `CreateAcquire` and `Store` are the two sections of
`handleMsgSysCreateAcquireSemaphore`, with `lifecycleMu` held between them;
`AcquireHost` is `handleMsgSysAcquireSemaphore`, which makes a host of a
non-member; `Delete`, `SweepEmpty` and the two removals of a logout
(`RemoveSession` before and in the finalizer) drop a semaphore whose last member
goes. `CheckSemaphore` and the broadcasts change nothing.

### RunRecords, RunTracker and Raviente

`RunRecords` is the abstract specification of the siege's history: one record
per siege, at most one active. The active record gains members, and ends once:
completed with a team (`Finish`), given up (`GiveUp`), or given up by the start
of the next siege (`Supersede`). After its end a record does not change.

`RunTracker` is `raviente_run_tracker.go` with its table: `StartRun`, `Observe`,
`Abort`, `Complete`, `Initialize`. A statement is `Done`, `Failed` or `Lost`
(committed, but the caller sees an error), `MaxFaults` of the latter two; the
table's unique index admits one active row; a tombstone keeps a late start of
an abandoned generation from opening a second record; a restart forgets the
memory and keeps the table.

`Raviente` composes the semaphores and the tracker and adds the generations,
the registers 1 (start), 2 (killed time) and 3 (start value), a packet of two updates
(`OperateRegister`), the start command and the automatic start, whose look at
the room, look at the registers and firing are separate steps (`TickRoom`,
`TickRegisters`, `Fire`), the teardown with the last member of the room, and
`Restart`. `calls` is the queue of tracker operations an update has caused:
`ravienteLifecycleMu` is held until it is empty. `RunsRecordedOnce` is
`RunRecords!Spec` under the mapping in which a row of the table is a record.

### CoinLedger and CoinSessions

`CoinLedger` says what an account may expect: grants wait in a queue, are paid
once and in order, and only while nobody's unsaved progress would overwrite the
balance. `CoinSessions` is `src/server/dashboarddelivery` with the calls of
`repo_session.go` and the login and logout handlers: leases, the binding of a
sign session to a channel, settlement, delivery, the logout whose
`FinishTracked` is tried twice, crash and recovery of a channel. A transaction
holds the account's row from its first statement and is one step; its outcome
(`Outcome`) is committed or not and, separately, reported or not.
`GrantsPaidOnce` is `CoinLedger!LedgerSpec`.

### DailyCoins

`ByStart`, `Merging` and `Lengths` translate `mergeDailyCoinIntervals`: some order
of the starts (`sort.Slice` is not stable), the union from left to right, and its
length. `Settled` cuts an interval at the ends of a day, `Days` names the days. The clock (`Pass`) runs to `Horizon`. A connection's worker starts
with `Enter`, takes the time (`Capture`) before it looks whether the connection
is closing (`CheckOpen`), settles (`SettleLive`) and settles for the last time
up to `closedAt` (`Finish`, twice after an error). A settlement (`Attempt`) is a
transaction over the account's row that commits or not and, separately, reports
an error or not; `from` moves on only with a reported success. The reference is
a set of moments: `Moments(d)` against those of the day at which some connection
was there (`OnlineOn(d)`). `DailyInv` is the inductive invariant behind both properties.

### SessionWorkers

One session's goroutines: `sendLoop` over the bounded `sendPackets`, `recvLoop`,
the daily coin worker, the cafe worker and the coin notices, and the logout
that stops and waits for them. A channel send blocks (`Enqueue`), a broadcast
drops, a notice is offered, awaited until it has been written and only then
consumed, or tried again. Statements fail and contexts expire `MaxFailures` times.

### CharacterSaves

`save` is the blob with its starter items, `generation` the inventory generation
(`characters.starter_inventory_epoch`), `receipt` the receipts and `backups` the
rotating copies. `Recv(c)` is a connection's receive goroutine, `Out(c)` its
logout; what the client holds is `known`, `added` and `wanted`. `LockAndLoad`
takes the lock of the channel's `CharacterLocks`; `CommitSave` is
`saveCharacterDataAtomic`: it compares the generation that was read, stores blob
and receipts and keeps a backup. The lock is per channel, so a second channel
does not meet it. `SpendLoad` and `SpendStore` are `handleDonateRP`
(`handlers_guild_ops.go:229-250`) and stand for the three handlers that store a
derived blob without the lock (also `handlers_distitem.go:161` and
`handlers_tower.go:940`). `PickUp`, `Acquire` and `Damage` are external: the
client, the starter claims that the runtime does not wire yet (the repository
functions and their use by the save are what is modelled), and a damaged row.

### QuestDepartures

What a transfer does about quests, around the same locks. `ReadAccess` and
`IssueAccess` read the rights before any lock; `EnterQuest` admits under
`lifecycleMu` and the stage lock by the rights read, `Stamp` pins them to the
number of the trip; `LeavePlace` takes the hunter out of the old place and
sweeps it. A host's setup is `SetSetup`, `Judge` (per member, on the pinned rights), `Validate`,
`Countersign`, `Store`; a late `Reject` looks whether its target is still in
that place on that trip; `Arm` and `Count` record the departure. A session that is
closed (`Disconnect`, `Reject`) is logged out in phases, as in `StageLifecycle`:
`DropOut` is the loop of `logoutPlayerOnce` over the stages and `QuitPlace` its
`removeSessionFromStage`, both without `lifecycleMu` and so, possibly, in the middle
of a transfer that then joins the next stage; `ClearPlace` and `LogOut` are
`finalizeRuntimeLogout`, which waits for the transfer. Abstractions: one clock
for database and server; a quest's publication is one closing time; a campaign
right is a constant end; a session's cached snapshot is the one it prepared; a
recorded departure is a count. Licences are enabled and clients are ZZ.

### How the modules are composed

`MCDepartures` (StageLifecycle, QuestDepartures), `MCCharacters`
(StageLifecycle, CharacterSaves), `MCRegistries` (LoginGuard, Raviente,
DailyCoins), `MCServices` (ServerDrain, Raviente, SessionWorkers) and
`MCAccounts` (WorldRotation, CoinSessions) hold the components that share
nothing in the code but the sessions. Their product has no behaviour of
interest that its factors lack, so a behaviour of the composed module is one
*part* and leaves the variables of the others at their start: each property is
checked over all behaviours of its component. Where components do interact the
modules themselves compose: `Raviente` steps the semaphores, the registers and
the tracker together.

## 3. Runs

| Run | Module, configuration | Shows |
|---|---|---|
| transfers | MCDepartures, MCDepartures.cfg | stages: `IInv`, `NobodyInOrphans`, `FreshStagesKept`, `LastPlaceOnce`: two hunters move, enter and create around one place and around the timeout of the one who hosts. Quests: `DepartureInv`, `PartyLicensed`, `DeparturesCounted`, `OnlyUnlicensedRejected`: setups before, during and after entries, a licence bought in between, a logout in the middle of a transfer |
| reservations | MCStageLifecycle, MCReservations.cfg | `SlotsReleased`, `NobodyInOrphans`: reservations, the way back, locks, passwords, unlocking and refused admissions around a timeout |
| replacement | MCCharacters, MCReplacement.cfg | stages: `OneStageAtATime`, `DetachedAfterLogout`: a second connection of the character while the first logs out, with panics. Saves: `SavesInv`, `ReceiptsMatchInventory`: two connections, two channels, damaged blobs, unheard commits, handlers that do not lock |
| logout_completes | MCStageLifecycle, MCLogoutCompletes.cfg | `LogoutCompletes`, under fairness |
| refused_departure | MCStageLifecycle, MCRefusedDeparture.cfg | finding: `NobodyInOrphans` fails when admissions may be refused on a stage another session moves to |
| two_logouts | MCStageLifecycle, MCTwoLogouts.cfg | finding: `SlotsReleased` fails when two connections of a character log out around each other |
| login | MCRegistries, MCRegistries.cfg | `OneCharacterPerAccount`; `RoomsInv`, `RecordsInv`, `CompletedWereKilled`, `HistoryAgrees` and the refinement `RunsRecordedOnce`: the siege with failing statements and a restart; `DailyCoinsExact`, `NothingLeftOut`: two connections around midnight |
| rejected_login | MCLoginGuard, MCRejectedLogin.cfg | finding: packets behind a rejected login are dispatched |
| rotation | MCAccounts, MCAccounts.cfg | `RotationInv` (with `SeatsShareTheDraw`), `MezFesClearedWhenEmpty`, `DrawStableWhileOccupied`, `ClosedSessionsLeaveMezFes`; `CoinInv`, `CreditFindsAllSaved`, `NothingForgotten`, the refinement `GrantsPaidOnce` and the liveness `PaidInTheEnd`: channel transfers, overtaken logins, ambiguous transactions, a crash |
| collab_empty | MCWorldRotation, MCCollabEmpty.cfg | finding: a collaboration outlives its last player |
| drain | MCServices, MCServices.cfg | `CompleteDrainSaved`, `AcceptedAnswered`, `SnapshotLogsOut`; `GatheringStarts`, `OnlyTheTimersSiege`: a gathering siege is started by the timer, and only the one the timer was armed for; `WorkersInv`, `ClosedLogsOut`, `NoticeShown`: a full queue and running workers do not stop a logout |
| late_session | MCServerDrain, MCLateSession.cfg | finding: a session registered after the drain has looked |

`CHECK_DEADLOCK FALSE` is set because every system here may really stop: all
clients have left or sent their bounded number of packets.

### Bounds

* Two sessions per stage run: every hazard listed is between a session's handler
  and its own logout or one other session. Packets per session are bounded by
  `MaxPackets` (one or two each; in two runs one for the session in town, two for
  the other) and their kinds by `Sends`, so that each run
  holds the handlers its question is about; together the runs fire every action.
* Two stage IDs, a permanent home and a transient quest stage; three
  `*Stage` pointers, enough for a quest stage to be swept and created again.
  When they are used up no further stage is created.
* `PlayerCount = {1}` makes the last place contended; `MaxHosted = 1` makes the
  limit bite with a single stage; in the runs where it is not the question it is
  the code's 32, which is never reached.
* `Leaves` are the sessions that may log out, `Panics` those whose logout may
  panic; `InTown` those that are in the home stage when the run starts, a state
  reached by one move of each.
* Login: two connections on two channels, an account with two characters and a
  friend's, two login packets of one connection and one of the other. A third connection adds no new pair: the
  property is about pairs, and the theorem covers any number.
* Rotation: three sessions, so that one may hold the world while another leaves
  and a third comes; two draws of each kind, so that a second draw can differ.
  The first session repeats its login at any time, the others while they have no
  seat.
* Drain: two connections, one established and one in flight.
* Symmetry is used for stage pointers only, in runs without liveness.
* Siege: in the part about the rooms two hunters who send a create packet per
  series of numbers, so that the limits of two (members, memberships, semaphores)
  bite, and one packet of register updates; in the part about
  the siege one hunter, one teardown and one restart, so that the records of two
  generations and of two processes meet; a tracker that remembers one finished
  generation (`History`), so that it forgets; one failing statement (two, where
  the repetition of a failed statement fails too, were run once by hand with the same
  result; the theorems are about any number); registers of one bit, so that an
  addition wraps; packets that start, that start and kill, and that start and take
  it back. The timer part has two teardowns, so that a timer armed for one
  generation meets the next, and no failures.
* Daily coins: days of three moments and a horizon of four, so that one midnight
  falls inside; two moments required, so that one connection alone may miss what
  two together reach; one failing settlement. The first connection is there from
  the start of its day, the second comes later, and a worker's timer fires once per
  moment when the day has its row.
* Workers: a queue of one place, which is full at once; one notice; one failing
  statement or expired context. One stage entry starts the workers; a handler
  closes the session only while nothing has failed, a logout at any time.
* Coins: two grants, two units in the balance; two logins of one link on
  one channel, or one login each on two channels; one transaction that
  reports an error. The first of the two channels may crash, which ends its
  connections and so bounds the crashes.
* Saves: two connections, two channels, one starter, one backup slot, two saves:
  enough for a saver that read before the other's commit and for a backup older
  than the present generation. The blob is damaged after a save has left a backup;
  receipts are suppressed in favour of items delivered earlier (`Suppress`) only
  before the first save. Three saves (1.4 million states) and two starters were run
  once by hand with the same result.
* Departures: a leader with two packets and a guest with three, so that he may
  enter, leave and return while a setup is judged; two grounds under one stage
  ID, which is the case of a place that was swept and made again; a protected
  and an unprotected quest; one tick of the clock, on which a publication closes.
  The guest times out during or after his second packet (`TimeoutAt`), which may
  take him into the stage or out of it; the leader does not time out, and goes to
  town only from a stage.

### Fairness

* `StageLifecycle`: weak fairness of each handler and of each logout. They are
  goroutines that wait for short locks and for `lifecycleMu` only. Clients need
  not send or leave; a logout starts because somebody closed the session.
* `WorldRotation`: weak fairness of a started login handler and of the cleanup
  of a closed session: `recvLoop` reaches `logoutPlayer` as soon as it sees
  `closed`, and its read has a deadline.
* `ServerDrain`: weak fairness of the accept and manage goroutines, of main once
  a signal has arrived (its waits have deadlines), and of a logout that has
  started or whose connection is closed. Leaving and signalling are not fair.
* `Raviente`: weak fairness of the tracker call that is due, of the ticks and of
  the passing of time, strong fairness of `Fire`: it waits for a `sync.Mutex`,
  which hands over to a waiter after a millisecond. Packets and hunters are not
  fair.
* `SessionWorkers`: weak fairness of every goroutine and timer, strong fairness
  of `Enqueue`: blocked senders of a Go channel are served in order. That a
  client answers is not assumed.
* `CoinSessions`: weak fairness of handlers and logouts. Crashes and recoveries
  are not fair, so `PaidInTheEnd` speaks of a player who stays on a channel that
  stays up.
* The composed modules take the fairness of their parts (`PartFairness`).

### Mutants

Operators called `Mutant` in a comment are plausible mistakes (a forgotten
unlock, a dropped re-check of the map entry, an off-by-one of the capacity, a
save after the session has left the map). They are used by no action; each
property is paired in `PROJECT.json` with one that breaks it.

## 4. Findings

1. `collab_empty` - `acquireCollabEvent` (`collab.go:121`) does not look at
   `Session.closed`; its twin in `mezfes_rotation.go:57` does. A login handler
   overtaken by its own timeout takes a seat nobody gives back, and the event
   stays although `src/docs/collab-worlds.md` says it is cleared after the final
   logout.
2. `refused_departure` - a refused transfer unlocks the stage it has created
   before it deletes it (`handlers_stage.go:173-176, 183-186`). Somebody who
   joins in between is in an orphaned stage.
3. `two_logouts` - connection A of a character times out while its transfer is
   running; connection B, the replacement, reserves and logs out. Each logout
   spares the slot for the other and it stays for good, which also keeps the
   stage from being swept.
4. `rejected_login` - the account guard closes `rawConn` without `markClosed`,
   so the rest of the packet group is dispatched, contrary to the comment in
   `handlePacketGroup`.
5. `late_session` - with `done` closed, the hand-over of an accepted connection
   may still win both selects, after `ShutdownAndDrain` has found the map empty.

Of 1, 2, 3 and 5 section 5 proves that the behaviour described is the only cause: without
it the promise holds for every number of sessions and every
order of steps.

`NobodyInOrphans` therefore holds in the runs `transfers` (no admissions
refused) and `reservations` (nobody else moves to the refused stage), and
`SlotsReleased` where a character is never present twice (proved in section 5).

## 5. Proofs

`StageLifecycle_proofs` proves for every number of sessions, characters, stages,
packets and every order of steps:

* `Invariance`: `Spec => []IInv`, where `IInv` is `TypeOK`, `PointersAllocated`
  (the handlers follow no nil pointer), `LifecycleHeld` (the handler holds
  `lifecycleMu` exactly at `LockedPc`, the logout exactly at `FinalPc`) and
  `LogoutProgress` (a logout has closed the session; once past the registry
  phase it is unregistered; the IDs the last Range has visited are clear of it).
* `TypeCorrect` and `Detached`: `Spec => []DetachedAfterLogout`.

`DetachedAfterLogout` alone is not inductive: it says nothing while the last
Range is under way. The argument: `FinalizeStages` clears a stage of the session;
afterwards the session could only come back as a client by `Join`, which needs
`lifecycleMu` and is excluded by `LifecycleHeld` while the finalizer holds it
and by the test of `closed` in `TransferLock` afterwards; or as a host, by
`CreateStore` (the same test), by `Join`, or by another session's hand-over,
which only picks from `clients`. Each part has a lemma with one step per action;
`HandlerHeld`, `LogoutHeld` and `PointersKept` carry what the actions share.

The other theorems of the module are about how stages come and go:

* `OnePlaceEach`: `LastPlaceOnce`. Only `Join` adds a client (`OthersOnlyLeave`),
  and it counts under the stage lock. It needs that sessions and characters are
  finitely many.
* `GraceKept`: `FreshStagesKept`. `RemovedFor` lists the reasons for which an entry
  leaves the map; the one that is not obvious is the discard of a refused
  transfer: that its session is the host needs `CreatorsApart`, no two handlers
  have created the same stage, and no logout hands the stage over meanwhile,
  since the handler holds `lifecycleMu`.
* `OnlyRefusedCreatorsOrphan`: `NobodyInOrphans`, from the specification and the
  premise that no refused transfer discards a stage it created. So the
  behaviour of finding 2 is the only one that orphans a session.
* `OneStage`: `OneStageAtATime`. The strengthening `Whereabouts` says of which
  stages an open session is a client at every point of a transfer.

* `SlotsInvariance` and `SlotsGivenBack`: `SlotsInv` and `SlotsReleased`, from the specification and the premise
  `[]NeverTwice`: no character is present with two connections at once (one after
  the other is fine). The strengthening `SlotsInv` finds for every slot somebody
  who owes something about it: a logout whose last Range has not come to the stage,
  or an Enter that has reserved without `lifecycleMu` and will fail in a closed
  session. The premise is what finding 3 violates.

`LoginGuard_proofs` proves `Spec => []OneCharacterPerAccount`. The strengthening
is `RivalsNoticed`: of two open sessions that have published rival identities,
not both can have finished with the other, since the one that looked later found
the other registered and published.

`Services_proofs` holds the proofs about `ServerDrain` and `SessionWorkers`. It
proves `Spec => []MapCountsEverybody` and
`Spec => []CompleteDrainSaved` for any number of connections. The second is a
fact about one poll; what makes it true is that an empty map means nobody is
before the save, that whoever is past it has tried (`SaveTried`), and that no
connection of the snapshot is still without a session (`SnapshotOfSessions`). The
map is exact because a connection between the two goroutines is in no other
hands (`OnItsWay`).

`OnlyTheLateOutlive` is the other half of finding 5: under the premise
`NobodyAtTheDoor` (when the poll finds the map empty, no connection is between
`acceptClients` and the map) the map stays empty (`DrainedStaysEmpty`) and every
session there ever was, of the snapshot or not, has saved or panicked
(`EverybodySaved`). The strengthening `DoorClosed` says that the listener is
closed by then, so that nobody comes to the empty door.

The inductive invariants of these two modules are not invariants of a run, nor are
`SlotsInv`, `HistoryInv` and `DailyInv`; the properties that follow from them are.

`WorldRotation_proofs` proves `RotationInv` (the counters are the seats plus
those on their way out), hence `SeatsShareTheDraw` and `MezFesClearedWhenEmpty`, and
the action property `DrawStableWhileOccupied`, for any finite set of sessions.
The cardinalities move by one with each acquire and release;
`MezFesClearedWhenEmpty` needs that a closed session is past its acquire, which
the test of `closed` under `Session.Mutex` gives and the collaboration lacks.
`OnlyALateSeatStays` supplies it as the premise `NoLateSeat` (no seat is taken once
`releaseCollabEvent` has been through) and proves `CollabClearedWhenEmpty`, with the
strengthening `CollabGivenBack`.

Of the workers `Services_proofs` proves `WorkersInv`, for any queue length and notices. A
notice that is being consumed was written: the answer it waited for carries the
number of this attempt, so the late answer to an earlier attempt is none.
`NoticesAreKept` is about what is not consumed: the worker ends only with an empty
list or a closed session, and what it has consumed is older than what waits
(`OldestIsFirst`), so a notice is neither given up nor overtaken. `NoticeShown`
adds the fairness to it.

`Coins_proofs` holds the proofs about `CoinSessions` and `DailyCoins`. It proves
`CoinInv` and the action property `CreditFindsAllSaved`: a lease tells the truth about the session behind it (no
session with unsaved progress is without its lease, no sign session is bound to
a channel without a live lease there), and a transaction credits only where it
starts or ends with no lease held. `NothingForgotten` is inductive beside it: the last
lease of an account is only given up in a transaction that pays what fits
(`SettledNothingForgotten`), and a grant is queued only while the account is
online, which by `CoinInv` means a lease. `GrantsArePaidOnce` maps every step to one of `CoinLedger`
(`StepRefines`); a payment of the first `k` grants is `CreditStep`, and `PayableFits`
says that the largest `k` exists.

Of the daily coins it proves `DailyInv`, `DailyCoinsExact` and `NothingLeftOut`, for
any connections, length of a day, horizon and time required. `MergedWorks` is the
correctness of `mergeDailyCoinIntervals`: for stored intervals with gaps between
them and any new one, the result has gaps too and covers exactly the union, and by
`LengthsCount` its lengths add up to the number of its moments. `SettledRow` says the
same of one day's row in terms of moments. `RowsExact` needs of a step only that
what it reports was online (`ReportedOnline`, from `TimesInOrder`: a worker that took
the time before it found the connection open reports no later time than
`closedAt`); `Reported` makes a repetition harmless and an omission impossible, since
`from` moves on only with a commit; `CoinsPaid` follows from `Claims` day by day
(`CommittedCoins`).

Sums and unions over sequences are recursive functions on their positions. The
library's induction theorems do not apply (their operator parameters cannot be
instantiated), so `Counting` states induction over a set of numbers, from the least
element of what is outside it, and `SumsDef`, `MergingDef` and `LengthsDef` show that
each function is what it is written as.

`Raviente_proofs` proves `RoomsInv`, `RecordsInv`, `CompletedWereKilled`, the
refinement `RunsRecordedOnce`, and `HistoryInv` with `HistoryAgrees`. The table alone implements nothing: that a start
is `Begin` or `Supersede` needs that what the tracker believes recorded is in
the table (`RecordedIsKnown`), that one row is active (`OneActive`) and that
rows of the present generation come from no later one (`RowsAreOld`); that an
observation is `Join` and a completion `Finish` needs `RunHasItsRow`; and
`CallsAreDue` ties the operations waiting in `calls` to the generation that
caused them. `HistoryIsKept` maps every step.

`HistoryAgrees` is about the moments at which `ravienteLifecycleMu` is free and no
statement has failed. Between them the table lags behind the registers, so
`HistoryInv` says what is missing and that a call for it is waiting: a start
(`StartIsDue`), the end of a run of an older generation (`RunIsDue`), the result of a
kill (`ResultIsDue`). A start is the first call of its section (`Ordered`); so a kill
that is reported finds its row, even if the packet that killed also started.
`Synced` is what failures break: the tracker's run and the one active row agree on
kind and team, hence a completion and an abort of the empty team write down
what was fought.

`TimersStartTheirSiege` proves `OnlyTheTimersSiege`. The ticker reads the room and the
registers under different locks and then waits for `ravienteLifecycleMu`; meanwhile the
room may close and another gather. `TimerAwaited` says that the timer it found due is
still its own, of the generation it has read, and `Fire` compares that generation with
the present one.

`CharacterSaves_proofs` proves `SavesInv` and `ReceiptsMatchInventory`. `Fits`
says: everything read at the current generation, in a handler, in the blob or in
a backup, agrees with the claimed receipts. Any change of the claims advances the
generation, so everything read before stops being current and is refused by the
comparison in the commit. `ClaimsStaged` and `SentFits` say the same of the
client's own save, `LockHeld` gives `NothingBetween`: between a load and a store
of a channel only the handlers that take no lock write.

`QuestDepartures_proofs` proves `DepartureInv` inductive for any hunters, places,
quests and number of trips, and from it `PartyLicensed`, `DeparturesCounted` and
the action property `OnlyUnlicensedRejected`. The parts of `DepartureInv`, each
needed by the next:

* `LocksHeld`: a setup that is judged and an admission that is stamped hold the
  lock of their place, one of them at a time. So a party grows only where no setup
  is being judged.
* `Whereabouts`: a transfer holds the departure of the stage it goes to, and a
  member of a party is where the party is, or on its way there. Not conversely, and
  a logout keeps it: `Session.stage` is cleared only under `lifecycleMu`.
* `RightsSound`: what was read about a right was true when it was observed
  (purchases come later than every observation), and a departure or receipt with a
  quest was allowed it. The two compare-and-swaps need it of the departure they
  expect (`ReadSound`).
* `PartiesLicensed`: while a setup is judged, every member is still to be judged,
  away, hunting its quest, or the one whose departure is about to be signed;
  when it is stored nobody else is left. That is why a newly stored quest is
  hunted only by hunters that were entitled to it.
* `RefusalsRight`: a pair of hunter and departure on a setup's list had no right
  to the quest, for ever, since a departure says when it was made. A hunter that
  is admitted and open but in no party is on such a list, so it is not forgotten.
  Of a closed hunter nothing of the kind holds: its logout takes it out of the
  parties without waiting for its transfer.
* `TripsOnce`: the number of a trip is waiting in `pending`, or due in one
  handler, or counted, never two of them; `TripsAccounted`: of a hunter in a stage it
  is one of them, and a waiting one is waited for by a handler whenever the
  stage has a setup.

`EveryDepartureCounted` uses the last two with all handlers idle;
`OnlyTheUnlicensedLeave` follows from `RefusalsRight` before the step.

Assumptions are the named `ASSUME`s of the modules: types of the constants and
that the null values are not elements. TLC evaluates them in every run.

Only model-checked: the liveness properties (fairness is out of the prover's
reach), and of the stages `NobodyInOrphans` where admissions may be refused.

## 6. Not modelled

* Stages: objects, binaries, `EnumerateStage`, broadcasts. A second reservation
  that overwrites `reservationStage` (`handlers_stage.go:716`), a host handed a
  stage above his limit, and `ReserveStage` comparing only the slots with
  `maxPlayers` (`handlers_stage.go:703`) are in the model, but no property is about them.
* Login: two simultaneous logins of an account may both be refused, and a
  failing `GetUserID` leaves a session with `charID` and no user
  (`handlers_session.go:129`); the guard's promise is not broken by either.
* Siege: the server counts every `hs_l0...3` room as a siege's, the model has one
  (`Canon`); the wrap of the 16-bit generation; monster and support registers, resurrection and sedation timers, the
  damage multiplier, notifications.
* Coins: the deletion of stale `sign_sessions` before the recovery (`main.go:290`),
  item deliveries, `ProxyPort`, accounts without sign sessions, the
  cafe's settlement, chat lines, overflow of a balance.
* Saves: the layout of the blob, repairs of name and theme, house columns, and
  the tower, Diva and Pallone receipts, which are committed with the blob but
  fence nothing. It is assumed that a client queues a claim before the save that
  carries it and does nothing while it loads.
  `char_save_locks.go:5-7` says that every path serialises on the lock, the
  three handlers named above do not; with the generation fence the starter
  items survive that, other derived columns may be overwritten.
* Quests: Return quests, the delivery schedule, weapon classes, the tower,
  Pallone and Diva parts of a departure, the licence catalogue; supply
  reservations, which nothing in the running server calls.
* The network codec, quest and scenario formats, catalogs and tables (most of
  the repository's lines: generated tables and formats), and handlers that only
  load and store rows: data conversion or single SQL transactions, which
  the repository's tests reach. The sign, entrance and API servers keep no shared state
  beyond the database.

## 7. Plan

Done, in this order: `StageLifecycle`, `WorldRotation`, `LoginGuard`,
`ServerDrain` and their proofs; `SessionWorkers`; `Semaphores`, `RunTracker`,
`RunRecords` and `Raviente` with the refinement; `CoinSessions` against
`CoinLedger`; `DailyCoins`; `CharacterSaves`; `QuestDepartures`.

Left, by what they would add:

1. A hosting run with three stage IDs: the hosted-stage limit is checked before
   `lifecycleMu` and the creation (`handlers_stage.go:108, 147`).
2. The support registers and timers of the siege.
3. The tower, Diva and Pallone receipts next to the starter receipts.
4. The delivery schedule, and stage binaries with `EnumerateStage`.
