-------------------------- MODULE QuestDepartures --------------------------
(* Who may hunt what (quest_access_gameplay.go, quest_delivery_departure.go, *)
(* the quest part of doStageTransfer and of handleMsgSysSetStageBinary in    *)
(* handlers_stage.go, quest_runtime_mode.go).  A right to a quest is read    *)
(* before the transfer takes any lock, pinned when the hunter is admitted to *)
(* the stage, and judged at the time of the admission whenever the host's    *)
(* setup says which quest it is: at once, or later, in the host's handler,   *)
(* under the stage lock but against other hunters' transfers.  Pointers of   *)
(* departures are compared, so a departure carries the number of the trip.   *)
(* Licences are enabled and the client is ZZ.                                *)
EXTENDS Integers

CONSTANTS
    Hunter,         \* sessions of the channel
    Place,          \* *Stage values of quest stages
    PlaceId,        \* their IDs
    placeIdOf,
    QuestId,
    Protected,      \* QuestAccessGameplay.required
    legacyEnd,      \* hunter -> quest -> legacyExpiry, 0 if there is none
    closesAt,       \* quest -> the end of its publication (questDelivery)
    Town, NoPlace, NoQuest, Nothing,
    Malformed,      \* a setup that does not decode
    MaxTime,        \* bound: the last moment
    MaxRequests     \* bound: hunter -> packets it sends

VARIABLES
    time,
    bought,     \* quest_licenses: hunter -> quest -> when, later than MaxTime if never
    onMap,      \* StageMap: ID -> place or NoPlace
    opened,     \* places that have been created
    locked,     \* places whose lock a handler holds across steps
    party,      \* Stage.clients
    setup,      \* Stage.rawBinaryData[{1, 3}]: a quest or NoQuest
    where,      \* Session.stage
    departure,  \* Session.questDeliveryDeparture
    receipt,    \* Session.questDeliveryReceipt
    trip,       \* Session.questWeaponGeneration
    pending,    \* questWeaponPendingStage and -Generation: [id, trip] or Nothing
    counted,    \* history: calls of RecordQuestDeparture for each trip
    task,       \* where the session's handler is, with its locals
    gone,       \* Session.closed
    logout,     \* how far the logout of a closed session is
    requests    \* packets sent

stageData == <<onMap, opened, locked, party, setup>>
pinned == <<departure, receipt>>
usage == <<trip, pending, counted>>
departureVars == <<time, bought, stageData, where, pinned, usage, task, gone, logout,
                   requests>>

ASSUME DepartureAssumption ==
    /\ placeIdOf \in [Place -> PlaceId] /\ Protected \subseteq QuestId
    /\ MaxTime \in Nat /\ MaxRequests \in [Hunter -> Nat]
    /\ legacyEnd \in [Hunter -> [Protected -> Nat]] /\ closesAt \in [QuestId -> Nat]
    /\ Town \notin Place \cup PlaceId /\ NoPlace \notin Place \cup {Town}
    /\ NoQuest \notin QuestId /\ Malformed \notin QuestId \cup {NoQuest}

-----------------------------------------------------------------------------
(* What the session and the handlers hold.                                   *)

Access == [at : Nat, owned : SUBSET Protected]
Departure == [place : Place, at : Nat, quest : QuestId \cup {NoQuest},
              access : Access, trip : Nat]
SaveRight == [at : Nat, quest : QuestId \cup {NoQuest}, access : Access, trip : Nat]
Entry == [id : PlaceId, trip : Nat]

\* The null pointer is none of them.
ASSUME NothingAssumption == Nothing \notin Access \cup Departure \cup SaveRight \cup Entry

Idle == [at |-> "idle"]

Reading == [at : {"read"}, to : PlaceId]
Issuing == [at : {"issue"}, to : PlaceId, owned : SUBSET Protected]
Entering == [at : {"enter"}, to : PlaceId \cup {Town}, access : Access \cup {Nothing}]
Stamping == [at : {"stamp"}, to : Place, fresh : {TRUE}]
Moving == [at : {"leave", "arrive"}, to : Place \cup {Town}, fresh : BOOLEAN]
Refusals == SUBSET (Hunter \X (Departure \cup {Nothing}))
Judging == [at : {"judge"}, place : Place, quest : QuestId \cup {Malformed},
            todo : SUBSET Hunter, rejected : Refusals]
Validating == [at : {"validate", "countersign"}, who : Hunter, old : Departure, then : Judging]
Rejecting == [at : {"reject"}, place : Place, quest : QuestId \cup {Malformed},
              rejected : Refusals, clients : SUBSET Hunter, due : SUBSET (Hunter \X Nat)]
Counting == [at : {"count"}, due : SUBSET (Hunter \X Nat)]

Task == {Idle} \cup Reading \cup Issuing \cup Entering \cup Stamping \cup Moving
        \cup Judging \cup Validating \cup Rejecting \cup Counting

DepartureTypeOK ==
    /\ time \in Nat /\ bought \in [Hunter -> [Protected -> Nat]]
    /\ onMap \in [PlaceId -> Place \cup {NoPlace}] /\ opened \subseteq Place
    /\ locked \subseteq Place /\ party \in [Place -> SUBSET Hunter]
    /\ setup \in [Place -> QuestId \cup {NoQuest}]
    /\ where \in [Hunter -> Place \cup {Town, NoPlace}]
    /\ departure \in [Hunter -> Departure \cup {Nothing}]
    /\ receipt \in [Hunter -> SaveRight \cup {Nothing}]
    /\ trip \in [Hunter -> Nat] /\ pending \in [Hunter -> Entry \cup {Nothing}]
    /\ DOMAIN counted = Hunter
    /\ \A h \in Hunter : counted[h] \in [1 .. MaxRequests[h] -> Nat]
    /\ task \in [Hunter -> Task] /\ gone \subseteq Hunter
    /\ logout \in [Hunter -> {"leaving", "finalizing", "over"}]
    /\ requests \in [Hunter -> Nat] /\ \A h \in Hunter : requests[h] <= MaxRequests[h]

DepartureInit ==
    /\ time = 0 /\ bought = [h \in Hunter |-> [q \in Protected |-> MaxTime + 1]]
    /\ onMap = [i \in PlaceId |-> NoPlace] /\ opened = {} /\ locked = {}
    /\ party = [p \in Place |-> {}] /\ setup = [p \in Place |-> NoQuest]
    /\ where = [h \in Hunter |-> Town] /\ gone = {} /\ logout = [h \in Hunter |-> "leaving"]
    /\ departure = [h \in Hunter |-> Nothing] /\ receipt = [h \in Hunter |-> Nothing]
    /\ trip = [h \in Hunter |-> 0] /\ pending = [h \in Hunter |-> Nothing]
    /\ counted = [h \in Hunter |-> [n \in 1 .. MaxRequests[h] |-> 0]]
    /\ task = [h \in Hunter |-> Idle] /\ requests = [h \in Hunter |-> 0]

Doing(h, step) == task[h].at = step
Proceed(h, next) == task' = [task EXCEPT ![h] = next]

\* lifecycleMu is held by the hunter's own transfer.
Travelling(h) == task[h].at \in {"stamp", "leave", "arrive"}

\* A packet is handled only while the session is open.
Take(h) == /\ Doing(h, "idle") /\ h \notin gone /\ requests[h] < MaxRequests[h]
             /\ requests' = [requests EXCEPT ![h] = @ + 1]

-----------------------------------------------------------------------------
(* Rights.                                                                   *)

\* QuestAccessSnapshot.Allows: nothing before it was observed.
AccessAllows(h, q, access, at) ==
    /\ access # Nothing /\ access.at <= at
    /\ q \in access.owned \/ at < legacyEnd[h][q]

\* allowsQuestDelivery and allowsQuestAccessSnapshot
Allowed(h, q, access, at) ==
    /\ at < closesAt[q]
    /\ q \in Protected => AccessAllows(h, q, access, at)

Tick == /\ time < MaxTime /\ time' = time + 1
        /\ UNCHANGED <<bought, stageData, where, pinned, usage, task, gone, logout, requests>>

\* A purchase falls between two moments.
Buy(h, q) ==
    /\ time < MaxTime /\ bought[h][q] > time
    /\ time' = time + 1 /\ bought' = [bought EXCEPT ![h][q] = time']
    /\ UNCHANGED <<stageData, where, pinned, usage, task, gone, logout, requests>>

-----------------------------------------------------------------------------
(* doStageTransfer                                                           *)

\* prepareQuestAccessAdmission: no new right is read for the stage the hunter
\* is admitted to already.
SetOut(h, to) ==
    /\ Take(h)
    /\ LET known == to = Town \/ (departure[h] # Nothing /\ placeIdOf[departure[h].place] = to)
       IN Proceed(h, IF known THEN [at |-> "enter", to |-> to, access |-> Nothing]
                  ELSE [at |-> "read", to |-> to])
    /\ UNCHANGED <<time, bought, stageData, where, pinned, usage, gone, logout>>

\* Load reads what the account owns; if that fails, nothing is owned; if more
\* fails, the transfer is refused.
ReadAccess(h) ==
    /\ Doing(h, "read")
    /\ \/ \E owned \in {{q \in Protected : bought[h][q] <= time}, {}} :
            Proceed(h, [at |-> "issue", to |-> task[h].to, owned |-> owned])
       \/ Proceed(h, Idle)
    /\ UNCHANGED <<time, bought, stageData, where, pinned, usage, gone, logout, requests>>

\* observedAt is the time after the evidence has been read.
IssueAccess(h) ==
    /\ Doing(h, "issue")
    /\ Proceed(h, [at |-> "enter", to |-> task[h].to,
                access |-> [at |-> time, owned |-> task[h].owned]])
    /\ UNCHANGED <<time, bought, stageData, where, pinned, usage, gone, logout, requests>>

Refused(h) ==
    /\ Doing(h, "enter") /\ h \in gone
    /\ Proceed(h, Idle)
    /\ UNCHANGED <<time, bought, stageData, where, pinned, usage, gone, logout, requests>>

EnterTown(h) ==
    /\ Doing(h, "enter") /\ task[h].to = Town /\ h \notin gone
    /\ departure' = [departure EXCEPT ![h] = Nothing]
    /\ Proceed(h, [at |-> "leave", to |-> Town, fresh |-> FALSE])
    /\ UNCHANGED <<time, bought, stageData, where, receipt, usage, gone, logout, requests>>

\* GetOrCreate: the place the hunter finds under an ID, or makes.
Found(i, p) == IF onMap[i] = NoPlace THEN placeIdOf[p] = i /\ p \notin opened ELSE onMap[i] = p

Stays(h, p) == h \in party[p] /\ departure[h] # Nothing /\ departure[h].place = p

\* A skipped reading of rights admits nobody to another run; a known setup is
\* judged now.
Admits(h, p, access) ==
    access # Nothing /\ (setup[p] # NoQuest => Allowed(h, setup[p], access, time))

\* admitQuestDeliveryLocked and the join, under lifecycleMu and the stage lock;
\* the receipt is stored after the departure.
EnterQuest(h, p) ==
    /\ Doing(h, "enter") /\ task[h].to \in PlaceId /\ h \notin gone
    /\ Found(task[h].to, p) /\ p \notin locked
    /\ \/ /\ Stays(h, p)
          /\ Proceed(h, [at |-> "leave", to |-> p, fresh |-> FALSE])
          /\ UNCHANGED <<onMap, opened, locked, departure>>
       \/ /\ ~Stays(h, p) /\ ~Admits(h, p, task[h].access)
          /\ Proceed(h, Idle)
          /\ UNCHANGED <<onMap, opened, locked, departure>>
       \/ /\ ~Stays(h, p) /\ Admits(h, p, task[h].access)
          /\ onMap' = [onMap EXCEPT ![task[h].to] = p] /\ opened' = opened \cup {p}
          /\ locked' = locked \cup {p}
          /\ departure' = [departure EXCEPT ![h] =
                [place |-> p, at |-> time, quest |-> setup[p], access |-> task[h].access,
                 trip |-> trip[h] + 1]]
          /\ Proceed(h, [at |-> "stamp", to |-> p, fresh |-> h \notin party[p]])
    /\ UNCHANGED <<time, bought, party, setup, where, receipt, usage, gone, logout, requests>>

Receipt(d) == [at |-> d.at, quest |-> d.quest, access |-> d.access, trip |-> d.trip]

Stamp(h) ==
    /\ Doing(h, "stamp")
    /\ receipt' = [receipt EXCEPT ![h] = Receipt(departure[h])]
    /\ party' = [party EXCEPT ![task[h].to] = @ \cup {h}]
    /\ locked' = locked \ {task[h].to}
    /\ Proceed(h, [task[h] EXCEPT !.at = "leave"])
    /\ UNCHANGED <<time, bought, onMap, opened, setup, where, departure, usage,
                   gone, logout, requests>>

\* removeSessionFromStage with its sweeps, which take every stage's lock in turn:
\* the hunter leaves the place where it is, and empty places go, except those
\* that are new or hold reservations.
LeavePlace(h) ==
    /\ locked = {}
    /\ party' = [p \in Place |-> IF p = where[h] THEN party[p] \ {h} ELSE party[p]]
    /\ \E swept \in SUBSET {i \in PlaceId : onMap[i] # NoPlace} :
          /\ \A i \in swept : party'[onMap[i]] = {}
          /\ onMap' = [i \in PlaceId |-> IF i \in swept THEN NoPlace ELSE onMap[i]]

\* The old stage, if it is another one, and Session.stage.
Leave(h) ==
    /\ Doing(h, "leave")
    /\ \/ where[h] = task[h].to /\ UNCHANGED <<party, onMap>>
       \/ where[h] # task[h].to /\ LeavePlace(h)
    /\ where' = [where EXCEPT ![h] = task[h].to]
    /\ Proceed(h, [task[h] EXCEPT !.at = "arrive"])
    /\ UNCHANGED <<time, bought, opened, locked, setup, pinned, usage, gone, logout, requests>>

\* A first entry with a known setup is counted, another one waits for it.
Arrive(h) ==
    /\ Doing(h, "arrive") /\ where[h] \notin locked
    /\ LET p == where[h]
           fresh == task[h].fresh /\ p # Town
           known == fresh /\ setup[p] # NoQuest
           n == trip[h] + 1
       IN /\ trip' = [trip EXCEPT ![h] = IF fresh THEN n ELSE @]
          /\ pending' = [pending EXCEPT ![h] =
                IF p = Town \/ known THEN Nothing
                ELSE IF fresh THEN [id |-> placeIdOf[p], trip |-> n] ELSE @]
          /\ Proceed(h, IF known THEN [at |-> "count", due |-> {<<h, n>>}] ELSE Idle)
    /\ UNCHANGED <<time, bought, stageData, where, pinned, counted, gone, logout, requests>>

\* recordQuestWeaponDeparture, after every lock has been released.
Count(h) ==
    /\ Doing(h, "count")
    /\ counted' = [m \in Hunter |-> [n \in DOMAIN counted[m] |->
                     counted[m][n] + IF <<m, n>> \in task[h].due THEN 1 ELSE 0]]
    /\ Proceed(h, Idle)
    /\ UNCHANGED <<time, bought, stageData, where, pinned, trip, pending, gone, logout, requests>>

-----------------------------------------------------------------------------
(* handleMsgSysSetStageBinary with a quest setup                             *)

\* A running quest is not replaced by another one.
Conflicts(p, q) ==
    /\ q # Malformed
    /\ \/ setup[p] \notin {NoQuest, q} /\ party[p] # {}
       \/ \E m \in party[p] : /\ departure[m] # Nothing /\ departure[m].place = p
                              /\ departure[m].quest \notin {NoQuest, q}

SetSetup(h, i, q) ==
    /\ Take(h)
    /\ onMap[i] # NoPlace /\ onMap[i] \notin locked
    /\ LET p == onMap[i] IN
       \/ Conflicts(p, q) /\ UNCHANGED <<task, locked>>
       \/ /\ ~Conflicts(p, q)
          /\ locked' = locked \cup {p}
          /\ Proceed(h, [at |-> "judge", place |-> p, quest |-> q, todo |-> party[p],
                      rejected |-> {}])
    /\ UNCHANGED <<time, bought, onMap, opened, party, setup, where, pinned, usage, gone, logout>>

\* Who is on the way to another stage is nobody's business here.
Passes(m, p, q) ==
    /\ departure[m] # Nothing
    /\ \/ departure[m].place # p
       \/ departure[m].quest # NoQuest /\ q = Malformed

\* Mutant: the setup is judged by what the account owns now.
LawfulByNow(m, q) ==
    /\ q # Malformed /\ departure[m] # Nothing /\ departure[m].at < closesAt[q]
    /\ q \in Protected => (bought[m][q] <= time \/ departure[m].at < legacyEnd[m][q])

\* Every participant is judged as of its own admission.
Lawful(m, q) ==
    /\ q # Malformed /\ departure[m] # Nothing
    /\ Allowed(m, q, departure[m].access, departure[m].at)

Judge(h, m) ==
    /\ Doing(h, "judge") /\ m \in task[h].todo
    /\ LET p == task[h].place
           q == task[h].quest
           rest == [task[h] EXCEPT !.todo = @ \ {m}]
       IN \/ /\ Passes(m, p, q)
             /\ Proceed(h, rest) /\ UNCHANGED party
          \/ /\ ~Passes(m, p, q) /\ ~Lawful(m, q)
             /\ Proceed(h, [rest EXCEPT !.rejected = @ \cup {<<m, departure[m]>>}])
             /\ party' = [party EXCEPT ![p] = @ \ {m}]
          \/ /\ ~Passes(m, p, q) /\ Lawful(m, q)
             /\ Proceed(h, IF departure[m].quest = NoQuest
                        THEN [at |-> "validate", who |-> m, old |-> departure[m], then |-> rest]
                        ELSE rest)
             /\ UNCHANGED party
    /\ UNCHANGED <<time, bought, onMap, opened, locked, setup, where, pinned, usage,
                   gone, logout, requests>>

\* Two compare-and-swaps: the hunter may be leaving meanwhile.
Validate(h) ==
    /\ Doing(h, "validate")
    /\ LET m == task[h].who IN
       \/ /\ departure[m] = task[h].old
          /\ departure' = [departure EXCEPT ![m].quest = task[h].then.quest]
          /\ Proceed(h, [task[h] EXCEPT !.at = "countersign"])
       \/ /\ departure[m] # task[h].old
          /\ Proceed(h, task[h].then) /\ UNCHANGED departure
    /\ UNCHANGED <<time, bought, stageData, where, receipt, usage, gone, logout, requests>>

Countersign(h) ==
    /\ Doing(h, "countersign")
    /\ LET m == task[h].who IN
       receipt' = [receipt EXCEPT ![m] = IF @ = Receipt(task[h].old)
                                         THEN [@ EXCEPT !.quest = task[h].then.quest] ELSE @]
    /\ Proceed(h, task[h].then)
    /\ UNCHANGED <<time, bought, stageData, where, departure, usage, gone, logout, requests>>

\* A setup that decodes is stored, and those inside will be armed.
Store(h) ==
    /\ Doing(h, "judge") /\ task[h].todo = {}
    /\ LET p == task[h].place
           good == task[h].quest # Malformed
       IN /\ setup' = IF good THEN [setup EXCEPT ![p] = task[h].quest] ELSE setup
          /\ locked' = locked \ {p}
          /\ Proceed(h, [at |-> "reject", place |-> p, quest |-> task[h].quest,
                      rejected |-> task[h].rejected, due |-> {},
                      clients |-> IF good THEN party[p] ELSE {}])
    /\ UNCHANGED <<time, bought, onMap, opened, party, where, pinned, usage,
                   gone, logout, requests>>

\* Mutant: whoever is in the stage now.
StillInStage(m, old, p) == where[m] = p

\* rejectQuestDeliveryDepartures: the same departure, and still in the stage.
StillThere(m, old, p) == departure[m] = old /\ where[m] = p

Reject(h, m, old) ==
    /\ Doing(h, "reject") /\ <<m, old>> \in task[h].rejected
    /\ ~Travelling(m)
    /\ \/ /\ StillThere(m, old, task[h].place)
          /\ gone' = gone \cup {m}
          /\ departure' = [departure EXCEPT ![m] = Nothing]
          /\ trip' = [trip EXCEPT ![m] = @ + 1] /\ pending' = [pending EXCEPT ![m] = Nothing]
          /\ LeavePlace(m) /\ where' = [where EXCEPT ![m] = NoPlace]
       \/ /\ ~StillThere(m, old, task[h].place)
          /\ UNCHANGED <<gone, departure, trip, pending, party, onMap, where>>
    /\ Proceed(h, [task[h] EXCEPT !.rejected = @ \ {<<m, old>>}])
    /\ UNCHANGED <<time, bought, opened, locked, setup, receipt, counted, logout,
                   requests>>

\* armPendingQuestWeaponDeparture: the hunter's first entry into a stage of this ID
\* has waited for its setup.
Waiting(m, p) == m \notin gone /\ pending[m] # Nothing /\ pending[m].id = placeIdOf[p]

\* Mutant: an armed entry keeps waiting.
KeptWaiting(m, p) == pending

PendingAfter(m, p) == IF Waiting(m, p) THEN [pending EXCEPT ![m] = Nothing] ELSE pending

\* It takes the hunter's lifecycleMu.
Arm(h, m) ==
    /\ Doing(h, "reject") /\ task[h].rejected = {} /\ m \in task[h].clients /\ ~Travelling(m)
    /\ LET p == task[h].place IN
       /\ pending' = PendingAfter(m, p)
       /\ Proceed(h, [task[h] EXCEPT
                        !.clients = @ \ {m},
                        !.due = @ \cup IF Waiting(m, p) THEN {<<m, pending[m].trip>>} ELSE {}])
    /\ UNCHANGED <<time, bought, stageData, where, pinned, trip, counted, gone, logout, requests>>

Armed(h) ==
    /\ Doing(h, "reject") /\ task[h].rejected = {} /\ task[h].clients = {}
    /\ Proceed(h, [at |-> "count", due |-> task[h].due])
    /\ UNCHANGED <<time, bought, stageData, where, pinned, usage, gone, logout, requests>>

-----------------------------------------------------------------------------
(* Around the handlers.                                                      *)

\* The idle timeout or the client closes the session.
Disconnect(h) ==
    /\ h \notin gone /\ gone' = gone \cup {h}
    /\ UNCHANGED <<time, bought, stageData, where, pinned, usage, task, logout, requests>>

\* logoutPlayerOnce goes over the stages, each under its own lock only: the hunter may
\* be in the middle of a transfer, and join the next stage meanwhile.
DropOut(h, i) ==
    /\ h \in gone /\ logout[h] = "leaving"
    /\ onMap[i] # NoPlace /\ onMap[i] \notin locked /\ h \in party[onMap[i]]
    /\ party' = [party EXCEPT ![onMap[i]] = @ \ {h}]
    /\ UNCHANGED <<time, bought, onMap, opened, locked, setup, where, pinned, usage, task,
                   gone, logout, requests>>

\* It ends with removeSessionFromStage, still without lifecycleMu; a phase that
\* panics before leaves that out.
QuitPlace(h) ==
    /\ h \in gone /\ logout[h] = "leaving"
    /\ LeavePlace(h) \/ UNCHANGED <<party, onMap>>
    /\ logout' = [logout EXCEPT ![h] = "finalizing"]
    /\ UNCHANGED <<time, bought, opened, locked, setup, where, pinned, usage, task, gone,
                   requests>>

\* finalizeRuntimeLogout, from here on under lifecycleMu: one stage, which may go.
ClearPlace(h, i) ==
    /\ h \in gone /\ logout[h] = "finalizing" /\ ~Travelling(h)
    /\ onMap[i] # NoPlace /\ onMap[i] \notin locked
    /\ party' = [party EXCEPT ![onMap[i]] = @ \ {h}]
    /\ \/ UNCHANGED onMap
       \/ party'[onMap[i]] = {} /\ onMap' = [onMap EXCEPT ![i] = NoPlace]
    /\ UNCHANGED <<time, bought, opened, locked, setup, where, pinned, usage, task, gone,
                   logout, requests>>

\* Mutant: the finalizer does not wait for the transfer.
LogOutInFlight(h) ==
    /\ h \in gone /\ logout[h] = "finalizing"
    /\ \A p \in Place : h \notin party[p]
    /\ where' = [where EXCEPT ![h] = NoPlace]
    /\ logout' = [logout EXCEPT ![h] = "over"]
    /\ UNCHANGED <<time, bought, stageData, pinned, usage, task, gone, requests>>

\* All stages are behind it: Session.stage.
LogOut(h) ==
    /\ h \in gone /\ logout[h] = "finalizing" /\ ~Travelling(h)
    /\ \A p \in Place : h \notin party[p]
    /\ where' = [where EXCEPT ![h] = NoPlace]
    /\ logout' = [logout EXCEPT ![h] = "over"]
    /\ UNCHANGED <<time, bought, stageData, pinned, usage, task, gone, requests>>

Departing(h) ==
    \/ Disconnect(h) \/ QuitPlace(h) \/ LogOut(h)
    \/ \E i \in PlaceId : DropOut(h, i) \/ ClearPlace(h, i)

Journey(h) ==
    \/ ReadAccess(h) \/ IssueAccess(h) \/ Refused(h) \/ EnterTown(h)
    \/ \E p \in Place : EnterQuest(h, p)
    \/ Stamp(h) \/ Leave(h) \/ Arrive(h) \/ Count(h)

Setup(h) ==
    \/ \E m \in Hunter : Judge(h, m) \/ Arm(h, m)
    \/ Validate(h) \/ Countersign(h) \/ Store(h) \/ Armed(h)
    \/ \E pair \in IF Doing(h, "reject") THEN task[h].rejected ELSE {} : Reject(h, pair[1], pair[2])

DepartureNext ==
    \/ Tick
    \/ \E h \in Hunter :
         \/ \E q \in Protected : Buy(h, q)
         \/ \E to \in PlaceId \cup {Town} : SetOut(h, to)
         \/ \E i \in PlaceId, q \in QuestId \cup {Malformed} : SetSetup(h, i, q)
         \/ Journey(h) \/ Setup(h) \/ Departing(h)

DepartureSpec == DepartureInit /\ [][DepartureNext]_departureVars

-----------------------------------------------------------------------------
(* Properties.                                                               *)

\* The right there really was at that moment.
Entitled(h, q, t) ==
    /\ t < closesAt[q]
    /\ q \in Protected => (bought[h][q] <= t \/ t < legacyEnd[h][q])

\* allowsQuestDeliverySave
SaveAllowed(h) ==
    receipt[h] # Nothing =>
        /\ receipt[h].quest # NoQuest
        /\ receipt[h].quest \in Protected =>
             AccessAllows(h, receipt[h].quest, receipt[h].access, receipt[h].at)

\* quest_access_gameplay.go:138, "A newly bought right can never repair an older
\* unlicensed entry": whoever hunts in a stage, or has its save accepted after a
\* hunt, had the right to that quest when it was admitted; only a hunter on its
\* way out may be found in a stage it is not admitted to.
PartyLicensed ==
    /\ \A p \in Place \ locked : setup[p] # NoQuest =>
         \A h \in party[p] :
            \/ Travelling(h) /\ (departure[h] # Nothing => departure[h].place # p)
            \/ /\ departure[h] # Nothing /\ departure[h].place = p
               /\ departure[h].quest = setup[p]
               /\ Entitled(h, setup[p], departure[h].at)
    /\ \A h \in Hunter : receipt[h] # Nothing /\ SaveAllowed(h) =>
         Entitled(h, receipt[h].quest, receipt[h].at)

\* "the pointer identity prevents closing a later successful transfer"
\* (quest_delivery_departure.go:219): a setup disconnects nobody but hunters who
\* wait in its stage for a quest and had no right to it.
OnlyUnlicensedRejected ==
    [][\A m \in gone' \ gone : where'[m] # where[m] =>
          /\ departure[m] # Nothing /\ departure[m].place = where[m]
          /\ departure[m].quest = NoQuest
          /\ \E h \in Hunter :
               /\ Doing(h, "reject") /\ task[h].place = where[m]
               /\ \/ task[h].quest = Malformed
                  \/ ~Entitled(m, task[h].quest, departure[m].at)
                  \/ /\ task[h].quest \in Protected
                     /\ ~AccessAllows(m, task[h].quest, departure[m].access, departure[m].at)
         ]_departureVars

\* quest_runtime_mode.go:209, "counts one authenticated hunter entering a quest":
\* no trip is counted twice, and none is forgotten whether the setup came before
\* or after the hunter.
DeparturesCounted ==
    /\ \A h \in Hunter : \A n \in DOMAIN counted[h] : counted[h][n] <= 1
    /\ (\A h \in Hunter : Doing(h, "idle")) =>
         \A h \in Hunter \ gone :
            where[h] \in Place /\ setup[where[h]] # NoQuest => counted[h][trip[h]] = 1

-----------------------------------------------------------------------------
(* The inductive invariant.                                                  *)

\* A setup is under way at p: the handler holds the lock of the place.
InJudgement(h) == task[h].at \in {"judge", "validate", "countersign"}
Ruling(h) == IF task[h].at \in {"judge", "reject"} THEN task[h] ELSE task[h].then
Judges(h, p) == InJudgement(h) /\ Ruling(h).place = p
Holds(h, p) == Judges(h, p) \/ (Doing(h, "stamp") /\ task[h].to = p)

LocksHeld ==
    \A h \in Hunter, p \in Place : Holds(h, p) =>
        p \in locked /\ \A g \in Hunter : Holds(g, p) => g = h

\* A hunter on the way to p holds the departure of p; one that has arrived is in no
\* other place's party.
OnTheWay(h) ==
    LET p == task[h].to IN
    /\ IF p = Town THEN departure[h] = Nothing
       ELSE departure[h] # Nothing /\ departure[h].place = p
    /\ Doing(h, "arrive") => where[h] = p
    /\ p # Town /\ ~task[h].fresh => where[h] = p

Whereabouts ==
    /\ \A h \in Hunter, p \in Place :
         h \in party[p] => where[h] = p \/ (Doing(h, "leave") /\ task[h].to = p)
    /\ \A h \in Hunter :
         IF Travelling(h) THEN OnTheWay(h)
         ELSE where[h] \in Place =>
                 departure[h] # Nothing /\ departure[h].place = where[h]

\* A right that was read was there, and a known quest was judged by it.
Sound(h, access) ==
    access.at <= time /\ \A q \in access.owned : bought[h][q] <= access.at

Cleared(h, d) ==
    /\ d.at <= time /\ Sound(h, d.access)
    /\ d.quest # NoQuest => Allowed(h, d.quest, d.access, d.at)

PinnedSound(h) ==
    /\ departure[h] # Nothing => Cleared(h, departure[h])
    /\ receipt[h] # Nothing => Cleared(h, receipt[h])

ReadSound(h) ==
    /\ Doing(h, "issue") => \A q \in task[h].owned : bought[h][q] <= time
    /\ Doing(h, "enter") /\ task[h].access # Nothing => Sound(h, task[h].access)
    /\ task[h].at \in {"validate", "countersign"} =>
          /\ task[h].old.place = Ruling(h).place /\ task[h].old.quest = NoQuest
          /\ Cleared(task[h].who, [task[h].old EXCEPT !.quest = Ruling(h).quest])
          /\ Ruling(h).quest # Malformed

RightsSound == \A h \in Hunter : PinnedSound(h) /\ ReadSound(h)

Away(m, p) == Travelling(m) /\ (departure[m] # Nothing => departure[m].place # p)
Hunts(m, p, q) == departure[m] # Nothing /\ departure[m].place = p /\ departure[m].quest = q

\* While a setup is judged: who has been judged is away or hunts its quest, but for
\* the one whose departure is about to be changed.
SetupJudged(h) ==
    LET r == Ruling(h)
        p == r.place
    IN /\ r.todo \subseteq party[p]
       /\ Doing(h, "validate") => task[h].who \in party[p]
       /\ r.quest # Malformed =>
             /\ setup[p] \notin {NoQuest, r.quest} => party[p] = {}
             /\ \A m \in party[p] : Away(m, p) \/ Hunts(m, p, r.quest) \/ Hunts(m, p, NoQuest)
             /\ \A m \in party[p] \ r.todo :
                   \/ Away(m, p) \/ Hunts(m, p, r.quest)
                   \/ Doing(h, "validate") /\ task[h].who = m /\ departure[m] = task[h].old

\* A member of p hunts what p is set up for, or is on its way out; a hunter that is
\* being admitted will.
PartiesLicensed ==
    /\ \A h \in Hunter : Doing(h, "stamp") => departure[h].quest = setup[task[h].to]
    /\ \A p \in Place : setup[p] # NoQuest =>
          \A m \in party[p] : Away(m, p) \/ Hunts(m, p, setup[p])
    /\ \A h \in Hunter : InJudgement(h) => SetupJudged(h)

\* Whoever a setup will disconnect had no right to it, and a hunter that has
\* been admitted is in the party of its place unless a setup has refused it, or its
\* logout, which does not wait for a transfer, has taken it out.
Refusing(g) == InJudgement(g) \/ Doing(g, "reject")
Refuses(g, h, p) ==
    Refusing(g) /\ Ruling(g).place = p /\ <<h, departure[h]>> \in Ruling(g).rejected

RefusedRightly(g) ==
    \A pair \in Ruling(g).rejected :
       LET d == pair[2] IN d # Nothing =>
          /\ d.place = Ruling(g).place /\ d.quest = NoQuest
          /\ Ruling(g).quest # Malformed => ~Allowed(pair[1], Ruling(g).quest, d.access, d.at)

Admitted(h, p) ==
    IF Travelling(h) THEN ~Doing(h, "stamp") /\ task[h].to = p ELSE where[h] = p

RefusalsRight ==
    /\ \A h \in Hunter : Refusing(h) => RefusedRightly(h)
    /\ \A h \in Hunter \ gone, p \in Place : Admitted(h, p) =>
          h \in party[p] \/ \E g \in Hunter : Refuses(g, h, p)

\* A trip is waiting for its setup, or due to be counted, or counted: one of them.
Due(g) == IF task[g].at \in {"reject", "count"} THEN task[g].due ELSE {}
Unspent(h, n) == n \in DOMAIN counted[h] => counted[h][n] = 0

TripsOnce ==
    /\ \A h \in Hunter : pending[h] # Nothing =>
          /\ pending[h].trip \in 1 .. trip[h] /\ Unspent(h, pending[h].trip)
          /\ \A g \in Hunter : <<h, pending[h].trip>> \notin Due(g)
    /\ \A g \in Hunter : \A entry \in Due(g) :
          /\ entry[2] \in 1 .. trip[entry[1]] /\ Unspent(entry[1], entry[2])
          /\ \A other \in Hunter : entry \in Due(other) => other = g
    /\ \A h \in Hunter : \A n \in DOMAIN counted[h] :
          counted[h][n] <= 1 /\ (n > trip[h] => counted[h][n] = 0)

\* A hunter that stays in a place: its trip is accounted for.
Rests(h) == where[h] \in Place /\ (Travelling(h) => ~task[h].fresh /\ task[h].to = where[h])

Awaited(h) ==
    /\ pending[h] # Nothing
    /\ pending[h].trip = trip[h] /\ pending[h].id = placeIdOf[where[h]]
    /\ \/ setup[where[h]] = NoQuest
       \/ \E g \in Hunter : /\ Doing(g, "reject") /\ task[g].place = where[h]
                            /\ h \in task[g].clients \/ Refuses(g, h, where[h])

\* The packet that is handled may become a trip.
Underway(h) == task[h].at \in {"read", "issue", "enter", "stamp", "leave", "arrive"}

TripsAccounted ==
    /\ \A h \in Hunter \ gone : Rests(h) =>
          \/ trip[h] \in DOMAIN counted[h] /\ counted[h][trip[h]] = 1
          \/ \E g \in Hunter : <<h, trip[h]>> \in Due(g)
          \/ Awaited(h)
    /\ \A h \in Hunter : h \notin gone \/ Travelling(h) =>
          trip[h] + (IF Underway(h) THEN 1 ELSE 0) <= requests[h]

DepartureInv ==
    /\ DepartureTypeOK /\ LocksHeld /\ Whereabouts /\ RightsSound
    /\ PartiesLicensed /\ RefusalsRight /\ TripsOnce /\ TripsAccounted
=============================================================================
