---------------------- MODULE QuestDepartures_proofs ----------------------
(* DepartureInv is inductive, and from it: whoever hunts was entitled to the  *)
(* quest when it was admitted, every trip is counted exactly once, and a      *)
(* setup disconnects only hunters that had no right to it.                    *)
(* First the types, action by action; then what each part of the invariant    *)
(* needs of a step that does not disturb it (...Frame, ...Move); then the     *)
(* whole invariant, action by action (...Inv); then the theorems.             *)
EXTENDS QuestDepartures, TLAPS

USE DepartureAssumption, NothingAssumption

\* A task is what its step says it is.
LEMMA Kinds ==
    ASSUME NEW t \in Task
    PROVE  /\ t.at = "read" => t \in Reading
           /\ t.at = "issue" => t \in Issuing
           /\ t.at = "enter" => t \in Entering
           /\ t.at = "stamp" => t \in Stamping
           /\ t.at \in {"leave", "arrive"} => t \in Moving
           /\ t.at = "judge" => t \in Judging
           /\ t.at \in {"validate", "countersign"} => t \in Validating
           /\ t.at = "reject" => t \in Rejecting
           /\ t.at = "count" => t \in Counting
           /\ t.at \in {"idle", "read", "issue", "enter", "stamp", "leave", "arrive",
                        "judge", "validate", "countersign", "reject", "count"}
<1> USE DEF Idle, Reading, Issuing, Entering, Stamping, Moving, Judging, Validating,
            Rejecting, Counting
<1>1. CASE t = Idle
  BY <1>1
<1>2. CASE t \in Reading \cup Issuing \cup Entering
  BY <1>2, Zenon
<1>3. CASE t \in Stamping \cup Moving
  BY <1>3, Zenon
<1>4. CASE t \in Judging \cup Validating
  BY <1>4, Zenon
<1>5. CASE t \in Rejecting \cup Counting
  BY <1>5, Zenon
<1> QED
  BY <1>1, <1>2, <1>3, <1>4, <1>5, Zenon DEF Task

\* A new task changes that handler only.
LEMMA Proceeds ==
    ASSUME DepartureTypeOK, NEW h \in Hunter, NEW next, Proceed(h, next)
    PROVE  /\ task'[h] = next
           /\ \A g \in Hunter \ {h} : task'[g] = task[g]
           /\ next \in Task => task' \in [Hunter -> Task]
BY DEF Proceed, DepartureTypeOK

\* After the admission the transfer goes on in the same stage.
LEMMA StampTask ==
    ASSUME NEW t \in Stamping
    PROVE  LET n == [t EXCEPT !.at = "leave"]
           IN n \in Moving /\ n.at = "leave" /\ n.to = t.to /\ n.fresh = t.fresh
BY Zenon DEF Stamping, Moving

\* The old stage has been left: the hunter arrives.
LEMMA MoveTask ==
    ASSUME NEW t \in Moving
    PROVE  LET n == [t EXCEPT !.at = "arrive"]
           IN n \in Moving /\ n.at = "arrive" /\ n.to = t.to /\ n.fresh = t.fresh
BY DEF Moving

\* One participant fewer is left to be judged.
LEMMA JudgeTask ==
    ASSUME NEW t \in Judging, NEW m \in Hunter
    PROVE  LET n == [t EXCEPT !.todo = @ \ {m}]
           IN /\ n \in Judging /\ n.at = "judge" /\ n.place = t.place
              /\ n.quest = t.quest /\ n.todo = t.todo \ {m} /\ n.rejected = t.rejected
BY DEF Judging

\* The first compare-and-swap of a participant is followed by the second.
LEMMA ValidateTask ==
    ASSUME NEW t \in Validating
    PROVE  LET n == [t EXCEPT !.at = "countersign"]
           IN /\ n \in Validating /\ n.at = "countersign" /\ n.who = t.who
              /\ n.old = t.old /\ n.then = t.then
BY DEF Validating

-----------------------------------------------------------------------------
(* What the steps do to the task of their hunter, and the types.             *)

\* The task of h is next, nobody else's changes, and next is a task.
TaskBecomes(h, next) ==
    /\ task'[h] = next /\ next \in Task
    /\ \A g \in Hunter \ {h} : task'[g] = task[g]
    /\ task' \in [Hunter -> Task]

\* Tick keeps the types.
LEMMA TickStep ==
    ASSUME DepartureTypeOK, Tick
    PROVE  DepartureTypeOK'
BY DEF Tick, DepartureTypeOK, stageData, pinned, usage

\* Buy keeps the types.
LEMMA BuyStep ==
    ASSUME DepartureTypeOK, NEW h \in Hunter, NEW q \in Protected, Buy(h, q)
    PROVE  /\ DepartureTypeOK'
           /\ time' = time + 1
           /\ \A m \in Hunter, x \in Protected : bought[m][x] <= time => bought'[m][x] = bought[m][x]
<1>1. bought' \in [Hunter -> [Protected -> Nat]]
  BY DEF Buy, DepartureTypeOK
<1>2. \A m \in Hunter, x \in Protected : bought[m][x] <= time => bought'[m][x] = bought[m][x]
  BY DEF Buy, DepartureTypeOK
<1> QED
  BY <1>1, <1>2 DEF Buy, DepartureTypeOK, stageData, pinned, usage

\* SetOut keeps the types.
LEMMA SetOutStep ==
    ASSUME DepartureTypeOK, NEW h \in Hunter, NEW to \in PlaceId \cup {Town}, SetOut(h, to)
    PROVE  /\ DepartureTypeOK'
           /\ \E next : /\ TaskBecomes(h, next)
                        /\ \/ next.at = "enter" /\ next.access = Nothing
                           \/ next.at = "read"
<1>1. \E next \in Task : /\ Proceed(h, next)
                         /\ \/ next.at = "enter" /\ next.access = Nothing
                            \/ next.at = "read"
  <2>1. CASE to = Town \/ (departure[h] # Nothing /\ placeIdOf[departure[h].place] = to)
    <3>1. Proceed(h, [at |-> "enter", to |-> to, access |-> Nothing])
      BY <2>1, Zenon DEF SetOut
    <3> QED
      BY <3>1 DEF Task, Entering
  <2>2. CASE ~(to = Town \/ (departure[h] # Nothing /\ placeIdOf[departure[h].place] = to))
    <3>1. Proceed(h, [at |-> "read", to |-> to]) /\ to \in PlaceId
      BY <2>2, Zenon DEF SetOut
    <3> QED
      BY <3>1 DEF Task, Reading
  <2> QED
    BY <2>1, <2>2
<1>2. PICK next \in Task : /\ Proceed(h, next)
                           /\ \/ next.at = "enter" /\ next.access = Nothing
                              \/ next.at = "read"
  BY <1>1
<1>3. TaskBecomes(h, next)
  BY <1>2, Proceeds DEF TaskBecomes
<1>4. requests[h] + 1 <= MaxRequests[h] /\ requests' = [requests EXCEPT ![h] = @ + 1]
  BY DEF SetOut, Take, DepartureTypeOK
<1>5. DepartureTypeOK'
  BY <1>3, <1>4 DEF TaskBecomes, SetOut, DepartureTypeOK, stageData, pinned, usage
<1> QED
  BY <1>2, <1>3, <1>5

\* ReadAccess keeps the types.
LEMMA ReadAccessStep ==
    ASSUME DepartureTypeOK, NEW h \in Hunter, ReadAccess(h)
    PROVE  /\ DepartureTypeOK'
           /\ \/ \E next : /\ TaskBecomes(h, next) /\ next.at = "issue"
                           /\ \A q \in next.owned : bought[h][q] <= time
              \/ TaskBecomes(h, Idle)
<1>1. task[h] \in Reading
  BY Kinds DEF ReadAccess, Doing, DepartureTypeOK
<1>2. \/ \E next \in Task : /\ Proceed(h, next) /\ next.at = "issue"
                            /\ \A q \in next.owned : bought[h][q] <= time
      \/ Proceed(h, Idle)
  <2>1. CASE \E owned \in {{q \in Protected : bought[h][q] <= time}, {}} :
               Proceed(h, [at |-> "issue", to |-> task[h].to, owned |-> owned])
    <3>1. PICK owned \in {{q \in Protected : bought[h][q] <= time}, {}} :
               Proceed(h, [at |-> "issue", to |-> task[h].to, owned |-> owned])
      BY <2>1, Zenon
    <3> DEFINE next == [at |-> "issue", to |-> task[h].to, owned |-> owned]
    <3>2. next \in Task /\ next.at = "issue" /\ next.owned = owned
      BY <1>1 DEF Task, Reading, Issuing
    <3>3. \A q \in owned : bought[h][q] <= time
      OBVIOUS
    <3> QED
      BY <3>1, <3>2, <3>3
  <2> QED
    BY <2>1 DEF ReadAccess
<1>3. Idle \in Task
  BY DEF Task
<1>4. task' \in [Hunter -> Task]
  BY <1>2, <1>3, Proceeds
<1>5. DepartureTypeOK'
  BY <1>4 DEF ReadAccess, DepartureTypeOK, stageData, pinned, usage
<1> QED
  BY <1>2, <1>3, <1>5, Proceeds DEF TaskBecomes

\* IssueAccess keeps the types.
LEMMA IssueAccessStep ==
    ASSUME DepartureTypeOK, NEW h \in Hunter, IssueAccess(h)
    PROVE  /\ DepartureTypeOK'
           /\ \E next : /\ TaskBecomes(h, next) /\ next.at = "enter" /\ next.access \in Access
                        /\ next.access.at = time /\ next.access.owned = task[h].owned
<1>1. task[h] \in Issuing
  BY Kinds DEF IssueAccess, Doing, DepartureTypeOK
<1> DEFINE next == [at |-> "enter", to |-> task[h].to,
                    access |-> [at |-> time, owned |-> task[h].owned]]
<1>2. next \in Task /\ next.at = "enter" /\ next.access \in Access
      /\ next.access.at = time /\ next.access.owned = task[h].owned
  BY <1>1 DEF Task, Issuing, Entering, Access, DepartureTypeOK
<1>3. TaskBecomes(h, next)
  <2> HIDE DEF next
  <2>1. Proceed(h, next)
    BY Zenon DEF IssueAccess, next
  <2> QED
    BY <1>2, <2>1, Proceeds DEF TaskBecomes
<1>4. DepartureTypeOK'
  BY <1>3 DEF TaskBecomes, IssueAccess, DepartureTypeOK, stageData, pinned, usage
<1> HIDE DEF next
<1> QED
  BY <1>2, <1>3, <1>4

\* Refused keeps the types.
LEMMA RefusedStep ==
    ASSUME DepartureTypeOK, NEW h \in Hunter, Refused(h)
    PROVE  DepartureTypeOK' /\ TaskBecomes(h, Idle)
<1>1. Idle \in Task
  BY DEF Task
<1>2. TaskBecomes(h, Idle)
  BY <1>1, Proceeds DEF Refused, TaskBecomes
<1> QED
  BY <1>2 DEF TaskBecomes, Refused, DepartureTypeOK, stageData, pinned, usage

\* EnterTown keeps the types.
LEMMA EnterTownStep ==
    ASSUME DepartureTypeOK, NEW h \in Hunter, EnterTown(h)
    PROVE  /\ DepartureTypeOK'
           /\ \E next : /\ TaskBecomes(h, next) /\ next.at = "leave"
                        /\ next.to = Town /\ next.fresh = FALSE
<1> DEFINE next == [at |-> "leave", to |-> Town, fresh |-> FALSE]
<1>1. next \in Task /\ next.at = "leave" /\ next.to = Town /\ next.fresh = FALSE
  BY DEF Task, Moving
<1>2. TaskBecomes(h, next)
  <2> HIDE DEF next
  <2>1. Proceed(h, next)
    BY Zenon DEF EnterTown, next
  <2> QED
    BY <1>1, <2>1, Proceeds DEF TaskBecomes
<1>3. DepartureTypeOK'
  BY <1>2, Zenon DEF TaskBecomes, EnterTown, DepartureTypeOK, stageData, pinned, usage
<1> HIDE DEF next
<1> QED
  BY <1>1, <1>2, <1>3

\* EnterQuest keeps the types.
LEMMA EnterQuestStep ==
    ASSUME DepartureTypeOK, Whereabouts, NEW h \in Hunter, NEW p \in Place, EnterQuest(h, p)
    PROVE  /\ DepartureTypeOK'
           /\ \/ /\ Stays(h, p) /\ UNCHANGED <<locked, departure>>
                 /\ \E next : /\ TaskBecomes(h, next) /\ next.at = "leave"
                              /\ next.to = p /\ next.fresh = FALSE
              \/ UNCHANGED <<locked, departure>> /\ TaskBecomes(h, Idle)
              \/ /\ ~Stays(h, p) /\ Admits(h, p, task[h].access)
                 /\ task[h].access \in Access
                 /\ locked' = locked \cup {p}
                 /\ \A m \in Hunter \ {h} : departure'[m] = departure[m]
                 /\ departure'[h] \in Departure
                 /\ departure'[h].place = p /\ departure'[h].at = time
                 /\ departure'[h].quest = setup[p] /\ departure'[h].access = task[h].access
                 /\ \E next : /\ TaskBecomes(h, next) /\ next.at = "stamp"
                              /\ next.to = p /\ next.fresh = TRUE /\ h \notin party[p]
<1> USE DEF DepartureTypeOK
<1>0. task[h] \in Entering
  BY Kinds DEF EnterQuest, Doing
<1>1. CASE /\ Stays(h, p) /\ UNCHANGED <<onMap, opened, locked, departure>>
           /\ Proceed(h, [at |-> "leave", to |-> p, fresh |-> FALSE])
  <2> DEFINE next == [at |-> "leave", to |-> p, fresh |-> FALSE]
  <2>1. next \in Task /\ next.at = "leave" /\ next.to = p /\ next.fresh = FALSE
    BY DEF Task, Moving
  <2>2. TaskBecomes(h, next)
    <3> HIDE DEF next
    <3>1. Proceed(h, next)
      BY <1>1, Zenon DEF next
    <3> QED
      BY <2>1, <3>1, Proceeds DEF TaskBecomes
  <2>3. DepartureTypeOK'
    BY <1>1, <2>2 DEF TaskBecomes, EnterQuest, pinned, usage
  <2> HIDE DEF next
  <2> QED
    BY <1>1, <2>1, <2>2, <2>3, Zenon
<1>2. CASE UNCHANGED <<onMap, opened, locked, departure>> /\ Proceed(h, Idle)
  <2>1. TaskBecomes(h, Idle)
    BY <1>2, Proceeds DEF TaskBecomes, Task
  <2>2. DepartureTypeOK'
    BY <1>2, <2>1 DEF TaskBecomes, EnterQuest, pinned, usage
  <2> QED
    BY <1>2, <2>1, <2>2
<1>3. CASE /\ ~Stays(h, p) /\ Admits(h, p, task[h].access)
           /\ onMap' = [onMap EXCEPT ![task[h].to] = p] /\ opened' = opened \cup {p}
           /\ locked' = locked \cup {p}
           /\ departure' = [departure EXCEPT ![h] =
                 [place |-> p, at |-> time, quest |-> setup[p], access |-> task[h].access,
                  trip |-> trip[h] + 1]]
           /\ Proceed(h, [at |-> "stamp", to |-> p, fresh |-> h \notin party[p]])
  <2> DEFINE d == [place |-> p, at |-> time, quest |-> setup[p], access |-> task[h].access,
                   trip |-> trip[h] + 1]
             next == [at |-> "stamp", to |-> p, fresh |-> h \notin party[p]]
  <2>1. task[h].access \in Access
    BY <1>0, <1>3 DEF Admits, Entering
  <2>2. /\ d \in Departure /\ d.place = p /\ d.at = time
        /\ d.quest = setup[p] /\ d.access = task[h].access
    BY <2>1 DEF Departure
  <2>3. departure' = [departure EXCEPT ![h] = d]
    BY <1>3, Zenon
  <2> HIDE DEF d
  <2>4. /\ departure' \in [Hunter -> Departure \cup {Nothing}] /\ departure'[h] = d
        /\ \A m \in Hunter \ {h} : departure'[m] = departure[m]
    BY <2>2, <2>3
  <2>5. h \notin party[p]
    <3>1. ~Travelling(h) /\ ~Doing(h, "leave")
      BY Zenon DEF EnterQuest, Doing, Travelling
    <3> QED
      BY <1>3, <3>1 DEF Whereabouts, Stays
  <2>6. next \in Task /\ next.at = "stamp" /\ next.to = p /\ next.fresh = TRUE
    BY <2>5, Zenon DEF Task, Stamping
  <2>7. TaskBecomes(h, next)
    <3> HIDE DEF next
    <3>1. Proceed(h, next)
      BY <1>3, Zenon DEF next
    <3> QED
      BY <2>6, <3>1, Proceeds DEF TaskBecomes
  <2> HIDE DEF next
  <2>8. DepartureTypeOK'
    BY <1>3, <2>4, <2>7 DEF TaskBecomes, EnterQuest, pinned, usage
  <2> QED
    BY <1>3, <2>1, <2>2, <2>4, <2>5, <2>6, <2>7, <2>8, SMTT(40)
<1> QED
  BY <1>1, <1>2, <1>3, Zenon DEF EnterQuest

\* Stamp keeps the types.
LEMMA StampStep ==
    ASSUME DepartureTypeOK, NEW h \in Hunter, Stamp(h), departure[h] \in Departure
    PROVE  /\ DepartureTypeOK'
           /\ task[h].to \in Place /\ task[h].fresh = TRUE
           /\ \E next : /\ TaskBecomes(h, next) /\ next.at = "leave"
                        /\ next.to = task[h].to /\ next.fresh = TRUE
           /\ \A m \in Hunter \ {h} : receipt'[m] = receipt[m]
           /\ receipt'[h] = Receipt(departure[h]) /\ receipt'[h] \in SaveRight
           /\ \A p \in Place : party'[p] = IF p = task[h].to THEN party[p] \cup {h} ELSE party[p]
<1> USE DEF DepartureTypeOK
<1>1. task[h] \in Stamping
  BY Kinds DEF Stamp, Doing
<1> DEFINE next == [task[h] EXCEPT !.at = "leave"]
<1>2. next \in Task /\ next.at = "leave" /\ next.to = task[h].to /\ next.fresh = TRUE
  BY <1>1, StampTask, Zenon DEF Task, Stamping
<1>3. TaskBecomes(h, next)
  <2> HIDE DEF next
  <2>1. Proceed(h, next)
    BY Zenon DEF Stamp, next
  <2> QED
    BY <1>2, <2>1, Proceeds DEF TaskBecomes
<1> HIDE DEF next
<1>4. Receipt(departure[h]) \in SaveRight
  BY DEF Receipt, SaveRight, Departure
<1>5. /\ receipt' \in [Hunter -> SaveRight \cup {Nothing}]
      /\ \A m \in Hunter \ {h} : receipt'[m] = receipt[m]
      /\ receipt'[h] = Receipt(departure[h])
  BY <1>4 DEF Stamp
<1>6. /\ party' \in [Place -> SUBSET Hunter]
      /\ \A p \in Place : party'[p] = IF p = task[h].to THEN party[p] \cup {h} ELSE party[p]
  BY <1>1, ZenonT(60) DEF Stamp, Stamping
<1>7. DepartureTypeOK'
  BY <1>3, <1>5, <1>6 DEF TaskBecomes, Stamp, usage
<1> QED
  BY <1>1, <1>2, <1>3, <1>4, <1>5, <1>6, <1>7, ZenonT(60) DEF Stamping

\* Leaving takes the hunter out of the party of the place where it is.
LEMMA LeavePlaceTypes ==
    ASSUME DepartureTypeOK, NEW h \in Hunter, LeavePlace(h)
    PROVE  /\ locked = {} /\ party' \in [Place -> SUBSET Hunter]
           /\ \A p \in Place : party'[p] = IF p = where[h] THEN party[p] \ {h} ELSE party[p]
           /\ onMap' \in [PlaceId -> Place \cup {NoPlace}]
BY DEF LeavePlace, DepartureTypeOK

\* Leave keeps the types.
LEMMA LeaveStep ==
    ASSUME DepartureTypeOK, NEW h \in Hunter, Leave(h)
    PROVE  /\ DepartureTypeOK'
           /\ \E next : /\ TaskBecomes(h, next) /\ next.at = "arrive"
                        /\ next.to = task[h].to /\ next.fresh = task[h].fresh
           /\ where'[h] = task[h].to /\ \A m \in Hunter \ {h} : where'[m] = where[m]
           /\ \/ where[h] = task[h].to /\ UNCHANGED party
              \/ /\ where[h] # task[h].to /\ locked = {}
                 /\ \A p \in Place : party'[p] = IF p = where[h] THEN party[p] \ {h} ELSE party[p]
<1> USE DEF DepartureTypeOK
<1>1. task[h] \in Moving
  BY Kinds DEF Leave, Doing
<1> DEFINE next == [task[h] EXCEPT !.at = "arrive"]
<1>2. next \in Task /\ next.at = "arrive" /\ next.to = task[h].to /\ next.fresh = task[h].fresh
  BY <1>1, MoveTask DEF Task
<1>3. TaskBecomes(h, next)
  <2> HIDE DEF next
  <2>1. Proceed(h, next)
    BY Zenon DEF Leave, next
  <2> QED
    BY <1>2, <2>1, Proceeds DEF TaskBecomes
<1> HIDE DEF next
<1>4. /\ where' \in [Hunter -> Place \cup {Town, NoPlace}]
      /\ where'[h] = task[h].to /\ \A m \in Hunter \ {h} : where'[m] = where[m]
  BY <1>1 DEF Leave, Moving
<1>5. /\ party' \in [Place -> SUBSET Hunter] /\ onMap' \in [PlaceId -> Place \cup {NoPlace}]
      /\ \/ where[h] = task[h].to /\ UNCHANGED party
         \/ /\ where[h] # task[h].to /\ locked = {}
            /\ \A p \in Place : party'[p] = IF p = where[h] THEN party[p] \ {h} ELSE party[p]
  BY LeavePlaceTypes, Zenon DEF Leave
<1>6. DepartureTypeOK'
  BY <1>3, <1>4, <1>5 DEF TaskBecomes, Leave, usage, pinned
<1> QED
  BY <1>2, <1>3, <1>4, <1>5, <1>6, Zenon

\* Arrive keeps the types.
LEMMA ArriveStep ==
    ASSUME DepartureTypeOK, NEW h \in Hunter, Arrive(h), where[h] = task[h].to
    PROVE  LET p == where[h]
               n == trip[h] + 1
               fresh == task[h].fresh /\ p # Town
           IN /\ DepartureTypeOK'
              /\ p \in Place \cup {Town} /\ p \notin locked
              /\ \A m \in Hunter \ {h} : trip'[m] = trip[m] /\ pending'[m] = pending[m]
              /\ trip'[h] = IF fresh THEN n ELSE trip[h]
              /\ \/ /\ p = Town /\ pending'[h] = Nothing /\ TaskBecomes(h, Idle)
                 \/ /\ ~fresh /\ p # Town /\ pending'[h] = pending[h] /\ TaskBecomes(h, Idle)
                 \/ /\ fresh /\ setup[p] # NoQuest /\ pending'[h] = Nothing
                    /\ \E next : /\ TaskBecomes(h, next) /\ next.at = "count"
                                 /\ next.due = {<<h, n>>}
                 \/ /\ fresh /\ setup[p] = NoQuest /\ TaskBecomes(h, Idle)
                    /\ pending'[h] # Nothing
                    /\ pending'[h].id = placeIdOf[p] /\ pending'[h].trip = n
<1> USE DEF DepartureTypeOK
<1>1. task[h] \in Moving
  BY Kinds DEF Arrive, Doing
<1> DEFINE p == where[h]
           n == trip[h] + 1
           fresh == task[h].fresh /\ p # Town
           known == fresh /\ setup[p] # NoQuest
<1>2. p \in Place \cup {Town} /\ task[h].fresh \in BOOLEAN /\ n \in Nat /\ p \notin locked
  BY <1>1 DEF Moving, Arrive
<1>3. /\ trip' = [trip EXCEPT ![h] = IF fresh THEN n ELSE @]
      /\ pending' = [pending EXCEPT ![h] =
                IF p = Town \/ known THEN Nothing
                ELSE IF fresh THEN [id |-> placeIdOf[p], trip |-> n] ELSE @]
      /\ Proceed(h, IF known THEN [at |-> "count", due |-> {<<h, n>>}] ELSE Idle)
  BY Zenon DEF Arrive
<1>4. known => [at |-> "count", due |-> {<<h, n>>}] \in Task
  BY <1>2 DEF Task, Counting
<1>5. Idle \in Task
  BY DEF Task
<1>6. IF known THEN TaskBecomes(h, [at |-> "count", due |-> {<<h, n>>}])
      ELSE TaskBecomes(h, Idle)
  BY <1>3, <1>4, <1>5, Proceeds DEF TaskBecomes
<1>7. p # Town => [id |-> placeIdOf[p], trip |-> n] \in Entry
  BY <1>2 DEF Entry
<1>8. /\ \A m \in Hunter \ {h} : trip'[m] = trip[m] /\ pending'[m] = pending[m]
      /\ trip' \in [Hunter -> Nat] /\ pending' \in [Hunter -> Entry \cup {Nothing}]
      /\ trip'[h] = IF fresh THEN n ELSE trip[h]
      /\ pending'[h] = IF p = Town \/ known THEN Nothing
                       ELSE IF fresh THEN [id |-> placeIdOf[p], trip |-> n] ELSE pending[h]
  BY <1>2, <1>3, <1>7
<1>9. DepartureTypeOK'
  <2>1. task' \in [Hunter -> Task]
    BY <1>6 DEF TaskBecomes
  <2> QED
    <3>1. UNCHANGED <<time, bought, stageData, where, pinned, counted, gone, logout, requests>>
      BY Zenon DEF Arrive
    <3> QED
      BY <1>8, <2>1, <3>1 DEF pinned, stageData
<1>10. CASE known
  <2>1. /\ TaskBecomes(h, [at |-> "count", due |-> {<<h, n>>}])
        /\ pending'[h] = Nothing /\ setup[p] # NoQuest /\ fresh
    BY <1>6, <1>8, <1>10
  <2> DEFINE next == [at |-> "count", due |-> {<<h, n>>}]
  <2>2. TaskBecomes(h, next) /\ next.at = "count" /\ next.due = {<<h, n>>}
    BY <2>1
  <2> HIDE DEF next
  <2> QED
    BY <1>2, <1>8, <1>9, <2>1, <2>2, Zenon
<1>11. CASE ~known
  BY <1>2, <1>6, <1>7, <1>8, <1>9, <1>11, SMTT(40)
<1> QED
  BY <1>10, <1>11, Zenon

\* Count keeps the types.
LEMMA CountStep ==
    ASSUME DepartureTypeOK, NEW h \in Hunter, Count(h)
    PROVE  /\ DepartureTypeOK' /\ TaskBecomes(h, Idle)
           /\ \A m \in Hunter : /\ DOMAIN counted'[m] = DOMAIN counted[m]
                                /\ \A n \in DOMAIN counted[m] : counted'[m][n] =
                                     counted[m][n] + IF <<m, n>> \in task[h].due THEN 1 ELSE 0
<1> USE DEF DepartureTypeOK
<1>1. TaskBecomes(h, Idle)
  BY Proceeds DEF Count, TaskBecomes, Task
<1>2. counted' = [m \in Hunter |-> [n \in DOMAIN counted[m] |->
                     counted[m][n] + IF <<m, n>> \in task[h].due THEN 1 ELSE 0]]
  BY DEF Count
<1>3. \A m \in Hunter : /\ DOMAIN counted'[m] = DOMAIN counted[m]
                        /\ \A n \in DOMAIN counted[m] : counted'[m][n] =
                             counted[m][n] + IF <<m, n>> \in task[h].due THEN 1 ELSE 0
  BY <1>2
<1>4. \A m \in Hunter : counted'[m] \in [1 .. MaxRequests[m] -> Nat]
  BY <1>2
<1>5. DepartureTypeOK'
  BY <1>1, <1>2, <1>4 DEF TaskBecomes, Count, stageData, pinned
<1> QED
  BY <1>1, <1>3, <1>5, Zenon

BeginsToJudge(next, p, q) ==
    /\ next.at = "judge" /\ next.place = p /\ next.quest = q
    /\ next.todo = party[p] /\ next.rejected = {}

\* SetSetup keeps the types.
LEMMA SetSetupStep ==
    ASSUME DepartureTypeOK, NEW h \in Hunter, NEW i \in PlaceId,
           NEW q \in QuestId \cup {Malformed}, SetSetup(h, i, q), NEW p, p = onMap[i]
    PROVE  /\ DepartureTypeOK'
           /\ p \in Place \ locked
           /\ \/ UNCHANGED <<task, locked>>
              \/ /\ ~Conflicts(p, q) /\ locked' = locked \cup {p}
                 /\ \E next : TaskBecomes(h, next) /\ BeginsToJudge(next, p, q)
<1> USE DEF DepartureTypeOK
<1> DEFINE next == [at |-> "judge", place |-> p, quest |-> q, todo |-> party[p], rejected |-> {}]
<1>1. p \in Place \ locked
  BY DEF SetSetup
<1>2. requests[h] + 1 <= MaxRequests[h] /\ requests' = [requests EXCEPT ![h] = @ + 1]
  BY DEF SetSetup, Take
<1>3. CASE UNCHANGED <<task, locked>>
  BY <1>1, <1>2, <1>3 DEF SetSetup, pinned, usage
<1>4. CASE ~Conflicts(p, q) /\ locked' = locked \cup {p} /\ Proceed(h, next)
  <2>1. /\ next \in Task /\ next.at = "judge" /\ next.place = p /\ next.quest = q
        /\ next.todo = party[p] /\ next.rejected = {}
    BY <1>1 DEF Task, Judging, Refusals
  <2> HIDE DEF next
  <2>2. TaskBecomes(h, next)
    BY <1>4, <2>1, Proceeds DEF TaskBecomes
  <2>3. UNCHANGED <<time, bought, onMap, opened, party, setup, where, pinned, usage, gone, logout>>
    BY Zenon DEF SetSetup
  <2>4. DepartureTypeOK'
    <3>1. locked' \subseteq Place /\ task' \in [Hunter -> Task]
      BY <1>1, <1>4, <2>2 DEF TaskBecomes
    <3>2. requests' \in [Hunter -> Nat] /\ \A m \in Hunter : requests'[m] <= MaxRequests[m]
      BY <1>2
    <3> QED
      BY <2>3, <3>1, <3>2 DEF pinned, usage
  <2> QED
    BY <1>1, <1>4, <2>1, <2>2, <2>4, Zenon DEF BeginsToJudge
<1> QED
  BY <1>3, <1>4, Zenon DEF SetSetup

\* What judging m leaves to judge, and what becomes of m.
JudgedRest(h, m, rest) ==
    /\ rest \in Judging /\ rest.at = "judge" /\ rest.place = task[h].place
    /\ rest.quest = task[h].quest /\ rest.todo = task[h].todo \ {m}

MayStay(h, m, rest) ==
    /\ \/ Passes(m, task[h].place, task[h].quest)
       \/ Lawful(m, task[h].quest) /\ departure[m].quest # NoQuest
    /\ rest.rejected = task[h].rejected

MustGo(h, m, rest) ==
    /\ ~Passes(m, task[h].place, task[h].quest) /\ ~Lawful(m, task[h].quest)
    /\ rest.rejected = task[h].rejected \cup {<<m, departure[m]>>}

WillBeSigned(h, m, rest, next) ==
    /\ ~Passes(m, task[h].place, task[h].quest) /\ Lawful(m, task[h].quest)
    /\ departure[m].quest = NoQuest /\ rest.rejected = task[h].rejected
    /\ next.at = "validate" /\ next.who = m /\ next.old = departure[m] /\ next.then = rest

\* Judge keeps the types.
LEMMA JudgeStep ==
    ASSUME DepartureTypeOK, NEW h \in Hunter, NEW m \in Hunter, Judge(h, m)
    PROVE  /\ DepartureTypeOK'
           /\ task[h] \in Judging /\ m \in task[h].todo
           /\ \E rest : /\ JudgedRest(h, m, rest)
                        /\ \/ MayStay(h, m, rest) /\ UNCHANGED party /\ TaskBecomes(h, rest)
                           \/ /\ MustGo(h, m, rest) /\ TaskBecomes(h, rest)
                              /\ party' = [party EXCEPT ![task[h].place] = @ \ {m}]
                           \/ /\ UNCHANGED party
                              /\ \E next : TaskBecomes(h, next) /\ WillBeSigned(h, m, rest, next)
<1> USE DEF DepartureTypeOK
<1>1. task[h] \in Judging
  BY Kinds DEF Judge, Doing
<1> DEFINE p == task[h].place
           q == task[h].quest
           rest == [task[h] EXCEPT !.todo = @ \ {m}]
           refused == [rest EXCEPT !.rejected = @ \cup {<<m, departure[m]>>}]
           next == [at |-> "validate", who |-> m, old |-> departure[m], then |-> rest]
<1>2. /\ rest \in Judging /\ rest.at = "judge" /\ rest.place = p
      /\ rest.quest = q /\ rest.todo = task[h].todo \ {m} /\ rest.rejected = task[h].rejected
      /\ refused \in Judging /\ refused.at = "judge" /\ refused.place = p
      /\ refused.quest = q /\ refused.todo = task[h].todo \ {m}
      /\ refused.rejected = task[h].rejected \cup {<<m, departure[m]>>}
  <2>1. /\ rest \in Judging /\ rest.at = "judge" /\ rest.place = p
        /\ rest.quest = q /\ rest.todo = task[h].todo \ {m} /\ rest.rejected = task[h].rejected
    BY <1>1, JudgeTask, Zenon
  <2> HIDE DEF rest
  <2>2. departure[m] \in Departure \cup {Nothing}
    OBVIOUS
  <2>3. /\ refused \in Judging /\ refused.at = "judge" /\ refused.place = rest.place
        /\ refused.quest = rest.quest /\ refused.todo = rest.todo
        /\ refused.rejected = rest.rejected \cup {<<m, departure[m]>>}
    <3> DEFINE d == departure[m]
               more == rest.rejected \cup {<<m, d>>}
    <3>1. more \in Refusals
      BY <2>1, <2>2 DEF Judging, Refusals
    <3>2. refused = [rest EXCEPT !.rejected = more]
      OBVIOUS
    <3> HIDE DEF more
    <3>3. [rest EXCEPT !.rejected = more] \in Judging
      BY <2>1, <3>1, Zenon DEF Judging
    <3> HIDE DEF refused
    <3>4. refused.rejected = more
      BY <2>1, <3>2 DEF Judging
    <3> QED
      BY <2>1, <3>2, <3>3, <3>4, Zenon DEF Judging, more
  <2> HIDE DEF refused
  <2> QED
    BY <2>1, <2>3
<1>3. p \in Place /\ m \in task[h].todo
  BY <1>1 DEF Judging, Judge
<1>4. rest \in Task /\ refused \in Task
  BY <1>2 DEF Task
<1>5. task' \in [Hunter -> Task] /\ party' \in [Place -> SUBSET Hunter] => DepartureTypeOK'
  BY Zenon DEF Judge, pinned, usage
<1>6. CASE Passes(m, p, q) /\ Proceed(h, rest) /\ UNCHANGED party
  <2> HIDE DEF rest, refused
  <2>1. TaskBecomes(h, rest)
    BY <1>4, <1>6, Proceeds, Zenon DEF TaskBecomes
  <2> QED
    BY <1>1, <1>2, <1>3, <1>5, <1>6, <2>1, Zenon DEF TaskBecomes, JudgedRest, MayStay
<1>7. CASE /\ ~Passes(m, p, q) /\ ~Lawful(m, q) /\ Proceed(h, refused)
           /\ party' = [party EXCEPT ![p] = @ \ {m}]
  <2> HIDE DEF rest, refused
  <2>1. TaskBecomes(h, refused)
    BY <1>4, <1>7, Proceeds, Zenon DEF TaskBecomes
  <2>2. party' \in [Place -> SUBSET Hunter]
    BY <1>3, <1>7
  <2> QED
    BY <1>1, <1>2, <1>3, <1>5, <1>7, <2>1, <2>2, Zenon DEF TaskBecomes, JudgedRest, MustGo
<1>8. CASE /\ ~Passes(m, p, q) /\ Lawful(m, q) /\ UNCHANGED party
           /\ Proceed(h, IF departure[m].quest = NoQuest THEN next ELSE rest)
  <2>1. CASE departure[m].quest # NoQuest
    <3> HIDE DEF rest, refused
    <3>1. TaskBecomes(h, rest)
      BY <1>4, <1>8, <2>1, Proceeds, Zenon DEF TaskBecomes
    <3> QED
      BY <1>1, <1>2, <1>3, <1>5, <1>8, <2>1, <3>1, Zenon
         DEF TaskBecomes, JudgedRest, MayStay
  <2>2. CASE departure[m].quest = NoQuest
    <3> HIDE DEF rest, refused
    <3>1. departure[m] \in Departure
      BY <1>8 DEF Lawful
    <3>2. /\ next \in Task /\ next.at = "validate" /\ next.who = m
          /\ next.old = departure[m] /\ next.then = rest
      BY <1>2, <3>1 DEF Task, Validating
    <3> HIDE DEF next
    <3>3. TaskBecomes(h, next)
      BY <1>8, <2>2, <3>2, Proceeds, SMTT(40) DEF TaskBecomes
    <3> QED
      BY <1>1, <1>2, <1>3, <1>5, <1>8, <2>2, <3>2, <3>3, ZenonT(60)
         DEF TaskBecomes, JudgedRest, WillBeSigned
  <2> QED
    BY <2>1, <2>2, Zenon
<1> QED
  BY <1>6, <1>7, <1>8, Zenon DEF Judge

\* Validate keeps the types.
LEMMA ValidateStep ==
    ASSUME DepartureTypeOK, NEW h \in Hunter, Validate(h), task[h].then.quest # Malformed
    PROVE  LET m == task[h].who IN
           /\ DepartureTypeOK' /\ task[h] \in Validating
           /\ \A g \in Hunter \ {m} : departure'[g] = departure[g]
           /\ \/ /\ departure[m] = task[h].old /\ departure'[m] \in Departure
                 /\ departure'[m].place = departure[m].place
                 /\ departure'[m].at = departure[m].at
                 /\ departure'[m].access = departure[m].access
                 /\ departure'[m].quest = task[h].then.quest
                 /\ \E next : /\ TaskBecomes(h, next) /\ next.at = "countersign"
                              /\ next.who = m /\ next.old = task[h].old
                              /\ next.then = task[h].then
              \/ /\ departure[m] # task[h].old /\ UNCHANGED departure
                 /\ TaskBecomes(h, task[h].then)
<1> USE DEF DepartureTypeOK
<1>1. task[h] \in Validating
  BY Kinds DEF Validate, Doing
<1> DEFINE m == task[h].who
           next == [task[h] EXCEPT !.at = "countersign"]
<1>2. m \in Hunter /\ task[h].old \in Departure /\ task[h].then \in Judging
  BY <1>1 DEF Validating
<1>3. /\ next \in Task /\ next.at = "countersign" /\ next.who = m
      /\ next.old = task[h].old /\ next.then = task[h].then
  BY <1>1, ValidateTask DEF Task
<1>4. UNCHANGED <<time, bought, stageData, where, receipt, usage, gone, logout, requests>>
  BY Zenon DEF Validate
<1>5. CASE /\ departure[m] = task[h].old
           /\ departure' = [departure EXCEPT ![m].quest = task[h].then.quest]
           /\ Proceed(h, next)
  <2> HIDE DEF next
  <2>1. TaskBecomes(h, next)
    BY <1>3, <1>5, Proceeds DEF TaskBecomes
  <2> DEFINE d == [departure[m] EXCEPT !.quest = task[h].then.quest]
  <2>2. task[h].then.quest \in QuestId
    BY <1>2 DEF Judging
  <2>3. departure' = [departure EXCEPT ![m] = d]
    BY <1>5
  <2>4. /\ d \in Departure /\ d.place = departure[m].place /\ d.at = departure[m].at
        /\ d.access = departure[m].access /\ d.quest = task[h].then.quest
    <3>1. departure[m] \in Departure /\ task[h].then.quest \in QuestId \cup {NoQuest}
      BY <1>2, <1>5, <2>2
    <3> QED
      BY <3>1, Zenon DEF Departure
  <2> HIDE DEF d
  <2>5. /\ departure' \in [Hunter -> Departure \cup {Nothing}] /\ departure'[m] = d
        /\ \A g \in Hunter \ {m} : departure'[g] = departure[g]
    BY <1>2, <2>3, <2>4
  <2>6. DepartureTypeOK'
    BY <1>4, <2>1, <2>5 DEF TaskBecomes, stageData, usage
  <2> QED
    BY <1>1, <1>3, <1>5, <2>1, <2>4, <2>5, <2>6, Zenon
<1>6. CASE departure[m] # task[h].old /\ Proceed(h, task[h].then) /\ UNCHANGED departure
  <2>1. TaskBecomes(h, task[h].then)
    BY <1>2, <1>6, Proceeds DEF TaskBecomes, Task
  <2>2. DepartureTypeOK'
    BY <1>4, <1>6, <2>1, Zenon DEF TaskBecomes, stageData, usage
  <2> QED
    BY <1>1, <1>6, <2>1, <2>2, Zenon
<1> QED
  BY <1>5, <1>6, Zenon DEF Validate

\* Countersign keeps the types.
LEMMA CountersignStep ==
    ASSUME DepartureTypeOK, NEW h \in Hunter, Countersign(h), task[h].then.quest # Malformed
    PROVE  LET m == task[h].who IN
           /\ DepartureTypeOK' /\ task[h] \in Validating
           /\ TaskBecomes(h, task[h].then)
           /\ \A g \in Hunter \ {m} : receipt'[g] = receipt[g]
           /\ \/ receipt'[m] = receipt[m]
              \/ /\ receipt[m] = Receipt(task[h].old) /\ receipt'[m] # Nothing
                 /\ receipt'[m].at = task[h].old.at
                 /\ receipt'[m].access = task[h].old.access
                 /\ receipt'[m].quest = task[h].then.quest
<1> USE DEF DepartureTypeOK
<1>1. task[h] \in Validating
  BY Kinds DEF Countersign, Doing
<1> DEFINE m == task[h].who
           r == [receipt[m] EXCEPT !.quest = task[h].then.quest]
           hit == receipt[m] = Receipt(task[h].old)
<1>2. m \in Hunter /\ task[h].old \in Departure /\ task[h].then \in Judging
  BY <1>1 DEF Validating
<1>3. task[h].then.quest \in QuestId
  BY <1>2 DEF Judging
<1>4. receipt' = [receipt EXCEPT ![m] = IF hit THEN r ELSE @] /\ Proceed(h, task[h].then)
  BY DEF Countersign
<1>5. hit => /\ r \in SaveRight /\ r.at = task[h].old.at /\ r.access = task[h].old.access
             /\ r.quest = task[h].then.quest
  <2> DEFINE o == task[h].old
             e == Receipt(o)
  <2>1. e \in SaveRight /\ e.at = o.at /\ e.access = o.access
    BY <1>2, Zenon DEF Receipt, SaveRight, Departure
  <2> HIDE DEF o, e
  <2>2. LET f == [e EXCEPT !.quest = task[h].then.quest]
        IN f \in SaveRight /\ f.at = e.at /\ f.access = e.access /\ f.quest = task[h].then.quest
    BY <1>3, <2>1, Zenon DEF SaveRight
  <2>3. hit => receipt[m] = e
    BY DEF e, o
  <2> QED
    BY <2>1, <2>2, <2>3, Zenon DEF o
<1>6. UNCHANGED <<time, bought, stageData, where, departure, usage, gone, logout, requests>>
  BY Zenon DEF Countersign
<1> HIDE DEF r
<1>7. /\ receipt' \in [Hunter -> SaveRight \cup {Nothing}]
      /\ receipt'[m] = IF hit THEN r ELSE receipt[m]
      /\ \A g \in Hunter \ {m} : receipt'[g] = receipt[g]
  BY <1>2, <1>4, <1>5
<1>8. TaskBecomes(h, task[h].then)
  BY <1>2, <1>4, Proceeds, Zenon DEF TaskBecomes, Task
<1>9. DepartureTypeOK'
  BY <1>6, <1>7, <1>8, Zenon DEF TaskBecomes, stageData, usage
<1>10. hit => r # Nothing
  BY <1>5
<1> QED
  BY <1>1, <1>5, <1>7, <1>8, <1>9, <1>10, Zenon

\* Store keeps the types.
LEMMA StoreStep ==
    ASSUME DepartureTypeOK, NEW h \in Hunter, Store(h)
    PROVE  LET p == task[h].place
               good == task[h].quest # Malformed
           IN /\ DepartureTypeOK' /\ task[h] \in Judging /\ task[h].todo = {}
              /\ \A x \in Place \ {p} : setup'[x] = setup[x]
              /\ setup'[p] = IF good THEN task[h].quest ELSE setup[p]
              /\ locked' = locked \ {p}
              /\ \E next : /\ TaskBecomes(h, next) /\ next.at = "reject" /\ next.place = p
                           /\ next.quest = task[h].quest /\ next.rejected = task[h].rejected
                           /\ next.due = {} /\ next.clients = IF good THEN party[p] ELSE {}
<1> USE DEF DepartureTypeOK
<1>1. task[h] \in Judging /\ task[h].todo = {}
  BY Kinds DEF Store, Doing
<1> DEFINE p == task[h].place
           good == task[h].quest # Malformed
           next == [at |-> "reject", place |-> p, quest |-> task[h].quest,
                    rejected |-> task[h].rejected, due |-> {},
                    clients |-> IF good THEN party[p] ELSE {}]
<1>2. p \in Place /\ (good => task[h].quest \in QuestId)
  BY <1>1 DEF Judging
<1>3. /\ next \in Task /\ next.at = "reject" /\ next.place = p
      /\ next.quest = task[h].quest /\ next.rejected = task[h].rejected
      /\ next.due = {} /\ next.clients = IF good THEN party[p] ELSE {}
  BY <1>1, <1>2 DEF Judging, Rejecting, Task
<1>4. TaskBecomes(h, next)
  <2> HIDE DEF next
  <2>1. Proceed(h, next)
    BY Zenon DEF Store, next
  <2> QED
    BY <1>3, <2>1, Proceeds, Zenon DEF TaskBecomes
<1> HIDE DEF next
<1>5. /\ setup' \in [Place -> QuestId \cup {NoQuest}] /\ locked' = locked \ {p}
      /\ \A x \in Place \ {p} : setup'[x] = setup[x]
      /\ setup'[p] = IF good THEN task[h].quest ELSE setup[p]
  BY <1>2 DEF Store
<1>6. UNCHANGED <<time, bought, onMap, opened, party, where, pinned, usage, gone, logout, requests>>
  BY Zenon DEF Store
<1>7. DepartureTypeOK'
  BY <1>4, <1>5, <1>6 DEF TaskBecomes, pinned, usage
<1> QED
  BY <1>1, <1>3, <1>4, <1>5, <1>7, Zenon

\* What is left to reject, and what becomes of a hunter that is rejected.
StillRejects(h, m, old, next) ==
    /\ next.at = "reject" /\ next.place = task[h].place
    /\ next.quest = task[h].quest /\ next.due = task[h].due /\ next.clients = task[h].clients
    /\ next.rejected = task[h].rejected \ {<<m, old>>}

Expelled(m, p) ==
    /\ where[m] = p /\ locked = {} /\ gone' = gone \cup {m}
    /\ \A g \in Hunter \ {m} : /\ departure'[g] = departure[g] /\ trip'[g] = trip[g]
                               /\ pending'[g] = pending[g] /\ where'[g] = where[g]
    /\ departure'[m] = Nothing /\ pending'[m] = Nothing
    /\ trip'[m] = trip[m] + 1 /\ where'[m] = NoPlace
    /\ \A x \in Place : party'[x] = IF x = p THEN party[x] \ {m} ELSE party[x]

\* Reject keeps the types.
LEMMA RejectStep ==
    ASSUME DepartureTypeOK, NEW h \in Hunter, NEW m, NEW old, Reject(h, m, old)
    PROVE  LET p == task[h].place IN
           /\ DepartureTypeOK' /\ task[h] \in Rejecting
           /\ m \in Hunter /\ ~Travelling(m)
           /\ \E next : TaskBecomes(h, next) /\ StillRejects(h, m, old, next)
           /\ \/ departure[m] = old /\ Expelled(m, p)
              \/ /\ ~(departure[m] = old /\ where[m] = p)
                 /\ UNCHANGED <<gone, departure, trip, pending, party, where>>
<1> USE DEF DepartureTypeOK
<1>1. task[h] \in Rejecting
  BY Kinds DEF Reject, Doing
<1> DEFINE p == task[h].place
           next == [task[h] EXCEPT !.rejected = @ \ {<<m, old>>}]
<1>2. <<m, old>> \in task[h].rejected /\ ~Travelling(m)
  BY Zenon DEF Reject
<1>3. m \in Hunter /\ old \in Departure \cup {Nothing}
  BY <1>1, <1>2 DEF Rejecting, Refusals
<1>4. /\ next \in Rejecting /\ next.at = "reject" /\ next.place = p
      /\ next.quest = task[h].quest /\ next.rejected = task[h].rejected \ {<<m, old>>}
      /\ next.clients = task[h].clients /\ next.due = task[h].due
  <2> DEFINE r == task[h].rejected \ {<<m, old>>}
  <2>1. r \in Refusals /\ next = [task[h] EXCEPT !.rejected = r]
    BY <1>1 DEF Rejecting, Refusals
  <2> HIDE DEF next
  <2>2. r = task[h].rejected \ {<<m, old>>}
    OBVIOUS
  <2> HIDE DEF r
  <2> QED
    <3>1. /\ next \in Rejecting /\ next.at = "reject" /\ next.place = p
          /\ next.quest = task[h].quest /\ next.rejected = r
          /\ next.clients = task[h].clients /\ next.due = task[h].due
      BY <1>1, <2>1, Zenon DEF Rejecting
    <3> QED
      BY <2>2, <3>1
<1>5. next \in Task
  BY <1>4 DEF Task
<1>6. TaskBecomes(h, next)
  <2> HIDE DEF next
  <2>1. Proceed(h, next)
    BY Zenon DEF Reject, next
  <2> QED
    BY <1>5, <2>1, Proceeds DEF TaskBecomes
<1> HIDE DEF next
<1>7. UNCHANGED <<time, bought, opened, locked, setup, receipt, counted, logout, requests>>
  BY Zenon DEF Reject
<1>8. CASE /\ StillThere(m, old, p)
           /\ gone' = gone \cup {m}
           /\ departure' = [departure EXCEPT ![m] = Nothing]
           /\ trip' = [trip EXCEPT ![m] = @ + 1] /\ pending' = [pending EXCEPT ![m] = Nothing]
           /\ LeavePlace(m) /\ where' = [where EXCEPT ![m] = NoPlace]
  <2>1. /\ locked = {} /\ party' \in [Place -> SUBSET Hunter]
        /\ \A x \in Place : party'[x] = IF x = where[m] THEN party[x] \ {m} ELSE party[x]
        /\ onMap' \in [PlaceId -> Place \cup {NoPlace}]
    BY <1>3, <1>8, LeavePlaceTypes, Zenon
  <2>2. /\ departure' \in [Hunter -> Departure \cup {Nothing}] /\ departure'[m] = Nothing
        /\ trip' \in [Hunter -> Nat] /\ trip'[m] = trip[m] + 1
        /\ pending' \in [Hunter -> Entry \cup {Nothing}] /\ pending'[m] = Nothing
        /\ where' \in [Hunter -> Place \cup {Town, NoPlace}] /\ where'[m] = NoPlace
        /\ gone' \subseteq Hunter
    BY <1>3, <1>8
  <2>3. \A g \in Hunter \ {m} : /\ departure'[g] = departure[g]
                                /\ trip'[g] = trip[g] /\ pending'[g] = pending[g]
                                /\ where'[g] = where[g]
    BY <1>3, <1>8
  <2>4. DepartureTypeOK'
    BY <1>6, <1>7, <2>1, <2>2, Zenon DEF TaskBecomes
  <2> QED
    BY <1>1, <1>2, <1>3, <1>4, <1>6, <1>8, <2>1, <2>2, <2>3, <2>4, Zenon
    DEF StillThere, StillRejects, Expelled
<1>9. CASE /\ ~StillThere(m, old, p)
           /\ UNCHANGED <<gone, departure, trip, pending, party, onMap, where>>
  <2>1. DepartureTypeOK'
    BY <1>6, <1>7, <1>9 DEF TaskBecomes
  <2> QED
    BY <1>1, <1>2, <1>3, <1>4, <1>6, <1>9, <2>1, Zenon DEF StillThere, StillRejects
<1> QED
  BY <1>8, <1>9, Zenon DEF Reject

\* What is left to arm, and what is due.
StillArms(h, m, next) ==
    LET p == task[h].place IN
    /\ next.at = "reject" /\ next.place = p
    /\ next.quest = task[h].quest /\ next.rejected = {} /\ next.clients = task[h].clients \ {m}
    /\ next.due = task[h].due \cup IF Waiting(m, p) THEN {<<m, pending[m].trip>>} ELSE {}

\* Arm keeps the types.
LEMMA ArmStep ==
    ASSUME DepartureTypeOK, NEW h \in Hunter, NEW m \in Hunter, Arm(h, m)
    PROVE  LET p == task[h].place IN
           /\ DepartureTypeOK' /\ task[h] \in Rejecting
           /\ task[h].rejected = {} /\ m \in task[h].clients /\ ~Travelling(m)
           /\ \A g \in Hunter \ {m} : pending'[g] = pending[g]
           /\ pending'[m] = IF Waiting(m, p) THEN Nothing ELSE pending[m]
           /\ \E next : TaskBecomes(h, next) /\ StillArms(h, m, next)
<1> USE DEF DepartureTypeOK
<1>1. task[h] \in Rejecting
  BY Kinds DEF Arm, Doing
<1> DEFINE p == task[h].place
           more == IF Waiting(m, p) THEN {<<m, pending[m].trip>>} ELSE {}
           next == [task[h] EXCEPT !.clients = @ \ {m}, !.due = @ \cup more]
<1>2. task[h].rejected = {} /\ m \in task[h].clients /\ ~Travelling(m)
      /\ pending' = PendingAfter(m, p)
  BY Zenon DEF Arm
<1>3. more \in SUBSET (Hunter \X Nat)
  BY DEF Waiting, Entry
<1>4. Proceed(h, next)
  BY Zenon DEF Arm
<1> HIDE DEF more
<1>5. /\ next \in Rejecting /\ next.at = "reject" /\ next.place = p
      /\ next.quest = task[h].quest /\ next.rejected = task[h].rejected
      /\ next.clients = task[h].clients \ {m} /\ next.due = task[h].due \cup more
  <2> DEFINE c == task[h].clients \ {m}
             due == task[h].due \cup more
  <2>1. /\ c \in SUBSET Hunter /\ due \in SUBSET (Hunter \X Nat)
        /\ next = [task[h] EXCEPT !.clients = c, !.due = due]
    BY <1>1, <1>3 DEF Rejecting
  <2> HIDE DEF next
  <2>2. c = task[h].clients \ {m} /\ due = task[h].due \cup more
    OBVIOUS
  <2> HIDE DEF c, due
  <2> QED
    <3>1. /\ next \in Rejecting /\ next.at = "reject" /\ next.place = p
          /\ next.quest = task[h].quest /\ next.rejected = task[h].rejected
          /\ next.clients = c /\ next.due = due
      BY <1>1, <2>1, Zenon DEF Rejecting
    <3> QED
      BY <2>2, <3>1
<1>6. TaskBecomes(h, next)
  <2> HIDE DEF next
  <2> QED
    BY <1>4, <1>5, Proceeds DEF TaskBecomes, Task
<1> HIDE DEF next
<1>7. /\ pending' \in [Hunter -> Entry \cup {Nothing}]
      /\ \A g \in Hunter \ {m} : pending'[g] = pending[g]
      /\ pending'[m] = IF Waiting(m, p) THEN Nothing ELSE pending[m]
  BY <1>2 DEF PendingAfter
<1>8. UNCHANGED <<time, bought, stageData, where, pinned, trip, counted, gone, logout, requests>>
  BY Zenon DEF Arm
<1>9. DepartureTypeOK'
  BY <1>6, <1>7, <1>8 DEF TaskBecomes, stageData, pinned
<1> QED
  BY <1>1, <1>2, <1>5, <1>6, <1>7, <1>9, Zenon DEF more, StillArms

\* Armed keeps the types.
LEMMA ArmedStep ==
    ASSUME DepartureTypeOK, NEW h \in Hunter, Armed(h)
    PROVE  /\ DepartureTypeOK' /\ task[h] \in Rejecting
           /\ task[h].rejected = {} /\ task[h].clients = {}
           /\ \E next : /\ TaskBecomes(h, next) /\ next.at = "count"
                        /\ next.due = task[h].due
<1> USE DEF DepartureTypeOK
<1>1. task[h] \in Rejecting
  BY Kinds DEF Armed, Doing
<1> DEFINE next == [at |-> "count", due |-> task[h].due]
<1>2. next \in Task /\ next.at = "count" /\ next.due = task[h].due
  BY <1>1 DEF Rejecting, Task, Counting
<1>3. TaskBecomes(h, next)
  <2> HIDE DEF next
  <2>1. Proceed(h, next)
    BY Zenon DEF Armed, next
  <2> QED
    BY <1>2, <2>1, Proceeds DEF TaskBecomes
<1> HIDE DEF next
<1>4. DepartureTypeOK'
  BY <1>3 DEF TaskBecomes, Armed, stageData, pinned, usage
<1> QED
  BY <1>1, <1>2, <1>3, <1>4 DEF Armed

\* Disconnect keeps the types.
LEMMA DisconnectStep ==
    ASSUME DepartureTypeOK, NEW h \in Hunter, Disconnect(h)
    PROVE  DepartureTypeOK'
BY DEF Disconnect, DepartureTypeOK, stageData, pinned, usage

\* What a step of a logout changes: the hunter leaves parties nobody holds the
\* lock of, and in the end, without a transfer under way, its last place.
Parts(h) ==
    /\ h \in gone
    /\ \A p \in Place : \/ party'[p] = party[p]
                        \/ p \notin locked /\ party'[p] = party[p] \ {h}
    /\ \A m \in Hunter \ {h} : where'[m] = where[m]
    /\ \/ where'[h] = where[h]
       \/ where'[h] = NoPlace /\ ~Travelling(h) /\ \A p \in Place : h \notin party'[p]
    /\ UNCHANGED <<time, bought, locked, setup, departure, receipt, trip, pending, counted,
                   task, gone, requests>>

\* DropOut keeps the types.
LEMMA DropOutStep ==
    ASSUME DepartureTypeOK, NEW h \in Hunter, NEW i \in PlaceId, DropOut(h, i)
    PROVE  DepartureTypeOK' /\ Parts(h)
<1> USE DEF DepartureTypeOK
<1> DEFINE p == onMap[i]
<1>1. p \in Place \ locked /\ party' = [party EXCEPT ![p] = @ \ {h}]
  BY DEF DropOut
<1>2. UNCHANGED <<time, bought, onMap, opened, locked, setup, where, pinned, usage, task,
                  gone, logout, requests>> /\ h \in gone
  BY Zenon DEF DropOut
<1> HIDE DEF p
<1>3. DepartureTypeOK'
  BY <1>1, <1>2 DEF pinned, usage
<1>4. Parts(h)
  BY <1>1, <1>2 DEF Parts, pinned, usage
<1> QED
  BY <1>3, <1>4

\* QuitPlace keeps the types.
LEMMA QuitPlaceStep ==
    ASSUME DepartureTypeOK, NEW h \in Hunter, QuitPlace(h)
    PROVE  DepartureTypeOK' /\ Parts(h)
<1> USE DEF DepartureTypeOK
<1>1. /\ party' \in [Place -> SUBSET Hunter] /\ onMap' \in [PlaceId -> Place \cup {NoPlace}]
      /\ \A p \in Place : \/ party'[p] = party[p]
                          \/ p \notin locked /\ party'[p] = party[p] \ {h}
  <2>1. CASE LeavePlace(h)
    <3>1. /\ locked = {} /\ party' \in [Place -> SUBSET Hunter]
          /\ onMap' \in [PlaceId -> Place \cup {NoPlace}]
          /\ \A p \in Place : party'[p] = IF p = where[h] THEN party[p] \ {h} ELSE party[p]
      BY <2>1, LeavePlaceTypes, Zenon
    <3> QED
      BY <3>1
  <2>2. CASE UNCHANGED <<party, onMap>>
    BY <2>2
  <2> QED
    BY <2>1, <2>2, Zenon DEF QuitPlace
<1>2. logout' \in [Hunter -> {"leaving", "finalizing", "over"}]
  BY DEF QuitPlace
<1>3. UNCHANGED <<time, bought, opened, locked, setup, where, pinned, usage, task, gone,
                  requests>> /\ h \in gone
  BY Zenon DEF QuitPlace
<1>4. DepartureTypeOK'
  BY <1>1, <1>2, <1>3 DEF pinned, usage
<1>5. Parts(h)
  BY <1>1, <1>3 DEF Parts, pinned, usage
<1> QED
  BY <1>4, <1>5

\* ClearPlace keeps the types.
LEMMA ClearPlaceStep ==
    ASSUME DepartureTypeOK, NEW h \in Hunter, NEW i \in PlaceId, ClearPlace(h, i)
    PROVE  DepartureTypeOK' /\ Parts(h)
<1> USE DEF DepartureTypeOK
<1> DEFINE p == onMap[i]
<1>1. p \in Place \ locked /\ party' = [party EXCEPT ![p] = @ \ {h}]
  BY DEF ClearPlace
<1>2. onMap' \in [PlaceId -> Place \cup {NoPlace}]
  BY DEF ClearPlace
<1>3. UNCHANGED <<time, bought, opened, locked, setup, where, pinned, usage, task, gone,
                  logout, requests>> /\ h \in gone
  BY Zenon DEF ClearPlace
<1> HIDE DEF p
<1>4. DepartureTypeOK'
  BY <1>1, <1>2, <1>3 DEF pinned, usage
<1>5. Parts(h)
  BY <1>1, <1>3 DEF Parts, pinned, usage
<1> QED
  BY <1>4, <1>5

\* LogOut keeps the types.
LEMMA LogOutStep ==
    ASSUME DepartureTypeOK, NEW h \in Hunter, LogOut(h)
    PROVE  DepartureTypeOK' /\ Parts(h)
<1> USE DEF DepartureTypeOK
<1>1. /\ where' \in [Hunter -> Place \cup {Town, NoPlace}]
      /\ where'[h] = NoPlace /\ \A m \in Hunter \ {h} : where'[m] = where[m]
      /\ logout' \in [Hunter -> {"leaving", "finalizing", "over"}]
  BY DEF LogOut
<1>2. UNCHANGED <<time, bought, onMap, opened, locked, party, setup, pinned, usage, task, gone,
                  requests>>
  BY Zenon DEF LogOut, stageData
<1>3. h \in gone /\ ~Travelling(h) /\ \A p \in Place : h \notin party[p]
  BY Zenon DEF LogOut
<1>4. DepartureTypeOK'
  BY <1>1, <1>2 DEF pinned, usage
<1>5. Parts(h)
  BY <1>1, <1>2, <1>3 DEF Parts, pinned, usage
<1> QED
  BY <1>4, <1>5

-----------------------------------------------------------------------------
(* What a step of one hunter's handler leaves of the invariant.              *)

\* Locks: a handler takes only a free one and keeps it while it needs it.
LEMMA LocksFrame ==
    ASSUME LocksHeld, NEW h \in Hunter, \A g \in Hunter \ {h} : task'[g] = task[g],
           \A p \in Place : Holds(h, p)' => p \in locked' /\ (Holds(h, p) \/ p \notin locked),
           \A p \in locked : Holds(h, p) \/ p \in locked'
    PROVE  LocksHeld'
<1>1. \A g \in Hunter \ {h}, p \in Place : Holds(g, p)' <=> Holds(g, p)
  BY DEF Holds, Judges, InJudgement, Ruling, Doing
<1> QED
  BY <1>1 DEF LocksHeld

\* Places: nobody moves and parties only shrink.
LEMMA WhereFrame ==
    ASSUME DepartureTypeOK, DepartureTypeOK', Whereabouts, NEW h \in Hunter,
           \A g \in Hunter \ {h} : task'[g] = task[g],
           ~Travelling(h), ~Travelling(h)', UNCHANGED <<where, departure>>,
           \A p \in Place : party'[p] \subseteq party[p]
    PROVE  Whereabouts'
<1>1. \A g \in Hunter, p \in Place :
         g \in party'[p] => where'[g] = p \/ (Doing(g, "leave")' /\ task'[g].to = p)
  BY DEF Whereabouts, Doing, Travelling
<1>2. \A g \in Hunter : IF Travelling(g)' THEN OnTheWay(g)'
                        ELSE where'[g] \in Place =>
                                departure'[g] # Nothing /\ departure'[g].place = where'[g]
  BY DEF Whereabouts, Travelling, OnTheWay, Doing
<1> QED
  BY <1>1, <1>2 DEF Whereabouts

\* Rights: what the hunter has read is sound, and nothing is pinned.
LEMMA RightsFrame ==
    ASSUME RightsSound, NEW h \in Hunter, \A g \in Hunter \ {h} : task'[g] = task[g],
           ReadSound(h)', UNCHANGED <<time, bought, departure, receipt>>
    PROVE  RightsSound'
<1>1. \A g \in Hunter : PinnedSound(g)'
  BY DEF RightsSound, PinnedSound, Cleared, Sound
<1>2. \A g \in Hunter \ {h} : ReadSound(g)'
  BY DEF RightsSound, ReadSound, Cleared, Sound, Doing, Ruling
<1> QED
  BY <1>1, <1>2 DEF RightsSound

\* A setup is about one place, whichever step its handler is at.
LEMMA RulingPlace ==
    ASSUME DepartureTypeOK, NEW g \in Hunter, InJudgement(g)
    PROVE  /\ Ruling(g) \in Judging /\ Ruling(g).place \in Place /\ Judges(g, Ruling(g).place)
           /\ Holds(g, Ruling(g).place)
<1>1. Ruling(g) \in Judging
  BY Kinds DEF DepartureTypeOK, InJudgement, Ruling, Validating
<1> QED
  BY <1>1 DEF Judging, Judges, Holds

\* A setup that another hunter judges sees the same party, but for who leaves it.
LEMMA SetupKept ==
    ASSUME DepartureTypeOK, NEW g \in Hunter, InJudgement(g), SetupJudged(g), task'[g] = task[g],
           \A p \in Place : Judges(g, p) => setup'[p] = setup[p] /\ party'[p] = party[p],
           \A m \in Hunter, p \in Place : Judges(g, p) /\ m \in party[p] =>
              \/ Away(m, p)'
              \/ ~Away(m, p) /\ departure'[m] = departure[m]
    PROVE  SetupJudged(g)'
<1>1. PICK p \in Place, r \in Judging : p = r.place /\ r = Ruling(g) /\ Judges(g, p)
  BY RulingPlace
<1>2. Ruling(g)' = r /\ setup'[p] = setup[p] /\ party'[p] = party[p]
  BY <1>1 DEF Ruling
<1>3. ASSUME NEW m \in party[p]
      PROVE  /\ Away(m, p) => Away(m, p)'
             /\ ~Away(m, p) => Away(m, p)' \/ departure'[m] = departure[m]
  BY <1>1, <1>3 DEF DepartureTypeOK
<1>4. SetupJudged(g)
  OBVIOUS
<1>5. /\ r.todo \subseteq party'[p]
      /\ Doing(g, "validate")' => task'[g].who \in party'[p]
  BY <1>1, <1>2, <1>4 DEF SetupJudged, Doing
<1>6. ASSUME r.quest # Malformed
      PROVE  /\ setup'[p] \notin {NoQuest, r.quest} => party'[p] = {}
             /\ \A m \in party'[p] : (Away(m, p) \/ Hunts(m, p, r.quest) \/ Hunts(m, p, NoQuest))'
             /\ \A m \in party'[p] \ r.todo :
                   (\/ Away(m, p) \/ Hunts(m, p, r.quest)
                    \/ Doing(g, "validate") /\ task[g].who = m /\ departure[m] = task[g].old)'
  BY <1>1, <1>2, <1>3, <1>4, <1>6, SMTT(40) DEF SetupJudged, Doing, Hunts
<1> QED
  BY <1>1, <1>2, <1>5, <1>6 DEF SetupJudged

\* Parties: the hunter takes no part in a setup and does not move.
LEMMA PartiesFrame ==
    ASSUME DepartureTypeOK, PartiesLicensed, NEW h \in Hunter, \A g \in Hunter \ {h} : task'[g] = task[g],
           ~Travelling(h), ~Travelling(h)', ~InJudgement(h)',
           UNCHANGED <<setup, party, departure>>
    PROVE  PartiesLicensed'
<1>3. \A g \in Hunter : Doing(g, "stamp")' => departure'[g].quest = setup'[task'[g].to]
  BY DEF PartiesLicensed, Doing, Travelling
<1>4. ASSUME NEW p \in Place, setup'[p] # NoQuest, NEW m \in party'[p]
      PROVE  (Away(m, p) \/ Hunts(m, p, setup[p]))'
  <2>1. m \in Hunter /\ m \in party[p] /\ setup[p] # NoQuest
    BY <1>4 DEF DepartureTypeOK
  <2>2. Away(m, p) \/ Hunts(m, p, setup[p])
    BY <2>1 DEF PartiesLicensed
  <2>3. Away(m, p) => Away(m, p)'
    BY <2>1 DEF Away, Travelling
  <2>4. Hunts(m, p, setup[p]) => Hunts(m, p, setup[p])'
    BY DEF Hunts
  <2> QED
    BY <2>2, <2>3, <2>4
<1>5. ASSUME NEW g \in Hunter, InJudgement(g)'
      PROVE  SetupJudged(g)'
  <2>1. g # h /\ InJudgement(g)
    BY <1>5 DEF InJudgement
  <2>2. SetupJudged(g)
    BY <2>1 DEF PartiesLicensed
  <2> QED
    BY <2>1, <2>2, SetupKept DEF Away, Travelling
<1> QED
  BY <1>3, <1>4, <1>5 DEF PartiesLicensed

\* Refusals: the hunter's own are the same, and nobody moves.
LEMMA RefusalsFrame ==
    ASSUME DepartureTypeOK, RefusalsRight, NEW h \in Hunter,
           \A g \in Hunter \ {h} : task'[g] = task[g],
           ~Travelling(h), ~Travelling(h)', UNCHANGED <<where, departure, party>>,
           gone \subseteq gone',
           Refusing(h) => \/ Ruling(h).rejected = {}
                          \/ /\ Refusing(h)' /\ Ruling(h)'.place = Ruling(h).place
                             /\ Ruling(h)'.rejected = Ruling(h).rejected,
           Refusing(h)' => \/ Ruling(h)'.rejected = {}
                           \/ /\ Refusing(h) /\ Ruling(h)'.place = Ruling(h).place
                              /\ Ruling(h)'.quest = Ruling(h).quest
                              /\ Ruling(h)'.rejected = Ruling(h).rejected
    PROVE  RefusalsRight'
<1>1. \A g \in Hunter \ {h} : Ruling(g)' = Ruling(g) /\ (Refusing(g)' <=> Refusing(g))
  BY DEF Ruling, Refusing, InJudgement, Doing
<1>2. \A g \in Hunter : Refusing(g)' => RefusedRightly(g)'
  <2>1. \A g \in Hunter \ {h} : Refusing(g)' => RefusedRightly(g)'
    BY <1>1 DEF RefusalsRight, RefusedRightly
  <2>2. Refusing(h)' => RefusedRightly(h)'
    BY DEF RefusalsRight, RefusedRightly
  <2> QED
    BY <2>1, <2>2
<1>3. \A g, m \in Hunter, p \in Place : Refuses(g, m, p) => Refuses(g, m, p)'
  BY <1>1 DEF Refuses
<1>4. \A m \in Hunter, p \in Place : Admitted(m, p)' => Admitted(m, p)
  BY DEF Admitted, Travelling, Doing
<1> QED
  BY <1>2, <1>3, <1>4 DEF RefusalsRight

\* Trips: none waits, or is due, or is counted, that was not before.
LEMMA TripsShrink ==
    ASSUME DepartureTypeOK, DepartureTypeOK', TripsOnce, NEW h \in Hunter,
           \A g \in Hunter \ {h} : task'[g] = task[g],
           Due(h)' \subseteq Due(h), counted' = counted,
           \A g \in Hunter : trip'[g] >= trip[g] /\ pending'[g] \in {Nothing, pending[g]}
    PROVE  TripsOnce'
<1>1. \A g \in Hunter : Due(g)' \subseteq Due(g)
  BY DEF Due
<1>2. \A g \in Hunter : trip[g] \in Nat /\ trip'[g] \in Nat
  BY DEF DepartureTypeOK
<1>3. ASSUME NEW m \in Hunter, pending'[m] # Nothing
      PROVE  /\ pending'[m].trip \in 1 .. trip'[m] /\ Unspent(m, pending[m].trip)'
             /\ \A g \in Hunter : <<m, pending'[m].trip>> \notin Due(g)'
  BY <1>1, <1>2, <1>3 DEF TripsOnce, Unspent
<1>4. ASSUME NEW g \in Hunter, NEW entry \in Due(g)'
      PROVE  /\ entry[2] \in 1 .. trip'[entry[1]] /\ Unspent(entry[1], entry[2])'
             /\ \A other \in Hunter : entry \in Due(other)' => other = g
  <2>1. entry \in Due(g) /\ entry[1] \in Hunter
    <3>1. task[g].at \in {"reject", "count"} => task[g].due \subseteq Hunter \X Nat
      BY Kinds DEF DepartureTypeOK, Rejecting, Counting
    <3> QED
      BY <1>1, <3>1 DEF Due
  <2> QED
    BY <1>1, <1>2, <2>1 DEF TripsOnce, Unspent
<1>5. \A m \in Hunter : \A n \in DOMAIN counted'[m] :
          counted'[m][n] <= 1 /\ (n > trip'[m] => counted'[m][n] = 0)
  <2>1. \A m \in Hunter : \A n \in DOMAIN counted[m] : n \in Int
    BY DEF DepartureTypeOK
  <2> QED
    BY <1>2, <2>1 DEF TripsOnce
<1> QED
  BY <1>3, <1>4, <1>5 DEF TripsOnce

\* Steps that touch no trip, and make none due, keep them counted once.
LEMMA TripsFrame ==
    ASSUME DepartureTypeOK, DepartureTypeOK', TripsOnce, NEW h \in Hunter,
           \A g \in Hunter \ {h} : task'[g] = task[g],
           Due(h)' \subseteq Due(h), UNCHANGED <<trip, pending, counted>>
    PROVE  TripsOnce'
<1>1. \A g \in Hunter : trip'[g] >= trip[g] /\ pending'[g] \in {Nothing, pending[g]}
  BY DEF DepartureTypeOK
<1> QED
  BY <1>1, TripsShrink

\* A packet that is taken pays for the trip it may become.
Pays(h) ==
    /\ requests'[h] >= requests[h] /\ \A g \in Hunter \ {h} : requests'[g] = requests[g]
    /\ Underway(h)' => Underway(h) \/ requests'[h] = requests[h] + 1
    /\ Travelling(h)' => Travelling(h) \/ h \notin gone

\* Accounts: as before, but for who disconnects.
LEMMA AccountsFrame ==
    ASSUME DepartureTypeOK, DepartureTypeOK', TripsAccounted, NEW h \in Hunter,
           \A g \in Hunter \ {h} : task'[g] = task[g],
           UNCHANGED <<where, departure, setup, trip, pending, counted>>, gone \subseteq gone',
           Rests(h)' => Rests(h), Due(h) \subseteq Due(h)', Pays(h),
           Doing(h, "reject") =>
              \/ task[h].rejected = {} /\ task[h].clients = {}
              \/ /\ Doing(h, "reject")' /\ task'[h].place = task[h].place
                 /\ task'[h].rejected = task[h].rejected /\ task'[h].clients = task[h].clients
    PROVE  TripsAccounted'
<1>1. \A g \in Hunter : Rests(g)' => Rests(g)
  BY DEF Rests, Travelling
<1>2. \A g \in Hunter : Due(g) \subseteq Due(g)'
  BY DEF Due
<1>3. \A g, m \in Hunter : \A p :
         Doing(g, "reject") /\ task[g].place = p /\ (m \in task[g].clients \/ Refuses(g, m, p)) =>
            (Doing(g, "reject") /\ task[g].place = p /\ (m \in task[g].clients \/ Refuses(g, m, p)))'
  BY DEF Refuses, Refusing, Ruling, Doing
<1>4. \A m \in Hunter : Awaited(m) => Awaited(m)'
  BY <1>3 DEF Awaited
<1>5. \A m \in Hunter : m \notin gone' \/ Travelling(m)' =>
         trip'[m] + (IF Underway(m)' THEN 1 ELSE 0) <= requests'[m]
  <2>1. trip \in [Hunter -> Nat] /\ requests \in [Hunter -> Nat] /\ requests' \in [Hunter -> Nat]
    BY DEF DepartureTypeOK
  <2>2. \A m \in Hunter \ {h} : /\ Underway(m)' <=> Underway(m)
                                /\ Travelling(m)' <=> Travelling(m)
                                /\ requests'[m] = requests[m]
    BY DEF Underway, Travelling, Pays
  <2>3. \A m \in Hunter : m \notin gone \/ Travelling(m) =>
           trip[m] + (IF Underway(m) THEN 1 ELSE 0) <= requests[m]
    BY DEF TripsAccounted
  <2>4. /\ h \notin gone' \/ Travelling(h)' => h \notin gone \/ Travelling(h)
        /\ requests'[h] >= requests[h]
        /\ Underway(h)' => Underway(h) \/ requests'[h] = requests[h] + 1
    BY DEF Pays
  <2>5. \A m \in Hunter \ {h} : m \notin gone' \/ Travelling(m)' =>
           trip'[m] + (IF Underway(m)' THEN 1 ELSE 0) <= requests'[m]
    BY <2>2, <2>3
  <2>6. h \notin gone' \/ Travelling(h)' =>
           trip'[h] + (IF Underway(h)' THEN 1 ELSE 0) <= requests'[h]
    <3>1. trip[h] \in Nat /\ requests[h] \in Nat /\ requests'[h] \in Nat /\ trip'[h] = trip[h]
      BY <2>1
    <3> HIDE DEF Underway, Travelling
    <3> QED
      BY <2>3, <2>4, <3>1
  <2> QED
    BY <2>5, <2>6
<1> QED
  BY <1>1, <1>2, <1>4, <1>5 DEF TripsAccounted

-----------------------------------------------------------------------------
(* Every step keeps the invariant.                                           *)

\* A packet before its transfer has entered the lifecycle lock.
Early(h) == task[h].at \in {"idle", "read", "issue", "enter"}

\* What a handler does before it has admitted anybody disturbs only what was read.
LEMMA EarlyStep ==
    ASSUME DepartureInv, DepartureTypeOK', RightsSound', NEW h \in Hunter, NEW next,
           TaskBecomes(h, next), Early(h), Early(h)', Pays(h),
           UNCHANGED <<locked, party, setup, where, departure, trip, pending, counted, gone>>
    PROVE  DepartureInv'
<1> USE DEF DepartureInv
<1>1. /\ ~Travelling(h) /\ ~Travelling(h)' /\ ~InJudgement(h) /\ ~InJudgement(h)'
      /\ ~Refusing(h) /\ ~Refusing(h)' /\ \A p : ~Holds(h, p) /\ ~Holds(h, p)'
      /\ ~Doing(h, "reject") /\ Due(h) = {} /\ Due(h)' = {}
  BY DEF Early, Travelling, InJudgement, Refusing, Holds, Judges, Doing, Due
<1>2. \A g \in Hunter \ {h} : task'[g] = task[g]
  BY DEF TaskBecomes
<1>3. LocksHeld'
  BY <1>1, <1>2, LocksFrame
<1>4. Whereabouts'
  BY <1>1, <1>2, WhereFrame
<1>5. PartiesLicensed'
  BY <1>1, <1>2, PartiesFrame
<1>6. RefusalsRight'
  BY <1>1, <1>2, RefusalsFrame
<1>7. TripsOnce'
  BY <1>1, <1>2, TripsFrame
<1>8. Rests(h)' => Rests(h)
  BY <1>1 DEF Rests
<1>9. TripsAccounted'
  BY <1>1, <1>2, <1>8, AccountsFrame
<1> QED
  BY <1>3, <1>4, <1>5, <1>6, <1>7, <1>9

\* A right that was read stays one: nothing is bought earlier than now.
LEMMA RightsLater ==
    ASSUME DepartureTypeOK, RightsSound, time' \in Nat, time <= time',
           \A h \in Hunter, q \in Protected : bought[h][q] <= time => bought'[h][q] = bought[h][q],
           UNCHANGED <<departure, receipt, task>>
    PROVE  RightsSound'
<1>1. time \in Nat /\ \A h \in Hunter, q \in Protected : bought[h][q] \in Nat
  BY DEF DepartureTypeOK
<1>2. ASSUME NEW h \in Hunter, NEW a \in Access, Sound(h, a)
      PROVE  Sound(h, a)'
  <2>1. a.at \in Nat /\ a.owned \subseteq Protected
    BY DEF Access
  <2>2. a.at <= time'
    BY <1>1, <1>2, <2>1 DEF Sound
  <2>3. \A q \in a.owned : bought[h][q] <= a.at /\ a.at <= time
    BY <1>2 DEF Sound
  <2>4. \A q \in a.owned : bought[h][q] <= time
    BY <1>1, <2>1, <2>3
  <2>5. \A q \in a.owned : bought'[h][q] = bought[h][q]
    BY <2>1, <2>4
  <2> QED
    BY <2>2, <2>3, <2>5 DEF Sound
<1>3. ASSUME NEW h \in Hunter, NEW d, d.at \in Nat, d.access \in Access, Cleared(h, d)
      PROVE  Cleared(h, d)'
  <2>1. Sound(h, d.access)'
    BY <1>2, <1>3 DEF Cleared
  <2>2. d.at <= time'
    BY <1>1, <1>3 DEF Cleared
  <2> QED
    BY <1>3, <2>1, <2>2 DEF Cleared, Allowed, AccessAllows
<1>4. ASSUME NEW h \in Hunter
      PROVE  /\ departure'[h] # Nothing => Cleared(h, departure[h])'
             /\ receipt'[h] # Nothing => Cleared(h, receipt[h])'
  <2>1. PICK d \in Departure \cup {Nothing}, r \in SaveRight \cup {Nothing} :
           d = departure[h] /\ r = receipt[h]
    BY DEF DepartureTypeOK
  <2>2. d # Nothing => d.at \in Nat /\ d.access \in Access /\ Cleared(h, d)
    BY <2>1 DEF RightsSound, PinnedSound, Departure
  <2>3. r # Nothing => r.at \in Nat /\ r.access \in Access /\ Cleared(h, r)
    BY <2>1 DEF RightsSound, PinnedSound, SaveRight
  <2>4. departure'[h] = d /\ receipt'[h] = r
    BY <2>1
  <2>5. (d # Nothing => Cleared(h, d)') /\ (r # Nothing => Cleared(h, r)')
    BY <1>3, <2>2, <2>3
  <2> QED
    BY <2>4, <2>5 DEF Cleared, Sound
<1>5. ASSUME NEW h \in Hunter, Doing(h, "issue")'
      PROVE  \A q \in task'[h].owned : bought'[h][q] <= time'
  <2>1. task[h] \in Issuing /\ \A q \in task[h].owned : bought[h][q] <= time
    BY <1>5, Kinds, Zenon DEF DepartureTypeOK, RightsSound, ReadSound, Doing
  <2> QED
    BY <1>1, <2>1 DEF Issuing
<1>6. ASSUME NEW h \in Hunter, Doing(h, "enter")', task'[h].access # Nothing
      PROVE  Sound(h, task[h].access)'
  <2>1. PICK a \in Access : a = task[h].access /\ Sound(h, a)
    BY <1>6, Kinds, Zenon DEF DepartureTypeOK, RightsSound, ReadSound, Doing, Entering
  <2>2. task'[h].access = a /\ Sound(h, a)'
    BY <1>2, <2>1
  <2> QED
    BY <2>2 DEF Sound
<1>7. ASSUME NEW h \in Hunter, task'[h].at \in {"validate", "countersign"}
      PROVE  (/\ task[h].old.place = Ruling(h).place /\ task[h].old.quest = NoQuest
              /\ Cleared(task[h].who, [task[h].old EXCEPT !.quest = Ruling(h).quest])
              /\ Ruling(h).quest # Malformed)'
  <2>1. task[h] \in Validating
    BY <1>7, Kinds DEF DepartureTypeOK
  <2>2. PICK m \in Hunter, o \in Departure, q \in QuestId \cup {Malformed} :
           m = task[h].who /\ o = task[h].old /\ q = Ruling(h).quest
    BY <1>7, <2>1 DEF Validating, Judging, Ruling
  <2> DEFINE d == [o EXCEPT !.quest = q]
  <2>3. d.at \in Nat /\ d.access \in Access
    BY DEF Departure
  <2>4. Cleared(m, d)
    BY <1>7, <2>2, Zenon DEF RightsSound, ReadSound
  <2> HIDE DEF d
  <2>5. Cleared(m, d)'
    BY <1>3, <2>3, <2>4
  <2> USE DEF d
  <2>6. Ruling(h)' = Ruling(h)
    BY DEF Ruling
  <2>7. Cleared(task[h].who, [task[h].old EXCEPT !.quest = Ruling(h).quest])'
    BY <2>2, <2>5, <2>6 DEF Cleared, Sound
  <2>8. /\ task[h].old.place = Ruling(h).place /\ task[h].old.quest = NoQuest
        /\ Ruling(h).quest # Malformed
    BY <1>7, Zenon DEF RightsSound, ReadSound
  <2> QED
    BY <2>6, <2>7, <2>8
<1> QED
  BY <1>4, <1>5, <1>6, <1>7, Zenon DEF RightsSound, PinnedSound, ReadSound

\* Nothing but the time, the licences and who has gone changes.
LEMMA TimeStep ==
    ASSUME DepartureInv, DepartureTypeOK', RightsSound',
           gone \subseteq gone',
           UNCHANGED <<locked, party, setup, where, departure, trip, pending, counted, task,
                       requests>>
    PROVE  DepartureInv'
<1> USE DEF DepartureInv
<1>1. LocksHeld'
  BY DEF LocksHeld, Holds, Judges, InJudgement, Ruling, Doing
<1>2. Whereabouts'
  BY DEF Whereabouts, Travelling, OnTheWay, Doing
<1>3. PartiesLicensed'
  BY DEF PartiesLicensed, SetupJudged, InJudgement, Ruling, Doing, Away, Hunts, Travelling
<1>4. RefusalsRight'
  BY DEF RefusalsRight, Refuses, RefusedRightly, Refusing, InJudgement, Ruling, Doing,
         Admitted, Travelling
<1>5. TripsOnce'
  BY DEF TripsOnce, Due, Unspent
<1>6. TripsAccounted'
  BY DEF TripsAccounted, Rests, Travelling, Due, Awaited, Refuses, Refusing, InJudgement,
         Ruling, Doing, Underway
<1> QED
  BY <1>1, <1>2, <1>3, <1>4, <1>5, <1>6

\* Time passes: a right that has been observed stays observed.
LEMMA TickInv ==
    ASSUME DepartureInv, Tick
    PROVE  DepartureInv'
<1> USE DEF DepartureInv
<1>1. DepartureTypeOK'
  BY TickStep
<1>2. UNCHANGED <<bought, locked, party, setup, where, departure, receipt, trip, pending,
                  counted, task, gone, requests>>
  BY DEF Tick, stageData, pinned, usage
<1>3. time' \in Nat /\ time <= time'
  BY DEF DepartureTypeOK, Tick
<1>4. RightsSound'
  BY <1>2, <1>3, RightsLater
<1> QED
  BY <1>1, <1>2, <1>4, TimeStep

\* A purchase comes after every right that was pinned.
LEMMA BuyInv ==
    ASSUME DepartureInv, NEW h \in Hunter, NEW q \in Protected, Buy(h, q)
    PROVE  DepartureInv'
<1> USE DEF DepartureInv
<1>1. /\ DepartureTypeOK' /\ time' = time + 1
      /\ \A m \in Hunter, x \in Protected : bought[m][x] <= time => bought'[m][x] = bought[m][x]
  BY BuyStep
<1>2. UNCHANGED <<locked, party, setup, where, departure, receipt, trip, pending,
                  counted, task, gone, requests>>
  BY DEF Buy, stageData, pinned, usage
<1>3. time' \in Nat /\ time <= time'
  BY <1>1 DEF DepartureTypeOK
<1>4. RightsSound'
  BY <1>1, <1>2, <1>3, RightsLater
<1> QED
  BY <1>1, <1>2, <1>4, TimeStep

\* A hunter sets out: a packet more, nothing admitted.
LEMMA SetOutInv ==
    ASSUME DepartureInv, NEW h \in Hunter, NEW to \in PlaceId \cup {Town}, SetOut(h, to)
    PROVE  DepartureInv'
<1> USE DEF DepartureInv
<1>1. PICK next : /\ TaskBecomes(h, next) /\ DepartureTypeOK'
                  /\ (next.at = "enter" /\ next.access = Nothing) \/ next.at = "read"
  BY SetOutStep
<1>2. task'[h] = next /\ \A g \in Hunter \ {h} : task'[g] = task[g]
  BY <1>1 DEF TaskBecomes
<1>3. /\ h \notin gone /\ Doing(h, "idle") /\ requests'[h] = requests[h] + 1
      /\ requests'[h] >= requests[h] /\ \A g \in Hunter \ {h} : requests'[g] = requests[g]
  BY DEF SetOut, Take, DepartureTypeOK
<1>4. UNCHANGED <<time, bought, locked, party, setup, where, departure, receipt, trip, pending,
                  counted, gone>>
  BY DEF SetOut, stageData, pinned, usage
<1>5. RightsSound'
  <2>1. ReadSound(h)'
    BY <1>1, <1>2 DEF ReadSound, Doing
  <2> QED
    BY <1>2, <1>4, <2>1, RightsFrame
<1>6. Pays(h) /\ Early(h) /\ Early(h)'
  BY <1>1, <1>2, <1>3 DEF Pays, Early, Doing
<1> QED
  BY <1>1, <1>4, <1>5, <1>6, EarlyStep

\* What is read is what is owned by now, or nothing.
LEMMA ReadAccessInv ==
    ASSUME DepartureInv, NEW h \in Hunter, ReadAccess(h)
    PROVE  DepartureInv'
<1> USE DEF DepartureInv
<1>1. PICK next : /\ TaskBecomes(h, next) /\ DepartureTypeOK'
                  /\ \/ next.at = "issue" /\ \A q \in next.owned : bought[h][q] <= time
                     \/ next.at = "idle"
  BY ReadAccessStep DEF Idle
<1>2. task'[h] = next /\ \A g \in Hunter \ {h} : task'[g] = task[g]
  BY <1>1 DEF TaskBecomes
<1>3. UNCHANGED <<time, bought, locked, party, setup, where, departure, receipt, trip, pending,
                  counted, gone, requests>> /\ Doing(h, "read")
  BY DEF ReadAccess, stageData, pinned, usage
<1>4. ReadSound(h)'
  BY <1>1, <1>2, <1>3 DEF ReadSound, Doing
<1>5. RightsSound'
  BY <1>2, <1>3, <1>4, RightsFrame
<1>6. Pays(h) /\ Early(h) /\ Early(h)'
  BY <1>1, <1>2, <1>3 DEF Pays, Early, Doing, Underway, Travelling, DepartureTypeOK
<1> QED
  BY <1>1, <1>3, <1>5, <1>6, EarlyStep

\* What was read earlier is still owned at the moment that is pinned.
LEMMA IssueAccessInv ==
    ASSUME DepartureInv, NEW h \in Hunter, IssueAccess(h)
    PROVE  DepartureInv'
<1> USE DEF DepartureInv
<1>1. PICK next : /\ TaskBecomes(h, next) /\ DepartureTypeOK'
                  /\ next.at = "enter" /\ next.access \in Access
                  /\ next.access.at = time /\ next.access.owned = task[h].owned
  BY IssueAccessStep
<1>2. task'[h] = next /\ \A g \in Hunter \ {h} : task'[g] = task[g]
  BY <1>1 DEF TaskBecomes
<1>3. UNCHANGED <<time, bought, locked, party, setup, where, departure, receipt, trip, pending,
                  counted, gone, requests>> /\ Doing(h, "issue")
  BY DEF IssueAccess, stageData, pinned, usage
<1>4. ReadSound(h)'
  <2>1. \A q \in next.access.owned : bought[h][q] <= next.access.at
    BY <1>1, <1>3, Zenon DEF RightsSound, ReadSound
  <2>2. next.access.at <= time
    BY <1>1 DEF DepartureTypeOK
  <2> QED
    BY <1>1, <1>2, <1>3, <2>1, <2>2 DEF ReadSound, Doing, Sound
<1>5. RightsSound'
  BY <1>2, <1>3, <1>4, RightsFrame
<1>6. Pays(h) /\ Early(h) /\ Early(h)'
  BY <1>1, <1>2, <1>3 DEF Pays, Early, Doing, Underway, Travelling, DepartureTypeOK
<1> QED
  BY <1>1, <1>3, <1>5, <1>6, EarlyStep

\* A transfer that is refused before it changed anything.
LEMMA TurnedBack ==
    ASSUME DepartureInv, DepartureTypeOK', NEW h \in Hunter, Doing(h, "enter"),
           TaskBecomes(h, Idle),
           UNCHANGED <<time, bought, locked, party, setup, where, departure, receipt, trip,
                       pending, counted, gone, requests>>
    PROVE  DepartureInv'
<1> USE DEF DepartureInv
<1>1. task'[h].at = "idle" /\ \A g \in Hunter \ {h} : task'[g] = task[g]
  BY DEF TaskBecomes, Idle
<1>2. RightsSound'
  <2>1. ReadSound(h)'
    BY <1>1 DEF ReadSound, Doing
  <2> QED
    BY <1>1, <2>1, RightsFrame
<1>3. Pays(h) /\ Early(h) /\ Early(h)'
  BY <1>1 DEF Pays, Early, Doing, Underway, Travelling, DepartureTypeOK
<1> QED
  BY <1>2, <1>3, EarlyStep

\* A closed session turns back and keeps what it had.
LEMMA RefusedInv ==
    ASSUME DepartureInv, NEW h \in Hunter, Refused(h)
    PROVE  DepartureInv'
<1>1. DepartureTypeOK' /\ TaskBecomes(h, Idle)
  BY RefusedStep DEF DepartureInv
<1>2. UNCHANGED <<time, bought, locked, party, setup, where, departure, receipt, trip, pending,
                  counted, gone, requests>> /\ Doing(h, "enter")
  BY DEF Refused, stageData, pinned, usage
<1> QED
  BY <1>1, <1>2, TurnedBack

-----------------------------------------------------------------------------
(* A hunter that travels.                                                    *)

\* Whoever travels joins and leaves parties alone.
LEMMA PartiesMove ==
    ASSUME DepartureTypeOK, PartiesLicensed, NEW h \in Hunter,
           \A g \in Hunter \ {h} : task'[g] = task[g] /\ departure'[g] = departure[g],
           ~InJudgement(h), ~InJudgement(h)', setup' = setup,
           \A p \in Place : party'[p] \subseteq party[p] \cup {h},
           \A g \in Hunter, p \in Place : Judges(g, p) =>
              /\ party'[p] = party[p]
              /\ h \in party[p] => Away(h, p)' \/ (~Away(h, p) /\ departure'[h] = departure[h]),
           \A p \in Place : h \in party'[p] /\ setup[p] # NoQuest =>
              Away(h, p)' \/ Hunts(h, p, setup[p])',
           Doing(h, "stamp")' => departure'[h].quest = setup'[task'[h].to]
    PROVE  PartiesLicensed'
<1>1. \A g \in Hunter : Doing(g, "stamp")' => departure'[g].quest = setup'[task'[g].to]
  BY DEF PartiesLicensed, Doing
<1>2. \A g \in Hunter \ {h} : \A p : Away(g, p)' <=> Away(g, p)
  BY DEF Away, Travelling
<1>3. ASSUME NEW p \in Place, setup'[p] # NoQuest, NEW m \in party'[p], m # h
      PROVE  (Away(m, p) \/ Hunts(m, p, setup[p]))'
  <2>1. m \in Hunter \ {h} /\ m \in party[p]
    BY <1>3 DEF DepartureTypeOK
  <2>2. Away(m, p) \/ Hunts(m, p, setup[p])
    BY <1>3, <2>1 DEF PartiesLicensed
  <2>3. Hunts(m, p, setup[p]) => Hunts(m, p, setup[p])'
    BY <2>1 DEF Hunts
  <2> QED
    BY <1>2, <2>1, <2>2, <2>3
<1>4. \A p \in Place : setup'[p] # NoQuest =>
         \A m \in party'[p] : (Away(m, p) \/ Hunts(m, p, setup[p]))'
  BY <1>3
<1>5. ASSUME NEW g \in Hunter, InJudgement(g)'
      PROVE  SetupJudged(g)'
  <2>1. g # h /\ task'[g] = task[g] /\ InJudgement(g)
    BY <1>5 DEF InJudgement
  <2>2. SetupJudged(g)
    BY <2>1 DEF PartiesLicensed
  <2>3. \A m \in Hunter, p \in Place : Judges(g, p) /\ m \in party[p] =>
           Away(m, p)' \/ (~Away(m, p) /\ departure'[m] = departure[m])
    BY <1>2
  <2> QED
    BY <2>1, <2>2, <2>3, SetupKept
<1> QED
  BY <1>1, <1>4, <1>5 DEF PartiesLicensed

\* Nobody else is admitted or refused.
LEMMA RefusalsMove ==
    ASSUME RefusalsRight, NEW h \in Hunter,
           \A g \in Hunter \ {h} : /\ task'[g] = task[g] /\ departure'[g] = departure[g]
                                   /\ where'[g] = where[g],
           ~Refusing(h), ~Refusing(h)',
           \A p \in Place : party[p] \subseteq party'[p] \cup {h},
           gone \subseteq gone',
           h \notin gone => \A p \in Place : Admitted(h, p)' =>
              h \in party'[p] \/ \E g \in Hunter : Refuses(g, h, p) /\ departure'[h] = departure[h]
    PROVE  RefusalsRight'
<1>1. \A g \in Hunter \ {h} : Ruling(g)' = Ruling(g) /\ (Refusing(g)' <=> Refusing(g))
  BY DEF Ruling, Refusing, InJudgement, Doing
<1>2. \A g \in Hunter : Refusing(g)' => RefusedRightly(g)'
  BY <1>1 DEF RefusalsRight, RefusedRightly
<1>3. \A g, m \in Hunter, p \in Place :
         Refuses(g, m, p) /\ departure'[m] = departure[m] => Refuses(g, m, p)'
  BY <1>1 DEF Refuses
<1>4. \A m \in Hunter \ {h}, p \in Place : Admitted(m, p)' => Admitted(m, p)
  BY DEF Admitted, Travelling, Doing
<1> QED
  BY <1>2, <1>3, <1>4 DEF RefusalsRight

\* Only its own trips change.
LEMMA AccountsMove ==
    ASSUME DepartureTypeOK, TripsAccounted, NEW h \in Hunter,
           \A g \in Hunter \ {h} : /\ task'[g] = task[g] /\ departure'[g] = departure[g]
                                   /\ where'[g] = where[g] /\ trip'[g] = trip[g]
                                   /\ pending'[g] = pending[g],
           ~Doing(h, "reject"), ~Doing(h, "reject")', Due(h) \subseteq Due(h)',
           UNCHANGED <<setup, counted, gone, requests>>,
           h \notin gone /\ Rests(h)' =>
              \/ trip'[h] \in DOMAIN counted[h] /\ counted[h][trip'[h]] = 1
              \/ <<h, trip'[h]>> \in Due(h)'
              \/ Awaited(h)'
              \/ /\ departure'[h] = departure[h] /\ where'[h] = where[h]
                 /\ trip'[h] = trip[h] /\ pending'[h] = pending[h] /\ Rests(h),
           h \notin gone \/ Travelling(h)' =>
              trip'[h] + (IF Underway(h)' THEN 1 ELSE 0) <= requests[h]
    PROVE  TripsAccounted'
<1>1. \A g \in Hunter \ {h} : Rests(g)' => Rests(g)
  BY DEF Rests, Travelling
<1>2. \A g \in Hunter : Due(g) \subseteq Due(g)'
  BY DEF Due
<1>3. \A g, m \in Hunter : \A p :
         (/\ departure'[m] = departure[m] /\ Doing(g, "reject") /\ task[g].place = p
          /\ m \in task[g].clients \/ Refuses(g, m, p)) =>
            (Doing(g, "reject") /\ task[g].place = p /\ (m \in task[g].clients \/ Refuses(g, m, p)))'
  BY DEF Refuses, Refusing, Ruling, Doing
<1> DEFINE Still(m) == /\ departure'[m] = departure[m] /\ where'[m] = where[m]
                       /\ trip'[m] = trip[m] /\ pending'[m] = pending[m]
<1>4. \A m \in Hunter : Still(m) => (Awaited(m) => Awaited(m)')
  BY <1>3 DEF Awaited
<1>5. \A m \in Hunter \ {h} : m \notin gone' \/ Travelling(m)' =>
         trip'[m] + (IF Underway(m)' THEN 1 ELSE 0) <= requests'[m]
  BY DEF TripsAccounted, Underway, Travelling
<1>6. \A m \in Hunter \ gone' : Rests(m)' =>
          \/ trip'[m] \in DOMAIN counted'[m] /\ counted'[m][trip'[m]] = 1
          \/ \E g \in Hunter : <<m, trip'[m]>> \in Due(g)'
          \/ Awaited(m)'
  <2>1. ASSUME NEW m \in Hunter \ gone', Rests(m)', m # h \/ (Still(m) /\ Rests(m))
        PROVE  \/ trip'[m] \in DOMAIN counted'[m] /\ counted'[m][trip'[m]] = 1
               \/ \E g \in Hunter : <<m, trip'[m]>> \in Due(g)'
               \/ Awaited(m)'
    BY <1>1, <1>2, <1>4, <2>1 DEF TripsAccounted
  <2> QED
    BY <2>1, ZenonT(60)
<1> QED
  BY <1>5, <1>6 DEF TripsAccounted

\* Only its own departure is pinned.
LEMMA RightsMove ==
    ASSUME RightsSound, NEW h \in Hunter,
           \A g \in Hunter \ {h} : /\ task'[g] = task[g] /\ departure'[g] = departure[g]
                                   /\ receipt'[g] = receipt[g],
           UNCHANGED <<time, bought>>, PinnedSound(h)', ReadSound(h)'
    PROVE  RightsSound'
<1>1. \A g \in Hunter \ {h} : PinnedSound(g)'
  BY DEF RightsSound, PinnedSound, Cleared, Sound
<1>2. \A g \in Hunter \ {h} : ReadSound(g)'
  BY DEF RightsSound, ReadSound, Cleared, Sound, Doing, Ruling
<1> QED
  BY <1>1, <1>2 DEF RightsSound

\* On the way to town no departure is held.
LEMMA EnterTownInv ==
    ASSUME DepartureInv, NEW h \in Hunter, EnterTown(h)
    PROVE  DepartureInv'
<1> USE DEF DepartureInv
<1>1. PICK next : /\ TaskBecomes(h, next) /\ DepartureTypeOK'
                  /\ next.at = "leave" /\ next.to = Town /\ next.fresh = FALSE
  BY EnterTownStep, Zenon
<1>2. task'[h] = next /\ \A g \in Hunter \ {h} : task'[g] = task[g]
  BY <1>1 DEF TaskBecomes
<1>3. /\ UNCHANGED <<time, bought, locked, party, setup, where, receipt, trip, pending,
                     counted, gone, requests>>
      /\ Doing(h, "enter") /\ h \notin gone
  BY DEF EnterTown, stageData, usage
<1>4. departure'[h] = Nothing /\ \A g \in Hunter \ {h} : departure'[g] = departure[g]
  BY DEF EnterTown, DepartureTypeOK
<1>5. /\ Travelling(h)' /\ ~Travelling(h) /\ ~InJudgement(h) /\ ~InJudgement(h)'
      /\ ~Refusing(h) /\ ~Refusing(h)' /\ \A p : ~Holds(h, p) /\ ~Holds(h, p)'
      /\ ~Doing(h, "reject") /\ ~Doing(h, "reject")' /\ Due(h) = {} /\ Due(h)' = {}
      /\ Underway(h) /\ Underway(h)' /\ ~Doing(h, "stamp")'
  BY <1>1, <1>2, <1>3
     DEF Travelling, InJudgement, Refusing, Holds, Judges, Doing, Due, Underway
<1>6. LocksHeld'
  BY <1>2, <1>3, <1>5, LocksFrame
<1>7. Whereabouts'
  <2>1. \A g \in Hunter, p \in Place :
           g \in party'[p] => where'[g] = p \/ (Doing(g, "leave")' /\ task'[g].to = p)
    BY <1>2, <1>3 DEF Whereabouts, Doing
  <2>2. OnTheWay(h)'
    BY <1>1, <1>2, <1>4 DEF OnTheWay, Doing
  <2>3. \A g \in Hunter \ {h} : IF Travelling(g)' THEN OnTheWay(g)'
                                ELSE where'[g] \in Place =>
                                        departure'[g] # Nothing /\ departure'[g].place = where'[g]
    BY <1>2, <1>3, <1>4 DEF Whereabouts, Travelling, OnTheWay, Doing
  <2> QED
    BY <1>5, <2>1, <2>2, <2>3 DEF Whereabouts
<1>8. RightsSound'
  <2>1. PinnedSound(h)'
    BY <1>3, <1>4 DEF RightsSound, PinnedSound, Cleared, Sound
  <2>2. ReadSound(h)'
    BY <1>1, <1>2 DEF ReadSound, Doing
  <2> QED
    BY <1>2, <1>3, <1>4, <2>1, <2>2, RightsMove
<1>9. \A p : Away(h, p)'
  BY <1>4, <1>5 DEF Away
<1>10. PartiesLicensed'
  BY <1>2, <1>3, <1>4, <1>5, <1>9, PartiesMove
<1>11. \A p \in Place : ~Admitted(h, p)'
  BY <1>1, <1>2, <1>5 DEF Admitted
<1>12. RefusalsRight'
  BY <1>2, <1>3, <1>4, <1>5, <1>11, RefusalsMove
<1>13. TripsOnce'
  BY <1>2, <1>3, <1>5, <1>1, TripsFrame
<1>14. ~Rests(h)'
  BY <1>1, <1>2, <1>5 DEF Rests
<1>15. TripsAccounted'
  <2>1. trip'[h] + (IF Underway(h)' THEN 1 ELSE 0) <= requests[h]
    BY <1>3, <1>5 DEF TripsAccounted
  <2> QED
    BY <1>2, <1>3, <1>4, <1>5, <1>14, <2>1, AccountsMove, Zenon
<1> QED
  BY <1>1, <1>6, <1>7, <1>8, <1>10, <1>12, <1>13, <1>15

\* A hunter that is in the stage already.
LEMMA StayInv ==
    ASSUME DepartureInv, DepartureTypeOK', NEW h \in Hunter, NEW p \in Place, NEW next,
           Stays(h, p), Doing(h, "enter"), TaskBecomes(h, next),
           next.at = "leave" /\ next.to = p /\ next.fresh = FALSE,
           UNCHANGED <<time, bought, locked, party, setup, where, departure, receipt, trip,
                       pending, counted, gone, requests>>,
           h \notin gone
    PROVE  DepartureInv'
<1> USE DEF DepartureInv
<1>1. task'[h] = next /\ \A g \in Hunter \ {h} : task'[g] = task[g]
  BY DEF TaskBecomes
<1>2. /\ Travelling(h)' /\ ~Travelling(h) /\ ~InJudgement(h) /\ ~InJudgement(h)'
      /\ ~Refusing(h) /\ ~Refusing(h)' /\ \A x : ~Holds(h, x) /\ ~Holds(h, x)'
      /\ ~Doing(h, "reject") /\ ~Doing(h, "reject")' /\ Due(h) = {} /\ Due(h)' = {}
      /\ Underway(h) /\ Underway(h)' /\ ~Doing(h, "stamp")' /\ ~Doing(h, "leave")
      /\ Doing(h, "leave")'
  BY <1>1 DEF Travelling, InJudgement, Refusing, Holds, Judges, Doing, Due, Underway
<1>3. /\ h \in party[p] /\ departure[h] # Nothing /\ departure[h].place = p
      /\ \A x \in Place : h \in party[x] => x = p
      /\ where[h] = p
  BY <1>2 DEF Stays, Whereabouts
<1>4. LocksHeld'
  BY <1>1, <1>2, LocksFrame
<1>5. Whereabouts'
  <2>1. \A g \in Hunter, x \in Place :
           g \in party'[x] => where'[g] = x \/ (Doing(g, "leave")' /\ task'[g].to = x)
    BY <1>1, <1>2 DEF Whereabouts, Doing
  <2>2. OnTheWay(h)'
    BY <1>1, <1>3 DEF OnTheWay, Doing
  <2>3. \A g \in Hunter \ {h} : IF Travelling(g)' THEN OnTheWay(g)'
                                ELSE where'[g] \in Place =>
                                        departure'[g] # Nothing /\ departure'[g].place = where'[g]
    BY <1>1 DEF Whereabouts, Travelling, OnTheWay, Doing
  <2> QED
    BY <1>2, <2>1, <2>2, <2>3 DEF Whereabouts
<1>6. RightsSound'
  <2>1. ReadSound(h)'
    BY <1>1 DEF ReadSound, Doing
  <2> QED
    BY <1>1, <2>1, RightsFrame
<1>7. PartiesLicensed'
  <2>1. \A x : ~Away(h, x) /\ departure'[h] = departure[h]
    BY <1>2 DEF Away
  <2>2. \A x \in Place : h \in party'[x] /\ setup[x] # NoQuest => Hunts(h, x, setup[x])
    BY <2>1 DEF PartiesLicensed
  <2>3. \A x \in Place : h \in party'[x] /\ setup[x] # NoQuest => Hunts(h, x, setup[x])'
    BY <2>2 DEF Hunts
  <2> QED
    BY <1>1, <1>2, <2>1, <2>3, PartiesMove
<1>8. RefusalsRight'
  <2>1. \A x \in Place : Admitted(h, x)' => h \in party'[x]
    BY <1>1, <1>2, <1>3 DEF Admitted
  <2> QED
    BY <1>1, <1>2, <2>1, RefusalsMove
<1>9. TripsOnce'
  BY <1>1, <1>2, TripsFrame
<1>10. Rests(h)
  BY <1>2, <1>3 DEF Rests
<1>11. TripsAccounted'
  <2>1. trip'[h] + (IF Underway(h)' THEN 1 ELSE 0) <= requests[h]
    BY <1>2 DEF TripsAccounted
  <2> QED
    BY <1>1, <1>2, <1>10, <2>1, AccountsMove, Zenon
<1> QED
  BY <1>4, <1>5, <1>6, <1>7, <1>8, <1>9, <1>11

\* A hunter that is admitted.
LEMMA AdmitInv ==
    ASSUME DepartureInv, DepartureTypeOK', NEW h \in Hunter, NEW p \in Place, NEW next,
           Doing(h, "enter"), TaskBecomes(h, next),
           Admits(h, p, task[h].access), h \notin party[p],
           p \notin locked, locked' = locked \cup {p}, departure'[h] \in Departure,
           \A m \in Hunter \ {h} : departure'[m] = departure[m],
           departure'[h].place = p, departure'[h].at = time,
           departure'[h].quest = setup[p], departure'[h].access = task[h].access,
           next.at = "stamp" /\ next.to = p /\ next.fresh = TRUE,
           UNCHANGED <<time, bought, party, setup, where, receipt, trip, pending, counted, gone,
                       requests>>,
           h \notin gone
    PROVE  DepartureInv'
<1> USE DEF DepartureInv
<1>1. task'[h] = next /\ \A g \in Hunter \ {h} : task'[g] = task[g]
  BY DEF TaskBecomes
<1>2. /\ Travelling(h)' /\ ~Travelling(h) /\ ~InJudgement(h) /\ ~InJudgement(h)'
      /\ ~Refusing(h) /\ ~Refusing(h)' /\ \A x : ~Holds(h, x) /\ (Holds(h, x)' <=> x = p)
      /\ ~Doing(h, "reject") /\ ~Doing(h, "reject")' /\ Due(h) = {} /\ Due(h)' = {}
      /\ Underway(h) /\ Underway(h)' /\ Doing(h, "stamp")' /\ ~Doing(h, "leave")
  BY <1>1 DEF Travelling, InJudgement, Refusing, Holds, Judges, Doing, Due, Underway
<1>3. p # Town /\ departure'[h] # Nothing
  OBVIOUS
<1>4. LocksHeld'
  BY <1>1, <1>2, LocksFrame
<1>5. Whereabouts'
  <2>1. \A g \in Hunter, x \in Place :
           g \in party'[x] => where'[g] = x \/ (Doing(g, "leave")' /\ task'[g].to = x)
    BY <1>1, <1>2 DEF Whereabouts, Doing
  <2>2. OnTheWay(h)'
    BY <1>1, <1>3 DEF OnTheWay, Doing
  <2>3. \A g \in Hunter \ {h} : IF Travelling(g)' THEN OnTheWay(g)'
                                ELSE where'[g] \in Place =>
                                        departure'[g] # Nothing /\ departure'[g].place = where'[g]
    BY <1>1 DEF Whereabouts, Travelling, OnTheWay, Doing
  <2> QED
    BY <1>2, <2>1, <2>2, <2>3 DEF Whereabouts
<1>6. RightsSound'
  <2>1. task[h].access # Nothing /\ Sound(h, task[h].access)
    BY Zenon DEF Admits, RightsSound, ReadSound
  <2>2. setup[p] # NoQuest => Allowed(h, setup[p], task[h].access, time)
    BY DEF Admits
  <2>3. PICK d \in Departure : d = departure'[h]
    OBVIOUS
  <2>4. d.at <= time /\ Sound(h, d.access) /\ (d.quest # NoQuest => Allowed(h, d.quest, d.access, d.at))
    BY <2>1, <2>2, <2>3 DEF DepartureTypeOK
  <2>5. Cleared(h, departure[h])'
    BY <2>3, <2>4 DEF Cleared, Sound, Allowed, AccessAllows
  <2>6. PinnedSound(h)'
    BY <2>5 DEF PinnedSound, RightsSound, Cleared, Sound
  <2>7. ReadSound(h)'
    BY <1>1 DEF ReadSound, Doing
  <2> QED
    BY <1>1, <2>6, <2>7, RightsMove
<1>7. PartiesLicensed'
  <2>1. \A x \in Place : x # p => Away(h, x)'
    BY <1>2 DEF Away
  <2>2. departure'[h].quest = setup'[task'[h].to]
    BY <1>1
  <2> QED
    BY <1>1, <1>2, <2>1, <2>2, PartiesMove
<1>8. RefusalsRight'
  <2>1. \A x \in Place : ~Admitted(h, x)'
    BY <1>2 DEF Admitted
  <2> QED
    BY <1>1, <1>2, <2>1, RefusalsMove
<1>9. TripsOnce'
  BY <1>1, <1>2, TripsFrame
<1>10. ~Rests(h)'
  BY <1>1, <1>2 DEF Rests
<1>11. TripsAccounted'
  <2>1. trip'[h] + (IF Underway(h)' THEN 1 ELSE 0) <= requests[h]
    BY <1>2 DEF TripsAccounted
  <2> QED
    BY <1>1, <1>2, <1>10, <2>1, AccountsMove, Zenon
<1> QED
  BY <1>4, <1>5, <1>6, <1>7, <1>8, <1>9, <1>11

\* An entry: the hunter stays, is turned back, or is admitted.
LEMMA EnterQuestInv ==
    ASSUME DepartureInv, NEW h \in Hunter, NEW p \in Place, EnterQuest(h, p)
    PROVE  DepartureInv'
<1>1. /\ UNCHANGED <<time, bought, party, setup, where, receipt, trip, pending, counted, gone,
                     requests>>
      /\ Doing(h, "enter") /\ h \notin gone /\ p \notin locked
  BY Zenon DEF EnterQuest, usage
<1>2. DepartureTypeOK /\ Whereabouts
  BY DEF DepartureInv
<1>3. /\ DepartureTypeOK'
      /\ \/ /\ Stays(h, p) /\ UNCHANGED <<locked, departure>>
            /\ \E next : /\ TaskBecomes(h, next) /\ next.at = "leave"
                         /\ next.to = p /\ next.fresh = FALSE
         \/ UNCHANGED <<locked, departure>> /\ TaskBecomes(h, Idle)
         \/ /\ ~Stays(h, p) /\ Admits(h, p, task[h].access)
            /\ task[h].access \in Access
            /\ locked' = locked \cup {p}
            /\ \A m \in Hunter \ {h} : departure'[m] = departure[m]
            /\ departure'[h] \in Departure
            /\ departure'[h].place = p /\ departure'[h].at = time
            /\ departure'[h].quest = setup[p] /\ departure'[h].access = task[h].access
            /\ \E next : /\ TaskBecomes(h, next) /\ next.at = "stamp"
                         /\ next.to = p /\ next.fresh = TRUE /\ h \notin party[p]
  BY <1>2, EnterQuestStep, Zenon
<1>4. CASE /\ Stays(h, p) /\ UNCHANGED <<locked, departure>>
           /\ \E next : /\ TaskBecomes(h, next) /\ next.at = "leave"
                        /\ next.to = p /\ next.fresh = FALSE
  BY <1>1, <1>3, <1>4, StayInv, Zenon
<1>5. CASE UNCHANGED <<locked, departure>> /\ TaskBecomes(h, Idle)
  BY <1>1, <1>3, <1>5, TurnedBack
<1>6. CASE /\ Admits(h, p, task[h].access)
           /\ locked' = locked \cup {p}
           /\ \A m \in Hunter \ {h} : departure'[m] = departure[m]
           /\ departure'[h] \in Departure
           /\ departure'[h].place = p /\ departure'[h].at = time
           /\ departure'[h].quest = setup[p] /\ departure'[h].access = task[h].access
           /\ \E next : /\ TaskBecomes(h, next) /\ next.at = "stamp"
                        /\ next.to = p /\ next.fresh = TRUE /\ h \notin party[p]
  BY <1>1, <1>3, <1>6, AdmitInv, Zenon
<1> QED
  BY <1>3, <1>4, <1>5, <1>6, Zenon

\* The admission joins the party while the place is still locked.
LEMMA StampInv ==
    ASSUME DepartureInv, NEW h \in Hunter, Stamp(h)
    PROVE  DepartureInv'
<1> USE DEF DepartureInv
<1>1. /\ UNCHANGED <<time, bought, setup, where, departure, trip, pending, counted, gone, requests>>
      /\ Doing(h, "stamp") /\ locked' = locked \ {task[h].to}
  BY DEF Stamp, usage
<1>2. Travelling(h) /\ OnTheWay(h)
  BY <1>1 DEF Whereabouts, Travelling, Doing
<1>3. task[h] \in Stamping
  BY <1>1, Kinds DEF DepartureTypeOK, Doing
<1>4. PICK p \in Place : p = task[h].to
  BY <1>3, Zenon DEF Stamping
<1>5. /\ p # Town /\ departure[h] \in Departure /\ departure[h] # Nothing
      /\ departure[h].place = p /\ departure[h].quest = setup[p]
  BY <1>1, <1>2, <1>4 DEF OnTheWay, DepartureTypeOK, PartiesLicensed
<1>6. PICK next : /\ TaskBecomes(h, next) /\ next.at = "leave"
                  /\ next.to = p /\ next.fresh = TRUE
  BY <1>4, <1>5, StampStep, Zenon
<1>7. /\ DepartureTypeOK'
      /\ \A m \in Hunter \ {h} : receipt'[m] = receipt[m]
      /\ receipt'[h] = Receipt(departure[h])
      /\ \A x \in Place : party'[x] = IF x = p THEN party[x] \cup {h} ELSE party[x]
  <2>1. /\ DepartureTypeOK'
        /\ \A m \in Hunter \ {h} : receipt'[m] = receipt[m]
        /\ receipt'[h] = Receipt(departure[h])
        /\ \A x \in Place : party'[x] = IF x = task[h].to THEN party[x] \cup {h} ELSE party[x]
    BY <1>5, StampStep, Zenon
  <2> QED
    BY <1>4, <2>1, Zenon
<1>8. task'[h] = next /\ \A g \in Hunter \ {h} : task'[g] = task[g]
  BY <1>6 DEF TaskBecomes
<1>9. /\ Travelling(h)' /\ ~InJudgement(h) /\ ~InJudgement(h)'
      /\ ~Refusing(h) /\ ~Refusing(h)' /\ \A x : (Holds(h, x) <=> x = p) /\ ~Holds(h, x)'
      /\ ~Doing(h, "reject") /\ ~Doing(h, "reject")' /\ Due(h) = {} /\ Due(h)' = {}
      /\ Underway(h) /\ Underway(h)' /\ ~Doing(h, "stamp")' /\ Doing(h, "leave")'
  BY <1>1, <1>4, <1>6, <1>8
     DEF Travelling, InJudgement, Refusing, Holds, Judges, Doing, Due, Underway
<1>10. LocksHeld'
  BY <1>1, <1>4, <1>8, <1>9, LocksFrame
<1>11. Whereabouts'
  <2>1. \A g \in Hunter, x \in Place :
           g \in party'[x] => where'[g] = x \/ (Doing(g, "leave")' /\ task'[g].to = x)
    <3>1. \A x \in Place : h \in party'[x] => where'[h] = x \/ x = p
      BY <1>1, <1>7, Zenon DEF Whereabouts, Doing
    <3>2. Doing(h, "leave")' /\ task'[h].to = p
      BY <1>6, <1>8, <1>9
    <3>3. \A g \in Hunter \ {h}, x \in Place : g \in party'[x] =>
             where'[g] = x \/ (Doing(g, "leave")' /\ task'[g].to = x)
      <4>1. \A x \in Place : party'[x] \subseteq party[x] \cup {h}
        BY <1>7, Zenon
      <4>2. \A g \in Hunter \ {h} : where'[g] = where[g] /\ (Doing(g, "leave") <=> Doing(g, "leave")')
        BY <1>1, <1>8 DEF Doing
      <4> QED
        BY <1>8, <4>1, <4>2 DEF Whereabouts
    <3> QED
      BY <3>1, <3>2, <3>3
  <2>2. OnTheWay(h)'
    BY <1>1, <1>5, <1>6, <1>8 DEF OnTheWay, Doing
  <2>3. \A g \in Hunter \ {h} : IF Travelling(g)' THEN OnTheWay(g)'
                                ELSE where'[g] \in Place =>
                                        departure'[g] # Nothing /\ departure'[g].place = where'[g]
    BY <1>1, <1>8 DEF Whereabouts, Travelling, OnTheWay, Doing
  <2> QED
    BY <1>9, <2>1, <2>2, <2>3 DEF Whereabouts
<1>12. RightsSound'
  <2>1. Cleared(h, departure[h])
    BY <1>5 DEF RightsSound, PinnedSound
  <2>2. Cleared(h, Receipt(departure[h]))
    BY <2>1 DEF Cleared, Receipt
  <2>3. PinnedSound(h)'
    BY <1>1, <1>7, <2>1, <2>2 DEF PinnedSound, Cleared, Sound
  <2>4. ReadSound(h)'
    BY <1>6, <1>8 DEF ReadSound, Doing
  <2> QED
    BY <1>1, <1>7, <1>8, <2>3, <2>4, RightsMove
<1>13. PartiesLicensed'
  <2>1. \A x \in Place : x # p => Away(h, x)'
    BY <1>1, <1>5, <1>9 DEF Away
  <2>2. Hunts(h, p, setup[p])'
    BY <1>1, <1>5 DEF Hunts
  <2>3. \A g \in Hunter : ~Judges(g, p)
    <3>1. \A g \in Hunter : Judges(g, p) => Holds(g, p) /\ InJudgement(g)
      BY DEF Holds, Judges
    <3> QED
      BY <1>9, <3>1 DEF LocksHeld
  <2>4. \A x \in Place : h \in party'[x] /\ setup[x] # NoQuest => Away(h, x)' \/ Hunts(h, x, setup[x])'
    <3>1. ASSUME NEW x \in Place, h \in party'[x], setup[x] # NoQuest
          PROVE  Away(h, x)' \/ Hunts(h, x, setup[x])'
      <4>1. CASE x = p
        BY <1>1, <1>5, <4>1 DEF Hunts
      <4>2. CASE x # p
        BY <2>1, <4>2
      <4> QED
        BY <4>1, <4>2
    <3> QED
      BY <3>1
  <2>5. \A x \in Place : party'[x] \subseteq party[x] \cup {h}
    BY <1>7, Zenon
  <2>6. \A g \in Hunter, x \in Place : Judges(g, x) => party'[x] = party[x] /\ Away(h, x)'
    BY <1>7, <2>1, <2>3, Zenon
  <2> QED
    BY <1>1, <1>8, <1>9, <2>4, <2>5, <2>6, PartiesMove
<1>14. RefusalsRight'
  <2>1. \A x \in Place : Admitted(h, x)' => h \in party'[x]
    BY <1>6, <1>7, <1>8, <1>9, ZenonT(60) DEF Admitted
  <2> QED
    BY <1>1, <1>7, <1>8, <1>9, <2>1, RefusalsMove, Zenon
<1>15. TripsOnce'
  BY <1>1, <1>8, <1>9, <1>7, TripsFrame
<1>16. ~Rests(h)'
  BY <1>6, <1>8, <1>9 DEF Rests
<1>17. TripsAccounted'
  <2>1. trip'[h] + (IF Underway(h)' THEN 1 ELSE 0) <= requests[h]
    BY <1>1, <1>2, <1>9 DEF TripsAccounted
  <2> QED
    BY <1>1, <1>8, <1>9, <1>16, <2>1, AccountsMove, Zenon
<1> QED
  BY <1>7, <1>10, <1>11, <1>12, <1>13, <1>14, <1>15, <1>17

\* The old place loses the hunter, and the sweep takes only empty places.
LEMMA LeaveInv ==
    ASSUME DepartureInv, NEW h \in Hunter, Leave(h)
    PROVE  DepartureInv'
<1> USE DEF DepartureInv
<1>1. /\ UNCHANGED <<time, bought, locked, setup, departure, receipt, trip, pending, counted,
                     gone, requests>>
      /\ Doing(h, "leave")
  BY DEF Leave, usage, pinned
<1>2. Travelling(h) /\ OnTheWay(h)
  BY <1>1 DEF Whereabouts, Travelling, Doing
<1>3. PICK next : /\ TaskBecomes(h, next) /\ next.at = "arrive"
                  /\ next.to = task[h].to /\ next.fresh = task[h].fresh
  BY LeaveStep
<1>4. /\ DepartureTypeOK'
      /\ where'[h] = task[h].to /\ \A m \in Hunter \ {h} : where'[m] = where[m]
      /\ \/ where[h] = task[h].to /\ UNCHANGED party
         \/ /\ where[h] # task[h].to /\ locked = {}
            /\ \A p \in Place : party'[p] = IF p = where[h] THEN party[p] \ {h} ELSE party[p]
  BY LeaveStep, Zenon
<1>5. task'[h] = next /\ \A g \in Hunter \ {h} : task'[g] = task[g]
  BY <1>3 DEF TaskBecomes
<1>6. task[h].to \in Place \cup {Town}
  BY <1>1, Kinds DEF Doing, Moving, DepartureTypeOK
<1>7. /\ Travelling(h)' /\ ~InJudgement(h) /\ ~InJudgement(h)'
      /\ ~Refusing(h) /\ ~Refusing(h)' /\ \A x : ~Holds(h, x) /\ ~Holds(h, x)'
      /\ ~Doing(h, "reject") /\ ~Doing(h, "reject")' /\ Due(h) = {} /\ Due(h)' = {}
      /\ Underway(h) /\ Underway(h)' /\ ~Doing(h, "stamp") /\ ~Doing(h, "stamp")'
      /\ Doing(h, "arrive")' /\ ~Doing(h, "leave")'
  BY <1>1, <1>3, <1>5
     DEF Travelling, InJudgement, Refusing, Holds, Judges, Doing, Due, Underway
<1>8. LocksHeld'
  BY <1>1, <1>5, <1>7, LocksFrame
<1>9. \A p \in Place : h \in party'[p] => p = task[h].to
  BY <1>4, ZenonT(60) DEF Whereabouts
<1>10. \A p \in Place : party'[p] \subseteq party[p] /\ party[p] \subseteq party'[p] \cup {h}
  BY <1>4, Zenon
<1>11. Whereabouts'
  <2>1. \A g \in Hunter, x \in Place :
           g \in party'[x] => where'[g] = x \/ (Doing(g, "leave")' /\ task'[g].to = x)
    BY <1>4, <1>5, <1>9, <1>10 DEF Whereabouts, Doing
  <2>2. OnTheWay(h)'
    BY <1>1, <1>2, <1>3, <1>4, <1>5 DEF OnTheWay, Doing
  <2>3. \A g \in Hunter \ {h} : IF Travelling(g)' THEN OnTheWay(g)'
                                ELSE where'[g] \in Place =>
                                        departure'[g] # Nothing /\ departure'[g].place = where'[g]
    BY <1>1, <1>4, <1>5 DEF Whereabouts, Travelling, OnTheWay, Doing
  <2> QED
    BY <1>7, <2>1, <2>2, <2>3 DEF Whereabouts
<1>12. RightsSound'
  <2>1. ReadSound(h)'
    BY <1>3, <1>5 DEF ReadSound, Doing
  <2> QED
    BY <1>1, <1>5, <2>1, RightsFrame
<1>13. PartiesLicensed'
  <2>1. \A x \in Place : Away(h, x)' <=> Away(h, x)
    BY <1>1, <1>2, <1>7 DEF Away
  <2>2. ASSUME NEW x \in Place, h \in party'[x], setup[x] # NoQuest
        PROVE  Away(h, x)' \/ Hunts(h, x, setup[x])'
    <3>1. Away(h, x) \/ Hunts(h, x, setup[x])
      BY <1>10, <2>2 DEF PartiesLicensed
    <3>2. Hunts(h, x, setup[x]) => Hunts(h, x, setup[x])'
      BY <1>1 DEF Hunts
    <3> QED
      BY <2>1, <3>1, <3>2
  <2>3. \A g \in Hunter, x \in Place : Judges(g, x) => party'[x] = party[x]
    <3>1. \A g \in Hunter, x \in Place : Judges(g, x) => x \in locked
      BY DEF LocksHeld, Holds
    <3> QED
      BY <1>4, <3>1
  <2> QED
    BY <1>1, <1>5, <1>7, <1>10, <2>1, <2>2, <2>3, PartiesMove
<1>14. RefusalsRight'
  <2>1. ASSUME NEW x \in Place, Admitted(h, x)', h \notin gone
        PROVE  h \in party'[x] \/ \E g \in Hunter : Refuses(g, h, x)
    <3>1. x = task[h].to
      BY <1>3, <1>5, <1>7, <2>1 DEF Admitted
    <3>2. Admitted(h, x)
      BY <1>2, <1>7, <3>1 DEF Admitted
    <3>3. h \in party[x] => h \in party'[x]
      BY <1>4, <3>1, Zenon
    <3> QED
      BY <2>1, <3>2, <3>3 DEF RefusalsRight
  <2> QED
    BY <1>1, <1>4, <1>5, <1>7, <1>10, <2>1, RefusalsMove
<1>15. TripsOnce'
  BY <1>1, <1>5, <1>7, <1>4, TripsFrame
<1>16. Rests(h)' => Rests(h) /\ where'[h] = where[h]
  <2>1. ASSUME Rests(h)'
        PROVE  Rests(h) /\ where'[h] = where[h]
    <3>1. ~task[h].fresh /\ task[h].to \in Place
      BY <1>3, <1>4, <1>5, <1>7, <2>1 DEF Rests
    <3>2. where[h] = task[h].to
      BY <1>2, <3>1 DEF OnTheWay
    <3> QED
      BY <1>4, <3>1, <3>2 DEF Rests
  <2> QED
    BY <2>1
<1>17. TripsAccounted'
  <2>1. trip'[h] + (IF Underway(h)' THEN 1 ELSE 0) <= requests[h]
    BY <1>1, <1>2, <1>7 DEF TripsAccounted
  <2> QED
    BY <1>1, <1>4, <1>5, <1>7, <1>16, <2>1, AccountsMove, Zenon
<1> QED
  BY <1>4, <1>8, <1>11, <1>12, <1>13, <1>14, <1>15, <1>17

\* A first entry opens a trip: it is counted next, or waits for the setup.
LEMMA ArriveInv ==
    ASSUME DepartureInv, NEW h \in Hunter, Arrive(h)
    PROVE  DepartureInv'
<1> USE DEF DepartureInv
<1>1. /\ UNCHANGED <<time, bought, locked, party, setup, where, departure, receipt, counted,
                     gone, requests>>
      /\ Doing(h, "arrive")
  BY DEF Arrive, stageData, pinned
<1>2. Travelling(h) /\ OnTheWay(h) /\ where[h] = task[h].to
  BY <1>1 DEF Whereabouts, Travelling, OnTheWay, Doing
<1> DEFINE p == where[h]
           n == trip[h] + 1
           fresh == task[h].fresh /\ p # Town
<1>3. PICK next : /\ TaskBecomes(h, next)
                  /\ \/ /\ p = Town /\ pending'[h] = Nothing /\ next.at = "idle"
                     \/ /\ ~fresh /\ p # Town /\ pending'[h] = pending[h] /\ next.at = "idle"
                     \/ /\ fresh /\ setup[p] # NoQuest /\ pending'[h] = Nothing
                        /\ next.at = "count" /\ next.due = {<<h, n>>}
                     \/ /\ fresh /\ setup[p] = NoQuest /\ next.at = "idle"
                        /\ pending'[h] # Nothing
                        /\ pending'[h].id = placeIdOf[p] /\ pending'[h].trip = n
  BY <1>2, ArriveStep, SMTT(40) DEF Idle
<1>4. /\ DepartureTypeOK' /\ p \in Place \cup {Town}
      /\ \A m \in Hunter \ {h} : trip'[m] = trip[m] /\ pending'[m] = pending[m]
      /\ trip'[h] = IF fresh THEN n ELSE trip[h]
  BY <1>2, ArriveStep
<1>5. task'[h] = next /\ \A g \in Hunter \ {h} : task'[g] = task[g]
  BY <1>3 DEF TaskBecomes
<1>6. /\ ~Travelling(h)' /\ ~InJudgement(h) /\ ~InJudgement(h)'
      /\ ~Refusing(h) /\ ~Refusing(h)' /\ \A x : ~Holds(h, x) /\ ~Holds(h, x)'
      /\ ~Doing(h, "reject") /\ ~Doing(h, "reject")' /\ Due(h) = {}
      /\ Underway(h) /\ ~Underway(h)' /\ ~Doing(h, "stamp") /\ ~Doing(h, "stamp")'
      /\ ~Doing(h, "leave") /\ ~Doing(h, "leave")'
  BY <1>1, <1>3, <1>5
     DEF Travelling, InJudgement, Refusing, Holds, Judges, Doing, Due, Underway
<1>7. p # Town => departure[h] # Nothing /\ departure[h].place = p
  BY <1>2 DEF OnTheWay
<1>8. LocksHeld'
  BY <1>1, <1>5, <1>6, LocksFrame
<1>9. Whereabouts'
  <2>1. \A g \in Hunter, x \in Place :
           g \in party'[x] => where'[g] = x \/ (Doing(g, "leave")' /\ task'[g].to = x)
    BY <1>1, <1>5, <1>6 DEF Whereabouts, Doing
  <2>2. \A g \in Hunter \ {h} : IF Travelling(g)' THEN OnTheWay(g)'
                                ELSE where'[g] \in Place =>
                                        departure'[g] # Nothing /\ departure'[g].place = where'[g]
    BY <1>1, <1>5 DEF Whereabouts, Travelling, OnTheWay, Doing
  <2> QED
    BY <1>1, <1>6, <1>7, <2>1, <2>2 DEF Whereabouts
<1>10. RightsSound'
  <2>1. ReadSound(h)'
    BY <1>3, <1>5 DEF ReadSound, Doing
  <2> QED
    BY <1>1, <1>5, <2>1, RightsFrame
<1>11. PartiesLicensed'
  <2>1. \A x \in Place : h \in party[x] => ~Away(h, x)
    BY <1>6, <1>7 DEF Away, Whereabouts
  <2>2. ASSUME NEW x \in Place, h \in party'[x], setup[x] # NoQuest
        PROVE  Hunts(h, x, setup[x])'
    <3>1. Hunts(h, x, setup[x])
      BY <1>1, <2>1, <2>2 DEF PartiesLicensed
    <3> QED
      BY <1>1, <3>1 DEF Hunts
  <2> QED
    BY <1>1, <1>5, <1>6, <2>1, <2>2, PartiesMove
<1>12. RefusalsRight'
  <2>1. \A x \in Place : Admitted(h, x)' => Admitted(h, x)
    BY <1>1, <1>2, <1>6 DEF Admitted
  <2> QED
    BY <1>1, <1>5, <1>6, <2>1, RefusalsMove DEF RefusalsRight
<1>13. trip[h] \in Nat /\ n \in Nat /\ n > trip[h]
  BY DEF DepartureTypeOK
<1>14. TripsOnce'
  <2>1. \A g \in Hunter \ {h} : Due(g)' = Due(g)
    BY <1>5 DEF Due
  <2>2. \A g \in Hunter : trip'[g] >= trip[g] /\ trip'[g] \in Nat /\ trip[g] \in Nat
    <3>1. \A g \in Hunter : trip'[g] \in Nat /\ trip[g] \in Nat
      BY <1>4 DEF DepartureTypeOK
    <3> QED
      BY <1>4, <1>13, <3>1
  <2>3. CASE ~fresh
    <3>1. Due(h)' = {} /\ pending'[h] \in {Nothing, pending[h]}
      BY <1>3, <1>5, <2>3 DEF Due
    <3> QED
      BY <1>1, <1>4, <1>5, <1>6, <2>2, <3>1, TripsShrink, Zenon
  <2>4. CASE fresh
    <3>3. \/ pending'[h] = Nothing /\ Due(h)' = {<<h, n>>}
          \/ pending'[h] # Nothing /\ pending'[h].trip = n /\ Due(h)' = {}
      BY <1>3, <1>5, <2>4 DEF Due
    <3> HIDE DEF n, fresh, p
    <3>1. trip'[h] = n /\ Unspent(h, n)
      BY <1>4, <1>13, <2>4 DEF TripsOnce, Unspent
    <3>2. \A g \in Hunter : <<h, n>> \notin Due(g)
      <4>1. ASSUME NEW g \in Hunter, NEW entry \in Due(g), entry = <<h, n>>
            PROVE  FALSE
        <5>1. entry[2] \in 1 .. trip[entry[1]]
          BY DEF TripsOnce
        <5>2. n \in 1 .. trip[h]
          BY <4>1, <5>1
        <5> QED
          BY <1>13, <5>2
      <4> QED
        BY <4>1, Zenon
    <3>4. ASSUME NEW m \in Hunter, pending'[m] # Nothing
          PROVE  /\ pending'[m].trip \in 1 .. trip'[m] /\ Unspent(m, pending[m].trip)'
                 /\ \A g \in Hunter : <<m, pending'[m].trip>> \notin Due(g)'
      <4>1. CASE m = h
        <5>1. pending'[h].trip = n /\ Due(h)' = {}
          BY <3>3, <3>4, <4>1
        <5>2. \A g \in Hunter : <<h, n>> \notin Due(g)'
          BY <2>1, <3>2, <5>1, Zenon
        <5>3. n \in 1 .. trip'[h] /\ counted' = counted
          BY <1>1, <1>13, <3>1
        <5> QED
          BY <3>1, <4>1, <5>1, <5>2, <5>3, Zenon DEF Unspent
      <4>2. CASE m # h
        <5>1. pending'[m] = pending[m] /\ trip'[m] = trip[m]
          BY <1>4, <4>2
        <5>2. \A g \in Hunter : <<m, pending'[m].trip>> \notin Due(g)'
          BY <2>1, <3>3, <3>4, <4>2, <5>1 DEF TripsOnce
        <5> QED
          BY <1>1, <3>4, <5>1, <5>2, Zenon DEF TripsOnce, Unspent
      <4> QED
        BY <4>1, <4>2, Zenon
    <3>5. ASSUME NEW g \in Hunter, NEW entry \in Due(g)'
          PROVE  /\ entry[2] \in 1 .. trip'[entry[1]] /\ Unspent(entry[1], entry[2])'
                 /\ \A other \in Hunter : entry \in Due(other)' => other = g
      <4>1. CASE entry = <<h, n>>
        <5>1. n \in 1 .. trip'[h]
          BY <1>13, <3>1
        <5>2. g = h /\ \A other \in Hunter : entry \in Due(other)' => other = h
          BY <2>1, <3>2, <3>5, <4>1, SMTT(40)
        <5> QED
          BY <1>1, <3>1, <4>1, <5>1, <5>2 DEF Unspent
      <4>2. CASE entry # <<h, n>>
        <5>1. g # h /\ entry \in Due(g) /\ entry[1] \in Hunter
              /\ \A other \in Hunter : entry \in Due(other)' => entry \in Due(other)
          <6>1. task[g].at \in {"reject", "count"} => task[g].due \subseteq Hunter \X Nat
            BY Kinds DEF DepartureTypeOK, Rejecting, Counting
          <6>2. g # h /\ entry \in Due(g)
            BY <2>1, <3>3, <3>5, <4>2
          <6>3. \A other \in Hunter : entry \in Due(other)' => entry \in Due(other)
            BY <2>1, <3>3, <4>2
          <6> QED
            BY <6>1, <6>2, <6>3 DEF Due
        <5>2. /\ entry[2] \in 1 .. trip[entry[1]] /\ Unspent(entry[1], entry[2])
              /\ \A other \in Hunter : entry \in Due(other) => other = g
          BY <5>1 DEF TripsOnce
        <5>3. entry[2] \in 1 .. trip'[entry[1]]
          BY <2>2, <5>1, <5>2
        <5> QED
          BY <1>1, <5>1, <5>2, <5>3 DEF Unspent
      <4> QED
        BY <4>1, <4>2
    <3>6. \A m \in Hunter : \A k \in DOMAIN counted'[m] :
             counted'[m][k] <= 1 /\ (k > trip'[m] => counted'[m][k] = 0)
      <4>1. \A m \in Hunter : \A k \in DOMAIN counted[m] : k \in Int
        BY DEF DepartureTypeOK
      <4> QED
        BY <1>1, <2>2, <4>1 DEF TripsOnce
    <3> QED
      BY <3>4, <3>5, <3>6 DEF TripsOnce
  <2> QED
    BY <2>3, <2>4
<1>15. TripsAccounted'
  <2>1. trip'[h] + (IF Underway(h)' THEN 1 ELSE 0) <= requests[h]
    <3>1. trip[h] + 1 <= requests[h] /\ requests[h] \in Nat
      BY <1>2, <1>6 DEF TripsAccounted, DepartureTypeOK
    <3> QED
      BY <1>4, <1>6, <1>13, <3>1
  <2>2. ASSUME Rests(h)'
        PROVE  \/ <<h, trip'[h]>> \in Due(h)'
               \/ Awaited(h)'
               \/ /\ departure'[h] = departure[h] /\ where'[h] = where[h]
                  /\ trip'[h] = trip[h] /\ pending'[h] = pending[h] /\ Rests(h)
    <3>1. p \in Place
      BY <1>1, <2>2 DEF Rests
    <3>2. CASE ~fresh
      BY <1>1, <1>2, <1>3, <1>4, <3>1, <3>2 DEF Rests
    <3>3. CASE fresh /\ setup[p] # NoQuest
      BY <1>3, <1>4, <1>5, <3>1, <3>3 DEF Due
    <3>4. CASE fresh /\ setup[p] = NoQuest
      BY <1>1, <1>3, <1>4, <3>1, <3>4 DEF Awaited
    <3> QED
      BY <3>2, <3>3, <3>4
  <2> QED
    BY <1>1, <1>4, <1>5, <1>6, <2>1, <2>2, AccountsMove
<1> QED
  BY <1>4, <1>8, <1>9, <1>10, <1>11, <1>12, <1>14, <1>15

\* A trip that is due is counted, and was not before.
LEMMA CountInv ==
    ASSUME DepartureInv, NEW h \in Hunter, Count(h)
    PROVE  DepartureInv'
<1> USE DEF DepartureInv
<1>1. /\ UNCHANGED <<time, bought, locked, party, setup, where, departure, receipt, trip,
                     pending, gone, requests>>
      /\ Doing(h, "count")
  BY DEF Count, stageData, pinned
<1>2. /\ DepartureTypeOK' /\ TaskBecomes(h, Idle)
      /\ \A m \in Hunter : /\ DOMAIN counted'[m] = DOMAIN counted[m]
                           /\ \A n \in DOMAIN counted[m] : counted'[m][n] =
                                counted[m][n] + IF <<m, n>> \in task[h].due THEN 1 ELSE 0
  BY CountStep
<1>3. task'[h].at = "idle" /\ \A g \in Hunter \ {h} : task'[g] = task[g]
  BY <1>2 DEF TaskBecomes, Idle
<1>4. /\ ~Travelling(h) /\ ~Travelling(h)' /\ ~InJudgement(h) /\ ~InJudgement(h)'
      /\ ~Refusing(h) /\ ~Refusing(h)' /\ \A x : ~Holds(h, x) /\ ~Holds(h, x)'
      /\ ~Doing(h, "reject") /\ ~Doing(h, "reject")' /\ Due(h) = task[h].due /\ Due(h)' = {}
      /\ ~Underway(h)'
  BY <1>1, <1>3 DEF Travelling, InJudgement, Refusing, Holds, Judges, Doing, Due, Underway
<1>5. LocksHeld'
  BY <1>1, <1>3, <1>4, LocksFrame
<1>6. Whereabouts'
  BY <1>1, <1>2, <1>3, <1>4, WhereFrame
<1>7. RightsSound'
  <2>1. ReadSound(h)'
    BY <1>3 DEF ReadSound, Doing
  <2> QED
    BY <1>1, <1>3, <2>1, RightsFrame
<1>8. PartiesLicensed'
  BY <1>1, <1>3, <1>4, PartiesFrame
<1>9. RefusalsRight'
  BY <1>1, <1>3, <1>4, RefusalsFrame
<1>10. \A g \in Hunter \ {h} : Due(g)' = Due(g)
  BY <1>3 DEF Due
<1>11. ASSUME NEW m \in Hunter, NEW n \in DOMAIN counted[m]
       PROVE  /\ counted[m][n] \in Nat
              /\ counted'[m][n] = counted[m][n] + IF <<m, n>> \in Due(h) THEN 1 ELSE 0
  <2>1. counted[m] \in [1 .. MaxRequests[m] -> Nat]
    BY DEF DepartureTypeOK
  <2>2. counted[m][n] \in Nat
    BY <2>1, Zenon
  <2>3. Due(h) = task[h].due
    BY <1>4
  <2>4. counted'[m][n] = counted[m][n] + IF <<m, n>> \in task[h].due THEN 1 ELSE 0
    BY <1>2
  <2> QED
    BY <2>2, <2>3, <2>4
<1>12. \A g \in Hunter : \A entry \in Due(g) : entry \in Hunter \X Nat
  BY Kinds DEF DepartureTypeOK, Rejecting, Counting, Due
<1>13. \A m \in Hunter : \A n : <<m, n>> \notin Due(h) /\ Unspent(m, n) => Unspent(m, n)'
  BY <1>2, <1>11 DEF Unspent
<1>14. TripsOnce'
  <2>1. ASSUME NEW m \in Hunter, pending'[m] # Nothing
        PROVE  /\ pending'[m].trip \in 1 .. trip'[m] /\ Unspent(m, pending[m].trip)'
               /\ \A g \in Hunter : <<m, pending'[m].trip>> \notin Due(g)'
    <3>1. PICK n : n = pending[m].trip
      OBVIOUS
    <3>2. n \in 1 .. trip[m] /\ Unspent(m, n) /\ \A g \in Hunter : <<m, n>> \notin Due(g)
      BY <1>1, <2>1, <3>1 DEF TripsOnce
    <3>3. Unspent(m, n)'
      BY <1>13, <3>2
    <3>4. \A g \in Hunter : <<m, n>> \notin Due(g)'
      BY <1>4, <1>10, <3>2
    <3> QED
      BY <1>1, <3>1, <3>2, <3>3, <3>4, Zenon DEF Unspent
  <2>2. ASSUME NEW g \in Hunter, NEW entry \in Due(g)'
        PROVE  /\ entry[2] \in 1 .. trip'[entry[1]] /\ Unspent(entry[1], entry[2])'
               /\ \A other \in Hunter : entry \in Due(other)' => other = g
    <3>1. g # h /\ entry \in Due(g) /\ entry \in Hunter \X Nat
      BY <1>4, <1>10, <1>12, <2>2
    <3>2. /\ entry[2] \in 1 .. trip[entry[1]] /\ Unspent(entry[1], entry[2])
          /\ \A other \in Hunter : entry \in Due(other) => other = g
      BY <3>1 DEF TripsOnce
    <3>3. entry \notin Due(h) /\ entry = <<entry[1], entry[2]>> /\ entry[1] \in Hunter
      BY <3>1, <3>2
    <3>4. Unspent(entry[1], entry[2])'
      BY <1>13, <3>2, <3>3
    <3> QED
      BY <1>1, <1>4, <1>10, <3>2, <3>4
  <2>3. \A m \in Hunter : \A n \in DOMAIN counted'[m] :
           counted'[m][n] <= 1 /\ (n > trip'[m] => counted'[m][n] = 0)
    <3>1. ASSUME NEW m \in Hunter, NEW n \in DOMAIN counted[m]
          PROVE  counted'[m][n] <= 1 /\ (n > trip[m] => counted'[m][n] = 0)
      <4>1. counted[m][n] <= 1 /\ (n > trip[m] => counted[m][n] = 0)
        BY DEF TripsOnce
      <4>2. ASSUME <<m, n>> \in Due(h)
            PROVE  counted[m][n] = 0 /\ ~(n > trip[m])
        <5>1. PICK entry \in Due(h) : entry = <<m, n>>
          BY <4>2
        <5>2. entry[2] \in 1 .. trip[entry[1]] /\ Unspent(entry[1], entry[2])
          BY DEF TripsOnce
        <5>3. n \in 1 .. trip[m] /\ Unspent(m, n)
          BY <5>1, <5>2
        <5>4. trip[m] \in Nat
          BY DEF DepartureTypeOK
        <5> QED
          BY <5>3, <5>4 DEF Unspent
      <4> QED
        BY <1>11, <4>1, <4>2
    <3> QED
      BY <1>1, <1>2, <3>1
  <2> QED
    BY <2>1, <2>2, <2>3 DEF TripsOnce
<1>15. TripsAccounted'
  <2>1. ASSUME NEW m \in Hunter \ gone, Rests(m)'
        PROVE  \/ trip'[m] \in DOMAIN counted'[m] /\ counted'[m][trip'[m]] = 1
               \/ \E g \in Hunter : <<m, trip'[m]>> \in Due(g)'
               \/ Awaited(m)'
    <3>1. Rests(m)
      BY <1>1, <1>3, <1>4, <2>1 DEF Rests, Travelling
    <3>2. CASE trip[m] \in DOMAIN counted[m] /\ counted[m][trip[m]] = 1
      <4>1. <<m, trip[m]>> \notin Due(h)
        <5>1. ASSUME NEW entry \in Due(h), entry = <<m, trip[m]>>
              PROVE  FALSE
          <6>1. Unspent(entry[1], entry[2])
            BY DEF TripsOnce
          <6> QED
            BY <3>2, <5>1, <6>1 DEF Unspent
        <5> QED
          BY <5>1
      <4> QED
        BY <1>1, <1>2, <1>11, <3>2, <4>1
    <3>3. CASE \E g \in Hunter \ {h} : <<m, trip[m]>> \in Due(g)
      BY <1>1, <1>10, <3>3
    <3>4. CASE <<m, trip[m]>> \in Due(h)
      <4>1. PICK entry \in Due(h) : entry = <<m, trip[m]>>
        BY <3>4
      <4>2. entry[2] \in 1 .. trip[entry[1]] /\ Unspent(entry[1], entry[2])
        BY DEF TripsOnce
      <4>3. trip[m] \in 1 .. trip[m] /\ Unspent(m, trip[m])
        BY <4>1, <4>2
      <4>4. /\ trip[m] \in Nat /\ requests[m] \in Nat /\ requests[m] <= MaxRequests[m]
            /\ MaxRequests[m] \in Nat
            /\ DOMAIN counted[m] = 1 .. MaxRequests[m]
        BY DEF DepartureTypeOK
      <4>5. trip[m] <= requests[m]
        <5>1. trip[m] + (IF Underway(m) THEN 1 ELSE 0) <= requests[m]
          BY DEF TripsAccounted
        <5> QED
          BY <4>4, <5>1
      <4>6. trip[m] \in DOMAIN counted[m]
        BY <4>3, <4>4, <4>5
      <4> QED
        BY <1>1, <1>2, <1>11, <3>4, <4>3, <4>6 DEF Unspent
    <3>5. CASE Awaited(m)
      <4>1. \A g \in Hunter : Doing(g, "reject") => g # h /\ task'[g] = task[g]
        BY <1>3, <1>4
      <4> QED
        BY <1>1, <3>5, <4>1, Zenon
           DEF Awaited, Refuses, Refusing, InJudgement, Ruling, Doing
    <3> QED
      BY <3>1, <3>2, <3>3, <3>4, <3>5, Zenon DEF TripsAccounted
  <2>2. \A m \in Hunter : m \notin gone' \/ Travelling(m)' =>
           trip'[m] + (IF Underway(m)' THEN 1 ELSE 0) <= requests'[m]
    <3>1. \A m \in Hunter \ {h} : (Travelling(m)' <=> Travelling(m)) /\ (Underway(m)' <=> Underway(m))
      BY <1>3 DEF Travelling, Underway
    <3>2. ~Underway(h)
      BY <1>1 DEF Underway, Doing
    <3> QED
      BY <1>1, <1>4, <3>1, <3>2 DEF TripsAccounted
  <2> QED
    BY <1>1, <2>1, <2>2 DEF TripsAccounted
<1> QED
  BY <1>2, <1>5, <1>6, <1>7, <1>8, <1>9, <1>14, <1>15

-----------------------------------------------------------------------------
(* A setup.                                                                  *)

\* The handler of a setup admits nobody, and the setups of other places do not
\* notice it.
LEMMA PartiesSetup ==
    ASSUME DepartureTypeOK, PartiesLicensed, NEW h \in Hunter,
           \A g \in Hunter \ {h} : task'[g] = task[g],
           ~Travelling(h), ~Travelling(h)', UNCHANGED <<setup, departure>>,
           \A p \in Place : party'[p] \subseteq party[p],
           \A g \in Hunter \ {h}, p \in Place : Judges(g, p) => party'[p] = party[p],
           InJudgement(h)' => SetupJudged(h)'
    PROVE  PartiesLicensed'
<1>1. \A g \in Hunter : Doing(g, "stamp")' => departure'[g].quest = setup'[task'[g].to]
  BY DEF PartiesLicensed, Doing, Travelling
<1>2. \A g \in Hunter : \A p : Away(g, p)' <=> Away(g, p)
  BY DEF Away, Travelling
<1>3. ASSUME NEW p \in Place, setup'[p] # NoQuest, NEW m \in party'[p]
      PROVE  (Away(m, p) \/ Hunts(m, p, setup[p]))'
  <2>1. m \in Hunter /\ m \in party[p]
    BY <1>3 DEF DepartureTypeOK
  <2>2. Away(m, p) \/ Hunts(m, p, setup[p])
    BY <1>3, <2>1 DEF PartiesLicensed
  <2>3. Hunts(m, p, setup[p]) => Hunts(m, p, setup[p])'
    BY DEF Hunts
  <2> QED
    BY <1>2, <2>1, <2>2, <2>3
<1>4. \A p \in Place : setup'[p] # NoQuest =>
         \A m \in party'[p] : (Away(m, p) \/ Hunts(m, p, setup[p]))'
  BY <1>3
<1>5. ASSUME NEW g \in Hunter, InJudgement(g)', g # h
      PROVE  SetupJudged(g)'
  <2>1. task'[g] = task[g] /\ InJudgement(g)
    BY <1>5 DEF InJudgement
  <2>2. SetupJudged(g)
    BY <2>1 DEF PartiesLicensed
  <2>3. \A m \in Hunter, p \in Place : Judges(g, p) /\ m \in party[p] =>
           Away(m, p)' \/ (~Away(m, p) /\ departure'[m] = departure[m])
    BY <1>2
  <2> QED
    BY <1>5, <2>1, <2>2, <2>3, SetupKept
<1> QED
  BY <1>1, <1>4, <1>5 DEF PartiesLicensed

\* A setup is taken up: everybody inside is to be judged.
LEMMA SetSetupInv ==
    ASSUME DepartureInv, NEW h \in Hunter, NEW i \in PlaceId,
           NEW q \in QuestId \cup {Malformed}, SetSetup(h, i, q)
    PROVE  DepartureInv'
<1> USE DEF DepartureInv
<1>1. /\ UNCHANGED <<time, bought, onMap, party, setup, where, departure, receipt, trip, pending,
                     counted, gone>>
      /\ Doing(h, "idle") /\ h \notin gone
      /\ requests'[h] = requests[h] + 1 /\ requests'[h] >= requests[h]
      /\ \A g \in Hunter \ {h} : requests'[g] = requests[g]
  BY DEF SetSetup, Take, pinned, usage, DepartureTypeOK
<1>2. /\ ~Travelling(h) /\ ~InJudgement(h) /\ ~Refusing(h) /\ \A x : ~Holds(h, x)
      /\ ~Doing(h, "reject") /\ Due(h) = {}
  BY <1>1 DEF Travelling, InJudgement, Refusing, Holds, Judges, Doing, Due
<1>3. PICK p : p = onMap[i]
  OBVIOUS
<1>4. /\ DepartureTypeOK' /\ p \in Place /\ p \notin locked
      /\ \/ UNCHANGED <<task, locked>>
         \/ /\ ~Conflicts(p, q) /\ locked' = locked \cup {p}
            /\ \E next : TaskBecomes(h, next) /\ BeginsToJudge(next, p, q)
  BY <1>3, SetSetupStep
<1>5. CASE UNCHANGED <<task, locked>>
  <2>1. TaskBecomes(h, task[h])
    BY <1>4, <1>5 DEF TaskBecomes, DepartureTypeOK
  <2>2. RightsSound'
    <3>1. ReadSound(h)'
      BY <1>1, <1>5 DEF ReadSound, Doing
    <3> QED
      BY <1>1, <1>5, <3>1, RightsFrame
  <2>3. Pays(h) /\ Early(h) /\ Early(h)'
    BY <1>1, <1>5 DEF Pays, Early, Doing, Underway, Travelling
  <2> QED
    BY <1>1, <1>4, <1>5, <2>1, <2>2, <2>3, EarlyStep
<1>6. CASE /\ ~Conflicts(p, q) /\ locked' = locked \cup {p}
           /\ \E next : TaskBecomes(h, next) /\ BeginsToJudge(next, p, q)
  <2>1. PICK next : /\ TaskBecomes(h, next) /\ next.at = "judge"
                    /\ next.place = p /\ next.quest = q
                    /\ next.todo = party[p] /\ next.rejected = {}
    BY <1>6 DEF BeginsToJudge
  <2>2. task'[h] = next /\ \A g \in Hunter \ {h} : task'[g] = task[g]
    BY <2>1 DEF TaskBecomes
  <2>3. /\ ~Travelling(h)' /\ Ruling(h)' = next /\ \A x : Holds(h, x)' => x = p
        /\ ~Underway(h)' /\ Due(h)' = {}
    BY <2>1, <2>2 DEF Travelling, Ruling, Holds, Judges, Doing, Underway, Due
  <2>4. LocksHeld'
    BY <1>2, <1>4, <1>6, <2>2, <2>3, LocksFrame
  <2>5. Whereabouts'
    BY <1>1, <1>2, <1>4, <2>2, <2>3, WhereFrame
  <2>6. RightsSound'
    <3>1. ReadSound(h)'
      BY <2>1, <2>2 DEF ReadSound, Doing
    <3> QED
      BY <1>1, <2>2, <3>1, RightsFrame
  <2>7. PartiesLicensed'
    <3>1. ASSUME q # Malformed, NEW m \in party[p]
          PROVE  Away(m, p) \/ Hunts(m, p, q) \/ Hunts(m, p, NoQuest)
      <4>1. m \in Hunter
        BY <1>4 DEF DepartureTypeOK
      <4>2. CASE departure[m] # Nothing /\ departure[m].place = p
        BY <1>6, <3>1, <4>2 DEF Conflicts, Hunts
      <4>3. CASE ~(departure[m] # Nothing /\ departure[m].place = p)
        <5>1. where[m] = p \/ Travelling(m)
          BY <1>4, <4>1 DEF Whereabouts, Doing, Travelling
        <5>2. Travelling(m)
          BY <1>4, <4>1, <4>3, <5>1 DEF Whereabouts
        <5> QED
          BY <4>3, <5>2 DEF Away
      <4> QED
        BY <4>2, <4>3
    <3>2. q # Malformed => (setup[p] \notin {NoQuest, q} => party[p] = {})
      BY <1>6 DEF Conflicts
    <3>3. \A m \in party[p] : (Away(m, p) => Away(m, p)') /\ (Hunts(m, p, q) => Hunts(m, p, q)')
                              /\ (Hunts(m, p, NoQuest) => Hunts(m, p, NoQuest)')
      <4>1. \A m \in party[p] : m \in Hunter
        BY <1>4 DEF DepartureTypeOK
      <4>2. \A m \in Hunter : Travelling(m) => Travelling(m)'
        BY <1>2, <2>2 DEF Travelling
      <4> QED
        BY <1>1, <4>1, <4>2 DEF Away, Hunts
    <3>4. SetupJudged(h)'
      BY <1>1, <1>4, <2>1, <2>2, <2>3, <3>1, <3>2, <3>3 DEF SetupJudged, Doing
    <3> QED
      BY <1>1, <1>2, <2>2, <2>3, <3>4, PartiesSetup
  <2>8. RefusalsRight'
    BY <1>1, <1>2, <2>1, <2>2, <2>3, RefusalsFrame
  <2>9. TripsOnce'
    BY <1>1, <1>4, <2>2, <2>3, TripsFrame
  <2>10. TripsAccounted'
    <3>1. Pays(h)
      BY <1>1, <2>3 DEF Pays
    <3>2. Rests(h)' => Rests(h)
      BY <1>1, <1>2, <2>3 DEF Rests
    <3> QED
      BY <1>1, <1>2, <1>4, <2>2, <2>3, <3>1, <3>2, AccountsFrame
  <2> QED
    BY <1>4, <2>4, <2>5, <2>6, <2>7, <2>8, <2>9, <2>10
<1> QED
  BY <1>4, <1>5, <1>6

\* The handler goes on with the same setup.
LEMMA JudgingOn ==
    ASSUME DepartureInv, DepartureTypeOK', NEW h \in Hunter,
           \A g \in Hunter \ {h} : task'[g] = task[g],
           InJudgement(h), InJudgement(h)', Ruling(h)'.place = Ruling(h).place,
           UNCHANGED <<locked, setup, where, trip, pending, counted, gone, requests>>
    PROVE  /\ ~Travelling(h) /\ ~Travelling(h)' /\ LocksHeld' /\ TripsOnce'
           /\ departure' = departure => TripsAccounted'
<1> USE DEF DepartureInv
<1>1. /\ ~Travelling(h) /\ ~Travelling(h)' /\ ~Doing(h, "reject") /\ Due(h) = {} /\ Due(h)' = {}
      /\ ~Underway(h)'
  BY DEF InJudgement, Travelling, Doing, Due, Underway
<1>2. \A x : (Holds(h, x)' => Holds(h, x)) /\ (x \in Place /\ Holds(h, x) => x \in locked)
  BY DEF Holds, Judges, LocksHeld, InJudgement, Doing
<1>3. LocksHeld'
  BY <1>2, LocksFrame
<1>4. TripsOnce'
  BY <1>1, TripsFrame
<1>5. ASSUME departure' = departure
      PROVE  TripsAccounted'
  <2>1. Rests(h)' => Rests(h)
    BY <1>1 DEF Rests
  <2>2. Pays(h)
    BY <1>1 DEF Pays, DepartureTypeOK
  <2> QED
    BY <1>1, <1>5, <2>1, <2>2, AccountsFrame
<1> QED
  BY <1>1, <1>3, <1>4, <1>5

\* One participant is judged: it passes, is refused, or is to be signed.
LEMMA JudgeInv ==
    ASSUME DepartureInv, NEW h \in Hunter, NEW m \in Hunter, Judge(h, m)
    PROVE  DepartureInv'
<1> USE DEF DepartureInv
<1>1. /\ UNCHANGED <<time, bought, locked, setup, where, departure, receipt, trip, pending,
                     counted, gone, requests>>
      /\ Doing(h, "judge")
  BY Zenon DEF Judge, pinned, usage
<1>2. PICK rest : /\ JudgedRest(h, m, rest)
                  /\ \/ MayStay(h, m, rest) /\ UNCHANGED party /\ TaskBecomes(h, rest)
                     \/ /\ MustGo(h, m, rest) /\ TaskBecomes(h, rest)
                        /\ party' = [party EXCEPT ![task[h].place] = @ \ {m}]
                     \/ /\ UNCHANGED party
                        /\ \E next : TaskBecomes(h, next) /\ WillBeSigned(h, m, rest, next)
  BY JudgeStep
<1>3. DepartureTypeOK' /\ task[h] \in Judging /\ m \in task[h].todo
  BY JudgeStep
<1>4. PICK p \in Place, q \in QuestId \cup {Malformed} : p = task[h].place /\ q = task[h].quest
  BY <1>3 DEF Judging
<1>5. InJudgement(h) /\ Ruling(h) = task[h] /\ SetupJudged(h) /\ m \in party[p] /\ Judges(h, p)
  <2>1. InJudgement(h) /\ Ruling(h) = task[h]
    BY <1>1 DEF InJudgement, Ruling, Doing
  <2>2. SetupJudged(h)
    BY <2>1 DEF PartiesLicensed
  <2> QED
    BY <1>3, <1>4, <2>1, <2>2 DEF SetupJudged, Judges
<1>6. \A g \in Hunter \ {h} : task'[g] = task[g]
  BY <1>2 DEF TaskBecomes
<1>7. InJudgement(h)' /\ Ruling(h)' = rest
  BY <1>2 DEF TaskBecomes, InJudgement, Ruling, JudgedRest, WillBeSigned
<1>8. /\ rest.place = p /\ rest.quest = q /\ rest.todo = task[h].todo \ {m}
  BY <1>2, <1>4 DEF JudgedRest
<1>9. /\ ~Travelling(h) /\ ~Travelling(h)' /\ LocksHeld' /\ TripsOnce' /\ TripsAccounted'
  BY <1>1, <1>3, <1>4, <1>5, <1>6, <1>7, <1>8, JudgingOn
<1>10. /\ \A x \in Place : party'[x] \subseteq party[x] /\ (x # p => party'[x] = party[x])
       /\ party[p] \subseteq party'[p] \cup {m}
  <2>1. party \in [Place -> SUBSET Hunter]
    BY DEF DepartureTypeOK
  <2> QED
    BY <1>2, <1>4, <2>1
<1>11. Whereabouts'
  BY <1>1, <1>3, <1>6, <1>9, <1>10, WhereFrame
<1>12. RightsSound'
  <2>1. CASE TaskBecomes(h, rest)
    <3>1. ReadSound(h)'
      BY <1>2, <2>1 DEF ReadSound, Doing, TaskBecomes, JudgedRest
    <3> QED
      BY <1>1, <1>6, <3>1, RightsFrame
  <2>2. CASE \E next : TaskBecomes(h, next) /\ WillBeSigned(h, m, rest, next)
    <3>1. PICK next : TaskBecomes(h, next) /\ WillBeSigned(h, m, rest, next)
      BY <2>2
    <3>2. PICK d \in Departure : d = departure[m]
      BY <1>4, <3>1 DEF WillBeSigned, Lawful, DepartureTypeOK
    <3>3. Cleared(m, d) /\ d # Nothing
      BY <3>2 DEF RightsSound, PinnedSound
    <3>4. /\ d.place = p /\ d.quest = NoQuest /\ q # Malformed
          /\ Allowed(m, q, d.access, d.at)
      BY <1>4, <3>1, <3>2, <3>3 DEF WillBeSigned, Passes, Lawful
    <3>5. Cleared(m, [d EXCEPT !.quest = q])
      BY <3>3, <3>4 DEF Cleared, Departure
    <3>6. /\ task'[h].at = "validate" /\ task'[h].who = m /\ task'[h].old = d
      BY <3>1, <3>2 DEF TaskBecomes, WillBeSigned
    <3>7. Cleared(m, [d EXCEPT !.quest = q])'
      BY <1>1, <3>5 DEF Cleared, Sound, Allowed, AccessAllows
    <3>8. ReadSound(h)'
      BY <1>7, <1>8, <3>4, <3>6, <3>7 DEF ReadSound, Doing
    <3> QED
      BY <1>1, <1>6, <3>8, RightsFrame
  <2> QED
    BY <1>2, <2>1, <2>2
<1>13. \A x \in Hunter : \A y, z : (Away(x, y)' <=> Away(x, y)) /\ (Hunts(x, y, z)' <=> Hunts(x, y, z))
  BY <1>1, <1>6, <1>9 DEF Away, Hunts, Travelling
<1>14. PartiesLicensed'
  <2>1. \A g \in Hunter \ {h}, x \in Place : Judges(g, x) => x # p
    <3>1. \A g \in Hunter : Holds(g, p) => g = h
      BY <1>4, <1>5 DEF LocksHeld, Holds
    <3> QED
      BY <3>1 DEF Holds
  <2>2. SetupJudged(h)'
    <3>1. party'[p] \subseteq party[p] /\ party'[p] \subseteq Hunter
      BY <1>3, <1>4, <1>10 DEF DepartureTypeOK
    <3>2. rest.todo \subseteq party'[p]
      BY <1>5, <1>8, <1>4, <1>10 DEF SetupJudged
    <3>3. Doing(h, "validate")' => task'[h].who \in party'[p]
      <4>1. CASE TaskBecomes(h, rest)
        BY <1>2, <4>1 DEF TaskBecomes, JudgedRest, Doing
      <4>2. CASE UNCHANGED party /\ \E next : TaskBecomes(h, next) /\ WillBeSigned(h, m, rest, next)
        BY <1>5, <4>2 DEF TaskBecomes, WillBeSigned
      <4> QED
        BY <1>2, <4>1, <4>2
    <3>4. ASSUME q # Malformed
          PROVE  /\ setup[p] \notin {NoQuest, q} => party'[p] = {}
                 /\ \A x \in party'[p] : Away(x, p) \/ Hunts(x, p, q) \/ Hunts(x, p, NoQuest)
      BY <1>4, <1>5, <3>1, <3>4 DEF SetupJudged
    <3>5. ASSUME q # Malformed, NEW x \in party'[p] \ rest.todo
          PROVE  \/ Away(x, p) \/ Hunts(x, p, q)
                 \/ Doing(h, "validate")' /\ task'[h].who = x /\ departure[x] = task'[h].old
      <4>1. CASE x # m
        <5>1. ~Doing(h, "validate")
          BY <1>1 DEF Doing
        <5> QED
          BY <1>4, <1>5, <1>8, <3>1, <3>5, <4>1, <5>1 DEF SetupJudged
      <4>2. CASE x = m
        <5>1. Away(m, p) \/ Hunts(m, p, q) \/ Hunts(m, p, NoQuest)
          BY <1>5, <3>1, <3>4, <3>5, <4>2
        <5>2. CASE MayStay(h, m, rest)
          BY <1>4, <3>5, <4>2, <5>1, <5>2 DEF MayStay, Passes, Away, Hunts
        <5>3. CASE party' = [party EXCEPT ![task[h].place] = @ \ {m}]
          BY <1>4, <3>5, <4>2, <5>3 DEF DepartureTypeOK
        <5>4. CASE \E next : TaskBecomes(h, next) /\ WillBeSigned(h, m, rest, next)
          BY <4>2, <5>4 DEF WillBeSigned, TaskBecomes, Doing
        <5> QED
          BY <1>2, <5>2, <5>3, <5>4
      <4> QED
        BY <4>1, <4>2
    <3> QED
      BY <1>1, <1>7, <1>8, <1>13, <3>1, <3>2, <3>3, <3>4, <3>5 DEF SetupJudged
  <2> QED
    BY <1>1, <1>6, <1>9, <1>10, <2>1, <2>2, PartiesSetup
<1>15. RefusalsRight'
  <2>1. /\ Refusing(h) /\ Refusing(h)' /\ Ruling(h)'.place = p /\ Ruling(h)'.quest = q
        /\ Ruling(h)'.rejected = rest.rejected
    BY <1>4, <1>5, <1>7, <1>8 DEF Refusing
  <2>2. /\ task[h].rejected \subseteq rest.rejected
        /\ \/ rest.rejected = task[h].rejected
           \/ MustGo(h, m, rest) /\ rest.rejected = task[h].rejected \cup {<<m, departure[m]>>}
    BY <1>2 DEF MayStay, MustGo, WillBeSigned
  <2>3. ASSUME MustGo(h, m, rest), departure[m] # Nothing
        PROVE  /\ departure[m].place = p /\ departure[m].quest = NoQuest
               /\ q # Malformed => ~Allowed(m, q, departure[m].access, departure[m].at)
    <3>1. departure[m].place = p /\ (departure[m].quest # NoQuest => q # Malformed)
      BY <1>4, <2>3 DEF MustGo, Passes
    <3>2. q # Malformed => ~Allowed(m, q, departure[m].access, departure[m].at)
      BY <1>4, <2>3 DEF MustGo, Lawful
    <3>3. ASSUME q # Malformed
          PROVE  departure[m].quest \in {q, NoQuest}
      BY <1>4, <1>5, <2>3, <3>1, <3>3 DEF SetupJudged, Away, Hunts
    <3>4. departure[m].quest # NoQuest => Allowed(m, departure[m].quest, departure[m].access, departure[m].at)
      BY <2>3 DEF RightsSound, PinnedSound, Cleared
    <3> QED
      BY <3>1, <3>2, <3>3, <3>4
  <2>4. RefusedRightly(h)'
    <3>1. RefusedRightly(h)
      BY <2>1 DEF RefusalsRight
    <3>2. ASSUME NEW pair \in rest.rejected, pair[2] # Nothing
          PROVE  /\ pair[2].place = p /\ pair[2].quest = NoQuest
                 /\ q # Malformed => ~Allowed(pair[1], q, pair[2].access, pair[2].at)
      <4>1. CASE pair \in task[h].rejected
        BY <1>4, <1>5, <3>1, <3>2, <4>1 DEF RefusedRightly
      <4>2. CASE MustGo(h, m, rest) /\ pair = <<m, departure[m]>>
        BY <2>3, <3>2, <4>2
      <4> QED
        BY <2>2, <3>2, <4>1, <4>2
    <3>3. ASSUME NEW d, NEW x
          PROVE  Allowed(x, q, d.access, d.at)' <=> Allowed(x, q, d.access, d.at)
      BY DEF Allowed, AccessAllows
    <3> QED
      BY <2>1, <3>2 DEF RefusedRightly, Allowed, AccessAllows
  <2>5. \A g \in Hunter \ {h} : Ruling(g)' = Ruling(g) /\ (Refusing(g)' <=> Refusing(g))
    BY <1>6 DEF Ruling, Refusing, InJudgement, Doing
  <2>6. \A g \in Hunter : Refusing(g)' => RefusedRightly(g)'
    BY <2>4, <2>5 DEF RefusalsRight, RefusedRightly
  <2>7. \A g, x \in Hunter, y \in Place : Refuses(g, x, y) => Refuses(g, x, y)'
    BY <1>1, <1>4, <1>5, <2>1, <2>2, <2>5 DEF Refuses
  <2>8. \A x \in Hunter, y \in Place : Admitted(x, y)' <=> Admitted(x, y)
    BY <1>1, <1>6, <1>9 DEF Admitted, Travelling, Doing
  <2>9. \A x \in Hunter, y \in Place :
           x \in party[y] => x \in party'[y] \/ Refuses(h, x, y)'
    <3>1. CASE UNCHANGED party
      BY <3>1
    <3>2. CASE MustGo(h, m, rest)
      <4>1. Refuses(h, m, p)'
        BY <1>1, <2>1, <3>2 DEF Refuses, MustGo
      <4> QED
        BY <1>10, <4>1
    <3> QED
      BY <1>2, <3>1, <3>2
  <2> QED
    BY <1>1, <2>6, <2>7, <2>8, <2>9 DEF RefusalsRight
<1> QED
  BY <1>3, <1>9, <1>11, <1>12, <1>14, <1>15

\* The hunter that was to be signed is not any more, or has been: the judgement
\* goes on.
LEMMA ResumeInv ==
    ASSUME DepartureInv, DepartureTypeOK', RightsSound', NEW h \in Hunter,
           task[h] \in Validating, TaskBecomes(h, task[h].then),
           Doing(h, "validate") => departure[task[h].who] # task[h].old,
           UNCHANGED <<locked, party, setup, where, departure, trip, pending, counted, gone,
                       requests>>
    PROVE  DepartureInv'
<1> USE DEF DepartureInv
<1>1. PICK r \in Judging : r = task[h].then
  BY DEF Validating
<1>2. /\ Ruling(h) = r /\ InJudgement(h) /\ task[h].at # "judge"
      /\ task'[h] = r /\ \A g \in Hunter \ {h} : task'[g] = task[g]
      /\ r.at = "judge"
  BY <1>1 DEF Validating, Ruling, InJudgement, TaskBecomes, Judging
<1>3. InJudgement(h)' /\ Ruling(h)' = r
  BY <1>2 DEF InJudgement, Ruling
<1>4. ~Travelling(h) /\ ~Travelling(h)' /\ LocksHeld' /\ TripsOnce' /\ TripsAccounted'
  BY <1>2, <1>3, JudgingOn
<1>5. Whereabouts'
  BY <1>2, <1>4, WhereFrame
<1>6. PartiesLicensed'
  <2>1. SetupJudged(h)
    BY <1>2 DEF PartiesLicensed
  <2>2. \A x \in Hunter : \A y, z : (Away(x, y)' <=> Away(x, y)) /\ (Hunts(x, y, z)' <=> Hunts(x, y, z))
    BY <1>2, <1>4 DEF Away, Hunts, Travelling
  <2>3. party[r.place] \subseteq Hunter
    BY DEF DepartureTypeOK, Judging
  <2>4. SetupJudged(h)'
    BY <1>2, <1>3, <2>1, <2>2, <2>3 DEF SetupJudged, Doing
  <2> QED
    BY <1>2, <1>4, <2>4, PartiesSetup
<1>7. RefusalsRight'
  BY <1>2, <1>3, <1>4, RefusalsFrame DEF Refusing
<1> QED
  BY <1>4, <1>5, <1>6, <1>7

\* The receipt follows the departure if it is still the same trip.
LEMMA CountersignInv ==
    ASSUME DepartureInv, NEW h \in Hunter, Countersign(h)
    PROVE  DepartureInv'
<1> USE DEF DepartureInv
<1>1. /\ UNCHANGED <<time, bought, locked, party, setup, where, departure, trip, pending,
                     counted, gone, requests>>
      /\ Doing(h, "countersign")
  BY Zenon DEF Countersign, stageData, usage
<1>2. task[h] \in Validating
  BY <1>1, Kinds DEF DepartureTypeOK, Doing
<1>3. PICK m \in Hunter, old \in Departure, r \in Judging :
        m = task[h].who /\ old = task[h].old /\ r = task[h].then
  BY <1>2, Zenon DEF Validating
<1>4. /\ Ruling(h) = r /\ old.place = r.place /\ old.quest = NoQuest /\ r.quest # Malformed
      /\ Cleared(m, [old EXCEPT !.quest = r.quest])
  BY <1>1, <1>3, Zenon DEF RightsSound, ReadSound, Ruling, Doing
<1>5. /\ DepartureTypeOK' /\ TaskBecomes(h, r)
      /\ \A g \in Hunter \ {m} : receipt'[g] = receipt[g]
      /\ \/ receipt'[m] = receipt[m]
         \/ /\ receipt'[m].at = old.at /\ receipt'[m].access = old.access
            /\ receipt'[m].quest = r.quest
  BY <1>3, <1>4, CountersignStep
<1>6. RightsSound'
  <2>1. \A g \in Hunter : PinnedSound(g)'
    <3>1. ASSUME receipt'[m] # receipt[m]
          PROVE  Cleared(m, receipt'[m])
      <4>1. /\ receipt'[m].at = old.at /\ receipt'[m].access = old.access
            /\ receipt'[m].quest = r.quest
        BY <1>5, <3>1
      <4> QED
        BY <1>4, <4>1 DEF Cleared, Departure
    <3>2. ASSUME NEW g \in Hunter
          PROVE  /\ departure'[g] # Nothing => Cleared(g, departure'[g])
                 /\ receipt'[g] # Nothing => Cleared(g, receipt'[g])
      BY <1>1, <1>5, <3>1 DEF RightsSound, PinnedSound
    <3> QED
      BY <1>1, <3>2 DEF PinnedSound, Cleared, Sound, Allowed, AccessAllows
  <2>2. \A g \in Hunter : ReadSound(g)'
    <3>1. ReadSound(h)'
      BY <1>5, SMTT(40) DEF ReadSound, TaskBecomes, Judging, Doing
    <3>2. \A g \in Hunter \ {h} : ReadSound(g)'
      BY <1>1, <1>5 DEF RightsSound, ReadSound, TaskBecomes, Doing, Sound, Cleared, Ruling,
                       Allowed, AccessAllows
    <3> QED
      BY <3>1, <3>2
  <2> QED
    BY <2>1, <2>2 DEF RightsSound
<1> QED
  BY <1>1, <1>2, <1>3, <1>5, <1>6, ResumeInv DEF Doing

\* The departure of a member is changed to one for the quest of the setup.
LEMMA SignInv ==
    ASSUME DepartureInv, DepartureTypeOK', NEW h \in Hunter, NEW next,
           Doing(h, "validate"), task[h] \in Validating, TaskBecomes(h, next),
           next.at = "countersign", next.who = task[h].who, next.old = task[h].old,
           next.then = task[h].then,
           NEW m \in Hunter, m = task[h].who, departure[m] = task[h].old,
           departure'[m] \in Departure,
           departure'[m].place = departure[m].place, departure'[m].at = departure[m].at,
           departure'[m].access = departure[m].access,
           departure'[m].quest = task[h].then.quest,
           \A g \in Hunter \ {m} : departure'[g] = departure[g],
           UNCHANGED <<time, bought, locked, party, setup, where, receipt, trip, pending, counted,
                       gone, requests>>
    PROVE  DepartureInv'
<1> USE DEF DepartureInv
<1>1. PICK r \in Judging, p \in Place, q \in QuestId \cup {Malformed}, old \in Departure :
        /\ r = task[h].then /\ p = r.place /\ q = r.quest /\ old = departure[m]
        /\ old = task[h].old
  BY DEF Validating, Judging
<1>2. /\ Ruling(h) = r /\ InJudgement(h) /\ Judges(h, p) /\ Holds(h, p)
      /\ task'[h] = next /\ \A g \in Hunter \ {h} : task'[g] = task[g]
  BY <1>1 DEF Ruling, InJudgement, Judges, Holds, TaskBecomes, Doing
<1>3. InJudgement(h)' /\ Ruling(h)' = r
  BY <1>1, <1>2 DEF InJudgement, Ruling
<1>4. ~Travelling(h) /\ ~Travelling(h)' /\ LocksHeld' /\ TripsOnce'
  BY <1>1, <1>2, <1>3, JudgingOn
<1>5. /\ old.place = p /\ old.quest = NoQuest /\ q # Malformed
      /\ Cleared(m, [old EXCEPT !.quest = q])
  BY <1>1, <1>2 DEF RightsSound, ReadSound, Doing
<1>6. /\ departure[m] # Nothing /\ departure'[m] # Nothing
      /\ departure[m].place = p /\ departure'[m].place = p /\ q \in QuestId
      /\ departure[m].quest = NoQuest /\ departure'[m].quest = q
  BY <1>1, <1>5, NothingAssumption
<1>7. m \in party[p] /\ SetupJudged(h)
  BY <1>1, <1>2, Zenon DEF PartiesLicensed, SetupJudged
<1>8. \A g \in Hunter : /\ departure'[g] # Nothing <=> departure[g] # Nothing
                        /\ departure[g] # Nothing => departure'[g].place = departure[g].place
                        /\ Travelling(g)' <=> Travelling(g)
                        /\ \A x : Doing(g, "leave")' <=> Doing(g, "leave")
  BY <1>2, <1>4, <1>6 DEF Travelling, Doing
<1>9. Whereabouts'
  <2>1. \A g \in Hunter, x \in Place :
           g \in party'[x] => where'[g] = x \/ (Doing(g, "leave")' /\ task'[g].to = x)
    BY <1>2, <1>4 DEF Whereabouts, Doing, Travelling
  <2>2. \A g \in Hunter : IF Travelling(g)' THEN OnTheWay(g)'
                          ELSE where'[g] \in Place =>
                                  departure'[g] # Nothing /\ departure'[g].place = where'[g]
    BY <1>2, <1>4, <1>8 DEF Whereabouts, OnTheWay, Doing
  <2> QED
    BY <2>1, <2>2 DEF Whereabouts
<1>10. RightsSound'
  <2>1. Cleared(m, departure'[m])
    BY <1>1, <1>5, <1>6 DEF Cleared, Departure
  <2>2. \A g \in Hunter : /\ departure'[g] # Nothing => Cleared(g, departure'[g])
                          /\ receipt'[g] # Nothing => Cleared(g, receipt'[g])
    BY <2>1 DEF RightsSound, PinnedSound
  <2>3. \A g \in Hunter : PinnedSound(g)'
    BY <2>2 DEF PinnedSound, Cleared, Sound, Allowed, AccessAllows
  <2>4. ReadSound(h)'
    <3>1. Cleared(m, [old EXCEPT !.quest = q])'
      BY <1>5 DEF Cleared, Sound, Allowed, AccessAllows
    <3> QED
      BY <1>1, <1>2, <1>3, <1>5, <3>1, SMTT(40) DEF ReadSound, Doing
  <2>5. \A g \in Hunter \ {h} : ReadSound(g)'
    BY <1>2 DEF RightsSound, ReadSound, Doing, Sound, Cleared, Ruling, Allowed, AccessAllows
  <2> QED
    BY <2>3, <2>4, <2>5 DEF RightsSound
<1>11. \A g \in Hunter \ {h} : InJudgement(g) => Ruling(g) \in Judging /\ Ruling(g).place \in Place
                                                /\ Ruling(g).place # p
  <2>1. \A g \in Hunter : Holds(g, p) => g = h
    BY <1>2 DEF LocksHeld
  <2> QED
    BY <2>1, RulingPlace
<1>12. \A x \in Place \ {p} : m \in party[x] => Away(m, x)
  <2>1. ASSUME NEW x \in Place \ {p}, m \in party[x], ~Travelling(m)
        PROVE  FALSE
    BY <1>6, <2>1 DEF Whereabouts, Travelling, Doing
  <2> QED
    BY <1>6, <2>1 DEF Away
<1>13. \A g \in Hunter : \A x : Away(g, x)' <=> Away(g, x)
  BY <1>8 DEF Away
<1>14. setup[p] = NoQuest
  <2>1. ~Away(m, p) /\ \A z : Hunts(m, p, z) => z = NoQuest
    BY <1>6 DEF Away, Hunts
  <2> QED
    BY <1>7, <2>1 DEF PartiesLicensed
<1>15. PartiesLicensed'
  <2>1. ASSUME NEW g \in Hunter, Doing(g, "stamp")'
        PROVE  departure'[g].quest = setup'[task'[g].to]
    <3>1. g # h /\ Doing(g, "stamp") /\ task'[g] = task[g] /\ Travelling(g)
      BY <1>2, <1>4, <2>1 DEF Doing, Travelling
    <3>2. task[g] \in Stamping
      BY <3>1, Kinds DEF DepartureTypeOK, Doing
    <3>3. task[g].to \in Place /\ task[g].to # Town
      BY <3>2, DepartureAssumption, Zenon DEF Stamping
    <3>4. departure[g] # Nothing /\ departure[g].place = task[g].to
      BY <3>1, <3>3 DEF Whereabouts, OnTheWay
    <3>5. Holds(g, task[g].to)
      BY <3>1 DEF Holds
    <3>6. g # m
      BY <1>2, <1>6, <3>1, <3>4, <3>5 DEF LocksHeld
    <3> QED
      BY <3>1, <3>6 DEF PartiesLicensed
  <2>2. ASSUME NEW x \in Place, setup'[x] # NoQuest, NEW g \in party'[x]
        PROVE  (Away(g, x) \/ Hunts(g, x, setup[x]))'
    <3>1. g \in Hunter /\ x # p
      BY <1>14, <2>2 DEF DepartureTypeOK
    <3>2. Away(g, x) \/ Hunts(g, x, setup[x])
      BY <2>2 DEF PartiesLicensed
    <3>3. CASE g = m
      BY <1>12, <1>13, <2>2, <3>1, <3>3
    <3>4. CASE g # m
      BY <1>13, <3>1, <3>2, <3>4, SMTT(40) DEF Hunts
    <3> QED
      BY <3>3, <3>4
  <2>3. SetupJudged(h)'
    <3>1. party[p] \subseteq Hunter
      BY DEF DepartureTypeOK
    <3>2. \A g \in Hunter \ {m} : \A z : Hunts(g, p, z)' <=> Hunts(g, p, z)
      BY DEF Hunts
    <3>3. Hunts(m, p, q)'
      BY <1>6 DEF Hunts
    <3> QED
      BY <1>1, <1>2, <1>3, <1>7, <1>13, <3>1, <3>2, <3>3 DEF SetupJudged, Doing
  <2>4. ASSUME NEW g \in Hunter \ {h}, InJudgement(g)'
        PROVE  SetupJudged(g)'
    <3>1. task'[g] = task[g] /\ InJudgement(g)
      BY <1>2, <2>4 DEF InJudgement
    <3>2. SetupJudged(g) /\ \A x \in Place : Judges(g, x) => x # p
      BY <1>11, <3>1 DEF PartiesLicensed, Judges
    <3>3. ASSUME NEW y \in Hunter, NEW x \in Place, Judges(g, x), y \in party[x]
          PROVE  Away(y, x)' \/ (~Away(y, x) /\ departure'[y] = departure[y])
      BY <1>12, <1>13, <3>2, <3>3
    <3> QED
      BY <3>1, <3>2, <3>3, SetupKept
  <2> QED
    BY <2>1, <2>2, <2>3, <2>4 DEF PartiesLicensed
<1>16. \A x \in Place : Admitted(m, x) => x = p
  <2>1. ASSUME NEW x \in Place, Admitted(m, x), Travelling(m)
        PROVE  x = p
    BY <1>6, <2>1, DepartureAssumption DEF Admitted, Whereabouts, OnTheWay
  <2>2. ASSUME NEW x \in Place, Admitted(m, x), ~Travelling(m)
        PROVE  x = p
    BY <1>6, <2>2 DEF Admitted, Whereabouts
  <2> QED
    BY <2>1, <2>2
<1>17. RefusalsRight'
  <2>1. \A g \in Hunter : Ruling(g)' = Ruling(g) /\ (Refusing(g)' <=> Refusing(g))
    BY <1>2, <1>3 DEF Ruling, Refusing, InJudgement, Doing
  <2>2. \A g \in Hunter : Refusing(g)' => RefusedRightly(g)'
    BY <2>1 DEF RefusalsRight, RefusedRightly, Allowed, AccessAllows
  <2>3. \A g \in Hunter, y \in Hunter \ {m}, x \in Place : Refuses(g, y, x) => Refuses(g, y, x)'
    BY <2>1, Zenon DEF Refuses
  <2>4. \A y \in Hunter, x \in Place : Admitted(y, x)' => Admitted(y, x)
    BY <1>2, <1>4 DEF Admitted, Travelling, Doing
  <2> QED
    BY <1>7, <1>16, <2>2, <2>3, <2>4 DEF RefusalsRight
<1>18. TripsAccounted'
  <2>1. ~Doing(h, "reject") /\ ~Doing(h, "reject")' /\ Due(h) = {}
    BY <1>2 DEF Due, Doing
  <2>2. \A x \in Hunter : (Rests(x)' => Rests(x)) /\ (Underway(x)' <=> Underway(x))
    BY <1>2, <1>4, <1>8 DEF Rests, Underway, Doing
  <2>3. \A g \in Hunter : Due(g) \subseteq Due(g)'
    BY <1>2, <2>1 DEF Due
  <2>4. ASSUME Rests(m), Awaited(m)
        PROVE  Awaited(m)'
    <3>1. Doing(m, "stamp") => task[m].fresh
      BY Kinds, Zenon DEF DepartureTypeOK, Doing, Stamping
    <3>2. Admitted(m, where[m])
      BY <2>4, <3>1 DEF Admitted, Rests, Travelling
    <3>3. where[m] = p
      BY <1>16, <2>4, <3>2 DEF Rests
    <3> QED
      BY <1>14, <2>4, <3>3 DEF Awaited
  <2>5. ASSUME NEW x \in Hunter \ {m}, Awaited(x)
        PROVE  Awaited(x)'
    <3>1. \A g \in Hunter : Doing(g, "reject") => g # h /\ task'[g] = task[g] /\ Doing(g, "reject")'
      BY <1>2, <2>1 DEF Doing
    <3>2. \A g \in Hunter : \A y : Doing(g, "reject") /\ Refuses(g, x, y) => Refuses(g, x, y)'
      BY <3>1, Zenon DEF Refuses, Refusing, Ruling, Doing
    <3> QED
      BY <2>5, <3>1, <3>2 DEF Awaited
  <2> QED
    BY <1>8, <2>2, <2>3, <2>4, <2>5 DEF TripsAccounted
<1> QED
  BY <1>4, <1>9, <1>10, <1>15, <1>17, <1>18

\* The first compare-and-swap: the departure has changed, or is signed.
LEMMA ValidateInv ==
    ASSUME DepartureInv, NEW h \in Hunter, Validate(h)
    PROVE  DepartureInv'
<1>1. /\ UNCHANGED <<time, bought, locked, party, setup, where, receipt, trip, pending,
                     counted, gone, requests>>
      /\ Doing(h, "validate")
  BY Zenon DEF Validate, stageData, usage
<1>2. DepartureTypeOK /\ RightsSound
  BY DEF DepartureInv
<1>3. task[h].then.quest # Malformed
  BY <1>1, <1>2, Zenon DEF RightsSound, ReadSound, Ruling, Doing
<1>4. PICK m : m = task[h].who
  OBVIOUS
<1>5. /\ DepartureTypeOK' /\ task[h] \in Validating
      /\ \A g \in Hunter \ {m} : departure'[g] = departure[g]
      /\ \/ /\ departure[m] = task[h].old /\ departure'[m] \in Departure
            /\ departure'[m].place = departure[m].place
            /\ departure'[m].at = departure[m].at
            /\ departure'[m].access = departure[m].access
            /\ departure'[m].quest = task[h].then.quest
            /\ \E next : /\ TaskBecomes(h, next) /\ next.at = "countersign"
                         /\ next.who = m /\ next.old = task[h].old
                         /\ next.then = task[h].then
         \/ /\ departure[m] # task[h].old /\ UNCHANGED departure
            /\ TaskBecomes(h, task[h].then)
  BY <1>2, <1>3, <1>4, ValidateStep
<1>6. m \in Hunter
  BY <1>4, <1>5 DEF Validating
<1>7. CASE departure[m] # task[h].old /\ UNCHANGED departure /\ TaskBecomes(h, task[h].then)
  <2>1. RightsSound'
    <3>1. ReadSound(h)'
      BY <1>5, <1>7 DEF ReadSound, TaskBecomes, Validating, Judging, Doing
    <3>2. \A g \in Hunter \ {h} : task'[g] = task[g]
      BY <1>7 DEF TaskBecomes
    <3> QED
      BY <1>1, <1>2, <1>7, <3>1, <3>2, RightsFrame
  <2> QED
    BY <1>1, <1>4, <1>5, <1>7, <2>1, ResumeInv
<1>8. CASE /\ departure[m] = task[h].old /\ departure'[m] \in Departure
           /\ departure'[m].place = departure[m].place
           /\ departure'[m].at = departure[m].at
           /\ departure'[m].access = departure[m].access
           /\ departure'[m].quest = task[h].then.quest
           /\ \E next : /\ TaskBecomes(h, next) /\ next.at = "countersign"
                        /\ next.who = m /\ next.old = task[h].old
                        /\ next.then = task[h].then
  <2>1. PICK next : /\ TaskBecomes(h, next) /\ next.at = "countersign"
                    /\ next.who = m /\ next.old = task[h].old
                    /\ next.then = task[h].then
    BY <1>8
  <2> QED
    BY <1>1, <1>4, <1>5, <1>6, <1>8, <2>1, SignInv
<1> QED
  BY <1>5, <1>7, <1>8

\* All have been judged: the place is set up and unlocked.
LEMMA StoreInv ==
    ASSUME DepartureInv, NEW h \in Hunter, Store(h)
    PROVE  DepartureInv'
<1> USE DEF DepartureInv
<1>1. /\ UNCHANGED <<time, bought, party, where, departure, receipt, trip, pending, counted,
                     gone, requests>>
      /\ Doing(h, "judge")
  BY Zenon DEF Store, pinned, usage
<1>2. PICK p, q : p = task[h].place /\ q = task[h].quest
  BY Zenon
<1>3. /\ DepartureTypeOK' /\ task[h] \in Judging /\ task[h].todo = {}
      /\ \A x \in Place \ {p} : setup'[x] = setup[x]
      /\ setup'[p] = IF q # Malformed THEN q ELSE setup[p]
      /\ locked' = locked \ {p}
      /\ \E next : /\ TaskBecomes(h, next) /\ next.at = "reject" /\ next.place = p
                   /\ next.quest = q /\ next.rejected = task[h].rejected
                   /\ next.due = {} /\ next.clients = IF q # Malformed THEN party[p] ELSE {}
  BY <1>2, StoreStep, Zenon
<1>4. PICK next : /\ TaskBecomes(h, next) /\ next.at = "reject" /\ next.place = p
                  /\ next.quest = q /\ next.rejected = task[h].rejected
                  /\ next.due = {} /\ next.clients = IF q # Malformed THEN party[p] ELSE {}
  BY <1>3
<1>5. /\ task'[h] = next /\ \A g \in Hunter \ {h} : task'[g] = task[g]
      /\ p \in Place /\ q \in QuestId \cup {Malformed}
  BY <1>2, <1>3, <1>4 DEF TaskBecomes, Judging
<1>6. /\ Ruling(h) = task[h] /\ InJudgement(h) /\ Judges(h, p) /\ Holds(h, p) /\ Refusing(h)
      /\ ~Travelling(h) /\ ~Doing(h, "reject") /\ ~Underway(h) /\ Due(h) = {}
  BY <1>1, <1>2 DEF Ruling, InJudgement, Judges, Holds, Refusing, Travelling, Doing,
     Underway, Due
<1>7. /\ Ruling(h)' = next /\ ~InJudgement(h)' /\ Refusing(h)' /\ ~Travelling(h)'
      /\ Doing(h, "reject")' /\ ~Underway(h)' /\ Due(h)' = {} /\ \A x : ~Holds(h, x)'
  BY <1>4, <1>5 DEF Ruling, InJudgement, Holds, Judges, Refusing, Travelling, Doing,
     Underway, Due
<1>8. LocksHeld'
  BY <1>3, <1>5, <1>6, <1>7, LocksFrame
<1>9. Whereabouts'
  BY <1>1, <1>3, <1>5, <1>6, <1>7, WhereFrame
<1>10. RightsSound'
  <2>1. ReadSound(h)'
    BY <1>4, <1>5 DEF ReadSound, Doing
  <2> QED
    BY <1>1, <1>5, <2>1, RightsFrame
<1>11. \A g \in Hunter \ {h} : ~Holds(g, p)
  BY <1>5, <1>6 DEF LocksHeld
<1>12. PartiesLicensed'
  <2>1. ASSUME NEW g \in Hunter, Doing(g, "stamp")'
        PROVE  departure'[g].quest = setup'[task'[g].to]
    <3>1. g # h /\ Doing(g, "stamp") /\ task'[g] = task[g]
      BY <1>5, <1>7, <2>1 DEF Doing
    <3>2. task[g].to \in Place /\ task[g].to # p
      BY <1>11, <3>1, Kinds, Zenon DEF DepartureTypeOK, Stamping, Holds, Doing
    <3> QED
      BY <1>1, <1>3, <3>1, <3>2 DEF PartiesLicensed
  <2>2. \A g \in Hunter : \A x, z : (Away(g, x)' <=> Away(g, x)) /\ (Hunts(g, x, z)' <=> Hunts(g, x, z))
    BY <1>1, <1>5, <1>6, <1>7 DEF Away, Hunts, Travelling
  <2>3. ASSUME q # Malformed, NEW m \in party[p]
        PROVE  Away(m, p) \/ Hunts(m, p, q)
    BY <1>1, <1>2, <1>3, <1>6, <2>3, ZenonT(60) DEF PartiesLicensed, SetupJudged, Doing
  <2>4. ASSUME NEW x \in Place, setup'[x] # NoQuest, NEW m \in party'[x]
        PROVE  (Away(m, x) \/ Hunts(m, x, setup[x]))'
    <3>1. m \in Hunter /\ m \in party[x]
      BY <1>1, <2>4 DEF DepartureTypeOK
    <3>2. CASE x = p /\ q # Malformed
      BY <1>3, <2>2, <2>3, <3>1, <3>2
    <3>3. CASE ~(x = p /\ q # Malformed)
      BY <1>3, <2>2, <2>4, <3>1, <3>3 DEF PartiesLicensed
    <3> QED
      BY <3>2, <3>3
  <2>5. ASSUME NEW g \in Hunter, InJudgement(g)'
        PROVE  SetupJudged(g)'
    <3>1. g # h /\ task'[g] = task[g] /\ InJudgement(g)
      BY <1>5, <1>7, <2>5 DEF InJudgement
    <3>2. SetupJudged(g) /\ \A x \in Place : Judges(g, x) => x # p
      BY <1>11, <3>1 DEF PartiesLicensed, Holds
    <3>3. \A m \in Hunter, x \in Place : Judges(g, x) /\ m \in party[x] =>
             Away(m, x)' \/ (~Away(m, x) /\ departure'[m] = departure[m])
      BY <1>1, <2>2, Zenon
    <3> QED
      BY <1>1, <1>3, <3>1, <3>2, <3>3, SetupKept
  <2> QED
    BY <2>1, <2>4, <2>5 DEF PartiesLicensed
<1>13. RefusalsRight'
  BY <1>1, <1>2, <1>4, <1>5, <1>6, <1>7, RefusalsFrame
<1>14. setup' = setup \/ q # Malformed
  BY <1>3 DEF DepartureTypeOK
<1>15. TripsOnce'
  BY <1>1, <1>3, <1>5, <1>6, <1>7, TripsFrame
<1>16. TripsAccounted'
  <2>1. \A x \in Hunter : (Rests(x)' => Rests(x)) /\ (Underway(x)' <=> Underway(x))
                          /\ (Travelling(x)' <=> Travelling(x))
    BY <1>1, <1>5, <1>6, <1>7 DEF Rests, Underway, Travelling
  <2>2. \A g \in Hunter : Due(g) \subseteq Due(g)'
    BY <1>5, <1>6 DEF Due
  <2>3. \A g, x \in Hunter : \A y : Refuses(g, x, y) => Refuses(g, x, y)'
    <3>1. \A g \in Hunter \ {h} : Ruling(g)' = Ruling(g) /\ (Refusing(g)' <=> Refusing(g))
      BY <1>5 DEF Ruling, Refusing, InJudgement, Doing
    <3>2. Ruling(h)'.place = Ruling(h).place /\ Ruling(h)'.rejected = Ruling(h).rejected
      BY <1>2, <1>4, <1>6, <1>7
    <3> QED
      BY <1>1, <1>7, <3>1, <3>2 DEF Refuses
  <2>4. \A g \in Hunter : Doing(g, "reject") => g # h /\ task'[g] = task[g] /\ Doing(g, "reject")'
    BY <1>5, <1>6 DEF Doing
  <2>5. ASSUME NEW x \in Hunter \ gone, Rests(x), Awaited(x)
        PROVE  Awaited(x)'
    <3>1. CASE where[x] = p /\ q # Malformed
      <4>1. Doing(x, "stamp") => task[x].fresh
        BY Kinds, Zenon DEF DepartureTypeOK, Doing, Stamping
      <4>2. Admitted(x, p)
        BY <2>5, <3>1, <4>1 DEF Admitted, Rests, Travelling
      <4>3. x \in party[p] \/ \E g \in Hunter : Refuses(g, x, p)
        BY <1>5, <4>2 DEF RefusalsRight
      <4>4. \A g \in Hunter : Refuses(g, x, p) => g = h \/ Doing(g, "reject")
        <5>1. \A g \in Hunter \ {h} : InJudgement(g) => Ruling(g).place # p
          BY <1>11 DEF Holds, Judges
        <5> QED
          BY <5>1 DEF Refuses, Refusing
      <4>5. \A g \in Hunter : Doing(g, "reject") /\ Refuses(g, x, p) => task[g].place = p
        BY DEF Refuses, Ruling, Doing
      <4>6. \E g \in Hunter : /\ Doing(g, "reject")' /\ task'[g].place = p
                              /\ x \in task'[g].clients \/ Refuses(g, x, p)'
        <5>1. CASE x \in party[p] \/ Refuses(h, x, p)
          BY <1>4, <1>5, <1>7, <2>3, <3>1, <5>1
        <5>2. CASE \E g \in Hunter \ {h} : Refuses(g, x, p)
          BY <2>3, <2>4, <4>4, <4>5, <5>2
        <5> QED
          BY <4>3, <5>1, <5>2
      <4> QED
        BY <1>1, <2>5, <3>1, <4>6 DEF Awaited
    <3>2. CASE ~(where[x] = p /\ q # Malformed)
      <4>1. setup'[where[x]] = setup[where[x]]
        BY <1>3, <2>5, <3>2 DEF Rests
      <4> QED
        BY <1>1, <2>3, <2>4, <2>5, <4>1 DEF Awaited
    <3> QED
      BY <3>1, <3>2
  <2> QED
    BY <1>1, <2>1, <2>2, <2>5 DEF TripsAccounted
<1> QED
  BY <1>3, <1>8, <1>9, <1>10, <1>12, <1>13, <1>15, <1>16

-----------------------------------------------------------------------------
(* After the lock has been released.                                         *)

\* The refused departure is not the hunter's any more, or it has left.
LEMMA SpareInv ==
    ASSUME DepartureInv, DepartureTypeOK', NEW h \in Hunter, NEW p \in Place,
           NEW m \in Hunter, NEW old, NEW next,
           task[h].at = "reject", task[h].place = p, ~Travelling(m),
           TaskBecomes(h, next), next.at = "reject", next.place = p,
           next.quest = task[h].quest, next.due = task[h].due, next.clients = task[h].clients,
           next.rejected = task[h].rejected \ {<<m, old>>},
           ~(departure[m] = old /\ where[m] = p),
           UNCHANGED <<time, bought, locked, party, setup, where, departure, receipt, trip,
                       pending, counted, gone, requests>>
    PROVE  DepartureInv'
<1> USE DEF DepartureInv
<1>1. task'[h] = next /\ \A g \in Hunter \ {h} : task'[g] = task[g]
  BY DEF TaskBecomes
<1>2. /\ ~Travelling(h) /\ ~Travelling(h)' /\ ~InJudgement(h) /\ ~InJudgement(h)'
      /\ Doing(h, "reject") /\ Doing(h, "reject")' /\ Due(h)' = Due(h)
      /\ ~Underway(h) /\ ~Underway(h)' /\ Ruling(h) = task[h] /\ Ruling(h)' = next
      /\ \A x : ~Holds(h, x) /\ ~Holds(h, x)'
  BY <1>1 DEF Travelling, InJudgement, Doing, Due, Underway, Ruling, Holds, Judges
<1>3. LocksHeld'
  BY <1>1, <1>2, LocksFrame
<1>4. Whereabouts'
  BY <1>1, <1>2, WhereFrame
<1>5. RightsSound'
  <2>1. ReadSound(h)'
    BY <1>1 DEF ReadSound, Doing
  <2> QED
    BY <1>1, <2>1, RightsFrame
<1>6. PartiesLicensed'
  BY <1>1, <1>2, PartiesFrame
<1>7. \A g \in Hunter \ {h} : Ruling(g)' = Ruling(g) /\ (Refusing(g)' <=> Refusing(g))
                              /\ (Doing(g, "reject")' <=> Doing(g, "reject"))
  BY <1>1 DEF Ruling, Refusing, InJudgement, Doing
<1>8. Refusing(h) /\ Refusing(h)'
  BY <1>2 DEF Refusing
<1>9. \A g, x \in Hunter : \A y : Refuses(g, x, y) =>
         \/ Refuses(g, x, y)'
         \/ g = h /\ x = m /\ y = p /\ where[m] # p
  BY <1>2, <1>7, <1>8 DEF Refuses
<1>10. RefusalsRight'
  <2>1. \A g \in Hunter : Refusing(g)' => RefusedRightly(g)'
    <3>1. \A g \in Hunter \ {h} : Refusing(g)' => RefusedRightly(g)'
      BY <1>7 DEF RefusalsRight, RefusedRightly
    <3>2. RefusedRightly(h)'
      BY <1>2, <1>8 DEF RefusalsRight, RefusedRightly
    <3> QED
      BY <3>1, <3>2
  <2>2. \A x \in Hunter, y \in Place : Admitted(x, y)' <=> Admitted(x, y)
    BY <1>1, <1>2 DEF Admitted, Travelling, Doing
  <2>3. Admitted(m, p) => where[m] = p
    BY DEF Admitted
  <2> QED
    BY <1>9, <2>1, <2>2, <2>3 DEF RefusalsRight
<1>11. TripsOnce'
  BY <1>1, <1>2, TripsFrame
<1>12. TripsAccounted'
  <2>1. \A x \in Hunter : /\ Rests(x)' <=> Rests(x)
                          /\ Underway(x)' <=> Underway(x)
                          /\ Travelling(x)' <=> Travelling(x)
    BY <1>1, <1>2 DEF Rests, Underway, Travelling
  <2>2. \A g \in Hunter : Due(g)' = Due(g)
    BY <1>1, <1>2 DEF Due
  <2>3. ASSUME NEW x \in Hunter, Awaited(x)
        PROVE  Awaited(x)'
    <3>1. \A g \in Hunter : Doing(g, "reject") =>
             Doing(g, "reject")' /\ task'[g].place = task[g].place
                                 /\ task'[g].clients = task[g].clients
      BY <1>1, <1>2 DEF Doing
    <3> QED
      BY <1>9, <2>3, <3>1 DEF Awaited
  <2> QED
    BY <2>1, <2>2, <2>3 DEF TripsAccounted
<1> QED
  BY <1>3, <1>4, <1>5, <1>6, <1>10, <1>11, <1>12

\* No handler holds a place, so nobody is being judged or admitted.
LEMMA Unlocked ==
    ASSUME DepartureTypeOK, LocksHeld, locked = {}, NEW g \in Hunter
    PROVE  ~InJudgement(g) /\ ~Doing(g, "stamp")
<1>1. Doing(g, "stamp") => task[g].to \in Place
  BY Kinds, Zenon DEF DepartureTypeOK, Doing, Stamping
<1> QED
  BY <1>1, RulingPlace DEF LocksHeld, Holds

\* A hunter that is in p and not travelling leaves its place for good.
LEMMA ExpelInv ==
    ASSUME DepartureInv, DepartureTypeOK', NEW h \in Hunter, NEW p \in Place,
           NEW m \in Hunter, NEW old, NEW next,
           task[h].at = "reject", task[h].place = p, ~Travelling(m),
           TaskBecomes(h, next), next.at = "reject", next.place = p,
           next.quest = task[h].quest, next.due = task[h].due, next.clients = task[h].clients,
           next.rejected = task[h].rejected \ {<<m, old>>},
           Expelled(m, p),
           UNCHANGED <<time, bought, locked, setup, receipt, counted, requests>>
    PROVE  DepartureInv'
<1> USE DEF DepartureInv, Expelled
<1>1. task'[h] = next /\ \A g \in Hunter \ {h} : task'[g] = task[g]
  BY DEF TaskBecomes
<1>2. /\ ~Travelling(h) /\ ~Travelling(h)' /\ ~InJudgement(h) /\ ~InJudgement(h)'
      /\ Doing(h, "reject") /\ Doing(h, "reject")' /\ Due(h)' = Due(h)
      /\ ~Underway(h) /\ ~Underway(h)' /\ Ruling(h) = task[h] /\ Ruling(h)' = next
      /\ \A x : ~Holds(h, x) /\ ~Holds(h, x)'
  BY <1>1 DEF Travelling, InJudgement, Doing, Due, Underway, Ruling, Holds, Judges
<1>3. LocksHeld'
  BY <1>1, <1>2, LocksFrame
<1>4. \A g \in Hunter : /\ ~InJudgement(g) /\ ~Doing(g, "stamp")
                        /\ ~InJudgement(g)' /\ ~Doing(g, "stamp")'
                        /\ Travelling(g)' <=> Travelling(g)
  BY <1>1, <1>2, Unlocked DEF InJudgement, Doing, Travelling
<1>5. NoPlace \notin Place \cup {Town}
  BY DepartureAssumption
<1>6. \A x \in Place : m \notin party'[x]
  <2>1. ~Doing(m, "leave")
    BY DEF Travelling, Doing
  <2> QED
    BY <2>1, ZenonT(60) DEF Whereabouts
<1>7. Whereabouts'
  <2>1. \A g \in Hunter \ {m} : IF Travelling(g)' THEN OnTheWay(g)'
                                ELSE where'[g] \in Place =>
                                        departure'[g] # Nothing /\ departure'[g].place = where'[g]
    BY <1>1, <1>2 DEF Whereabouts, OnTheWay, Travelling, Doing
  <2>2. ~Travelling(m)' /\ where'[m] \notin Place
    BY <1>4, <1>5
  <2>3. \A x \in Place : party'[x] \subseteq party[x]
    BY Zenon
  <2>4. \A g \in Hunter \ {m}, x \in Place :
           g \in party'[x] => where'[g] = x \/ (Doing(g, "leave")' /\ task'[g].to = x)
    BY <1>1, <1>2, <2>3 DEF Whereabouts, Doing
  <2> QED
    BY <1>6, <2>1, <2>2, <2>4 DEF Whereabouts
<1>8. RightsSound'
  <2>1. \A g \in Hunter : PinnedSound(g)'
    BY SMTT(40) DEF RightsSound, PinnedSound, Cleared, Sound, Allowed, AccessAllows
  <2>2. ReadSound(h)'
    BY <1>1 DEF ReadSound, Doing
  <2>3. \A g \in Hunter \ {h} : ReadSound(g)'
    BY <1>1 DEF RightsSound, ReadSound, Doing, Sound, Cleared, Ruling, Allowed, AccessAllows
  <2> QED
    BY <2>1, <2>2, <2>3 DEF RightsSound
<1>9. PartiesLicensed'
  <2>1. ASSUME NEW x \in Place, setup'[x] # NoQuest, NEW g \in party'[x]
        PROVE  (Away(g, x) \/ Hunts(g, x, setup[x]))'
    <3>1. g \in Hunter \ {m} /\ g \in party[x]
      <4>1. party'[x] \subseteq party[x] /\ party[x] \subseteq Hunter
        BY <2>1, ZenonT(60) DEF DepartureTypeOK
      <4> QED
        BY <1>6, <2>1, <4>1
    <3>2. Away(g, x) \/ Hunts(g, x, setup[x])
      BY <2>1, <3>1 DEF PartiesLicensed
    <3> QED
      BY <1>4, <3>1, <3>2 DEF Away, Hunts
  <2> QED
    BY <1>4, <2>1 DEF PartiesLicensed
<1>10. \A g \in Hunter \ {h} : Ruling(g)' = Ruling(g) /\ (Refusing(g)' <=> Refusing(g))
                               /\ (Doing(g, "reject")' <=> Doing(g, "reject"))
  BY <1>1 DEF Ruling, Refusing, InJudgement, Doing
<1>11. Refusing(h) /\ Refusing(h)'
  BY <1>2 DEF Refusing
<1>12. \A g \in Hunter, x \in Hunter \ {m} : \A y : Refuses(g, x, y) => Refuses(g, x, y)'
  BY <1>2, <1>10, <1>11, SMTT(40) DEF Refuses
<1>13. RefusalsRight'
  <2>1. \A g \in Hunter : Refusing(g)' => RefusedRightly(g)'
    <3>1. \A g \in Hunter \ {h} : Refusing(g)' => RefusedRightly(g)'
      BY <1>10 DEF RefusalsRight, RefusedRightly, Allowed, AccessAllows
    <3>2. RefusedRightly(h)'
      BY <1>2, <1>11 DEF RefusalsRight, RefusedRightly, Allowed, AccessAllows
    <3> QED
      BY <3>1, <3>2
  <2>2. \A x \in Hunter \ {m}, y \in Place : Admitted(x, y)' <=> Admitted(x, y)
    BY <1>1, <1>2, SMTT(40) DEF Admitted, Travelling, Doing
  <2>3. \A y \in Place : ~Admitted(m, y)'
    BY <1>4, <1>5 DEF Admitted
  <2>4. \A x \in Hunter \ {m}, y \in Place : x \in party[y] => x \in party'[y]
    BY Zenon
  <2> QED
    BY <1>12, <2>1, <2>2, <2>3, <2>4 DEF RefusalsRight
<1>14. TripsOnce'
  <2>1. \A g \in Hunter : trip'[g] >= trip[g] /\ pending'[g] \in {Nothing, pending[g]}
    <3>1. \A g \in Hunter : trip[g] \in Nat
      BY DEF DepartureTypeOK
    <3> QED
      BY <3>1
  <2> QED
    BY <1>1, <1>2, <2>1, TripsShrink
<1>15. TripsAccounted'
  <2>1. \A x \in Hunter \ {m} : /\ Rests(x)' <=> Rests(x)
                                /\ Underway(x)' <=> Underway(x)
                                /\ Travelling(x)' <=> Travelling(x)
    BY <1>1, <1>2 DEF Rests, Underway, Travelling
  <2>2. \A g \in Hunter : Due(g)' = Due(g)
    BY <1>1, <1>2 DEF Due
  <2>3. ASSUME NEW x \in Hunter \ {m}, Awaited(x)
        PROVE  Awaited(x)'
    <3>1. \A g \in Hunter : Doing(g, "reject") =>
             Doing(g, "reject")' /\ task'[g].place = task[g].place
                                 /\ task'[g].clients = task[g].clients
      BY <1>1, <1>2 DEF Doing
    <3> QED
      BY <1>12, <2>3, <3>1 DEF Awaited
  <2>4. m \in gone' /\ ~Travelling(m)'
    BY <1>4
  <2> QED
    BY <2>1, <2>2, <2>3, <2>4 DEF TripsAccounted
<1> QED
  BY <1>3, <1>7, <1>8, <1>9, <1>13, <1>14, <1>15

\* A refused hunter is expelled, or has left in the meantime.
LEMMA RejectInv ==
    ASSUME DepartureInv, NEW h \in Hunter, NEW m, NEW old, Reject(h, m, old)
    PROVE  DepartureInv'
<1>1. UNCHANGED <<time, bought, locked, setup, receipt, counted, requests>> /\ Doing(h, "reject")
  BY Zenon DEF Reject
<1>2. DepartureTypeOK
  BY DEF DepartureInv
<1>3. PICK p : p = task[h].place
  OBVIOUS
<1>4. /\ DepartureTypeOK' /\ task[h] \in Rejecting /\ p \in Place
      /\ m \in Hunter /\ ~Travelling(m)
      /\ \E next : TaskBecomes(h, next) /\ StillRejects(h, m, old, next)
      /\ \/ Expelled(m, p)
         \/ /\ ~(departure[m] = old /\ where[m] = p)
            /\ UNCHANGED <<gone, departure, trip, pending, party, where>>
  BY <1>2, <1>3, RejectStep DEF Rejecting
<1>5. PICK next : TaskBecomes(h, next) /\ StillRejects(h, m, old, next)
  BY <1>4
<1>6. /\ next.at = "reject" /\ next.place = p
      /\ next.quest = task[h].quest /\ next.due = task[h].due /\ next.clients = task[h].clients
      /\ next.rejected = task[h].rejected \ {<<m, old>>}
  BY <1>3, <1>5 DEF StillRejects
<1>7. CASE /\ ~(departure[m] = old /\ where[m] = p)
           /\ UNCHANGED <<gone, departure, trip, pending, party, where>>
  BY <1>1, <1>3, <1>4, <1>5, <1>6, <1>7, SpareInv, Zenon DEF Doing
<1>8. CASE Expelled(m, p)
  BY <1>1, <1>3, <1>4, <1>5, <1>6, <1>8, ExpelInv, Zenon DEF Doing
<1> QED
  BY <1>4, <1>7, <1>8

\* A waiting trip becomes due, in the hands of this handler only.
LEMMA ArmInv ==
    ASSUME DepartureInv, NEW h \in Hunter, NEW m \in Hunter, Arm(h, m)
    PROVE  DepartureInv'
<1> USE DEF DepartureInv
<1>1. /\ UNCHANGED <<time, bought, locked, party, setup, where, departure, receipt, trip,
                     counted, gone, requests>>
      /\ Doing(h, "reject")
  BY Zenon DEF Arm, stageData, pinned
<1>2. PICK p : p = task[h].place
  OBVIOUS
<1>3. /\ DepartureTypeOK' /\ task[h] \in Rejecting
      /\ task[h].rejected = {} /\ m \in task[h].clients /\ ~Travelling(m)
      /\ \A g \in Hunter \ {m} : pending'[g] = pending[g]
      /\ pending'[m] = IF Waiting(m, p) THEN Nothing ELSE pending[m]
      /\ \E next : TaskBecomes(h, next) /\ StillArms(h, m, next)
  BY <1>2, ArmStep
<1>4. PICK next : /\ TaskBecomes(h, next) /\ next.at = "reject" /\ next.place = p
                  /\ next.quest = task[h].quest /\ next.rejected = {}
                  /\ next.clients = task[h].clients \ {m}
                  /\ next.due = task[h].due \cup
                        IF Waiting(m, p) THEN {<<m, pending[m].trip>>} ELSE {}
  BY <1>2, <1>3 DEF StillArms
<1>5. task'[h] = next /\ \A g \in Hunter \ {h} : task'[g] = task[g]
  BY <1>4 DEF TaskBecomes
<1>6. /\ ~Travelling(h) /\ ~Travelling(h)' /\ ~InJudgement(h) /\ ~InJudgement(h)'
      /\ Doing(h, "reject")' /\ Due(h) = task[h].due /\ Due(h)' = next.due
      /\ ~Underway(h) /\ ~Underway(h)' /\ Ruling(h) = task[h] /\ Ruling(h)' = next
      /\ \A x : ~Holds(h, x) /\ ~Holds(h, x)'
  BY <1>1, <1>4, <1>5
  DEF Travelling, InJudgement, Doing, Due, Underway, Ruling, Holds, Judges
<1>7. LocksHeld'
  BY <1>1, <1>5, <1>6, LocksFrame
<1>8. Whereabouts'
  BY <1>1, <1>3, <1>5, <1>6, WhereFrame
<1>9. RightsSound'
  <2>1. ReadSound(h)'
    BY <1>4, <1>5 DEF ReadSound, Doing
  <2> QED
    BY <1>1, <1>5, <2>1, RightsFrame
<1>10. PartiesLicensed'
  BY <1>1, <1>5, <1>6, PartiesFrame
<1>11. RefusalsRight'
  <2>1. Ruling(h).rejected = {} /\ Ruling(h)'.rejected = {}
    BY <1>3, <1>4, <1>6
  <2> QED
    BY <1>1, <1>5, <1>6, <2>1, RefusalsFrame
<1>12. \A g \in Hunter \ {h} : Due(g)' = Due(g)
  BY <1>5 DEF Due
<1>13. TripsOnce'
  <2>1. CASE ~Waiting(m, p)
    <3>1. Due(h)' \subseteq Due(h) /\ pending' = pending
      BY <1>3, <1>4, <1>6, <2>1 DEF DepartureTypeOK
    <3> QED
      BY <1>1, <1>3, <1>5, <3>1, TripsFrame
  <2>2. CASE Waiting(m, p)
    <3>1. PICK n : n = pending[m].trip
      OBVIOUS
    <3>2. /\ pending[m] # Nothing /\ pending'[m] = Nothing
          /\ Due(h)' = Due(h) \cup {<<m, n>>}
      BY <1>3, <1>4, <1>6, <2>2, <3>1 DEF Waiting
    <3>3. n \in 1 .. trip[m] /\ Unspent(m, n) /\ \A g \in Hunter : <<m, n>> \notin Due(g)
      BY <3>1, <3>2 DEF TripsOnce
    <3>4. ASSUME NEW x \in Hunter, pending'[x] # Nothing
          PROVE  /\ pending'[x].trip \in 1 .. trip'[x] /\ Unspent(x, pending[x].trip)'
                 /\ \A g \in Hunter : <<x, pending'[x].trip>> \notin Due(g)'
      <4>1. x # m /\ pending'[x] = pending[x]
        BY <1>3, <3>2, <3>4
      <4>2. /\ pending[x].trip \in 1 .. trip[x] /\ Unspent(x, pending[x].trip)
            /\ \A g \in Hunter : <<x, pending[x].trip>> \notin Due(g)
        BY <3>4, <4>1 DEF TripsOnce
      <4> QED
        <5>1. <<x, pending[x].trip>> # <<m, n>>
          BY <4>1
        <5>2. ASSUME NEW g \in Hunter
              PROVE  <<x, pending[x].trip>> \notin Due(g)'
          BY <1>12, <3>2, <4>2, <5>1, Zenon
        <5> QED
          BY <1>1, <4>1, <4>2, <5>2, Zenon DEF Unspent
    <3>5. ASSUME NEW g \in Hunter, NEW entry \in Due(g)'
          PROVE  /\ entry[2] \in 1 .. trip'[entry[1]] /\ Unspent(entry[1], entry[2])'
                 /\ \A other \in Hunter : entry \in Due(other)' => other = g
      <4>1. CASE entry = <<m, n>>
        <5>1. ASSUME NEW x \in Hunter, entry \in Due(x)', x # h
              PROVE  FALSE
          <6>1. <<m, n>> \in Due(x)
            BY <1>12, <4>1, <5>1
          <6> QED
            BY <3>3, <6>1
        <5>2. n \in 1 .. trip'[m] /\ Unspent(m, n)'
          BY <1>1, <3>3 DEF Unspent
        <5>3. entry[1] = m /\ entry[2] = n
          BY <4>1
        <5> QED
          BY <3>5, <5>1, <5>2, <5>3
      <4>2. CASE entry # <<m, n>>
        <5>1. \A x \in Hunter : entry \in Due(x)' <=> entry \in Due(x)
          BY <1>12, <3>2, <4>2
        <5>2. /\ entry[2] \in 1 .. trip[entry[1]] /\ Unspent(entry[1], entry[2])
              /\ \A other \in Hunter : entry \in Due(other) => other = g
          BY <3>5, <5>1 DEF TripsOnce
        <5> QED
          BY <1>1, <5>1, <5>2 DEF Unspent
      <4> QED
        BY <4>1, <4>2
    <3> QED
      BY <1>1, <3>4, <3>5 DEF TripsOnce
  <2> QED
    BY <2>1, <2>2
<1>14. TripsAccounted'
  <2>1. \A x \in Hunter : /\ Rests(x)' <=> Rests(x)
                          /\ Underway(x)' <=> Underway(x)
                          /\ Travelling(x)' <=> Travelling(x)
    BY <1>1, <1>5, <1>6 DEF Rests, Underway, Travelling
  <2>2. \A g \in Hunter : Due(g) \subseteq Due(g)'
    BY <1>4, <1>6, <1>12
  <2>3. \A g, x \in Hunter : \A y :
           Doing(g, "reject") /\ task[g].place = y /\ (x \in task[g].clients \/ Refuses(g, x, y)) =>
              \/ g = h /\ x = m /\ y = p
              \/ (Doing(g, "reject") /\ task[g].place = y /\ (x \in task[g].clients \/ Refuses(g, x, y)))'
    <3>1. \A g \in Hunter \ {h} : \A x, y : Doing(g, "reject") /\ Refuses(g, x, y) => Refuses(g, x, y)'
      BY <1>1, <1>5 DEF Refuses, Refusing, Ruling, Doing
    <3>2. \A x, y : ~Refuses(h, x, y)
      BY <1>3, <1>6 DEF Refuses
    <3> QED
      BY <1>2, <1>4, <1>5, <3>1, <3>2 DEF Doing
  <2>4. ASSUME NEW x \in Hunter, x # m \/ ~Waiting(m, p), x \notin gone, Awaited(x), Rests(x)
        PROVE  Awaited(x)'
    <3>1. pending'[x] = pending[x]
      BY <1>3, <2>4
    <3>2. x = m => where[x] # p
      BY <2>4 DEF Waiting, Awaited
    <3>3. /\ pending[x] # Nothing /\ pending[x].trip = trip[x]
          /\ pending[x].id = placeIdOf[where[x]]
          /\ \/ setup[where[x]] = NoQuest
             \/ \E g \in Hunter : /\ Doing(g, "reject") /\ task[g].place = where[x]
                                  /\ x \in task[g].clients \/ Refuses(g, x, where[x])
      BY <2>4 DEF Awaited
    <3>4. where'[x] = where[x] /\ trip'[x] = trip[x] /\ setup'[where[x]] = setup[where[x]]
      BY <1>1
    <3>5. CASE setup[where[x]] = NoQuest
      BY <3>1, <3>3, <3>4, <3>5 DEF Awaited
    <3>6. ASSUME NEW g \in Hunter, Doing(g, "reject"), task[g].place = where[x],
                 x \in task[g].clients \/ Refuses(g, x, where[x])
          PROVE  Awaited(x)'
      <4>1. (/\ Doing(g, "reject") /\ task[g].place = where[x]
             /\ x \in task[g].clients \/ Refuses(g, x, where[x]))'
        BY <2>3, <3>2, <3>4, <3>6
      <4> QED
        BY <3>1, <3>3, <3>4, <4>1 DEF Awaited
    <3> QED
      BY <3>3, <3>5, <3>6
  <2>5. ASSUME Waiting(m, p), Awaited(m)
        PROVE  <<m, trip[m]>> \in Due(h)'
    BY <1>4, <1>6, <2>5 DEF Awaited
  <2> QED
    BY <1>1, <2>1, <2>2, <2>4, <2>5, Zenon DEF TripsAccounted
<1> QED
  BY <1>3, <1>7, <1>8, <1>9, <1>10, <1>11, <1>13, <1>14

\* The dues of a setup pass on to the counting.
LEMMA ArmedInv ==
    ASSUME DepartureInv, NEW h \in Hunter, Armed(h)
    PROVE  DepartureInv'
<1> USE DEF DepartureInv
<1>1. /\ UNCHANGED <<time, bought, locked, party, setup, where, departure, receipt, trip,
                     pending, counted, gone, requests>>
      /\ Doing(h, "reject")
  BY Zenon DEF Armed, stageData, pinned, usage
<1>2. /\ DepartureTypeOK' /\ task[h] \in Rejecting
      /\ task[h].rejected = {} /\ task[h].clients = {}
      /\ \E next : TaskBecomes(h, next) /\ next.at = "count" /\ next.due = task[h].due
  BY ArmedStep
<1>3. PICK next : TaskBecomes(h, next) /\ next.at = "count" /\ next.due = task[h].due
  BY <1>2
<1>4. task'[h] = next /\ \A g \in Hunter \ {h} : task'[g] = task[g]
  BY <1>3 DEF TaskBecomes
<1>5. /\ ~Travelling(h) /\ ~Travelling(h)' /\ ~InJudgement(h) /\ ~InJudgement(h)'
      /\ ~Refusing(h)' /\ Due(h) = task[h].due /\ Due(h)' = task[h].due
      /\ ~Underway(h) /\ ~Underway(h)' /\ Ruling(h).rejected = {}
      /\ \A x : ~Holds(h, x) /\ ~Holds(h, x)'
  BY <1>1, <1>2, <1>3, <1>4
  DEF Travelling, InJudgement, Refusing, Doing, Due, Underway, Ruling, Holds, Judges
<1>6. LocksHeld'
  BY <1>1, <1>4, <1>5, LocksFrame
<1>7. Whereabouts'
  BY <1>1, <1>2, <1>4, <1>5, WhereFrame
<1>8. RightsSound'
  <2>1. ReadSound(h)'
    BY <1>3, <1>4 DEF ReadSound, Doing
  <2> QED
    BY <1>1, <1>4, <2>1, RightsFrame
<1>9. PartiesLicensed'
  BY <1>1, <1>4, <1>5, PartiesFrame
<1>10. RefusalsRight'
  BY <1>1, <1>4, <1>5, RefusalsFrame
<1>11. TripsOnce'
  BY <1>1, <1>2, <1>4, <1>5, TripsFrame
<1>12. TripsAccounted'
  <2>1. Rests(h)' => Rests(h)
    BY <1>1, <1>5 DEF Rests
  <2>2. Pays(h)
    BY <1>1, <1>5 DEF Pays, DepartureTypeOK
  <2> QED
    BY <1>1, <1>2, <1>4, <1>5, <2>1, <2>2, AccountsFrame
<1> QED
  BY <1>2, <1>6, <1>7, <1>8, <1>9, <1>10, <1>11, <1>12

-----------------------------------------------------------------------------
(* The session.                                                              *)

\* A closed session is nobody whose trip must be accounted for.
LEMMA DisconnectInv ==
    ASSUME DepartureInv, NEW h \in Hunter, Disconnect(h)
    PROVE  DepartureInv'
<1> USE DEF DepartureInv
<1>1. /\ UNCHANGED <<time, bought, locked, party, setup, where, departure, receipt, trip,
                     pending, counted, task, requests>>
      /\ gone \subseteq gone'
  BY DEF Disconnect, stageData, pinned, usage
<1>2. DepartureTypeOK'
  BY DisconnectStep
<1>3. RightsSound'
  BY <1>1, RightsLater DEF DepartureTypeOK
<1> QED
  BY <1>1, <1>2, <1>3, TimeStep

\* A step of a logout, which may come in the middle of a transfer of the hunter:
\* it only shrinks parties, and nobody relies on the hunter being in one.
LEMMA PartsInv ==
    ASSUME DepartureInv, DepartureTypeOK', NEW h \in Hunter, Parts(h)
    PROVE  DepartureInv'
<1> USE DEF DepartureInv
<1>1. UNCHANGED <<time, bought, locked, setup, departure, receipt, trip, pending, counted, task,
                  gone, requests>>
  BY Zenon DEF Parts
<1>2. /\ h \in gone
      /\ \A m \in Hunter \ {h} : where'[m] = where[m]
      /\ \/ where'[h] = where[h]
         \/ where'[h] = NoPlace /\ ~Travelling(h) /\ \A p \in Place : h \notin party'[p]
  BY Zenon DEF Parts
<1>3. \A p \in Place : /\ party'[p] \subseteq party[p] /\ party[p] \ {h} \subseteq party'[p]
                       /\ p \in locked => party'[p] = party[p]
  BY ZenonT(60) DEF Parts
<1>4. \A g \in Hunter : /\ Travelling(g)' <=> Travelling(g)
                        /\ InJudgement(g)' <=> InJudgement(g)
                        /\ Ruling(g)' = Ruling(g)
                        /\ \A step : Doing(g, step)' <=> Doing(g, step)
  BY <1>1 DEF Travelling, InJudgement, Ruling, Doing
<1>5. NoPlace \notin Place \cup {Town}
  BY DepartureAssumption
<1>6. LocksHeld'
  BY <1>1 DEF LocksHeld, Holds, Judges, InJudgement, Ruling, Doing
<1>7. Whereabouts'
  <2>1. ASSUME NEW g \in Hunter, NEW x \in Place, g \in party'[x]
        PROVE  where'[g] = x \/ (Doing(g, "leave")' /\ task'[g].to = x)
    <3>1. where[g] = x \/ (Doing(g, "leave") /\ task[g].to = x)
      BY <1>3, <2>1, Zenon DEF Whereabouts
    <3>2. where'[g] = where[g]
      BY <1>2, <2>1, Zenon
    <3> QED
      BY <1>1, <3>1, <3>2 DEF Doing
  <2>2. ASSUME NEW g \in Hunter, where'[g] = where[g]
        PROVE  IF Travelling(g)' THEN OnTheWay(g)'
               ELSE where'[g] \in Place =>
                       departure'[g] # Nothing /\ departure'[g].place = where'[g]
    BY <1>1, <2>2 DEF Whereabouts, OnTheWay, Travelling, Doing
  <2>3. CASE where'[h] = NoPlace /\ ~Travelling(h)
    <3>1. ~Travelling(h)' /\ where'[h] \notin Place
      BY <1>4, <1>5, <2>3
    <3>2. \A g \in Hunter : IF Travelling(g)' THEN OnTheWay(g)'
                            ELSE where'[g] \in Place =>
                                    departure'[g] # Nothing /\ departure'[g].place = where'[g]
      BY <1>2, <2>2, <3>1, Zenon
    <3> QED
      BY <2>1, <3>2, Zenon DEF Whereabouts
  <2>4. CASE where'[h] = where[h]
    BY <1>2, <2>1, <2>2, <2>4, Zenon DEF Whereabouts
  <2> QED
    BY <1>2, <2>3, <2>4
<1>8. RightsSound'
  BY <1>1, RightsLater DEF DepartureTypeOK
<1>9. PartiesLicensed'
  <2>1. ASSUME NEW x \in Place, setup'[x] # NoQuest, NEW g \in party'[x]
        PROVE  (Away(g, x) \/ Hunts(g, x, setup[x]))'
    <3>1. g \in Hunter /\ g \in party[x]
      BY <1>3, <2>1 DEF DepartureTypeOK
    <3>2. Away(g, x) \/ Hunts(g, x, setup[x])
      BY <1>1, <2>1, <3>1 DEF PartiesLicensed
    <3> QED
      BY <1>1, <1>4, <3>1, <3>2 DEF Away, Hunts
  <2>2. ASSUME NEW g \in Hunter, InJudgement(g)'
        PROVE  SetupJudged(g)'
    <3> DEFINE p == Ruling(g).place
    <3>1. InJudgement(g) /\ p \in Place
      BY <1>4, <2>2, RulingPlace
    <3>2. party'[p] = party[p]
      BY <1>3, <3>1 DEF LocksHeld, Holds, Judges
    <3>3. SetupJudged(g)
      BY <3>1 DEF PartiesLicensed
    <3>4. /\ party[p] \subseteq Hunter
          /\ \A m \in party[p] : /\ Away(m, p)' <=> Away(m, p)
                                 /\ \A q : Hunts(m, p, q)' <=> Hunts(m, p, q)
      BY <1>1, <1>4, <3>1 DEF DepartureTypeOK, Away, Hunts
    <3> QED
      BY <1>1, <1>4, <3>2, <3>3, <3>4 DEF SetupJudged
  <2>3. \A g \in Hunter : Doing(g, "stamp")' => departure'[g].quest = setup'[task'[g].to]
    BY <1>1, <1>4 DEF PartiesLicensed
  <2> QED
    BY <2>1, <2>2, <2>3 DEF PartiesLicensed
<1>10. \A g \in Hunter : Refusing(g)' <=> Refusing(g)
  BY <1>4 DEF Refusing
<1>11. \A g, x \in Hunter : \A y : Refuses(g, x, y)' <=> Refuses(g, x, y)
  BY <1>1, <1>4, <1>10 DEF Refuses
<1>12. RefusalsRight'
  <2>1. \A g \in Hunter : Refusing(g)' => RefusedRightly(g)'
    BY <1>4, <1>10 DEF RefusalsRight, RefusedRightly, Allowed, AccessAllows
  <2>2. \A x \in Hunter \ gone', y \in Place : x # h /\ (Admitted(x, y)' <=> Admitted(x, y))
    BY <1>1, <1>2 DEF Admitted, Travelling, Doing
  <2> QED
    BY <1>1, <1>3, <1>11, <2>1, <2>2 DEF RefusalsRight
<1>13. TripsOnce'
  BY <1>1 DEF TripsOnce, Due, Unspent
<1>14. TripsAccounted'
  <2>1. \A x \in Hunter \ gone' : x # h /\ (Rests(x)' <=> Rests(x))
    BY <1>1, <1>2, <1>4 DEF Rests
  <2>2. \A x \in Hunter : Underway(x)' <=> Underway(x)
    BY <1>1 DEF Underway
  <2>3. \A g \in Hunter : Due(g)' = Due(g)
    BY <1>1 DEF Due
  <2>4. ASSUME NEW x \in Hunter \ {h}, Awaited(x)
        PROVE  Awaited(x)'
    BY <1>1, <1>2, <1>4, <1>11, <2>4 DEF Awaited
  <2> QED
    BY <1>1, <1>4, <2>1, <2>2, <2>3, <2>4, SMTT(40) DEF TripsAccounted
<1> QED
  BY <1>6, <1>7, <1>8, <1>9, <1>12, <1>13, <1>14

\* The steps of a session that ends.
LEMMA DepartingInv ==
    ASSUME DepartureInv, NEW h \in Hunter, Departing(h)
    PROVE  DepartureInv'
<1>1. DepartureTypeOK
  BY DEF DepartureInv
<1>2. CASE Disconnect(h)
  BY <1>2, DisconnectInv
<1>3. CASE QuitPlace(h)
  BY <1>1, <1>3, QuitPlaceStep, PartsInv
<1>4. CASE LogOut(h)
  BY <1>1, <1>4, LogOutStep, PartsInv
<1>5. ASSUME NEW i \in PlaceId, DropOut(h, i) \/ ClearPlace(h, i)
      PROVE  DepartureInv'
  BY <1>1, <1>5, DropOutStep, ClearPlaceStep, PartsInv
<1> QED
  BY <1>2, <1>3, <1>4, <1>5 DEF Departing

-----------------------------------------------------------------------------
(* The theorems.                                                             *)

\* Everybody is in town, and nothing is read, pinned or counted.
LEMMA InitInv ==
    ASSUME DepartureInit
    PROVE  DepartureInv
<1> USE DEF DepartureInit
<1>1. DepartureTypeOK
  <2>1. Idle \in Task /\ MaxTime + 1 \in Nat
    BY DepartureAssumption DEF Task
  <2>2. /\ bought \in [Hunter -> [Protected -> Nat]]
        /\ task \in [Hunter -> Task]
    BY <2>1
  <2>3. DOMAIN counted = Hunter /\ \A h \in Hunter : counted[h] \in [1 .. MaxRequests[h] -> Nat]
    OBVIOUS
  <2>4. requests \in [Hunter -> Nat] /\ \A h \in Hunter : requests[h] <= MaxRequests[h]
    <3>1. \A h \in Hunter : MaxRequests[h] \in Nat
      BY DepartureAssumption, Zenon
    <3> QED
      BY <3>1
  <2> QED
    BY <2>2, <2>3, <2>4 DEF DepartureTypeOK
<1>2. \A h \in Hunter : task[h].at = "idle"
  BY Zenon DEF Idle
<1>3. \A h \in Hunter : /\ ~InJudgement(h) /\ ~Refusing(h) /\ ~Travelling(h) /\ ~Doing(h, "stamp")
                        /\ ~Underway(h) /\ Due(h) = {} /\ \A p : ~Holds(h, p)
  BY <1>2, Zenon DEF InJudgement, Refusing, Travelling, Doing, Underway, Due, Holds, Judges
<1>4. Town \notin Place
  BY DepartureAssumption
<1>5. LocksHeld
  BY <1>3 DEF LocksHeld
<1>6. Whereabouts
  BY <1>3, <1>4 DEF Whereabouts
<1>7. RightsSound
  BY <1>2, Zenon DEF RightsSound, PinnedSound, ReadSound, Doing
<1>8. PartiesLicensed
  BY <1>3 DEF PartiesLicensed
<1>9. RefusalsRight
  BY <1>3, <1>4 DEF RefusalsRight, Admitted
<1>10. TripsOnce
  BY <1>3 DEF TripsOnce
<1>11. TripsAccounted
  BY <1>3, <1>4 DEF TripsAccounted, Rests
<1> QED
  BY <1>1, <1>5, <1>6, <1>7, <1>8, <1>9, <1>10, <1>11 DEF DepartureInv

\* Every step keeps the invariant.
LEMMA NextInv ==
    ASSUME DepartureInv, [DepartureNext]_departureVars
    PROVE  DepartureInv'
<1>1. CASE Tick
  BY <1>1, TickInv
<1>2. ASSUME NEW h \in Hunter,
             \/ \E q \in Protected : Buy(h, q)
             \/ \E to \in PlaceId \cup {Town} : SetOut(h, to)
             \/ \E i \in PlaceId, q \in QuestId \cup {Malformed} : SetSetup(h, i, q)
             \/ Departing(h)
      PROVE  DepartureInv'
  BY <1>2, BuyInv, SetOutInv, SetSetupInv, DepartingInv
<1>3. ASSUME NEW h \in Hunter, Journey(h)
      PROVE  DepartureInv'
  BY <1>3, ReadAccessInv, IssueAccessInv, RefusedInv, EnterTownInv, EnterQuestInv, StampInv,
     LeaveInv, ArriveInv, CountInv DEF Journey
<1>4. ASSUME NEW h \in Hunter, Setup(h)
      PROVE  DepartureInv'
  BY <1>4, JudgeInv, ArmInv, ValidateInv, CountersignInv, StoreInv, ArmedInv, RejectInv
     DEF Setup
<1>5. CASE UNCHANGED departureVars
  <2>1. UNCHANGED <<time, bought, onMap, opened, locked, party, setup, where, departure, receipt,
                    trip, pending, counted, task, gone, logout, requests>>
    BY <1>5 DEF departureVars, stageData, pinned, usage
  <2>2. DepartureTypeOK' /\ RightsSound'
    BY <2>1, RightsLater DEF DepartureInv, DepartureTypeOK
  <2> QED
    BY <2>1, <2>2, TimeStep
<1> QED
  BY <1>1, <1>2, <1>3, <1>4, <1>5 DEF DepartureNext

\* The inductive invariant holds in every state: of the locks, of who is where, of
\* the rights that were read, of what a setup has judged, of whom it refuses and of
\* the trips to be counted.
THEOREM DepartureInvariance == DepartureSpec => []DepartureInv
<1>1. DepartureInit => DepartureInv
  BY InitInv
<1>2. DepartureInv /\ [DepartureNext]_departureVars => DepartureInv'
  BY NextInv
<1> QED
  BY <1>1, <1>2, PTL DEF DepartureSpec

\* Whoever was cleared for a quest had the right to it then.
LEMMA ClearedEntitled ==
    ASSUME DepartureTypeOK, NEW h \in Hunter, NEW d \in Departure \cup SaveRight,
           Cleared(h, d), d.quest # NoQuest
    PROVE  Entitled(h, d.quest, d.at)
<1>1. d.at \in Nat /\ d.access \in Access /\ d.quest \in QuestId
  BY DEF Departure, SaveRight
<1>2. PICK a \in Access, q \in QuestId, t \in Nat : a = d.access /\ q = d.quest /\ t = d.at
  BY <1>1
<1>3. Sound(h, a) /\ Allowed(h, q, a, t)
  BY <1>2 DEF Cleared
<1>4. ASSUME q \in a.owned
      PROVE  bought[h][q] <= t
  <2>1. q \in Protected /\ a.at \in Nat
    BY <1>4 DEF Access
  <2>2. bought[h][q] \in Nat
    BY <2>1 DEF DepartureTypeOK
  <2>3. bought[h][q] <= a.at
    BY <1>3, <1>4 DEF Sound
  <2>4. a.at <= t
    BY <1>3, <2>1 DEF Allowed, AccessAllows
  <2> QED
    BY <2>1, <2>2, <2>3, <2>4
<1>5. Entitled(h, q, t)
  BY <1>3, <1>4 DEF Entitled, Allowed, AccessAllows
<1> QED
  BY <1>2, <1>5

\* PartyLicensed: no party is joined, and no save accepted, by a right that came
\* later than the admission (quest_access_gameplay.go:138).
THEOREM PartiesAreLicensed == DepartureSpec => []PartyLicensed
<1>1. DepartureInv => PartyLicensed
  <2> SUFFICES ASSUME DepartureInv
               PROVE  PartyLicensed
    OBVIOUS
  <2> USE DEF DepartureInv
  <2>1. ASSUME NEW p \in Place \ locked, setup[p] # NoQuest, NEW h \in party[p]
        PROVE  \/ Travelling(h) /\ (departure[h] # Nothing => departure[h].place # p)
               \/ /\ departure[h] # Nothing /\ departure[h].place = p
                  /\ departure[h].quest = setup[p]
                  /\ Entitled(h, setup[p], departure[h].at)
    <3>1. h \in Hunter /\ (Away(h, p) \/ Hunts(h, p, setup[p]))
      BY <2>1 DEF PartiesLicensed, DepartureTypeOK
    <3>2. CASE Hunts(h, p, setup[p])
      <4>1. departure[h] \in Departure /\ Cleared(h, departure[h])
        BY <3>1, <3>2 DEF Hunts, RightsSound, PinnedSound, DepartureTypeOK
      <4> QED
        BY <2>1, <3>1, <3>2, <4>1, ClearedEntitled DEF Hunts
    <3> QED
      BY <3>1, <3>2 DEF Away
  <2>2. ASSUME NEW h \in Hunter, receipt[h] # Nothing, SaveAllowed(h)
        PROVE  Entitled(h, receipt[h].quest, receipt[h].at)
    <3>1. receipt[h] \in SaveRight /\ Cleared(h, receipt[h]) /\ receipt[h].quest # NoQuest
      BY <2>2 DEF RightsSound, PinnedSound, DepartureTypeOK, SaveAllowed
    <3> QED
      BY <3>1, ClearedEntitled
  <2> QED
    BY <2>1, <2>2 DEF PartyLicensed
<1> QED
  BY <1>1, DepartureInvariance, PTL

\* DeparturesCounted: a trip is counted once, in whichever order the hunter and the
\* setup came (quest_runtime_mode.go:209).
THEOREM EveryDepartureCounted == DepartureSpec => []DeparturesCounted
<1>1. DepartureInv => DeparturesCounted
  <2> SUFFICES ASSUME DepartureInv
               PROVE  DeparturesCounted
    OBVIOUS
  <2> USE DEF DepartureInv
  <2>1. \A h \in Hunter : \A n \in DOMAIN counted[h] : counted[h][n] <= 1
    BY DEF TripsOnce
  <2>2. ASSUME \A g \in Hunter : Doing(g, "idle"), NEW h \in Hunter \ gone,
               where[h] \in Place, setup[where[h]] # NoQuest
        PROVE  counted[h][trip[h]] = 1
    <3>1. Rests(h)
      BY <2>2 DEF Rests, Travelling, Doing
    <3>2. \A g \in Hunter : Due(g) = {} /\ ~Doing(g, "reject")
      BY <2>2, Zenon DEF Due, Doing
    <3>3. ~Awaited(h)
      BY <2>2, <3>2 DEF Awaited
    <3> QED
      BY <3>1, <3>2, <3>3, Zenon DEF TripsAccounted
  <2> QED
    BY <2>1, <2>2 DEF DeparturesCounted
<1> QED
  BY <1>1, DepartureInvariance, PTL

\* What a step may do to who has gone.
LEMMA GoneStep ==
    ASSUME [DepartureNext]_departureVars
    PROVE  \/ gone' = gone \/ where' = where
           \/ \E h \in Hunter : \E pair \in task[h].rejected :
                 Doing(h, "reject") /\ Reject(h, pair[1], pair[2])
<1>1. ASSUME NEW h \in Hunter, Journey(h)
      PROVE  gone' = gone
  BY <1>1, Zenon DEF Journey, ReadAccess, IssueAccess, Refused, EnterTown, EnterQuest,
     Stamp, Leave,
              Arrive, Count
<1>2. ASSUME NEW h \in Hunter, Setup(h)
      PROVE  \/ gone' = gone
             \/ \E pair \in task[h].rejected : Doing(h, "reject") /\ Reject(h, pair[1], pair[2])
  BY <1>2, Zenon DEF Setup, Judge, Arm, Validate, Countersign, Store, Armed
<1>3. ASSUME NEW h \in Hunter,
             \/ \E q \in Protected : Buy(h, q)
             \/ \E to \in PlaceId \cup {Town} : SetOut(h, to)
             \/ \E i \in PlaceId, q \in QuestId \cup {Malformed} : SetSetup(h, i, q)
             \/ Departing(h)
      PROVE  gone' = gone \/ where' = where
  BY <1>3, Zenon DEF Buy, SetOut, SetSetup, Departing, Disconnect, DropOut, QuitPlace,
     ClearPlace, LogOut
<1>4. CASE Tick \/ UNCHANGED departureVars
  BY <1>4 DEF Tick, departureVars
<1> QED
  BY <1>1, <1>2, <1>3, <1>4, Zenon DEF DepartureNext

\* OnlyUnlicensedRejected: a setup disconnects nobody that has moved on, or that it
\* should have let through (quest_delivery_departure.go:219).
THEOREM OnlyTheUnlicensedLeave == DepartureSpec => OnlyUnlicensedRejected
<1> DEFINE Rightly ==
      \A m \in gone' \ gone : where'[m] # where[m] =>
          /\ departure[m] # Nothing /\ departure[m].place = where[m]
          /\ departure[m].quest = NoQuest
          /\ \E h \in Hunter :
               /\ Doing(h, "reject") /\ task[h].place = where[m]
               /\ \/ task[h].quest = Malformed
                  \/ ~Entitled(m, task[h].quest, departure[m].at)
                  \/ /\ task[h].quest \in Protected
                     /\ ~AccessAllows(m, task[h].quest, departure[m].access, departure[m].at)
<1>1. DepartureInv /\ [DepartureNext]_departureVars => Rightly
  <2> SUFFICES ASSUME DepartureInv, [DepartureNext]_departureVars,
                      NEW m \in gone' \ gone, where'[m] # where[m]
               PROVE  /\ departure[m] # Nothing /\ departure[m].place = where[m]
                      /\ departure[m].quest = NoQuest
                      /\ \E h \in Hunter :
                           /\ Doing(h, "reject") /\ task[h].place = where[m]
                           /\ \/ task[h].quest = Malformed
                              \/ ~Entitled(m, task[h].quest, departure[m].at)
                              \/ /\ task[h].quest \in Protected
                                 /\ ~AccessAllows(m, task[h].quest, departure[m].access,
                                                  departure[m].at)
    OBVIOUS
  <2> USE DEF DepartureInv
  <2>1. PICK h \in Hunter : \E pair \in task[h].rejected :
                               Doing(h, "reject") /\ Reject(h, pair[1], pair[2])
    BY GoneStep
  <2>2. PICK pair \in task[h].rejected : Doing(h, "reject") /\ Reject(h, pair[1], pair[2])
    BY <2>1
  <2>3. /\ task[h] \in Rejecting /\ task[h].place \in Place
        /\ pair[1] \in Hunter /\ ~Travelling(pair[1])
        /\ \/ departure[pair[1]] = pair[2] /\ Expelled(pair[1], task[h].place)
           \/ UNCHANGED <<gone, departure, trip, pending, party, where>>
    BY <2>2, RejectStep DEF Rejecting
  <2>4. /\ pair[1] = m /\ departure[m] = pair[2] /\ where[m] = task[h].place
        /\ m \in Hunter /\ ~Travelling(m)
    BY <2>3 DEF Expelled
  <2>5. departure[m] # Nothing /\ departure[m].place = where[m]
    BY <2>3, <2>4 DEF Whereabouts
  <2>6. /\ departure[m].quest = NoQuest
        /\ task[h].quest # Malformed =>
              ~Allowed(m, task[h].quest, departure[m].access, departure[m].at)
    <3>1. RefusedRightly(h) /\ Ruling(h) = task[h]
      BY <2>2 DEF RefusalsRight, Refusing, Ruling, Doing
    <3> QED
      BY <2>2, <2>4, <2>5, <3>1 DEF RefusedRightly
  <2> QED
    BY <2>2, <2>4, <2>5, <2>6 DEF Allowed, Entitled
<1> QED
  BY <1>1, DepartureInvariance, PTL DEF DepartureSpec, OnlyUnlicensedRejected
=============================================================================
