---------------------------- MODULE MCRegistries ----------------------------
(* What a channel keeps about its sessions outside the stages: the account   *)
(* guard (MCLoginGuard), the siege of Raviente with its rooms, registers and *)
(* run history, and the time of the daily coins.  Nothing in the code        *)
(* couples the three but the sessions, so a behaviour is one of the parts    *)
(* and leaves the others at their start:                                     *)
(*   "guard"  LoginGuard as in MCLoginGuard, with a single login packet of   *)
(*            the second connection;                                         *)
(*   "rooms"  a hunter uses semaphores of every kind, another one the siege  *)
(*            room, both log out, one packet of register updates may arrive  *)
(*            (one create packet of each hunter per series of ids);          *)
(*   "siege"  one hunter opens and closes the siege room, every packet, the  *)
(*            quest entries, failing statements and a restart;               *)
(*   "days"   DailyCoins with two connections around a midnight: the first   *)
(*            is there at once, the second comes later; one timer does not   *)
(*            fire twice in a moment once the day has its row.               *)
EXTENDS LoginGuard, Raviente, DailyCoins, TLC

CONSTANTS
    s1, s2, land1, land2, rathalos, rathian, kirin, player, friend,
    h1, h2, v1, v2, room, chat, unnumbered, berserk, extreme,
    Part    \* the parts of this configuration

VARIABLE part

TwoChannels == (s1 :> land1) @@ (s2 :> land2)
Owners == (rathalos :> player) @@ (rathian :> player) @@ (kirin :> friend)

\* A register update, and what clients send: start value and start in one packet,
\* start and kill together, a start and its withdrawal.
Set(r, d) == [op |-> "set", dest |-> r, data |-> d]
Add(r, d) == [op |-> "add", dest |-> r, data |-> d]
Begin == <<Set(3, 1), Set(1, 1)>>
Packets == {Begin, <<Set(1, 1), Set(2, 1)>>, <<Add(1, 1), Set(1, 0)>>}

\* A hunter creates the room of the siege and gives it up again.
UseRoom(h) == \/ (CreateAcquire(h, room) \/ Store(h)) /\ UNCHANGED <<trackerVars, siegeVars>>
              \/ Delete(h) \/ DeleteMember(h)

Logout(h) == Disconnect(h) \/ LeaveRooms(h) \/ CleanUp(h)

PartInit == Init /\ RavienteInit /\ DailyInit /\ part \in Part

PartNext ==
    /\ UNCHANGED part
    /\ \/ part = "guard" /\ Next /\ packets'[s2] > 0 /\ UNCHANGED <<raviVars, dailyVars>>
       \/ /\ part = "days" /\ DailyNext /\ UNCHANGED <<vars, raviVars>>
          /\ entered'[v2] # Never \/ closedAt'[v1] # Never \/ closedAt'[v2] # Never
             \/ now' > 0 => entered'[v1] # Never
          /\ entered'[v2] # Never => entered'[v2] > 0
          /\ \A v \in Visit : Capture(v) =>
                now > worker[v].from \/ ~account[now \div DayLength].first
       \/ /\ part = "rooms"
          /\ \/ Join(h1) \/ Delete(h1) \/ DeleteMember(h1) \/ Logout(h1)
             \/ UseRoom(h2) \/ Logout(h2)
             \/ OperateRegister(Begin[1], Begin[2]) \/ TrackerCall
          /\ \A h \in Hunter, m \in BOOLEAN : idState'[h].used[m] <= 1
          /\ UNCHANGED <<vars, dailyVars>>
       \/ /\ part = "siege"
          /\ \/ UseRoom(h1) \/ TrackerCall \/ StartCommand \/ Restart
             \/ \E p \in Packets : OperateRegister(p[1], p[2])
             \/ \E k \in Kind, p \in Player : EnterQuest(k, p)
          /\ UNCHANGED <<vars, dailyVars>>

PartSpec == PartInit /\ [][PartNext]_<<part, vars, raviVars, dailyVars>>
=============================================================================
