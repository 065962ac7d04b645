------------------------------ MODULE MCServices ------------------------------
(* The goroutines of a channel that nobody calls.  Nothing in the code       *)
(* couples the three groups but the sessions they serve, so a behaviour is   *)
(* one of the parts and leaves the others at their start:                    *)
(*   "drain"    ServerDrain with two clients;                                *)
(*   "timer"    raviAutoStart while a hunter opens and closes the siege room *)
(*              and sets or withdraws the start value;                       *)
(*   "workers"  SessionWorkers with the workers that are enabled: one stage  *)
(*              entry starts them, and a handler closes the session only if  *)
(*              nothing has failed before.                                   *)
EXTENDS ServerDrain, Raviente, SessionWorkers, TLC

CONSTANTS
    a, b, h1, room, berserk, rathalos,
    Part    \* the parts of this configuration

VARIABLE part

Set(r, d) == [op |-> "set", dest |-> r, data |-> d]
Gather == <<Set(3, 1), Set(3, 1)>>
Packets == {Gather, <<Set(3, 0), Set(3, 0)>>, <<Set(3, 1), Set(1, 1)>>}

\* A hunter creates the room of the siege and gives it up again.
UseRoom(h) == \/ (CreateAcquire(h, room) \/ Store(h)) /\ UNCHANGED <<trackerVars, siegeVars>>
              \/ Delete(h) \/ DeleteMember(h)

InTimer == part = "timer"
InDrain == part = "drain"
InWork  == part = "workers"

PartInit == Init /\ RavienteInit /\ WorkInit /\ part \in Part

PartNext ==
    /\ UNCHANGED part
    /\ \/ InDrain /\ Next /\ UNCHANGED <<raviVars, workVars>>
       \/ /\ InTimer
          /\ \/ UseRoom(h1) \/ TrackerCall \/ StartCommand \/ AutoStart \/ TimeUp
             \/ \E p \in Packets : OperateRegister(p[1], p[2])
          /\ UNCHANGED <<vars, workVars>>
       \/ /\ InWork /\ WorkNext /\ UNCHANGED <<vars, raviVars>>
          /\ recvLoop' = "enter" => worker["daily"] = "none"
          /\ recvLoop' \in {"marking", "panicked"} => failures = 0

\* Fairness, RavienteFairness and WorkFairness in their parts.
PartFairness ==
    /\ WF_vars(InDrain /\ AcceptFails) /\ WF_vars(InDrain /\ (Deliver \/ AcceptDone))
    /\ WF_vars(InDrain /\ ManageSessions) /\ WF_vars(InDrain /\ Drain)
    /\ \A c \in Conn : WF_vars(InDrain /\ Logout(c))
    /\ WF_raviVars(InTimer /\ TrackerCall)
    /\ WF_raviVars(InTimer /\ (TickRoom \/ TickRegisters)) /\ SF_raviVars(InTimer /\ Fire)
    /\ WF_raviVars(InTimer /\ TimeUp)
    /\ WF_workVars(InWork /\ (CloseDone \/ LogoutPlayer)) /\ WF_workVars(InWork /\ SendLoop)
    /\ WF_workVars(InWork /\ RecvLoop) /\ WF_workVars(InWork /\ \E w \in Worker : Chatter(w))
    /\ WF_workVars(InWork /\ NoticeWorker) /\ SF_workVars(InWork /\ Enqueue)

PartSpec == PartInit /\ [][PartNext]_<<part, vars, raviVars, workVars>> /\ PartFairness
=============================================================================
