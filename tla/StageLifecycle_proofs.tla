----------------------- MODULE StageLifecycle_proofs -----------------------
(* Proofs about StageLifecycle for any number of sessions, characters,       *)
(* stages and packets and for any of their orders: its types, that a session *)
(* whose logout has finished is detached from every stage of the map, that   *)
(* the last place is taken once, what may remove a fresh or an occupied      *)
(* stage, that a session is in one stage at a time, and that slots are given *)
(* back as long as no character is in the world twice.                       *)
(*                                                                           *)
(* The inductive invariant is IInv.  Each of its parts has one lemma, with   *)
(* one step per action; the lemmas before them say what the operators the    *)
(* actions are built from keep.                                              *)
EXTENDS StageLifecycle, FiniteSetTheorems, TLAPS

-----------------------------------------------------------------------------

\* The locals of an idle handler are well-typed.
LEMMA NoArgsType ==
  NoArgs \in Args
  BY StageAssumption DEF NoArgs, Args, Packet

\* A step of a handler leaves its control point and its locals well-typed.
LEMMA GotoType ==
  ASSUME HandlerTypes, NEW s \in Session, NEW p \in LockedPc \cup OpenPc,
         NEW x \in Args, GotoWith(s, p, x)
  PROVE /\ pc' \in [Session -> LockedPc \cup OpenPc]
        /\ arg' \in [Session -> Args]
  BY NoArgsType DEF HandlerTypes, GotoWith

\* A step that allocates nothing keeps every pointer allocated, if the locals
\* it goes on with are.
LEMMA PointersKept ==
  ASSUME TypeOK, PointersAllocated, NEW s \in Session, NEW p, NEW x,
         GotoWith(s, p, x), Allocated(x.st), Allocated(x.old),
         p = "enterReserve" => x.old # NoStage,
         p = "unlockClear" => x.st # NoStage,
         UNCHANGED idOf,
         \A id \in StageId : stages'[id] \in {stages[id], NoStage},
         \A t \in Session :
            /\ stage'[t] \in {stage[t], x.st}
            /\ reservationStage'[t] \in {reservationStage[t], x.st, NoStage}
  PROVE  PointersAllocated'
<1>1. \A id \in StageId : Allocated(stages[id])'
  BY DEF PointersAllocated, Allocated
<1>2. \A t \in Session : Allocated(stage[t])' /\ Allocated(reservationStage[t])'
  BY DEF PointersAllocated, Allocated
<1>3. ASSUME NEW t \in Session
      PROVE  /\ Allocated(arg[t].st)' /\ Allocated(arg[t].old)'
             /\ pc'[t] = "enterReserve" => arg'[t].old # NoStage
             /\ pc'[t] = "unlockClear" => arg'[t].st # NoStage
  <2>1. CASE t # s
    BY <2>1 DEF TypeOK, HandlerTypes, GotoWith, PointersAllocated, Allocated
  <2>2. CASE t = s
    BY <2>2
       DEF TypeOK, HandlerTypes, GotoWith, PointersAllocated, Allocated,
           NoArgs
  <2> QED
    BY <2>1, <2>2
<1> QED
  BY <1>1, <1>2, <1>3 DEF PointersAllocated, Allocated

\* The same of a step that keeps the locals of the handler.
LEMMA PointersGoto ==
  ASSUME TypeOK, PointersAllocated, NEW s \in Session, NEW p,
         Goto(s, p), p \notin {"enterReserve", "unlockClear"},
         UNCHANGED idOf,
         \A id \in StageId : stages'[id] \in {stages[id], NoStage},
         \A t \in Session :
            /\ stage'[t] \in {stage[t], arg[s].st}
            /\ reservationStage'[t] \in {reservationStage[t], arg[s].st, NoStage}
  PROVE  PointersAllocated'
<1>1. Allocated(arg[s].st) /\ Allocated(arg[s].old)
  BY DEF PointersAllocated
<1> QED
  BY <1>1, PointersKept DEF Goto

\* The two pointers among the locals, after an update of the locals.
LEMMA ArgsUpdate ==
  ASSUME NEW x \in Args, NEW v, NEW w
  PROVE  /\ [x EXCEPT !.st = v].st = v /\ [x EXCEPT !.st = v].old = x.old
         /\ [x EXCEPT !.old = v].st = x.st /\ [x EXCEPT !.old = v].old = v
         /\ [x EXCEPT !.todo = v].st = x.st /\ [x EXCEPT !.todo = v].old = x.old
         /\ [x EXCEPT !.chars = v].st = x.st /\ [x EXCEPT !.chars = v].old = x.old
         /\ [x EXCEPT !.kind = v, !.id = w].st = x.st
         /\ [x EXCEPT !.kind = v, !.id = w].old = x.old
         /\ [x EXCEPT !.id = v, !.old = w].st = x.st
         /\ [x EXCEPT !.id = v, !.old = w].old = w
         /\ [x EXCEPT !.st = v, !.created = w].st = v
         /\ [x EXCEPT !.st = v, !.created = w].old = x.old
         /\ [x EXCEPT !.st = v, !.todo = w].st = v
         /\ [x EXCEPT !.st = v, !.todo = w].old = x.old
  BY DEF Args

\* A handler inside lifecycleMu belongs to a session whose logout has not got
\* to its last phases.
LEMMA Entering ==
  ASSUME TypeOK, LifecycleHeld, LogoutProgress, NEW s \in Session, pc[s] \in
         LockedPc
  PROVE  lpc[s] \notin FinalPc \cup {"gone"}
  BY DEF LifecycleHeld, LogoutProgress

\* A step that leaves the logouts alone keeps LogoutProgress, if it brings no
\* session back to a stage.
LEMMA ProgressKept ==
  ASSUME LogoutProgress, UNCHANGED <<closed, sessions, lpc, left>>,
         \A t \in Session : lpc[t] = "gone" =>
            /\ lifecycle'[t] = "free" /\ stage'[t] = stage[t]
            /\ reservationStage'[t] \in {reservationStage[t], NoStage},
         \A t \in Session, id \in StageId :
            lpc[t] \in FinalPc \cup {"gone"} /\ Clear(t, id) => Clear(t, id)'
  PROVE  LogoutProgress'
  BY DEF LogoutProgress, FinalPc

\* Allocating a stage takes no pointer away and makes the new entry an
\* allocated one.
LEMMA NewStageAllocates ==
  ASSUME StageTypes, NEW st \in Stage, NEW id \in StageId, NEW h, NEW max,
         NewStage(st, id, h, max), \A i \in StageId : Allocated(stages[i])
  PROVE  /\ \A u \in Stage \cup {NoStage} : Allocated(u) => Allocated(u)'
         /\ \A i \in StageId : Allocated(stages[i])'
         /\ Allocated(st)'
<1>1. idOf' = [idOf EXCEPT ![st] = id] /\ stages' = [stages EXCEPT ![id] = st]
  BY DEF NewStage
<1>2. id # NoId
  BY StageAssumption
<1>3. \A u \in Stage \cup {NoStage} : Allocated(u) => Allocated(u)'
  BY <1>1, <1>2 DEF StageTypes, Allocated
<1>4. Allocated(st)'
  BY <1>1, <1>2 DEF StageTypes, Allocated
<1>5. \A i \in StageId : Allocated(stages[i])'
  BY <1>1, <1>3, <1>4 DEF StageTypes
<1> QED
  BY <1>3, <1>4, <1>5

\* Allocating a stage keeps the types of the stage variables.
LEMMA NewStageType ==
  ASSUME StageTypes, NEW st \in Stage, NEW id \in StageId, NEW h \in Session
         \cup {NoSession}, NEW max \in Nat, NewStage(st, id, h, max)
  PROVE StageTypes'
<1>1. stages' \in [StageId -> Stage \cup {NoStage}]
  BY DEF StageTypes, NewStage
<1>2. idOf' \in [Stage -> StageId \cup {NoId}]
  BY DEF StageTypes, NewStage
<1>3. host' \in [Stage -> Session \cup {NoSession}]
  BY DEF StageTypes, NewStage
<1>4. limit' \in [Stage -> Nat] /\ fresh' \in [Stage -> BOOLEAN]
  BY DEF StageTypes, NewStage
<1>5. clients' \in [Stage -> SUBSET Session]
  BY DEF StageTypes, NewStage
<1> QED BY <1>1, <1>2, <1>3, <1>4, <1>5 DEF StageTypes, NewStage

\* Popping the move stack leaves a move stack.
LEMMA RestType ==
  ASSUME NEW q \in Seq(StageId)
  PROVE  Rest(q) \in Seq(StageId)
<1>1. CASE Len(q) = 0
  BY <1>1, SMTT(20) DEF Rest
<1>2. CASE Len(q) # 0
  BY <1>2, SMTT(20) DEF Rest
<1> QED BY <1>1, <1>2

\* The types of the handler variables after a step that sends no packet.
LEMMA GotoWithKeeps ==
  ASSUME HandlerTypes, NEW s \in Session, NEW p \in LockedPc \cup OpenPc,
         NEW x \in Args, GotoWith(s, p, x), UNCHANGED packets
  PROVE HandlerTypes'
  BY GotoType DEF HandlerTypes

\* The same of a step that keeps the locals.
LEMMA GotoKeeps ==
  ASSUME HandlerTypes, NEW s \in Session, NEW p \in LockedPc \cup OpenPc,
         Goto(s, p), UNCHANGED packets
  PROVE HandlerTypes'
  BY GotoWithKeeps DEF HandlerTypes, Goto

\* The types of the locals one by one.
LEMMA ArgsOf ==
  ASSUME HandlerTypes, NEW s \in Session
  PROVE /\ arg[s] \in Args
        /\ arg[s].id \in StageId /\ arg[s].kind \in Packet
        /\ arg[s].st \in Stage \cup {NoStage} /\ arg[s].old \in Stage \cup {NoStage}
        /\ arg[s].todo \subseteq StageId /\ arg[s].chars \subseteq Char
  BY DEF HandlerTypes, Args

-----------------------------------------------------------------------------

\* Every step keeps the types of the stage variables (sys_stage.go).
LEMMA StageTypesInv ==
  ASSUME TypeOK, PointersAllocated, [Next]_vars
  PROVE  StageTypes'
<1> USE DEF TypeOK
<1>1. CASE UNCHANGED vars
  BY <1>1 DEF StageTypes, vars, stageVars, sessionVars, handlerVars, logoutVars
<1>2. ASSUME NEW s \in Session,
               Receive(s) \/ CreateCheck(s) \/ Move(s) \/ Enter(s) \/ Back(s)
               \/ Transfer(s) \/ TransferLock(s) \/ SetStage(s) \/ Forget(s)
               \/ Reserve(s) \/ ReserveSave(s) \/ Unreserve(s) \/ Password(s)
               \/ UnlockStage(s) \/ UnlockForget(s) \/ UnlockNotify(s) \/
               StartLogout(s) \/ Unregister(s) \/ Snapshot(s) \/ Panic(s) \/
               Finalize(s) \/ FinalizeKeep(s) \/ Detach(s)
      PROVE  StageTypes'
  <2>1. UNCHANGED stageVars
    BY <1>2, Zenon
       DEF Receive, CreateCheck, Move, Enter, Back, Transfer, TransferLock,
           SetStage, Forget, Reserve, ReserveSave, Unreserve, Password,
           UnlockStage, UnlockForget, UnlockNotify, StartLogout, Unregister,
           Snapshot, Panic, Finalize, FinalizeKeep, Detach
  <2> QED
    BY <2>1 DEF StageTypes, stageVars
<1>3. ASSUME NEW s \in Session, CreateStore(s) PROVE StageTypes'
  <2>1. CASE UNCHANGED stageVars
    BY <2>1 DEF StageTypes, stageVars
  <2>2. ASSUME NEW st \in Stage, NEW max \in PlayerCount, NewStage(st,
               arg[s].id, s, max)
        PROVE StageTypes'
    BY <2>2, ArgsOf, NewStageType, StageAssumption
  <2> QED
    BY <1>3, <2>1, <2>2 DEF CreateStore
<1>4. ASSUME NEW s \in Session, EnterReserve(s) PROVE StageTypes'
  <2>1. arg[s].old \in Stage
    BY <1>4, ArgsOf DEF EnterReserve, At, PointersAllocated
  <2>2. charOf[s] \in Char
    BY StageAssumption
  <2>3. reserved' \in [Stage -> SUBSET Char]
    BY <1>4, <2>1, <2>2 DEF EnterReserve, StageTypes
  <2> QED
    BY <1>4, <2>3 DEF EnterReserve, StageTypes
<1>5. ASSUME NEW s \in Session, Lookup(s) PROVE StageTypes'
  <2>1. CASE UNCHANGED stageVars
    BY <2>1 DEF StageTypes, stageVars
  <2>2. ASSUME NEW st \in Stage, NewStage(st, arg[s].id, NoSession,
               DefaultMaxPlayers)
        PROVE StageTypes'
    BY <2>2, ArgsOf, NewStageType, StageAssumption
  <2> QED
    BY <1>5, <2>1, <2>2, Zenon DEF Lookup
<1>6. ASSUME NEW s \in Session, Join(s) PROVE StageTypes'
  BY <1>6, StageAssumption DEF Join, StageTypes, stageVars
<1>7. ASSUME NEW s \in Session, Discard(s) PROVE StageTypes'
  BY <1>7, StageAssumption
     DEF Discard, CompareAndDelete, Unlock, StageTypes, stageVars
<1>8. ASSUME NEW s \in Session, LeaveOld(s) PROVE StageTypes'
  BY <1>8, StageAssumption, Zenon DEF LeaveOld, StageTypes, stageVars
<1>9. ASSUME NEW s \in Session, SweepOld(s) PROVE StageTypes'
  <2>1. stages' \in [StageId -> Stage \cup {NoStage}]
    BY <1>9, Zenon DEF SweepOld, SweepAt, StageTypes
  <2> QED
    BY <1>9, <2>1 DEF SweepOld, SweepAt, StageTypes
<1>10. ASSUME NEW s \in Session, SweepHosted(s) PROVE StageTypes'
  <2>1. stages' \in [StageId -> Stage \cup {NoStage}]
    BY <1>10, Zenon DEF SweepHosted, SweepAt, StageTypes
  <2> QED
    BY <1>10, <2>1 DEF SweepHosted, SweepAt, StageTypes
<1>11. ASSUME NEW s \in Session, ReleaseOld(s) PROVE StageTypes'
  BY <1>11, StageAssumption, Zenon DEF ReleaseOld, StageTypes, stageVars
<1>12. ASSUME NEW s \in Session, Sweep(s) PROVE StageTypes'
  <2>1. stages' \in [StageId -> Stage \cup {NoStage}]
    BY <1>12, Zenon DEF Sweep, SweepAt, StageTypes
  <2> QED
    BY <1>12, <2>1 DEF Sweep, SweepAt, StageTypes
<1>13. ASSUME NEW s \in Session, Failed(s) PROVE StageTypes'
  BY <1>13, StageAssumption DEF Failed, StageTypes, stageVars
<1>14. ASSUME NEW s \in Session, ReserveSlot(s) PROVE StageTypes'
  BY <1>14, StageAssumption DEF ReserveSlot, Unlock, StageTypes, stageVars
<1>15. ASSUME NEW s \in Session, UnreserveSlot(s) PROVE StageTypes'
  BY <1>15, StageAssumption, Zenon DEF UnreserveSlot, StageTypes, stageVars
<1>16. ASSUME NEW s \in Session, LockStage(s) PROVE StageTypes'
  BY <1>16, StageAssumption, Zenon DEF LockStage, StageTypes, stageVars
<1>17. ASSUME NEW s \in Session, PasswordStage(s) PROVE StageTypes'
  <2>1. \E b \in {"open", "password"} :
           barrier' \in {barrier, [barrier EXCEPT ![arg[s].st] = b]}
    BY <1>17, Zenon DEF PasswordStage
  <2>2. barrier' \in [Stage -> {"open", "password", "locked"}]
    BY <2>1 DEF StageTypes
  <2> QED
    BY <1>17, <2>2 DEF PasswordStage, StageTypes
<1>18. ASSUME NEW s \in Session, UnlockClear(s) PROVE StageTypes'
  <2>1. reserved' \in [Stage -> SUBSET Char]
    BY <1>18, Zenon DEF UnlockClear, StageTypes
  <2>2. stages' \in [StageId -> Stage \cup {NoStage}]
    BY <1>18 DEF UnlockClear, CompareAndDelete, StageTypes
  <2> QED
    BY <1>18, <2>1, <2>2 DEF UnlockClear, StageTypes
<1>19. ASSUME NEW s \in Session, LeaveAll(s) PROVE StageTypes'
  BY <1>19, StageAssumption DEF LeaveAll, StageTypes, stageVars
<1>20. ASSUME NEW s \in Session, DropSlots(s) PROVE StageTypes'
  BY <1>20, StageAssumption DEF DropSlots, SlotsAfter, StageTypes, stageVars
<1>21. ASSUME NEW s \in Session, LeaveStage(s) PROVE StageTypes'
  BY <1>21, StageAssumption, Zenon DEF LeaveStage, StageTypes, stageVars
<1>22. ASSUME NEW s \in Session, SweepOut(s) PROVE StageTypes'
  BY <1>22, StageAssumption DEF SweepOut, SweepingOut, StageTypes, stageVars
<1>23. ASSUME NEW s \in Session, SweepHostedOut(s) PROVE StageTypes'
  BY <1>23, StageAssumption
     DEF SweepHostedOut, SweepingOut, StageTypes, stageVars
<1>24. ASSUME NEW s \in Session, FinalizeStages(s) PROVE StageTypes'
  BY <1>24, StageAssumption
     DEF FinalizeStages, FinalizeStage, CompareAndDelete, NextHost,
         SlotsAfter, StageTypes, stageVars
<1>25. ASSUME NEW st \in Stage, GraceEnds(st) PROVE StageTypes'
  BY <1>25 DEF StageTypes, GraceEnds, sessionVars, handlerVars, logoutVars
<1> QED
  BY <1>1, <1>2, <1>3, <1>4, <1>5, <1>6, <1>7, <1>8, <1>9, <1>10, <1>11,
     <1>12, <1>13, <1>14, <1>15, <1>16, <1>17, <1>18, <1>19, <1>20, <1>21,
     <1>22, <1>23, <1>24, <1>25
     DEF Next, Handle, Logout

\* Every step keeps the types of the session fields.
LEMMA SessionTypesInv ==
  ASSUME TypeOK, PointersAllocated, [Next]_vars
  PROVE  SessionTypes'
<1> USE DEF TypeOK
<1>1. CASE UNCHANGED vars
  BY <1>1
     DEF SessionTypes, vars, stageVars, sessionVars, handlerVars, logoutVars
<1>2. ASSUME NEW s \in Session,
               Receive(s) \/ CreateCheck(s) \/ CreateStore(s) \/ Move(s) \/
               Enter(s) \/ Transfer(s) \/ Lookup(s) \/ Join(s) \/ LeaveOld(s)
               \/ SweepOld(s) \/ SweepHosted(s) \/ Sweep(s) \/ ReleaseOld(s)
               \/ UnreserveSlot(s) \/ LockStage(s) \/ Password(s) \/
               PasswordStage(s) \/ UnlockStage(s) \/ UnlockClear(s) \/
               Snapshot(s) \/ LeaveAll(s) \/ DropSlots(s) \/ LeaveStage(s) \/
               SweepOut(s) \/ SweepHostedOut(s) \/ Panic(s) \/
               FinalizeKeep(s) \/ FinalizeStages(s)
      PROVE  SessionTypes'
  <2>1. UNCHANGED sessionVars
    BY <1>2, Zenon
       DEF Receive, CreateCheck, CreateStore, Move, Enter, Transfer, Lookup,
           Join, LeaveOld, SweepOld, SweepAt, SweepHosted, Sweep,
           ReleaseOld, UnreserveSlot, LockStage, Password, PasswordStage,
           UnlockStage, UnlockClear, Snapshot, LeaveAll, DropSlots,
           LeaveStage, SweepOut, SweepingOut, SweepHostedOut, Panic,
           FinalizeKeep, FinalizeStages
  <2> QED
    BY <2>1 DEF SessionTypes, sessionVars
<1>3. ASSUME NEW s \in Session, EnterReserve(s) PROVE SessionTypes'
  <2>1. moveStack[s] \in Seq(StageId)
    BY DEF SessionTypes
  <2>2. idOf[arg[s].old] \in StageId
    BY <1>3, ArgsOf
       DEF EnterReserve, At, PointersAllocated, Allocated, StageTypes
  <2>3. Append(moveStack[s], idOf[arg[s].old]) \in Seq(StageId)
    BY <2>1, <2>2
  <2> QED
    BY <1>3, <2>3 DEF EnterReserve, SessionTypes
<1>4. ASSUME NEW s \in Session, Back(s) PROVE SessionTypes'
  <2>1. moveStack[s] \in Seq(StageId) /\ <<HomeId>> \in Seq(StageId)
    BY StageAssumption DEF SessionTypes
  <2>2. Rest(moveStack[s]) \in Seq(StageId)
    BY <2>1, RestType
  <2>3. moveStack' \in [Session -> Seq(StageId)]
    BY <1>4, <2>1, <2>2, Zenon DEF Back, SessionTypes
  <2> QED
    BY <1>4, <2>3 DEF Back, SessionTypes
<1>5. ASSUME NEW s \in Session, TransferLock(s) PROVE SessionTypes'
  BY <1>5, StageAssumption, Zenon DEF TransferLock, Lock, SessionTypes, sessionVars
<1>6. ASSUME NEW s \in Session, Discard(s) PROVE SessionTypes'
  BY <1>6, StageAssumption
     DEF Discard, CompareAndDelete, Unlock, SessionTypes, sessionVars
<1>7. ASSUME NEW s \in Session, SetStage(s) PROVE SessionTypes'
  BY <1>7, ArgsOf DEF SetStage, Unlock, SessionTypes
<1>8. ASSUME NEW s \in Session, Forget(s) PROVE SessionTypes'
  BY <1>8, StageAssumption DEF Forget, SessionTypes, sessionVars
<1>9. ASSUME NEW s \in Session, Failed(s) PROVE SessionTypes'
  <2>1. moveStack[s] \in Seq(StageId) /\ arg[s].id \in StageId
    BY ArgsOf DEF SessionTypes
  <2>2. Rest(moveStack[s]) \in Seq(StageId) /\ Append(moveStack[s], arg[s].id) \in Seq(StageId)
    BY <2>1, RestType
  <2>3. moveStack' \in [Session -> Seq(StageId)]
    BY <1>9, <2>2, Zenon DEF Failed, SessionTypes
  <2> QED
    BY <1>9, <2>3 DEF Failed, SessionTypes
<1>10. ASSUME NEW s \in Session, Reserve(s) PROVE SessionTypes'
  BY <1>10, StageAssumption, Zenon DEF Reserve, Lock, SessionTypes, sessionVars
<1>11. ASSUME NEW s \in Session, ReserveSlot(s) PROVE SessionTypes'
  BY <1>11, StageAssumption, Zenon DEF ReserveSlot, Unlock, SessionTypes, sessionVars
<1>12. ASSUME NEW s \in Session, ReserveSave(s) PROVE SessionTypes'
  BY <1>12, ArgsOf DEF ReserveSave, Unlock, SessionTypes
<1>13. ASSUME NEW s \in Session, Unreserve(s) PROVE SessionTypes'
  BY <1>13, StageAssumption DEF Unreserve, SessionTypes, sessionVars
<1>14. ASSUME NEW s \in Session, UnlockForget(s) PROVE SessionTypes'
  BY <1>14, StageAssumption
     DEF UnlockForget, DropPointer, SessionTypes, sessionVars
<1>15. ASSUME NEW s \in Session, UnlockNotify(s) PROVE SessionTypes'
  <2>1. \/ UNCHANGED reservationStage
        \/ \E u \in Session : DropPointer(u, arg[s].st)
    BY <1>15, Zenon DEF UnlockNotify, SessionTypes
  <2>2. reservationStage' \in [Session -> Stage \cup {NoStage}]
    BY <2>1, Zenon DEF DropPointer, SessionTypes
  <2> QED
    BY <1>15, <2>2 DEF UnlockNotify, SessionTypes
<1>16. ASSUME NEW s \in Session, StartLogout(s) PROVE SessionTypes'
  BY <1>16, StageAssumption DEF StartLogout, SessionTypes, sessionVars
<1>17. ASSUME NEW s \in Session, Unregister(s) PROVE SessionTypes'
  BY <1>17, StageAssumption DEF Unregister, SessionTypes, sessionVars
<1>18. ASSUME NEW s \in Session, Finalize(s) PROVE SessionTypes'
  BY <1>18, StageAssumption DEF Finalize, Lock, SessionTypes, sessionVars
<1>19. ASSUME NEW s \in Session, Detach(s) PROVE SessionTypes'
  BY <1>19, StageAssumption DEF Detach, Unlock, SessionTypes, sessionVars
<1>20. ASSUME NEW st \in Stage, GraceEnds(st) PROVE SessionTypes'
  BY <1>20 DEF SessionTypes, GraceEnds, sessionVars, handlerVars, logoutVars
<1> QED
  BY <1>1, <1>2, <1>3, <1>4, <1>5, <1>6, <1>7, <1>8, <1>9, <1>10, <1>11,
     <1>12, <1>13, <1>14, <1>15, <1>16, <1>17, <1>18, <1>19, <1>20
     DEF Next, Handle, Logout

\* Every step keeps the types of the handlers' control points and locals.
LEMMA HandlerTypesInv ==
  ASSUME TypeOK, PointersAllocated, [Next]_vars
  PROVE  HandlerTypes'
<1> USE DEF TypeOK
<1>1. CASE UNCHANGED vars
  BY <1>1
     DEF HandlerTypes, vars, stageVars, sessionVars, handlerVars, logoutVars
<1>2. ASSUME NEW s \in Session,
               StartLogout(s) \/ Logout(s)
      PROVE  HandlerTypes'
  <2>1. UNCHANGED handlerVars
    BY <1>2
       DEF Logout, StartLogout, Unregister, Snapshot, LeaveAll, DropSlots,
           LeaveStage, SweepOut, SweepingOut, SweepHostedOut, Panic,
           Finalize, FinalizeKeep, FinalizeStages, Detach
  <2> QED
    BY <2>1 DEF HandlerTypes, handlerVars
<1>3. ASSUME NEW s \in Session, Receive(s) PROVE HandlerTypes'
  <2>1. PICK k \in Sends[s], i \in StageId : GotoWith(s, k, [arg[s] EXCEPT !.kind = k, !.id = i])
    BY <1>3, Zenon DEF Receive
  <2>2. k \in Packet
    BY StageAssumption
  <2>3. [arg[s] EXCEPT !.kind = k, !.id = i] \in Args
    BY <2>2, ArgsOf, Zenon DEF Args
  <2>4. /\ pc' \in [Session -> LockedPc \cup OpenPc]
        /\ arg' \in [Session -> Args]
    BY <2>1, <2>2, <2>3, GotoType DEF OpenPc
  <2>5. packets' \in [Session -> Nat]
    BY <1>3 DEF Receive, HandlerTypes
  <2> QED
    BY <2>4, <2>5 DEF HandlerTypes
<1>4. ASSUME NEW s \in Session, CreateCheck(s) PROVE HandlerTypes'
  BY <1>4, GotoKeeps DEF CreateCheck, LockedPc, OpenPc
<1>5. ASSUME NEW s \in Session, CreateStore(s) PROVE HandlerTypes'
  BY <1>5, GotoKeeps, StageAssumption DEF CreateStore, LockedPc, OpenPc
<1>6. ASSUME NEW s \in Session, Move(s) PROVE HandlerTypes'
  BY <1>6, GotoKeeps DEF Move, LockedPc, OpenPc
<1>7. ASSUME NEW s \in Session, Enter(s) PROVE HandlerTypes'
  BY <1>7, GotoKeeps, GotoWithKeeps, ArgsOf, Zenon
     DEF Enter, LockedPc, OpenPc, Args, SessionTypes
<1>8. ASSUME NEW s \in Session, EnterReserve(s) PROVE HandlerTypes'
  BY <1>8, GotoKeeps DEF EnterReserve, LockedPc, OpenPc
<1>9. ASSUME NEW s \in Session, Back(s) PROVE HandlerTypes'
  <2> DEFINE popped == moveStack[s] # <<>>
             target == IF popped THEN Top(moveStack[s]) ELSE HomeId
  <2>1. moveStack[s] \in Seq(StageId)
    BY DEF SessionTypes
  <2>2. target \in StageId
    BY <2>1, StageAssumption DEF Top
  <2>3. stage[s] \in Stage \cup {NoStage}
    BY DEF SessionTypes
  <2>4. [arg[s] EXCEPT !.id = target, !.old = stage[s]] \in Args
    BY <2>2, <2>3, ArgsOf, Zenon DEF Args
  <2>5. CASE IsStageFull(s, target)
    BY <1>9, <2>5, GotoKeeps DEF Back, OpenPc
  <2>6. CASE ~IsStageFull(s, target)
    BY <1>9, <2>4, <2>6, GotoWithKeeps, Zenon DEF Back, OpenPc
  <2> QED
    BY <2>5, <2>6
<1>10. ASSUME NEW s \in Session, Transfer(s) PROVE HandlerTypes'
  BY <1>10, GotoKeeps DEF Transfer, LockedPc, OpenPc
<1>11. ASSUME NEW s \in Session, TransferLock(s) PROVE HandlerTypes'
  BY <1>11, GotoKeeps DEF TransferLock, Lock, LockedPc, OpenPc
<1>12. ASSUME NEW s \in Session, Lookup(s) PROVE HandlerTypes'
  <2>1. UNCHANGED packets
    BY <1>12, ZenonT(30) DEF Lookup
  <2>2. ASSUME NEW st \in Stage, NEW c \in BOOLEAN,
               GotoWith(s, "join", [arg[s] EXCEPT !.st = st, !.created = c])
        PROVE  HandlerTypes'
    <3>1. [arg[s] EXCEPT !.st = st, !.created = c] \in Args
      BY ArgsOf, Zenon DEF Args
    <3> QED
      BY <2>1, <2>2, <3>1, GotoWithKeeps DEF LockedPc
  <2>3. stages[arg[s].id] \in Stage \cup {NoStage}
    BY ArgsOf DEF StageTypes
  <2> QED
    BY <1>12, <2>2, <2>3, Zenon DEF Lookup
<1>13. ASSUME NEW s \in Session, Join(s) PROVE HandlerTypes'
  BY <1>13, GotoKeeps DEF Join, LockedPc, OpenPc
<1>14. ASSUME NEW s \in Session, Discard(s) PROVE HandlerTypes'
  BY <1>14, GotoKeeps DEF Discard, CompareAndDelete, Unlock, LockedPc, OpenPc
<1>15. ASSUME NEW s \in Session, LeaveOld(s) PROVE HandlerTypes'
  BY <1>15, GotoKeeps, GotoWithKeeps, ArgsOf, StageAssumption, Zenon
     DEF LeaveOld, LockedPc, OpenPc, Args
<1>16. ASSUME NEW s \in Session, SweepOld(s) PROVE HandlerTypes'
  BY <1>16, GotoKeeps, GotoWithKeeps, ArgsOf, SMTT(40)
     DEF SweepOld, SweepAt, LockedPc, OpenPc, Args
<1>17. ASSUME NEW s \in Session, SweepHosted(s) PROVE HandlerTypes'
  BY <1>17, GotoKeeps, GotoWithKeeps, ArgsOf, SMTT(40)
     DEF SweepHosted, SweepAt, LockedPc, OpenPc, Args
<1>18. ASSUME NEW s \in Session, SetStage(s) PROVE HandlerTypes'
  BY <1>18, GotoKeeps DEF SetStage, Unlock, LockedPc, OpenPc
<1>19. ASSUME NEW s \in Session, Forget(s) PROVE HandlerTypes'
  BY <1>19, GotoKeeps DEF Forget, LockedPc, OpenPc
<1>20. ASSUME NEW s \in Session, ReleaseOld(s) PROVE HandlerTypes'
  BY <1>20, GotoKeeps, GotoWithKeeps, ArgsOf, StageAssumption, Zenon
     DEF ReleaseOld, LockedPc, OpenPc, Args
<1>21. ASSUME NEW s \in Session, Sweep(s) PROVE HandlerTypes'
  BY <1>21, GotoKeeps, GotoWithKeeps, ArgsOf, Zenon
     DEF Sweep, SweepAt, LockedPc, OpenPc, Args
<1>22. ASSUME NEW s \in Session, Failed(s) PROVE HandlerTypes'
  BY <1>22, GotoKeeps DEF Failed, LockedPc, OpenPc
<1>23. ASSUME NEW s \in Session, Reserve(s) PROVE HandlerTypes'
  BY <1>23, GotoKeeps, GotoWithKeeps, ArgsOf, Zenon
     DEF Reserve, Lock, LockedPc, OpenPc, Args, StageTypes
<1>24. ASSUME NEW s \in Session, ReserveSlot(s) PROVE HandlerTypes'
  BY <1>24, GotoKeeps DEF ReserveSlot, Unlock, LockedPc, OpenPc
<1>25. ASSUME NEW s \in Session, ReserveSave(s) PROVE HandlerTypes'
  BY <1>25, GotoKeeps DEF ReserveSave, Unlock, LockedPc, OpenPc
<1>26. ASSUME NEW s \in Session, Unreserve(s) PROVE HandlerTypes'
  BY <1>26, GotoKeeps, GotoWithKeeps, ArgsOf, Zenon
     DEF Unreserve, LockedPc, OpenPc, Args, SessionTypes
<1>27. ASSUME NEW s \in Session, UnreserveSlot(s) PROVE HandlerTypes'
  BY <1>27, GotoKeeps DEF UnreserveSlot, LockedPc, OpenPc
<1>28. ASSUME NEW s \in Session, LockStage(s) PROVE HandlerTypes'
  BY <1>28, GotoKeeps DEF LockStage, LockedPc, OpenPc
<1>29. ASSUME NEW s \in Session, Password(s) PROVE HandlerTypes'
  BY <1>29, GotoKeeps, GotoWithKeeps, ArgsOf, Zenon
     DEF Password, LockedPc, OpenPc, Args, SessionTypes
<1>30. ASSUME NEW s \in Session, PasswordStage(s) PROVE HandlerTypes'
  BY <1>30, GotoKeeps DEF PasswordStage, LockedPc, OpenPc
<1>31. ASSUME NEW s \in Session, UnlockStage(s) PROVE HandlerTypes'
  BY <1>31, GotoKeeps, GotoWithKeeps, ArgsOf, StageAssumption, ZenonT(60)
     DEF UnlockStage, LockedPc, OpenPc, Args, SessionTypes
<1>32. ASSUME NEW s \in Session, UnlockClear(s) PROVE HandlerTypes'
  <2>1. arg[s].st \in Stage
    BY <1>32, ArgsOf DEF UnlockClear, At, PointersAllocated
  <2>2. reserved[arg[s].st] \subseteq Char
    BY <2>1 DEF StageTypes
  <2>3. [arg[s] EXCEPT !.chars = reserved[arg[s].st]] \in Args
    BY <2>2, ArgsOf DEF Args
  <2> QED
    BY <1>32, <2>3, GotoWithKeeps DEF UnlockClear, OpenPc
<1>33. ASSUME NEW s \in Session, UnlockForget(s) PROVE HandlerTypes'
  BY <1>33, GotoKeeps DEF UnlockForget, DropPointer, LockedPc, OpenPc
<1>34. ASSUME NEW s \in Session, UnlockNotify(s) PROVE HandlerTypes'
  BY <1>34, GotoKeeps, GotoWithKeeps, ArgsOf, Zenon
     DEF UnlockNotify, DropPointer, LockedPc, OpenPc, Args
<1>35. ASSUME NEW st \in Stage, GraceEnds(st) PROVE HandlerTypes'
  BY <1>35 DEF HandlerTypes, GraceEnds, sessionVars, handlerVars, logoutVars
<1> QED
  BY <1>1, <1>2, <1>3, <1>4, <1>5, <1>6, <1>7, <1>8, <1>9, <1>10, <1>11,
     <1>12, <1>13, <1>14, <1>15, <1>16, <1>17, <1>18, <1>19, <1>20, <1>21,
     <1>22, <1>23, <1>24, <1>25, <1>26, <1>27, <1>28, <1>29, <1>30, <1>31,
     <1>32, <1>33, <1>34, <1>35
     DEF Next, Handle, Logout

\* Every step keeps the types of the logouts' control points and locals.
LEMMA LogoutTypesInv ==
  ASSUME TypeOK, PointersAllocated, [Next]_vars
  PROVE  LogoutTypes'
<1> USE DEF TypeOK
<1>1. CASE UNCHANGED vars
  BY <1>1
     DEF LogoutTypes, Clear, vars, stageVars, sessionVars, handlerVars,
         logoutVars
<1>2. ASSUME NEW s \in Session,
               Receive(s) \/ Handle(s)
      PROVE  LogoutTypes'
  <2>1. UNCHANGED logoutVars
    BY <1>2, Zenon
       DEF Handle, Receive, CreateCheck, CreateStore, Move, Enter,
           EnterReserve, Back, Transfer, TransferLock, Lookup, Join,
           Discard, LeaveOld, SweepOld, SweepAt, SweepHosted, SetStage,
           Forget, ReleaseOld, Sweep, Failed, Reserve, ReserveSlot,
           ReserveSave, Unreserve, UnreserveSlot, LockStage, Password,
           PasswordStage, UnlockStage, UnlockClear, UnlockForget,
           UnlockNotify
  <2> QED
    BY <2>1 DEF LogoutTypes, logoutVars
<1>3. ASSUME NEW s \in Session, StartLogout(s) PROVE LogoutTypes'
  BY <1>3, StageAssumption
     DEF StartLogout, LogoutTypes, logoutVars, LGoto, LogoutPc, OncePc,
         FinalPc
<1>4. ASSUME NEW s \in Session, Unregister(s) PROVE LogoutTypes'
  BY <1>4, StageAssumption
     DEF Unregister, LogoutTypes, logoutVars, LGoto, LogoutPc, OncePc,
         FinalPc
<1>5. ASSUME NEW s \in Session, Snapshot(s) PROVE LogoutTypes'
  <2>1. ReplacementReservations(s) \subseteq Stage
    BY DEF ReplacementReservations, SessionTypes
  <2> QED
    BY <1>5, <2>1 DEF Snapshot, LGoto, LogoutTypes, LogoutPc, OncePc
<1>6. ASSUME NEW s \in Session, LeaveAll(s) PROVE LogoutTypes'
  BY <1>6, StageAssumption
     DEF LeaveAll, LogoutTypes, logoutVars, Visiting, LGoto, LogoutPc,
         OncePc, FinalPc
<1>7. ASSUME NEW s \in Session, DropSlots(s) PROVE LogoutTypes'
  BY <1>7, StageAssumption
     DEF DropSlots, SlotsAfter, LogoutTypes, logoutVars, Visiting, LGoto,
         LogoutPc, OncePc, FinalPc
<1>8. ASSUME NEW s \in Session, LeaveStage(s) PROVE LogoutTypes'
  BY <1>8, StageAssumption
     DEF LeaveStage, LogoutTypes, logoutVars, LGoto, LogoutPc, OncePc,
         FinalPc
<1>9. ASSUME NEW s \in Session, SweepOut(s) PROVE LogoutTypes'
  BY <1>9, StageAssumption
     DEF SweepOut, SweepingOut, LogoutTypes, logoutVars, Visiting, LGoto,
         LogoutPc, OncePc, FinalPc
<1>10. ASSUME NEW s \in Session, SweepHostedOut(s) PROVE LogoutTypes'
  BY <1>10, StageAssumption
     DEF SweepHostedOut, SweepingOut, LogoutTypes, logoutVars, Visiting,
         LGoto, LogoutPc, OncePc, FinalPc
<1>11. ASSUME NEW s \in Session, Panic(s) PROVE LogoutTypes'
  BY <1>11, StageAssumption
     DEF Panic, LogoutTypes, logoutVars, LGoto, LogoutPc, OncePc, FinalPc
<1>12. ASSUME NEW s \in Session, Finalize(s) PROVE LogoutTypes'
  BY <1>12, StageAssumption
     DEF Finalize, Lock, LogoutTypes, logoutVars, LGoto, LogoutPc, OncePc,
         FinalPc
<1>13. ASSUME NEW s \in Session, FinalizeKeep(s) PROVE LogoutTypes'
  <2>1. ReplacementReservations(s) \subseteq Stage
    BY DEF ReplacementReservations, SessionTypes
  <2> QED
    BY <1>13, <2>1 DEF FinalizeKeep, LGoto, LogoutTypes, LogoutPc, FinalPc
<1>14. ASSUME NEW s \in Session, FinalizeStages(s) PROVE LogoutTypes'
  BY <1>14, StageAssumption
     DEF FinalizeStages, FinalizeStage, CompareAndDelete, NextHost,
         SlotsAfter, LogoutTypes, logoutVars, Visiting, LGoto, LogoutPc,
         OncePc, FinalPc
<1>15. ASSUME NEW s \in Session, Detach(s) PROVE LogoutTypes'
  BY <1>15, StageAssumption
     DEF Detach, Unlock, LogoutTypes, logoutVars, LGoto, LogoutPc, OncePc,
         FinalPc
<1>16. ASSUME NEW st \in Stage, GraceEnds(st) PROVE LogoutTypes'
  BY <1>16 DEF LogoutTypes, GraceEnds, sessionVars, handlerVars, logoutVars
<1> QED
  BY <1>1, <1>2, <1>3, <1>4, <1>5, <1>6, <1>7, <1>8, <1>9, <1>10, <1>11,
     <1>12, <1>13, <1>14, <1>15, <1>16
     DEF Next, Handle, Logout

-----------------------------------------------------------------------------

\* Every step keeps the pointers in use allocated.
LEMMA PointersAllocatedInv ==
  ASSUME TypeOK, PointersAllocated, [Next]_vars
  PROVE  PointersAllocated'
<1> USE DEF TypeOK, HandlerTypes, SessionTypes, StageTypes
<1>1. CASE UNCHANGED vars
  BY <1>1
     DEF PointersAllocated, Allocated, vars, stageVars, sessionVars,
         handlerVars, logoutVars
<1>2. ASSUME NEW s \in Session,
               StartLogout(s) \/ Unregister(s) \/ Snapshot(s) \/ LeaveAll(s)
               \/ DropSlots(s) \/ LeaveStage(s) \/ Panic(s) \/ Finalize(s) \/
               FinalizeKeep(s)
      PROVE  PointersAllocated'
  <2>1. UNCHANGED <<idOf, stages, stage, reservationStage, arg, pc>>
    BY <1>2
       DEF StartLogout, Unregister, Snapshot, LeaveAll, DropSlots,
           LeaveStage, Panic, Finalize, FinalizeKeep, stageVars,
           sessionVars, handlerVars
  <2> QED
    BY <2>1 DEF PointersAllocated, Allocated
<1>3. ASSUME NEW s \in Session, Receive(s) PROVE PointersAllocated'
  <2>1. PICK k \in Sends[s], i \in StageId : GotoWith(s, k, [arg[s] EXCEPT !.kind = k, !.id = i])
    BY <1>3, Zenon DEF Receive
  <2>2. k \in Packet
    BY StageAssumption
  <2> DEFINE x == [arg[s] EXCEPT !.kind = k, !.id = i]
  <2>3. x.st = arg[s].st /\ x.old = arg[s].old
    BY ArgsOf, ArgsUpdate
  <2>4. UNCHANGED <<idOf, stages, stage, reservationStage>>
    BY <1>3 DEF Receive, stageVars, sessionVars
  <2> HIDE DEF x
  <2> QED
    BY <2>1, <2>2, <2>3, <2>4, PointersKept, Zenon DEF PointersAllocated, Packet, x
<1>4. ASSUME NEW s \in Session, CreateCheck(s) PROVE PointersAllocated'
  BY <1>4, PointersGoto, Zenon
     DEF CreateCheck, stageVars, sessionVars, SessionTypes, StageTypes
<1>5. ASSUME NEW s \in Session, CreateStore(s) PROVE PointersAllocated'
  <2>1. UNCHANGED <<stage, reservationStage>>
    BY <1>5 DEF CreateStore, sessionVars
  <2>2. CASE UNCHANGED stageVars
    BY <1>5, <2>1, <2>2, PointersGoto, Zenon DEF CreateStore, stageVars
  <2>3. ASSUME NEW st \in Stage, NEW max \in PlayerCount,
               NewStage(st, arg[s].id, s, max), Goto(s, "idle")
        PROVE  PointersAllocated'
    <3>1. arg' = [arg EXCEPT ![s] = NoArgs] /\ pc' = [pc EXCEPT ![s] = "idle"]
      BY <2>3 DEF Goto, GotoWith
    <3>2. \A u \in Stage \cup {NoStage} : Allocated(u) => Allocated(u)'
      BY <2>3, ArgsOf, NewStageAllocates, Zenon DEF PointersAllocated
    <3>3. \A id \in StageId : Allocated(stages[id])'
      BY <2>3, ArgsOf, NewStageAllocates, Zenon DEF PointersAllocated
    <3>4. \A t \in Session : Allocated(stage[t])' /\ Allocated(reservationStage[t])'
      BY <2>1, <3>2 DEF PointersAllocated, SessionTypes
    <3>5. \A t \in Session : Allocated(arg[t].st)' /\ Allocated(arg[t].old)'
      BY <3>1, <3>2, ArgsOf
         DEF PointersAllocated, HandlerTypes, NoArgs, Allocated
    <3>6. \A t \in Session : /\ pc'[t] = "enterReserve" => arg'[t].old # NoStage
                             /\ pc'[t] = "unlockClear" => arg'[t].st # NoStage
      BY <3>1 DEF PointersAllocated, HandlerTypes
    <3> QED
      BY <3>3, <3>4, <3>5, <3>6 DEF PointersAllocated
  <2> QED
    BY <1>5, <2>2, <2>3 DEF CreateStore
<1>6. ASSUME NEW s \in Session, Move(s) PROVE PointersAllocated'
  BY <1>6, PointersGoto, Zenon
     DEF Move, stageVars, sessionVars, SessionTypes, StageTypes
<1>7. ASSUME NEW s \in Session, Enter(s) PROVE PointersAllocated'
  <2>1. UNCHANGED <<idOf, stages, stage, reservationStage>>
    BY <1>7 DEF Enter, stageVars, sessionVars
  <2>2. CASE Goto(s, "idle")
    BY <2>1, <2>2, PointersGoto, Zenon
  <2>3. CASE ~IsStageFull(s, arg[s].id)
    <3> DEFINE x == [arg[s] EXCEPT !.old = stage[s]]
    <3>1. x.st = arg[s].st /\ x.old = stage[s]
      BY ArgsOf, ArgsUpdate
    <3>2. \/ GotoWith(s, "transfer", x)
          \/ GotoWith(s, "enterReserve", x) /\ x.old # NoStage
      BY <1>7, <2>3, <3>1 DEF Enter
    <3> HIDE DEF x
    <3> QED
      BY <2>1, <3>1, <3>2, PointersKept, Zenon DEF PointersAllocated
  <2> QED
    BY <1>7, <2>2, <2>3 DEF Enter
<1>8. ASSUME NEW s \in Session, EnterReserve(s) PROVE PointersAllocated'
  BY <1>8, PointersGoto, Zenon
     DEF EnterReserve, stageVars, sessionVars, SessionTypes, StageTypes
<1>9. ASSUME NEW s \in Session, Back(s) PROVE PointersAllocated'
  <2> DEFINE target == IF moveStack[s] # <<>> THEN Top(moveStack[s]) ELSE HomeId
             x == [arg[s] EXCEPT !.id = target, !.old = stage[s]]
  <2>1. UNCHANGED <<idOf, stages, stage, reservationStage>>
    BY <1>9 DEF Back, stageVars
  <2>2. x.st = arg[s].st /\ x.old = stage[s]
    BY ArgsOf, ArgsUpdate
  <2>3. Goto(s, "idle") \/ GotoWith(s, "transfer", x)
    BY <1>9 DEF Back
  <2>4. CASE Goto(s, "idle")
    BY <2>1, <2>4, PointersGoto, Zenon
  <2> HIDE DEF x
  <2>5. CASE GotoWith(s, "transfer", x)
    BY <2>1, <2>2, <2>5, PointersKept, Zenon DEF PointersAllocated
  <2> QED
    BY <2>3, <2>4, <2>5
<1>10. ASSUME NEW s \in Session, Transfer(s) PROVE PointersAllocated'
  BY <1>10, PointersGoto, Zenon
     DEF Transfer, stageVars, sessionVars, SessionTypes, StageTypes
<1>11. ASSUME NEW s \in Session, TransferLock(s) PROVE PointersAllocated'
  BY <1>11, PointersGoto, Zenon
     DEF TransferLock, Lock, stageVars, sessionVars, SessionTypes,
         StageTypes
<1>12. ASSUME NEW s \in Session, Lookup(s) PROVE PointersAllocated'
  <2>1. UNCHANGED <<stage, reservationStage>>
    BY <1>12, Zenon DEF Lookup, sessionVars
  <2>2. CASE stages[arg[s].id] # NoStage
    <3> DEFINE x == [arg[s] EXCEPT !.st = stages[arg[s].id], !.created = FALSE]
    <3>1. x.st = stages[arg[s].id] /\ x.old = arg[s].old
      BY ArgsOf, ArgsUpdate
    <3>2. GotoWith(s, "join", x) /\ UNCHANGED <<idOf, stages>>
      BY <1>12, <2>2, Zenon DEF Lookup, stageVars
    <3>3. Allocated(x.st) /\ Allocated(x.old)
      BY <3>1, ArgsOf DEF PointersAllocated
    <3> HIDE DEF x
    <3> QED
      BY <2>1, <3>2, <3>3, PointersKept, Zenon
  <2>3. ASSUME NEW st \in Stage,
               NewStage(st, arg[s].id, NoSession, DefaultMaxPlayers),
               GotoWith(s, "join", [arg[s] EXCEPT !.st = st, !.created = TRUE])
        PROVE  PointersAllocated'
    <3> DEFINE x == [arg[s] EXCEPT !.st = st, !.created = TRUE]
    <3>1. x.st = st /\ x.old = arg[s].old
      BY ArgsOf, ArgsUpdate
    <3>2. arg' = [arg EXCEPT ![s] = x] /\ pc' = [pc EXCEPT ![s] = "join"]
      BY <2>3 DEF GotoWith
    <3>3. \A u \in Stage \cup {NoStage} : Allocated(u) => Allocated(u)'
      BY <2>3, ArgsOf, NewStageAllocates, Zenon DEF PointersAllocated
    <3>4. \A id \in StageId : Allocated(stages[id])'
      BY <2>3, ArgsOf, NewStageAllocates, Zenon DEF PointersAllocated
    <3>5. Allocated(st)'
      BY <2>3, ArgsOf, NewStageAllocates DEF PointersAllocated
    <3>6. \A t \in Session : Allocated(stage[t])' /\ Allocated(reservationStage[t])'
      BY <2>1, <3>3 DEF PointersAllocated, SessionTypes
    <3>7. \A t \in Session : Allocated(arg[t].st)' /\ Allocated(arg[t].old)'
      BY <3>1, <3>2, <3>3, <3>5, ArgsOf DEF PointersAllocated, HandlerTypes
    <3>8. \A t \in Session : /\ pc'[t] = "enterReserve" => arg'[t].old # NoStage
                             /\ pc'[t] = "unlockClear" => arg'[t].st # NoStage
      BY <3>2 DEF PointersAllocated, HandlerTypes
    <3> QED
      BY <3>4, <3>6, <3>7, <3>8 DEF PointersAllocated
  <2> QED
    BY <1>12, <2>2, <2>3, Zenon DEF Lookup
<1>13. ASSUME NEW s \in Session, Join(s) PROVE PointersAllocated'
  BY <1>13, PointersGoto, Zenon
     DEF Join, stageVars, sessionVars, SessionTypes, StageTypes
<1>14. ASSUME NEW s \in Session, Discard(s) PROVE PointersAllocated'
  BY <1>14, PointersGoto, Zenon
     DEF Discard, CompareAndDelete, Unlock, stageVars, sessionVars,
         SessionTypes, StageTypes
<1>15. ASSUME NEW s \in Session, LeaveOld(s) PROVE PointersAllocated'
  <2> DEFINE x == [arg[s] EXCEPT !.todo = Transient]
  <2>1. x.st = arg[s].st /\ x.old = arg[s].old
    BY ArgsOf, ArgsUpdate
  <2>2. Allocated(x.st) /\ Allocated(x.old)
    BY <2>1 DEF PointersAllocated
  <2>3. GotoWith(s, "sweepOld", x)
    BY <1>15 DEF LeaveOld, sessionVars, stageVars
  <2>4. UNCHANGED <<idOf, stages, stage>>
    BY <1>15 DEF LeaveOld, sessionVars, stageVars
  <2>5. \A t \in Session : reservationStage'[t] \in {reservationStage[t], NoStage}
    BY <1>15 DEF LeaveOld, sessionVars, stageVars, SessionTypes
  <2> HIDE DEF x
  <2> QED
    BY <2>2, <2>3, <2>4, <2>5, PointersKept, Zenon
<1>16. ASSUME NEW s \in Session, SweepOld(s) PROVE PointersAllocated'
  <2>1. PICK id \in arg[s].todo :
          /\ stages' = [stages EXCEPT ![id] = IF id \in Sweepable THEN NoStage ELSE @]
          /\ \/ GotoWith(s, "sweepHosted", [arg[s] EXCEPT !.todo = StageId])
             \/ GotoWith(s, pc[s], [arg[s] EXCEPT !.todo = @ \ {id}])
    BY <1>16, ZenonT(60) DEF SweepOld, SweepAt, At
  <2>2. \A i \in StageId : stages'[i] \in {stages[i], NoStage}
    BY <2>1 DEF StageTypes
  <2>3. /\ UNCHANGED <<idOf, stage, reservationStage>>
        /\ pc[s] \notin {"enterReserve", "unlockClear"}
    BY <1>16 DEF SweepOld, SweepAt, At, sessionVars
  <2>4. ASSUME NEW td, NEW p \in {"sweepHosted", pc[s]}, GotoWith(s, p,
               [arg[s] EXCEPT !.todo = td])
        PROVE  PointersAllocated'
    <3> DEFINE x == [arg[s] EXCEPT !.todo = td]
    <3>1. x.st = arg[s].st /\ x.old = arg[s].old
      BY ArgsOf, ArgsUpdate
    <3>2. GotoWith(s, p, x)
      BY <2>4
    <3> HIDE DEF x
    <3> QED
      BY <2>2, <2>3, <3>1, <3>2, PointersKept, Zenon DEF PointersAllocated
  <2> QED
    BY <2>1, <2>4, Zenon
<1>17. ASSUME NEW s \in Session, SweepHosted(s) PROVE PointersAllocated'
  <2>1. PICK id \in arg[s].todo :
          /\ stages' = [stages EXCEPT ![id] = IF id \in SweepableHosted(s) THEN NoStage ELSE @]
          /\ \/ GotoWith(s, "setStage", [arg[s] EXCEPT !.todo = {}])
             \/ GotoWith(s, pc[s], [arg[s] EXCEPT !.todo = @ \ {id}])
    BY <1>17, Zenon DEF SweepHosted, SweepAt, At
  <2>2. \A i \in StageId : stages'[i] \in {stages[i], NoStage}
    BY <2>1 DEF StageTypes
  <2>3. /\ UNCHANGED <<idOf, stage, reservationStage>>
        /\ pc[s] \notin {"enterReserve", "unlockClear"}
    BY <1>17 DEF SweepHosted, SweepAt, At, sessionVars
  <2>4. ASSUME NEW td, NEW p \in {"setStage", pc[s]}, GotoWith(s, p, [arg[s]
               EXCEPT !.todo = td])
        PROVE  PointersAllocated'
    <3> DEFINE x == [arg[s] EXCEPT !.todo = td]
    <3>1. x.st = arg[s].st /\ x.old = arg[s].old
      BY ArgsOf, ArgsUpdate
    <3>2. GotoWith(s, p, x)
      BY <2>4
    <3> HIDE DEF x
    <3> QED
      BY <2>2, <2>3, <3>1, <3>2, PointersKept, Zenon DEF PointersAllocated
  <2> QED
    BY <2>1, <2>4, Zenon
<1>18. ASSUME NEW s \in Session, SetStage(s) PROVE PointersAllocated'
  BY <1>18, PointersGoto, Zenon
     DEF SetStage, Unlock, stageVars, sessionVars, SessionTypes, StageTypes
<1>19. ASSUME NEW s \in Session, Forget(s) PROVE PointersAllocated'
  BY <1>19, PointersGoto, Zenon
     DEF Forget, stageVars, sessionVars, SessionTypes, StageTypes
<1>20. ASSUME NEW s \in Session, ReleaseOld(s) PROVE PointersAllocated'
  <2> DEFINE x == [arg[s] EXCEPT !.todo = Transient]
  <2>1. x.st = arg[s].st /\ x.old = arg[s].old
    BY ArgsOf, ArgsUpdate
  <2>2. Allocated(x.st) /\ Allocated(x.old)
    BY <2>1 DEF PointersAllocated
  <2>3. GotoWith(s, "sweep", x)
    BY <1>20 DEF ReleaseOld, sessionVars, stageVars
  <2>4. UNCHANGED <<idOf, stages, stage>>
    BY <1>20 DEF ReleaseOld, sessionVars, stageVars
  <2>5. \A t \in Session : reservationStage'[t] \in {reservationStage[t], NoStage}
    BY <1>20 DEF ReleaseOld, sessionVars, stageVars, SessionTypes
  <2> HIDE DEF x
  <2> QED
    BY <2>2, <2>3, <2>4, <2>5, PointersKept, Zenon
<1>21. ASSUME NEW s \in Session, Sweep(s) PROVE PointersAllocated'
  <2>1. PICK id \in arg[s].todo :
          /\ stages' = [stages EXCEPT ![id] = IF id \in Sweepable THEN NoStage ELSE @]
          /\ \/ GotoWith(s, "idle", [arg[s] EXCEPT !.todo = {}])
             \/ GotoWith(s, pc[s], [arg[s] EXCEPT !.todo = @ \ {id}])
    BY <1>21, Zenon DEF Sweep, SweepAt, At
  <2>2. \A i \in StageId : stages'[i] \in {stages[i], NoStage}
    BY <2>1 DEF StageTypes
  <2>3. /\ UNCHANGED <<idOf, stage, reservationStage>>
        /\ pc[s] \notin {"enterReserve", "unlockClear"}
    BY <1>21 DEF Sweep, SweepAt, At, sessionVars
  <2>4. ASSUME NEW td, NEW p \in {"idle", pc[s]}, GotoWith(s, p, [arg[s]
               EXCEPT !.todo = td])
        PROVE  PointersAllocated'
    <3> DEFINE x == [arg[s] EXCEPT !.todo = td]
    <3>1. x.st = arg[s].st /\ x.old = arg[s].old
      BY ArgsOf, ArgsUpdate
    <3>2. GotoWith(s, p, x)
      BY <2>4
    <3> HIDE DEF x
    <3> QED
      BY <2>2, <2>3, <3>1, <3>2, PointersKept, Zenon DEF PointersAllocated
  <2> QED
    BY <2>1, <2>4, Zenon
<1>22. ASSUME NEW s \in Session, Failed(s) PROVE PointersAllocated'
  BY <1>22, PointersGoto, Zenon
     DEF Failed, stageVars, sessionVars, SessionTypes, StageTypes
<1>23. ASSUME NEW s \in Session, Reserve(s) PROVE PointersAllocated'
  <2>1. CASE StillOpen(s) /\ stages[arg[s].id] # NoStage
    <3> DEFINE x == [arg[s] EXCEPT !.st = stages[arg[s].id]]
    <3>1. x.st = stages[arg[s].id] /\ x.old = arg[s].old
      BY ArgsOf, ArgsUpdate
    <3>2. GotoWith(s, "reserveSlot", x) /\ UNCHANGED <<idOf, stages, stage, reservationStage>>
      BY <1>23, <2>1 DEF Reserve, stageVars
    <3>3. Allocated(x.st) /\ Allocated(x.old)
      BY <3>1, ArgsOf DEF PointersAllocated
    <3> HIDE DEF x
    <3> QED
      BY <3>2, <3>3, PointersKept, Zenon
  <2>2. CASE ~(StillOpen(s) /\ stages[arg[s].id] # NoStage)
    BY <1>23, <2>2, PointersGoto, Zenon DEF Reserve, stageVars
  <2> QED
    BY <2>1, <2>2
<1>24. ASSUME NEW s \in Session, ReserveSlot(s) PROVE PointersAllocated'
  BY <1>24, PointersGoto, Zenon
     DEF ReserveSlot, Unlock, stageVars, sessionVars, SessionTypes,
         StageTypes
<1>25. ASSUME NEW s \in Session, ReserveSave(s) PROVE PointersAllocated'
  BY <1>25, PointersGoto, Zenon
     DEF ReserveSave, Unlock, stageVars, sessionVars, SessionTypes,
         StageTypes
<1>26. ASSUME NEW s \in Session, Unreserve(s) PROVE PointersAllocated'
  <2> DEFINE x == [arg[s] EXCEPT !.st = reservationStage[s]]
  <2>1. x.st = reservationStage[s] /\ x.old = arg[s].old
    BY ArgsOf, ArgsUpdate
  <2>2. Allocated(x.st) /\ Allocated(x.old)
    BY <2>1 DEF PointersAllocated
  <2>3. GotoWith(s, "idle", x) \/ GotoWith(s, "unreserveSlot", x)
    BY <1>26 DEF Unreserve, sessionVars, stageVars
  <2>4. UNCHANGED <<idOf, stages, stage>>
    BY <1>26 DEF Unreserve, sessionVars, stageVars
  <2>5. \A t \in Session : reservationStage'[t] \in {reservationStage[t], NoStage}
    BY <1>26 DEF Unreserve, sessionVars, stageVars, SessionTypes
  <2> HIDE DEF x
  <2> QED
    BY <2>2, <2>3, <2>4, <2>5, PointersKept, Zenon
<1>27. ASSUME NEW s \in Session, UnreserveSlot(s) PROVE PointersAllocated'
  BY <1>27, PointersGoto, Zenon
     DEF UnreserveSlot, stageVars, sessionVars, SessionTypes, StageTypes
<1>28. ASSUME NEW s \in Session, LockStage(s) PROVE PointersAllocated'
  BY <1>28, PointersGoto, Zenon
     DEF LockStage, stageVars, sessionVars, SessionTypes, StageTypes
<1>29. ASSUME NEW s \in Session, Password(s) PROVE PointersAllocated'
  <2> DEFINE x == [arg[s] EXCEPT !.st = reservationStage[s]]
  <2>1. x.st = reservationStage[s] /\ x.old = arg[s].old
    BY ArgsOf, ArgsUpdate
  <2>2. Allocated(x.st) /\ Allocated(x.old)
    BY <2>1 DEF PointersAllocated
  <2>3. GotoWith(s, "idle", x) \/ GotoWith(s, "passwordStage", x)
    BY <1>29 DEF Password, sessionVars, stageVars
  <2>4. UNCHANGED <<idOf, stages, stage>>
    BY <1>29 DEF Password, sessionVars, stageVars
  <2>5. \A t \in Session : reservationStage'[t] \in {reservationStage[t], NoStage}
    BY <1>29 DEF Password, sessionVars, stageVars, SessionTypes
  <2> HIDE DEF x
  <2> QED
    BY <2>2, <2>3, <2>4, <2>5, PointersKept, Zenon
<1>30. ASSUME NEW s \in Session, PasswordStage(s) PROVE PointersAllocated'
  BY <1>30, PointersGoto, Zenon
     DEF PasswordStage, stageVars, sessionVars, SessionTypes, StageTypes
<1>31. ASSUME NEW s \in Session, UnlockStage(s) PROVE PointersAllocated'
  <2> DEFINE x == [arg[s] EXCEPT !.st = reservationStage[s], !.todo = Transient]
  <2>1. x.st = reservationStage[s] /\ x.old = arg[s].old
    BY ArgsOf, ArgsUpdate
  <2>2. Allocated(x.st) /\ Allocated(x.old)
    BY <2>1 DEF PointersAllocated
  <2>3. \/ GotoWith(s, "sweep", x)
        \/ GotoWith(s, "unlockClear", x) /\ x.st # NoStage
    BY <1>31 DEF UnlockStage, sessionVars, stageVars
  <2>4. UNCHANGED <<idOf, stages, stage>>
    BY <1>31 DEF UnlockStage, sessionVars, stageVars
  <2>5. \A t \in Session : reservationStage'[t] \in {reservationStage[t], NoStage}
    BY <1>31 DEF UnlockStage, sessionVars, stageVars, SessionTypes
  <2> HIDE DEF x
  <2> QED
    BY <2>2, <2>3, <2>4, <2>5, PointersKept, Zenon
<1>32. ASSUME NEW s \in Session, UnlockClear(s) PROVE PointersAllocated'
  <2> DEFINE x == [arg[s] EXCEPT !.chars = reserved[arg[s].st]]
  <2>1. x.st = arg[s].st /\ x.old = arg[s].old
    BY ArgsOf, ArgsUpdate
  <2>2. GotoWith(s, "unlockForget", x) /\ UNCHANGED <<idOf, stage, reservationStage>>
    BY <1>32 DEF UnlockClear, sessionVars
  <2>3. \A id \in StageId : stages'[id] \in {stages[id], NoStage}
    BY <1>32 DEF UnlockClear, CompareAndDelete, StageTypes
  <2> HIDE DEF x
  <2> QED
    BY <2>1, <2>2, <2>3, PointersKept, Zenon DEF PointersAllocated
<1>33. ASSUME NEW s \in Session, UnlockForget(s) PROVE PointersAllocated'
  BY <1>33, PointersGoto, Zenon
     DEF UnlockForget, DropPointer, stageVars, sessionVars, SessionTypes,
         StageTypes
<1>34. ASSUME NEW s \in Session, UnlockNotify(s) PROVE PointersAllocated'
  <2>1. CASE arg[s].chars = {} /\ Goto(s, "sweep") /\ UNCHANGED reservationStage
    BY <1>34, <2>1, PointersGoto, Zenon DEF UnlockNotify, stageVars
  <2>2. ASSUME NEW c \in arg[s].chars,
               GotoWith(s, "unlockNotify", [arg[s] EXCEPT !.chars = @ \ {c}])
        PROVE  PointersAllocated'
    <3> DEFINE x == [arg[s] EXCEPT !.chars = @ \ {c}]
    <3>1. x.st = arg[s].st /\ x.old = arg[s].old
      BY ArgsOf, ArgsUpdate
    <3>2. GotoWith(s, "unlockNotify", x)
      BY <2>2
    <3>3. UNCHANGED <<idOf, stages, stage>>
      BY <1>34 DEF UnlockNotify, stageVars
    <3>4. \A t \in Session : reservationStage'[t] \in {reservationStage[t], NoStage}
      BY <1>34, Zenon DEF UnlockNotify, DropPointer, SessionTypes
    <3>5. Allocated(x.st) /\ Allocated(x.old)
      BY <3>1 DEF PointersAllocated
    <3> HIDE DEF x
    <3> QED
      BY <3>2, <3>3, <3>4, <3>5, PointersKept, Zenon
  <2> QED
    BY <1>34, <2>1, <2>2, Zenon DEF UnlockNotify
<1>35. ASSUME NEW s \in Session, SweepOut(s) PROVE PointersAllocated'
  BY <1>35
     DEF SweepOut, SweepingOut, PointersAllocated, LGoto, handlerVars,
         sessionVars, Visiting, stageVars, SessionTypes, HandlerTypes,
         StageTypes, NoArgs, Allocated
<1>36. ASSUME NEW s \in Session, SweepHostedOut(s) PROVE PointersAllocated'
  BY <1>36
     DEF SweepHostedOut, SweepingOut, PointersAllocated, LGoto, handlerVars,
         sessionVars, Visiting, stageVars, SessionTypes, HandlerTypes,
         StageTypes, NoArgs, Allocated
<1>37. ASSUME NEW s \in Session, FinalizeStages(s) PROVE PointersAllocated'
  <2>1. UNCHANGED <<idOf, sessionVars, handlerVars>>
    BY <1>37 DEF FinalizeStages
  <2>2. \A id \in StageId : stages'[id] \in {stages[id], NoStage}
    BY <1>37 DEF FinalizeStages, FinalizeStage, CompareAndDelete, StageTypes
  <2> QED
    BY <2>1, <2>2 DEF PointersAllocated, Allocated, sessionVars, handlerVars
<1>38. ASSUME NEW s \in Session, Detach(s) PROVE PointersAllocated'
  BY <1>38
     DEF Detach, Unlock, PointersAllocated, LGoto, handlerVars, sessionVars,
         stageVars, SessionTypes, HandlerTypes, StageTypes, NoArgs,
         Allocated
<1>39. ASSUME NEW st \in Stage, GraceEnds(st) PROVE PointersAllocated'
  BY <1>39
     DEF PointersAllocated, GraceEnds, sessionVars, handlerVars, logoutVars,
         Allocated
<1> QED
  BY <1>1, <1>2, <1>3, <1>4, <1>5, <1>6, <1>7, <1>8, <1>9, <1>10, <1>11,
     <1>12, <1>13, <1>14, <1>15, <1>16, <1>17, <1>18, <1>19, <1>20, <1>21,
     <1>22, <1>23, <1>24, <1>25, <1>26, <1>27, <1>28, <1>29, <1>30, <1>31,
     <1>32, <1>33, <1>34, <1>35, <1>36, <1>37, <1>38, <1>39
     DEF Next, Handle, Logout

\* A handler step keeps lifecycleMu with the section that holds it when it
\* stays inside or outside of one, locks on its way in or unlocks on its way out.
LEMMA HandlerHeld ==
  ASSUME SessionTypes, HandlerTypes, LifecycleHeld,
         NEW s \in Session, NEW p, NEW a, GotoWith(s, p, a), UNCHANGED lpc,
         \/ UNCHANGED lifecycle /\ (pc[s] \in LockedPc <=> p \in LockedPc)
         \/ Lock(s, "handler") /\ p \in LockedPc
         \/ Unlock(s) /\ pc[s] \in LockedPc /\ p \notin LockedPc
  PROVE  LifecycleHeld'
<1>1. pc' = [pc EXCEPT ![s] = p]
  BY DEF GotoWith
<1>2. pc'[s] = p /\ \A t \in Session \ {s} : pc'[t] = pc[t]
  BY <1>1 DEF HandlerTypes
<1>3. CASE UNCHANGED lifecycle /\ (pc[s] \in LockedPc <=> p \in LockedPc)
  BY <1>2, <1>3 DEF LifecycleHeld
<1>4. CASE Lock(s, "handler") /\ p \in LockedPc
  BY <1>2, <1>4, Zenon DEF LifecycleHeld, Lock, SessionTypes
<1>5. CASE Unlock(s) /\ pc[s] \in LockedPc /\ p \notin LockedPc
  BY <1>2, <1>5 DEF LifecycleHeld, Unlock, SessionTypes
<1> QED
  BY <1>3, <1>4, <1>5

\* The same of a step of the logout.
LEMMA LogoutHeld ==
  ASSUME SessionTypes, LogoutTypes, LifecycleHeld,
         NEW s \in Session, NEW p, LGoto(s, p), UNCHANGED pc,
         \/ UNCHANGED lifecycle /\ (lpc[s] \in FinalPc <=> p \in FinalPc)
         \/ Lock(s, "logout") /\ p \in FinalPc
         \/ Unlock(s) /\ lpc[s] \in FinalPc /\ p \notin FinalPc
  PROVE  LifecycleHeld'
<1>1. lpc'[s] = p /\ \A t \in Session \ {s} : lpc'[t] = lpc[t]
  BY DEF LGoto, LogoutTypes
<1>2. CASE UNCHANGED lifecycle /\ (lpc[s] \in FinalPc <=> p \in FinalPc)
  BY <1>1, <1>2 DEF LifecycleHeld
<1>3. CASE Lock(s, "logout") /\ p \in FinalPc
  BY <1>1, <1>3, Zenon DEF LifecycleHeld, Lock, SessionTypes
<1>4. CASE Unlock(s) /\ lpc[s] \in FinalPc /\ p \notin FinalPc
  BY <1>1, <1>4 DEF LifecycleHeld, Unlock, SessionTypes
<1> QED
  BY <1>2, <1>3, <1>4

\* And of one that moves neither.
LEMMA HeldUnchanged ==
  ASSUME LifecycleHeld, UNCHANGED <<lifecycle, pc, lpc>> PROVE LifecycleHeld'
  BY DEF LifecycleHeld

\* Every step keeps lifecycleMu with the section that holds it.
LEMMA LifecycleHeldInv ==
  ASSUME TypeOK, LifecycleHeld, [Next]_vars
  PROVE  LifecycleHeld'
<1> USE DEF TypeOK
<1>1. CASE UNCHANGED vars
  BY <1>1
     DEF LifecycleHeld, vars, stageVars, sessionVars, handlerVars,
         logoutVars
<1>2. ASSUME NEW s \in Session, Receive(s) PROVE LifecycleHeld'
  <2>1. PICK k \in Sends[s] : \E a : GotoWith(s, k, a)
    BY <1>2 DEF Receive
  <2>2. k \in Packet
    BY StageAssumption
  <2>3. k \notin LockedPc /\ pc[s] \notin LockedPc
    BY <1>2, <2>2 DEF Receive, At, LockedPc, Packet
  <2>4. UNCHANGED <<lifecycle, lpc>>
    BY <1>2 DEF Receive, sessionVars, logoutVars
  <2> QED
    BY <2>1, <2>3, <2>4, HandlerHeld
<1>3. ASSUME NEW s \in Session, CreateCheck(s) PROVE LifecycleHeld'
  BY <1>3, HandlerHeld
     DEF CreateCheck, Goto, At, logoutVars, sessionVars, LockedPc
<1>4. ASSUME NEW s \in Session, CreateStore(s) PROVE LifecycleHeld'
  BY <1>4, HandlerHeld
     DEF CreateStore, Goto, At, logoutVars, sessionVars, LockedPc
<1>5. ASSUME NEW s \in Session, Move(s) PROVE LifecycleHeld'
  BY <1>5, HandlerHeld DEF Move, Goto, At, logoutVars, sessionVars, LockedPc
<1>6. ASSUME NEW s \in Session, Enter(s) PROVE LifecycleHeld'
  BY <1>6, HandlerHeld DEF Enter, Goto, At, logoutVars, sessionVars, LockedPc
<1>7. ASSUME NEW s \in Session, EnterReserve(s) PROVE LifecycleHeld'
  BY <1>7, HandlerHeld
     DEF EnterReserve, Goto, At, logoutVars, sessionVars, LockedPc
<1>8. ASSUME NEW s \in Session, Back(s) PROVE LifecycleHeld'
  BY <1>8, HandlerHeld DEF Back, Goto, At, logoutVars, sessionVars, LockedPc
<1>9. ASSUME NEW s \in Session, Transfer(s) PROVE LifecycleHeld'
  BY <1>9, HandlerHeld
     DEF Transfer, Goto, At, logoutVars, sessionVars, LockedPc
<1>10. ASSUME NEW s \in Session, TransferLock(s) PROVE LifecycleHeld'
  BY <1>10, HandlerHeld
     DEF TransferLock, Goto, At, logoutVars, sessionVars, LockedPc
<1>11. ASSUME NEW s \in Session, Lookup(s) PROVE LifecycleHeld'
  <2>1. pc[s] = "lookup" /\ UNCHANGED <<lifecycle, lpc>>
    BY <1>11, ZenonT(30) DEF Lookup, At, logoutVars, sessionVars
  <2>2. ASSUME NEW a, GotoWith(s, "join", a) PROVE LifecycleHeld'
    BY <2>1, <2>2, HandlerHeld DEF LockedPc
  <2> QED
    BY <1>11, <2>2, ZenonT(30) DEF Lookup
<1>12. ASSUME NEW s \in Session, Join(s) PROVE LifecycleHeld'
  <2>1. pc[s] \in LockedPc /\ UNCHANGED <<lifecycle, lpc>>
    BY <1>12 DEF Join, At, logoutVars, sessionVars, LockedPc
  <2>2. \E p \in LockedPc : GotoWith(s, p, arg[s])
    BY <1>12 DEF Join, Goto, LockedPc
  <2> QED
    BY <2>1, <2>2, HandlerHeld
<1>13. ASSUME NEW s \in Session, Discard(s) PROVE LifecycleHeld'
  BY <1>13, HandlerHeld
     DEF Discard, CompareAndDelete, Goto, At, logoutVars, sessionVars,
         LockedPc
<1>14. ASSUME NEW s \in Session, LeaveOld(s) PROVE LifecycleHeld'
  BY <1>14, HandlerHeld
     DEF LeaveOld, Goto, At, logoutVars, sessionVars, LockedPc
<1>15. ASSUME NEW s \in Session, SweepOld(s) PROVE LifecycleHeld'
  BY <1>15, HandlerHeld
     DEF SweepOld, SweepAt, Goto, At, logoutVars, sessionVars, LockedPc
<1>16. ASSUME NEW s \in Session, SweepHosted(s) PROVE LifecycleHeld'
  BY <1>16, HandlerHeld
     DEF SweepHosted, SweepAt, Goto, At, logoutVars, sessionVars, LockedPc
<1>17. ASSUME NEW s \in Session, SetStage(s) PROVE LifecycleHeld'
  BY <1>17, HandlerHeld
     DEF SetStage, Goto, At, logoutVars, sessionVars, LockedPc
<1>18. ASSUME NEW s \in Session, Forget(s) PROVE LifecycleHeld'
  BY <1>18, HandlerHeld DEF Forget, Goto, At, logoutVars, sessionVars, LockedPc
<1>19. ASSUME NEW s \in Session, ReleaseOld(s) PROVE LifecycleHeld'
  BY <1>19, HandlerHeld
     DEF ReleaseOld, Goto, At, logoutVars, sessionVars, LockedPc
<1>20. ASSUME NEW s \in Session, Sweep(s) PROVE LifecycleHeld'
  BY <1>20, HandlerHeld
     DEF Sweep, SweepAt, Goto, At, logoutVars, sessionVars, LockedPc
<1>21. ASSUME NEW s \in Session, Failed(s) PROVE LifecycleHeld'
  BY <1>21, HandlerHeld DEF Failed, Goto, At, logoutVars, sessionVars, LockedPc
<1>22. ASSUME NEW s \in Session, Reserve(s) PROVE LifecycleHeld'
  BY <1>22, HandlerHeld
     DEF Reserve, Goto, At, logoutVars, sessionVars, LockedPc
<1>23. ASSUME NEW s \in Session, ReserveSlot(s) PROVE LifecycleHeld'
  BY <1>23, HandlerHeld
     DEF ReserveSlot, Goto, At, logoutVars, sessionVars, LockedPc
<1>24. ASSUME NEW s \in Session, ReserveSave(s) PROVE LifecycleHeld'
  BY <1>24, HandlerHeld
     DEF ReserveSave, Goto, At, logoutVars, sessionVars, LockedPc
<1>25. ASSUME NEW s \in Session, Unreserve(s) PROVE LifecycleHeld'
  BY <1>25, HandlerHeld
     DEF Unreserve, Goto, At, logoutVars, sessionVars, LockedPc
<1>26. ASSUME NEW s \in Session, UnreserveSlot(s) PROVE LifecycleHeld'
  BY <1>26, HandlerHeld
     DEF UnreserveSlot, Goto, At, logoutVars, sessionVars, LockedPc
<1>27. ASSUME NEW s \in Session, LockStage(s) PROVE LifecycleHeld'
  BY <1>27, HandlerHeld
     DEF LockStage, Goto, At, logoutVars, sessionVars, LockedPc
<1>28. ASSUME NEW s \in Session, Password(s) PROVE LifecycleHeld'
  BY <1>28, HandlerHeld
     DEF Password, Goto, At, logoutVars, sessionVars, LockedPc
<1>29. ASSUME NEW s \in Session, PasswordStage(s) PROVE LifecycleHeld'
  BY <1>29, HandlerHeld
     DEF PasswordStage, Goto, At, logoutVars, sessionVars, LockedPc
<1>30. ASSUME NEW s \in Session, UnlockStage(s) PROVE LifecycleHeld'
  BY <1>30, HandlerHeld
     DEF UnlockStage, Goto, At, logoutVars, sessionVars, LockedPc
<1>31. ASSUME NEW s \in Session, UnlockClear(s) PROVE LifecycleHeld'
  BY <1>31, HandlerHeld
     DEF UnlockClear, CompareAndDelete, Goto, At, logoutVars, sessionVars,
         LockedPc
<1>32. ASSUME NEW s \in Session, UnlockForget(s) PROVE LifecycleHeld'
  BY <1>32, HandlerHeld
     DEF UnlockForget, DropPointer, Goto, At, logoutVars, sessionVars,
         LockedPc
<1>33. ASSUME NEW s \in Session, UnlockNotify(s) PROVE LifecycleHeld'
  BY <1>33, HandlerHeld, Zenon
     DEF UnlockNotify, DropPointer, Goto, At, logoutVars, sessionVars,
         LockedPc
<1>34. ASSUME NEW s \in Session, StartLogout(s) PROVE LifecycleHeld'
  BY <1>34, LogoutHeld
     DEF StartLogout, handlerVars, sessionVars, FinalPc
<1>35. ASSUME NEW s \in Session, Unregister(s) PROVE LifecycleHeld'
  BY <1>35, LogoutHeld
     DEF Unregister, handlerVars, sessionVars, FinalPc
<1>36. ASSUME NEW s \in Session, Snapshot(s) PROVE LifecycleHeld'
  BY <1>36, LogoutHeld
     DEF Snapshot, handlerVars, sessionVars, FinalPc
<1>37. ASSUME NEW s \in Session, LeaveAll(s) PROVE LifecycleHeld'
  BY <1>37, LogoutHeld, HeldUnchanged
     DEF LeaveAll, Visiting, handlerVars, sessionVars, FinalPc
<1>38. ASSUME NEW s \in Session, DropSlots(s) PROVE LifecycleHeld'
  BY <1>38, LogoutHeld, HeldUnchanged
     DEF DropSlots, Visiting, handlerVars, sessionVars, FinalPc
<1>39. ASSUME NEW s \in Session, LeaveStage(s) PROVE LifecycleHeld'
  BY <1>39, LogoutHeld
     DEF LeaveStage, handlerVars, sessionVars, FinalPc
<1>40. ASSUME NEW s \in Session, SweepOut(s) PROVE LifecycleHeld'
  BY <1>40, LogoutHeld, HeldUnchanged
     DEF SweepOut, SweepingOut, Visiting, handlerVars, sessionVars, FinalPc
<1>41. ASSUME NEW s \in Session, SweepHostedOut(s) PROVE LifecycleHeld'
  BY <1>41, LogoutHeld, HeldUnchanged
     DEF SweepHostedOut, SweepingOut, Visiting, handlerVars, sessionVars, FinalPc
<1>42. ASSUME NEW s \in Session, Panic(s) PROVE LifecycleHeld'
  BY <1>42, LogoutHeld
     DEF Panic, handlerVars, sessionVars, OncePc, FinalPc
<1>43. ASSUME NEW s \in Session, Finalize(s) PROVE LifecycleHeld'
  BY <1>43, LogoutHeld
     DEF Finalize, handlerVars, sessionVars, FinalPc
<1>44. ASSUME NEW s \in Session, FinalizeKeep(s) PROVE LifecycleHeld'
  BY <1>44, LogoutHeld
     DEF FinalizeKeep, handlerVars, sessionVars, FinalPc
<1>45. ASSUME NEW s \in Session, FinalizeStages(s) PROVE LifecycleHeld'
  BY <1>45, LogoutHeld, HeldUnchanged
     DEF FinalizeStages, Visiting, handlerVars, sessionVars, FinalPc
<1>46. ASSUME NEW s \in Session, Detach(s) PROVE LifecycleHeld'
  BY <1>46, LogoutHeld
     DEF Detach, handlerVars, sessionVars, FinalPc
<1>47. ASSUME NEW st \in Stage, GraceEnds(st) PROVE LifecycleHeld'
  BY <1>47 DEF LifecycleHeld, GraceEnds, sessionVars, handlerVars, logoutVars
<1> QED
  BY <1>1, <1>2, <1>3, <1>4, <1>5, <1>6, <1>7, <1>8, <1>9, <1>10, <1>11,
     <1>12, <1>13, <1>14, <1>15, <1>16, <1>17, <1>18, <1>19, <1>20, <1>21,
     <1>22, <1>23, <1>24, <1>25, <1>26, <1>27, <1>28, <1>29, <1>30, <1>31,
     <1>32, <1>33, <1>34, <1>35, <1>36, <1>37, <1>38, <1>39, <1>40, <1>41,
     <1>42, <1>43, <1>44, <1>45, <1>46, <1>47
     DEF Next, Handle, Logout

\* Every step keeps the stages a logout is done with clear of its session.
LEMMA LogoutProgressInv ==
  ASSUME TypeOK, LifecycleHeld, LogoutProgress, [Next]_vars
  PROVE  LogoutProgress'
<1> USE DEF TypeOK, FinalPc
<1>1. CASE UNCHANGED vars
  BY <1>1
     DEF LogoutProgress, Clear, vars, stageVars, sessionVars, handlerVars,
         logoutVars
<1>2. ASSUME NEW s \in Session,
               Receive(s) \/ CreateCheck(s) \/ Move(s) \/ Enter(s) \/
               Transfer(s) \/ Password(s) \/ UnlockStage(s)
      PROVE  LogoutProgress'
  <2>1. UNCHANGED <<stageVars, sessionVars, logoutVars>>
    BY <1>2, Zenon
       DEF Receive, CreateCheck, Move, Enter, Transfer, Password,
           UnlockStage
  <2> QED
    BY <2>1 DEF LogoutProgress, Clear, stageVars, sessionVars, logoutVars
<1>3. ASSUME NEW s \in Session, CreateStore(s) PROVE LogoutProgress'
  <2>1. UNCHANGED <<sessionVars, logoutVars>>
    BY <1>3 DEF CreateStore
  <2>2. CASE UNCHANGED stageVars
    BY <2>1, <2>2 DEF LogoutProgress, Clear, stageVars, sessionVars, logoutVars
  <2>3. ASSUME NEW st \in Stage, NEW max \in PlayerCount,
               NewStage(st, arg[s].id, s, max), ~closed[s]
        PROVE  LogoutProgress'
    <3>1. lpc[s] \notin FinalPc \cup {"gone"}
      BY <2>3 DEF LogoutProgress
    <3>2. \A t \in Session, id \in StageId : t # s /\ Clear(t, id) => Clear(t, id)'
      BY <2>3, ArgsOf DEF NewStage, Clear, StageTypes
    <3> QED
      BY <2>1, <3>1, <3>2, ProgressKept
         DEF LogoutProgress, sessionVars, logoutVars
  <2> QED
    BY <1>3, <2>2, <2>3 DEF CreateStore, StillOpen
<1>4. ASSUME NEW s \in Session, EnterReserve(s) PROVE LogoutProgress'
  BY <1>4
     DEF EnterReserve, LogoutProgress, At, sessionVars, logoutVars, Clear,
         stageVars, SessionTypes, HandlerTypes, StageTypes, LogoutTypes,
         LifecycleHeld, LockedPc, OncePc
<1>5. ASSUME NEW s \in Session, Back(s) PROVE LogoutProgress'
  BY <1>5
     DEF Back, LogoutProgress, At, sessionVars, logoutVars, Clear,
         stageVars, SessionTypes, HandlerTypes, StageTypes, LogoutTypes,
         LifecycleHeld, LockedPc, OncePc
<1>6. ASSUME NEW s \in Session, TransferLock(s) PROVE LogoutProgress'
  <2>1. UNCHANGED <<stageVars, stage, reservationStage, closed, sessions, logoutVars>>
    BY <1>6 DEF TransferLock
  <2>2. \A t \in Session : lpc[t] = "gone" => lifecycle'[t] = lifecycle[t]
    BY <1>6 DEF TransferLock, Lock, StillOpen, LogoutProgress, SessionTypes
  <2>3. \A t \in Session, id \in StageId : Clear(t, id) => Clear(t, id)'
    BY <2>1 DEF Clear, stageVars
  <2> QED
    BY <2>1, <2>2, <2>3, ProgressKept DEF LogoutProgress, logoutVars
<1>7. ASSUME NEW s \in Session, Lookup(s) PROVE LogoutProgress'
  <2>1. UNCHANGED <<sessionVars, logoutVars>>
    BY <1>7, Zenon DEF Lookup
  <2>2. CASE UNCHANGED stageVars
    BY <2>1, <2>2 DEF LogoutProgress, Clear, stageVars, sessionVars, logoutVars
  <2>3. ASSUME NEW st \in Stage,
               NewStage(st, arg[s].id, NoSession, DefaultMaxPlayers)
        PROVE  LogoutProgress'
    <3>1. \A t \in Session, id \in StageId : Clear(t, id) => Clear(t, id)'
      BY <2>3, ArgsOf, StageAssumption DEF NewStage, Clear, StageTypes
    <3> QED
      BY <2>1, <3>1, ProgressKept DEF LogoutProgress, sessionVars, logoutVars
  <2> QED
    BY <1>7, <2>2, <2>3, Zenon DEF Lookup
<1>8. ASSUME NEW s \in Session, Join(s) PROVE LogoutProgress'
  <2>1. UNCHANGED <<sessionVars, logoutVars, stages>>
    BY <1>8 DEF Join
  <2>2. lpc[s] \notin FinalPc \cup {"gone"}
    BY <1>8, Entering DEF Join, At, LockedPc
  <2>3. \A t \in Session, id \in StageId : t # s /\ Clear(t, id) => Clear(t, id)'
    BY <1>8 DEF Join, Clear, StageTypes
  <2> QED
    BY <2>1, <2>2, <2>3, ProgressKept
       DEF LogoutProgress, sessionVars, logoutVars
<1>9. ASSUME NEW s \in Session, Discard(s) PROVE LogoutProgress'
  <2>1. UNCHANGED <<clients, host, stage, reservationStage, closed, sessions, logoutVars>>
    BY <1>9 DEF Discard
  <2>2. \A id \in StageId : stages'[id] \in {stages[id], NoStage}
    BY <1>9 DEF Discard, CompareAndDelete, StageTypes
  <2>3. \A t \in Session : lpc[t] = "gone" => lifecycle'[t] = "free"
    BY <1>9 DEF Discard, Unlock, LogoutProgress, SessionTypes
  <2>4. \A t \in Session, id \in StageId : Clear(t, id) => Clear(t, id)'
    BY <2>1, <2>2 DEF Clear
  <2> QED
    BY <2>1, <2>3, <2>4, ProgressKept DEF logoutVars
<1>10. ASSUME NEW s \in Session, LeaveOld(s) PROVE LogoutProgress'
  BY <1>10
     DEF LeaveOld, LogoutProgress, At, sessionVars, logoutVars, Clear,
         stageVars, SessionTypes, HandlerTypes, StageTypes, LogoutTypes,
         LifecycleHeld, LockedPc, OncePc
<1>11. ASSUME NEW s \in Session, SweepOld(s) PROVE LogoutProgress'
  BY <1>11
     DEF SweepOld, LogoutProgress, SweepAt, At, sessionVars, logoutVars,
         Clear, stageVars, SessionTypes, HandlerTypes, StageTypes,
         LogoutTypes, LifecycleHeld, LockedPc, OncePc
<1>12. ASSUME NEW s \in Session, SweepHosted(s) PROVE LogoutProgress'
  BY <1>12
     DEF SweepHosted, LogoutProgress, SweepAt, At, sessionVars, logoutVars,
         Clear, stageVars, SessionTypes, HandlerTypes, StageTypes,
         LogoutTypes, LifecycleHeld, LockedPc, OncePc
<1>13. ASSUME NEW s \in Session, SetStage(s) PROVE LogoutProgress'
  BY <1>13
     DEF SetStage, LogoutProgress, Unlock, At, sessionVars, logoutVars,
         Clear, stageVars, SessionTypes, HandlerTypes, StageTypes,
         LogoutTypes, LifecycleHeld, LockedPc, OncePc
<1>14. ASSUME NEW s \in Session, Forget(s) PROVE LogoutProgress'
  BY <1>14
     DEF Forget, LogoutProgress, At, sessionVars, logoutVars, Clear,
         stageVars, SessionTypes, HandlerTypes, StageTypes, LogoutTypes,
         LifecycleHeld, LockedPc, OncePc
<1>15. ASSUME NEW s \in Session, ReleaseOld(s) PROVE LogoutProgress'
  BY <1>15
     DEF ReleaseOld, LogoutProgress, At, sessionVars, logoutVars, Clear,
         stageVars, SessionTypes, HandlerTypes, StageTypes, LogoutTypes,
         LifecycleHeld, LockedPc, OncePc
<1>16. ASSUME NEW s \in Session, Sweep(s) PROVE LogoutProgress'
  BY <1>16
     DEF Sweep, LogoutProgress, SweepAt, At, sessionVars, logoutVars, Clear,
         stageVars, SessionTypes, HandlerTypes, StageTypes, LogoutTypes,
         LifecycleHeld, LockedPc, OncePc
<1>17. ASSUME NEW s \in Session, Failed(s) PROVE LogoutProgress'
  BY <1>17
     DEF Failed, LogoutProgress, At, sessionVars, logoutVars, Clear,
         stageVars, SessionTypes, HandlerTypes, StageTypes, LogoutTypes,
         LifecycleHeld, LockedPc, OncePc
<1>18. ASSUME NEW s \in Session, Reserve(s) PROVE LogoutProgress'
  <2>1. UNCHANGED <<stageVars, stage, reservationStage, closed, sessions, logoutVars>>
    BY <1>18 DEF Reserve
  <2>2. \A t \in Session : lpc[t] = "gone" => lifecycle'[t] = lifecycle[t]
    BY <1>18 DEF Reserve, Lock, StillOpen, LogoutProgress, SessionTypes
  <2>3. \A t \in Session, id \in StageId : Clear(t, id) => Clear(t, id)'
    BY <2>1 DEF Clear, stageVars
  <2> QED
    BY <2>1, <2>2, <2>3, ProgressKept DEF LogoutProgress, logoutVars
<1>19. ASSUME NEW s \in Session, ReserveSlot(s) PROVE LogoutProgress'
  BY <1>19
     DEF ReserveSlot, LogoutProgress, Unlock, At, sessionVars, logoutVars,
         Clear, stageVars, SessionTypes, HandlerTypes, StageTypes,
         LogoutTypes, LifecycleHeld, LockedPc, OncePc
<1>20. ASSUME NEW s \in Session, ReserveSave(s) PROVE LogoutProgress'
  BY <1>20
     DEF ReserveSave, LogoutProgress, Unlock, At, sessionVars, logoutVars,
         Clear, stageVars, SessionTypes, HandlerTypes, StageTypes,
         LogoutTypes, LifecycleHeld, LockedPc, OncePc
<1>21. ASSUME NEW s \in Session, Unreserve(s) PROVE LogoutProgress'
  BY <1>21
     DEF Unreserve, LogoutProgress, At, sessionVars, logoutVars, Clear,
         stageVars, SessionTypes, HandlerTypes, StageTypes, LogoutTypes,
         LifecycleHeld, LockedPc, OncePc
<1>22. ASSUME NEW s \in Session, UnreserveSlot(s) PROVE LogoutProgress'
  BY <1>22
     DEF UnreserveSlot, LogoutProgress, At, sessionVars, logoutVars, Clear,
         stageVars, SessionTypes, HandlerTypes, StageTypes, LogoutTypes,
         LifecycleHeld, LockedPc, OncePc
<1>23. ASSUME NEW s \in Session, LockStage(s) PROVE LogoutProgress'
  BY <1>23
     DEF LockStage, LogoutProgress, At, sessionVars, logoutVars, Clear,
         stageVars, SessionTypes, HandlerTypes, StageTypes, LogoutTypes,
         LifecycleHeld, LockedPc, OncePc
<1>24. ASSUME NEW s \in Session, PasswordStage(s) PROVE LogoutProgress'
  BY <1>24
     DEF PasswordStage, LogoutProgress, At, sessionVars, logoutVars, Clear,
         stageVars, SessionTypes, HandlerTypes, StageTypes, LogoutTypes,
         LifecycleHeld, LockedPc, OncePc
<1>25. ASSUME NEW s \in Session, UnlockClear(s) PROVE LogoutProgress'
  <2>1. UNCHANGED <<clients, host, sessionVars, logoutVars>>
    BY <1>25 DEF UnlockClear
  <2>2. \A id \in StageId : stages'[id] \in {stages[id], NoStage}
    BY <1>25 DEF UnlockClear, CompareAndDelete, StageTypes
  <2>3. \A t \in Session, id \in StageId : Clear(t, id) => Clear(t, id)'
    BY <2>1, <2>2 DEF Clear
  <2> QED
    BY <2>1, <2>3, ProgressKept DEF LogoutProgress, sessionVars, logoutVars
<1>26. ASSUME NEW s \in Session, UnlockForget(s) PROVE LogoutProgress'
  BY <1>26
     DEF UnlockForget, LogoutProgress, DropPointer, At, sessionVars,
         logoutVars, Clear, stageVars, SessionTypes, HandlerTypes,
         StageTypes, LogoutTypes, LifecycleHeld, LockedPc, OncePc
<1>27. ASSUME NEW s \in Session, UnlockNotify(s) PROVE LogoutProgress'
  <2>1. UNCHANGED <<stageVars, stage, closed, sessions, lifecycle, logoutVars>>
    BY <1>27 DEF UnlockNotify
  <2>2. \A t \in Session : reservationStage'[t] \in {reservationStage[t], NoStage}
    BY <1>27, Zenon DEF UnlockNotify, DropPointer, SessionTypes
  <2>3. \A t \in Session, id \in StageId : Clear(t, id) => Clear(t, id)'
    BY <2>1 DEF Clear, stageVars
  <2> QED
    BY <2>1, <2>2, <2>3, ProgressKept DEF LogoutProgress, logoutVars
<1>28. ASSUME NEW s \in Session, StartLogout(s) PROVE LogoutProgress'
  BY <1>28
     DEF StartLogout, LogoutProgress, LGoto, handlerVars, sessionVars,
         Clear, stageVars, SessionTypes, HandlerTypes, StageTypes,
         LogoutTypes, LifecycleHeld, LockedPc, OncePc
<1>29. ASSUME NEW s \in Session, Unregister(s) PROVE LogoutProgress'
  BY <1>29
     DEF Unregister, LogoutProgress, LGoto, handlerVars, sessionVars, Clear,
         stageVars, SessionTypes, HandlerTypes, StageTypes, LogoutTypes,
         LifecycleHeld, LockedPc, OncePc
<1>30. ASSUME NEW s \in Session, Snapshot(s) PROVE LogoutProgress'
  BY <1>30
     DEF Snapshot, LogoutProgress, LGoto, handlerVars, sessionVars, Clear,
         stageVars, SessionTypes, HandlerTypes, StageTypes, LogoutTypes,
         LifecycleHeld, LockedPc, OncePc
<1>31. ASSUME NEW s \in Session, LeaveAll(s) PROVE LogoutProgress'
  BY <1>31
     DEF LeaveAll, LogoutProgress, LGoto, handlerVars, sessionVars,
         Visiting, Clear, stageVars, SessionTypes, HandlerTypes, StageTypes,
         LogoutTypes, LifecycleHeld, LockedPc, OncePc
<1>32. ASSUME NEW s \in Session, DropSlots(s) PROVE LogoutProgress'
  <2>1. UNCHANGED <<stages, clients, host, sessionVars, handlerVars>>
    BY <1>32 DEF DropSlots
  <2>2. /\ lpc[s] = "dropSlots"
        /\ lpc' = lpc \/ lpc' = [lpc EXCEPT ![s] = "leaveStage"]
        /\ \A t \in Session \ {s} : left'[t] = left[t]
    BY <1>32 DEF DropSlots, Visiting, LGoto, LogoutTypes
  <2>3. \A t \in Session, id \in StageId : Clear(t, id) = Clear(t, id)'
    BY <2>1 DEF Clear
  <2> QED
    BY <2>1, <2>2, <2>3 DEF LogoutProgress, LogoutTypes, sessionVars
<1>33. ASSUME NEW s \in Session, LeaveStage(s) PROVE LogoutProgress'
  BY <1>33
     DEF LeaveStage, LogoutProgress, LGoto, handlerVars, sessionVars, Clear,
         stageVars, SessionTypes, HandlerTypes, StageTypes, LogoutTypes,
         LifecycleHeld, LockedPc, OncePc
<1>34. ASSUME NEW s \in Session, SweepOut(s) PROVE LogoutProgress'
  BY <1>34
     DEF SweepOut, SweepingOut, LogoutProgress, LGoto, handlerVars,
         sessionVars, Visiting, Clear, stageVars, SessionTypes,
         HandlerTypes, StageTypes, LogoutTypes, LifecycleHeld, LockedPc,
         OncePc
<1>35. ASSUME NEW s \in Session, SweepHostedOut(s) PROVE LogoutProgress'
  BY <1>35
     DEF SweepHostedOut, SweepingOut, LogoutProgress, LGoto, handlerVars,
         sessionVars, Visiting, Clear, stageVars, SessionTypes,
         HandlerTypes, StageTypes, LogoutTypes, LifecycleHeld, LockedPc,
         OncePc
<1>36. ASSUME NEW s \in Session, Panic(s) PROVE LogoutProgress'
  BY <1>36
     DEF Panic, LogoutProgress, LGoto, handlerVars, sessionVars, Clear,
         stageVars, SessionTypes, HandlerTypes, StageTypes, LogoutTypes,
         LifecycleHeld, LockedPc, OncePc
<1>37. ASSUME NEW s \in Session, Finalize(s) PROVE LogoutProgress'
  BY <1>37
     DEF Finalize, Lock, LogoutProgress, LGoto, handlerVars, sessionVars,
         Clear, stageVars, SessionTypes, HandlerTypes, StageTypes,
         LogoutTypes, LifecycleHeld, LockedPc, OncePc
<1>38. ASSUME NEW s \in Session, FinalizeKeep(s) PROVE LogoutProgress'
  BY <1>38
     DEF FinalizeKeep, LogoutProgress, LGoto, handlerVars, sessionVars,
         Clear, stageVars, SessionTypes, HandlerTypes, StageTypes,
         LogoutTypes, LifecycleHeld, LockedPc, OncePc
<1>39. ASSUME NEW s \in Session, FinalizeStages(s) PROVE LogoutProgress'
  <2>1. PICK id \in StageId :
          /\ Visiting(s, "finalizeStages", id, "detach", {})
          /\ IF stages[id] = NoStage
             THEN UNCHANGED <<stages, clients, reserved, host>>
             ELSE FinalizeStage(s, id, stages[id])
    BY <1>39 DEF FinalizeStages
  <2>2. UNCHANGED sessionVars
    BY <1>39 DEF FinalizeStages
  <2>3. /\ lpc[s] = "finalizeStages" /\ id \in left[s]
        /\ \/ lpc' = lpc /\ left' = [left EXCEPT ![s] = @ \ {id}]
           \/ /\ lpc' = [lpc EXCEPT ![s] = "detach"]
              /\ left[s] = {id} /\ left' = [left EXCEPT ![s] = {}]
    BY <2>1 DEF Visiting, LGoto
  <2>4. \A t \in Session, i \in StageId : Clear(t, i) => Clear(t, i)'
    <3>1. CASE stages[id] = NoStage
      BY <2>1, <3>1 DEF Clear
    <3>2. CASE stages[id] # NoStage
      <4> DEFINE st == stages[id]
      <4>1. FinalizeStage(s, id, st)
        BY <2>1, <3>2
      <4>2. st \in Stage
        BY <3>2 DEF StageTypes
      <4>3. \A i \in StageId : stages'[i] \in {stages[i], NoStage}
        BY <4>1 DEF FinalizeStage, CompareAndDelete, StageTypes
      <4>4. clients' = [clients EXCEPT ![st] = @ \ {s}]
        BY <4>1 DEF FinalizeStage
      <4>5. PICK h \in NextHost(s, st) : host' = [host EXCEPT ![st] = h]
        BY <4>1, Zenon DEF FinalizeStage
      <4>6. h \in {host[st], NoSession} \cup clients[st]
        BY <4>5 DEF NextHost
      <4> HIDE DEF st
      <4> QED
        BY <4>2, <4>3, <4>4, <4>5, <4>6, StageAssumption DEF Clear, StageTypes
    <3> QED
      BY <3>1, <3>2
  <2>5. Clear(s, id)'
    <3>1. CASE stages[id] = NoStage
      BY <2>1, <3>1 DEF Clear
    <3>2. CASE stages[id] # NoStage
      <4> DEFINE st == stages[id]
      <4>1. FinalizeStage(s, id, st)
        BY <2>1, <3>2
      <4>2. st \in Stage
        BY <3>2 DEF StageTypes
      <4>3. stages'[id] \in {st, NoStage}
        BY <4>1 DEF FinalizeStage, CompareAndDelete, StageTypes
      <4>4. clients' = [clients EXCEPT ![st] = @ \ {s}]
        BY <4>1 DEF FinalizeStage
      <4>5. PICK h \in NextHost(s, st) : host' = [host EXCEPT ![st] = h]
        BY <4>1, Zenon DEF FinalizeStage
      <4>6. h # s
        BY <4>5, StageAssumption DEF NextHost
      <4> HIDE DEF st
      <4> QED
        BY <4>2, <4>3, <4>4, <4>5, <4>6 DEF Clear, StageTypes
    <3> QED
      BY <3>1, <3>2
  <2>6. ASSUME NEW t \in Session
        PROVE  /\ lpc'[t] = "finalizeStages" =>
                     \A i \in StageId \ left'[t] : Clear(t, i)'
               /\ lpc'[t] \in {"detach", "gone"} =>
                     \A i \in StageId : Clear(t, i)'
    <3>1. CASE t = s
      BY <2>3, <2>4, <2>5, <3>1 DEF LogoutProgress, LogoutTypes
    <3>2. CASE t # s
      BY <2>3, <2>4, <3>2 DEF LogoutProgress, LogoutTypes
    <3> QED
      BY <3>1, <3>2
  <2>7. \A t \in Session : \/ lpc'[t] = lpc[t]
                           \/ lpc[t] = "finalizeStages" /\ lpc'[t] = "detach"
    BY <2>3 DEF LogoutTypes
  <2>8. /\ closed' = closed /\ sessions' = sessions /\ lifecycle' = lifecycle
        /\ stage' = stage /\ reservationStage' = reservationStage
    BY <2>2 DEF sessionVars
  <2>9. ASSUME NEW t \in Session
        PROVE  /\ lpc'[t] # "none" => closed'[t]
               /\ lpc'[t] \in FinalPc \cup {"gone"} => t \notin sessions'
               /\ lpc'[t] = "gone" =>
                     /\ lifecycle'[t] = "free"
                     /\ stage'[t] = NoStage /\ reservationStage'[t] = NoStage
    BY <2>7, <2>8 DEF LogoutProgress
  <2> QED
    BY <2>6, <2>9 DEF LogoutProgress, Clear
<1>40. ASSUME NEW s \in Session, Detach(s) PROVE LogoutProgress'
  BY <1>40
     DEF Detach, Unlock, LogoutProgress, LGoto, handlerVars, sessionVars,
         Clear, stageVars, SessionTypes, HandlerTypes, StageTypes,
         LogoutTypes, LifecycleHeld, LockedPc, OncePc
<1>41. ASSUME NEW st \in Stage, GraceEnds(st) PROVE LogoutProgress'
  BY <1>41
     DEF LogoutProgress, GraceEnds, sessionVars, handlerVars, logoutVars,
         Clear
<1> QED
  BY <1>1, <1>2, <1>3, <1>4, <1>5, <1>6, <1>7, <1>8, <1>9, <1>10, <1>11,
     <1>12, <1>13, <1>14, <1>15, <1>16, <1>17, <1>18, <1>19, <1>20, <1>21,
     <1>22, <1>23, <1>24, <1>25, <1>26, <1>27, <1>28, <1>29, <1>30, <1>31,
     <1>32, <1>33, <1>34, <1>35, <1>36, <1>37, <1>38, <1>39, <1>40, <1>41
     DEF Next, Handle, Logout

-----------------------------------------------------------------------------

\* The server starts in a state of the invariant.
LEMMA InitIInv == Init => IInv
<1> SUFFICES ASSUME Init PROVE IInv
  OBVIOUS
<1>1. PICK home \in Stage :
        /\ stages = [i \in StageId |-> IF i = HomeId THEN home ELSE NoStage]
        /\ idOf = [st \in Stage |-> IF st = home THEN HomeId ELSE NoId]
        /\ clients = [st \in Stage |-> IF st = home THEN InTown ELSE {}]
        /\ stage = [s \in Session |-> IF s \in InTown THEN home ELSE NoStage]
  BY DEF Init
<1>2. StageTypes
  BY <1>1, StageAssumption DEF Init, StageTypes
<1>3. SessionTypes
  BY <1>1, StageAssumption DEF Init, SessionTypes
<1>4. HandlerTypes
  BY NoArgsType, StageAssumption DEF Init, HandlerTypes, OpenPc
<1>5. LogoutTypes
  BY DEF Init, LogoutTypes, LogoutPc
<1>6. PointersAllocated
  BY <1>1, StageAssumption DEF Init, PointersAllocated, Allocated, NoArgs
<1>7. LifecycleHeld /\ LogoutProgress
  BY DEF Init, LifecycleHeld, LogoutProgress, LockedPc, FinalPc
<1> QED
  BY <1>2, <1>3, <1>4, <1>5, <1>6, <1>7 DEF IInv, TypeOK

\* Every step keeps it.
LEMMA NextIInv == IInv /\ [Next]_vars => IInv'
  BY StageTypesInv, SessionTypesInv, HandlerTypesInv, LogoutTypesInv,
     PointersAllocatedInv, LifecycleHeldInv, LogoutProgressInv
     DEF IInv, TypeOK

\* IInv holds in every state of every execution of the stage handlers and
\* logouts.
THEOREM Invariance == Spec => []IInv
<1>1. Init => IInv
  BY InitIInv
<1>2. IInv /\ [Next]_vars => IInv'
  BY NextIInv
<1> QED
  BY <1>1, <1>2, PTL DEF Spec

\* Every variable keeps its type; no handler follows a nil or foreign pointer.
THEOREM TypeCorrect == Spec => []TypeOK
<1>1. IInv => TypeOK
  BY DEF IInv
<1> QED
  BY <1>1, Invariance, PTL

\* finalizeRuntimeLogout keeps what its comment promises: when it has returned,
\* the session is neither registered nor a client or the host of any stage of
\* the map, whatever its handler and the other sessions were doing meanwhile.
THEOREM Detached == Spec => []DetachedAfterLogout
<1>1. IInv => DetachedAfterLogout
  BY DEF IInv, LogoutProgress, DetachedAfterLogout, Clear, FinalPc
<1> QED
  BY <1>1, Invariance, PTL

-----------------------------------------------------------------------------

\* Only Join makes a session a client of a stage.
LEMMA OthersOnlyLeave ==
  ASSUME TypeOK, [Next]_vars, \A s \in Session : ~Join(s)
  PROVE  \A st \in Stage : clients'[st] \subseteq clients[st]
<1> USE DEF TypeOK, StageTypes
<1>1. CASE UNCHANGED vars
  BY <1>1 DEF vars, stageVars
<1>2. ASSUME NEW s \in Session,
               Receive(s) \/ CreateCheck(s) \/ Move(s) \/ Enter(s) \/ EnterReserve(s)
               \/ Back(s) \/ Transfer(s) \/ TransferLock(s) \/ Discard(s)
               \/ SweepOld(s) \/ SweepHosted(s) \/ SetStage(s) \/ Forget(s)
               \/ ReleaseOld(s) \/ Sweep(s) \/ Failed(s) \/ Reserve(s)
               \/ ReserveSlot(s) \/ ReserveSave(s) \/ Unreserve(s)
               \/ UnreserveSlot(s) \/ LockStage(s) \/ Password(s)
               \/ PasswordStage(s) \/ UnlockStage(s) \/ UnlockClear(s)
               \/ UnlockForget(s) \/ UnlockNotify(s)
      PROVE  UNCHANGED clients
  BY <1>2, Zenon
     DEF Receive, CreateCheck, Move, Enter, EnterReserve, Back, Transfer,
         TransferLock, Discard, SweepOld, SweepHosted, SetStage, Forget,
         ReleaseOld, Sweep, SweepAt, Failed, Reserve, ReserveSlot, ReserveSave,
         Unreserve, UnreserveSlot, LockStage, Password, PasswordStage,
         UnlockStage, UnlockClear, UnlockForget, UnlockNotify, stageVars
<1>3. ASSUME NEW s \in Session,
               StartLogout(s) \/ Unregister(s) \/ Snapshot(s) \/ DropSlots(s)
               \/ SweepOut(s) \/ SweepHostedOut(s) \/ Panic(s) \/ Finalize(s)
               \/ FinalizeKeep(s) \/ Detach(s)
      PROVE  UNCHANGED clients
  BY <1>3, Zenon
     DEF StartLogout, Unregister, Snapshot, DropSlots, SweepOut,
         SweepHostedOut, SweepingOut, Panic, Finalize, FinalizeKeep, Detach,
         stageVars
<1>4. ASSUME NEW st \in Stage, GraceEnds(st) PROVE UNCHANGED clients
  BY <1>4 DEF GraceEnds
<1>5. ASSUME NEW s \in Session, CreateStore(s)
      PROVE  \A st \in Stage : clients'[st] \subseteq clients[st]
  BY <1>5 DEF CreateStore, NewStage, stageVars
<1>6. ASSUME NEW s \in Session, Lookup(s)
      PROVE  \A st \in Stage : clients'[st] \subseteq clients[st]
  <2>1. \/ UNCHANGED stageVars
        \/ \E st \in Stage : NewStage(st, arg[s].id, NoSession, DefaultMaxPlayers)
    BY <1>6, Zenon DEF Lookup
  <2> QED
    BY <2>1 DEF NewStage, stageVars
<1>7. ASSUME NEW s \in Session, LeaveOld(s) \/ LeaveAll(s) \/ LeaveStage(s)
      PROVE  \A st \in Stage : clients'[st] \subseteq clients[st]
  BY <1>7 DEF LeaveOld, LeaveAll, LeaveStage
<1>8. ASSUME NEW s \in Session, FinalizeStages(s)
      PROVE  \A st \in Stage : clients'[st] \subseteq clients[st]
  BY <1>8 DEF FinalizeStages, FinalizeStage
<1> QED
  BY <1>1, <1>2, <1>3, <1>4, <1>5, <1>6, <1>7, <1>8, Zenon
     DEF Next, Handle, Logout

\* A place is taken under the stage lock.
LEMMA JoinTakesPlace ==
  ASSUME TypeOK, NEW t \in Session, Join(t),
         NEW s \in Session, NEW st \in Stage, s \in clients'[st] \ clients[st],
         charOf[s] \notin reserved[st]
  PROVE  Cardinality(clients'[st]) + Cardinality(reserved'[st]) <= limit[st]
<1> USE DEF TypeOK, StageTypes
<1>1. /\ s = t /\ arg[t].st = st /\ ~Full(t, st)
      /\ clients' = [clients EXCEPT ![st] = @ \cup {t}]
      /\ reserved' = [reserved EXCEPT ![st] = @ \ {charOf[t]}]
  BY DEF Join
<1>2. clients'[st] = clients[st] \cup {t} /\ reserved'[st] = reserved[st]
  BY <1>1
<1>3. IsFiniteSet(clients[st]) /\ IsFiniteSet(reserved[st])
  BY FinitelyMany, FS_Subset
<1>4. Cardinality(clients[st]) \in Nat /\ Cardinality(reserved[st]) \in Nat
  BY <1>3, FS_CardinalityType
<1>5. Cardinality(clients'[st]) = Cardinality(clients[st]) + 1
  BY <1>1, <1>2, <1>3, FS_AddElement, Zenon
<1>6. limit[st] \in Nat
  OBVIOUS
<1>7. Cardinality(clients[st]) + Cardinality(reserved[st]) < limit[st]
  BY <1>1, <1>4, <1>6 DEF Full
<1> QED
  BY <1>2, <1>4, <1>5, <1>6, <1>7

\* The capacity test of doStageTransfer is made again under the stage lock and
\* under it a slot is spent or a place taken: however many sessions have seen the
\* last place free, nobody without a reservation gets in above the limit.
THEOREM OnePlaceEach == Spec => LastPlaceOnce
<1>1. ASSUME TypeOK, [Next]_vars,
             NEW s \in Session, NEW st \in Stage,
             s \in clients'[st] \ clients[st], charOf[s] \notin reserved[st]
      PROVE  Cardinality(clients'[st]) + Cardinality(reserved'[st]) <= limit[st]
  <2>1. PICK t \in Session : Join(t)
    BY <1>1, OthersOnlyLeave
  <2> QED
    BY <1>1, <2>1, JoinTakesPlace
<1>2. TypeOK /\ [Next]_vars =>
        [\A s \in Session, st \in Stage :
            s \in clients'[st] \ clients[st] /\ charOf[s] \notin reserved[st]
                => Cardinality(clients'[st]) + Cardinality(reserved'[st]) <= limit[st]]_vars
  BY <1>1
<1> QED
  BY <1>2, TypeCorrect, PTL DEF Spec, LastPlaceOnce

-----------------------------------------------------------------------------

\* A handler that has created the stage it transfers to, until it is in or has
\* given it up.
Creating(s) == pc[s] \in {"join", "discard"} /\ arg[s].created

\* Nobody else has created the same stage, and once the creator is refused, it is
\* the host.
CreatorsApart ==
    \A s \in Session : Creating(s) =>
        /\ arg[s].st # NoStage
        /\ \A t \in Session \ {s} : Creating(t) => arg[t].st # arg[s].st
        /\ pc[s] = "discard" => host[arg[s].st] = s

\* A step of a handler that creates nothing.
LEMMA ApartGoto ==
  ASSUME TypeOK, CreatorsApart, NEW s \in Session, NEW p, NEW x, GotoWith(s, p, x),
         p \notin {"join", "discard"} \/ ~x.created,
         \A t \in Session \ {s} : pc[t] = "discard" /\ Creating(t) =>
             host'[arg[t].st] = host[arg[t].st]
  PROVE  CreatorsApart'
<1>1. \A t \in Session \ {s} : pc'[t] = pc[t] /\ arg'[t] = arg[t]
  BY DEF GotoWith, TypeOK, HandlerTypes
<1>2. ~Creating(s)'
  BY DEF GotoWith, TypeOK, HandlerTypes, Creating, NoArgs
<1> QED
  BY <1>1, <1>2 DEF CreatorsApart, Creating

\* A step of a logout, or of nobody.
LEMMA ApartKept ==
  ASSUME TypeOK, CreatorsApart, UNCHANGED <<pc, arg>>,
         \A t \in Session : pc[t] = "discard" /\ Creating(t) =>
             host'[arg[t].st] = host[arg[t].st]
  PROVE  CreatorsApart'
  BY DEF CreatorsApart, Creating

\* Every step keeps the creators apart: a pointer is handed out once, and whoever
\* is about to discard a stage holds lifecycleMu, so his logout hands nothing over.
LEMMA CreatorsApartInv ==
  ASSUME IInv, CreatorsApart, [Next]_vars
  PROVE  CreatorsApart'
<1>0. TypeOK /\ PointersAllocated /\ LifecycleHeld
  BY DEF IInv
<1>1. CASE UNCHANGED vars
  BY <1>0, <1>1, ApartKept DEF vars, stageVars, handlerVars
<1>2. ASSUME NEW s \in Session,
               StartLogout(s) \/ Unregister(s) \/ Snapshot(s) \/ LeaveAll(s)
               \/ DropSlots(s) \/ LeaveStage(s) \/ SweepOut(s) \/ SweepHostedOut(s)
               \/ Panic(s) \/ Finalize(s) \/ FinalizeKeep(s) \/ Detach(s)
      PROVE  CreatorsApart'
  <2>1. UNCHANGED <<pc, arg, host>>
    BY <1>2, Zenon
       DEF StartLogout, Unregister, Snapshot, LeaveAll, DropSlots, LeaveStage,
           SweepOut, SweepHostedOut, SweepingOut, Panic, Finalize,
           FinalizeKeep, Detach, stageVars, handlerVars
  <2> QED
    BY <1>0, <2>1, ApartKept
<1>3. ASSUME NEW st \in Stage, GraceEnds(st) PROVE CreatorsApart'
  BY <1>0, <1>3, ApartKept DEF GraceEnds, handlerVars
<1>4. ASSUME NEW s \in Session, FinalizeStages(s) PROVE CreatorsApart'
  <2>1. UNCHANGED <<pc, arg>> /\ lpc[s] = "finalizeStages"
    BY <1>4 DEF FinalizeStages, Visiting, handlerVars
  <2>2. ~(pc[s] = "discard" /\ Creating(s))
    BY <1>0, <2>1 DEF LifecycleHeld, LockedPc, FinalPc
  <2>3. \A st \in Stage : host[st] # s => host'[st] = host[st]
    BY <1>0, <1>4 DEF FinalizeStages, FinalizeStage, NextHost, TypeOK, StageTypes
  <2>4. \A t \in Session : pc[t] = "discard" /\ Creating(t) =>
           arg[t].st \in Stage /\ host[arg[t].st] # s
    BY <1>0, <2>2, ArgsOf DEF CreatorsApart, TypeOK
  <2> QED
    BY <1>0, <2>1, <2>3, <2>4, ApartKept
<1>5. ASSUME NEW s \in Session,
               CreateCheck(s) \/ Move(s) \/ EnterReserve(s) \/ Transfer(s)
               \/ TransferLock(s) \/ LeaveOld(s) \/ SetStage(s)
               \/ Forget(s) \/ ReleaseOld(s) \/ Failed(s) \/ ReserveSlot(s)
               \/ ReserveSave(s) \/ UnreserveSlot(s) \/ LockStage(s)
               \/ Password(s) \/ PasswordStage(s) \/ UnlockStage(s)
               \/ UnlockClear(s) \/ UnlockForget(s) \/ Reserve(s) \/ Unreserve(s)
      PROVE  CreatorsApart'
  <2>1. UNCHANGED host
    BY <1>5, Zenon
       DEF CreateCheck, Move, EnterReserve, Transfer, TransferLock, LeaveOld,
           SetStage, Forget, ReleaseOld, Failed, ReserveSlot, ReserveSave,
           UnreserveSlot, LockStage, Password, PasswordStage, UnlockStage,
           UnlockClear, UnlockForget, Reserve, Unreserve, stageVars
  <2>2. \E p, x : GotoWith(s, p, x) /\ p \notin {"join", "discard"}
    <3>1. \E p, x : GotoWith(s, p, x) /\ p \in {"idle", "createStore", "transfer",
             "transferLock", "failed", "lookup", "sweepOld", "forget", "releaseOld",
             "sweep", "reserveSlot", "reserveSave", "unreserveSlot",
             "passwordStage", "unlockClear", "unlockForget", "unlockNotify"}
      BY <1>5
         DEF CreateCheck, Move, EnterReserve, Transfer, TransferLock, LeaveOld,
             SetStage, Forget, ReleaseOld, Failed, ReserveSlot, ReserveSave,
             UnreserveSlot, LockStage, Password, PasswordStage, UnlockStage,
             UnlockClear, UnlockForget, Reserve, Unreserve, Goto
    <3> QED
      BY <3>1
  <2> QED
    BY <1>0, <2>1, <2>2, ApartGoto
<1>6. ASSUME NEW s \in Session, Receive(s) PROVE CreatorsApart'
  <2>1. PICK k \in Sends[s] : \E x : GotoWith(s, k, x)
    BY <1>6, Zenon DEF Receive
  <2>2. k \notin {"join", "discard"}
    BY StageAssumption DEF Packet
  <2> QED
    BY <1>0, <1>6, <2>1, <2>2, ApartGoto DEF Receive, stageVars
<1>7. ASSUME NEW s \in Session, Enter(s) \/ Back(s) PROVE CreatorsApart'
  <2>1. \E x : GotoWith(s, "idle", x) \/ GotoWith(s, "transfer", x)
               \/ GotoWith(s, "enterReserve", x)
    BY <1>7 DEF Enter, Back, Goto
  <2> QED
    BY <1>0, <1>7, <2>1, ApartGoto DEF Enter, Back, stageVars
<1>8. ASSUME NEW s \in Session, UnlockNotify(s) PROVE CreatorsApart'
  <2>1. \E x : GotoWith(s, "sweep", x) \/ GotoWith(s, "unlockNotify", x)
    BY <1>8, Zenon DEF UnlockNotify, Goto
  <2> QED
    BY <1>0, <1>8, <2>1, ApartGoto DEF UnlockNotify, stageVars
<1>9. ASSUME NEW s \in Session, SweepOld(s) \/ SweepHosted(s) \/ Sweep(s)
      PROVE CreatorsApart'
  <2>1. UNCHANGED host
    BY <1>9, Zenon DEF SweepOld, SweepHosted, Sweep, SweepAt
  <2>2. \E p \in {"sweepOld", "sweepHosted", "setStage", "sweep", "idle"} :
           \E x : GotoWith(s, p, x)
    BY <1>9, Zenon DEF SweepOld, SweepHosted, Sweep, SweepAt
  <2> QED
    BY <1>0, <2>1, <2>2, ApartGoto
<1>10. ASSUME NEW s \in Session, CreateStore(s) PROVE CreatorsApart'
  <2>1. \A t \in Session : pc[t] = "discard" /\ Creating(t) =>
             host'[arg[t].st] = host[arg[t].st]
    <3>1. CASE UNCHANGED stageVars
      BY <3>1 DEF stageVars
    <3>2. ASSUME NEW st \in Stage, NEW max, NewStage(st, arg[s].id, s, max)
          PROVE  \A u \in Stage \ {st} : host'[u] = host[u]
      BY <1>0, <3>2 DEF NewStage, TypeOK, StageTypes
    <3>3. ASSUME NEW st \in Stage, NEW max, NewStage(st, arg[s].id, s, max),
                 NEW t \in Session, Creating(t)
          PROVE  arg[t].st \in Stage \ {st}
      BY <1>0, <3>3, ArgsOf
         DEF NewStage, PointersAllocated, Allocated, CreatorsApart, TypeOK
    <3> QED
      BY <1>10, <3>1, <3>2, <3>3 DEF CreateStore
  <2> QED
    BY <1>0, <1>10, <2>1, ApartGoto DEF CreateStore, Goto
<1>11. ASSUME NEW s \in Session, Discard(s) PROVE CreatorsApart'
  BY <1>0, <1>11, ApartGoto DEF Discard, Goto
<1>12. ASSUME NEW s \in Session, Lookup(s) PROVE CreatorsApart'
  <2>1. CASE stages[arg[s].id] # NoStage
    <3> DEFINE x == [arg[s] EXCEPT !.st = stages[arg[s].id], !.created = FALSE]
    <3>1. GotoWith(s, "join", x) /\ UNCHANGED host
      BY <1>12, <2>1, Zenon DEF Lookup, stageVars
    <3>2. ~x.created
      BY <1>0, ArgsOf DEF Args, TypeOK
    <3> HIDE DEF x
    <3> QED
      BY <1>0, <3>1, <3>2, ApartGoto
  <2>2. ASSUME NEW st \in Stage, NewStage(st, arg[s].id, NoSession, DefaultMaxPlayers),
               GotoWith(s, "join", [arg[s] EXCEPT !.st = st, !.created = TRUE])
        PROVE  CreatorsApart'
    <3> DEFINE x == [arg[s] EXCEPT !.st = st, !.created = TRUE]
    <3>1. pc' = [pc EXCEPT ![s] = "join"] /\ arg' = [arg EXCEPT ![s] = x]
      BY <2>2 DEF GotoWith
    <3>2. x.st = st
      BY <1>0, ArgsOf DEF Args, TypeOK
    <3> HIDE DEF x
    <3>3. \A t \in Session \ {s} : pc'[t] = pc[t] /\ arg'[t] = arg[t]
      BY <1>0, <3>1 DEF TypeOK, HandlerTypes
    <3>4. pc'[s] = "join" /\ arg'[s].st = st
      BY <1>0, <3>1, <3>2 DEF TypeOK, HandlerTypes
    <3>5. \A t \in Session : Creating(t) => arg[t].st \in Stage \ {st}
      BY <1>0, <2>2, ArgsOf
         DEF NewStage, PointersAllocated, Allocated, CreatorsApart, TypeOK
    <3>6. \A u \in Stage \ {st} : host'[u] = host[u]
      BY <1>0, <2>2 DEF NewStage, TypeOK, StageTypes
    <3>7. st # NoStage
      BY StageAssumption
    <3> QED
      BY <3>3, <3>4, <3>5, <3>6, <3>7 DEF CreatorsApart, Creating
  <2> QED
    BY <1>12, <2>1, <2>2, Zenon DEF Lookup
<1>13. ASSUME NEW s \in Session, Join(s) PROVE CreatorsApart'
  <2>1. CASE Goto(s, "lookup") /\ UNCHANGED host
    BY <1>0, <2>1, ApartGoto DEF Goto
  <2>2. CASE /\ host' = [host EXCEPT ![arg[s].st] = IF arg[s].created THEN s ELSE @]
             /\ \E p \in {"discard", "setStage", "leaveOld"} : Goto(s, p)
    <3>1. PICK p \in {"discard", "setStage", "leaveOld"} : Goto(s, p)
      BY <2>2
    <3>2. pc' = [pc EXCEPT ![s] = p] /\ UNCHANGED arg /\ pc[s] = "join"
      BY <1>0, <1>13, <3>1 DEF Goto, GotoWith, TypeOK, HandlerTypes, Join, At
    <3>3. \A t \in Session \ {s} : pc'[t] = pc[t]
      BY <1>0, <3>2 DEF TypeOK, HandlerTypes
    <3>4. ASSUME NEW t \in Session, Creating(t)' PROVE Creating(t)
      BY <1>0, <3>2, <3>3, <3>4 DEF Creating, TypeOK, HandlerTypes
    <3>5. ASSUME NEW t \in Session, Creating(t)', pc'[t] = "discard"
          PROVE  host'[arg[t].st] = t
      <4>1. arg[t].st \in Stage /\ Creating(t)
        BY <1>0, <3>4, <3>5, ArgsOf DEF CreatorsApart, TypeOK
      <4>2. CASE t = s
        BY <1>0, <2>2, <4>1, <4>2 DEF Creating, TypeOK, StageTypes
      <4>3. CASE t # s
        BY <1>0, <2>2, <3>2, <3>3, <3>5, <4>1, <4>3
           DEF CreatorsApart, Creating, TypeOK, StageTypes
      <4> QED
        BY <4>2, <4>3
    <3> QED
      BY <3>2, <3>4, <3>5 DEF CreatorsApart
  <2> QED
    BY <1>13, <2>1, <2>2 DEF Join
<1> QED
  BY <1>1, <1>2, <1>3, <1>4, <1>5, <1>6, <1>7, <1>8, <1>9, <1>10, <1>11, <1>12, <1>13,
     Zenon DEF Next, Handle, Logout

\* Who takes a stage out of the map, and which.
Removes(s, id) ==
    \/ Discard(s) /\ arg[s].created /\ arg[s].st = stages[id]
    \/ (Handle(s) \/ Logout(s)) /\ id \in Sweepable
    \/ (Handle(s) \/ Logout(s)) /\ id \in SweepableHosted(s)
    \/ UnlockClear(s) /\ clients[stages[id]] = {} /\ stages[id] = arg[s].st
    \/ /\ FinalizeStages(s)
       /\ clients[stages[id]] \subseteq {s} /\ clients'[stages[id]] = {}
       /\ host[stages[id]] = s \/ ~fresh[stages[id]]

\* Every step that changes the entry of a stage removes it, for one of these reasons.
LEMMA RemovedFor ==
  ASSUME TypeOK, [Next]_vars, NEW id \in StageId, stages[id] # NoStage,
         stages'[id] # stages[id]
  PROVE  \E s \in Session : Removes(s, id)
<1> USE DEF TypeOK, StageTypes
<1>1. CASE UNCHANGED vars
  BY <1>1 DEF vars, stageVars
<1>2. ASSUME NEW s \in Session,
               Receive(s) \/ CreateCheck(s) \/ Move(s) \/ Enter(s) \/ EnterReserve(s)
               \/ Back(s) \/ Transfer(s) \/ TransferLock(s) \/ Join(s) \/ LeaveOld(s)
               \/ SetStage(s) \/ Forget(s) \/ ReleaseOld(s) \/ Failed(s) \/ Reserve(s)
               \/ ReserveSlot(s) \/ ReserveSave(s) \/ Unreserve(s)
               \/ UnreserveSlot(s) \/ LockStage(s) \/ Password(s)
               \/ PasswordStage(s) \/ UnlockStage(s)
               \/ UnlockForget(s) \/ UnlockNotify(s)
      PROVE  UNCHANGED stages
  BY <1>2, Zenon
     DEF Receive, CreateCheck, Move, Enter, EnterReserve, Back, Transfer,
         TransferLock, Join, LeaveOld, SetStage, Forget,
         ReleaseOld, Failed, Reserve, ReserveSlot, ReserveSave,
         Unreserve, UnreserveSlot, LockStage, Password, PasswordStage,
         UnlockStage, UnlockForget, UnlockNotify, stageVars
<1>3. ASSUME NEW s \in Session,
               StartLogout(s) \/ Unregister(s) \/ Snapshot(s) \/ LeaveAll(s)
               \/ DropSlots(s) \/ LeaveStage(s) \/ Panic(s) \/ Finalize(s)
               \/ FinalizeKeep(s) \/ Detach(s)
      PROVE  UNCHANGED stages
  BY <1>3, Zenon
     DEF StartLogout, Unregister, Snapshot, LeaveAll, DropSlots, LeaveStage,
         Panic, Finalize, FinalizeKeep, Detach, stageVars
<1>4. ASSUME NEW st \in Stage, GraceEnds(st) PROVE UNCHANGED stages
  BY <1>4 DEF GraceEnds
<1>5. ASSUME NEW s \in Session, CreateStore(s) PROVE FALSE
  <2>1. \/ UNCHANGED stageVars
        \/ stages[arg[s].id] = NoStage
           /\ \E st \in Stage, max \in PlayerCount : NewStage(st, arg[s].id, s, max)
    BY <1>5 DEF CreateStore
  <2> QED
    BY <2>1 DEF NewStage, stageVars
<1>6. ASSUME NEW s \in Session, Lookup(s) PROVE FALSE
  <2>1. \/ UNCHANGED stageVars
        \/ stages[arg[s].id] = NoStage
           /\ \E st \in Stage : NewStage(st, arg[s].id, NoSession, DefaultMaxPlayers)
    BY <1>6, Zenon DEF Lookup
  <2> QED
    BY <2>1 DEF NewStage, stageVars
<1>7. ASSUME NEW s \in Session, Discard(s) PROVE Removes(s, id)
  BY <1>7 DEF Discard, CompareAndDelete, Removes
<1>8. ASSUME NEW s \in Session, SweepOld(s) \/ Sweep(s) \/ SweepOut(s)
      PROVE  Removes(s, id)
  <2>1. \E i \in StageId : stages' = [stages EXCEPT ![i] = IF i \in Sweepable THEN NoStage ELSE @]
    BY <1>8, ArgsOf, Zenon DEF SweepOld, Sweep, SweepAt, SweepOut, SweepingOut
  <2>2. id \in Sweepable
    BY <2>1
  <2> QED
    BY <1>8, <2>2 DEF Removes, Handle, Logout
<1>9. ASSUME NEW s \in Session, SweepHosted(s) \/ SweepHostedOut(s)
      PROVE  Removes(s, id)
  <2>1. \E i \in StageId :
           stages' = [stages EXCEPT ![i] = IF i \in SweepableHosted(s) THEN NoStage ELSE @]
    BY <1>9, ArgsOf, Zenon DEF SweepHosted, SweepAt, SweepHostedOut, SweepingOut
  <2>2. id \in SweepableHosted(s)
    BY <2>1
  <2> QED
    BY <1>9, <2>2 DEF Removes, Handle, Logout
<1>10. ASSUME NEW s \in Session, UnlockClear(s) PROVE Removes(s, id)
  BY <1>10 DEF UnlockClear, CompareAndDelete, Removes
<1>11. ASSUME NEW s \in Session, FinalizeStages(s) PROVE Removes(s, id)
  <2>1. PICK i \in StageId : stages[i] # NoStage /\ FinalizeStage(s, i, stages[i])
    BY <1>11 DEF FinalizeStages
  <2>2. stages[i] = stages[id]
    BY <2>1 DEF FinalizeStage, CompareAndDelete
  <2>3. /\ clients[stages[id]] \ {s} = {} /\ clients'[stages[id]] = clients[stages[id]] \ {s}
        /\ host[stages[id]] = s \/ ~fresh[stages[id]]
    BY <2>1, <2>2 DEF FinalizeStage, CompareAndDelete
  <2> QED
    BY <1>11, <2>3 DEF Removes
<1> QED
  BY <1>1, <1>2, <1>3, <1>4, <1>5, <1>6, <1>7, <1>8, <1>9, <1>10, <1>11, Zenon
     DEF Next, Handle, Logout

\* Nobody has created anything when the server starts.
LEMMA CreatorsStartApart == Init => CreatorsApart
  BY DEF Init, CreatorsApart, Creating

\* The sweeps leave a stage alone within stageEmptyGrace unless its host runs them:
\* a fresh stage goes by a handler or the logout of its host, which a refused
\* creator is, or by an UnlockStage.
THEOREM GraceKept == Spec => FreshStagesKept
<1>1. ASSUME IInv, CreatorsApart, [Next]_vars, NEW id \in StageId,
             stages[id] # NoStage, fresh[stages[id]], stages'[id] # stages[id]
      PROVE  \E s \in Session : \/ s = host[stages[id]] /\ (Handle(s) \/ Logout(s))
                                \/ UnlockClear(s)
  <2>1. PICK s \in Session : Removes(s, id)
    BY <1>1, RemovedFor DEF IInv
  <2>2. CASE Discard(s) /\ arg[s].created /\ arg[s].st = stages[id]
    <3>1. Handle(s)
      BY <2>2 DEF Handle
    <3>2. host[stages[id]] = s
      BY <1>1, <2>2 DEF CreatorsApart, Creating, Discard, At
    <3> QED
      BY <3>1, <3>2
  <2>3. CASE FinalizeStages(s) /\ host[stages[id]] = s
    BY <2>3 DEF Logout
  <2>4. id \notin Sweepable
    BY <1>1 DEF Sweepable
  <2>5. CASE (Handle(s) \/ Logout(s)) /\ id \in SweepableHosted(s)
    BY <2>5 DEF SweepableHosted
  <2> QED
    BY <1>1, <2>1, <2>2, <2>3, <2>4, <2>5 DEF Removes
<1> DEFINE Kept == [\A id \in StageId :
                      LET st == stages[id]
                      IN st # NoStage /\ fresh[st] /\ stages'[id] # st
                           => \E s \in Session : \/ s = host[st] /\ (Handle(s) \/ Logout(s))
                                                 \/ UnlockClear(s)]_vars
<1>2. IInv /\ CreatorsApart /\ [Next]_vars => Kept
  BY <1>1
<1>3. Init => IInv /\ CreatorsApart
  BY InitIInv, CreatorsStartApart
<1>4. IInv /\ CreatorsApart /\ [Next]_vars => (IInv /\ CreatorsApart)'
  BY NextIInv, CreatorsApartInv
<1> QED
  BY <1>2, <1>3, <1>4, PTL DEF Spec, FreshStagesKept

-----------------------------------------------------------------------------

\* A stage is in the map under its own ID.
NamesKept == \A id \in StageId : stages[id] # NoStage => idOf[stages[id]] = id

\* A step allocates a stage and stores it under its ID, or leaves every ID alone and
\* at most removes entries of the map.
LEMMA StoredOrRemoved ==
  ASSUME TypeOK, [Next]_vars
  PROVE  \/ \E st \in Stage, id \in StageId : \E h, max :
                stages[id] = NoStage /\ NewStage(st, id, h, max)
         \/ UNCHANGED idOf /\ \A id \in StageId : stages'[id] \in {stages[id], NoStage}
<1> USE DEF TypeOK, StageTypes
<1>1. CASE UNCHANGED vars
  BY <1>1 DEF vars, stageVars
<1>2. ASSUME NEW s \in Session,
               Receive(s) \/ CreateCheck(s) \/ Move(s) \/ Enter(s) \/ EnterReserve(s)
               \/ Back(s) \/ Transfer(s) \/ TransferLock(s) \/ Join(s) \/ LeaveOld(s)
               \/ SetStage(s) \/ Forget(s) \/ ReleaseOld(s) \/ Failed(s) \/ Reserve(s)
               \/ ReserveSlot(s) \/ ReserveSave(s) \/ Unreserve(s)
               \/ UnreserveSlot(s) \/ LockStage(s) \/ Password(s)
               \/ PasswordStage(s) \/ UnlockStage(s)
               \/ UnlockForget(s) \/ UnlockNotify(s)
      PROVE  UNCHANGED <<idOf, stages>>
  BY <1>2, Zenon
     DEF Receive, CreateCheck, Move, Enter, EnterReserve, Back, Transfer,
         TransferLock, Join, LeaveOld, SetStage, Forget,
         ReleaseOld, Failed, Reserve, ReserveSlot, ReserveSave,
         Unreserve, UnreserveSlot, LockStage, Password, PasswordStage,
         UnlockStage, UnlockForget, UnlockNotify, stageVars
<1>3. ASSUME NEW s \in Session,
               StartLogout(s) \/ Unregister(s) \/ Snapshot(s) \/ LeaveAll(s)
               \/ DropSlots(s) \/ LeaveStage(s) \/ Panic(s) \/ Finalize(s)
               \/ FinalizeKeep(s) \/ Detach(s)
      PROVE  UNCHANGED <<idOf, stages>>
  BY <1>3, Zenon
     DEF StartLogout, Unregister, Snapshot, LeaveAll, DropSlots, LeaveStage,
         Panic, Finalize, FinalizeKeep, Detach, stageVars
<1>4. ASSUME NEW st \in Stage, GraceEnds(st) PROVE UNCHANGED <<idOf, stages>>
  BY <1>4 DEF GraceEnds
<1>5. ASSUME NEW s \in Session, CreateStore(s)
      PROVE  \/ UNCHANGED <<idOf, stages>>
             \/ \E st \in Stage, id \in StageId : \E h, max :
                stages[id] = NoStage /\ NewStage(st, id, h, max)
  BY <1>5, ArgsOf DEF CreateStore, stageVars
<1>6. ASSUME NEW s \in Session, Lookup(s)
      PROVE  \/ UNCHANGED <<idOf, stages>>
             \/ \E st \in Stage, id \in StageId : \E h, max :
                stages[id] = NoStage /\ NewStage(st, id, h, max)
  BY <1>6, ArgsOf, Zenon DEF Lookup, stageVars
<1>7. ASSUME NEW s \in Session, Discard(s) \/ UnlockClear(s) \/ FinalizeStages(s)
      PROVE  UNCHANGED idOf /\ \A id \in StageId : stages'[id] \in {stages[id], NoStage}
  BY <1>7
     DEF Discard, UnlockClear, FinalizeStages, FinalizeStage, CompareAndDelete
<1>8. ASSUME NEW s \in Session, SweepOld(s) \/ SweepHosted(s) \/ Sweep(s)
                                \/ SweepOut(s) \/ SweepHostedOut(s)
      PROVE  UNCHANGED idOf /\ \A id \in StageId : stages'[id] \in {stages[id], NoStage}
  <2>1. /\ UNCHANGED idOf
        /\ \E doomed, i : stages' = [stages EXCEPT ![i] = IF i \in doomed THEN NoStage ELSE @]
    BY <1>8, Zenon
       DEF SweepOld, SweepHosted, Sweep, SweepAt, SweepOut, SweepHostedOut, SweepingOut
  <2> QED
    BY <2>1
<1> QED
  BY <1>1, <1>2, <1>3, <1>4, <1>5, <1>6, <1>7, <1>8, Zenon
     DEF Next, Handle, Logout

\* Pointers are handed out once, so an entry keeps its ID.
LEMMA NamesKeptInv ==
  ASSUME IInv, NamesKept, [Next]_vars
  PROVE  NamesKept'
<1> USE DEF IInv, TypeOK, StageTypes
<1>1. CASE UNCHANGED idOf /\ \A id \in StageId : stages'[id] \in {stages[id], NoStage}
  BY <1>1 DEF NamesKept
<1>2. ASSUME NEW st \in Stage, NEW id \in StageId, NEW h, NEW max,
             NewStage(st, id, h, max)
      PROVE  NamesKept'
  BY <1>2, StageAssumption DEF NewStage, NamesKept, PointersAllocated, Allocated
<1> QED
  BY <1>1, <1>2, StoredOrRemoved

\* Without a refused creator, a step keeps everybody in stages of the map.
LEMMA NobodyInOrphansInv ==
  ASSUME IInv, NamesKept, NobodyInOrphans, [Next]_vars,
         \A s \in Session : Discard(s) => ~arg[s].created
  PROVE  NobodyInOrphans'
<1> USE DEF IInv, TypeOK, StageTypes
<1> SUFFICES ASSUME NEW st \in Stage, idOf'[st] # NoId, stages'[idOf'[st]] # st,
                    clients'[st] # {}
             PROVE  FALSE
  BY DEF NobodyInOrphans
<1>1. CASE UNCHANGED idOf /\ \A id \in StageId : stages'[id] \in {stages[id], NoStage}
  <2> DEFINE id == idOf[st]
  <2>1. id \in StageId /\ idOf'[st] = id
    BY <1>1
  <2>2. CASE stages[id] # st
    <3>1. clients[st] = {}
      BY <2>1, <2>2, <1>1 DEF NobodyInOrphans
    <3>2. PICK s \in Session : Join(s)
      BY <3>1, OthersOnlyLeave
    <3>3. st = arg[s].st /\ stages[arg[s].id] = st
      BY <3>1, <3>2, ArgsOf DEF Join, IsCurrent
    <3> QED
      BY <2>2, <3>3, ArgsOf, StageAssumption, Zenon DEF NamesKept
  <2>3. CASE stages[id] = st
    <3>1. stages'[id] # stages[id] /\ stages[id] # NoStage
      BY <2>1, <2>3, StageAssumption
    <3>2. PICK s \in Session : Removes(s, id)
      BY <2>1, <3>1, RemovedFor
    <3>3. \A t \in Session : ~Join(t)
      BY <2>1, <3>1 DEF Join
    <3>4. clients[st] # {}
      BY <3>3, OthersOnlyLeave
    <3>5. id \notin Sweepable /\ id \notin SweepableHosted(s)
      BY <2>3, <3>4 DEF Sweepable, SweepableHosted, Empty
    <3> QED
      BY <2>3, <3>2, <3>4, <3>5 DEF Removes
  <2> QED
    BY <2>2, <2>3
<1>2. ASSUME NEW new \in Stage, NEW id \in StageId, NEW h, NEW max,
             stages[id] = NoStage, NewStage(new, id, h, max)
      PROVE  FALSE
  <2>1. st # new
    BY <1>2 DEF NewStage
  <2>2. idOf'[st] = idOf[st] /\ clients'[st] = clients[st]
    BY <1>2, <2>1 DEF NewStage
  <2>3. stages[idOf[st]] = st
    BY <2>2 DEF NobodyInOrphans
  <2> QED
    BY <1>2, <2>2, <2>3, StageAssumption DEF NewStage
<1> QED
  BY <1>1, <1>2, StoredOrRemoved

\* No interleaving of joins, sweeps, unlocks and logouts leaves a session in a stage
\* that is no longer in the map, but one: a refused transfer that discards the stage
\* it has created (handlers_stage.go:173-176).
THEOREM OnlyRefusedCreatorsOrphan ==
  Spec /\ [][\A s \in Session : Discard(s) => ~arg[s].created]_vars => []NobodyInOrphans
<1> DEFINE Step == [Next]_vars /\ [\A s \in Session : Discard(s) => ~arg[s].created]_vars
           Inv == IInv /\ NamesKept /\ NobodyInOrphans
<1>1. Init => Inv
  BY InitIInv, StageAssumption DEF Init, NamesKept, NobodyInOrphans
<1>2. Inv /\ Step => Inv'
  <2>1. CASE UNCHANGED vars
    BY <2>1, NextIInv DEF NamesKept, NobodyInOrphans, vars, stageVars
  <2>2. CASE \A s \in Session : Discard(s) => ~arg[s].created
    BY <2>2, NextIInv, NamesKeptInv, NobodyInOrphansInv
  <2> QED
    BY <2>1, <2>2
<1> QED
  BY <1>1, <1>2, PTL DEF Spec

-----------------------------------------------------------------------------

\* From Join to SetStage a session is a client of the new stage, and of the old one
\* until it has left it; else of the stage it points at.
Moved == {"sweepOld", "sweepHosted", "setStage"}
Inside(s) == CASE pc[s] = "leaveOld" -> {stage[s], arg[s].st}
               [] pc[s] \in Moved -> {arg[s].st}
               [] OTHER -> {stage[s]} \ {NoStage}

ClientOf(s) == {st \in Stage : s \in clients[st]}

Whereabouts ==
    \A s \in Session : ~closed[s] =>
        /\ ClientOf(s) = Inside(s)
        /\ pc[s] = "leaveOld" => stage[s] \notin {NoStage, arg[s].st}
        /\ pc[s] = "join" => arg[s].st # NoStage

\* A step that takes nobody anywhere.
LEMMA WhereaboutsKept ==
  ASSUME TypeOK, Whereabouts, UNCHANGED <<pc, arg>>,
         \A t \in Session : ~closed'[t] =>
            ~closed[t] /\ stage'[t] = stage[t] /\ ClientOf(t)' = ClientOf(t)
  PROVE  Whereabouts'
  BY DEF Whereabouts, Inside

\* A step of a handler that takes nobody anywhere.
LEMMA WhereaboutsGoto ==
  ASSUME TypeOK, Whereabouts, NEW s \in Session, NEW p, NEW x, GotoWith(s, p, x),
         \/ /\ pc[s] \notin Moved \cup {"leaveOld"} /\ p \notin Moved \cup {"leaveOld"}
            /\ p = "join" => x.st # NoStage
         \/ pc[s] \in Moved /\ p \in Moved /\ x.st = arg[s].st,
         UNCHANGED <<closed, stage>>,
         \A t \in Session : ~closed[t] => ClientOf(t)' = ClientOf(t)
  PROVE  Whereabouts'
<1>1. pc'[s] = p /\ \A t \in Session \ {s} : pc'[t] = pc[t] /\ arg'[t] = arg[t]
  BY DEF GotoWith, TypeOK, HandlerTypes
<1>2. /\ p \in Moved => arg'[s].st = arg[s].st
      /\ p = "join" => arg'[s].st # NoStage
  BY DEF GotoWith, TypeOK, HandlerTypes, Moved
<1>3. \A t \in Session : Inside(t)' = Inside(t)
  BY <1>1, <1>2 DEF Inside, Moved
<1> QED
  BY <1>1, <1>2, <1>3 DEF Whereabouts, Moved

\* A step of a handler that takes its own session, and nobody else, to another place.
LEMMA WhereaboutsMove ==
  ASSUME Whereabouts, NEW s \in Session, UNCHANGED closed,
         \A t \in Session \ {s} :
            /\ pc'[t] = pc[t] /\ arg'[t] = arg[t] /\ stage'[t] = stage[t]
            /\ ClientOf(t)' = ClientOf(t),
         ~closed[s] => ClientOf(s)' = Inside(s)',
         pc'[s] = "leaveOld" => stage'[s] \notin {NoStage, arg'[s].st},
         pc'[s] # "join"
  PROVE  Whereabouts'
<1>1. ASSUME NEW t \in Session \ {s}, ~closed[t]
      PROVE  /\ ClientOf(t)' = Inside(t)'
             /\ pc'[t] = "leaveOld" => stage'[t] \notin {NoStage, arg'[t].st}
             /\ pc'[t] = "join" => arg'[t].st # NoStage
  <2>1. Inside(t)' = Inside(t)
    BY Zenon DEF Inside
  <2> QED
    BY <1>1, <2>1 DEF Whereabouts
<1> QED
  BY <1>1 DEF Whereabouts

\* A new stage has nobody in it, nor had anybody before.
LEMMA NobodyInNewStage ==
  ASSUME IInv, Whereabouts, NEW st \in Stage, NEW id, NEW h, NEW max,
         NewStage(st, id, h, max)
  PROVE  \A t \in Session : ~closed[t] => ClientOf(t)' = ClientOf(t)
<1> USE DEF IInv
<1>1. ASSUME NEW t \in Session, ~closed[t] PROVE st \notin ClientOf(t)
  <2>1. \A u \in Inside(t) : Allocated(u)
    BY DEF Inside, PointersAllocated
  <2>2. ~Allocated(st)
    BY StageAssumption DEF NewStage, Allocated
  <2> QED
    BY <1>1, <2>1, <2>2 DEF Whereabouts
<1>2. clients' = [clients EXCEPT ![st] = {}]
  BY DEF NewStage
<1> QED
  BY <1>1, <1>2 DEF ClientOf, TypeOK, StageTypes

\* Every step keeps an open session where its handler is.
LEMMA WhereaboutsInv ==
  ASSUME IInv, Whereabouts, [Next]_vars
  PROVE  Whereabouts'
<1>0. TypeOK /\ PointersAllocated /\ LogoutProgress
  BY DEF IInv
<1>1. CASE UNCHANGED vars
  BY <1>0, <1>1, WhereaboutsKept DEF vars, stageVars, sessionVars, handlerVars, ClientOf
<1>2. ASSUME NEW s \in Session,
               Unregister(s) \/ Snapshot(s) \/ DropSlots(s) \/ SweepOut(s)
               \/ SweepHostedOut(s) \/ Panic(s) \/ Finalize(s) \/ FinalizeKeep(s)
      PROVE  Whereabouts'
  <2>1. UNCHANGED <<pc, arg, clients, stage, closed>>
    BY <1>2, Zenon
       DEF Unregister, Snapshot, DropSlots, SweepOut, SweepHostedOut,
           SweepingOut, Panic, Finalize, FinalizeKeep, stageVars, sessionVars,
           handlerVars
  <2> QED
    BY <1>0, <2>1, WhereaboutsKept DEF ClientOf
<1>3. ASSUME NEW s \in Session, LeaveAll(s) \/ LeaveStage(s) \/ FinalizeStages(s)
      PROVE  Whereabouts'
  <2>1. UNCHANGED <<pc, arg, stage, closed>> /\ lpc[s] # "none"
    BY <1>3, Zenon
       DEF LeaveAll, LeaveStage, FinalizeStages, Visiting, sessionVars, handlerVars
  <2>2. closed[s]
    BY <1>0, <2>1 DEF LogoutProgress
  <2>3. \E st : clients' = clients \/ clients' = [clients EXCEPT ![st] = @ \ {s}]
    BY <1>3 DEF LeaveAll, LeaveStage, FinalizeStages, FinalizeStage
  <2>4. \A t \in Session \ {s} : ClientOf(t)' = ClientOf(t)
    BY <1>0, <2>3 DEF ClientOf, TypeOK, StageTypes
  <2> QED
    BY <1>0, <2>1, <2>2, <2>4, WhereaboutsKept
<1>4. ASSUME NEW s \in Session, StartLogout(s) PROVE Whereabouts'
  BY <1>0, <1>4, WhereaboutsKept
     DEF StartLogout, stageVars, handlerVars, ClientOf, TypeOK, SessionTypes
<1>5. ASSUME NEW s \in Session, Detach(s) PROVE Whereabouts'
  <2>1. closed[s] /\ UNCHANGED <<pc, arg, clients, closed>>
    BY <1>0, <1>5 DEF Detach, LogoutProgress, stageVars, handlerVars
  <2>2. \A t \in Session \ {s} : stage'[t] = stage[t]
    BY <1>0, <1>5 DEF Detach, TypeOK, SessionTypes
  <2> QED
    BY <1>0, <2>1, <2>2, WhereaboutsKept DEF ClientOf
<1>6. ASSUME NEW st \in Stage, GraceEnds(st) PROVE Whereabouts'
  BY <1>0, <1>6, WhereaboutsKept DEF GraceEnds, sessionVars, handlerVars, ClientOf
<1>7. ASSUME NEW s \in Session,
               CreateCheck(s) \/ Move(s) \/ EnterReserve(s) \/ Transfer(s)
               \/ TransferLock(s) \/ Discard(s) \/ Forget(s) \/ ReleaseOld(s)
               \/ Failed(s) \/ ReserveSlot(s)
               \/ ReserveSave(s) \/ UnreserveSlot(s) \/ LockStage(s)
               \/ Password(s) \/ PasswordStage(s) \/ UnlockStage(s)
               \/ UnlockClear(s) \/ UnlockForget(s) \/ Reserve(s) \/ Unreserve(s)
      PROVE  Whereabouts'
  <2>1. UNCHANGED <<clients, stage, closed>>
    BY <1>7, Zenon
       DEF CreateCheck, Move, EnterReserve, Transfer, TransferLock, Discard,
           Forget, ReleaseOld, Failed, ReserveSlot, ReserveSave,
           UnreserveSlot, LockStage, Password, PasswordStage, UnlockStage,
           UnlockClear, UnlockForget, Reserve, Unreserve, stageVars, sessionVars
  <2>2. \E p, x : /\ GotoWith(s, p, x)
                  /\ p \notin Moved \cup {"leaveOld", "join"}
                  /\ pc[s] \notin Moved \cup {"leaveOld"}
    BY <1>7
       DEF CreateCheck, Move, EnterReserve, Transfer, TransferLock, Discard,
           Forget, ReleaseOld, Failed, ReserveSlot, ReserveSave,
           UnreserveSlot, LockStage, Password, PasswordStage, UnlockStage,
           UnlockClear, UnlockForget, Reserve, Unreserve, Goto, At, Moved
  <2> QED
    BY <1>0, <2>1, <2>2, WhereaboutsGoto DEF ClientOf
<1>8. ASSUME NEW s \in Session, Receive(s) PROVE Whereabouts'
  <2>1. PICK k \in Sends[s] : \E x : GotoWith(s, k, x)
    BY <1>8, Zenon DEF Receive
  <2>2. k \notin Moved \cup {"leaveOld", "join"}
    BY StageAssumption DEF Packet, Moved
  <2>3. pc[s] \notin Moved \cup {"leaveOld"} /\ UNCHANGED <<clients, stage, closed>>
    BY <1>8, Zenon DEF Receive, At, Moved, stageVars, sessionVars
  <2> QED
    BY <1>0, <2>1, <2>2, <2>3, WhereaboutsGoto DEF ClientOf
<1>9. ASSUME NEW s \in Session, Enter(s) \/ Back(s) PROVE Whereabouts'
  <2>1. \E x : GotoWith(s, "idle", x) \/ GotoWith(s, "transfer", x)
               \/ GotoWith(s, "enterReserve", x)
    BY <1>9 DEF Enter, Back, Goto
  <2>2. pc[s] \notin Moved \cup {"leaveOld"} /\ UNCHANGED <<clients, stage, closed>>
    BY <1>9 DEF Enter, Back, At, Moved, stageVars, sessionVars
  <2> QED
    BY <1>0, <2>1, <2>2, WhereaboutsGoto DEF ClientOf, Moved
<1>10. ASSUME NEW s \in Session, UnlockNotify(s) PROVE Whereabouts'
  <2>1. \E x : GotoWith(s, "sweep", x) \/ GotoWith(s, "unlockNotify", x)
    BY <1>10, Zenon DEF UnlockNotify, Goto
  <2>2. pc[s] = "unlockNotify" /\ UNCHANGED <<clients, stage, closed>>
    BY <1>10, Zenon DEF UnlockNotify, At, stageVars
  <2> QED
    BY <1>0, <2>1, <2>2, WhereaboutsGoto DEF ClientOf, Moved
<1>11. ASSUME NEW s \in Session, Sweep(s) PROVE Whereabouts'
  <2>1. \E x : GotoWith(s, "sweep", x) \/ GotoWith(s, "idle", x)
    BY <1>11, Zenon DEF Sweep, SweepAt
  <2>2. pc[s] = "sweep" /\ UNCHANGED <<clients, stage, closed>>
    BY <1>11, Zenon DEF Sweep, SweepAt, At, sessionVars
  <2> QED
    BY <1>0, <2>1, <2>2, WhereaboutsGoto DEF ClientOf, Moved
<1>12. ASSUME NEW s \in Session, SweepOld(s) \/ SweepHosted(s) PROVE Whereabouts'
  <2>1. \E todo : \E p \in Moved : GotoWith(s, p, [arg[s] EXCEPT !.todo = todo])
    BY <1>12, Zenon DEF SweepOld, SweepHosted, SweepAt, Moved
  <2>2. pc[s] \in Moved /\ UNCHANGED <<clients, stage, closed>>
    BY <1>12, Zenon DEF SweepOld, SweepHosted, SweepAt, At, Moved, sessionVars
  <2>3. \A todo : [arg[s] EXCEPT !.todo = todo].st = arg[s].st
    BY <1>0, ArgsOf DEF Args, TypeOK
  <2> QED
    BY <1>0, <2>1, <2>2, <2>3, WhereaboutsGoto, Zenon DEF ClientOf
<1>13. ASSUME NEW s \in Session, CreateStore(s) PROVE Whereabouts'
  <2>1. \A t \in Session : ~closed[t] => ClientOf(t)' = ClientOf(t)
    BY <1>13, NobodyInNewStage DEF CreateStore, stageVars, ClientOf
  <2>2. GotoWith(s, "idle", arg[s]) /\ pc[s] = "createStore" /\ UNCHANGED <<stage, closed>>
    BY <1>13 DEF CreateStore, Goto, At, sessionVars
  <2> QED
    BY <1>0, <2>1, <2>2, WhereaboutsGoto DEF Moved
<1>14. ASSUME NEW s \in Session, Lookup(s) PROVE Whereabouts'
  <2>1. \/ UNCHANGED clients
        \/ \E st \in Stage : NewStage(st, arg[s].id, NoSession, DefaultMaxPlayers)
    BY <1>14, Zenon DEF Lookup, stageVars
  <2>2. \A t \in Session : ~closed[t] => ClientOf(t)' = ClientOf(t)
    BY <2>1, NobodyInNewStage DEF ClientOf
  <2>3. \E x : GotoWith(s, "join", x) /\ x.st # NoStage
    <3>1. \E st \in Stage : \E made :
            GotoWith(s, "join", [arg[s] EXCEPT !.st = st, !.created = made])
      <4>1. stages[arg[s].id] \in Stage \cup {NoStage}
        BY <1>0, ArgsOf DEF TypeOK, StageTypes
      <4> QED
        BY <1>14, <4>1, Zenon DEF Lookup
    <3>2. \A st \in Stage : \A made : [arg[s] EXCEPT !.st = st, !.created = made].st # NoStage
      BY <1>0, ArgsOf, StageAssumption DEF Args, TypeOK
    <3> QED
      BY <3>1, <3>2, Zenon
  <2>4. pc[s] = "lookup" /\ UNCHANGED <<stage, closed>>
    BY <1>14, Zenon DEF Lookup, At, sessionVars
  <2> QED
    BY <1>0, <2>2, <2>3, <2>4, WhereaboutsGoto DEF Moved
<1>15. ASSUME NEW s \in Session, Join(s) PROVE Whereabouts'
  <2>1. pc[s] = "join" /\ UNCHANGED <<stage, closed>>
    BY <1>15 DEF Join, At, sessionVars
  <2>2. CASE UNCHANGED clients /\ \E p \in {"lookup", "discard"} : Goto(s, p)
    BY <1>0, <2>1, <2>2, WhereaboutsGoto DEF Goto, ClientOf, Moved
  <2>3. CASE /\ clients' = [clients EXCEPT ![arg[s].st] = @ \cup {s}]
             /\ IsCurrent(arg[s].id, arg[s].st)
             /\ Goto(s, IF stage[s] \in {NoStage, arg[s].st} THEN "setStage" ELSE "leaveOld")
    <3>2. /\ pc' = [pc EXCEPT ![s] = IF stage[s] \in {NoStage, arg[s].st}
                                     THEN "setStage" ELSE "leaveOld"]
          /\ UNCHANGED arg
      BY <1>0, <2>3 DEF Goto, GotoWith, TypeOK, HandlerTypes
    <3>1. ~closed[s] => arg[s].st \in Stage
      BY <1>0, <2>1, ArgsOf DEF Whereabouts, TypeOK
    <3>3. ~closed[s] => ClientOf(s)' = ClientOf(s) \cup {arg[s].st}
      BY <1>0, <2>3, <3>1 DEF ClientOf, TypeOK, StageTypes
    <3>4. \A t \in Session \ {s} : ClientOf(t)' = ClientOf(t)
      BY <1>0, <2>3 DEF ClientOf, TypeOK, StageTypes
    <3>5. \A t \in Session \ {s} : pc'[t] = pc[t]
      BY <1>0, <3>2 DEF TypeOK, HandlerTypes
    <3>6. ~closed[s] => ClientOf(s) = {stage[s]} \ {NoStage}
      BY <2>1 DEF Whereabouts, Inside, Moved
    <3>7. CASE stage[s] \in {NoStage, arg[s].st}
      <4>1. pc'[s] = "setStage"
        BY <1>0, <3>2, <3>7 DEF TypeOK, HandlerTypes
      <4>2. Inside(s)' = {arg[s].st}
        BY <3>2, <4>1 DEF Inside, Moved
      <4>3. ~closed[s] => ClientOf(s)' = {arg[s].st}
        BY <3>3, <3>6, <3>7
      <4> QED
        BY <2>1, <3>2, <3>4, <3>5, <4>1, <4>2, <4>3, WhereaboutsMove, Zenon
    <3>8. CASE stage[s] \notin {NoStage, arg[s].st}
      <4>1. pc'[s] = "leaveOld"
        BY <1>0, <3>2, <3>8 DEF TypeOK, HandlerTypes
      <4>2. Inside(s)' = {stage[s], arg[s].st}
        BY <2>1, <3>2, <4>1 DEF Inside, Moved
      <4>3. ~closed[s] => ClientOf(s)' = {stage[s], arg[s].st}
        BY <3>3, <3>6, <3>8
      <4> QED
        BY <2>1, <3>2, <3>4, <3>5, <3>8, <4>1, <4>2, <4>3, WhereaboutsMove, Zenon
    <3> QED
      BY <3>7, <3>8
  <2> QED
    BY <1>15, <2>2, <2>3 DEF Join
<1>16. ASSUME NEW s \in Session, LeaveOld(s) PROVE Whereabouts'
  <2>1. pc[s] = "leaveOld" /\ UNCHANGED <<stage, closed>>
    BY <1>16 DEF LeaveOld, At, sessionVars
  <2>2. clients' = [clients EXCEPT ![stage[s]] = @ \ {s}]
    BY <1>16 DEF LeaveOld
  <2>3. pc'[s] = "sweepOld" /\ arg'[s].st = arg[s].st
    BY <1>0, <1>16, ArgsOf DEF LeaveOld, GotoWith, TypeOK, HandlerTypes, Args
  <2>4. \A t \in Session \ {s} : pc'[t] = pc[t] /\ arg'[t] = arg[t]
    BY <1>0, <1>16 DEF LeaveOld, GotoWith, TypeOK, HandlerTypes
  <2>5. \A t \in Session \ {s} : ClientOf(t)' = ClientOf(t)
    BY <1>0, <2>2 DEF ClientOf, TypeOK, StageTypes
  <2>6. ClientOf(s)' = ClientOf(s) \ {stage[s]}
    BY <1>0, <2>2 DEF ClientOf, TypeOK, StageTypes
  <2>7. Inside(s)' = {arg[s].st}
    BY <2>3 DEF Inside, Moved
  <2>8. ~closed[s] => ClientOf(s) = {stage[s], arg[s].st} /\ stage[s] # arg[s].st
    BY <2>1 DEF Whereabouts, Inside, Moved
  <2>9. ~closed[s] => ClientOf(s)' = Inside(s)'
    <3>1. stage[s] # arg[s].st => {stage[s], arg[s].st} \ {stage[s]} = {arg[s].st}
      OBVIOUS
    <3> HIDE DEF ClientOf, Inside
    <3> QED
      BY <2>6, <2>7, <2>8, <3>1
  <2> QED
    BY <2>1, <2>3, <2>4, <2>5, <2>9, WhereaboutsMove
<1>17. ASSUME NEW s \in Session, SetStage(s) PROVE Whereabouts'
  <2>1. pc[s] = "setStage" /\ UNCHANGED <<clients, closed>>
    BY <1>17 DEF SetStage, At, stageVars
  <2>2. stage' = [stage EXCEPT ![s] = arg[s].st]
    BY <1>17 DEF SetStage
  <2>3. pc'[s] \in {"forget", "releaseOld", "idle"}
    BY <1>0, <1>17 DEF SetStage, Goto, GotoWith, TypeOK, HandlerTypes
  <2>4. \A t \in Session \ {s} : pc'[t] = pc[t] /\ arg'[t] = arg[t] /\ stage'[t] = stage[t]
    BY <1>0, <1>17, <2>2 DEF SetStage, Goto, GotoWith, TypeOK, HandlerTypes, SessionTypes
  <2>5. ~closed[s] => ClientOf(s) = {arg[s].st}
    BY <2>1 DEF Whereabouts, Inside, Moved
  <2>6. ~closed[s] => arg[s].st \in Stage
    BY <2>5 DEF ClientOf
  <2>7. Inside(s)' = {arg[s].st} \ {NoStage}
    BY <1>0, <2>2, <2>3 DEF Inside, Moved, TypeOK, SessionTypes
  <2>8. \A t \in Session : ClientOf(t)' = ClientOf(t)
    BY <2>1 DEF ClientOf
  <2>9. ~closed[s] => ClientOf(s)' = Inside(s)'
    <3>1. ~closed[s] => {arg[s].st} \ {NoStage} = {arg[s].st}
      BY <2>6, StageAssumption
    <3> QED
      BY <2>5, <2>7, <2>8, <3>1
  <2>10. pc'[s] \notin {"leaveOld", "join"}
    BY <2>3
  <2> QED
    BY <2>1, <2>4, <2>8, <2>9, <2>10, WhereaboutsMove
<1> QED
  BY <1>1, <1>2, <1>3, <1>4, <1>5, <1>6, <1>7, <1>8, <1>9, <1>10, <1>11, <1>12, <1>13,
     <1>14, <1>15, <1>16, <1>17, Zenon DEF Next, Handle, Logout

\* Between its packets a session is in the stage it points at and in no other,
\* however its transfers interleave with sweeps, refusals and other logouts.
THEOREM OneStage == Spec => []OneStageAtATime
<1>1. Init => IInv /\ Whereabouts
  <2>1. Init => Whereabouts
    BY StageAssumption DEF Init, Whereabouts, Inside, Moved, ClientOf
  <2> QED
    BY <2>1, InitIInv
<1>2. IInv /\ Whereabouts /\ [Next]_vars => (IInv /\ Whereabouts)'
  BY NextIInv, WhereaboutsInv
<1>3. Whereabouts => OneStageAtATime
  BY DEF Whereabouts, OneStageAtATime, Inside, Moved, ClientOf
<1> QED
  BY <1>1, <1>2, <1>3, PTL DEF Spec
-----------------------------------------------------------------------------

\* Slots are given by an Enter on its way out of the old stage and by ReserveSlot,
\* to their own character.
LEMMA SlotsGiven ==
  ASSUME TypeOK, [Next]_vars, NEW st \in Stage, NEW c \in reserved'[st] \ reserved[st]
  PROVE  \E s \in Session :
            charOf[s] = c /\ ((EnterReserve(s) /\ arg[s].old = st) \/ (ReserveSlot(s) /\ arg[s].st = st))
<1> USE DEF TypeOK, StageTypes
<1>1. CASE UNCHANGED vars
  BY <1>1 DEF vars, stageVars
<1>2. ASSUME NEW s \in Session,
               Receive(s) \/ CreateCheck(s) \/ Move(s) \/ Enter(s)
               \/ Back(s) \/ Transfer(s) \/ TransferLock(s) \/ Discard(s) \/ LeaveOld(s)
               \/ SweepOld(s) \/ SweepHosted(s) \/ SetStage(s) \/ Forget(s)
               \/ Sweep(s) \/ Reserve(s)
               \/ ReserveSave(s) \/ Unreserve(s)
               \/ LockStage(s) \/ Password(s)
               \/ PasswordStage(s) \/ UnlockStage(s)
               \/ UnlockForget(s) \/ UnlockNotify(s)
      PROVE  UNCHANGED reserved
  BY <1>2, Zenon
     DEF Receive, CreateCheck, Move, Enter, Back, Transfer, TransferLock, Discard,
         LeaveOld, SweepOld, SweepHosted, SetStage, Forget, Sweep, SweepAt, Reserve,
         ReserveSave, Unreserve, LockStage, Password, PasswordStage,
         UnlockStage, UnlockForget, UnlockNotify, stageVars
<1>3. ASSUME NEW s \in Session,
               StartLogout(s) \/ Unregister(s) \/ Snapshot(s) \/ LeaveAll(s)
               \/ LeaveStage(s) \/ SweepOut(s) \/ SweepHostedOut(s) \/ Panic(s)
               \/ Finalize(s) \/ FinalizeKeep(s) \/ Detach(s)
      PROVE  UNCHANGED reserved
  BY <1>3, Zenon
     DEF StartLogout, Unregister, Snapshot, LeaveAll, LeaveStage, SweepOut,
         SweepHostedOut, SweepingOut, Panic, Finalize, FinalizeKeep, Detach,
         stageVars
<1>4. ASSUME NEW old \in Stage, GraceEnds(old) PROVE UNCHANGED reserved
  BY <1>4 DEF GraceEnds
<1>5. ASSUME NEW s \in Session, CreateStore(s) \/ Lookup(s)
      PROVE  UNCHANGED reserved
  BY <1>5, Zenon DEF CreateStore, Lookup, NewStage, stageVars
<1>6. ASSUME NEW s \in Session, Join(s) \/ ReleaseOld(s) \/ Failed(s) \/ UnreserveSlot(s)
                                \/ UnlockClear(s)
      PROVE  reserved'[st] \subseteq reserved[st]
  BY <1>6, ZenonT(60) DEF Join, ReleaseOld, Failed, UnreserveSlot, UnlockClear
<1>7. ASSUME NEW s \in Session, DropSlots(s) \/ FinalizeStages(s)
      PROVE  reserved'[st] \subseteq reserved[st]
  <2>1. \/ UNCHANGED reserved
        \/ \E old : reserved' = [reserved EXCEPT ![old] = SlotsAfter(s, old)]
    BY <1>7, Zenon DEF DropSlots, FinalizeStages, FinalizeStage
  <2> QED
    BY <2>1 DEF SlotsAfter
<1>8. ASSUME NEW s \in Session, EnterReserve(s)
      PROVE  charOf[s] = c /\ arg[s].old = st
  BY <1>8 DEF EnterReserve
<1>9. ASSUME NEW s \in Session, ReserveSlot(s)
      PROVE  charOf[s] = c /\ arg[s].st = st
  BY <1>9 DEF ReserveSlot
<1> QED
  BY <1>1, <1>2, <1>3, <1>4, <1>5, <1>6, <1>7, <1>8, <1>9, Zenon
     DEF Next, Handle, Logout

\* A stage nobody has allocated has no slots.
LEMMA NewStagesEmpty ==
  ASSUME IInv, SlotsInv, [Next]_vars, NEW st \in Stage, idOf'[st] = NoId
  PROVE  reserved'[st] = {}
<1> USE DEF IInv, TypeOK, StageTypes
<1>1. idOf[st] = NoId
  BY StoredOrRemoved, StageAssumption DEF NewStage
<1>2. ASSUME NEW c \in reserved'[st] PROVE FALSE
  <2>1. c \in reserved'[st] \ reserved[st]
    BY <1>1, <1>2 DEF SlotsInv
  <2>2. PICK s \in Session : \/ EnterReserve(s) /\ arg[s].old = st
                             \/ ReserveSlot(s) /\ arg[s].st = st
    BY <2>1, SlotsGiven
  <2> QED
    BY <1>1, <2>2, StageAssumption
       DEF EnterReserve, ReserveSlot, At, PointersAllocated, Allocated
<1> QED
  BY <1>2

\* Only the handler of a session moves it, and it alone.
LEMMA HandlersApart ==
  ASSUME TypeOK, [Next]_vars, NEW s \in Session
  PROVE  Receive(s) \/ Handle(s) \/ (pc'[s] = pc[s] /\ arg'[s] = arg[s])
<1> USE DEF TypeOK, HandlerTypes
<1>1. CASE UNCHANGED vars
  BY <1>1 DEF vars, handlerVars
<1>2. ASSUME NEW t \in Session, t # s, Receive(t) \/ Handle(t)
      PROVE  pc'[s] = pc[s] /\ arg'[s] = arg[s]
  <2>1. \E p, x : GotoWith(t, p, x)
    BY <1>2, Zenon
       DEF Handle, Receive, CreateCheck, CreateStore, Move, Enter, EnterReserve, Back,
           Transfer, TransferLock, Lookup, Join, Discard, LeaveOld, SweepOld,
           SweepHosted, SweepAt, SetStage, Forget, ReleaseOld, Sweep, Failed, Reserve,
           ReserveSlot, ReserveSave, Unreserve, UnreserveSlot, LockStage, Password,
           PasswordStage, UnlockStage, UnlockClear, UnlockForget, UnlockNotify, Goto
  <2> QED
    BY <1>2, <2>1 DEF GotoWith
<1>3. ASSUME NEW t \in Session, StartLogout(t) \/ Logout(t)
      PROVE  UNCHANGED handlerVars
  BY <1>3, Zenon
     DEF Logout, StartLogout, Unregister, Snapshot, LeaveAll, DropSlots, LeaveStage,
         SweepOut, SweepHostedOut, SweepingOut, Panic, Finalize, FinalizeKeep,
         FinalizeStages, Detach
<1>4. ASSUME NEW st \in Stage, GraceEnds(st) PROVE UNCHANGED handlerVars
  BY <1>4 DEF GraceEnds
<1> QED
  BY <1>1, <1>2, <1>3, <1>4 DEF Next, handlerVars

\* A handler that goes to p is at p afterwards.
LEMMA Arrives ==
  ASSUME TypeOK, NEW s \in Session, NEW p, NEW x, GotoWith(s, p, x)
  PROVE  pc'[s] = p /\ (p # "idle" => arg'[s] = x)
BY DEF GotoWith, TypeOK, HandlerTypes

\* An Enter packet is received and handled as one.
LEMMA EntersKnown ==
  ASSUME TypeOK, SlotsInv, [Next]_vars, NEW s \in Session, pc'[s] \in {"enter", "enterReserve"}
  PROVE  arg'[s].kind = "enter"
<1> USE DEF TypeOK
<1> DEFINE Rests == LockedPc \cup (OpenPc \ {"enter", "enterReserve"})
<1>1. CASE pc'[s] = pc[s] /\ arg'[s] = arg[s]
  BY <1>1 DEF SlotsInv
<1>2. CASE Receive(s)
  <2>1. PICK k \in Sends[s], i \in StageId : GotoWith(s, k, [arg[s] EXCEPT !.kind = k, !.id = i])
    BY <1>2, Zenon DEF Receive
  <2>2. k \in Packet
    BY StageAssumption
  <2>3. [arg[s] EXCEPT !.kind = k, !.id = i].kind = k
    BY ArgsOf DEF Args
  <2>4. pc'[s] = k /\ k # "idle" /\ k # "enterReserve"
    BY <2>1, <2>2, Arrives DEF Packet
  <2> HIDE DEF TypeOK
  <2> QED
    BY <2>1, <2>3, <2>4, Arrives, ZenonT(60)
<1>3. CASE Enter(s)
  <2>1. \/ Goto(s, "idle")
        \/ \E p \in {"transfer", "enterReserve"} :
              GotoWith(s, p, [arg[s] EXCEPT !.old = stage[s]]) /\ pc[s] = "enter"
    BY <1>3 DEF Enter, At
  <2> QED
    BY <2>1, Arrives, ArgsOf DEF SlotsInv, Goto, Args
<1>4. CASE Handle(s) /\ ~Enter(s)
  <2>1. ASSUME CreateCheck(s) \/ CreateStore(s) \/ Move(s) \/ EnterReserve(s) \/ Back(s)
               \/ Transfer(s) \/ TransferLock(s) \/ Lookup(s) \/ Join(s) \/ Discard(s)
               \/ LeaveOld(s) \/ SetStage(s) \/ Forget(s) \/ ReleaseOld(s) \/ Failed(s)
        PROVE  \E p \in Rests : \E x : GotoWith(s, p, x)
    BY <2>1, Zenon
       DEF CreateCheck, CreateStore, Move, EnterReserve, Back, Transfer, TransferLock,
           Lookup, Join, Discard, LeaveOld, SetStage, Forget, ReleaseOld, Failed, Goto,
           LockedPc, OpenPc, Packet
  <2>2. ASSUME SweepOld(s) \/ SweepHosted(s) \/ Sweep(s)
        PROVE  \E p \in Rests : \E x : GotoWith(s, p, x)
    BY <2>2, Zenon DEF SweepOld, SweepHosted, Sweep, SweepAt, LockedPc, OpenPc
  <2>3. ASSUME Reserve(s) \/ ReserveSlot(s) \/ ReserveSave(s) \/ Unreserve(s)
               \/ UnreserveSlot(s) \/ LockStage(s) \/ Password(s) \/ PasswordStage(s)
               \/ UnlockStage(s) \/ UnlockClear(s) \/ UnlockForget(s) \/ UnlockNotify(s)
        PROVE  \E p \in Rests : \E x : GotoWith(s, p, x)
    BY <2>3, Zenon
       DEF Reserve, ReserveSlot, ReserveSave, Unreserve, UnreserveSlot, LockStage,
           Password, PasswordStage, UnlockStage, UnlockClear, UnlockForget,
           UnlockNotify, Goto, LockedPc, OpenPc, Packet
  <2>4. PICK p \in Rests : \E x : GotoWith(s, p, x)
    BY <1>4, <2>1, <2>2, <2>3, Zenon DEF Handle
  <2> HIDE DEF TypeOK
  <2> QED
    BY <2>4, Arrives, SMTT(40) DEF LockedPc
<1> QED
  BY <1>1, <1>2, <1>3, <1>4, HandlersApart

\* Where a handler with a slot to take back goes on.
LEMMA HandlerInTransfer ==
  ASSUME NEW s \in Session, Receive(s) \/ Handle(s),
         pc[s] \in {"transfer", "transferLock", "failed"}
  PROVE  Transfer(s) \/ TransferLock(s) \/ Failed(s)
BY Zenon
   DEF Handle, Receive, CreateCheck, CreateStore, Move, Enter, EnterReserve, Back,
       Lookup, Join, Discard, LeaveOld, SweepOld, SweepHosted, SweepAt, SetStage,
       Forget, ReleaseOld, Sweep, Reserve, ReserveSlot, ReserveSave, Unreserve,
       UnreserveSlot, LockStage, Password, PasswordStage, UnlockStage, UnlockClear,
       UnlockForget, UnlockNotify, At, Packet

\* In a closed session an Enter that has reserved takes the slot back: it cannot get
\* past the test of closed.
LEMMA SlotTakenBack ==
  ASSUME IInv, [Next]_vars, NEW s \in Session, NEW st \in Stage, closed[s], TakesBack(s, st)
  PROVE  TakesBack(s, st)' \/ charOf[s] \notin reserved'[st]
<1> USE DEF IInv
<1>1. CASE pc'[s] = pc[s] /\ arg'[s] = arg[s]
  BY <1>1 DEF TakesBack
<1>2. CASE Transfer(s) \/ TransferLock(s)
  <2>1. \E p \in {"transferLock", "failed"} : GotoWith(s, p, arg[s])
    BY <1>2 DEF Transfer, TransferLock, StillOpen, Goto
  <2> QED
    BY <2>1, Arrives DEF TakesBack
<1>3. CASE Failed(s)
  <2>1. reserved' = [reserved EXCEPT ![st] = @ \ {charOf[s]}]
    BY <1>3, StageAssumption DEF Failed, TakesBack
  <2> QED
    BY <2>1 DEF TypeOK, StageTypes
<1> QED
  BY <1>1, <1>2, <1>3, HandlersApart, HandlerInTransfer DEF TakesBack

\* How a logout moves on.
LEMMA LogoutsApart ==
  ASSUME TypeOK, [Next]_vars, NEW s \in Session
  PROVE  \/ lpc'[s] = lpc[s] /\ left'[s] = left[s] /\ keep'[s] = keep[s]
         \/ /\ lpc[s] \notin FinalPc \cup {"gone"} /\ lpc'[s] \notin {"finalizeStages", "detach", "gone"}
            /\ keep'[s] = keep[s]
         \/ Snapshot(s) \/ FinalizeKeep(s) \/ FinalizeStages(s) \/ Detach(s)
<1> USE DEF TypeOK, LogoutTypes
<1>1. CASE UNCHANGED vars
  BY <1>1 DEF vars, logoutVars
<1>2. ASSUME NEW t \in Session, Receive(t) \/ Handle(t)
      PROVE  UNCHANGED logoutVars
  BY <1>2, Zenon
     DEF Handle, Receive, CreateCheck, CreateStore, Move, Enter, EnterReserve, Back,
         Transfer, TransferLock, Lookup, Join, Discard, LeaveOld, SweepOld,
         SweepHosted, SweepAt, SetStage, Forget, ReleaseOld, Sweep, Failed, Reserve,
         ReserveSlot, ReserveSave, Unreserve, UnreserveSlot, LockStage, Password,
         PasswordStage, UnlockStage, UnlockClear, UnlockForget, UnlockNotify
<1>3. ASSUME NEW st \in Stage, GraceEnds(st) PROVE UNCHANGED logoutVars
  BY <1>3 DEF GraceEnds
<1>4. ASSUME NEW t \in Session, t # s, StartLogout(t) \/ Logout(t)
      PROVE  lpc'[s] = lpc[s] /\ left'[s] = left[s] /\ keep'[s] = keep[s]
  <2>1. ASSUME StartLogout(t) \/ Unregister(t) \/ Snapshot(t) \/ LeaveStage(t) \/ Panic(t)
               \/ Finalize(t) \/ FinalizeKeep(t) \/ Detach(t)
        PROVE  lpc'[s] = lpc[s] /\ left'[s] = left[s] /\ keep'[s] = keep[s]
    BY <1>4, <2>1
       DEF StartLogout, Unregister, Snapshot, LeaveStage, Panic, Finalize,
           FinalizeKeep, Detach, LGoto
  <2>2. ASSUME LeaveAll(t) \/ DropSlots(t) \/ SweepOut(t) \/ SweepHostedOut(t) \/ FinalizeStages(t)
        PROVE  lpc'[s] = lpc[s] /\ left'[s] = left[s] /\ keep'[s] = keep[s]
    <3>1. \E p, id, q, next : Visiting(t, p, id, q, next)
      BY <2>2, Zenon
         DEF LeaveAll, DropSlots, SweepOut, SweepHostedOut, SweepingOut, FinalizeStages
    <3> QED
      BY <1>4, <3>1 DEF Visiting, LGoto
  <2> QED
    BY <1>4, <2>1, <2>2, Zenon DEF Logout
<1>5. ASSUME StartLogout(s) \/ Unregister(s) \/ LeaveStage(s) \/ Panic(s) \/ Finalize(s)
      PROVE  /\ lpc[s] \notin FinalPc \cup {"gone"} /\ lpc'[s] \notin {"finalizeStages", "detach", "gone"}
             /\ keep'[s] = keep[s]
  BY <1>5
     DEF StartLogout, Unregister, LeaveStage, Panic, Finalize, LGoto, FinalPc, OncePc
<1>6. ASSUME LeaveAll(s) \/ DropSlots(s) \/ SweepOut(s) \/ SweepHostedOut(s)
      PROVE  /\ lpc[s] \notin FinalPc \cup {"gone"} /\ lpc'[s] \notin {"finalizeStages", "detach", "gone"}
             /\ keep'[s] = keep[s]
  <2>1. \E p \in {"leaveAll", "dropSlots", "sweepOut", "sweepHostedOut"},
           q \in {"dropSlots", "leaveStage", "sweepHostedOut", "finalize"}, id \in StageId :
           \E next : Visiting(s, p, id, q, next)
    BY <1>6 DEF LeaveAll, DropSlots, SweepOut, SweepHostedOut, SweepingOut
  <2> QED
    BY <2>1 DEF Visiting, LGoto, FinalPc
<1> QED
  BY <1>1, <1>2, <1>3, <1>4, <1>5, <1>6 DEF Next, Logout, logoutVars

\* A character that is present once spares no slot for another connection.
LEMMA NothingKept ==
  ASSUME IInv, SlotsInv, NeverTwice, [Next]_vars, NEW s \in Session
  PROVE  keep'[s] = {}
<1> USE DEF IInv, TypeOK, LogoutTypes
<1>1. CASE keep'[s] = keep[s]
  BY <1>1 DEF SlotsInv
<1>2. CASE Snapshot(s) \/ FinalizeKeep(s)
  <2>1. keep'[s] = ReplacementReservations(s) /\ Present(s)
    BY <1>2 DEF Snapshot, FinalizeKeep, Present
  <2>2. ASSUME NEW u \in sessions \ {s}, charOf[u] = charOf[s], reservationStage[u] # NoStage
        PROVE  FALSE
    <3>1. Present(u) /\ u \in Session
      BY <2>2 DEF Present, SessionTypes
    <3> QED
      BY <2>1, <2>2, <3>1 DEF NeverTwice
  <2>3. ReplacementReservations(s) = {}
    BY <2>2 DEF ReplacementReservations
  <2> QED
    BY <2>1, <2>3
<1>3. CASE FinalizeStages(s) \/ Detach(s)
  BY <1>3 DEF FinalizeStages, Visiting, Detach, SlotsInv
<1> QED
  BY <1>1, <1>2, <1>3, LogoutsApart

\* The last Range of a logout drops the slot, for nobody else is present to need it.
LEMMA LastRangeDrops ==
  ASSUME IInv, SlotsInv, NeverTwice, NEW s \in Session, NEW id \in StageId,
         stages[id] # NoStage, FinalizeStage(s, id, stages[id]), lpc[s] = "finalizeStages"
  PROVE  charOf[s] \notin reserved'[stages[id]]
<1> USE DEF IInv, TypeOK, StageTypes
<1> DEFINE st == stages[id]
<1>1. st \in Stage /\ keep[s] = {} /\ Present(s)
  BY DEF SlotsInv, Present
<1>2. ~ReplacementInside(s, st)
  <2> SUFFICES ASSUME NEW t \in clients[st] \ {s}, charOf[t] = charOf[s] PROVE FALSE
    BY DEF ReplacementInside
  <2>1. t \in Session /\ Present(t)
    BY <1>1 DEF Present
  <2> QED
    BY <1>1, <2>1 DEF NeverTwice
<1>3. reserved' = [reserved EXCEPT ![st] = SlotsAfter(s, st)]
  BY DEF FinalizeStage
<1>4. SlotsAfter(s, st) = reserved[st] \ {charOf[s]}
  BY <1>1, <1>2 DEF SlotsAfter, SlotInUse
<1> QED
  BY <1>1, <1>3, <1>4

\* Whoever owes something about a slot goes on owing it until the slot is gone.
LEMMA StillOwed ==
  ASSUME IInv, SlotsInv, NeverTwice, [Next]_vars, NEW s \in Session, NEW id \in StageId,
         stages[id] # NoStage, stages'[id] = stages[id], Owes(s, id),
         charOf[s] \in reserved'[stages[id]]
  PROVE  Owes(s, id)'
<1> USE DEF IInv, TypeOK
<1>1. CASE TakesBack(s, stages[id]) /\ lpc[s] \in {"finalizeStages", "detach", "gone"}
  <2>1. closed[s] /\ stages[id] \in Stage
    BY <1>1 DEF LogoutProgress, StageTypes
  <2>2. TakesBack(s, stages[id])'
    BY <1>1, <2>1, SlotTakenBack DEF TakesBack
  <2> QED
    BY <2>2 DEF Owes, TakesBack
<1>2. CASE lpc[s] \notin {"finalizeStages", "detach", "gone"}
  <2>1. CASE lpc'[s] = lpc[s]
    BY <1>2, <2>1 DEF Owes
  <2>2. CASE lpc'[s] \notin {"finalizeStages", "detach", "gone"}
    BY <2>2 DEF Owes
  <2>3. CASE Snapshot(s) \/ FinalizeKeep(s)
    BY <2>3 DEF Snapshot, FinalizeKeep, LGoto, LogoutTypes, Owes
  <2>4. ~FinalizeStages(s) /\ ~Detach(s)
    BY <1>2 DEF FinalizeStages, Visiting, Detach
  <2> QED
    BY <2>1, <2>2, <2>3, <2>4, LogoutsApart
<1>3. CASE lpc[s] = "finalizeStages" /\ id \in left[s]
  <2>1. CASE lpc'[s] = lpc[s] /\ left'[s] = left[s]
    BY <1>3, <2>1 DEF Owes
  <2>2. CASE FinalizeStages(s)
    <3>1. PICK i \in StageId :
            /\ Visiting(s, "finalizeStages", i, "detach", {})
            /\ stages[i] = NoStage \/ FinalizeStage(s, i, stages[i])
      BY <2>2 DEF FinalizeStages
    <3>2. i # id
      BY <1>3, <3>1, LastRangeDrops
    <3>3. lpc'[s] = "finalizeStages" /\ id \in left'[s]
      BY <1>3, <3>1, <3>2 DEF Visiting, LogoutTypes
    <3> QED
      BY <3>3 DEF Owes
  <2> QED
    BY <1>3, <2>1, <2>2, LogoutsApart DEF FinalPc, Snapshot, FinalizeKeep, Detach
<1> QED
  BY <1>1, <1>2, <1>3 DEF Owes

\* Whoever gets a slot owes something about it.
LEMMA OwedFromTheStart ==
  ASSUME IInv, SlotsInv, [Next]_vars, NEW s \in Session, NEW id \in StageId,
         stages'[id] = stages[id], stages[id] # NoStage,
         \/ EnterReserve(s) /\ arg[s].old = stages[id]
         \/ ReserveSlot(s)
  PROVE  Owes(s, id)'
<1> USE DEF IInv, TypeOK
<1>1. CASE EnterReserve(s) /\ arg[s].old = stages[id]
  <2>1. GotoWith(s, "transfer", arg[s]) /\ arg[s].kind = "enter"
    BY <1>1 DEF EnterReserve, Goto, At, SlotsInv
  <2>2. pc'[s] = "transfer" /\ arg'[s] = arg[s]
    BY <2>1, Arrives
  <2> QED
    BY <1>1, <2>1, <2>2 DEF Owes, TakesBack
<1>2. CASE ReserveSlot(s)
  <2>1. lpc[s] \notin FinalPc \cup {"gone"} /\ lpc' = lpc
    BY <1>2 DEF ReserveSlot, At, LifecycleHeld, LogoutProgress, LockedPc, logoutVars,
       FinalPc
  <2> QED
    BY <2>1 DEF Owes, FinalPc
<1> QED
  BY <1>1, <1>2

\* Every step keeps SlotsInv while nobody is present twice.
LEMMA SlotsInvInv ==
  ASSUME IInv, SlotsInv, NeverTwice, [Next]_vars
  PROVE  SlotsInv'
<1> USE DEF IInv, TypeOK, StageTypes
<1>1. \A st \in Stage : idOf'[st] = NoId => reserved'[st] = {}
  BY NewStagesEmpty
<1>2. \A s \in Session : pc'[s] \in {"enter", "enterReserve"} => arg'[s].kind = "enter"
  BY EntersKnown
<1>3. \A s \in Session : keep'[s] = {}
  BY NothingKept
<1>4. ASSUME NEW id \in StageId, stages'[id] # NoStage, NEW c \in reserved'[stages'[id]]
      PROVE  \E s \in Session : charOf[s] = c /\ Owes(s, id)'
  <2>1. CASE \E st \in Stage : \E h, max : stages[id] = NoStage /\ NewStage(st, id, h, max)
    <3>1. PICK st \in Stage : idOf[st] = NoId /\ stages'[id] = st /\ reserved' = reserved
      BY <2>1 DEF NewStage
    <3> QED
      BY <1>4, <3>1 DEF SlotsInv
  <2>2. CASE stages'[id] = stages[id]
    <3> DEFINE st == stages[id]
    <3>1. st \in Stage
      BY <1>4, <2>2
    <3>2. CASE c \in reserved[st]
      <4>1. PICK s \in Session : charOf[s] = c /\ Owes(s, id)
        BY <1>4, <2>2, <3>2 DEF SlotsInv
      <4> QED
        BY <1>4, <2>2, <4>1, StillOwed
    <3>3. CASE c \notin reserved[st]
      <4>1. PICK s \in Session :
              charOf[s] = c /\ ((EnterReserve(s) /\ arg[s].old = st) \/ ReserveSlot(s))
        BY <1>4, <2>2, <3>1, <3>3, SlotsGiven
      <4> QED
        BY <1>4, <2>2, <4>1, OwedFromTheStart
    <3> QED
      BY <3>2, <3>3
  <2>3. \/ \E st \in Stage : \E h, max : stages[id] = NoStage /\ NewStage(st, id, h, max)
        \/ stages'[id] \in {stages[id], NoStage}
    BY StoredOrRemoved DEF NewStage
  <2> QED
    BY <1>4, <2>1, <2>2, <2>3
<1> HIDE DEF IInv, TypeOK, StageTypes
<1> QED
  BY <1>1, <1>2, <1>3, <1>4 DEF SlotsInv

\* As long as no two connections of a character are present at once, every slot is
\* owed by a connection of its character: one whose logout has still to visit the stage,
\* or one whose entry has reserved it, will fail and takes it back.
THEOREM SlotsInvariance == Spec /\ []NeverTwice => []SlotsInv
<1>1. Init => IInv /\ SlotsInv
  <2>1. Init => SlotsInv
    BY StageAssumption DEF Init, SlotsInv
  <2> QED
    BY <2>1, InitIInv
<1>2. IInv /\ SlotsInv /\ NeverTwice /\ [Next]_vars => (IInv /\ SlotsInv)'
  BY NextIInv, SlotsInvInv
<1> QED
  BY <1>1, <1>2, PTL DEF Spec

\* Then, whatever they reserve, spend and give back, and however handlers, refusals and
\* the phases of a logout interleave, no slot outlives the last connection of its
\* character.  Two connections at once may break it (handlers_session.go:409).
THEOREM SlotsGivenBack == Spec /\ []NeverTwice => []SlotsReleased
<1>1. SlotsInv => SlotsReleased
  BY DEF SlotsInv, SlotsReleased, Owes, TakesBack
<1> QED
  BY <1>1, SlotsInvariance, PTL
=============================================================================
