---------------------------- MODULE Services_proofs ----------------------------
(* Proofs about the goroutines of a channel that nobody calls: the accept    *)
(* loop with its drain (ServerDrain) and the workers of a session            *)
(* (SessionWorkers), for any number of connections, any size of the queue    *)
(* and any notices.                                                          *)
(*                                                                           *)
(* CompleteDrainSaved is a fact about the last poll only: an empty map means *)
(* that nobody is before the save (MapCountsEverybody), whoever is past it   *)
(* has tried (SaveTried), and nobody of the snapshot is still unregistered   *)
(* (SnapshotOfSessions).                                                     *)
(*                                                                           *)
(* That a notice is consumed after its socket write rests on                 *)
(* AnswersAreForTheNotice: packets of earlier attempts may still be queued   *)
(* or written, but their attempt is over, so that their answer is not the    *)
(* one the worker waits for.                                                 *)
EXTENDS ServerDrain, SessionWorkers, WellFoundedInduction, TLAPS

-----------------------------------------------------------------------------
(* The drain.                                                                *)

\* Before the first connection nothing is in the map.
LEMMA InitIInv == Init => IInv
  BY DrainAssumption, Zenon
     DEF Init, IInv, TypeOK, MapCountsEverybody, OnItsWay, SaveTried,
         SnapshotOfSessions, CompleteDrainSaved, Life, MainPc

\* Every step keeps the types of the goroutines' locals and the sessions.
LEMMA TypesInv ==
  ASSUME TypeOK, OnItsWay, [Next]_vars
  PROVE  TypeOK'
<1> USE DrainAssumption DEF TypeOK, OnItsWay, Life, MainPc
<1>1. CASE UNCHANGED vars
  BY <1>1 DEF vars, server, accepting, managing, players, shutdown
<1>2. CASE AcceptFails
  BY <1>2 DEF AcceptFails, server, managing, players, shutdown
<1>3. CASE Deliver
  BY <1>3 DEF Deliver, server, players, shutdown
<1>4. CASE AcceptDone
  BY <1>4 DEF AcceptDone, server, managing, players, shutdown
<1>5. CASE ManageDone
  BY <1>5 DEF ManageDone, server, accepting, players, shutdown
<1>6. CASE Register
  BY <1>6 DEF Register, server, accepting, shutdown
<1>7. CASE Start
  BY <1>7 DEF Start, server, accepting, shutdown
<1>8. CASE IdlePass
  BY <1>8 DEF IdlePass, server, accepting, managing, players, shutdown
<1>9. ASSUME NEW c \in Conn, Accept(c) PROVE TypeOK'
  BY <1>9 DEF Accept, server, managing, players, shutdown
<1>10. ASSUME NEW c \in Conn, Leave(c) PROVE TypeOK'
  BY <1>10 DEF Leave, StartLogout, server, accepting, managing, shutdown
<1>11. ASSUME NEW c \in Conn, ReadEOF(c) PROVE TypeOK'
  BY <1>11 DEF ReadEOF, StartLogout, server, accepting, managing, shutdown
<1>12. ASSUME NEW c \in Conn, IdleLogout(c) PROVE TypeOK'
  BY <1>12
     DEF IdleLogout, StartLogout, server, accepting, managing, shutdown,
         Online, players
<1>13. ASSUME NEW c \in Conn, Save(c) PROVE TypeOK'
  BY <1>13 DEF Save, server, accepting, managing, shutdown
<1>14. ASSUME NEW c \in Conn, Unregister(c) PROVE TypeOK'
  BY <1>14 DEF Unregister, server, accepting, managing, shutdown
<1>15. ASSUME NEW c \in Conn, Finalize(c) PROVE TypeOK'
  BY <1>15 DEF Finalize, server, accepting, managing, shutdown
<1>16. CASE Shutdown
  BY <1>16 DEF Shutdown, server, accepting, managing, players
<1>17. CASE CloseListener
  BY <1>17, Zenon DEF CloseListener, server, accepting, managing, players
<1>18. CASE PassiveEnds
  BY <1>18 DEF PassiveEnds, server, accepting, managing, players
<1>19. CASE ShutdownAgain
  BY <1>19 DEF ShutdownAgain, server, accepting, managing, players
<1>20. CASE Snapshot
  BY <1>20 DEF Snapshot, server, accepting, managing, players
<1>21. CASE HangUp
  BY <1>21 DEF HangUp, server, accepting, managing, players
<1>22. CASE Poll
  BY <1>22 DEF Poll, server, accepting, managing, players
<1> QED
  BY <1>1, <1>2, <1>3, <1>4, <1>5, <1>6, <1>7, <1>8, <1>9, <1>10, <1>11,
     <1>12, <1>13, <1>14, <1>15, <1>16, <1>17, <1>18, <1>19, <1>20, <1>21,
     <1>22
     DEF Next, AcceptClients, ManageSessions, Logout, Drain

\* Every step keeps the map exact: registration adds a session before it starts,
\* and only a logout past its save takes one out.
LEMMA MapInv ==
  ASSUME TypeOK, OnItsWay, MapCountsEverybody, [Next]_vars
  PROVE  MapCountsEverybody'
<1> USE DrainAssumption DEF TypeOK, OnItsWay, MapCountsEverybody, Life
<1>1. CASE UNCHANGED vars
  BY <1>1 DEF vars, server, accepting, managing, players, shutdown
<1>2. CASE AcceptFails \/ Deliver \/ AcceptDone \/ ManageDone \/ IdlePass
           \/ (\E c \in Conn : Accept(c)) \/ Shutdown \/ CloseListener
           \/ PassiveEnds \/ ShutdownAgain \/ Snapshot \/ HangUp \/ Poll
  BY <1>2
     DEF AcceptFails, Deliver, AcceptDone, ManageDone, IdlePass, Accept,
         Shutdown, CloseListener, PassiveEnds, ShutdownAgain, Snapshot,
         HangUp, Poll, server, managing, players, shutdown, accepting
<1>3. CASE Register
  BY <1>3 DEF Register, server, accepting, shutdown
<1>4. CASE Start
  BY <1>4 DEF Start, server, accepting, shutdown
<1>5. ASSUME NEW c \in Conn, Leave(c) PROVE MapCountsEverybody'
  BY <1>5 DEF Leave, StartLogout, server, accepting, managing, shutdown
<1>6. ASSUME NEW c \in Conn, ReadEOF(c) PROVE MapCountsEverybody'
  BY <1>6 DEF ReadEOF, StartLogout, server, accepting, managing, shutdown
<1>7. ASSUME NEW c \in Conn, IdleLogout(c) PROVE MapCountsEverybody'
  BY <1>7
     DEF IdleLogout, StartLogout, server, accepting, managing, shutdown,
         Online, players
<1>8. ASSUME NEW c \in Conn, Save(c) PROVE MapCountsEverybody'
  BY <1>8 DEF Save, server, accepting, managing, shutdown
<1>9. ASSUME NEW c \in Conn, Unregister(c) PROVE MapCountsEverybody'
  BY <1>9 DEF Unregister, server, accepting, managing, shutdown
<1>10. ASSUME NEW c \in Conn, Finalize(c) PROVE MapCountsEverybody'
  BY <1>10 DEF Finalize, server, accepting, managing, shutdown
<1> QED
  BY <1>1, <1>2, <1>3, <1>4, <1>5, <1>6, <1>7, <1>8, <1>9, <1>10
     DEF Next, AcceptClients, ManageSessions, Logout, Drain

\* Every step keeps a connection between the goroutines out of other hands.
LEMMA OnItsWayInv ==
  ASSUME TypeOK, OnItsWay, [Next]_vars
  PROVE  OnItsWay'
<1> USE DrainAssumption DEF TypeOK, OnItsWay, Life
<1>1. CASE UNCHANGED vars
  BY <1>1 DEF vars, server, accepting, managing, players, shutdown
<1>2. CASE IdlePass \/ Shutdown \/ CloseListener \/ PassiveEnds
           \/ ShutdownAgain \/ Snapshot \/ HangUp \/ Poll
  BY <1>2
     DEF IdlePass, Shutdown, CloseListener, PassiveEnds, ShutdownAgain,
         Snapshot, HangUp, Poll, server, accepting, managing, players,
         shutdown
<1>3. CASE AcceptFails
  BY <1>3 DEF AcceptFails, server, managing, players, shutdown
<1>4. CASE Deliver
  BY <1>4 DEF Deliver, server, players, shutdown
<1>5. CASE AcceptDone
  BY <1>5 DEF AcceptDone, server, managing, players, shutdown
<1>6. CASE ManageDone
  BY <1>6 DEF ManageDone, server, accepting, players, shutdown
<1>7. CASE Register
  BY <1>7 DEF Register, server, accepting, shutdown
<1>8. CASE Start
  BY <1>8 DEF Start, server, accepting, shutdown
<1>9. ASSUME NEW c \in Conn, Accept(c) PROVE OnItsWay'
  BY <1>9 DEF Accept, server, managing, players, shutdown
<1>10. ASSUME NEW c \in Conn, Leave(c) PROVE OnItsWay'
  BY <1>10 DEF Leave, StartLogout, server, accepting, managing, shutdown
<1>11. ASSUME NEW c \in Conn, ReadEOF(c) PROVE OnItsWay'
  BY <1>11 DEF ReadEOF, StartLogout, server, accepting, managing, shutdown
<1>12. ASSUME NEW c \in Conn, IdleLogout(c) PROVE OnItsWay'
  BY <1>12
     DEF IdleLogout, StartLogout, server, accepting, managing, shutdown,
         Online, players
<1>13. ASSUME NEW c \in Conn, Save(c) PROVE OnItsWay'
  BY <1>13 DEF Save, server, accepting, managing, shutdown
<1>14. ASSUME NEW c \in Conn, Unregister(c) PROVE OnItsWay'
  BY <1>14 DEF Unregister, server, accepting, managing, shutdown
<1>15. ASSUME NEW c \in Conn, Finalize(c) PROVE OnItsWay'
  BY <1>15 DEF Finalize, server, accepting, managing, shutdown
<1> QED
  BY <1>1, <1>2, <1>3, <1>4, <1>5, <1>6, <1>7, <1>8, <1>9, <1>10, <1>11,
     <1>12, <1>13, <1>14, <1>15
     DEF Next, AcceptClients, ManageSessions, Logout, Drain

\* Every step keeps it so that nobody leaves the map without a save or a panic.
LEMMA SaveTriedInv ==
  ASSUME TypeOK, OnItsWay, SaveTried, [Next]_vars
  PROVE  SaveTried'
<1> USE DrainAssumption DEF TypeOK, OnItsWay, SaveTried, Life
<1>1. CASE UNCHANGED vars
  BY <1>1 DEF vars, server, accepting, managing, players, shutdown
<1>2. CASE AcceptFails \/ Deliver \/ AcceptDone \/ ManageDone \/ IdlePass
           \/ (\E c \in Conn : Accept(c)) \/ Shutdown \/ CloseListener
           \/ PassiveEnds \/ ShutdownAgain \/ Snapshot \/ HangUp \/ Poll
  BY <1>2
     DEF AcceptFails, Deliver, AcceptDone, ManageDone, IdlePass, Accept,
         Shutdown, CloseListener, PassiveEnds, ShutdownAgain, Snapshot,
         HangUp, Poll, server, managing, players, shutdown, accepting
<1>3. CASE Register
  BY <1>3 DEF Register, server, accepting, shutdown
<1>4. CASE Start
  BY <1>4 DEF Start, server, accepting, shutdown
<1>5. ASSUME NEW c \in Conn, Leave(c) PROVE SaveTried'
  BY <1>5 DEF Leave, StartLogout, server, accepting, managing, shutdown
<1>6. ASSUME NEW c \in Conn, ReadEOF(c) PROVE SaveTried'
  BY <1>6 DEF ReadEOF, StartLogout, server, accepting, managing, shutdown
<1>7. ASSUME NEW c \in Conn, IdleLogout(c) PROVE SaveTried'
  BY <1>7
     DEF IdleLogout, StartLogout, server, accepting, managing, shutdown,
         Online, players
<1>8. ASSUME NEW c \in Conn, Save(c) PROVE SaveTried'
  BY <1>8 DEF Save, server, accepting, managing, shutdown
<1>9. ASSUME NEW c \in Conn, Unregister(c) PROVE SaveTried'
  BY <1>9 DEF Unregister, server, accepting, managing, shutdown
<1>10. ASSUME NEW c \in Conn, Finalize(c) PROVE SaveTried'
  BY <1>10 DEF Finalize, server, accepting, managing, shutdown
<1> QED
  BY <1>1, <1>2, <1>3, <1>4, <1>5, <1>6, <1>7, <1>8, <1>9, <1>10
     DEF Next, AcceptClients, ManageSessions, Logout, Drain

\* Every step keeps bare connections out of the snapshot.
LEMMA SnapshotInv ==
  ASSUME TypeOK, OnItsWay, MapCountsEverybody, SnapshotOfSessions, [Next]_vars
  PROVE  SnapshotOfSessions'
<1> USE DrainAssumption DEF TypeOK, OnItsWay, MapCountsEverybody,
        SnapshotOfSessions, Life
<1>1. CASE UNCHANGED vars
  BY <1>1 DEF vars, server, accepting, managing, players, shutdown
<1>2. CASE AcceptFails \/ Deliver \/ AcceptDone \/ ManageDone \/ IdlePass
           \/ (\E c \in Conn : Accept(c)) \/ Shutdown \/ CloseListener
           \/ PassiveEnds \/ ShutdownAgain \/ HangUp \/ Poll
  BY <1>2
     DEF AcceptFails, Deliver, AcceptDone, ManageDone, IdlePass, Accept,
         Shutdown, CloseListener, PassiveEnds, ShutdownAgain, HangUp, Poll,
         server, managing, players, shutdown, accepting
<1>3. CASE Register
  BY <1>3 DEF Register, server, accepting, shutdown
<1>4. CASE Start
  BY <1>4 DEF Start, server, accepting, shutdown
<1>5. ASSUME NEW c \in Conn, Leave(c) PROVE SnapshotOfSessions'
  BY <1>5 DEF Leave, StartLogout, server, accepting, managing, shutdown
<1>6. ASSUME NEW c \in Conn, ReadEOF(c) PROVE SnapshotOfSessions'
  BY <1>6 DEF ReadEOF, StartLogout, server, accepting, managing, shutdown
<1>7. ASSUME NEW c \in Conn, IdleLogout(c) PROVE SnapshotOfSessions'
  BY <1>7
     DEF IdleLogout, StartLogout, server, accepting, managing, shutdown,
         Online, players
<1>8. ASSUME NEW c \in Conn, Save(c) PROVE SnapshotOfSessions'
  BY <1>8 DEF Save, server, accepting, managing, shutdown
<1>9. ASSUME NEW c \in Conn, Unregister(c) PROVE SnapshotOfSessions'
  BY <1>9 DEF Unregister, server, accepting, managing, shutdown
<1>10. ASSUME NEW c \in Conn, Finalize(c) PROVE SnapshotOfSessions'
  BY <1>10 DEF Finalize, server, accepting, managing, shutdown
<1>11. CASE Snapshot
  BY <1>11 DEF Snapshot, server, accepting, managing, players
<1> QED
  BY <1>1, <1>2, <1>3, <1>4, <1>5, <1>6, <1>7, <1>8, <1>9, <1>10, <1>11
     DEF Next, AcceptClients, ManageSessions, Logout, Drain

\* Every step keeps a completed drain's snapshot saved.
LEMMA CompleteInv ==
  ASSUME IInv, [Next]_vars
  PROVE  CompleteDrainSaved'
<1> USE DrainAssumption DEF IInv, TypeOK, MapCountsEverybody, SaveTried,
        SnapshotOfSessions, CompleteDrainSaved, Life, MainPc
<1>1. CASE UNCHANGED vars
  BY <1>1 DEF vars, server, accepting, managing, players, shutdown
<1>2. CASE AcceptFails \/ Deliver \/ AcceptDone \/ ManageDone \/ Register
           \/ Start \/ IdlePass \/ (\E c \in Conn : Accept(c))
           \/ (\E c \in Conn : Leave(c)) \/ (\E c \in Conn : ReadEOF(c))
           \/ (\E c \in Conn : IdleLogout(c))
           \/ (\E c \in Conn : Unregister(c))
           \/ (\E c \in Conn : Finalize(c))
  BY <1>2
     DEF AcceptFails, Deliver, AcceptDone, ManageDone, Register, Start,
         IdlePass, Accept, Leave, ReadEOF, IdleLogout, Unregister, Finalize,
         server, managing, players, shutdown, accepting, StartLogout, Online
<1>3. ASSUME NEW c \in Conn, Save(c) PROVE CompleteDrainSaved'
  BY <1>3 DEF Save, server, accepting, managing, shutdown
<1>4. CASE Shutdown
  BY <1>4 DEF Shutdown, server, accepting, managing, players
<1>5. CASE CloseListener
  BY <1>5 DEF CloseListener, server, accepting, managing, players
<1>6. CASE PassiveEnds
  BY <1>6 DEF PassiveEnds, server, accepting, managing, players
<1>7. CASE ShutdownAgain
  BY <1>7 DEF ShutdownAgain, server, accepting, managing, players
<1>8. CASE Snapshot
  BY <1>8 DEF Snapshot, server, accepting, managing, players
<1>9. CASE HangUp
  BY <1>9 DEF HangUp, server, accepting, managing, players
<1>10. CASE Poll
  BY <1>10 DEF Poll, server, accepting, managing, players
<1> QED
  BY <1>1, <1>2, <1>3, <1>4, <1>5, <1>6, <1>7, <1>8, <1>9, <1>10
     DEF Next, AcceptClients, ManageSessions, Logout, Drain

\* IInv holds in every state of every execution of the channel server.
THEOREM Invariance == Spec => []IInv
<1>1. Init => IInv
  BY InitIInv
<1>2. IInv /\ [Next]_vars => IInv'
  <2> SUFFICES ASSUME IInv, [Next]_vars PROVE IInv'
    OBVIOUS
  <2> QED
    BY TypesInv, MapInv, OnItsWayInv, SaveTriedInv, SnapshotInv, CompleteInv
       DEF IInv
<1> QED
  BY <1>1, <1>2, PTL DEF Spec

\* However its logout ends, a session is in the map exactly as long as it has
\* still to save or to unregister, so a drain that polls the map waits for all.
THEOREM MapExact == Spec => []MapCountsEverybody
<1>1. IInv => MapCountsEverybody
  BY DEF IInv
<1> QED
  BY <1>1, Invariance, PTL

\* A drain that reports completion has the save of every session of its
\* snapshot behind it, whichever goroutine ran the logout.
THEOREM DrainSaves == Spec => []CompleteDrainSaved
<1>1. IInv => CompleteDrainSaved
  BY DEF IInv
<1> QED
  BY <1>1, Invariance, PTL

\* Every step keeps the door closed, if the drain did not complete past somebody
\* standing in it.
LEMMA DoorStep ==
  ASSUME TypeOK, DoorClosed, [Next]_vars,
         [main # "complete" /\ main' = "complete"
            => accept # "deliver" /\ manage # "register"]_vars
  PROVE  DoorClosed'
<1> USE DEF TypeOK, DoorClosed
<1>1. CASE UNCHANGED vars
  BY <1>1, Zenon DEF vars, server, accepting, managing, shutdown
<1>2. CASE ManageSessions \/ AcceptFails \/ Deliver \/ AcceptDone
           \/ (\E c \in Conn : Accept(c))
  BY <1>2
     DEF ManageSessions, ManageDone, Register, Start, AcceptFails, Deliver,
         AcceptDone, Accept, server, accepting, managing, shutdown
<1>3. ASSUME IdlePass \/ (\E c \in Conn : Leave(c) \/ IdleLogout(c) \/ Logout(c))
      PROVE  UNCHANGED <<server, accepting, managing, shutdown>>
  BY <1>3
     DEF IdlePass, Leave, IdleLogout, Logout, ReadEOF, StartLogout, Save,
         Unregister, Finalize
<1>4. CASE UNCHANGED <<server, accepting, managing, shutdown>>
  BY <1>4 DEF server, accepting, managing, shutdown
<1>5. CASE Shutdown \/ Drain
  <2>1. accept' = accept /\ manage' = manage
    BY <1>5
       DEF Shutdown, Drain, CloseListener, PassiveEnds, ShutdownAgain,
           Snapshot, HangUp, Poll, accepting, managing
  <2>2. main' \notin {"serving", "closeListener"} => ~listening'
    BY <1>5
       DEF Shutdown, Drain, CloseListener, PassiveEnds, ShutdownAgain,
           Snapshot, HangUp, Poll, server
  <2>3. ~UNCHANGED vars => (main # "complete" /\ main' = "complete"
                              => accept # "deliver" /\ manage # "register")
    BY Zenon
  <2> QED
    BY <1>1, <2>1, <2>2, <2>3
<1> QED
  BY <1>1, <1>2, <1>3, <1>4, <1>5 DEF Next, AcceptClients

\* An empty map behind a closed door stays empty: only Register adds to it.
LEMMA EmptyStep ==
  ASSUME DoorClosed, DrainedStaysEmpty, [Next]_vars
  PROVE  DrainedStaysEmpty'
<1> USE DEF DoorClosed, DrainedStaysEmpty
<1>1. CASE UNCHANGED vars
  BY <1>1, Zenon DEF vars, shutdown
<1>2. CASE Register
  BY <1>2 DEF Register, shutdown
<1>3. CASE \E c \in Conn : Unregister(c)
  BY <1>3 DEF Unregister, shutdown
<1>4. ASSUME \/ AcceptClients \/ ManageDone \/ Start \/ IdlePass
             \/ \E c \in Conn : \/ Leave(c) \/ IdleLogout(c) \/ ReadEOF(c)
                                \/ Save(c) \/ Finalize(c)
      PROVE  UNCHANGED <<sessions, main>>
  BY <1>4
     DEF AcceptClients, Accept, AcceptFails, Deliver, AcceptDone, ManageDone,
         Start, IdlePass, Leave, IdleLogout, ReadEOF, StartLogout, Save,
         Finalize, shutdown
<1>5. CASE Shutdown \/ Drain
  BY <1>5
     DEF Shutdown, Drain, CloseListener, PassiveEnds, ShutdownAgain, Snapshot,
         HangUp, Poll
<1> QED
  BY <1>1, <1>2, <1>3, <1>4, <1>5 DEF Next, ManageSessions, Logout

\* The drain's promise fails in one way only: the map is found empty while a
\* connection is between acceptClients and the map.  Without that step the map of
\* an accomplished drain stays empty, and every session there ever was has saved
\* or panicked.
THEOREM OnlyTheLateOutlive ==
  Spec /\ NobodyAtTheDoor => [](DrainedStaysEmpty /\ EverybodySaved)
<1>1. Init => DoorClosed /\ DrainedStaysEmpty
  BY DEF Init, DoorClosed, DrainedStaysEmpty
<1>2. /\ IInv /\ DoorClosed /\ DrainedStaysEmpty /\ [Next]_vars
      /\ [main # "complete" /\ main' = "complete"
            => accept # "deliver" /\ manage # "register"]_vars
      => DoorClosed' /\ DrainedStaysEmpty'
  BY DoorStep, EmptyStep DEF IInv
<1>3. IInv /\ DrainedStaysEmpty => EverybodySaved
  BY DEF IInv, TypeOK, Life, MapCountsEverybody, SaveTried, DrainedStaysEmpty,
         EverybodySaved
<1> QED
  BY <1>1, <1>2, <1>3, Invariance, PTL DEF Spec, NobodyAtTheDoor

-----------------------------------------------------------------------------
(* The workers of a session.                                                 *)

USE WorkersAssumption
USE DEF Worker, SendPc, RecvPc, AtHand, WorkerPc, LogoutPc

\* A worker that has something to announce has an oldest notice.
LEMMA OldestExists ==
    ASSUME unannounced \subseteq Receipt, unannounced # {}
    PROVE  Oldest \in unannounced /\ \A k \in unannounced : Oldest <= k
<1>1. unannounced \subseteq Nat
  BY Zenon
<1>2. PICK n \in unannounced : \A k \in unannounced : ~(<<k, n>> \in OpToRel(<, Nat))
  BY <1>1, NatLessThanWellFounded, WFMin, Zenon
<1>3. ASSUME NEW k \in unannounced PROVE ~(k < n)
  <2>1. <<k, n>> \in Nat \X Nat /\ <<k, n>>[1] = k /\ <<k, n>>[2] = n
    BY <1>1
  <2>2. k < n => <<k, n>> \in {ss \in Nat \X Nat : ss[1] < ss[2]}
    BY <2>1, Zenon
  <2> QED
    BY <1>2, <2>2 DEF OpToRel
<1>4. \A k \in unannounced : n <= k
  BY <1>1, <1>3
<1> QED
  BY <1>4, Zenon DEF Oldest

\* A new packet is behind the others, the others move up when the first is taken.
LEMMA AppendKeepsOrder ==
    ASSUME NEW q \in Seq(QueuedPacket), NEW p \in QueuedPacket
    PROVE  /\ Append(q, p) \in Seq(QueuedPacket)
           /\ Len(Append(q, p)) = Len(q) + 1
           /\ \A i \in 1 .. Len(q) + 1 :
                 Append(q, p)[i] = IF i = Len(q) + 1 THEN p ELSE q[i]
  OBVIOUS

LEMMA Dequeued ==
    ASSUME NEW q \in Seq(QueuedPacket), q # <<>>
    PROVE  /\ Tail(q) \in Seq(QueuedPacket) /\ Head(q) \in QueuedPacket
           /\ Len(q) > 0 /\ Len(Tail(q)) = Len(q) - 1 /\ Head(q) = q[1]
           /\ \A i \in 1 .. Len(q) - 1 : Tail(q)[i] = q[i + 1] /\ i + 1 \in 1 .. Len(q)
  OBVIOUS

LEMMA ChatIsPacket == Chat \in QueuedPacket /\ Chat.try = 0
  BY DEF Chat, QueuedPacket

\* A session starts open, with nothing queued.
LEMMA InitGoroutines == WorkInit => GoroutinesInv
<1> SUFFICES ASSUME WorkInit PROVE GoroutinesInv
  OBVIOUS
<1>1. WorkTypeOK
  <2>1. sendPackets \in Seq(QueuedPacket) /\ Len(sendPackets) <= QueueSize
    BY DEF WorkInit
  <2>2. sendLoop \in [at : SendPc, held : QueuedPacket]
    BY ChatIsPacket DEF WorkInit
  <2>3. worker \in [Worker -> WorkerPc]
    BY DEF WorkInit
  <2> QED
    BY <2>1, <2>2, <2>3, Zenon DEF WorkInit, WorkTypeOK
<1>2. ConsumedWereWritten
  BY DEF WorkInit, ConsumedWereWritten
<1>3. AnswersAreForTheNotice
  BY ChatIsPacket DEF WorkInit, AnswersAreForTheNotice, Announces
<1>4. QuietAtSave /\ WaitedInTurn
  BY DEF WorkInit, QuietAtSave, WaitedInTurn
<1> QED
  BY <1>1, <1>2, <1>3, <1>4 DEF GoroutinesInv

\* What a step that only moves loops, flags or the logout has to respect.
LEMMA NoticesUntouched ==
    ASSUME GoroutinesInv, UNCHANGED <<sendPackets, noticeVars, written>>,
           sendLoop'.held = sendLoop.held,
           worker'["notices"] \in AtHand => worker'["notices"] = worker["notices"]
    PROVE  ConsumedWereWritten' /\ AnswersAreForTheNotice'
<1>1. ConsumedWereWritten'
  BY DEF GoroutinesInv, ConsumedWereWritten, noticeVars
<1>2. AnswersAreForTheNotice'
  BY DEF GoroutinesInv, AnswersAreForTheNotice, Announces, Oldest, noticeVars
<1> QED
  BY <1>1, <1>2

\* A chat packet joins the queue.
LEMMA ChatQueued ==
    ASSUME GoroutinesInv, sendPackets' = Append(sendPackets, Chat), HasRoom,
           UNCHANGED <<sendLoop, noticeVars, written>>,
           worker'["notices"] = worker["notices"]
    PROVE  /\ sendPackets' \in Seq(QueuedPacket) /\ Len(sendPackets') <= QueueSize
           /\ ConsumedWereWritten' /\ AnswersAreForTheNotice'
<1>1. sendPackets \in Seq(QueuedPacket) /\ Len(sendPackets) < QueueSize
      /\ Len(sendPackets) \in Nat /\ QueueSize \in Nat /\ try \in Nat
  BY DEF GoroutinesInv, WorkTypeOK, HasRoom
<1>2. sendPackets' \in Seq(QueuedPacket) /\ Len(sendPackets') = Len(sendPackets) + 1
      /\ \A i \in 1 .. Len(sendPackets) + 1 :
            sendPackets'[i] = IF i = Len(sendPackets) + 1 THEN Chat ELSE sendPackets[i]
  BY <1>1, AppendKeepsOrder, ChatIsPacket
<1>3. ConsumedWereWritten'
  BY DEF GoroutinesInv, ConsumedWereWritten, noticeVars
<1>4. AnswersAreForTheNotice'
  <2>1. \A i \in 1 .. Len(sendPackets) : Announces(sendPackets[i])'
    BY <1>1, <1>2 DEF GoroutinesInv, AnswersAreForTheNotice, Announces, Oldest, noticeVars
  <2>2. Announces(Chat)'
    BY <1>1, ChatIsPacket DEF GoroutinesInv, AnswersAreForTheNotice, Announces, noticeVars
  <2>3. \A i \in 1 .. Len(sendPackets') : Announces(sendPackets[i])'
    BY <1>1, <1>2, <2>1, <2>2 DEF Announces
  <2> QED
    BY <2>3 DEF GoroutinesInv, AnswersAreForTheNotice, Announces, Oldest, noticeVars
<1> QED
  BY <1>1, <1>2, <1>3, <1>4

\* QueueSend queues a chat packet or gives it up.
LEMMA Selected ==
    ASSUME GoroutinesInv, (HasRoom /\ sendPackets' = Append(sendPackets, Chat))
                       \/ UNCHANGED sendPackets,
           UNCHANGED <<sendLoop, noticeVars, written>>,
           worker'["notices"] = worker["notices"]
    PROVE  /\ sendPackets' \in Seq(QueuedPacket) /\ Len(sendPackets') <= QueueSize
           /\ ConsumedWereWritten' /\ AnswersAreForTheNotice'
<1>1. CASE HasRoom /\ sendPackets' = Append(sendPackets, Chat)
  BY <1>1, ChatQueued
<1>2. CASE UNCHANGED sendPackets
  BY <1>2, NoticesUntouched DEF GoroutinesInv, WorkTypeOK
<1> QED
  BY <1>1, <1>2

\* While the logout stays where it is, what it has waited for stays at its end.
LEMMA LogoutUntouched ==
    ASSUME GoroutinesInv, logout' = logout, isClosed => isClosed',
           \A w \in Worker : isClosed /\ Quiet(w) => Quiet(w)'
    PROVE  QuietAtSave' /\ WaitedInTurn'
<1>1. WaitedInTurn'
  BY DEF GoroutinesInv, WaitedInTurn
<1>2. QuietAtSave'
  BY DEF GoroutinesInv, WaitedInTurn, QuietAtSave
<1> QED
  BY <1>1, <1>2

\* Closing, the stages of the receive loop that queue nothing, and the send loop's
\* look at the closed flag.
LEMMA FlagSteps ==
    ASSUME GoroutinesInv, CloseDone \/ Look \/ HangUpAfterError \/ Read \/ Marked \/ Return
    PROVE  GoroutinesInv'
<1>1. UNCHANGED <<sendPackets, noticeVars, written, worker, logout, failures>>
  BY DEF CloseDone, Look, HangUpAfterError, Read, Marked, Return, noticeVars
<1>2. sendLoop' \in [at : SendPc, held : QueuedPacket] /\ sendLoop'.held = sendLoop.held
  BY DEF CloseDone, Look, HangUpAfterError, Read, Marked, Return, GoroutinesInv, WorkTypeOK
<1>3. isClosed' \in BOOLEAN /\ doneClosed' \in BOOLEAN /\ connOpen' \in BOOLEAN
      /\ (isClosed => isClosed')
  BY Zenon DEF CloseDone, Look, HangUpAfterError, Read, Marked, Return, endVars, GoroutinesInv,
         WorkTypeOK
<1>4. recvLoop' \in RecvPc
  BY DEF CloseDone, Look, HangUpAfterError, Read, Marked, Return, GoroutinesInv, WorkTypeOK
<1>5. WorkTypeOK'
  BY <1>1, <1>2, <1>3, <1>4 DEF GoroutinesInv, WorkTypeOK, noticeVars
<1>6. ConsumedWereWritten' /\ AnswersAreForTheNotice'
  BY <1>1, <1>2, NoticesUntouched
<1>7. QuietAtSave' /\ WaitedInTurn'
  BY <1>1, <1>3, LogoutUntouched DEF Quiet
<1> QED
  BY <1>5, <1>6, <1>7 DEF GoroutinesInv

\* Broadcasts and the acknowledgements of handlers.
LEMMA QueueSteps ==
    ASSUME GoroutinesInv, Broadcast \/ Ack
    PROVE  GoroutinesInv'
<1>1. (HasRoom /\ sendPackets' = Append(sendPackets, Chat)) \/ UNCHANGED sendPackets
  BY DEF Broadcast, Ack, Select
<1>2. UNCHANGED <<endVars, sendLoop, noticeVars, written, worker, logout, failures>>
  BY DEF Broadcast, Ack
<1>3. recvLoop' \in RecvPc
  BY DEF Broadcast, Ack, Acked, GoroutinesInv, WorkTypeOK
<1>4. /\ sendPackets' \in Seq(QueuedPacket) /\ Len(sendPackets') <= QueueSize
      /\ ConsumedWereWritten' /\ AnswersAreForTheNotice'
  BY <1>1, <1>2, Selected
<1>5. WorkTypeOK'
  BY <1>2, <1>3, <1>4 DEF GoroutinesInv, WorkTypeOK, noticeVars, endVars
<1>6. QuietAtSave' /\ WaitedInTurn'
  BY <1>2, LogoutUntouched DEF Quiet, endVars
<1> QED
  BY <1>4, <1>5, <1>6 DEF GoroutinesInv

\* A handler starts a worker only in a session that is open.
LEMMA StartStep ==
    ASSUME GoroutinesInv, StartWorker
    PROVE  GoroutinesInv'
<1>1. UNCHANGED <<endVars, sendPackets, sendLoop, noticeVars, written, logout, failures>>
  BY DEF StartWorker
<1>2. worker' \in [Worker -> WorkerPc] /\ recvLoop' \in RecvPc
  BY DEF StartWorker, After, GoroutinesInv, WorkTypeOK
<1>3. \A w \in Worker : worker'[w] = worker[w] \/ (worker'[w] = "timer" /\ ~isClosed)
  BY DEF StartWorker, Startable, GoroutinesInv, WorkTypeOK
<1>4. WorkTypeOK'
  BY <1>1, <1>2 DEF GoroutinesInv, WorkTypeOK, noticeVars, endVars
<1>5. ConsumedWereWritten' /\ AnswersAreForTheNotice'
  BY <1>1, <1>3, NoticesUntouched
<1>6. QuietAtSave' /\ WaitedInTurn'
  BY <1>1, <1>3, LogoutUntouched DEF Quiet, endVars
<1> QED
  BY <1>4, <1>5, <1>6 DEF GoroutinesInv

\* The daily coins and the cafe bonus go round, queue, and end.
LEMMA ChatterStep ==
    ASSUME GoroutinesInv, NEW w \in Worker, Chatter(w)
    PROVE  GoroutinesInv'
<1>1. (HasRoom /\ sendPackets' = Append(sendPackets, Chat)) \/ UNCHANGED sendPackets
  BY DEF Chatter, Select, Goes
<1>2. UNCHANGED <<endVars, sendLoop, recvLoop, logout, noticeVars, written, failures>>
  BY DEF Chatter
<1>3. /\ w # "notices" /\ ~Quiet(w)
      /\ \E pc \in WorkerPc : worker' = [worker EXCEPT ![w] = pc]
  BY DEF Chatter, Goes, Quiet
<1>4. /\ worker' \in [Worker -> WorkerPc] /\ worker'["notices"] = worker["notices"]
      /\ \A v \in Worker : v # w => worker'[v] = worker[v]
  BY <1>3 DEF GoroutinesInv, WorkTypeOK
<1>5. /\ sendPackets' \in Seq(QueuedPacket) /\ Len(sendPackets') <= QueueSize
      /\ ConsumedWereWritten' /\ AnswersAreForTheNotice'
  BY <1>1, <1>2, <1>4, Selected
<1>6. WorkTypeOK'
  BY <1>2, <1>4, <1>5 DEF GoroutinesInv, WorkTypeOK, noticeVars, endVars
<1>7. QuietAtSave' /\ WaitedInTurn'
  BY <1>2, <1>3, <1>4, LogoutUntouched DEF Quiet, endVars
<1> QED
  BY <1>5, <1>6, <1>7 DEF GoroutinesInv

\* The logout closes the session first and passes a worker when it is at its end.
LEMMA LogoutSteps ==
    ASSUME GoroutinesInv, BeginLogout \/ HangUpForLogout \/ WaitFor \/ EndLogout
    PROVE  GoroutinesInv'
<1>1. UNCHANGED <<doneClosed, sendPackets, sendLoop, recvLoop, worker, noticeVars, written,
                  failures>>
  BY DEF BeginLogout, HangUpForLogout, WaitFor, EndLogout, endVars
<1>2. /\ isClosed' \in BOOLEAN /\ connOpen' \in BOOLEAN /\ logout' \in LogoutPc
      /\ (isClosed => isClosed')
  BY Zenon DEF BeginLogout, HangUpForLogout, WaitFor, EndLogout, After, endVars, GoroutinesInv,
         WorkTypeOK
<1>3. WorkTypeOK'
  BY <1>1, <1>2 DEF GoroutinesInv, WorkTypeOK, noticeVars
<1>4. ConsumedWereWritten' /\ AnswersAreForTheNotice'
  BY <1>1, NoticesUntouched
<1>5. WaitedInTurn'
  BY <1>1 DEF BeginLogout, HangUpForLogout, WaitFor, EndLogout, After, GoroutinesInv,
              WaitedInTurn, Quiet, endVars
<1>6. QuietAtSave'
  BY <1>1 DEF BeginLogout, HangUpForLogout, WaitFor, EndLogout, After, GoroutinesInv,
              WaitedInTurn, QuietAtSave, Quiet
<1> QED
  BY <1>3, <1>4, <1>5, <1>6 DEF GoroutinesInv

\* The send loop takes the oldest packet and writes it next, or reports it dead.
LEMMA TakeStep ==
    ASSUME GoroutinesInv, Take
    PROVE  GoroutinesInv'
<1>1. UNCHANGED <<endVars, recvLoop, worker, logout, try, expired, unannounced, written,
                  failures>>
  BY DEF Take
<1>2. QuietAtSave' /\ WaitedInTurn'
  BY <1>1, LogoutUntouched DEF Quiet, endVars
<1>3. ConsumedWereWritten'
  BY <1>1 DEF GoroutinesInv, ConsumedWereWritten
<1>4. CASE sendPackets = <<>>
  <2>1. UNCHANGED <<sendPackets, sent>> /\ sendLoop' = [sendLoop EXCEPT !.at = "look"]
    BY <1>4 DEF Take
  <2>2. AnswersAreForTheNotice'
    BY <1>1, <2>1, NoticesUntouched DEF noticeVars, GoroutinesInv, WorkTypeOK
  <2>3. WorkTypeOK'
    BY <1>1, <2>1 DEF GoroutinesInv, WorkTypeOK, endVars
  <2> QED
    BY <1>2, <1>3, <2>2, <2>3 DEF GoroutinesInv
<1>5. CASE sendPackets # <<>>
  <2> DEFINE p == Head(sendPackets)
  <2>1. /\ sendPackets' = Tail(sendPackets)
        /\ sent' = AnswerTaken(p)
        /\ sendLoop' = IF Dead(p) THEN sendLoop ELSE [at |-> "write", held |-> p]
    BY <1>5 DEF Take
  <2>2. sendPackets \in Seq(QueuedPacket) /\ Len(sendPackets) <= QueueSize
    BY DEF GoroutinesInv, WorkTypeOK
  <2>3. /\ sendPackets' \in Seq(QueuedPacket) /\ p \in QueuedPacket /\ p = sendPackets[1]
        /\ Len(sendPackets) > 0 /\ Len(sendPackets') = Len(sendPackets) - 1
        /\ Len(sendPackets) \in Nat
        /\ \A i \in 1 .. Len(sendPackets) - 1 :
              sendPackets'[i] = sendPackets[i + 1] /\ i + 1 \in 1 .. Len(sendPackets)
    BY <1>5, <2>1, <2>2, Dequeued
  <2> HIDE DEF p
  <2>4. sendLoop' \in [at : SendPc, held : QueuedPacket] /\ sent' \in {"none", "ok", "error"}
    BY <2>1, <2>3 DEF AnswerTaken, GoroutinesInv, WorkTypeOK
  <2>5. WorkTypeOK'
    <3>1. Len(sendPackets') <= QueueSize
      BY <2>2, <2>3
    <3> QED
      BY <1>1, <2>3, <2>4, <3>1 DEF GoroutinesInv, WorkTypeOK, endVars
  <2>6. Announces(p)
    BY <2>3 DEF GoroutinesInv, AnswersAreForTheNotice
  <2>7. sendLoop'.held = sendLoop.held \/ sendLoop'.held = p
    BY <2>1
  <2>8. sent' = "ok" => sent = "ok"
    BY <2>1 DEF AnswerTaken
  <2>9. AnswersAreForTheNotice'
    <3>1. \A i \in 1 .. Len(sendPackets') : Announces(sendPackets[i])'
      <4>1. \A i \in 1 .. Len(sendPackets) : Announces(sendPackets[i])
        BY DEF GoroutinesInv, AnswersAreForTheNotice
      <4>2. \A q : Announces(q) => Announces(q)'
        BY <1>1 DEF Announces, Oldest
      <4> QED
        BY <2>3, <4>1, <4>2, SMTT(40) DEF Announces
    <3>2. Announces(sendLoop.held)'
      BY <1>1, <2>6, <2>7 DEF GoroutinesInv, AnswersAreForTheNotice, Announces, Oldest
    <3> QED
      BY <1>1, <2>8, <3>1, <3>2 DEF GoroutinesInv, AnswersAreForTheNotice, Oldest
  <2> QED
    BY <1>2, <1>3, <2>5, <2>9 DEF GoroutinesInv
<1> QED
  BY <1>4, <1>5

\* A write that succeeds answers the attempt whose packet it was, if that one is on.
LEMMA WriteStep ==
    ASSUME GoroutinesInv, Write
    PROVE  GoroutinesInv'
<1> DEFINE p == sendLoop.held
<1>1. PICK ok \in BOOLEAN :
         /\ sent' = IF p.try = 0 \/ p.try # try THEN sent
                    ELSE IF sent # "none" THEN sent ELSE IF ok THEN "ok" ELSE "error"
         /\ written' = IF ok /\ p.try # 0 THEN written \cup {p.notice} ELSE written
         /\ isClosed' = (isClosed \/ ~ok)
         /\ sendLoop' = [at |-> IF ok THEN "drain" ELSE "broken", held |-> Chat]
  BY DEF Write
<1>2. UNCHANGED <<doneClosed, connOpen, sendPackets, recvLoop, worker, logout, try, expired,
                  unannounced, failures>>
  BY DEF Write
<1>3. p \in QueuedPacket /\ Announces(p)
  BY DEF GoroutinesInv, WorkTypeOK, AnswersAreForTheNotice
<1>4. Chat.try = 0 /\ Chat \in QueuedPacket /\ Chat.notice = 0 /\ try \in Nat
  BY DEF Chat, QueuedPacket, GoroutinesInv, WorkTypeOK
<1> HIDE DEF p
<1>5. written \subseteq written' /\ written' \subseteq Receipt \cup {0}
  BY <1>1, <1>3, Zenon DEF QueuedPacket, GoroutinesInv, WorkTypeOK
<1>6. QuietAtSave' /\ WaitedInTurn'
  BY <1>1, <1>2, LogoutUntouched, Zenon DEF Quiet
<1>7. ConsumedWereWritten'
  BY <1>2, <1>5, Zenon DEF GoroutinesInv, ConsumedWereWritten
<1>8. sent' = "ok" /\ worker["notices"] \in AtHand => sent = "ok" \/ Oldest \in written'
  BY <1>1, <1>3 DEF Announces
<1>9. AnswersAreForTheNotice'
  <2>1. \A i \in 1 .. Len(sendPackets') : Announces(sendPackets[i])'
    BY <1>2 DEF GoroutinesInv, AnswersAreForTheNotice, Announces, Oldest
  <2>2. Announces(sendLoop.held)'
    BY <1>1, <1>2, <1>4 DEF GoroutinesInv, AnswersAreForTheNotice, Announces
  <2> QED
    BY <1>2, <1>5, <1>8, <2>1, <2>2, Zenon DEF GoroutinesInv, AnswersAreForTheNotice, Oldest
<1>10. WorkTypeOK'
  <2>1. sendLoop' \in [at : SendPc, held : QueuedPacket] /\ sent' \in {"none", "ok", "error"}
        /\ isClosed' \in BOOLEAN
    BY <1>1, <1>4 DEF GoroutinesInv, WorkTypeOK
  <2>2. written' \subseteq Receipt
    BY <1>1, <1>3, Zenon DEF QueuedPacket, GoroutinesInv, WorkTypeOK
  <2> QED
    BY <1>2, <2>1, <2>2 DEF GoroutinesInv, WorkTypeOK
<1> QED
  BY <1>6, <1>7, <1>9, <1>10 DEF GoroutinesInv

\* A new attempt for the oldest notice; no packet is of this attempt yet.
LEMMA NoticeTimerStep ==
    ASSUME GoroutinesInv, NoticeTimer
    PROVE  GoroutinesInv'
<1>1. UNCHANGED <<endVars, sendPackets, sendLoop, recvLoop, logout, unannounced, written,
                  failures>>
  BY DEF NoticeTimer
<1>2. \/ worker' = [worker EXCEPT !["notices"] = "gone"] /\ UNCHANGED <<try, expired, sent>>
      \/ /\ unannounced # {} /\ worker' = [worker EXCEPT !["notices"] = "offer"]
         /\ try' = try + 1 /\ expired' = FALSE /\ sent' = "none"
  BY DEF NoticeTimer, Goes
<1>3. worker["notices"] = "timer"
  BY DEF NoticeTimer, Goes
<1>4. try \in Nat /\ worker \in [Worker -> WorkerPc]
  BY DEF GoroutinesInv, WorkTypeOK
<1>5. WorkTypeOK'
  <2>1. worker' \in [Worker -> WorkerPc]
    BY <1>2, <1>4
  <2>2. expired \in BOOLEAN /\ sent \in {"none", "ok", "error"}
    BY DEF GoroutinesInv, WorkTypeOK
  <2>3. expired' \in BOOLEAN
    BY <1>2, <2>2, Zenon
  <2>4. try' \in Nat
    BY <1>2, <1>4
  <2>5. sent' \in {"none", "ok", "error"}
    BY <1>2, <2>2, Zenon
  <2> QED
    BY <1>1, <2>1, <2>3, <2>4, <2>5 DEF GoroutinesInv, WorkTypeOK, endVars
<1>6. QuietAtSave' /\ WaitedInTurn'
  BY <1>1, <1>2, <1>3, <1>4, LogoutUntouched DEF Quiet, endVars
<1>7. ConsumedWereWritten'
  BY <1>1 DEF GoroutinesInv, ConsumedWereWritten
<1>8. AnswersAreForTheNotice'
  <2>1. CASE worker'["notices"] = "gone" /\ UNCHANGED <<try, sent>>
    BY <1>1, <2>1 DEF GoroutinesInv, AnswersAreForTheNotice, Announces
  <2>2. CASE /\ unannounced # {} /\ worker'["notices"] = "offer"
             /\ try' = try + 1 /\ sent' = "none"
    <3>1. \A q \in QueuedPacket : Announces(q) => Announces(q)'
      BY <1>4, <2>2 DEF Announces, QueuedPacket
    <3>2. /\ \A i \in 1 .. Len(sendPackets) : sendPackets[i] \in QueuedPacket
          /\ sendLoop.held \in QueuedPacket
      BY DEF GoroutinesInv, WorkTypeOK
    <3>3. \A i \in 1 .. Len(sendPackets') : Announces(sendPackets[i])'
      BY <1>1, <3>1, <3>2 DEF GoroutinesInv, AnswersAreForTheNotice, Announces
    <3>4. Announces(sendLoop.held)'
      BY <1>1, <3>1, <3>2 DEF GoroutinesInv, AnswersAreForTheNotice, Announces
    <3> QED
      BY <1>1, <1>4, <2>2, <3>3, <3>4 DEF AnswersAreForTheNotice
  <2> QED
    BY <1>2, <1>4, <2>1, <2>2
<1> QED
  BY <1>5, <1>6, <1>7, <1>8 DEF GoroutinesInv

\* The attempt goes on, or is over; what is taken on to be consumed was answered.
LEMMA AttemptSteps ==
    ASSUME GoroutinesInv, Offer \/ Await \/ Expire
    PROVE  GoroutinesInv'
<1>1. UNCHANGED <<endVars, sendPackets, sendLoop, recvLoop, logout, try, sent, unannounced,
                  written>>
  BY DEF Offer, Await, Expire
<1>2. expired' \in BOOLEAN /\ failures' \in Nat
  <2>1. expired \in BOOLEAN /\ failures \in Nat
    BY DEF GoroutinesInv, WorkTypeOK
  <2>2. expired' \in BOOLEAN
    BY <2>1, Zenon DEF Offer, Await, Expire, Retry
  <2>3. failures' = failures \/ failures' = failures + 1
    BY DEF Offer, Await, Expire
  <2> QED
    BY <2>1, <2>2, <2>3
<1>3. \/ UNCHANGED worker
      \/ /\ worker["notices"] \in AtHand
         /\ \/ worker' = [worker EXCEPT !["notices"] = "select"]
            \/ worker' = [worker EXCEPT !["notices"] = "consume"] /\ sent = "ok"
            \/ \E pc \in {"gone", "timer"} : worker' = [worker EXCEPT !["notices"] = pc]
  BY DEF Offer, Await, Expire, Retry
<1>4. WorkTypeOK'
  <2>1. worker' \in [Worker -> WorkerPc]
    BY <1>3 DEF GoroutinesInv, WorkTypeOK
  <2> QED
    BY <1>1, <1>2, <2>1 DEF GoroutinesInv, WorkTypeOK, endVars
<1>5. QuietAtSave' /\ WaitedInTurn'
  BY <1>1, <1>3, LogoutUntouched DEF Quiet, endVars, GoroutinesInv, WorkTypeOK
<1>6. ConsumedWereWritten'
  BY <1>1 DEF GoroutinesInv, ConsumedWereWritten
<1>7. AnswersAreForTheNotice'
  <2>1. \/ UNCHANGED worker
        \/ /\ worker["notices"] \in AtHand
           /\ \/ worker'["notices"] = "select"
              \/ worker'["notices"] = "consume" /\ sent = "ok"
              \/ worker'["notices"] \in {"gone", "timer"}
    BY <1>3 DEF GoroutinesInv, WorkTypeOK
  <2>2. \A q : Announces(q) => Announces(q)'
    BY <1>1, <2>1 DEF Announces, Oldest
  <2>3. \A i \in 1 .. Len(sendPackets') : Announces(sendPackets[i])'
    BY <1>1, <2>2 DEF GoroutinesInv, AnswersAreForTheNotice, Announces
  <2>4. Announces(sendLoop.held)'
    BY <1>1, <2>2 DEF GoroutinesInv, AnswersAreForTheNotice, Announces
  <2> QED
    BY <1>1, <2>1, <2>3, <2>4 DEF GoroutinesInv, AnswersAreForTheNotice, Oldest
<1> QED
  BY <1>4, <1>5, <1>6, <1>7 DEF GoroutinesInv

\* The packet of this attempt, with the oldest notice, joins the queue.
LEMMA EnqueueStep ==
    ASSUME GoroutinesInv, Enqueue
    PROVE  GoroutinesInv'
<1> DEFINE p == [try |-> try, notice |-> Oldest]
<1>1. UNCHANGED <<endVars, sendLoop, recvLoop, logout, try, sent, unannounced, written,
                  failures>>
  BY DEF Enqueue
<1>2. worker["notices"] = "select" /\ worker \in [Worker -> WorkerPc] /\ try \in Nat
  BY DEF Enqueue, GoroutinesInv, WorkTypeOK
<1>3. \E pc \in {"await", "gone", "timer"} : worker' = [worker EXCEPT !["notices"] = pc]
  BY DEF Enqueue, Retry
<1>4. expired' \in BOOLEAN
  BY Zenon DEF Enqueue, Retry, GoroutinesInv, WorkTypeOK
<1>5. p \in QueuedPacket
  <2>1. Oldest \in unannounced /\ unannounced \subseteq Receipt
    BY <1>2, OldestExists DEF GoroutinesInv, WorkTypeOK, AnswersAreForTheNotice
  <2> QED
    BY <1>2, <2>1 DEF QueuedPacket
<1>6. QuietAtSave' /\ WaitedInTurn'
  BY <1>1, <1>2, <1>3, LogoutUntouched DEF Quiet, endVars
<1>7. ConsumedWereWritten'
  BY <1>1 DEF GoroutinesInv, ConsumedWereWritten
<1>8. \A q : Announces(q) => Announces(q)'
  BY <1>1, <1>2 DEF Announces, Oldest
<1>9. Announces(sendLoop.held)'
  BY <1>1, <1>8 DEF GoroutinesInv, AnswersAreForTheNotice, Announces
<1>10. sendPackets \in Seq(QueuedPacket) /\ Len(sendPackets) \in Nat /\ QueueSize \in Nat
       /\ Len(sendPackets) <= QueueSize
  BY DEF GoroutinesInv, WorkTypeOK
<1>11. /\ sendPackets' \in Seq(QueuedPacket) /\ Len(sendPackets') <= QueueSize
       /\ \A i \in 1 .. Len(sendPackets') : Announces(sendPackets[i])'
  <2>1. CASE UNCHANGED sendPackets
    BY <1>8, <1>10, <2>1 DEF GoroutinesInv, AnswersAreForTheNotice, Announces
  <2>2. CASE HasRoom /\ sendPackets' = Append(sendPackets, p)
    <3>1. Len(sendPackets) < QueueSize
      BY <2>2 DEF HasRoom
    <3>2. /\ p.try <= try'
          /\ worker["notices"]' \in AtHand /\ p.try = try' => p.notice = Oldest'
      BY <1>1, <1>2 DEF Oldest
    <3> HIDE DEF p
    <3>3. sendPackets' \in Seq(QueuedPacket) /\ Len(sendPackets') = Len(sendPackets) + 1
          /\ \A i \in 1 .. Len(sendPackets) + 1 :
                sendPackets'[i] = IF i = Len(sendPackets) + 1 THEN p ELSE sendPackets[i]
      BY <1>5, <1>10, <2>2, AppendKeepsOrder
    <3>4. \A i \in 1 .. Len(sendPackets) : Announces(sendPackets[i])
      BY DEF GoroutinesInv, AnswersAreForTheNotice
    <3>5. \A i \in 1 .. Len(sendPackets') : Announces(sendPackets[i])'
      <4> SUFFICES ASSUME NEW i \in 1 .. Len(sendPackets) + 1
                   PROVE  Announces(sendPackets[i])'
        BY <3>3
      <4>1. CASE i = Len(sendPackets) + 1
        BY <3>2, <3>3, <4>1 DEF Announces
      <4>2. CASE i # Len(sendPackets) + 1
        <5>1. i \in 1 .. Len(sendPackets)
          BY <1>10, <4>2
        <5> QED
          BY <1>8, <3>3, <3>4, <4>2, <5>1 DEF Announces
      <4> QED
        BY <4>1, <4>2
    <3> QED
      BY <1>10, <3>1, <3>3, <3>5
  <2> QED
    BY <2>1, <2>2 DEF Enqueue
<1>12. WorkTypeOK'
  <2>1. worker' \in [Worker -> WorkerPc]
    BY <1>2, <1>3
  <2> QED
    BY <1>1, <1>4, <1>11, <2>1 DEF GoroutinesInv, WorkTypeOK, endVars
<1>13. AnswersAreForTheNotice'
  BY <1>1, <1>2, <1>3, <1>9, <1>11 DEF GoroutinesInv, AnswersAreForTheNotice, Oldest
<1> QED
  BY <1>6, <1>7, <1>12, <1>13 DEF GoroutinesInv

\* What is consumed is the oldest notice, and that has been written.
LEMMA ConsumeStep ==
    ASSUME GoroutinesInv, Consume
    PROVE  GoroutinesInv'
<1>1. UNCHANGED <<endVars, sendPackets, sendLoop, recvLoop, logout, try, sent, written>>
  BY DEF Consume
<1>2. /\ worker["notices"] = "consume" /\ worker \in [Worker -> WorkerPc]
      /\ Oldest \in written
  BY DEF Consume, GoroutinesInv, WorkTypeOK, AnswersAreForTheNotice
<1>3. \E pc \in {"gone", "timer"} : worker' = [worker EXCEPT !["notices"] = pc]
  BY DEF Consume, Retry
<1>4. expired' \in BOOLEAN /\ failures' \in Nat
  <2>1. expired' \in BOOLEAN
    BY Zenon DEF Consume, Retry
  <2>2. failures' = failures \/ failures' = failures + 1
    BY DEF Consume
  <2> QED
    BY <2>1, <2>2 DEF GoroutinesInv, WorkTypeOK
<1>5. unannounced' \in {unannounced, unannounced \ {Oldest}}
  BY DEF Consume
<1>6. WorkTypeOK'
  <2>1. worker' \in [Worker -> WorkerPc]
    BY <1>2, <1>3
  <2>2. unannounced' \subseteq Receipt
    BY <1>5 DEF GoroutinesInv, WorkTypeOK
  <2> QED
    BY <1>1, <1>4, <2>1, <2>2 DEF GoroutinesInv, WorkTypeOK, endVars
<1>7. QuietAtSave' /\ WaitedInTurn'
  BY <1>1, <1>2, <1>3, LogoutUntouched DEF Quiet, endVars
<1>8. ConsumedWereWritten'
  BY <1>1, <1>2, <1>5 DEF GoroutinesInv, ConsumedWereWritten
<1>9. worker'["notices"] \notin AtHand
  BY <1>2, <1>3
<1>10. AnswersAreForTheNotice'
  <2>1. \A i \in 1 .. Len(sendPackets') : Announces(sendPackets[i])'
    BY <1>1, <1>9 DEF GoroutinesInv, AnswersAreForTheNotice, Announces
  <2>2. Announces(sendLoop.held)'
    BY <1>1, <1>9 DEF GoroutinesInv, AnswersAreForTheNotice, Announces
  <2> QED
    BY <1>9, <2>1, <2>2 DEF AnswersAreForTheNotice
<1> QED
  BY <1>6, <1>7, <1>8, <1>10 DEF GoroutinesInv

\* Every step keeps the invariant.
LEMMA GoroutinesStep == GoroutinesInv /\ [WorkNext]_workVars => GoroutinesInv'
<1> SUFFICES ASSUME GoroutinesInv, [WorkNext]_workVars PROVE GoroutinesInv'
  OBVIOUS
<1>1. CASE UNCHANGED workVars
  <2>1. WorkTypeOK'
    BY <1>1 DEF workVars, endVars, noticeVars, GoroutinesInv, WorkTypeOK
  <2>2. ConsumedWereWritten' /\ AnswersAreForTheNotice'
    BY <1>1, NoticesUntouched DEF workVars
  <2>3. QuietAtSave' /\ WaitedInTurn'
    BY <1>1, LogoutUntouched DEF workVars, endVars, Quiet
  <2> QED
    BY <2>1, <2>2, <2>3 DEF GoroutinesInv
<1>2. CASE WorkNext
  BY <1>2, FlagSteps, QueueSteps, StartStep, ChatterStep, LogoutSteps, TakeStep, WriteStep,
     NoticeTimerStep, AttemptSteps, EnqueueStep, ConsumeStep
     DEF WorkNext, SendLoop, RecvLoop, NoticeWorker, LogoutPlayer
<1> QED
  BY <1>1, <1>2

\* The oldest notice is before every other one that is not announced.
LEMMA OldestIsFirst ==
    ASSUME unannounced \subseteq Receipt, unannounced # {}
    PROVE  /\ Oldest \in unannounced
           /\ \A k \in unannounced \ {Oldest} : Oldest < k
<1>1. Oldest \in unannounced /\ \A k \in unannounced : Oldest <= k
  BY OldestExists
<1>2. unannounced \subseteq Nat
  BY Zenon
<1> QED
  BY <1>1, <1>2

\* Every step keeps the notices: only Consume announces one, the oldest, and the worker
\* ends where it finds no more of them or the session closed.
LEMMA NoticesStep ==
    ASSUME GoroutinesInv, NoticesKept, [WorkNext]_workVars
    PROVE  NoticesKept'
<1>1. isClosed => isClosed'
  BY Zenon
     DEF WorkNext, workVars, SendLoop, RecvLoop, NoticeWorker, LogoutPlayer, CloseDone,
         Broadcast, Look, Take, Write, HangUpAfterError, Read, Ack, StartWorker, Marked,
         BeginLogout, Return, Chatter, NoticeTimer, Offer, Enqueue, Await, Consume, Expire,
         HangUpForLogout, WaitFor, EndLogout, endVars
<1>2. \/ unannounced' = unannounced
      \/ Consume /\ unannounced' = unannounced \ {Oldest}
  BY Zenon
     DEF WorkNext, workVars, SendLoop, RecvLoop, NoticeWorker, LogoutPlayer, CloseDone,
         Broadcast, Look, Take, Write, HangUpAfterError, Read, Ack, StartWorker, Marked,
         BeginLogout, Return, Chatter, NoticeTimer, Offer, Enqueue, Await, Consume, Expire,
         HangUpForLogout, WaitFor, EndLogout, noticeVars
<1>3. doneClosed' => isClosed'
  <2>1. doneClosed' => doneClosed \/ isClosed
    BY Zenon
       DEF WorkNext, workVars, SendLoop, RecvLoop, NoticeWorker, LogoutPlayer, CloseDone,
           Broadcast, Look, Take, Write, HangUpAfterError, Read, Ack, StartWorker, Marked,
           BeginLogout, Return, Chatter, NoticeTimer, Offer, Enqueue, Await, Consume, Expire,
           HangUpForLogout, WaitFor, EndLogout, endVars
  <2> QED
    BY <1>1, <2>1 DEF NoticesKept
<1>4. \A n \in Receipt \ unannounced', k \in unannounced' : n < k
  <2>1. CASE unannounced' = unannounced
    BY <2>1 DEF NoticesKept
  <2>2. CASE Consume /\ unannounced' = unannounced \ {Oldest}
    <3>1. unannounced \subseteq Receipt /\ unannounced # {}
      BY <2>2 DEF Consume, GoroutinesInv, WorkTypeOK, AnswersAreForTheNotice
    <3>2. \A k \in unannounced \ {Oldest} : Oldest < k
      BY <3>1, OldestIsFirst
    <3> QED
      BY <2>2, <3>2 DEF NoticesKept
  <2> QED
    BY <1>2, <2>1, <2>2
<1>5. worker["notices"]' = "gone" => unannounced' = {} \/ isClosed'
  <2> SUFFICES ASSUME worker'["notices"] = "gone" PROVE unannounced' = {} \/ isClosed'
    OBVIOUS
  <2>1. worker \in [Worker -> WorkerPc]
    BY DEF GoroutinesInv, WorkTypeOK
  <2>2. (isClosed => isClosed') /\ unannounced' \subseteq unannounced
    BY <1>1, <1>2
  <2>3. CASE worker["notices"] = "gone"
    BY <2>2, <2>3 DEF NoticesKept
  <2>4. CASE worker["notices"] # "gone"
    <3>1. CASE NoticeTimer
      BY <2>1, <2>2, <2>4, <3>1 DEF NoticeTimer, Goes, NoticesKept
    <3>2. CASE Offer \/ Enqueue \/ Await \/ Consume
      <4>1. isClosed
        BY <2>1, <3>2 DEF Offer, Enqueue, Await, Consume, Retry
      <4> QED
        BY <2>2, <4>1
    <3>3. ASSUME NEW w \in Worker, Chatter(w) PROVE FALSE
      BY <2>1, <2>4, <3>3 DEF Chatter, Goes
    <3>4. CASE StartWorker
      BY <2>1, <2>4, <3>4 DEF StartWorker
    <3>5. CASE UNCHANGED worker
      BY <2>4, <3>5
    <3> QED
      BY <3>1, <3>2, <3>3, <3>4, <3>5, Zenon
         DEF WorkNext, workVars, SendLoop, RecvLoop, NoticeWorker, LogoutPlayer, CloseDone,
             Broadcast, Look, Take, Write, HangUpAfterError, Read, Ack, Marked,
             BeginLogout, Return, Expire, HangUpForLogout, WaitFor, EndLogout
  <2> QED
    BY <2>3, <2>4
<1> QED
  BY <1>3, <1>4, <1>5 DEF NoticesKept

\* A session starts open, with all its notices.
LEMMA InitWorkers == WorkInit => WorkersInv
<1> SUFFICES ASSUME WorkInit PROVE NoticesKept
  BY InitGoroutines DEF WorkersInv
<1> QED
  BY DEF WorkInit, NoticesKept

\* However the goroutines of a session overlap: a coin notice is consumed only after
\* its socket write, and the save of a logout finds all workers at their end.
THEOREM WorkersInvariance == WorkSpec => []WorkersInv
<1>1. WorkersInv /\ [WorkNext]_workVars => WorkersInv'
  BY GoroutinesStep, NoticesStep DEF WorkersInv
<1> QED
  BY <1>1, InitWorkers, PTL DEF WorkSpec

\* Notices are shown oldest first, and the worker of an open session ends only when
\* none is left: what fails is tried again, never dropped.
THEOREM NoticesAreKept == WorkSpec => []NoticesKept
<1>1. WorkersInv => NoticesKept
  BY DEF WorkersInv
<1> QED
  BY <1>1, WorkersInvariance, PTL
=============================================================================
