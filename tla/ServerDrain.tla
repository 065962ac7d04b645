---------------------------- MODULE ServerDrain ----------------------------
(* The life of the connections of one channel server from Accept to logout,  *)
(* and the shutdown that drains them (sys_channel_server.go, main.go): the   *)
(* accept goroutine hands connections to the manage goroutine over an        *)
(* unbuffered channel, the shutdown runs on main's goroutine, the idle check *)
(* on one of its own, and every session logs out on its receive goroutine or *)
(* on the idle check's.                                                      *)

CONSTANTS
    Conn,           \* connections clients open
    NoConn

ASSUME DrainAssumption == NoConn \notin Conn

VARIABLES
    done,           \* Server.done is closed (and isShuttingDown set)
    listening,      \* the listener is open
    sessions,       \* keys of Server.sessions
    accept,         \* acceptClients: where it is
    accepted,       \* its conn
    manage,         \* manageSessions: where it is
    newConn,        \* its conn
    life,           \* connection -> how far its session has got
    saved,          \* connections whose logout has run the final save
    failed,         \* connections whose logout panicked before it
    timedOut,       \* invalidateSessions: sessions its pass still logs out
    hungUp,         \* connections closed on the server's side
    main,           \* the shutdown: where it is
    conns           \* ShutdownAndDrain's conns

server    == <<done, listening>>
accepting == <<accept, accepted>>
managing  == <<manage, newConn>>
players   == <<life, saved, failed>>
shutdown  == <<main, conns>>
vars == <<server, sessions, accepting, managing, players, timedOut,
          hungUp, shutdown>>

\* A connection is dialled, then its session runs, logs out, leaves the map and
\* is finalized.
Life == {"dialled", "created", "running", "logout", "unregister", "finalize",
         "gone"}
MainPc == {"serving", "closeListener", "passive", "shutdownAgain", "snapshot",
           "hangUp", "poll", "complete", "timedOut"}

TypeOK ==
    /\ done \in BOOLEAN /\ listening \in BOOLEAN
    /\ sessions \subseteq Conn
    /\ accept \in {"accept", "deliver", "stopped"}
    /\ accepted \in Conn \cup {NoConn}
    /\ manage \in {"select", "register", "start", "stopped"}
    /\ newConn \in Conn \cup {NoConn}
    /\ life \in [Conn -> Life]
    /\ saved \subseteq Conn /\ failed \subseteq Conn
    /\ hungUp \subseteq Conn /\ timedOut \subseteq Conn
    /\ main \in MainPc
    /\ conns \subseteq Conn

Init ==
    /\ done = FALSE /\ listening = TRUE
    /\ sessions = {}
    /\ accept = "accept" /\ accepted = NoConn
    /\ manage = "select" /\ newConn = NoConn
    /\ life = [c \in Conn |-> "dialled"]
    /\ saved = {} /\ failed = {} /\ hungUp = {} /\ timedOut = {}
    /\ main = "serving" /\ conns = {}

-----------------------------------------------------------------------------
(* acceptClients                                                             *)

\* Listener.Accept returns a connection; or an error, after which the loop ends
\* if the listener is closed and is retried if it is not.
Accept(c) ==
    /\ accept = "accept" /\ listening
    /\ life[c] = "dialled" /\ c # accepted /\ c # newConn /\ c \notin hungUp
    /\ accept' = "deliver" /\ accepted' = c
    /\ UNCHANGED <<timedOut, server, sessions, managing, players>>
    /\ UNCHANGED <<hungUp, shutdown>>

AcceptFails ==
    /\ accept = "accept" /\ ~listening
    /\ accept' = "stopped"
    /\ UNCHANGED <<timedOut, server, sessions, accepted, managing, players>>
    /\ UNCHANGED <<hungUp, shutdown>>

\* The two selects meet on acceptConns; with done closed as well, either case
\* may be taken.
Deliver ==
    /\ accept = "deliver" /\ manage = "select"
    /\ accept' = "accept" /\ accepted' = NoConn
    /\ manage' = "register" /\ newConn' = accepted
    /\ UNCHANGED <<timedOut, server, sessions, players, hungUp, shutdown>>

\* Mutant: acceptClients returns and forgets the connection it holds.
AcceptLeaks ==
    /\ accept = "deliver" /\ done
    /\ accept' = "stopped" /\ accepted' = NoConn
    /\ UNCHANGED <<timedOut, server, sessions, managing, players>>
    /\ UNCHANGED <<hungUp, shutdown>>

\* The other case of acceptClients' select.
AcceptDone ==
    /\ accept = "deliver" /\ done
    /\ hungUp' = hungUp \cup {accepted}
    /\ accept' = "stopped" /\ accepted' = NoConn
    /\ UNCHANGED <<timedOut, server, sessions, managing, players, shutdown>>

-----------------------------------------------------------------------------
(* manageSessions                                                            *)

ManageDone ==
    /\ manage = "select" /\ done
    /\ manage' = "stopped"
    /\ UNCHANGED <<timedOut, server, sessions, accepting, newConn, players>>
    /\ UNCHANGED <<hungUp, shutdown>>

Register ==
    /\ manage = "register"
    /\ sessions' = sessions \cup {newConn}
    /\ life' = [life EXCEPT ![newConn] = "created"]
    /\ manage' = "start"
    /\ UNCHANGED <<timedOut, server, accepting, newConn, saved, failed>>
    /\ UNCHANGED <<hungUp, shutdown>>

Start ==
    /\ manage = "start"
    /\ life' = [life EXCEPT ![newConn] = IF @ = "created" THEN "running" ELSE @]
    /\ manage' = "select" /\ newConn' = NoConn
    /\ UNCHANGED <<timedOut, server, sessions, accepting, saved, failed>>
    /\ UNCHANGED <<hungUp, shutdown>>

-----------------------------------------------------------------------------
(* Sessions                                                                  *)

\* logoutPlayer lets one caller through, which closes the connection.
Online(c) == life[c] \in {"created", "running"}
StartLogout(c) ==
    /\ life' = [life EXCEPT ![c] = "logout"]
    /\ hungUp' = hungUp \cup {c}
    /\ UNCHANGED <<server, sessions, accepting, managing, saved, failed>>
    /\ UNCHANGED shutdown

\* The receive loop reads a logout packet or loses the connection.
Leave(c) == life[c] = "running" /\ StartLogout(c) /\ UNCHANGED timedOut

\* It reads EOF after a close on this side.
ReadEOF(c) ==
    /\ life[c] = "running" /\ c \in hungUp
    /\ StartLogout(c) /\ UNCHANGED timedOut

\* A pass of the idle check finds sessions that were silent for too long ...
IdlePass ==
    /\ ~done /\ timedOut = {}
    /\ \E S \in SUBSET sessions : timedOut' = S
    /\ UNCHANGED <<server, sessions, accepting, managing, players>>
    /\ UNCHANGED <<hungUp, shutdown>>

\* ... and logs them out, those that are not logging out already.
IdleLogout(c) ==
    /\ c \in timedOut
    /\ timedOut' = timedOut \ {c}
    /\ \/ Online(c) /\ StartLogout(c)
       \/ ~Online(c) /\ UNCHANGED <<server, sessions, accepting, managing>>
                     /\ UNCHANGED <<players, hungUp, shutdown>>

\* logoutPlayerOnce runs the final save; a panic before it is recovered, and
\* finalizeRuntimeLogout takes the session out of the map.
Save(c) ==
    /\ life[c] = "logout"
    /\ life' = [life EXCEPT ![c] = "unregister"]
    /\ \/ saved' = saved \cup {c} /\ UNCHANGED failed
       \/ failed' = failed \cup {c} /\ UNCHANGED saved
    /\ UNCHANGED <<timedOut, server, sessions, accepting, managing, hungUp>>
    /\ UNCHANGED shutdown

\* Mutant: the session leaves the map before the save.
UnregisterEarly(c) ==
    /\ life[c] \in {"logout", "unregister"} /\ c \in sessions
    /\ sessions' = sessions \ {c}
    /\ life' = [life EXCEPT ![c] = IF @ = "logout" THEN @ ELSE "finalize"]
    /\ UNCHANGED <<timedOut, server, accepting, managing, saved, failed>>
    /\ UNCHANGED <<hungUp, shutdown>>

\* Then the session leaves the map ...
Unregister(c) ==
    /\ life[c] = "unregister"
    /\ sessions' = sessions \ {c}
    /\ life' = [life EXCEPT ![c] = "finalize"]
    /\ UNCHANGED <<timedOut, server, accepting, managing, saved, failed>>
    /\ UNCHANGED <<hungUp, shutdown>>

\* ... and the rest of the logout follows: stages, semaphores, the sign session.
Finalize(c) ==
    /\ life[c] = "finalize"
    /\ life' = [life EXCEPT ![c] = "gone"]
    /\ UNCHANGED <<timedOut, server, sessions, accepting, managing, saved>>
    /\ UNCHANGED failed /\ UNCHANGED <<hungUp, shutdown>>

-----------------------------------------------------------------------------
(* main, after the first signal.                                             *)

\* Shutdown: the flag is set and done closed, then the listener.
Shutdown ==
    /\ main = "serving"
    /\ done' = TRUE
    /\ main' = "closeListener"
    /\ UNCHANGED <<timedOut, listening, sessions, accepting, managing, players>>
    /\ UNCHANGED <<hungUp, conns>>

\* The backlog the kernel still held is gone with the listener.
CloseListener ==
    /\ main = "closeListener"
    /\ listening' = FALSE
    /\ main' = "passive"
    /\ UNCHANGED <<timedOut, done, sessions, accepting, managing, players>>
    /\ UNCHANGED <<hungUp, conns>>

\* The countdown and DrainPassive: until the map is empty or the time is over.
PassiveEnds ==
    /\ main = "passive"
    /\ main' = "shutdownAgain"
    /\ UNCHANGED <<timedOut, server, sessions, accepting, managing, players>>
    /\ UNCHANGED <<hungUp, conns>>

\* ShutdownAndDrain calls Shutdown, which has been called already.
ShutdownAgain ==
    /\ main = "shutdownAgain"
    /\ main' = "snapshot"
    /\ UNCHANGED <<timedOut, server, sessions, accepting, managing, players>>
    /\ UNCHANGED <<hungUp, conns>>

Snapshot ==
    /\ main = "snapshot"
    /\ conns' = sessions
    /\ main' = "hangUp"
    /\ UNCHANGED <<timedOut, server, sessions, accepting, managing, players>>
    /\ UNCHANGED hungUp

\* Mutant: only one connection of the snapshot is closed.
HangUpOne ==
    /\ main = "hangUp"
    /\ main' = "poll"
    /\ \E c \in conns : hungUp' = hungUp \cup {c}
    /\ UNCHANGED <<timedOut, server, sessions, accepting, managing, players>>
    /\ UNCHANGED conns

\* Closing a connection twice changes nothing.
HangUp ==
    /\ main = "hangUp"
    /\ \/ \E c \in conns \ hungUp : hungUp' = hungUp \cup {c} /\ UNCHANGED main
       \/ conns \subseteq hungUp /\ main' = "poll" /\ UNCHANGED hungUp
    /\ UNCHANGED <<timedOut, server, sessions, accepting, managing, players>>
    /\ UNCHANGED conns

\* A tick of the poll finds the map empty; or the deadline passes.
Poll ==
    /\ main = "poll"
    /\ \/ sessions = {} /\ main' = "complete"
       \/ main' = "timedOut"
    /\ UNCHANGED <<timedOut, server, sessions, accepting, managing, players>>
    /\ UNCHANGED <<hungUp, conns>>

-----------------------------------------------------------------------------

AcceptClients ==
    \/ \E c \in Conn : Accept(c)
    \/ AcceptFails \/ Deliver \/ AcceptDone
ManageSessions == ManageDone \/ Register \/ Start
Logout(c) == ReadEOF(c) \/ Save(c) \/ Unregister(c) \/ Finalize(c)
Drain == \/ CloseListener \/ PassiveEnds \/ ShutdownAgain
         \/ Snapshot \/ HangUp \/ Poll

Next ==
    \/ AcceptClients \/ ManageSessions
    \/ IdlePass
    \/ \E c \in Conn : Leave(c) \/ IdleLogout(c) \/ Logout(c)
    \/ Shutdown \/ Drain

\* The goroutines run; no player has to leave and nobody has to stop the server.
Fairness ==
    /\ WF_vars(AcceptFails) /\ WF_vars(Deliver \/ AcceptDone)
    /\ WF_vars(ManageSessions) /\ WF_vars(Drain)
    /\ \A c \in Conn : WF_vars(Logout(c))

Spec == Init /\ [][Next]_vars /\ Fairness

-----------------------------------------------------------------------------
(* Properties.                                                               *)

\* ShutdownAndDrain, "force-closes every active session so that their
\* logoutPlayer cleanup runs (saves character data, ...)": a drain that reports
\* completion leaves no session of its snapshot unsaved, except one whose logout
\* panicked.
CompleteDrainSaved == main = "complete" => conns \subseteq saved \cup failed

\* The map a drain polls counts every session that has still to save, and none
\* that is gone, however its logout ended.
MapCountsEverybody ==
    \A c \in Conn : c \in sessions <=>
        life[c] \in {"created", "running", "logout", "unregister"}

\* The inductive invariant behind both.  A connection on its way to the manage
\* goroutine has no session yet and is nobody else's; whoever is past the save
\* has saved or panicked; the snapshot holds sessions, never bare connections.
OnItsWay ==
    /\ accept = "deliver" => /\ accepted \in Conn /\ accepted # newConn
                             /\ life[accepted] = "dialled"
    /\ manage = "register" => newConn \in Conn /\ life[newConn] = "dialled"
    /\ manage = "start" => newConn \in Conn

SaveTried ==
    \A c \in Conn : life[c] \in {"unregister", "finalize", "gone"}
        => c \in saved \cup failed

SnapshotOfSessions == \A c \in conns : life[c] # "dialled"

IInv == /\ TypeOK /\ MapCountsEverybody /\ OnItsWay /\ SaveTried
        /\ SnapshotOfSessions /\ CompleteDrainSaved

\* No accepted connection is forgotten: it gets a session or is closed, even if
\* the server goes down while it is between the two goroutines.
AcceptedAnswered ==
    \A c \in Conn : c = accepted ~> c \in sessions \cup hungUp

\* Every session of the drain's snapshot gets through its logout in the end,
\* whether its receive loop or the idle check runs it.
SnapshotLogsOut == \A c \in Conn : c \in conns ~> life[c] = "gone"

\* "ShutdownAndDrain stops accepting new connections, [...] then waits until all
\* sessions have been removed from the sessions map": the map an accomplished
\* drain leaves behind stays empty.
DrainedStaysEmpty == main = "complete" => sessions = {}

\* What the code leaves open for it: when the poll finds the map empty, no
\* connection is in the hands of acceptClients or of manageSessions.
NobodyAtTheDoor ==
    [][main # "complete" /\ main' = "complete"
         => accept # "deliver" /\ manage # "register"]_vars

\* After an accomplished drain every session there ever was has saved or panicked,
\* not only those of the snapshot.
EverybodySaved ==
    main = "complete" => \A c \in Conn : life[c] = "dialled" \/ c \in saved \cup failed

\* The inductive invariant behind both: once the listener is closed nobody new
\* comes to an empty door.
DoorClosed ==
    /\ main \notin {"serving", "closeListener"} => ~listening
    /\ main = "complete" => accept # "deliver" /\ manage # "register"
=============================================================================
