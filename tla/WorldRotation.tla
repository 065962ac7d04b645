--------------------------- MODULE WorldRotation ---------------------------
(* The two world-scoped draws of the channel server: the random              *)
(* collaboration (collab.go, CollabRotation) and the random MezFes minigame  *)
(* (mezfes_rotation.go, MezFesRotation).  Each counts the logged-in sessions *)
(* of one entrance world and draws on a 0 -> 1 transition.  The login        *)
(* handler acquires both seats on the session's receive goroutine;           *)
(* finalizeRuntimeLogout releases them, on the receive goroutine or on the   *)
(* idle-timeout goroutine (invalidateSessions), so the two can interleave.   *)
EXTENDS Naturals, FiniteSets

CONSTANTS
    Session,        \* connections, each used once
    RandomCollab,   \* sessions of channels whose CollabEvent is "random"
    RandomMezFes,   \* sessions of MezFes channels without a fixed minigame
    CollabEvent,    \* the collaborations a draw may select
    Minigame,       \* the group games a draw may select
    None            \* "" in collab.go, 0 in mezfes_rotation.go

ASSUME RotationAssumption ==
    /\ IsFiniteSet(Session)
    /\ RandomCollab \subseteq Session
    /\ RandomMezFes \subseteq Session
    /\ None \notin CollabEvent \cup Minigame

VARIABLES
    collab,     \* [active, sessions]: CollabRotation.activeEvent, activeSessions
    mezfes,     \* [active, sessions]: MezFesRotation.game, sessions
    collabSeat, \* session -> [held, value]: collabRotationAcquired, collabEvent
    mezfesSeat, \* session -> [held, value]: mezFesRotationAcquired, mezFesMinigame
    closed,     \* session -> Session.closed
    handler,    \* session -> where its login handler is
    cleanup     \* session -> where finalizeRuntimeLogout is

vars == <<collab, mezfes, collabSeat, mezfesSeat, closed, handler, cleanup>>

HandlerPc == {"idle", "acquireCollab", "acquireMezFes"}
CleanupPc == {"none", "releaseCollab", "leaveCollab", "releaseMezFes",
              "leaveMezFes", "gone"}

Seat(values) == [held: BOOLEAN, value: values \cup {None}]
NoSeat == [held |-> FALSE, value |-> None]

TypeOK ==
    /\ collab \in [active: CollabEvent \cup {None}, sessions: Nat]
    /\ mezfes \in [active: Minigame \cup {None}, sessions: Nat]
    /\ collabSeat \in [Session -> Seat(CollabEvent)]
    /\ mezfesSeat \in [Session -> Seat(Minigame)]
    /\ closed \in [Session -> BOOLEAN]
    /\ handler \in [Session -> HandlerPc]
    /\ cleanup \in [Session -> CleanupPc]

Init ==
    /\ collab = [active |-> None, sessions |-> 0]
    /\ mezfes = [active |-> None, sessions |-> 0]
    /\ collabSeat = [s \in Session |-> NoSeat]
    /\ mezfesSeat = [s \in Session |-> NoSeat]
    /\ closed = [s \in Session |-> FALSE]
    /\ handler = [s \in Session |-> "idle"]
    /\ cleanup = [s \in Session |-> "none"]

-----------------------------------------------------------------------------
(* The rotations themselves; each runs under its own mutex.                  *)

\* Mutant: a repeated login counts twice.
AnyMayTake(seat) == TRUE

\* A session holds at most one seat of a rotation.
MayTake(seat) == ~seat.held

\* Mutant: every login draws again.
AcquireDrawsAgain(rotation, value) ==
    [active |-> value, sessions |-> rotation.sessions + 1]

\* acquire: the first seat draws, every seat shares the draw.
Acquire(rotation, value) ==
    [active   |-> IF rotation.sessions = 0 THEN value ELSE rotation.active,
     sessions |-> rotation.sessions + 1]

\* release: the last seat clears the draw; a release of nothing is refused.
Release(rotation) ==
    IF rotation.sessions = 0 THEN rotation
    ELSE [active   |-> IF rotation.sessions = 1 THEN None ELSE rotation.active,
          sessions |-> rotation.sessions - 1]

-----------------------------------------------------------------------------
(* handleMsgSysLogin, from the point where every check has passed.           *)

\* The receive loop dispatches a login only while it sees the session open;
\* a client may repeat the packet.
StartLogin(s) ==
    /\ handler[s] = "idle"
    /\ ~closed[s]
    /\ handler' = [handler EXCEPT ![s] = "acquireCollab"]
    /\ UNCHANGED <<collab, mezfes, collabSeat, mezfesSeat, closed, cleanup>>

\* acquireCollabEvent: under Session.Mutex, seat and rotation change together.
\* It does not look at Session.closed.
AcquireCollabEvent(s) ==
    /\ handler[s] = "acquireCollab"
    /\ handler' = [handler EXCEPT ![s] = "acquireMezFes"]
    /\ IF s \in RandomCollab /\ MayTake(collabSeat[s])
       THEN \E e \in CollabEvent :
              /\ collab' = Acquire(collab, e)
              /\ collabSeat' = [collabSeat EXCEPT ![s] =
                                  [held |-> TRUE, value |-> collab'.active]]
       ELSE UNCHANGED <<collab, collabSeat>>
    /\ UNCHANGED <<mezfes, mezfesSeat, closed, cleanup>>

\* Mutant: the MezFes seat is taken without looking at Session.closed.
OpenOrClosed(s) == TRUE

\* The test of Session.closed under Session.Mutex.
StillOpen(s) == ~closed[s]

\* acquireMezFesMinigame: the same, but a closed session takes no seat.
AcquireMezFesMinigame(s) ==
    /\ handler[s] = "acquireMezFes"
    /\ handler' = [handler EXCEPT ![s] = "idle"]
    /\ IF s \in RandomMezFes /\ MayTake(mezfesSeat[s]) /\ StillOpen(s)
       THEN \E g \in Minigame :
              /\ mezfes' = Acquire(mezfes, g)
              /\ mezfesSeat' = [mezfesSeat EXCEPT ![s] =
                                  [held |-> TRUE, value |-> mezfes'.active]]
       ELSE UNCHANGED <<mezfes, mezfesSeat>>
    /\ UNCHANGED <<collab, collabSeat, closed, cleanup>>

-----------------------------------------------------------------------------
(* Logout.                                                                   *)

\* markClosed: a logout packet, a failed send, a rejected operation or the
\* first step of logoutPlayer, whichever goroutine it is on.
MarkClosed(s) ==
    /\ ~closed[s]
    /\ closed' = [closed EXCEPT ![s] = TRUE]
    /\ UNCHANGED <<collab, mezfes, collabSeat, mezfesSeat, handler, cleanup>>

\* logoutPlayer reaches finalizeRuntimeLogout.  On the timeout goroutine it
\* does not wait for the handler that the receive goroutine is running.
StartCleanup(s) ==
    /\ closed[s]
    /\ cleanup[s] = "none"
    /\ cleanup' = [cleanup EXCEPT ![s] = "releaseCollab"]
    /\ UNCHANGED <<collab, mezfes, collabSeat, mezfesSeat, closed, handler>>

\* releaseCollabEvent, the part under Session.Mutex.
ReleaseCollabEvent(s) ==
    /\ cleanup[s] = "releaseCollab"
    /\ cleanup' = [cleanup EXCEPT ![s] = IF collabSeat[s].held THEN "leaveCollab"
                                         ELSE "releaseMezFes"]
    /\ collabSeat' = [collabSeat EXCEPT ![s] = IF @.held THEN NoSeat ELSE @]
    /\ UNCHANGED <<collab, mezfes, mezfesSeat, closed, handler>>

\* releaseCollabEvent, CollabRotation.release after the session is unlocked.
LeaveCollab(s) ==
    /\ cleanup[s] = "leaveCollab"
    /\ cleanup' = [cleanup EXCEPT ![s] = "releaseMezFes"]
    /\ collab' = Release(collab)
    /\ UNCHANGED <<mezfes, collabSeat, mezfesSeat, closed, handler>>

\* releaseMezFesMinigame, the part under Session.Mutex.
ReleaseMezFesMinigame(s) ==
    /\ cleanup[s] = "releaseMezFes"
    /\ cleanup' = [cleanup EXCEPT ![s] = IF mezfesSeat[s].held THEN "leaveMezFes"
                                         ELSE "gone"]
    /\ mezfesSeat' = [mezfesSeat EXCEPT ![s] = IF @.held THEN NoSeat ELSE @]
    /\ UNCHANGED <<collab, mezfes, collabSeat, closed, handler>>

\* releaseMezFesMinigame, MezFesRotation.release after the session is unlocked.
LeaveMezFes(s) ==
    /\ cleanup[s] = "leaveMezFes"
    /\ cleanup' = [cleanup EXCEPT ![s] = "gone"]
    /\ mezfes' = Release(mezfes)
    /\ UNCHANGED <<collab, collabSeat, mezfesSeat, closed, handler>>

Handle(s)  == StartLogin(s) \/ AcquireCollabEvent(s) \/ AcquireMezFesMinigame(s)
Cleanup(s) == \/ StartCleanup(s)
              \/ ReleaseCollabEvent(s)    \/ LeaveCollab(s)
              \/ ReleaseMezFesMinigame(s) \/ LeaveMezFes(s)

Next == \E s \in Session : Handle(s) \/ MarkClosed(s) \/ Cleanup(s)

\* A started handler returns and a closed session is cleaned up; nothing
\* obliges a client to log in or to leave.
Fairness == \A s \in Session :
    /\ WF_vars(AcquireCollabEvent(s) \/ AcquireMezFesMinigame(s))
    /\ WF_vars(Cleanup(s))

Spec == Init /\ [][Next]_vars /\ Fairness

-----------------------------------------------------------------------------
(* Properties.                                                               *)

Holders(seat) == {s \in Session : seat[s].held}
Leaving(pc)   == {s \in Session : cleanup[s] = pc}

\* The counter of a rotation is the number of seats held and of those given back
\* by sessions that have not left the rotation yet; nobody counted, no draw.
Counted(rotation, seat, pc) ==
    /\ rotation.sessions = Cardinality(Holders(seat)) + Cardinality(Leaving(pc))
    /\ rotation.sessions = 0 => rotation.active = None

SeatsCounted ==
    /\ Counted(collab, collabSeat, "leaveCollab")
    /\ Counted(mezfes, mezfesSeat, "leaveMezFes")

\* docs/collab-worlds.md, mezfes_rotation_test.go: every seat of the world
\* shows the same draw, however logins and logouts overlap with the release.
SeatsShareTheDraw ==
    \A s \in Session :
        /\ collabSeat[s].held => collabSeat[s].value = collab.active
        /\ mezfesSeat[s].held => mezfesSeat[s].value = mezfes.active

\* A cleanup starts after the session is closed, and what it has given back to
\* MezFes is not taken again by the login handler it has overtaken.
CleanupIsFinal ==
    \A s \in Session :
        /\ cleanup[s] # "none" => closed[s]
        /\ cleanup[s] \in {"leaveMezFes", "gone"} => ~mezfesSeat[s].held

\* The rotations keep their books: nobody is counted twice, forgotten or counted
\* after the end, in whatever order handlers, closes and cleanups take their turns.
RotationInv == TypeOK /\ SeatsCounted /\ SeatsShareTheDraw /\ CleanupIsFinal

\* A draw changes only through an empty world: no step replaces one event or
\* game by another while a player holds it.
DrawStableWhileOccupied ==
    [][/\ collab.active # None /\ collab'.active # None
             => collab'.active = collab.active
       /\ mezfes.active # None /\ mezfes'.active # None
             => mezfes'.active = mezfes.active]_vars

\* The MezFes game is cleared once every session of the world is gone: the
\* closed check under Session.Mutex leaves no seat behind a late login handler.
MezFesClearedWhenEmpty ==
    (\A s \in Session : cleanup[s] = "gone")
        => mezfes = [active |-> None, sessions |-> 0]

\* The same promise for the collaboration, as docs/collab-worlds.md states it
\* ("is cleared after the final such logout").
CollabClearedWhenEmpty ==
    (\A s \in Session : cleanup[s] = "gone" /\ handler[s] = "idle")
        => collab = [active |-> None, sessions |-> 0]

\* What acquireCollabEvent leaves open for it by not looking at Session.closed: no
\* seat is taken once releaseCollabEvent has been through.
NoLateSeat ==
    [][\A s \in Session : ~collabSeat[s].held /\ collabSeat'[s].held
         => cleanup[s] \in {"none", "releaseCollab"}]_vars

\* The inductive invariant behind it: what a cleanup has given back stays so.
CollabGivenBack ==
    \A s \in Session : cleanup[s] \in {"leaveCollab", "releaseMezFes", "leaveMezFes", "gone"}
        => ~collabSeat[s].held

\* Every seat is given back: a closed session ends without a MezFes seat.
ClosedSessionsLeaveMezFes ==
    \A s \in Session : closed[s] ~> [](~mezfesSeat[s].held)
=============================================================================
