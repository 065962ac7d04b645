----------------------------- MODULE LoginGuard -----------------------------
(* The login handler of a channel server and the account guard it asks       *)
(* (handlers_session.go, channel_registry_local.go): with                    *)
(* AllowAccountMultiSession off, an account plays one character at a time,   *)
(* because its item box is shared.  A session publishes its character and    *)
(* its user first and looks for others afterwards; the look is a copy of     *)
(* every channel's session map, taken channel by channel, and then one       *)
(* session after the other, so logins, logouts and accepts interleave.       *)
EXTENDS Naturals, FiniteSets

CONSTANTS
    Session,        \* connections, each used once
    Channel,        \* channel servers of the registry
    channelOf,      \* session -> the channel it is connected to
    Char, User,
    owner,          \* character -> the user the database knows it by
    Nobody,         \* 0: no character, no user
    MaxPackets      \* bound: login packets a client sends

ASSUME LoginAssumption ==
    /\ channelOf \in [Session -> Channel]
    /\ owner \in [Char -> User]
    /\ MaxPackets \in Nat
    /\ Nobody \notin Char \cup User

VARIABLES
    registered,     \* keys of every Server.sessions
    closed,         \* Session.closed
    dropped,        \* the guard has closed Session.rawConn
    charID, userID, \* the fields of Session
    passed,         \* the guard has let the current character in
    pc, batch,      \* the handler, and the packets left behind it in its group
    asks,           \* the handler's locals: the character of the packet,
    todo, found,    \* channels not collected yet, candidates not inspected yet
    other,          \* and the candidate being compared
    packets         \* packets the client may still send

fields == <<charID, userID, passed>>
locals == <<asks, todo, found, other>>
status == <<registered, closed, dropped>>
vars == <<status, fields, locals, pc, batch, packets>>

Scanning == {"collect", "inspect", "compare"}
Pc == {"new", "idle", "check", "bind", "resolve", "returned"} \cup Scanning

TypeOK ==
    /\ registered \subseteq Session
    /\ closed \in [Session -> BOOLEAN] /\ dropped \in [Session -> BOOLEAN]
    /\ charID \in [Session -> Char \cup {Nobody}]
    /\ userID \in [Session -> User \cup {Nobody}]
    /\ passed \in [Session -> BOOLEAN]
    /\ pc \in [Session -> Pc]
    /\ batch \in [Session -> Nat] /\ packets \in [Session -> Nat]
    /\ asks \in [Session -> Char \cup {Nobody}]
    /\ todo \in [Session -> SUBSET Channel]
    /\ found \in [Session -> SUBSET Session]
    /\ other \in [Session -> Session]

Init ==
    /\ registered = {}
    /\ closed = [s \in Session |-> FALSE] /\ dropped = [s \in Session |-> FALSE]
    /\ charID = [s \in Session |-> Nobody] /\ userID = [s \in Session |-> Nobody]
    /\ passed = [s \in Session |-> FALSE]
    /\ pc = [s \in Session |-> "new"]
    /\ batch = [s \in Session |-> 0]
    /\ packets = [s \in Session |-> MaxPackets]
    /\ asks = [s \in Session |-> Nobody]
    /\ todo = [s \in Session |-> {}] /\ found = [s \in Session |-> {}]
    /\ other = [s \in Session |-> s]

Goto(s, p) == pc' = [pc EXCEPT ![s] = p]

-----------------------------------------------------------------------------
(* The receive loop.                                                         *)

\* manageSessions: the session is in the map before its goroutines start.
Register(s) ==
    /\ pc[s] = "new"
    /\ registered' = registered \cup {s}
    /\ Goto(s, "idle")
    /\ UNCHANGED <<closed, dropped, fields, locals, batch, packets>>

\* recvLoop reads a group of packets from a session it has seen open; nothing
\* can be read once the connection is closed.
Receive(s) ==
    /\ pc[s] = "idle" /\ ~closed[s] /\ ~dropped[s]
    /\ \E n \in 1 .. packets[s] :
         /\ batch' = [batch EXCEPT ![s] = n - 1]
         /\ packets' = [packets EXCEPT ![s] = @ - n]
    /\ Goto(s, "check")
    /\ UNCHANGED <<status, fields, locals>>

\* handlePacketGroup after a handler: the next packet of the group, unless the
\* session is closed.
NextPacket(s) ==
    /\ pc[s] = "returned"
    /\ \/ /\ ~closed[s] /\ batch[s] > 0
          /\ batch' = [batch EXCEPT ![s] = @ - 1]
          /\ Goto(s, "check")
       \/ /\ closed[s] \/ batch[s] = 0
          /\ batch' = [batch EXCEPT ![s] = 0]
          /\ Goto(s, "idle")
    /\ UNCHANGED <<status, fields, locals, packets>>

-----------------------------------------------------------------------------
(* handleMsgSysLogin                                                         *)

\* Token, creation state and stored name; a refusal closes the session.
Check(s) ==
    /\ pc[s] = "check"
    /\ \/ /\ \E c \in Char : asks' = [asks EXCEPT ![s] = c]
          /\ Goto(s, "bind")
          /\ UNCHANGED closed
       \/ /\ closed' = [closed EXCEPT ![s] = TRUE]
          /\ Goto(s, "returned")
          /\ UNCHANGED asks
    /\ UNCHANGED <<registered, dropped, fields, todo, found, other, batch, packets>>

\* charID is set under the session lock; the guard has not passed it yet.
Bind(s) ==
    /\ pc[s] = "bind"
    /\ charID' = [charID EXCEPT ![s] = asks[s]]
    /\ passed' = [passed EXCEPT ![s] = FALSE]
    /\ Goto(s, "resolve")
    /\ UNCHANGED <<status, userID, locals, batch, packets>>

\* Mutant: only the channel the session is on is asked.
OwnChannel(s) == {channelOf[s]}

\* FindOtherCharacterSession asks every channel of the registry.
Asked(s) == Channel

\* GetUserID may fail, and the session goes on with the user it had.  userID is
\* written without the session lock, but the channel locks that both scans take
\* afterwards order the write of one of two sessions before the read of the other.
Resolve(s) ==
    /\ pc[s] = "resolve"
    /\ \/ /\ userID' = [userID EXCEPT ![s] = owner[charID[s]]]
          /\ todo' = [todo EXCEPT ![s] = Asked(s)]
          /\ found' = [found EXCEPT ![s] = {}]
          /\ Goto(s, "collect")
       \/ /\ Goto(s, "returned")
          /\ UNCHANGED <<userID, todo, found>>
    /\ UNCHANGED <<status, charID, passed, asks, other, batch, packets>>

\* FindOtherCharacterSession, first loop: one channel's map under its lock.
Collect(s) ==
    /\ pc[s] = "collect"
    /\ \/ \E ch \in todo[s] :
            /\ todo' = [todo EXCEPT ![s] = @ \ {ch}]
            /\ found' = [found EXCEPT ![s] =
                           @ \cup {t \in registered : channelOf[t] = ch}]
            /\ UNCHANGED pc
       \/ /\ todo[s] = {}
          /\ Goto(s, "inspect")
          /\ UNCHANGED <<todo, found>>
    /\ UNCHANGED <<status, fields, asks, other, batch, packets>>

\* Second loop: a closed candidate is passed over; with none left, the guard
\* lets the session in.  A database error after that is answered with a failure,
\* and the session stays as it is.
Inspect(s) ==
    /\ pc[s] = "inspect"
    /\ \/ \E t \in found[s] :
            \/ /\ closed[t]
               /\ found' = [found EXCEPT ![s] = @ \ {t}]
               /\ UNCHANGED <<passed, other, pc>>
            \/ /\ ~closed[t]
               /\ other' = [other EXCEPT ![s] = t]
               /\ Goto(s, "compare")
               /\ UNCHANGED <<passed, found>>
       \/ /\ found[s] = {}
          /\ passed' = [passed EXCEPT ![s] = TRUE]
          /\ Goto(s, "returned")
          /\ UNCHANGED <<found, other>>
    /\ UNCHANGED <<status, charID, userID, asks, todo, batch, packets>>

\* The open candidate plays another character of the same user.
Rival(s, t) == userID[t] = userID[s] /\ charID[t] # charID[s]

\* Its user and character are read under its lock.  For a rival, the handler
\* closes the connection and returns; it does not mark the session closed.
Compare(s) ==
    /\ pc[s] = "compare"
    /\ \/ /\ Rival(s, other[s])
          /\ dropped' = [dropped EXCEPT ![s] = TRUE]
          /\ Goto(s, "returned")
          /\ UNCHANGED found
       \/ /\ ~Rival(s, other[s])
          /\ found' = [found EXCEPT ![s] = @ \ {other[s]}]
          /\ Goto(s, "inspect")
          /\ UNCHANGED dropped
    /\ UNCHANGED <<registered, closed, fields, asks, todo, other, batch, packets>>

-----------------------------------------------------------------------------
(* The end of a session.                                                     *)

\* markClosed: a logout packet, a failed read, the idle timeout or a failed
\* send, whatever the handler is doing.
Close(s) ==
    /\ pc[s] # "new" /\ ~closed[s]
    /\ closed' = [closed EXCEPT ![s] = TRUE]
    /\ UNCHANGED <<registered, dropped, fields, locals, pc, batch, packets>>

\* logoutPlayerOnce, finalizeRuntimeLogout
Unregister(s) ==
    /\ closed[s] /\ s \in registered
    /\ registered' = registered \ {s}
    /\ UNCHANGED <<closed, dropped, fields, locals, pc, batch, packets>>

Login(s) == Check(s) \/ Bind(s) \/ Resolve(s) \/ Collect(s) \/ Inspect(s) \/ Compare(s)

Next == \E s \in Session :
    \/ Register(s) \/ Receive(s) \/ NextPacket(s) \/ Login(s)
    \/ Close(s) \/ Unregister(s)

Spec == Init /\ [][Next]_vars

-----------------------------------------------------------------------------
(* Properties.                                                               *)

\* handlers_session.go:136, "Refuse a second character on an account that is
\* already playing": however many logins race, on whatever channels, no two open
\* sessions the guard has let in play different characters of one user.
OneCharacterPerAccount ==
    \A s, t \in Session :
        /\ passed[s] /\ ~closed[s] /\ passed[t] /\ ~closed[t]
        /\ owner[charID[s]] = owner[charID[t]]
        => charID[s] = charID[t]

\* A login has finished with t: it found t on no channel, closed or no rival.
Cleared(s, t) ==
    \/ passed[s]
    \/ /\ pc[s] \in Scanning
       /\ channelOf[t] \notin todo[s] /\ t \notin found[s]

\* A session whose user and character are the ones its login asked for.
Published(s) == passed[s] \/ pc[s] \in Scanning

\* Why it holds: of two rivals that have both published themselves, at most one
\* can have finished with the other.
RivalsNoticed ==
    \A s, t \in Session :
        /\ s # t /\ Published(s) /\ Published(t) /\ ~closed[s] /\ ~closed[t]
        /\ Rival(s, t)
        => ~Cleared(s, t) \/ ~Cleared(t, s)

Identity ==
    \A s \in Session :
        /\ pc[s] = "bind" => asks[s] \in Char
        /\ pc[s] = "resolve" => charID[s] \in Char
        /\ Published(s) => charID[s] \in Char /\ userID[s] = owner[charID[s]]
        /\ passed[s] => pc[s] \notin Scanning /\ pc[s] # "resolve"
        /\ pc[s] = "inspect" => todo[s] = {}
        /\ pc[s] = "compare" => todo[s] = {} /\ other[s] \in found[s]
        /\ s \notin registered => closed[s] \/ (pc[s] = "new" /\ ~passed[s])

IInv == TypeOK /\ Identity /\ RivalsNoticed

\* sys_session.go:509, "A handler may reject the authenticated operation and
\* terminate the session. Do not dispatch any packets batched behind that
\* rejection."
RejectionStopsTheGroup ==
    [][\A s \in Session : dropped[s] /\ pc[s] = "returned" => pc'[s] # "check"]_vars
=============================================================================
