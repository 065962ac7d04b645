--------------------------- MODULE SessionWorkers ---------------------------
(* The goroutines of one session (sys_session.go): the receive loop and its  *)
(* handlers, the send loop behind a queue of fixed size, and the three       *)
(* workers a stage entry starts: daily coins, cafe bonus and coin notices    *)
(* (daily_gacha_coins.go, cafe_daily_bonus.go, dashboard_coin_delivery.go).  *)
(* A logout closes the session and waits for the workers before it saves.  A *)
(* coin notice is consumed in the database after its socket write; its wait  *)
(* ends with an answer of the send loop, a context or the session.           *)
EXTENDS Integers, Sequences

CONSTANTS
    QueueSize,      \* cap(sendPackets), 20 in the code
    Receipt,        \* notices for the character, numbers in the order of created_at
    Enabled,        \* workers the configuration does not switch off
    MaxFailures     \* bound: statements that fail and contexts that expire

ASSUME WorkersAssumption ==
    /\ QueueSize \in Nat \ {0} /\ MaxFailures \in Nat
    /\ Receipt \subseteq Nat \ {0} /\ Enabled \subseteq {"daily", "cafe", "notices"}

VARIABLES
    isClosed,       \* Session.closed
    doneClosed,     \* Session.done is closed
    connOpen,       \* rawConn is not closed on this side
    sendPackets,    \* [try, notice]; a packet of anybody else has try 0
    sendLoop,       \* where the send loop is
    recvLoop,       \* where the receive loop is
    worker,         \* where the workers are
    logout,         \* where logoutPlayer is
    try,            \* the notices' current attempt
    expired,        \* its sendContext is done
    sent,           \* its sent channel
    unannounced,    \* receipts with notified_at NULL
    written,        \* history: notices written to the socket
    failures

endVars    == <<isClosed, doneClosed, connOpen>>
noticeVars == <<try, expired, sent, unannounced>>
workVars == <<endVars, sendPackets, sendLoop, recvLoop, worker, logout, noticeVars,
              written, failures>>

\* In the order in which a stage entry starts them and a logout waits for them.
Worker == {"daily", "cafe", "notices"}
After(w, end) == IF w = "daily" THEN "cafe" ELSE IF w = "cafe" THEN "notices" ELSE end

Chat == [try |-> 0, notice |-> 0]

WorkInit ==
    /\ isClosed = FALSE /\ doneClosed = FALSE /\ connOpen = TRUE
    /\ sendPackets = <<>> /\ sendLoop = [at |-> "look", held |-> Chat]
    /\ recvLoop = "read" /\ worker = [w \in Worker |-> "none"] /\ logout = "none"
    /\ try = 0 /\ expired = TRUE /\ sent = "none"
    /\ unannounced = Receipt /\ written = {} /\ failures = 0

-----------------------------------------------------------------------------
(* Closing and queueing.                                                     *)

\* markClosed stores the flag, then closes the channel; whoever called it goes on
\* when the channel is closed.
CloseDone ==
    /\ isClosed /\ ~doneClosed
    /\ doneClosed' = TRUE
    /\ UNCHANGED <<isClosed, connOpen, sendPackets, sendLoop, recvLoop, worker, logout,
                   noticeVars, written, failures>>

HasRoom == Len(sendPackets) < QueueSize

\* Mutant: a blocked sender does not hear of the end.
SelectQueue == HasRoom /\ sendPackets' = Append(sendPackets, Chat)

\* QueueSend's select, after its look at the closed flag.
Select == \/ HasRoom /\ sendPackets' = Append(sendPackets, Chat)
          \/ doneClosed /\ UNCHANGED sendPackets

\* QueueSendNonBlocking, called by sessions that broadcast.
Broadcast ==
    /\ ~isClosed /\ HasRoom
    /\ sendPackets' = Append(sendPackets, Chat)
    /\ UNCHANGED <<endVars, sendLoop, recvLoop, worker, logout, noticeVars, written, failures>>

-----------------------------------------------------------------------------
(* sendLoop                                                                  *)

Look ==
    /\ sendLoop.at = "look"
    /\ sendLoop' = [sendLoop EXCEPT !.at = IF isClosed THEN "stopped" ELSE "drain"]
    /\ UNCHANGED <<endVars, sendPackets, recvLoop, worker, logout, noticeVars, written, failures>>

Dead(p) == p.try # 0 /\ (p.try # try \/ expired)

\* Mutant: sent is answered when the packet is taken, not when it is written.
AnswerEarly(p) == IF p.try # try \/ sent # "none" THEN sent
                  ELSE IF Dead(p) THEN "error" ELSE "ok"

\* A packet whose context is done is reported and skipped.
AnswerTaken(p) == IF p.try = try /\ Dead(p) THEN "error" ELSE sent

Take ==
    /\ sendLoop.at = "drain"
    /\ IF sendPackets = <<>>
       THEN sendLoop' = [sendLoop EXCEPT !.at = "look"] /\ UNCHANGED <<sendPackets, sent>>
       ELSE LET p == Head(sendPackets) IN
            /\ sendPackets' = Tail(sendPackets)
            /\ sent' = AnswerTaken(p)
            /\ sendLoop' = IF Dead(p) THEN sendLoop ELSE [at |-> "write", held |-> p]
    /\ UNCHANGED <<endVars, recvLoop, worker, logout, try, expired, unannounced, written,
                   failures>>

\* The write succeeds, or fails and ends the session; either way it is reported.
Write ==
    /\ sendLoop.at = "write"
    /\ LET p == sendLoop.held IN
       \E ok \in BOOLEAN :
         /\ ok => connOpen
         /\ sent' = IF p.try = 0 \/ p.try # try THEN sent
                    ELSE IF sent # "none" THEN sent ELSE IF ok THEN "ok" ELSE "error"
         /\ written' = IF ok /\ p.try # 0 THEN written \cup {p.notice} ELSE written
         /\ isClosed' = (isClosed \/ ~ok)
         /\ sendLoop' = [at |-> IF ok THEN "drain" ELSE "broken", held |-> Chat]
    /\ UNCHANGED <<doneClosed, connOpen, sendPackets, recvLoop, worker, logout, try, expired,
                   unannounced, failures>>

\* closeConnection follows markClosed.
HangUpAfterError ==
    /\ sendLoop.at = "broken" /\ doneClosed
    /\ connOpen' = FALSE
    /\ sendLoop' = [sendLoop EXCEPT !.at = "stopped"]
    /\ UNCHANGED <<isClosed, doneClosed, sendPackets, recvLoop, worker, logout, noticeVars,
                   written, failures>>

SendLoop == Look \/ Take \/ Write \/ HangUpAfterError

-----------------------------------------------------------------------------
(* recvLoop                                                                  *)

\* A packet is handled; a logout packet or a panicking handler closes the session.
\* A stage entry is acknowledged and then starts the workers.
Read ==
    /\ recvLoop = "read"
    /\ IF isClosed
       THEN recvLoop' = "logout" /\ UNCHANGED <<isClosed, sendPackets>>
       ELSE \/ recvLoop' = "logout" /\ UNCHANGED <<isClosed, sendPackets>>
            \/ connOpen /\ recvLoop' \in {"ack", "enter"} /\ UNCHANGED <<isClosed, sendPackets>>
            \/ connOpen /\ isClosed' = TRUE /\ recvLoop' \in {"marking", "panicked"}
                        /\ UNCHANGED sendPackets
    /\ UNCHANGED <<doneClosed, connOpen, sendLoop, worker, logout, noticeVars, written, failures>>

Acked == IF recvLoop \in {"ack", "acking"} THEN "read" ELSE "daily"

\* QueueSend looks at the flag and then selects.
Ack ==
    /\ \/ recvLoop \in {"ack", "enter"} /\ UNCHANGED sendPackets
          /\ recvLoop' = IF isClosed THEN Acked
                         ELSE IF recvLoop = "ack" THEN "acking" ELSE "entering"
       \/ recvLoop \in {"acking", "entering"} /\ Select /\ recvLoop' = Acked
    /\ UNCHANGED <<endVars, sendLoop, worker, logout, noticeVars, written, failures>>

\* startDailyCoins, startCafeBonus, startDashboardCoinNotices, under the session's lock.
Startable(w) == w \in Enabled /\ ~isClosed /\ worker[w] = "none"

StartWorker ==
    /\ recvLoop \in Worker
    /\ worker' = IF Startable(recvLoop) THEN [worker EXCEPT ![recvLoop] = "timer"] ELSE worker
    /\ recvLoop' = After(recvLoop, "read")
    /\ UNCHANGED <<endVars, sendPackets, sendLoop, logout, noticeVars, written, failures>>

\* The handler's markClosed returns, a recovered panic hangs up as well.
Marked ==
    /\ recvLoop \in {"marking", "panicked"} /\ doneClosed
    /\ connOpen' = (connOpen /\ recvLoop = "marking")
    /\ recvLoop' = "read"
    /\ UNCHANGED <<isClosed, doneClosed, sendPackets, sendLoop, worker, logout, noticeVars,
                   written, failures>>


-----------------------------------------------------------------------------
(* runDailyCoins and runCafeBonus                                            *)

Goes(w, from, to) == worker[w] = from /\ worker' = [worker EXCEPT ![w] = to]

\* The timer finds the session open, settles and may have something to say, if the
\* session is not closed by then; done ends the worker, the daily coins with a last
\* settlement.
Chatter(w) ==
    /\ w \in {"daily", "cafe"}
    /\ \/ ~isClosed /\ Goes(w, "timer", "busy") /\ UNCHANGED sendPackets
       \/ Goes(w, "busy", "timer") /\ UNCHANGED sendPackets
       \/ ~isClosed /\ Goes(w, "busy", "queue") /\ UNCHANGED sendPackets
       \/ Goes(w, "queue", "timer") /\ Select
       \/ doneClosed /\ Goes(w, "timer", IF w = "daily" THEN "final" ELSE "gone")
                     /\ UNCHANGED sendPackets
       \/ Goes(w, "final", "gone") /\ UNCHANGED sendPackets
    /\ UNCHANGED <<endVars, sendLoop, recvLoop, logout, noticeVars, written, failures>>

-----------------------------------------------------------------------------
(* startDashboardCoinNotices' goroutine, SendNextNotice, sendDashboardCoinNotice *)

Oldest == CHOOSE n \in unannounced : \A k \in unannounced : n <= k

NoticeTimer ==
    /\ \/ worker["notices"] = "timer" /\ doneClosed
          /\ worker' = [worker EXCEPT !["notices"] = "gone"] /\ UNCHANGED <<try, expired, sent>>
       \/ IF unannounced = {}
          THEN Goes("notices", "timer", "gone") /\ UNCHANGED <<try, expired, sent>>
          ELSE Goes("notices", "timer", "offer")
               /\ try' = try + 1 /\ expired' = FALSE /\ sent' = "none"
    /\ UNCHANGED <<endVars, sendPackets, sendLoop, recvLoop, logout, unannounced, written,
                   failures>>

\* Mutant: the worker gives up with the first failure.
GiveUp ==
    /\ worker' = [worker EXCEPT !["notices"] = "gone"]
    /\ expired' = TRUE

\* The row stays for a retry, unless the session is over.
Retry ==
    /\ worker' = [worker EXCEPT !["notices"] = IF isClosed THEN "gone" ELSE "timer"]
    /\ expired' = TRUE

\* The packet is offered to the queue; the session or the context may end first.
Offer ==
    /\ worker["notices"] = "offer"
    /\ \/ /\ ~isClosed /\ worker' = [worker EXCEPT !["notices"] = "select"]
          /\ UNCHANGED expired
       \/ isClosed /\ Retry
    /\ UNCHANGED <<endVars, sendPackets, sendLoop, recvLoop, logout, try, sent, unannounced,
                   written, failures>>

Enqueue ==
    /\ worker["notices"] = "select"
    /\ \/ /\ HasRoom
          /\ sendPackets' = Append(sendPackets, [try |-> try, notice |-> Oldest])
          /\ worker' = [worker EXCEPT !["notices"] = "await"]
          /\ UNCHANGED expired
       \/ (doneClosed \/ expired) /\ Retry /\ UNCHANGED sendPackets
    /\ UNCHANGED <<endVars, sendLoop, recvLoop, logout, try, sent, unannounced, written,
                   failures>>

\* The answer, the end of the session or of the context, whichever is seen first.
Await ==
    /\ worker["notices"] = "await"
    /\ \/ /\ sent = "ok"
          /\ worker' = [worker EXCEPT !["notices"] = "consume"] /\ UNCHANGED expired
       \/ (sent = "error" \/ doneClosed \/ expired) /\ Retry
    /\ UNCHANGED <<endVars, sendPackets, sendLoop, recvLoop, logout, try, sent, unannounced,
                   written, failures>>

\* notified_at is set and committed; a failing statement rolls back, a failing
\* commit may have been one.
Consume ==
    /\ worker["notices"] = "consume"
    /\ \/ /\ ~expired
          /\ worker' = [worker EXCEPT !["notices"] = "timer"] /\ expired' = TRUE
          /\ unannounced' = unannounced \ {Oldest} /\ UNCHANGED failures
       \/ /\ expired \/ failures < MaxFailures
          /\ failures' = IF expired THEN failures ELSE failures + 1
          /\ unannounced' \in {unannounced, unannounced \ {Oldest}} /\ Retry
    /\ UNCHANGED <<endVars, sendPackets, sendLoop, recvLoop, logout, try, sent, written>>

\* The context of the attempt runs out.
Expire ==
    /\ ~expired /\ failures < MaxFailures
    /\ expired' = TRUE /\ failures' = failures + 1
    /\ UNCHANGED <<endVars, sendPackets, sendLoop, recvLoop, worker, logout, try, sent,
                   unannounced, written>>

NoticeWorker == NoticeTimer \/ Offer \/ Enqueue \/ Await \/ Consume

-----------------------------------------------------------------------------
(* logoutPlayer                                                              *)

\* By the receive loop or by the idle check; the Once lets one caller through.
BeginLogout ==
    /\ logout = "none"
    /\ logout' = "marking" /\ isClosed' = TRUE
    /\ UNCHANGED <<doneClosed, connOpen, sendPackets, sendLoop, recvLoop, worker, noticeVars,
                   written, failures>>

HangUpForLogout ==
    /\ logout = "marking" /\ doneClosed
    /\ connOpen' = FALSE /\ logout' = "daily"
    /\ UNCHANGED <<isClosed, doneClosed, sendPackets, sendLoop, recvLoop, worker, noticeVars,
                   written, failures>>

\* waitDailyCoins, waitCafeBonus, waitDashboardCoinNotices.
WaitFor ==
    /\ logout \in Worker /\ worker[logout] \in {"none", "gone"}
    /\ logout' = After(logout, "once")
    /\ UNCHANGED <<endVars, sendPackets, sendLoop, recvLoop, worker, noticeVars, written,
                   failures>>

\* logoutPlayerOnce and finalizeRuntimeLogout.
EndLogout ==
    /\ logout = "once"
    /\ logout' = "gone"
    /\ UNCHANGED <<endVars, sendPackets, sendLoop, recvLoop, worker, noticeVars, written,
                   failures>>

\* The receive loop's caller returns with the Once.
Return ==
    /\ recvLoop = "logout" /\ logout = "gone"
    /\ recvLoop' = "returned"
    /\ UNCHANGED <<endVars, sendPackets, sendLoop, worker, logout, noticeVars, written,
                   failures>>

RecvLoop == \/ Read \/ Ack \/ StartWorker \/ Marked
            \/ recvLoop = "logout" /\ BeginLogout
            \/ Return

LogoutPlayer == HangUpForLogout \/ WaitFor \/ EndLogout

WorkNext ==
    \/ CloseDone \/ Broadcast \/ SendLoop \/ RecvLoop
    \/ \E w \in Worker : Chatter(w)
    \/ NoticeWorker \/ Expire
    \/ BeginLogout \/ LogoutPlayer

\* The goroutines run, reads return and statements end.  The blocked sender of a
\* notice gets its turn: the runtime serves the senders of a channel in order.
WorkFairness ==
    /\ WF_workVars(CloseDone \/ LogoutPlayer) /\ WF_workVars(SendLoop)
    /\ WF_workVars(RecvLoop) /\ WF_workVars(\E w \in Worker : Chatter(w))
    /\ WF_workVars(NoticeWorker) /\ SF_workVars(Enqueue)

WorkSpec == WorkInit /\ [][WorkNext]_workVars /\ WorkFairness

-----------------------------------------------------------------------------
(* Properties.                                                               *)

SendPc   == {"look", "drain", "write", "broken", "stopped"}
RecvPc   == Worker \cup {"read", "ack", "acking", "enter", "entering", "marking",
                         "panicked", "logout", "returned"}
AtHand   == {"offer", "select", "await", "consume"}
WorkerPc == AtHand \cup {"none", "timer", "busy", "queue", "final", "gone"}
LogoutPc == Worker \cup {"none", "marking", "once", "gone"}
QueuedPacket == {p \in [try : Nat, notice : Receipt \cup {0}] :
                  p.try # 0 => p.notice \in Receipt}

WorkTypeOK ==
    /\ isClosed \in BOOLEAN /\ doneClosed \in BOOLEAN /\ connOpen \in BOOLEAN
    /\ sendPackets \in Seq(QueuedPacket) /\ Len(sendPackets) <= QueueSize
    /\ sendLoop \in [at : SendPc, held : QueuedPacket]
    /\ recvLoop \in RecvPc /\ worker \in [Worker -> WorkerPc] /\ logout \in LogoutPc
    /\ try \in Nat /\ expired \in BOOLEAN /\ sent \in {"none", "ok", "error"}
    /\ unannounced \subseteq Receipt /\ written \subseteq Receipt /\ failures \in Nat

\* dashboarddelivery/coins.go:71, "send must complete the socket write, not merely put
\* a message in a droppable queue": what is consumed has been written, whichever of
\* answer, context, session and retry came first.
ConsumedWereWritten == Receipt \ unannounced \subseteq written

\* The attempts of packets are not ahead of the worker's; those of the attempt it is
\* at carry the oldest notice.
Announces(p) ==
    /\ p.try <= try
    /\ worker["notices"] \in AtHand /\ p.try = try => p.notice = Oldest

\* An answer in the worker's hand is one for the notice it is about to consume, a
\* late answer to an earlier attempt is not taken for it.
AnswersAreForTheNotice ==
    /\ \A i \in 1 .. Len(sendPackets) : Announces(sendPackets[i])
    /\ Announces(sendLoop.held)
    /\ worker["notices"] \in AtHand =>
         /\ unannounced # {} /\ try > 0
         /\ sent = "ok" => Oldest \in written
    /\ worker["notices"] = "consume" => Oldest \in written

Quiet(w) == worker[w] \in {"none", "gone"}

\* The final save of a logout finds every worker at its end, and none starts later,
\* although the handler that starts them may still be running.
QuietAtSave == logout \in {"once", "gone"} => \A w \in Worker : Quiet(w)

\* Why it does: the session is closed before its workers are waited for, in turn.
WaitedInTurn ==
    /\ logout # "none" => isClosed
    /\ logout \in {"cafe", "notices"} => Quiet("daily")
    /\ logout = "notices" => Quiet("cafe")

GoroutinesInv ==
    /\ WorkTypeOK /\ ConsumedWereWritten /\ AnswersAreForTheNotice
    /\ QuietAtSave /\ WaitedInTurn

\* SendNextNotice, "ORDER BY created_at,request_id LIMIT 1": notices are consumed from
\* the oldest on and none is passed over, whatever fails; and the worker ends with notices left only
\* if the session is over, so that another one finds them.
NoticesKept ==
    /\ doneClosed => isClosed
    /\ worker["notices"] = "gone" => unannounced = {} \/ isClosed
    /\ \A n \in Receipt \ unannounced, k \in unannounced : n < k

WorkersInv == GoroutinesInv /\ NoticesKept

\* A session that is closed gets through its logout, whoever closed it and however
\* full its queue was: neither a handler nor a worker stays blocked on it.
ClosedLogsOut == isClosed ~> logout = "gone"

\* A notice is shown in the end if the session stays.
NoticeShown ==
    worker["notices"] # "none" ~> unannounced = {} \/ isClosed
=============================================================================
