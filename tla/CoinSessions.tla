---------------------------- MODULE CoinSessions ----------------------------
(* Coins an operator grants to an account while its player may be in the     *)
(* game (api/dashboard_delivery.go, dashboarddelivery/coins.go), and the     *)
(* leases by which the channels tell whether anybody is (repo_session.go,    *)
(* dashboard_coin_delivery.go).  A transaction holds the account's row from  *)
(* start to end, so it is one step; it may fail, or be committed and report  *)
(* an error.  Login handlers and logouts of one connection overlap when the  *)
(* idle timeout runs the logout; a channel may crash and recovers the leases *)
(* of its former life before it accepts anybody.                             *)
EXTENDS Integers, Sequences, FiniteSets

CONSTANTS
    Request, Quantity, MaxCoins,    \* as in CoinLedger
    Link,           \* connections of one account, each used once
    tokenOf,        \* link -> the sign session it presents
    serverOf,       \* link -> the channel it is connected to
    Token, Server,
    Character,      \* characters of the account
    Nobody,         \* no character (0), no binding (NULL), no lease id ("")
    MaxBinds,       \* bound: login packets of a link
    MaxMishaps      \* bound: transactions that report an error

ASSUME CoinAssumption ==
    /\ MaxCoins \in Nat /\ Quantity \in [Request -> Nat \ {0}]
    /\ tokenOf \in [Link -> Token] /\ serverOf \in [Link -> Server]
    /\ Nobody \notin Character \cup Server \cup Nat
    /\ MaxBinds \in Nat /\ MaxMishaps \in Nat

VARIABLES
    balance,    \* users.gacha_premium
    queue,      \* pending receipts in the order of created_at
    paid,       \* credited receipts
    leases,     \* dashboard_coin_sessions: [link, nr, char, failed]
    binding,    \* sign_sessions: token -> the server it is bound to, or Nobody
    char,       \* Session.charID
    lease,      \* Session.dashboardCoinSessionID, the number of a lease
    binds,      \* lease ids the link has drawn
    login,      \* the login handler: "idle", "bind" or "publish"
    phase,       \* where the connection is
    savedOk,    \* logoutPlayerOnce's characterSaved
    attempts,   \* tries of FinishTrackedSession
    down,       \* channels that have crashed and not recovered
    mishaps,    \* transactions that have reported an error
    dirty       \* history: links with changes that are not saved

receiptVars == <<balance, queue, paid>>
linkVars == <<char, lease, binds, login, phase, savedOk, attempts>>
coinVars == <<receiptVars, leases, binding, linkVars, down, mishaps, dirty>>

Phase == {"online", "closed", "finish", "gone", "crashed"}
Lease == [link : Link, nr : Nat, char : Character, failed : BOOLEAN]

\* The receipts have the types of CoinLedger, which GrantsPaidOnce refines.
CoinTypeOK ==
    /\ leases \subseteq Lease
    /\ binding \in [Token -> Server \cup {Nobody}]
    /\ char \in [Link -> Character \cup {Nobody}]
    /\ lease \in [Link -> Nat \cup {Nobody}] /\ binds \in [Link -> Nat]
    /\ login \in [Link -> {"idle", "bind", "publish"}] /\ phase \in [Link -> Phase]
    /\ savedOk \in [Link -> BOOLEAN] /\ attempts \in [Link -> Nat]
    /\ down \subseteq Server /\ mishaps \in Nat /\ dirty \subseteq Link

CoinInit ==
    /\ balance \in 0 .. MaxCoins /\ queue = <<>> /\ paid = {}
    /\ leases = {} /\ binding = [t \in Token |-> Nobody]
    /\ char = [l \in Link |-> Nobody] /\ lease = [l \in Link |-> Nobody]
    /\ binds = [l \in Link |-> 0] /\ login = [l \in Link |-> "idle"]
    /\ phase = [l \in Link |-> "online"] /\ savedOk = [l \in Link |-> FALSE]
    /\ attempts = [l \in Link |-> 0]
    /\ down = {} /\ mishaps = 0 /\ dirty = {}

\* What becomes of a transaction: [committed, ok].
Outcome == {[committed |-> TRUE, ok |-> TRUE]} \cup
           (IF mishaps < MaxMishaps
            THEN [committed : BOOLEAN, ok : {FALSE}] ELSE {})

Note(o) == mishaps' = IF o.ok THEN mishaps ELSE mishaps + 1

-----------------------------------------------------------------------------
(* Settlement.                                                               *)

\* Mutant: only the sign session tells whether somebody is in the game.
BoundOnly(held, bound) == \E t \in Token : bound[t] # Nobody

\* dashboarddelivery.Online, asked of leases and bindings as they are by then.
AccountOnline(held, bound) == held # {} \/ \E t \in Token : bound[t] # Nobody

Sums(q) == LET sum[i \in 0 .. Len(q)] ==
                 IF i = 0 THEN 0 ELSE sum[i - 1] + Quantity[q[i]]
           IN sum

\* The receipts that are credited, up to the first that would overflow.
Payable == CHOOSE k \in 0 .. Len(queue) :
    /\ balance + Sums(queue)[k] <= MaxCoins
    /\ k < Len(queue) => balance + Sums(queue)[k + 1] > MaxCoins

\* The credit and the receipts change in one transaction.
Credit(k) ==
    /\ balance' = balance + Sums(queue)[k]
    /\ queue' = SubSeq(queue, k + 1, Len(queue))
    /\ paid' = paid \cup {queue[i] : i \in 1 .. k}

\* SettleLocked, at the end of a transaction that leaves these leases and bindings.
SettleLocked(held, bound) ==
    IF AccountOnline(held, bound) THEN UNCHANGED receiptVars ELSE Credit(Payable)

-----------------------------------------------------------------------------
(* The operator.                                                             *)

Waits(r) == \E i \in DOMAIN queue : queue[i] = r

\* The receipt of a request that is repeated is returned as it is.
KnownRequest(r) == r \in paid \/ Waits(r)

\* deliverDashboardCoins: nothing that could not be credited with all that waits;
\* pending while somebody is in the game, credited at once otherwise.
DeliverCoins(r) ==
    /\ ~KnownRequest(r)
    /\ balance + Sums(queue)[Len(queue)] + Quantity[r] <= MaxCoins
    /\ IF AccountOnline(leases, binding)
       THEN \E i \in 0 .. Len(queue) :
              /\ queue' = SubSeq(queue, 1, i) \o <<r>> \o SubSeq(queue, i + 1, Len(queue))
              /\ UNCHANGED <<balance, paid>>
       ELSE /\ balance' = balance + Sums(queue)[Len(queue)] + Quantity[r]
            /\ paid' = paid \cup {queue[i] : i \in DOMAIN queue} \cup {r}
            /\ queue' = <<>>
    /\ UNCHANGED <<leases, binding, linkVars, down, mishaps, dirty>>

-----------------------------------------------------------------------------
(* A connection.                                                             *)

Serving(l) == serverOf[l] \notin down

\* handleMsgSysLogin publishes the character; a client may repeat the packet.
Login(l, c) ==
    /\ phase[l] = "online" /\ Serving(l) /\ login[l] = "idle" /\ binds[l] < MaxBinds
    /\ char' = [char EXCEPT ![l] = c]
    /\ binds' = [binds EXCEPT ![l] = @ + 1]
    /\ login' = [login EXCEPT ![l] = "bind"]
    /\ UNCHANGED <<receiptVars, leases, binding, lease, phase, savedOk, attempts,
                   down, mishaps, dirty>>

\* A query before the bind fails, or the handler has been refused.
LoginFails(l) ==
    /\ login[l] = "bind" /\ phase[l] # "crashed"
    /\ login' = [login EXCEPT ![l] = "idle"]
    /\ UNCHANGED <<receiptVars, leases, binding, char, lease, binds, phase, savedOk,
                   attempts, down, mishaps, dirty>>

\* bindSession: settle what waits for an account nobody plays, then take a lease
\* and the sign session.
Bind(l) ==
    /\ login[l] = "bind" /\ phase[l] # "crashed"
    /\ \E o \in Outcome :
         /\ IF o.committed
            THEN /\ SettleLocked(leases, binding)
                 /\ leases' = leases \cup {[link |-> l, nr |-> binds[l], char |-> char[l],
                                           failed |-> FALSE]}
                 /\ binding' = [binding EXCEPT ![tokenOf[l]] = serverOf[l]]
            ELSE UNCHANGED <<receiptVars, leases, binding>>
         /\ login' = [login EXCEPT ![l] = IF o.ok THEN "publish" ELSE "idle"]
         /\ dirty' = IF o.ok /\ phase[l] \in {"online", "closed"} THEN dirty \cup {l}
                     ELSE dirty
         /\ Note(o)
    /\ UNCHANGED <<char, lease, binds, phase, savedOk, attempts, down>>

\* The handler stores the id of its lease in the session.
Publish(l) ==
    /\ login[l] = "publish" /\ phase[l] # "crashed"
    /\ lease' = [lease EXCEPT ![l] = binds[l]]
    /\ login' = [login EXCEPT ![l] = "idle"]
    /\ UNCHANGED <<receiptVars, leases, binding, char, binds, phase, savedOk, attempts,
                   down, mishaps, dirty>>

\* Whatever a player buys and earns.
PlayerTrades(l) ==
    /\ phase[l] = "online" /\ l \in dirty
    /\ balance' \in 0 .. MaxCoins
    /\ UNCHANGED <<queue, paid, leases, binding, linkVars, down, mishaps, dirty>>

Close(l) ==
    /\ phase[l] = "online" /\ Serving(l)
    /\ phase' = [phase EXCEPT ![l] = "closed"]
    /\ UNCHANGED <<receiptVars, leases, binding, char, lease, binds, login, savedOk,
                   attempts, down, mishaps, dirty>>

\* logoutPlayerOnce up to finishDashboardCoinSession: the save succeeds or not; a
\* session without a character has nothing to save.
SaveLink(l) ==
    /\ phase[l] = "closed"
    /\ \E ok \in BOOLEAN :
         /\ char[l] = Nobody => ~ok
         /\ ~ok => mishaps < MaxMishaps \/ char[l] = Nobody
         /\ mishaps' = IF ok \/ char[l] = Nobody THEN mishaps ELSE mishaps + 1
         /\ savedOk' = [savedOk EXCEPT ![l] = ok]
         /\ dirty' = IF ok THEN dirty \ {l} ELSE dirty
    /\ phase' = [phase EXCEPT ![l] = "finish"]
    /\ UNCHANGED <<receiptVars, leases, binding, char, lease, binds, login, attempts, down>>

\* ClearSession, for a connection without a lease id.
FinishUntracked(l) ==
    /\ phase[l] = "finish" /\ lease[l] = Nobody
    /\ binding' = IF char[l] = Nobody THEN binding
                  ELSE [binding EXCEPT ![tokenOf[l]] = Nobody]
    /\ phase' = [phase EXCEPT ![l] = "gone"]
    /\ UNCHANGED <<receiptVars, leases, char, lease, binds, login, savedOk, attempts,
                   down, mishaps, dirty>>

Own(l, x) == x.link = l /\ x.nr = lease[l]

\* What FinishTrackedSession leaves of the leases: a save deletes the connection's
\* own and the failed ones of its character, a failed save marks its own.
Kept(l) ==
    IF savedOk[l] THEN {x \in leases : ~Own(l, x) /\ ~(x.char = char[l] /\ x.failed)}
    ELSE {x \in leases : ~Own(l, x)} \cup
         {[x EXCEPT !.failed = TRUE] : x \in {y \in leases : Own(l, y)}}

\* Mutant: the binding is never given back.
LeftBound(t, held) == {binding[t]}

\* A live lease of the token, the newest, or none.
Rebound(t, held) ==
    LET alive == {x \in held : tokenOf[x.link] = t /\ ~x.failed}
    IN IF alive = {} THEN {Nobody} ELSE {serverOf[x.link] : x \in alive}

\* The connections whose changes go with the leases.
Forgiven(held) == {x.link : x \in leases \ held} \ {x.link : x \in held}

FinishTracked(l) ==
    /\ phase[l] = "finish" /\ lease[l] # Nobody
    /\ \E o \in Outcome :
         /\ IF o.committed /\ \E x \in leases : Own(l, x) /\ x.char = char[l]
            THEN /\ leases' = Kept(l)
                 /\ \E s \in Rebound(tokenOf[l], Kept(l)) :
                      binding' = [binding EXCEPT ![tokenOf[l]] = s]
                 /\ IF savedOk[l] THEN SettleLocked(leases', binding')
                    ELSE UNCHANGED receiptVars
                 /\ dirty' = IF savedOk[l] THEN dirty \ Forgiven(leases') ELSE dirty
            ELSE UNCHANGED <<receiptVars, leases, binding, dirty>>
         /\ Note(o)
         /\ attempts' = [attempts EXCEPT ![l] = @ + 1]
         /\ phase' = [phase EXCEPT ![l] = IF o.ok \/ attempts[l] = 1 THEN "gone" ELSE @]
    /\ UNCHANGED <<char, lease, binds, login, savedOk, down>>

-----------------------------------------------------------------------------
(* A channel.                                                                *)

Crash(s) ==
    /\ s \notin down
    /\ down' = down \cup {s}
    /\ phase' = [l \in Link |-> IF serverOf[l] = s /\ binds[l] > 0 THEN "crashed" ELSE phase[l]]
    /\ UNCHANGED <<receiptVars, leases, binding, char, lease, binds, login, savedOk,
                   attempts, mishaps, dirty>>

\* Mutant: the recovery forgets to settle.
RecoverQuietly(held, bound) == UNCHANGED receiptVars

AfterRecovery(held, bound) == SettleLocked(held, bound)

\* RecoverDashboardCoinSessions, before the channel accepts anybody; an error
\* stops the start.  An account without a lease there is not looked at.
Recover(s) ==
    /\ s \in down
    /\ LET mine == {x \in leases : serverOf[x.link] = s} IN
       \E o \in Outcome :
         /\ IF o.committed /\ mine # {}
            THEN /\ leases' = leases \ mine
                 /\ binding' = [t \in Token |-> IF binding[t] = s THEN Nobody ELSE binding[t]]
                 /\ AfterRecovery(leases', binding')
                 /\ dirty' = {l \in dirty : serverOf[l] # s}
            ELSE UNCHANGED <<receiptVars, leases, binding, dirty>>
         /\ Note(o)
         /\ down' = IF o.ok THEN down \ {s} ELSE down
    /\ UNCHANGED linkVars

Handler(l) == LoginFails(l) \/ Bind(l) \/ Publish(l)
LogoutLink(l)  == SaveLink(l) \/ FinishUntracked(l) \/ FinishTracked(l)

CoinNext ==
    \/ \E r \in Request : DeliverCoins(r)
    \/ \E l \in Link : \/ \E c \in Character : Login(l, c)
                       \/ Handler(l) \/ PlayerTrades(l) \/ Close(l) \/ LogoutLink(l)
    \/ \E s \in Server : Crash(s) \/ Recover(s)

\* Handlers return and logouts go on; nobody has to log out, and nothing obliges
\* an operator to start a channel again.
CoinFairness == \A l \in Link : WF_coinVars(Handler(l)) /\ WF_coinVars(LogoutLink(l))

CoinSpec == CoinInit /\ [][CoinNext]_coinVars /\ CoinFairness

-----------------------------------------------------------------------------
(* Properties.                                                               *)

\* Whoever may have unsaved changes has a lease, and a sign session is bound to a
\* channel only as long as a connection that presented it has a live lease there.
LeasesTellTheTruth ==
    /\ \A l \in dirty : \E x \in leases : x.link = l
    /\ \A t \in Token : binding[t] # Nobody =>
         \E x \in leases : tokenOf[x.link] = t /\ serverOf[x.link] = binding[t]
                            /\ ~x.failed

\* A handler that is about to take a lease has published whose it is.
BindsAreNamed == \A l \in Link : login[l] = "bind" => char[l] \in Character

CoinInv == CoinTypeOK /\ LeasesTellTheTruth /\ BindsAreNamed

\* Receipts are credited in a transaction that starts or ends with all connections
\* of the account saved.
CreditFindsAllSaved == [][paid' # paid => dirty = {} \/ dirty' = {}]_coinVars

\* No receipt is forgotten: while one waits that would fit, a lease is left whose
\* end settles the queue.
NothingForgotten ==
    queue # <<>> =>
        leases # {} \/ balance + Quantity[queue[1]] > MaxCoins

Ledger == INSTANCE CoinLedger

\* dashboarddelivery/coins.go:26, "credits pending receipts ... only if all account
\* connections have finished saving": leases and sign sessions implement CoinLedger.
GrantsPaidOnce == Ledger!LedgerSpec

\* Nobody who is there will give this lease back: its connection is gone, or has
\* logged in again since.
Stranded == \E x \in leases : phase[x.link] \in {"gone", "crashed"} \/ x.nr # binds[x.link]

Playing == \E l \in Link : phase[l] = "online" /\ binds[l] > 0

\* What waits is credited when the last connection has logged out, unless it does
\* not fit or a lease is stranded.
PaidInTheEnd ==
    queue # <<>> ~> \/ queue = <<>> \/ Playing \/ Stranded
                    \/ balance + Quantity[queue[1]] > MaxCoins
=============================================================================
