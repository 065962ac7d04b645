----------------------------- MODULE DailyCoins -----------------------------
(* Daily gacha coins (daily_gacha_coins.go): an account earns coins for its  *)
(* first appearance on a day and again for an hour online, however many      *)
(* connections, channels and retries report the time.  Each connection's     *)
(* worker settles the time since its last successful settlement; a           *)
(* settlement holds the account's row and is one step that may fail, or      *)
(* commit and report an error.  Times are small integers.                    *)
EXTENDS Integers, Sequences, FiniteSets, Functions

CONSTANTS
    Visit,      \* connections of one account that enter a stage
    DayLength,
    Horizon,    \* bound: the last moment
    Required,   \* dailyCoinRequiredMS
    MaxErrors,  \* bound: settlements that report an error
    Never       \* dailyCoinsClosedAt is 0, no time captured

ASSUME DailyAssumption ==
    /\ DayLength \in Nat \ {0} /\ Horizon \in Nat
    /\ Required \in 1 .. DayLength /\ MaxErrors \in Nat
    /\ Never \notin Nat

VARIABLES
    now,
    account,    \* daily_gacha_coins: day -> [first, bonus, online, intervals]
    coins,      \* dailyCoinAmounts added to users.gacha_premium
    worker,     \* visit -> [at, from, until]: runDailyCoins
    closedAt,   \* visit -> Session.dailyCoinsClosedAt
    ended,      \* visits whose Session.closed and done are set
    entered,    \* history: visit -> when its worker started
    errors      \* settlements that have reported an error

dailyVars == <<now, account, coins, worker, closedAt, ended, entered, errors>>

Moment == 0 .. Horizon
Day == 0 .. Horizon \div DayLength
Midnight(t) == (t \div DayLength) * DayLength

NoRow == [first |-> FALSE, bonus |-> FALSE, online |-> 0, intervals |-> <<>>]

DailyInit ==
    /\ now = 0 /\ coins = 0 /\ errors = 0
    /\ account = [d \in Day |-> NoRow]
    /\ worker = [v \in Visit |-> [at |-> "none", from |-> 0, until |-> 0]]
    /\ closedAt = [v \in Visit |-> Never] /\ entered = [v \in Visit |-> Never]
    /\ ended = {}

-----------------------------------------------------------------------------
(* mergeDailyCoinIntervals                                                   *)

\* Mutant: intervals are added up without their union.
AppendInterval(merged, span) == Append(merged, span)

\* One interval joins the last one that it touches or overlaps.
Merge(merged, span) ==
    LET n == Len(merged) IN
    IF n = 0 \/ span[1] > merged[n][2] THEN Append(merged, span)
    ELSE IF span[2] > merged[n][2] THEN [merged EXCEPT ![n] = <<@[1], span[2]>>]
    ELSE merged

\* sort.Slice: in the order of their starts, equal ones in any.
ByStart(spans) ==
    LET n == Len(spans)
        order == CHOOSE p \in Bijection(1 .. n, 1 .. n) :
                   \A i \in 1 .. n - 1 : spans[p[i]][1] <= spans[p[i + 1]][1]
    IN [i \in 1 .. n |-> spans[order[i]]]

\* What is merged of the first i intervals, and how long they are together.
Merging(spans) ==
    LET merged[i \in 0 .. Len(spans)] ==
          IF i = 0 THEN <<>> ELSE Merge(merged[i - 1], spans[i])
    IN merged

Lengths(spans) ==
    LET sum[i \in 0 .. Len(spans)] ==
          IF i = 0 THEN 0 ELSE sum[i - 1] + (spans[i][2] - spans[i][1])
    IN sum

Merged(spans, next) ==
    LET all == ByStart(IF next[2] > next[1] THEN Append(spans, next) ELSE spans)
    IN Merging(all)[Len(all)]

Total(merged) ==
    IF Lengths(merged)[Len(merged)] < Required THEN Lengths(merged)[Len(merged)] ELSE Required

-----------------------------------------------------------------------------
(* settleDailyCoins                                                          *)

\* The days of an interval; a live session appears on the next day at midnight,
\* one that logs out then does not.
Days(from, until, includeEnd) ==
    {d \in Day : /\ d >= Midnight(from) \div DayLength
                 /\ d * DayLength < until \/ (includeEnd /\ d * DayLength = until)}

\* A day's row after the interval [from, until): once the bonus is claimed, time
\* is not tracked any more.
Settled(row, d, from, until) ==
    LET start == (IF from > d * DayLength THEN from ELSE d * DayLength) - d * DayLength
        end   == (IF until < (d + 1) * DayLength THEN until ELSE (d + 1) * DayLength)
                   - d * DayLength
        spans == Merged(row.intervals, <<start, end>>)
    IN IF row.bonus THEN [row EXCEPT !.first = TRUE]
       ELSE IF Total(spans) >= Required
            THEN [first |-> TRUE, bonus |-> TRUE, online |-> Required, intervals |-> <<>>]
            ELSE [first |-> TRUE, bonus |-> FALSE, online |-> Total(spans),
                  intervals |-> spans]

Claims(days) == Cardinality({d \in days : ~account[d].first /\ account'[d].first})
                + Cardinality({d \in days : ~account[d].bonus /\ account'[d].bonus})

\* The transaction on the account's row.
Commit(from, until, live) ==
    LET days == Days(from, until, live) IN
    /\ account' = [d \in Day |-> IF d \in days THEN Settled(account[d], d, from, until)
                                 ELSE account[d]]
    /\ coins' = coins + Claims(days)

\* One attempt: whether it commits, and whether the worker learns of it.
Attempt(from, until, live, ok) ==
    IF until < from THEN ~ok /\ UNCHANGED <<account, coins, errors>>
    ELSE /\ ~ok => errors < MaxErrors
         /\ errors' = IF ok THEN errors ELSE errors + 1
         /\ \/ Commit(from, until, live)
            \/ ~ok /\ UNCHANGED <<account, coins>>

-----------------------------------------------------------------------------
(* The worker.                                                               *)

\* startDailyCoins: once per connection, unless it is closed.
Enter(v) ==
    /\ worker[v].at = "none" /\ v \notin ended
    /\ worker' = [worker EXCEPT ![v].at = "waiting", ![v].from = now]
    /\ entered' = [entered EXCEPT ![v] = now]
    /\ UNCHANGED <<now, account, coins, closedAt, ended, errors>>

\* The timer: the time is captured before closedAt is looked at.
Capture(v) ==
    /\ worker[v].at = "waiting"
    /\ worker' = [worker EXCEPT ![v].at = "captured", ![v].until = now]
    /\ UNCHANGED <<now, account, coins, closedAt, ended, entered, errors>>

CheckOpen(v) ==
    /\ worker[v].at = "captured"
    /\ worker' = [worker EXCEPT ![v] =
                    IF closedAt[v] = Never THEN [@ EXCEPT !.at = "live"]
                    ELSE [@ EXCEPT !.at = "waiting", !.until = 0]]
    /\ UNCHANGED <<now, account, coins, closedAt, ended, entered, errors>>

\* Mutant: the interval is given up although nothing is known of it.
AdvanceAnyway(v, ok) == worker[v].until

\* from moves on only with a settlement that is known to have committed.
NextFrom(v, ok) == IF ok THEN worker[v].until ELSE worker[v].from

SettleLive(v) ==
    /\ worker[v].at = "live"
    /\ \E ok \in BOOLEAN :
         /\ Attempt(worker[v].from, worker[v].until, TRUE, ok)
         /\ worker' = [worker EXCEPT ![v] =
                         [at |-> "waiting", from |-> NextFrom(v, ok), until |-> 0]]
    /\ UNCHANGED <<now, closedAt, ended, entered>>

\* done is closed: settle up to closedAt, and once more after an error.
Finish(v) ==
    /\ worker[v].at \in {"waiting", "final"} /\ v \in ended
    /\ \E ok \in BOOLEAN :
         /\ Attempt(worker[v].from, closedAt[v], FALSE, ok)
         /\ worker' = [worker EXCEPT ![v] =
                         [at |-> IF ok \/ @.at = "final" THEN "done" ELSE "final",
                          from |-> IF ok THEN closedAt[v] ELSE @.from, until |-> 0]]
    /\ UNCHANGED <<now, closedAt, ended, entered>>

\* markClosed: the time first, the flag and the channel after it.
StampClose(v) ==
    /\ closedAt[v] = Never
    /\ closedAt' = [closedAt EXCEPT ![v] = now]
    /\ UNCHANGED <<now, account, coins, worker, ended, entered, errors>>

EndVisit(v) ==
    /\ closedAt[v] # Never /\ v \notin ended
    /\ ended' = ended \cup {v}
    /\ UNCHANGED <<now, account, coins, worker, closedAt, entered, errors>>

Pass ==
    /\ now < Horizon
    /\ now' = now + 1
    /\ UNCHANGED <<account, coins, worker, closedAt, ended, entered, errors>>

DailyNext ==
    \/ Pass
    \/ \E v \in Visit : \/ Enter(v) \/ Capture(v) \/ CheckOpen(v) \/ SettleLive(v)
                        \/ Finish(v) \/ StampClose(v) \/ EndVisit(v)

DailySpec == DailyInit /\ [][DailyNext]_dailyVars

-----------------------------------------------------------------------------
(* Properties, against the moments a connection was in the game.             *)

Played(v) ==
    IF entered[v] = Never THEN {}
    ELSE {t \in Moment : entered[v] <= t /\ t < IF closedAt[v] = Never THEN now ELSE closedAt[v]}

OnlineOn(d) == {t \in UNION {Played(v) : v \in Visit} : t \div DayLength = d}

Moments(d) ==
    LET row == account[d]
    IN UNION {{d * DayLength + t : t \in row.intervals[i][1] .. row.intervals[i][2] - 1} :
                i \in DOMAIN row.intervals}

\* Nobody is paid for a day before its first moment online.
AppearedOnly ==
    \A d \in Day : account[d].first =>
        \E v \in Visit : /\ entered[v] # Never
                         /\ entered[v] \div DayLength <= d
                         /\ closedAt[v] = Never \/ closedAt[v] >= d * DayLength

\* daily_gacha_coins.go:39, "Gaps (offline time) are never credited": time online is
\* counted once, and every reward is paid with its claim.
DailyCoinsExact ==
    /\ coins = Cardinality({d \in Day : account[d].first})
               + Cardinality({d \in Day : account[d].bonus})
    /\ \A d \in Day :
         /\ account[d].bonus => Cardinality(OnlineOn(d)) >= Required
         /\ ~account[d].bonus =>
              Moments(d) \subseteq OnlineOn(d) /\ account[d].online = Cardinality(Moments(d))
    /\ AppearedOnly

\* A connection whose last settlement is known to have committed has all its time
\* in the account.
NothingLeftOut ==
    \A v \in Visit : worker[v].at = "done" /\ worker[v].from = closedAt[v] =>
        \A d \in Day : account[d].bonus
                       \/ Played(v) \cap OnlineOn(d) \subseteq Moments(d)

-----------------------------------------------------------------------------
(* The inductive invariant, which Coins_proofs shows for every Visit.        *)

\* An interval on a day is never empty.
Span == {s \in Nat \X Nat : s[1] < s[2]}

\* Stored intervals follow one another with gaps between them.
Apart(spans) == \A i \in 1 .. Len(spans) - 1 : spans[i][2] < spans[i + 1][1]

DayRow == [first : BOOLEAN, bonus : BOOLEAN, online : Nat, intervals : Seq(Span)]

At == {"none", "waiting", "captured", "live", "final", "done"}

DailyTypeOK ==
    /\ now \in Moment /\ account \in [Day -> DayRow] /\ coins \in Nat
    /\ worker \in [Visit -> [at : At, from : Nat, until : Nat]]
    /\ closedAt \in [Visit -> Moment \cup {Never}] /\ entered \in [Visit -> Moment \cup {Never}]
    /\ ended \subseteq Visit /\ errors \in Nat

\* Times are captured before they are used, and a worker that found the connection
\* open will not report a later time than its end.
TimesOf(v) ==
    /\ entered[v] # Never => entered[v] <= now
    /\ closedAt[v] # Never => closedAt[v] <= now
    /\ worker[v].at = "none" <=> entered[v] = Never
    /\ v \in ended => closedAt[v] # Never
    /\ worker[v].at # "none" => entered[v] <= worker[v].from /\ worker[v].from <= now
    /\ worker[v].at \in {"captured", "live"} =>
         worker[v].from <= worker[v].until /\ worker[v].until <= now
    /\ worker[v].at = "live" /\ closedAt[v] # Never => worker[v].until <= closedAt[v]
    /\ worker[v].at = "final" => v \in ended

TimesInOrder == \A v \in Visit : TimesOf(v)

\* Stored intervals have gaps between them and hold moments online only, as many as
\* the row says, until the bonus is paid.
RowsExact ==
    \A d \in Day :
        /\ Apart(account[d].intervals)
        /\ account[d].bonus => Cardinality(OnlineOn(d)) >= Required
        /\ ~account[d].bonus =>
             /\ Moments(d) \subseteq OnlineOn(d)
             /\ account[d].online = Cardinality(Moments(d))

\* A worker has reported everything before the moment it starts from.
Reported ==
    \A v \in Visit : worker[v].at # "none" =>
        \A d \in Day, t \in Moment :
            entered[v] <= t /\ t < worker[v].from /\ t \div DayLength = d =>
                account[d].bonus \/ t \in Moments(d)

\* A day that is claimed had begun when somebody who entered before its end was online.
Appeared ==
    \A d \in Day : account[d].first =>
        \E v \in Visit :
            /\ entered[v] # Never /\ entered[v] \div DayLength <= d
            /\ d * DayLength <= IF closedAt[v] = Never THEN now ELSE closedAt[v]

\* Ten coins for each claim of a row, and none besides.
CoinsPaid == coins = Cardinality({d \in Day : account[d].first})
                     + Cardinality({d \in Day : account[d].bonus})

\* What makes a settlement safe to repeat (daily_gacha_coins.go): stored intervals are
\* moments online, and what lies before a worker's next interval is stored.
DailyInv == DailyTypeOK /\ TimesInOrder /\ RowsExact /\ Reported /\ Appeared /\ CoinsPaid
=============================================================================
