----------------------------- MODULE CoinLedger -----------------------------
(* What an operator who grants coins to an account is promised               *)
(* (dashboard_item_deliveries, users.gacha_premium): a grant is accepted     *)
(* once, waits in a queue, is credited once and in full, the balance never   *)
(* passes its maximum, and nothing is credited while a connection of the     *)
(* account has changes it has not saved.                                     *)
EXTENDS Integers, Sequences

CONSTANTS
    Request,    \* ids of delivery requests
    Quantity,   \* request -> coins
    MaxCoins,   \* the largest balance
    Link        \* connections of the account

VARIABLES balance, queue, paid, dirty

InQueue(r) == \E i \in DOMAIN queue : queue[i] = r

\* Coins of the first i grants of a queue.
Sums(q) == LET sum[i \in 0 .. Len(q)] ==
                 IF i = 0 THEN 0 ELSE sum[i - 1] + Quantity[q[i]]
           IN sum

\* Grants are credited from the front; one transaction may take several.
Pay(first) ==
    /\ balance' = balance + Sums(queue)[first] /\ balance' <= MaxCoins
    /\ paid' = paid \cup {queue[i] : i \in 1 .. first}
    /\ queue' = SubSeq(queue, first + 1, Len(queue))

\* A connection starts, saves its changes, or they are given up with it.
Play   == \E l \in Link : dirty' = dirty \cup {l} /\ UNCHANGED <<balance, queue, paid>>
Saved  == dirty' \subseteq dirty /\ UNCHANGED <<balance, queue, paid>>

\* Every credit finds nobody playing.
Settle == \E first \in 1 .. Len(queue) :
              Pay(first) /\ dirty' \subseteq dirty /\ dirty' = {}

\* A connection may start in the transaction that settles the queue before it.
SettleThenPlay ==
    \E first \in 1 .. Len(queue), l \in Link :
        dirty = {} /\ Pay(first) /\ dirty' = {l}

\* A new grant waits; created_at is the start of its transaction.
Queue ==
    \E r \in Request, i \in 0 .. Len(queue) :
        /\ ~InQueue(r) /\ r \notin paid
        /\ queue' = SubSeq(queue, 1, i) \o <<r>> \o SubSeq(queue, i + 1, Len(queue))
        /\ UNCHANGED <<balance, paid, dirty>>

\* A new grant is credited at once, behind those that were waiting.
PayNew ==
    \E r \in Request, first \in 0 .. Len(queue) :
        /\ dirty = {} /\ ~InQueue(r) /\ r \notin paid
        /\ balance' = balance + Sums(queue)[first] + Quantity[r] /\ balance' <= MaxCoins
        /\ paid' = paid \cup {queue[i] : i \in 1 .. first} \cup {r}
        /\ queue' = SubSeq(queue, first + 1, Len(queue))
        /\ UNCHANGED dirty

\* The game spends and earns.
Trade == balance' \in 0 .. MaxCoins /\ UNCHANGED <<queue, paid, dirty>> /\ dirty # {}

LedgerInit == balance \in 0 .. MaxCoins /\ queue = <<>> /\ paid = {} /\ dirty = {}

LedgerNext == Play \/ Saved \/ Settle \/ SettleThenPlay \/ Queue \/ PayNew \/ Trade

LedgerSpec == LedgerInit /\ [][LedgerNext]_<<balance, queue, paid, dirty>>
=============================================================================
