----------------------------- MODULE Coins_proofs -----------------------------
(* Proofs about the two ways to earn coins.  CoinSessions, for any connections, *)
(* sign sessions and channels: CoinInv is inductive, nothing is credited while  *)
(* a connection has changes it has not saved, no grant that would fit is        *)
(* forgotten, and the leases and sign sessions implement CoinLedger.            *)
(* DailyCoins, for any visits, days and failures: DailyInv is inductive, the    *)
(* time online is counted once and none of it is left out.  Both count with     *)
(* recursive functions on the positions of a sequence, which SumsDef,           *)
(* MergingDef and LengthsDef unfold by Counting, induction over a set.          *)
EXTENDS CoinSessions, DailyCoins, FiniteSetTheorems, SequenceTheorems,
        NaturalsInduction, WellFoundedInduction, TLAPS

USE CoinAssumption
USE DEF Phase, Lease

\* Nobody is connected and nothing is bound.
LEMMA InitInv == CoinInit => CoinInv
  BY DEF CoinInit, CoinInv, CoinTypeOK, LeasesTellTheTruth, BindsAreNamed

\* Outcomes: a transaction that reports success was committed.
LEMMA Outcomes ==
    ASSUME mishaps \in Nat, NEW o \in Outcome, Note(o)
    PROVE  /\ o.committed \in BOOLEAN /\ o.ok \in BOOLEAN
           /\ o.ok => o.committed
           /\ mishaps' \in Nat
<1>1. CASE o = [committed |-> TRUE, ok |-> TRUE]
  BY <1>1 DEF Note
<1>2. CASE o \in [committed : BOOLEAN, ok : {FALSE}]
  <2>1. o.committed \in BOOLEAN /\ o.ok = FALSE
    BY <1>2, Zenon
  <2>2. mishaps' = mishaps + 1
    BY <2>1 DEF Note
  <2>3. mishaps' \in Nat
    BY <2>2
  <2> QED
    BY <2>1, <2>3, Zenon
<1> QED
  BY <1>1, <1>2, Zenon DEF Outcome

\* Settling touches the receipts only; a credit needs that nobody holds anything.
LEMMA SettlementNeedsNobody ==
    ASSUME NEW held, NEW bound, SettleLocked(held, bound), paid' # paid
    PROVE  held = {}
  BY DEF SettleLocked, AccountOnline, receiptVars

\* With no lease there is nobody who has anything to save.
LEMMA NoLeaseNothingDirty ==
    ASSUME CoinInv, leases = {}
    PROVE  dirty = {}
  BY DEF CoinInv, CoinTypeOK, LeasesTellTheTruth

\* Steps that leave leases, bindings and unsaved changes as they are.
LEMMA LeasesUntouched ==
    ASSUME CoinInv, UNCHANGED <<leases, binding, dirty>>
    PROVE  LeasesTellTheTruth'
  BY DEF CoinInv, LeasesTellTheTruth

\* The operator, the player, a login packet, a handler that gives up or publishes,
\* the end of a connection without a save, a crash.
LEMMA PlainSteps ==
    ASSUME CoinInv,
           \/ \E r \in Request : DeliverCoins(r)
           \/ \E l \in Link : \/ \E c \in Character : Login(l, c)
                              \/ LoginFails(l) \/ Publish(l) \/ PlayerTrades(l) \/ Close(l)
           \/ \E s \in Server : Crash(s)
    PROVE  CoinInv'
<1> USE DEF CoinInv, CoinTypeOK, linkVars
<1>1. UNCHANGED <<leases, binding, dirty, mishaps, savedOk, attempts>>
  BY Zenon DEF DeliverCoins, Login, LoginFails, Publish, PlayerTrades, Close, Crash
<1>2. LeasesTellTheTruth'
  BY <1>1, LeasesUntouched
<1>3. CoinTypeOK' /\ BindsAreNamed'
  <2>1. ASSUME NEW r \in Request, DeliverCoins(r) PROVE CoinTypeOK' /\ BindsAreNamed'
    BY <2>1 DEF DeliverCoins, BindsAreNamed
  <2>2. ASSUME NEW l \in Link, NEW c \in Character, Login(l, c)
        PROVE  CoinTypeOK' /\ BindsAreNamed'
    BY <2>2 DEF Login, BindsAreNamed
  <2>3. ASSUME NEW l \in Link, LoginFails(l) PROVE CoinTypeOK' /\ BindsAreNamed'
    BY <2>3 DEF LoginFails, BindsAreNamed
  <2>4. ASSUME NEW l \in Link, Publish(l) PROVE CoinTypeOK' /\ BindsAreNamed'
    BY <2>4 DEF Publish, BindsAreNamed
  <2>5. ASSUME NEW l \in Link, PlayerTrades(l) PROVE CoinTypeOK' /\ BindsAreNamed'
    BY <2>5 DEF PlayerTrades, BindsAreNamed
  <2>6. ASSUME NEW l \in Link, Close(l) PROVE CoinTypeOK' /\ BindsAreNamed'
    BY <2>6 DEF Close, BindsAreNamed
  <2>7. ASSUME NEW s \in Server, Crash(s) PROVE CoinTypeOK' /\ BindsAreNamed'
    BY <2>7 DEF Crash, BindsAreNamed
  <2> QED
    BY <2>1, <2>2, <2>3, <2>4, <2>5, <2>6, <2>7
<1> QED
  BY <1>2, <1>3

\* A bind adds a lease before anything of the connection can be unsaved.
LEMMA BindStep ==
    ASSUME CoinInv, NEW l \in Link, Bind(l)
    PROVE  CoinInv' /\ (paid' # paid => dirty = {})
<1>1. UNCHANGED <<char, lease, binds, phase, savedOk, attempts, down>>
  BY DEF Bind
<1>2. /\ login[l] = "bind" /\ char[l] \in Character /\ binds[l] \in Nat /\ mishaps \in Nat
      /\ leases \subseteq Lease /\ binding \in [Token -> Server \cup {Nobody}]
      /\ login \in [Link -> {"idle", "bind", "publish"}] /\ dirty \subseteq Link
  BY DEF Bind, CoinInv, CoinTypeOK, BindsAreNamed
<1> DEFINE new == [link |-> l, nr |-> binds[l], char |-> char[l], failed |-> FALSE]
<1>3. new \in Lease /\ new.link = l /\ new.failed = FALSE
  BY <1>2
<1> HIDE DEF new
<1>4. PICK o \in Outcome :
         /\ IF o.committed
            THEN /\ SettleLocked(leases, binding)
                 /\ leases' = leases \cup {new}
                 /\ binding' = [binding EXCEPT ![tokenOf[l]] = serverOf[l]]
            ELSE UNCHANGED <<receiptVars, leases, binding>>
         /\ login' = [login EXCEPT ![l] = IF o.ok THEN "publish" ELSE "idle"]
         /\ dirty' = IF o.ok /\ phase[l] \in {"online", "closed"} THEN dirty \cup {l}
                     ELSE dirty
         /\ Note(o)
  BY Zenon DEF Bind, new
<1>5. o.committed \in BOOLEAN /\ o.ok \in BOOLEAN /\ (o.ok => o.committed) /\ mishaps' \in Nat
  BY <1>2, <1>4, Outcomes
<1>6. /\ leases' \subseteq Lease /\ leases \subseteq leases'
      /\ o.committed => new \in leases'
  BY <1>2, <1>3, <1>4, <1>5
<1>7. binding' \in [Token -> Server \cup {Nobody}]
  BY <1>2, <1>4, <1>5
<1>8. CoinTypeOK'
  <2>1. login' \in [Link -> {"idle", "bind", "publish"}] /\ dirty' \subseteq Link
    BY <1>2, <1>4, <1>5
  <2> QED
    BY <1>1, <1>5, <1>6, <1>7, <2>1 DEF CoinInv, CoinTypeOK
<1>9. LeasesTellTheTruth'
  <2>1. \A k \in dirty' : \E x \in leases' : x.link = k
    <3> SUFFICES ASSUME NEW k \in dirty' PROVE \E x \in leases' : x.link = k
      OBVIOUS
    <3>1. CASE k \in dirty
      BY <1>6, <3>1 DEF CoinInv, LeasesTellTheTruth
    <3>2. CASE k \notin dirty
      <4>1. k = l /\ o.ok
        BY <1>4, <3>2
      <4> QED
        BY <1>3, <1>5, <1>6, <4>1
    <3> QED
      BY <3>1, <3>2
  <2>2. ASSUME NEW t \in Token, binding'[t] # Nobody
        PROVE  \E x \in leases' : tokenOf[x.link] = t /\ serverOf[x.link] = binding'[t]
                                  /\ ~x.failed
    <3>1. CASE binding'[t] = binding[t]
      BY <1>6, <2>2, <3>1 DEF CoinInv, LeasesTellTheTruth
    <3>2. CASE binding'[t] # binding[t]
      <4>1. o.committed /\ t = tokenOf[l] /\ binding'[t] = serverOf[l]
        BY <1>2, <1>4, <1>5, <3>2
      <4> QED
        BY <1>3, <1>6, <4>1
    <3> QED
      BY <3>1, <3>2
  <2> QED
    BY <2>1, <2>2 DEF LeasesTellTheTruth
<1>10. BindsAreNamed'
  BY <1>1, <1>2, <1>4 DEF CoinInv, BindsAreNamed
<1>11. paid' # paid => dirty = {}
  <2> SUFFICES ASSUME paid' # paid PROVE dirty = {}
    OBVIOUS
  <2>1. o.committed /\ SettleLocked(leases, binding)
    BY <1>4, <1>5 DEF receiptVars
  <2> QED
    BY <2>1, SettlementNeedsNobody, NoLeaseNothingDirty
<1> QED
  BY <1>8, <1>9, <1>10, <1>11 DEF CoinInv

\* The save of a logout, and the end of a connection that has stored no lease.
LEMMA SaveSteps ==
    ASSUME CoinInv, NEW l \in Link, SaveLink(l) \/ FinishUntracked(l)
    PROVE  CoinInv'
<1>1. UNCHANGED <<leases, char, lease, binds, login, attempts, down>>
  BY DEF SaveLink, FinishUntracked
<1>2. /\ mishaps' \in Nat /\ dirty' \subseteq dirty /\ savedOk' \in [Link -> BOOLEAN]
      /\ phase' \in [Link -> Phase]
  BY DEF SaveLink, FinishUntracked, CoinInv, CoinTypeOK
<1>3. /\ binding' \in [Token -> Server \cup {Nobody}]
      /\ \A t \in Token : binding'[t] # Nobody => binding'[t] = binding[t]
  BY DEF SaveLink, FinishUntracked, CoinInv, CoinTypeOK
<1>4. CoinTypeOK'
  BY <1>1, <1>2, <1>3 DEF CoinInv, CoinTypeOK
<1>5. LeasesTellTheTruth'
  BY <1>1, <1>2, <1>3 DEF CoinInv, LeasesTellTheTruth
<1>6. BindsAreNamed'
  BY <1>1 DEF CoinInv, BindsAreNamed
<1> QED
  BY <1>4, <1>5, <1>6 DEF CoinInv

\* What a logout leaves of the leases.
LEMMA KeptLeases ==
    ASSUME CoinInv, NEW l \in Link
    PROVE  /\ Kept(l) \subseteq Lease
           /\ ~savedOk[l] => \A x \in leases : \E y \in Kept(l) : y.link = x.link
           /\ \A x \in leases : ~Own(l, x) /\ ~x.failed => x \in Kept(l)
<1>1. leases \subseteq Lease
  BY DEF CoinInv, CoinTypeOK
<1>2. CASE savedOk[l]
  BY <1>1, <1>2 DEF Kept
<1>3. CASE ~savedOk[l]
  <2>1. Kept(l) = {x \in leases : ~Own(l, x)} \cup
                  {[x EXCEPT !.failed = TRUE] : x \in {y \in leases : Own(l, y)}}
    BY <1>3 DEF Kept
  <2>2. \A x \in leases : /\ [x EXCEPT !.failed = TRUE] \in Lease
                          /\ [x EXCEPT !.failed = TRUE].link = x.link
    BY <1>1, Zenon
  <2> QED
    BY <1>1, <1>3, <2>1, <2>2, Zenon
<1> QED
  BY <1>2, <1>3

\* Who has unsaved changes after a logout still has a lease.
LEMMA DirtyAfterFinish ==
    ASSUME CoinInv, NEW l \in Link, leases' = Kept(l),
           dirty' = IF savedOk[l] THEN dirty \ Forgiven(leases') ELSE dirty
    PROVE  \A k \in dirty' : \E x \in leases' : x.link = k
<1> SUFFICES ASSUME NEW k \in dirty' PROVE \E x \in leases' : x.link = k
  OBVIOUS
<1>1. PICK x \in leases : x.link = k
  BY DEF CoinInv, LeasesTellTheTruth
<1>2. CASE ~savedOk[l]
  BY <1>1, <1>2, KeptLeases
<1>3. CASE savedOk[l]
  <2>1. k \notin Forgiven(leases')
    BY <1>3
  <2>2. CASE x \in leases'
    BY <1>1, <2>2
  <2>3. CASE x \notin leases'
    <3>1. k \in {y.link : y \in leases \ leases'}
      BY <1>1, <2>3
    <3>2. k \in {y.link : y \in leases'}
      BY <2>1, <3>1 DEF Forgiven
    <3> QED
      BY <3>2
  <2> QED
    BY <2>2, <2>3
<1> QED
  BY <1>2, <1>3

\* Sign sessions after a logout: its own goes to a lease that is alive, the others
\* keep theirs.
LEMMA BoundAfterFinish ==
    ASSUME CoinInv, NEW l \in Link, leases' = Kept(l),
           NEW s \in Rebound(tokenOf[l], Kept(l)),
           binding' = [binding EXCEPT ![tokenOf[l]] = s]
    PROVE  /\ binding' \in [Token -> Server \cup {Nobody}]
           /\ \A t \in Token : binding'[t] # Nobody =>
                \E x \in leases' : tokenOf[x.link] = t /\ serverOf[x.link] = binding'[t]
                                   /\ ~x.failed
<1>1. binding \in [Token -> Server \cup {Nobody}] /\ leases \subseteq Lease
  BY DEF CoinInv, CoinTypeOK
<1>2. leases' \subseteq Lease
  BY KeptLeases
<1>3. s # Nobody => \E x \in leases' : /\ tokenOf[x.link] = tokenOf[l]
                                       /\ serverOf[x.link] = s /\ ~x.failed
  BY DEF Rebound
<1>4. s \in Server \cup {Nobody}
  BY <1>2, <1>3
<1>5. ASSUME NEW t \in Token, t # tokenOf[l], binding[t] # Nobody
      PROVE  \E x \in leases' : tokenOf[x.link] = t /\ serverOf[x.link] = binding[t]
                                /\ ~x.failed
  <2>1. PICK x \in leases : tokenOf[x.link] = t /\ serverOf[x.link] = binding[t] /\ ~x.failed
    BY <1>5 DEF CoinInv, LeasesTellTheTruth
  <2>2. ~Own(l, x)
    BY <1>5, <2>1 DEF Own
  <2> QED
    BY <2>1, <2>2, KeptLeases
<1> QED
  BY <1>1, <1>3, <1>4, <1>5

\* The end of a connection with a lease.
LEMMA FinishStep ==
    ASSUME CoinInv, NEW l \in Link, FinishTracked(l)
    PROVE  CoinInv' /\ (paid' # paid => dirty' = {})
<1>1. UNCHANGED <<char, lease, binds, login, savedOk, down>>
  BY DEF FinishTracked
<1>2. PICK o \in Outcome :
         /\ IF o.committed /\ \E x \in leases : Own(l, x) /\ x.char = char[l]
            THEN /\ leases' = Kept(l)
                 /\ \E s \in Rebound(tokenOf[l], Kept(l)) :
                      binding' = [binding EXCEPT ![tokenOf[l]] = s]
                 /\ IF savedOk[l] THEN SettleLocked(leases', binding')
                    ELSE UNCHANGED receiptVars
                 /\ dirty' = IF savedOk[l] THEN dirty \ Forgiven(leases') ELSE dirty
            ELSE UNCHANGED <<receiptVars, leases, binding, dirty>>
         /\ Note(o)
         /\ attempts' = [attempts EXCEPT ![l] = @ + 1]
         /\ phase' = [phase EXCEPT ![l] = IF o.ok \/ attempts[l] = 1 THEN "gone" ELSE @]
  BY Zenon DEF FinishTracked
<1>3. mishaps' \in Nat
  BY <1>2, Outcomes DEF CoinInv, CoinTypeOK
<1>4. attempts' \in [Link -> Nat] /\ phase' \in [Link -> Phase]
  BY <1>2 DEF CoinInv, CoinTypeOK
<1>5. BindsAreNamed'
  BY <1>1 DEF CoinInv, BindsAreNamed
<1>6. CASE UNCHANGED <<receiptVars, leases, binding, dirty>>
  <2>1. CoinTypeOK'
    BY <1>1, <1>3, <1>4, <1>6 DEF CoinInv, CoinTypeOK
  <2> QED
    BY <1>5, <1>6, <2>1, LeasesUntouched DEF CoinInv, receiptVars
<1>7. CASE /\ leases' = Kept(l)
           /\ \E s \in Rebound(tokenOf[l], Kept(l)) :
                binding' = [binding EXCEPT ![tokenOf[l]] = s]
           /\ IF savedOk[l] THEN SettleLocked(leases', binding') ELSE UNCHANGED receiptVars
           /\ dirty' = IF savedOk[l] THEN dirty \ Forgiven(leases') ELSE dirty
  <2>1. \A k \in dirty' : \E x \in leases' : x.link = k
    BY <1>7, DirtyAfterFinish
  <2>2. /\ binding' \in [Token -> Server \cup {Nobody}]
        /\ \A t \in Token : binding'[t] # Nobody =>
             \E x \in leases' : tokenOf[x.link] = t /\ serverOf[x.link] = binding'[t]
                                /\ ~x.failed
    BY <1>7, BoundAfterFinish, Zenon
  <2>3. leases' \subseteq Lease /\ dirty' \subseteq Link
    BY <1>7, KeptLeases DEF CoinInv, CoinTypeOK
  <2>4. CoinTypeOK'
    BY <1>1, <1>3, <1>4, <2>2, <2>3 DEF CoinInv, CoinTypeOK
  <2>5. LeasesTellTheTruth'
    BY <2>1, <2>2 DEF LeasesTellTheTruth
  <2>6. paid' # paid => dirty' = {}
    <3> SUFFICES ASSUME paid' # paid PROVE dirty' = {}
      OBVIOUS
    <3>1. SettleLocked(leases', binding')
      BY <1>7 DEF receiptVars
    <3>2. leases' = {}
      BY <3>1, SettlementNeedsNobody
    <3> QED
      BY <2>1, <3>2
  <2> QED
    BY <1>5, <2>4, <2>5, <2>6 DEF CoinInv
<1> QED
  BY <1>2, <1>6, <1>7

\* A channel gives up the leases of its former life, and what was not saved there.
LEMMA RecoverStep ==
    ASSUME CoinInv, NEW s \in Server, Recover(s)
    PROVE  CoinInv' /\ (paid' # paid => dirty' = {})
<1> DEFINE mine == {x \in leases : serverOf[x.link] = s}
<1>1. UNCHANGED linkVars
  BY DEF Recover
<1>2. PICK o \in Outcome :
         /\ IF o.committed /\ mine # {}
            THEN /\ leases' = leases \ mine
                 /\ binding' = [t \in Token |-> IF binding[t] = s THEN Nobody ELSE binding[t]]
                 /\ AfterRecovery(leases', binding')
                 /\ dirty' = {l \in dirty : serverOf[l] # s}
            ELSE UNCHANGED <<receiptVars, leases, binding, dirty>>
         /\ Note(o)
         /\ down' = IF o.ok THEN down \ {s} ELSE down
  BY DEF Recover
<1>3. mishaps' \in Nat
  BY <1>2, Outcomes DEF CoinInv, CoinTypeOK
<1>4. down' \subseteq Server
  BY <1>2 DEF CoinInv, CoinTypeOK
<1>5. BindsAreNamed'
  BY <1>1 DEF CoinInv, BindsAreNamed, linkVars
<1>6. CASE UNCHANGED <<receiptVars, leases, binding, dirty>>
  <2>1. CoinTypeOK'
    BY <1>1, <1>3, <1>4, <1>6 DEF CoinInv, CoinTypeOK, linkVars
  <2> QED
    BY <1>5, <1>6, <2>1, LeasesUntouched DEF CoinInv, receiptVars
<1>7. CASE /\ leases' = leases \ mine
           /\ binding' = [t \in Token |-> IF binding[t] = s THEN Nobody ELSE binding[t]]
           /\ AfterRecovery(leases', binding')
           /\ dirty' = {l \in dirty : serverOf[l] # s}
  <2>1. /\ binding \in [Token -> Server \cup {Nobody}] /\ leases \subseteq Lease
        /\ dirty \subseteq Link
    BY DEF CoinInv, CoinTypeOK
  <2>2. \A k \in dirty' : \E x \in leases' : x.link = k
    BY <1>7, <2>1 DEF CoinInv, LeasesTellTheTruth
  <2>3. \A t \in Token : binding'[t] # Nobody =>
           \E x \in leases' : tokenOf[x.link] = t /\ serverOf[x.link] = binding'[t]
                              /\ ~x.failed
    BY <1>7, <2>1 DEF CoinInv, LeasesTellTheTruth
  <2>4. CoinTypeOK'
    BY <1>1, <1>3, <1>4, <1>7, <2>1 DEF CoinInv, CoinTypeOK, linkVars
  <2>5. paid' # paid => dirty' = {}
    <3> SUFFICES ASSUME paid' # paid PROVE dirty' = {}
      OBVIOUS
    <3>1. leases' = {}
      BY <1>7, SettlementNeedsNobody DEF AfterRecovery
    <3> QED
      BY <2>2, <3>1
  <2> QED
    BY <1>5, <2>2, <2>3, <2>4, <2>5 DEF CoinInv, LeasesTellTheTruth
<1> QED
  BY <1>2, <1>6, <1>7

\* Every step keeps the invariant, and credits when all is saved before or after it.
LEMMA StepInv ==
    CoinInv /\ [CoinNext]_coinVars =>
        CoinInv' /\ (paid' # paid => dirty = {} \/ dirty' = {})
<1> SUFFICES ASSUME CoinInv, [CoinNext]_coinVars
             PROVE  CoinInv' /\ (paid' # paid => dirty = {} \/ dirty' = {})
  OBVIOUS
<1>1. CASE UNCHANGED coinVars
  <2>1. CoinTypeOK' /\ BindsAreNamed'
    BY <1>1 DEF CoinInv, CoinTypeOK, BindsAreNamed, coinVars, linkVars, receiptVars
  <2> QED
    BY <1>1, <2>1, LeasesUntouched DEF CoinInv, coinVars, receiptVars
<1>2. ASSUME NEW r \in Request, DeliverCoins(r)
      PROVE  paid' # paid => dirty = {}
  BY <1>2, NoLeaseNothingDirty, Zenon DEF DeliverCoins, AccountOnline
<1>3. ASSUME NEW l \in Link,
             \/ \E c \in Character : Login(l, c)
             \/ LoginFails(l) \/ Publish(l) \/ PlayerTrades(l) \/ Close(l)
      PROVE  paid' = paid
  BY <1>3 DEF Login, LoginFails, Publish, PlayerTrades, Close, receiptVars
<1>4. ASSUME NEW l \in Link, SaveLink(l) \/ FinishUntracked(l)
      PROVE  paid' = paid
  BY <1>4 DEF SaveLink, FinishUntracked, receiptVars
<1>5. ASSUME NEW s \in Server, Crash(s)
      PROVE  paid' = paid
  BY <1>5 DEF Crash, receiptVars
<1> QED
  BY <1>1, <1>2, <1>3, <1>4, <1>5, PlainSteps, BindStep, SaveSteps, FinishStep, RecoverStep
     DEF CoinNext, Handler, LogoutLink

\* Whatever logs in, logs out, crashes and recovers in whatever order: unsaved changes
\* are covered by a lease, and a bound sign session by a live one.
THEOREM LeaseInvariance == CoinSpec => []CoinInv
<1>1. CoinInv /\ [CoinNext]_coinVars => CoinInv'
  BY StepInv
<1> QED
  BY InitInv, <1>1, PTL DEF CoinSpec

\* No grant is credited beside a connection that may still write its own balance back.
THEOREM CreditSafety == CoinSpec => CreditFindsAllSaved
<1>1. CoinInv /\ [CoinNext]_coinVars => [paid' # paid => dirty = {} \/ dirty' = {}]_coinVars
  BY StepInv
<1> QED
  BY <1>1, LeaseInvariance, PTL DEF CoinSpec, CreditFindsAllSaved

-----------------------------------------------------------------------------
(* Sums of grants.                                                           *)

\* A set of numbers that is not empty has a least one.
LEMMA LeastNumber ==
    ASSUME NEW T \in SUBSET Nat, T # {}
    PROVE  \E x \in T : \A y \in T : x <= y
<1> DEFINE R == OpToRel(<, Nat)
<1>1. IsWellFoundedOn(R, Nat)
  BY NatLessThanWellFounded, Zenon
<1>2. \A x, y \in Nat : x < y => <<x, y>> \in R
  BY DEF OpToRel
<1> HIDE DEF R
<1>3. PICK x \in T : \A y \in T : ~(<<y, x>> \in R)
  BY <1>1, WFMin, Zenon
<1>4. x \in Nat /\ \A y \in T : y \in Nat /\ ~(y < x)
  BY <1>2, <1>3, Zenon
<1>5. \A y \in T : x <= y
  BY <1>4
<1> QED
  BY <1>5

\* Induction over a set of numbers, which needs no operator as a parameter.
LEMMA Counting ==
    ASSUME NEW S, 0 \in S, \A n \in Nat : n \in S => n + 1 \in S
    PROVE  Nat \subseteq S
<1> DEFINE T == Nat \ S
<1> SUFFICES ASSUME T # {} PROVE FALSE
  OBVIOUS
<1>1. PICK x \in T : \A y \in T : x <= y
  <2> HIDE DEF T
  <2>1. T \in SUBSET Nat
    BY DEF T
  <2> QED
    BY <2>1, LeastNumber
<1>2. x \in Nat /\ x # 0 /\ x - 1 \in Nat
  OBVIOUS
<1>3. x - 1 \notin T
  BY <1>1, <1>2
<1>4. (x - 1) + 1 \in S
  BY <1>2, <1>3
<1> QED
  BY <1>2, <1>4

\* The recursive sum is the function it is written as.
LEMMA SumsDef ==
    ASSUME NEW q \in Seq(Request)
    PROVE  Sums(q) = [i \in 0 .. Len(q) |->
                        IF i = 0 THEN 0 ELSE Sums(q)[i - 1] + Quantity[q[i]]]
<1> DEFINE Is(f, n) == f = [i \in 0 .. n |-> IF i = 0 THEN 0 ELSE f[i - 1] + Quantity[q[i]]]
           S == {n \in Nat : \E f : Is(f, n)}
<1>1. 0 \in S
  <2>1. Is([i \in 0 .. 0 |-> 0], 0)
    OBVIOUS
  <2> QED
    BY <2>1, Zenon
<1>2. ASSUME NEW n \in Nat, n \in S
      PROVE  n + 1 \in S
  <2> SUFFICES \E f : Is(f, n + 1)
    <3> HIDE DEF Is
    <3> QED
      OBVIOUS
  <2>1. PICK f : Is(f, n)
    BY <1>2
  <2> DEFINE g == [i \in 0 .. n + 1 |-> IF i = n + 1 THEN f[n] + Quantity[q[n + 1]] ELSE f[i]]
  <2>2. Is(g, n + 1)
    BY <2>1
  <2> QED
    BY <2>2, Zenon
<1>3. \E f : Is(f, Len(q))
  <2> HIDE DEF Is
  <2>1. Len(q) \in S
    <3> HIDE DEF S
    <3>1. Len(q) \in Nat
      OBVIOUS
    <3> QED
      BY <1>1, <1>2, <3>1, Counting, Zenon
  <2> QED
    BY <2>1
<1> QED
  BY <1>3, Zenon DEF Sums

\* Its first value, its step and its type.
LEMMA SumsParts ==
    ASSUME NEW q \in Seq(Request)
    PROVE  /\ Sums(q)[0] = 0
           /\ \A i \in 1 .. Len(q) : Sums(q)[i] = Sums(q)[i - 1] + Quantity[q[i]]
           /\ \A i \in 0 .. Len(q) : Sums(q)[i] \in Nat
<1> DEFINE s == Sums(q)
           len == Len(q)
<1>1. s = [i \in 0 .. len |-> IF i = 0 THEN 0 ELSE s[i - 1] + Quantity[q[i]]]
  BY SumsDef, Zenon
<1>2. len \in Nat /\ \A i \in 1 .. len : Quantity[q[i]] \in Nat
  <2>1. \A i \in 1 .. len : q[i] \in Request
    BY ElementOfSeq
  <2>2. len \in Nat
    OBVIOUS
  <2> HIDE DEF len
  <2> QED
    BY <2>1, <2>2 DEF CoinAssumption
<1> HIDE DEF s, len
<1>3. s[0] = 0 /\ \A i \in 1 .. len : s[i] = s[i - 1] + Quantity[q[i]]
  BY <1>1, <1>2
<1> DEFINE S == {n \in Nat : n <= len => s[n] \in Nat}
<1>4. 0 \in S
  BY <1>3
<1>5. ASSUME NEW n \in Nat, n \in S
      PROVE  n + 1 \in S
  <2> SUFFICES ASSUME n + 1 <= len
               PROVE  s[n + 1] \in Nat
    OBVIOUS
  <2>1. s[n + 1] = s[n] + Quantity[q[n + 1]]
    BY <1>2, <1>3
  <2> QED
    BY <1>2, <1>5, <2>1
<1>6. Nat \subseteq S
  <2> HIDE DEF S
  <2> QED
    BY <1>4, <1>5, Counting, Zenon
<1>7. \A i \in 0 .. len : s[i] \in Nat
  BY <1>2, <1>6
<1> QED
  BY <1>3, <1>7 DEF s, len

-----------------------------------------------------------------------------
(* The receipts.                                                             *)

\* The types of what CoinLedger speaks of.
ReceiptTypeOK == balance \in 0 .. MaxCoins /\ queue \in Seq(Request) /\ paid \subseteq Request

\* There is always a number of receipts that fit, though it may be 0.
LEMMA PayableFits ==
    ASSUME ReceiptTypeOK
    PROVE  /\ Payable \in 0 .. Len(queue)
           /\ balance + Sums(queue)[Payable] <= MaxCoins
           /\ Payable < Len(queue) => balance + Sums(queue)[Payable + 1] > MaxCoins
<1> DEFINE s == Sums(queue)
           Fits(k) == /\ balance + s[k] <= MaxCoins
                      /\ k < Len(queue) => balance + s[k + 1] > MaxCoins
           T == {k \in 0 .. Len(queue) : k < Len(queue) => balance + s[k + 1] > MaxCoins}
<1>1. /\ balance \in Nat /\ balance <= MaxCoins /\ Len(queue) \in Nat /\ MaxCoins \in Nat
      /\ s[0] = 0 /\ \A i \in 0 .. Len(queue) : s[i] \in Nat
  BY SumsParts DEF ReceiptTypeOK
<1> HIDE DEF s
<1>2. PICK k \in T : \A j \in T : k <= j
  <2>1. T \in SUBSET Nat /\ Len(queue) \in T
    BY <1>1
  <2> HIDE DEF T
  <2> QED
    BY <2>1, LeastNumber
<1>3. Fits(k)
  <2>1. CASE k = 0
    BY <1>1, <1>2, <2>1
  <2>2. CASE k # 0
    <3>1. k \in 0 .. Len(queue) /\ k \in Nat /\ k - 1 \in 0 .. Len(queue) /\ k - 1 < k
      BY <1>1, <1>2, <2>2
    <3>2. k - 1 \notin T
      <4> HIDE DEF T
      <4>1. \A j \in T : k <= j
        BY <1>2
      <4> QED
        BY <3>1, <4>1
    <3>3. k - 1 < Len(queue) /\ ~(balance + s[(k - 1) + 1] > MaxCoins)
      BY <3>1, <3>2
    <3>4. s[k] \in Nat /\ (k - 1) + 1 = k
      BY <1>1, <3>1
    <3>5. balance + s[k] <= MaxCoins
      BY <1>1, <3>3, <3>4
    <3> QED
      BY <1>2, <3>5
  <2> QED
    BY <2>1, <2>2
<1>4. k \in 0 .. Len(queue)
  BY <1>2
<1>5. Payable = CHOOSE j \in 0 .. Len(queue) : Fits(j)
  BY DEF Payable, s
<1> HIDE DEF Fits
<1>6. Payable \in 0 .. Len(queue) /\ Fits(Payable)
  BY <1>3, <1>4, <1>5
<1> QED
  BY <1>6 DEF Fits, s

\* A credit keeps the types, and stops before a receipt that does not fit.
LEMMA CreditStep ==
    ASSUME ReceiptTypeOK, Credit(Payable)
    PROVE  /\ ReceiptTypeOK'
           /\ queue' # <<>> => balance' + Quantity[queue'[1]] > MaxCoins
<1> DEFINE s == Sums(queue)
           k == Payable
           q == SubSeq(queue, k + 1, Len(queue))
<1>1. /\ k \in 0 .. Len(queue) /\ balance + s[k] <= MaxCoins
      /\ k < Len(queue) => balance + s[k + 1] > MaxCoins
  BY PayableFits
<1>2. balance' = balance + s[k] /\ queue' = q /\ paid' = paid \cup {queue[i] : i \in 1 .. k}
  BY DEF Credit
<1>3. /\ balance \in Nat /\ Len(queue) \in Nat /\ MaxCoins \in Nat
      /\ paid \subseteq Request /\ queue \in Seq(Request)
      /\ \A i \in 1 .. Len(queue) : queue[i] \in Request
  BY ElementOfSeq DEF ReceiptTypeOK
<1>4. /\ \A i \in 1 .. Len(queue) : s[i] = s[i - 1] + Quantity[queue[i]]
      /\ \A i \in 0 .. Len(queue) : s[i] \in Nat
  BY <1>3, SumsParts
<1> HIDE DEF s, k
<1>5. /\ q \in Seq(Request) /\ Len(q) = IF k + 1 <= Len(queue) THEN Len(queue) - k ELSE 0
      /\ \A i \in 1 .. Len(queue) - (k + 1) + 1 : q[i] = queue[(k + 1) + i - 1]
  <2>1. k + 1 \in Int /\ Len(queue) \in Int /\ \A i \in k + 1 .. Len(queue) : queue[i] \in Request
    BY <1>1, <1>3
  <2>2. /\ q \in Seq(Request)
        /\ Len(q) = IF k + 1 <= Len(queue) THEN Len(queue) - (k + 1) + 1 ELSE 0
        /\ \A i \in 1 .. Len(queue) - (k + 1) + 1 : q[i] = queue[(k + 1) + i - 1]
    <3> HIDE <1>3
    <3> QED
      BY <2>1, SubSeqProperties
  <2> HIDE DEF q
  <2> QED
    BY <1>1, <1>3, <2>2
<1> HIDE DEF q
<1>6. ReceiptTypeOK'
  <2>1. balance' \in 0 .. MaxCoins
    BY <1>1, <1>2, <1>3, <1>4
  <2>2. paid' \subseteq Request
    BY <1>1, <1>2, <1>3
  <2> QED
    BY <1>2, <1>5, <2>1, <2>2 DEF ReceiptTypeOK
<1>7. ASSUME queue' # <<>>
      PROVE  balance' + Quantity[queue'[1]] > MaxCoins
  <2>1. k < Len(queue)
    <3> SUFFICES ASSUME ~(k < Len(queue)) PROVE FALSE
      OBVIOUS
    <3>1. Len(q) = 0
      BY <1>1, <1>3, <1>5
    <3> QED
      BY <1>2, <1>5, <1>7, <3>1, EmptySeq
  <2>2. k + 1 \in 1 .. Len(queue) /\ (k + 1) - 1 = k /\ (k + 1) + 1 - 1 = k + 1
        /\ 1 \in 1 .. Len(queue) - (k + 1) + 1 /\ k \in 0 .. Len(queue)
    BY <1>1, <1>3, <2>1
  <2>3. q[1] = queue[k + 1]
    BY <1>5, <2>2
  <2>4. s[k + 1] = s[k] + Quantity[queue[k + 1]] /\ s[k] \in Nat
    BY <1>4, <2>2
  <2>5. Quantity[queue[k + 1]] \in Nat
    BY <1>3, <2>2
  <2>6. balance + s[k + 1] > MaxCoins
    BY <1>1, <2>1
  <2>7. balance + s[k] + Quantity[queue[k + 1]] > MaxCoins
    BY <1>3, <2>4, <2>5, <2>6
  <2> QED
    BY <1>2, <2>3, <2>7
<1> QED
  BY <1>6, <1>7

\* A settlement that sees the leases and sign sessions of its end leaves no receipt
\* behind: with no lease nothing is bound, and the front of the queue is credited.
LEMMA SettledNothingForgotten ==
    ASSUME ReceiptTypeOK, LeasesTellTheTruth', SettleLocked(leases', binding')
    PROVE  ReceiptTypeOK' /\ NothingForgotten'
<1>1. CASE AccountOnline(leases', binding')
  <2>1. UNCHANGED receiptVars
    BY <1>1 DEF SettleLocked
  <2>2. leases' # {}
    BY <1>1 DEF AccountOnline, LeasesTellTheTruth
  <2> QED
    BY <2>1, <2>2 DEF receiptVars, ReceiptTypeOK, NothingForgotten
<1>2. CASE ~AccountOnline(leases', binding')
  <2>1. Credit(Payable)
    BY <1>2 DEF SettleLocked
  <2> QED
    BY <2>1, CreditStep DEF NothingForgotten
<1> QED
  BY <1>1, <1>2

\* Any settlement keeps the types of the receipts.
LEMMA SettledTypes ==
    ASSUME ReceiptTypeOK, NEW held, NEW bound, SettleLocked(held, bound)
    PROVE  ReceiptTypeOK'
<1>1. CASE UNCHANGED receiptVars
  BY <1>1 DEF receiptVars, ReceiptTypeOK
<1>2. CASE Credit(Payable)
  BY <1>2, CreditStep
<1> QED
  BY <1>1, <1>2 DEF SettleLocked

\* A new receipt is put among those that wait only while somebody holds a lease.
LEMMA DeliverReceipts ==
    ASSUME CoinInv, ReceiptTypeOK, NEW r \in Request, DeliverCoins(r)
    PROVE  ReceiptTypeOK' /\ NothingForgotten'
<1>1. /\ queue \in Seq(Request) /\ paid \subseteq Request /\ balance \in Nat
      /\ Len(queue) \in Nat /\ Quantity[r] \in Nat /\ Sums(queue)[Len(queue)] \in Nat
      /\ \A i \in 1 .. Len(queue) : queue[i] \in Request
      /\ DOMAIN queue = 1 .. Len(queue)
  BY SumsParts, ElementOfSeq DEF ReceiptTypeOK
<1>2. leases' = leases /\ balance + Sums(queue)[Len(queue)] + Quantity[r] <= MaxCoins
  BY DEF DeliverCoins
<1>3. CASE AccountOnline(leases, binding)
  <2>1. PICK i \in 0 .. Len(queue) :
          queue' = SubSeq(queue, 1, i) \o <<r>> \o SubSeq(queue, i + 1, Len(queue))
    BY <1>3, Zenon DEF DeliverCoins
  <2>2. UNCHANGED <<balance, paid>>
    BY <1>3, Zenon DEF DeliverCoins
  <2>3. SubSeq(queue, 1, i) \in Seq(Request) /\ SubSeq(queue, i + 1, Len(queue)) \in Seq(Request)
    <3>1. /\ i \in Int /\ i + 1 \in Int /\ \A j \in 1 .. i : queue[j] \in Request
          /\ \A j \in i + 1 .. Len(queue) : queue[j] \in Request
      BY <1>1
    <3> HIDE <1>1
    <3>2. 1 \in Int /\ Len(queue) \in Int
      BY <1>1
    <3> QED
      BY <3>1, <3>2, SubSeqProperties
  <2>4. queue' \in Seq(Request)
    <3> DEFINE a == SubSeq(queue, 1, i)
               c == SubSeq(queue, i + 1, Len(queue))
    <3>1. a \in Seq(Request) /\ c \in Seq(Request) /\ <<r>> \in Seq(Request)
      BY <2>3
    <3>2. queue' = (a \o <<r>>) \o c
      BY <2>1
    <3> HIDE DEF a, c
    <3>3. a \o <<r>> \in Seq(Request)
      BY <3>1, ConcatProperties
    <3> QED
      BY <3>1, <3>2, <3>3, ConcatProperties
  <2>5. leases # {}
    BY <1>3 DEF AccountOnline, CoinInv, LeasesTellTheTruth
  <2> QED
    BY <1>2, <2>2, <2>4, <2>5 DEF ReceiptTypeOK, NothingForgotten
<1>4. CASE ~AccountOnline(leases, binding)
  <2>1. /\ balance' = balance + Sums(queue)[Len(queue)] + Quantity[r]
        /\ paid' = paid \cup {queue[i] : i \in DOMAIN queue} \cup {r} /\ queue' = <<>>
    BY <1>4 DEF DeliverCoins
  <2>2. balance' \in 0 .. MaxCoins
    BY <1>1, <1>2, <2>1
  <2>3. paid' \subseteq Request
    BY <1>1, <2>1
  <2> QED
    BY <2>1, <2>2, <2>3, EmptySeq DEF ReceiptTypeOK, NothingForgotten
<1> QED
  BY <1>3, <1>4

\* Steps that touch neither receipts nor leases.
LEMMA ReceiptsUntouched ==
    ASSUME ReceiptTypeOK, NothingForgotten, UNCHANGED <<receiptVars, leases>>
    PROVE  ReceiptTypeOK' /\ NothingForgotten'
  BY DEF ReceiptTypeOK, NothingForgotten, receiptVars

\* A bind settles before it takes its lease, and leaves that one behind.
LEMMA BindReceipts ==
    ASSUME CoinInv, ReceiptTypeOK, NothingForgotten, NEW l \in Link, Bind(l)
    PROVE  ReceiptTypeOK' /\ NothingForgotten'
<1>1. CASE UNCHANGED <<receiptVars, leases>>
  BY <1>1, ReceiptsUntouched
<1>2. CASE SettleLocked(leases, binding) /\ leases' # {}
  BY <1>2, SettledTypes DEF NothingForgotten
<1> QED
  BY <1>1, <1>2, Zenon DEF Bind

\* The end of a connection settles after a save, and keeps its lease without one.
LEMMA FinishReceipts ==
    ASSUME CoinInv, CoinInv', ReceiptTypeOK, NothingForgotten, NEW l \in Link, FinishTracked(l)
    PROVE  ReceiptTypeOK' /\ NothingForgotten'
<1>1. CASE UNCHANGED <<receiptVars, leases>>
  BY <1>1, ReceiptsUntouched
<1>2. CASE SettleLocked(leases', binding')
  BY <1>2, SettledNothingForgotten DEF CoinInv
<1>3. CASE ~savedOk[l] /\ leases # {} /\ leases' = Kept(l) /\ UNCHANGED receiptVars
  <2>1. leases' # {}
    BY <1>3, KeptLeases
  <2> QED
    BY <1>3, <2>1 DEF ReceiptTypeOK, NothingForgotten, receiptVars
<1> QED
  BY <1>1, <1>2, <1>3 DEF FinishTracked

\* Every step keeps the types of the receipts and forgets none.
LEMMA StepReceipts ==
    CoinInv /\ ReceiptTypeOK /\ NothingForgotten /\ [CoinNext]_coinVars =>
        ReceiptTypeOK' /\ NothingForgotten'
<1> SUFFICES ASSUME CoinInv, ReceiptTypeOK, NothingForgotten, [CoinNext]_coinVars
             PROVE  ReceiptTypeOK' /\ NothingForgotten'
  OBVIOUS
<1>1. CoinInv'
  BY StepInv
<1>2. CASE UNCHANGED <<receiptVars, leases>>
  BY <1>2, ReceiptsUntouched
<1>3. ASSUME NEW r \in Request, DeliverCoins(r)
      PROVE  ReceiptTypeOK' /\ NothingForgotten'
  BY <1>3, DeliverReceipts
<1>4. ASSUME NEW l \in Link, PlayerTrades(l)
      PROVE  ReceiptTypeOK' /\ NothingForgotten'
  <2>1. leases # {}
    BY <1>4 DEF PlayerTrades, CoinInv, LeasesTellTheTruth
  <2> QED
    BY <1>4, <2>1 DEF PlayerTrades, ReceiptTypeOK, NothingForgotten
<1>5. ASSUME NEW l \in Link, Bind(l)
      PROVE  ReceiptTypeOK' /\ NothingForgotten'
  BY <1>5, BindReceipts
<1>6. ASSUME NEW l \in Link, FinishTracked(l)
      PROVE  ReceiptTypeOK' /\ NothingForgotten'
  BY <1>1, <1>6, FinishReceipts
<1>7. ASSUME NEW s \in Server, Recover(s)
      PROVE  ReceiptTypeOK' /\ NothingForgotten'
  <2>1. UNCHANGED <<receiptVars, leases>> \/ SettleLocked(leases', binding')
    BY <1>7 DEF Recover, AfterRecovery
  <2> QED
    BY <1>1, <1>2, <2>1, SettledNothingForgotten DEF CoinInv
<1>8. ASSUME NEW l \in Link,
             \/ \E c \in Character : Login(l, c)
             \/ LoginFails(l) \/ Publish(l) \/ Close(l) \/ SaveLink(l) \/ FinishUntracked(l)
      PROVE  UNCHANGED <<receiptVars, leases>>
  BY <1>8 DEF Login, LoginFails, Publish, Close, SaveLink, FinishUntracked
<1>9. ASSUME NEW s \in Server, Crash(s)
      PROVE  UNCHANGED <<receiptVars, leases>>
  BY <1>9 DEF Crash
<1>10. CASE UNCHANGED coinVars
  <2>1. UNCHANGED <<receiptVars, leases>>
    BY <1>10 DEF coinVars
  <2> QED
    BY <1>2, <2>1
<1> QED
  BY <1>2, <1>3, <1>4, <1>5, <1>6, <1>7, <1>8, <1>9, <1>10 DEF CoinNext, Handler, LogoutLink

-----------------------------------------------------------------------------
(* The ledger that the leases implement.                                     *)

\* The ledger adds its grants up the same way.
LEMMA SameSums ==
    ASSUME NEW q
    PROVE  Ledger!Sums(q) = Sums(q)
  BY Zenon DEF Sums, Ledger!Sums

\* A credit is a payment of the ledger, or nothing when nothing waits that fits.
LEMMA CreditPays ==
    ASSUME ReceiptTypeOK, Credit(Payable)
    PROVE  UNCHANGED receiptVars \/ \E first \in 1 .. Len(queue) : Ledger!Pay(first)
<1>1. /\ Payable \in 0 .. Len(queue) /\ balance' = balance + Sums(queue)[Payable]
      /\ balance' \in 0 .. MaxCoins
      /\ queue' = SubSeq(queue, Payable + 1, Len(queue))
      /\ paid' = paid \cup {queue[i] : i \in 1 .. Payable}
  BY PayableFits, CreditStep DEF Credit, ReceiptTypeOK
<1>2. CASE Payable = 0
  <2>1. balance' = balance /\ paid' = paid
    BY <1>1, <1>2, SumsParts DEF ReceiptTypeOK
  <2>2. queue' = queue
    BY <1>1, <1>2, SubSeqFull DEF ReceiptTypeOK
  <2> QED
    BY <2>1, <2>2 DEF receiptVars
<1>3. CASE Payable # 0
  <2>1. Payable \in 1 .. Len(queue)
    BY <1>1, <1>3
  <2>2. Ledger!Pay(Payable)
    BY <1>1, SameSums DEF Ledger!Pay
  <2> QED
    BY <2>1, <2>2
<1> QED
  BY <1>2, <1>3

\* The steps of the ledger as the proofs need them.
LedgerStep == [Ledger!LedgerNext]_<<balance, queue, paid, dirty>>

\* Nothing but saved or abandoned changes.
LEMMA SavedRefines ==
    ASSUME UNCHANGED receiptVars, dirty' \subseteq dirty
    PROVE  LedgerStep
  BY DEF LedgerStep, receiptVars, Ledger!LedgerNext, Ledger!Saved

\* A settlement that finds nobody playing, before or after it.
LEMMA SettleRefines ==
    ASSUME ReceiptTypeOK, NEW held, NEW bound, SettleLocked(held, bound),
           dirty' \subseteq dirty, held = {} => dirty' = {}
    PROVE  LedgerStep
<1>1. CASE UNCHANGED receiptVars
  BY <1>1, SavedRefines
<1>2. CASE held = {} /\ \E first \in 1 .. Len(queue) : Ledger!Pay(first)
  BY <1>2 DEF LedgerStep, Ledger!LedgerNext, Ledger!Settle
<1>3. UNCHANGED receiptVars \/ (held = {} /\ Credit(Payable))
  BY DEF SettleLocked, AccountOnline
<1> QED
  BY <1>1, <1>2, <1>3, CreditPays

\* A delivery puts a grant in the queue, or pays it behind all that wait.
LEMMA DeliverRefines ==
    ASSUME CoinInv, ReceiptTypeOK, NEW r \in Request, DeliverCoins(r)
    PROVE  LedgerStep
<1>1. ~Ledger!InQueue(r) /\ r \notin paid /\ dirty' = dirty
  BY DEF DeliverCoins, KnownRequest, Waits, Ledger!InQueue
<1>2. CASE AccountOnline(leases, binding)
  <2>1. \E i \in 0 .. Len(queue) :
           /\ queue' = SubSeq(queue, 1, i) \o <<r>> \o SubSeq(queue, i + 1, Len(queue))
           /\ UNCHANGED <<balance, paid>>
    BY <1>2, Zenon DEF DeliverCoins
  <2> QED
    BY <1>1, <2>1, Zenon DEF LedgerStep, Ledger!LedgerNext, Ledger!Queue
<1>3. CASE ~AccountOnline(leases, binding)
  <2>1. dirty = {}
    BY <1>3, NoLeaseNothingDirty DEF AccountOnline
  <2>2. /\ balance' = balance + Sums(queue)[Len(queue)] + Quantity[r]
        /\ paid' = paid \cup {queue[i] : i \in DOMAIN queue} \cup {r} /\ queue' = <<>>
    BY <1>3 DEF DeliverCoins
  <2>3. DOMAIN queue = 1 .. Len(queue) /\ Len(queue) \in Nat
    BY DEF ReceiptTypeOK
  <2>4. SubSeq(queue, Len(queue) + 1, Len(queue)) = <<>>
    BY <2>3, SubSeqEmpty
  <2>5. balance' <= MaxCoins
    BY <2>2 DEF DeliverCoins
  <2>6. Ledger!PayNew
    <3>1. Len(queue) \in 0 .. Len(queue)
      BY <2>3
    <3> QED
      BY <1>1, <2>1, <2>2, <2>3, <2>4, <2>5, <3>1, SameSums, Zenon DEF Ledger!PayNew
  <2> QED
    BY <2>6 DEF LedgerStep, Ledger!LedgerNext
<1> QED
  BY <1>2, <1>3

\* A bind starts a player, behind the settlement it makes when nobody plays.
LEMMA BindRefines ==
    ASSUME CoinInv, ReceiptTypeOK, NEW l \in Link, Bind(l)
    PROVE  LedgerStep
<1>1. dirty' = dirty \/ dirty' = dirty \cup {l}
  BY DEF Bind
<1>2. CASE UNCHANGED receiptVars
  <2>1. CASE dirty' = dirty \cup {l}
    BY <1>2, <2>1 DEF LedgerStep, receiptVars, Ledger!LedgerNext, Ledger!Play
  <2> QED
    BY <1>1, <1>2, <2>1 DEF LedgerStep, receiptVars
<1>3. CASE leases = {} /\ \E first \in 1 .. Len(queue) : Ledger!Pay(first)
  <2>1. PICK first \in 1 .. Len(queue) : Ledger!Pay(first)
    BY <1>3
  <2>2. dirty = {}
    BY <1>3, NoLeaseNothingDirty
  <2>3. CASE dirty' = dirty
    BY <2>1, <2>2, <2>3 DEF LedgerStep, Ledger!LedgerNext, Ledger!Settle
  <2>4. CASE dirty' = dirty \cup {l}
    BY <2>1, <2>2, <2>4 DEF LedgerStep, Ledger!LedgerNext, Ledger!SettleThenPlay
  <2> QED
    BY <1>1, <2>3, <2>4
<1>4. UNCHANGED receiptVars \/ (leases = {} /\ Credit(Payable))
  BY DEF Bind, SettleLocked, AccountOnline
<1> QED
  BY <1>2, <1>3, <1>4, CreditPays

\* The end of a connection and the recovery of a channel save or give up changes, and
\* settle when no lease is left.
LEMMA EndRefines ==
    ASSUME CoinInv, CoinInv', ReceiptTypeOK,
           \/ \E l \in Link : FinishTracked(l)
           \/ \E s \in Server : Recover(s)
    PROVE  LedgerStep
<1>1. dirty' \subseteq dirty
  BY DEF FinishTracked, Recover
<1>2. leases' = {} => dirty' = {}
  BY DEF CoinInv, CoinTypeOK, LeasesTellTheTruth
<1>3. UNCHANGED receiptVars \/ SettleLocked(leases', binding')
  BY DEF FinishTracked, Recover, AfterRecovery
<1> QED
  BY <1>1, <1>2, <1>3, SavedRefines, SettleRefines

\* Every step of the connections and channels is one of the ledger, or none.
LEMMA StepRefines ==
    CoinInv /\ ReceiptTypeOK /\ [CoinNext]_coinVars => LedgerStep
<1> SUFFICES ASSUME CoinInv, ReceiptTypeOK, [CoinNext]_coinVars
             PROVE  LedgerStep
  OBVIOUS
<1>1. CoinInv'
  BY StepInv
<1>2. ASSUME NEW l \in Link, PlayerTrades(l)
      PROVE  LedgerStep
  BY <1>2 DEF PlayerTrades, LedgerStep, Ledger!LedgerNext, Ledger!Trade
<1>3. ASSUME NEW l \in Link,
             \/ \E c \in Character : Login(l, c)
             \/ LoginFails(l) \/ Publish(l) \/ Close(l) \/ SaveLink(l) \/ FinishUntracked(l)
      PROVE  UNCHANGED receiptVars /\ dirty' \subseteq dirty
  BY <1>3 DEF Login, LoginFails, Publish, Close, SaveLink, FinishUntracked
<1>4. ASSUME NEW s \in Server, Crash(s)
      PROVE  UNCHANGED receiptVars /\ dirty' \subseteq dirty
  BY <1>4 DEF Crash
<1>5. CASE UNCHANGED coinVars
  <2>1. UNCHANGED receiptVars /\ dirty' \subseteq dirty
    BY <1>5 DEF coinVars
  <2> QED
    BY <2>1, SavedRefines
<1> QED
  BY <1>1, <1>2, <1>3, <1>4, <1>5, SavedRefines, DeliverRefines, BindRefines, EndRefines
     DEF CoinNext, Handler, LogoutLink

\* The balance stays within its maximum, and no grant that would fit waits with nobody
\* left to settle it: together these are inductive beside CoinInv.
THEOREM ReceiptInvariance == CoinSpec => [](ReceiptTypeOK /\ NothingForgotten)
<1>1. CoinInit => ReceiptTypeOK /\ NothingForgotten
  BY EmptySeq DEF CoinInit, ReceiptTypeOK, NothingForgotten
<1>2. CoinInv /\ ReceiptTypeOK /\ NothingForgotten /\ [CoinNext]_coinVars =>
        ReceiptTypeOK' /\ NothingForgotten'
  BY StepReceipts
<1> QED
  BY <1>1, <1>2, LeaseInvariance, PTL DEF CoinSpec

\* For every set of grants, quantities and maximum: a grant that waits and would fit is
\* covered by a lease, whose end settles the queue.
THEOREM NothingIsForgotten == CoinSpec => []NothingForgotten
  BY ReceiptInvariance, PTL

\* Every grant is accepted once and credited once, in the order of the queue and in full,
\* within the maximum, and never beside unsaved changes: the leases implement CoinLedger.
THEOREM GrantsArePaidOnce == CoinSpec => GrantsPaidOnce
<1>1. CoinInit => Ledger!LedgerInit
  BY DEF CoinInit, Ledger!LedgerInit
<1>2. CoinInv /\ ReceiptTypeOK /\ [CoinNext]_coinVars =>
        [Ledger!LedgerNext]_<<balance, queue, paid, dirty>>
  BY StepRefines DEF LedgerStep
<1> QED
  BY <1>1, <1>2, LeaseInvariance, ReceiptInvariance, PTL
     DEF CoinSpec, GrantsPaidOnce, Ledger!LedgerSpec

-----------------------------------------------------------------------------
(* Daily coins: days and the moments of a day.                               *)

HIDE CoinAssumption
HIDE DEF Phase, Lease
USE DailyAssumption

\* A day begins where the one before it ends.
LEMMA Later ==
    ASSUME NEW d \in Nat, NEW e \in Nat
    PROVE  /\ d * DayLength \in Nat /\ (d + 1) * DayLength = d * DayLength + DayLength
           /\ d < e => (d + 1) * DayLength <= e * DayLength
<1>1. d * DayLength \in Nat /\ (d + 1) * DayLength = d * DayLength + DayLength
  OBVIOUS
<1>2. ASSUME d < e PROVE (d + 1) * DayLength <= e * DayLength
  <2>1. e - (d + 1) \in Nat
    BY <1>2
  <2>2. (e - (d + 1)) * DayLength \in Nat
    BY <2>1
  <2>3. e * DayLength = (e - (d + 1)) * DayLength + (d + 1) * DayLength
    BY <2>1
  <2> QED
    BY <2>2, <2>3
<1> QED
  BY <1>1, <1>2

\* A moment lies on the day that its quotient names,
LEMMA DayOf ==
    ASSUME NEW t \in Nat
    PROVE  /\ t \div DayLength \in Nat
           /\ (t \div DayLength) * DayLength <= t
           /\ t < (t \div DayLength) * DayLength + DayLength
  OBVIOUS

\* and on no other.
LEMMA DayIs ==
    ASSUME NEW t \in Nat, NEW d \in Nat
    PROVE  t \div DayLength = d <=> d * DayLength <= t /\ t < d * DayLength + DayLength
<1> DEFINE e == t \div DayLength
<1>1. e \in Nat /\ e * DayLength <= t /\ t < e * DayLength + DayLength
  BY DayOf
<1> HIDE DEF e
<1>2. /\ d < e => d * DayLength + DayLength <= e * DayLength
      /\ e < d => e * DayLength + DayLength <= d * DayLength
      /\ d * DayLength \in Nat /\ e * DayLength \in Nat
  BY <1>1, Later
<1>3. e = d <=> d * DayLength <= t /\ t < d * DayLength + DayLength
  <2>1. CASE e = d
    BY <1>1, <2>1
  <2>2. CASE d < e
    BY <1>1, <1>2, <2>2
  <2>3. CASE e < d
    BY <1>1, <1>2, <2>3
  <2> QED
    BY <1>1, <2>1, <2>2, <2>3
<1> QED
  BY <1>3 DEF e

-----------------------------------------------------------------------------
(* Intervals.                                                                *)

\* The interval has the moment.
Within(s, t) == s[1] <= t /\ t < s[2]

\* Some of the first n intervals has the moment.
Has(spans, n, t) == \E i \in 1 .. n : Within(spans[i], t)

\* In the order of their starts.
InOrder(spans) == \A i \in 1 .. Len(spans) - 1 : spans[i][1] <= spans[i + 1][1]

\* The bounds of an interval.
LEMMA SpanParts ==
    ASSUME NEW s \in Span
    PROVE  s[1] \in Nat /\ s[2] \in Nat /\ s[1] < s[2] /\ s = <<s[1], s[2]>>
  BY DEF Span

\* One more interval, which starts no earlier than the last one.
LEMMA MergeStep ==
    ASSUME NEW m \in Seq(Span), Apart(m), NEW s \in Span,
           Len(m) # 0 => m[Len(m)][1] <= s[1]
    PROVE  /\ Merge(m, s) \in Seq(Span) /\ Apart(Merge(m, s))
           /\ Len(Merge(m, s)) # 0 /\ Merge(m, s)[Len(Merge(m, s))][1] <= s[1]
           /\ \A t \in Nat : Has(Merge(m, s), Len(Merge(m, s)), t)
                               <=> Has(m, Len(m), t) \/ Within(s, t)
<1> DEFINE n == Len(m)
<1>1. n \in Nat /\ \A i \in 1 .. n : m[i] \in Span
  BY ElementOfSeq
<1>2. /\ s[1] \in Nat /\ s[2] \in Nat /\ s[1] < s[2]
      /\ \A i \in 1 .. n : m[i][1] \in Nat /\ m[i][2] \in Nat /\ m[i][1] < m[i][2]
  BY <1>1, SpanParts
<1>3. CASE n = 0 \/ s[1] > m[n][2]
  <2> DEFINE r == Append(m, s)
  <2>1. Merge(m, s) = r
    BY <1>3 DEF Merge
  <2>2. r \in Seq(Span) /\ Len(r) = n + 1 /\ r[n + 1] = s /\ \A i \in 1 .. n : r[i] = m[i]
    BY AppendProperties
  <2> HIDE DEF r
  <2>3. Apart(r)
    BY <1>1, <1>3, <2>2 DEF Apart
  <2>4. \A t \in Nat : Has(r, n + 1, t) <=> Has(m, n, t) \/ Within(s, t)
    BY <1>1, <2>2 DEF Has
  <2> QED
    BY <1>1, <1>2, <2>1, <2>2, <2>3, <2>4
<1>4. CASE ~(n = 0 \/ s[1] > m[n][2]) /\ s[2] > m[n][2]
  <2> DEFINE e == <<m[n][1], s[2]>>
             r == [m EXCEPT ![n] = e]
  <2>1. Merge(m, s) = r
    BY <1>4 DEF Merge
  <2>2. n \in 1 .. n
    BY <1>1, <1>4
  <2>3. e \in Span /\ e[1] = m[n][1] /\ e[2] = s[2]
    BY <1>2, <1>4, <2>2 DEF Span
  <2> HIDE DEF e
  <2>4. /\ r \in Seq(Span) /\ Len(r) = n
        /\ \A i \in 1 .. n : r[i] = IF i = n THEN e ELSE m[i]
    BY <2>2, <2>3, ExceptSeq
  <2> HIDE DEF r
  <2>5. Apart(r)
    BY <1>1, <2>3, <2>4 DEF Apart
  <2>6. \A t \in Nat : Within(e, t) <=> Within(m[n], t) \/ Within(s, t)
    BY <1>2, <1>4, <2>2, <2>3 DEF Within
  <2>7. ASSUME NEW t \in Nat
        PROVE  Has(r, n, t) <=> Has(m, n, t) \/ Within(s, t)
    <3>1. ASSUME Has(r, n, t) PROVE Has(m, n, t) \/ Within(s, t)
      <4>1. PICK i \in 1 .. n : Within(r[i], t)
        BY <3>1 DEF Has
      <4> QED
        BY <2>2, <2>4, <2>6, <4>1 DEF Has
    <3>2. ASSUME NEW i \in 1 .. n, Within(m[i], t) PROVE Has(r, n, t)
      BY <2>2, <2>4, <2>6, <3>2 DEF Has
    <3>3. ASSUME Within(s, t) PROVE Has(r, n, t)
      BY <2>2, <2>4, <2>6, <3>3 DEF Has
    <3> QED
      BY <3>1, <3>2, <3>3 DEF Has
  <2> QED
    BY <1>1, <1>4, <2>1, <2>2, <2>3, <2>4, <2>5, <2>7
<1>5. CASE ~(n = 0 \/ s[1] > m[n][2]) /\ ~(s[2] > m[n][2])
  <2>1. Merge(m, s) = m
    BY <1>5 DEF Merge
  <2>2. n \in 1 .. n
    BY <1>1, <1>5
  <2>3. \A t \in Nat : Within(s, t) => Within(m[n], t)
    BY <1>2, <1>5, <2>2 DEF Within
  <2>4. \A t \in Nat : Has(m, n, t) <=> Has(m, n, t) \/ Within(s, t)
    BY <2>2, <2>3 DEF Has
  <2> QED
    BY <1>1, <1>5, <2>1, <2>4
<1> QED
  BY <1>3, <1>4, <1>5

\* The recursive function is what it is written as.
LEMMA MergingDef ==
    ASSUME NEW q, Len(q) \in Nat
    PROVE  Merging(q) = [i \in 0 .. Len(q) |->
                           IF i = 0 THEN <<>> ELSE Merge(Merging(q)[i - 1], q[i])]
<1> DEFINE Is(f, n) == f = [i \in 0 .. n |-> IF i = 0 THEN <<>> ELSE Merge(f[i - 1], q[i])]
           S == {n \in Nat : \E f : Is(f, n)}
<1>1. 0 \in S
  <2>1. Is([i \in 0 .. 0 |-> <<>>], 0)
    OBVIOUS
  <2> QED
    BY <2>1, Zenon
<1>2. ASSUME NEW n \in Nat, n \in S
      PROVE  n + 1 \in S
  <2> SUFFICES \E f : Is(f, n + 1)
    <3> HIDE DEF Is
    <3> QED
      OBVIOUS
  <2>1. PICK f : Is(f, n)
    BY <1>2
  <2> DEFINE g == [i \in 0 .. n + 1 |-> IF i = n + 1 THEN Merge(f[n], q[n + 1]) ELSE f[i]]
  <2>2. Is(g, n + 1)
    BY <2>1
  <2> QED
    BY <2>2, Zenon
<1>3. \E f : Is(f, Len(q))
  <2> HIDE DEF Is
  <2>1. Len(q) \in S
    <3> HIDE DEF S
    <3> QED
      BY <1>1, <1>2, Counting
  <2> QED
    BY <2>1
<1> QED
  BY <1>3, Zenon DEF Merging

\* Merging intervals in the order of their starts gives their union.
LEMMA MergingWorks ==
    ASSUME NEW q \in Seq(Span), InOrder(q)
    PROVE  LET m == Merging(q)[Len(q)]
           IN /\ m \in Seq(Span) /\ Apart(m)
              /\ \A t \in Nat : Has(m, Len(m), t) <=> Has(q, Len(q), t)
<1> DEFINE m == Merging(q)
           Good(i) == /\ m[i] \in Seq(Span) /\ Apart(m[i])
                      /\ Len(m[i]) # 0 => i # 0 /\ m[i][Len(m[i])][1] <= q[i][1]
                      /\ \A t \in Nat : Has(m[i], Len(m[i]), t) <=> Has(q, i, t)
           S == {i \in Nat : i <= Len(q) => Good(i)}
<1>1. Len(q) \in Nat /\ \A i \in 1 .. Len(q) : q[i] \in Span
  BY ElementOfSeq
<1>2. m = [i \in 0 .. Len(q) |-> IF i = 0 THEN <<>> ELSE Merge(m[i - 1], q[i])]
  BY <1>1, MergingDef
<1> HIDE DEF m
<1>3. m[0] = <<>> /\ \A i \in 1 .. Len(q) : m[i] = Merge(m[i - 1], q[i])
  BY <1>1, <1>2
<1>4. 0 \in S
  <2>1. m[0] \in Seq(Span) /\ Len(m[0]) = 0
    BY <1>3, EmptySeq
  <2>2. Apart(m[0])
    BY <2>1 DEF Apart
  <2>3. \A t \in Nat : Has(m[0], 0, t) <=> Has(q, 0, t)
    BY DEF Has
  <2> QED
    BY <2>1, <2>2, <2>3
<1>5. ASSUME NEW n \in Nat, n \in S
      PROVE  n + 1 \in S
  <2> SUFFICES ASSUME n + 1 <= Len(q)
               PROVE  Good(n + 1)
    OBVIOUS
  <2> DEFINE a == m[n]
             b == m[n + 1]
             s == q[n + 1]
  <2>1. Good(n)
    BY <1>1, <1>5
  <2>2. s \in Span /\ b = Merge(a, s)
    BY <1>1, <1>3
  <2>3. Len(a) # 0 => a[Len(a)][1] <= s[1]
    <3> SUFFICES ASSUME Len(a) # 0 PROVE a[Len(a)][1] <= s[1]
      OBVIOUS
    <3>1. n \in 1 .. Len(q) - 1 /\ n \in 1 .. Len(q) /\ a[Len(a)][1] <= q[n][1]
      BY <1>1, <2>1
    <3>2. q[n][1] <= s[1]
      BY <3>1 DEF InOrder
    <3>3. Len(a) \in 1 .. Len(a)
      BY <2>1
    <3>4. a[Len(a)] \in Span
      BY <2>1, <3>3, ElementOfSeq
    <3>5. a[Len(a)][1] \in Nat /\ q[n][1] \in Nat /\ s[1] \in Nat
      BY <1>1, <2>2, <3>1, <3>4, SpanParts, Zenon
    <3> QED
      BY <3>1, <3>2, <3>5
  <2>4. /\ b \in Seq(Span) /\ Apart(b) /\ Len(b) # 0 /\ b[Len(b)][1] <= s[1]
        /\ \A t \in Nat : Has(b, Len(b), t) <=> Has(a, Len(a), t) \/ Within(s, t)
    <3> HIDE DEF a, b, s
    <3>1. a \in Seq(Span) /\ Apart(a)
      BY <2>1 DEF a
    <3> QED
      BY <2>2, <2>3, <3>1, MergeStep, Zenon
  <2>5. \A t \in Nat : Has(q, n + 1, t) <=> Has(q, n, t) \/ Within(s, t)
    BY DEF Has
  <2> QED
    BY <2>1, <2>4, <2>5, SMTT(40)
<1>6. Nat \subseteq S
  <2> HIDE DEF S
  <2> QED
    BY <1>4, <1>5, Counting
<1>7. Good(Len(q))
  BY <1>1, <1>6
<1> QED
  BY <1>7 DEF m

\* The lengths add up, as they are written.
LEMMA LengthsDef ==
    ASSUME NEW q, Len(q) \in Nat
    PROVE  Lengths(q) = [i \in 0 .. Len(q) |->
                           IF i = 0 THEN 0 ELSE Lengths(q)[i - 1] + (q[i][2] - q[i][1])]
<1> DEFINE Is(f, n) == f = [i \in 0 .. n |->
                              IF i = 0 THEN 0 ELSE f[i - 1] + (q[i][2] - q[i][1])]
           S == {n \in Nat : \E f : Is(f, n)}
<1>1. 0 \in S
  <2>1. Is([i \in 0 .. 0 |-> 0], 0)
    OBVIOUS
  <2> QED
    BY <2>1, Zenon
<1>2. ASSUME NEW n \in Nat, n \in S
      PROVE  n + 1 \in S
  <2> SUFFICES \E f : Is(f, n + 1)
    <3> HIDE DEF Is
    <3> QED
      OBVIOUS
  <2>1. PICK f : Is(f, n)
    BY <1>2
  <2> DEFINE g == [i \in 0 .. n + 1 |->
                     IF i = n + 1 THEN f[n] + (q[n + 1][2] - q[n + 1][1]) ELSE f[i]]
  <2>2. Is(g, n + 1)
    BY <2>1
  <2> QED
    BY <2>2, Zenon
<1>3. \E f : Is(f, Len(q))
  <2> HIDE DEF Is
  <2>1. Len(q) \in S
    <3> HIDE DEF S
    <3> QED
      BY <1>1, <1>2, Counting
  <2> QED
    BY <2>1
<1> QED
  BY <1>3, Zenon DEF Lengths

\* The moments of the first n intervals, on a day that begins at base.
Points(q, n, base) == UNION {{base + t : t \in q[i][1] .. q[i][2] - 1} : i \in 1 .. n}

\* They are the moments that some of the intervals has.
LEMMA PointsAre ==
    ASSUME NEW q \in Seq(Span), NEW n \in 0 .. Len(q), NEW base \in Nat, NEW x
    PROVE  x \in Points(q, n, base) <=> \E t \in Nat : x = base + t /\ Has(q, n, t)
<1>1. \A i \in 1 .. n : q[i][1] \in Nat /\ q[i][2] \in Nat
  <2>1. \A i \in 1 .. n : q[i] \in Span
    BY ElementOfSeq
  <2> QED
    BY <2>1, SpanParts
<1>2. \A i \in 1 .. n : \A t : t \in q[i][1] .. q[i][2] - 1 <=> t \in Nat /\ Within(q[i], t)
  BY <1>1 DEF Within
<1>3. ASSUME x \in Points(q, n, base)
      PROVE  \E t \in Nat : x = base + t /\ Has(q, n, t)
  <2>1. PICK i \in 1 .. n : x \in {base + t : t \in q[i][1] .. q[i][2] - 1}
    BY <1>3 DEF Points
  <2>2. PICK t \in q[i][1] .. q[i][2] - 1 : x = base + t
    BY <2>1
  <2> QED
    BY <1>2, <2>2 DEF Has
<1>4. ASSUME NEW t \in Nat, x = base + t, Has(q, n, t)
      PROVE  x \in Points(q, n, base)
  <2>1. PICK i \in 1 .. n : t \in q[i][1] .. q[i][2] - 1
    BY <1>2, <1>4 DEF Has
  <2>2. x \in {base + u : u \in q[i][1] .. q[i][2] - 1}
    BY <1>4, <2>1
  <2> QED
    BY <2>2 DEF Points
<1> QED
  BY <1>3, <1>4

\* Intervals with gaps between them have as many moments as their lengths add up to.
LEMMA LengthsCount ==
    ASSUME NEW q \in Seq(Span), Apart(q), NEW base \in Nat
    PROVE  /\ IsFiniteSet(Points(q, Len(q), base))
           /\ Lengths(q)[Len(q)] = Cardinality(Points(q, Len(q), base))
           /\ Lengths(q)[Len(q)] \in Nat
<1> DEFINE s == Lengths(q)
           P(i) == Points(q, i, base)
           Good(i) == /\ IsFiniteSet(P(i)) /\ s[i] = Cardinality(P(i))
                      /\ \A x \in P(i) : i # 0 /\ x < base + q[i][2]
           S == {i \in Nat : i <= Len(q) => Good(i)}
<1>1. Len(q) \in Nat /\ \A i \in 1 .. Len(q) : q[i] \in Span
  BY ElementOfSeq
<1>2. \A i \in 1 .. Len(q) : q[i][1] \in Nat /\ q[i][2] \in Nat /\ q[i][1] < q[i][2]
  BY <1>1, SpanParts
<1>3. s[0] = 0 /\ \A i \in 1 .. Len(q) : s[i] = s[i - 1] + (q[i][2] - q[i][1])
  <2>1. s = [i \in 0 .. Len(q) |-> IF i = 0 THEN 0 ELSE s[i - 1] + (q[i][2] - q[i][1])]
    BY <1>1, LengthsDef
  <2> HIDE DEF s
  <2> QED
    BY <1>1, <2>1
<1> HIDE DEF s
<1>4. 0 \in S
  <2>1. P(0) = {}
    BY DEF Points
  <2> QED
    BY <1>3, <2>1, FS_EmptySet, Zenon
<1>5. ASSUME NEW n \in Nat, n \in S
      PROVE  n + 1 \in S
  <2> SUFFICES ASSUME n + 1 <= Len(q)
               PROVE  Good(n + 1)
    OBVIOUS
  <2> DEFINE a == base + q[n + 1][1]
             b == base + q[n + 1][2]
  <2>1. Good(n)
    BY <1>1, <1>5
  <2>2. n + 1 \in 1 .. Len(q) /\ (n + 1) - 1 = n /\ a \in Nat /\ b \in Nat /\ a < b
    BY <1>1, <1>2, SMTT(40)
  <2>3. P(n + 1) = P(n) \cup (a .. b - 1)
    <3>1. {base + t : t \in q[n + 1][1] .. q[n + 1][2] - 1} = a .. b - 1
      <4>1. q[n + 1][1] \in Nat /\ q[n + 1][2] \in Nat
        BY <1>2, <2>2
      <4>2. \A x \in a .. b - 1 : x - base \in q[n + 1][1] .. q[n + 1][2] - 1 /\ x = base + (x - base)
        BY <4>1, SMTT(40)
      <4>3. \A t \in q[n + 1][1] .. q[n + 1][2] - 1 : base + t \in a .. b - 1
        BY <4>1, SMTT(40)
      <4> QED
        BY <4>2, <4>3
    <3>2. 1 .. n + 1 = (1 .. n) \cup {n + 1}
      OBVIOUS
    <3> QED
      BY <3>1, <3>2 DEF Points
  <2>4. \A x \in P(n) : x < a
    <3>1. CASE n = 0
      BY <2>1, <3>1
    <3>2. CASE n # 0
      <4>1. n \in 1 .. Len(q) - 1 /\ n \in 1 .. Len(q)
        BY <1>1, <3>2
      <4>2. q[n][2] < q[n + 1][1]
        BY <4>1 DEF Apart
      <4>3. q[n][2] \in Nat /\ q[n + 1][1] \in Nat
        BY <1>2, <2>2, <4>1
      <4>4. \A x \in P(n) : x \in Nat
        BY <4>1, PointsAre
      <4> HIDE DEF P
      <4> QED
        BY <2>1, <4>2, <4>3, <4>4, SMTT(40)
    <3> QED
      BY <3>1, <3>2
  <2>5. P(n) \cap (a .. b - 1) = {}
    <3> HIDE DEF P, a, b
    <3> QED
      BY <2>2, <2>4
  <2>6. /\ IsFiniteSet(a .. b - 1) /\ Cardinality(a .. b - 1) = b - a
        /\ IsFiniteSet(P(n) \cup (a .. b - 1))
        /\ Cardinality(P(n) \cup (a .. b - 1)) = Cardinality(P(n)) + (b - a)
    <3> HIDE DEF P, a, b
    <3>1. IsFiniteSet(a .. b - 1) /\ Cardinality(a .. b - 1) = b - a
      <4>1. a \in Int /\ b - 1 \in Int
        BY <2>2
      <4>2. IsFiniteSet(a .. b - 1) /\ Cardinality(a .. b - 1) = IF a > b - 1 THEN 0 ELSE (b - 1) - a + 1
        BY <4>1, FS_Interval, Zenon
      <4> QED
        BY <2>2, <4>2
    <3>2. IsFiniteSet(P(n)) /\ Cardinality(P(n)) \in Nat
      BY <2>1, FS_CardinalityType
    <3>3. /\ IsFiniteSet(P(n) \cup (a .. b - 1))
          /\ Cardinality(P(n) \cup (a .. b - 1)) =
               Cardinality(P(n)) + Cardinality(a .. b - 1) - Cardinality(P(n) \cap (a .. b - 1))
      BY <3>1, <3>2, FS_Union, Zenon
    <3>4. Cardinality(P(n) \cap (a .. b - 1)) = 0
      BY <2>5, FS_EmptySet, Zenon
    <3> QED
      BY <2>2, <3>1, <3>2, <3>3, <3>4
  <2>7. s[n + 1] = s[n] + (b - a)
    <3>1. q[n + 1][1] \in Nat /\ q[n + 1][2] \in Nat
      BY <1>2, <2>2
    <3>2. b - a = q[n + 1][2] - q[n + 1][1]
      BY <3>1
    <3> QED
      BY <1>3, <2>2, <3>2
  <2>8. \A x \in P(n + 1) : n + 1 # 0 /\ x < b
    <3>1. \A x \in P(n) : x \in Nat
      <4>1. n \in 0 .. Len(q)
        BY <1>1
      <4> QED
        BY <4>1, PointsAre
    <3> HIDE DEF P, a, b
    <3> QED
      BY <2>2, <2>3, <2>4, <3>1
  <2> QED
    <3> HIDE DEF P, a
    <3> QED
      BY <2>1, <2>3, <2>6, <2>7, <2>8, Zenon
<1>6. Nat \subseteq S
  <2> HIDE DEF S
  <2> QED
    BY <1>4, <1>5, Counting
<1>7. Good(Len(q))
  BY <1>1, <1>6
<1> QED
  BY <1>7, FS_CardinalityType DEF s

\* An order that puts the starts in order, if there is one, changes neither the
\* intervals nor what they cover.
LEMMA ByStartWorks ==
    ASSUME NEW q \in Seq(Span),
           \E p \in Bijection(1 .. Len(q), 1 .. Len(q)) :
               \A i \in 1 .. Len(q) - 1 : q[p[i]][1] <= q[p[i + 1]][1]
    PROVE  /\ ByStart(q) \in Seq(Span) /\ InOrder(ByStart(q)) /\ Len(ByStart(q)) = Len(q)
           /\ \A t \in Nat : Has(ByStart(q), Len(q), t) <=> Has(q, Len(q), t)
<1> DEFINE n == Len(q)
           Fine(p) == \A i \in 1 .. n - 1 : q[p[i]][1] <= q[p[i + 1]][1]
           p == CHOOSE p \in Bijection(1 .. n, 1 .. n) : Fine(p)
           r == [i \in 1 .. n |-> q[p[i]]]
<1>1. n \in Nat /\ \A i \in 1 .. n : q[i] \in Span
  BY ElementOfSeq
<1>2. ByStart(q) = r
  BY DEF ByStart
<1>3. p \in Bijection(1 .. n, 1 .. n) /\ Fine(p)
  <2> HIDE DEF Fine
  <2>1. \E o \in Bijection(1 .. n, 1 .. n) : Fine(o)
    BY DEF Fine
  <2> QED
    BY <2>1
<1> HIDE DEF p
<1>4. p \in [1 .. n -> 1 .. n] /\ \A j \in 1 .. n : \E i \in 1 .. n : p[i] = j
  BY <1>3, Zenon DEF Bijection, Surjection
<1>5. r \in Seq(Span) /\ Len(r) = n /\ \A i \in 1 .. n : r[i] = q[p[i]]
  <2>1. \A i \in 1 .. n : q[p[i]] \in Span
    BY <1>1, <1>4, Zenon
  <2>2. r \in [1 .. n -> Span]
    BY <2>1
  <2>3. \A i \in 1 .. n : r[i] = q[p[i]]
    OBVIOUS
  <2> HIDE DEF r, n
  <2>4. r \in Seq(Span) /\ Len(r) = n
    BY <1>1, <2>2
  <2> QED
    BY <2>3, <2>4
<1> HIDE DEF r
<1>6. InOrder(r)
  <2>1. \A i \in 1 .. n - 1 : i \in 1 .. n /\ i + 1 \in 1 .. n
    BY <1>1
  <2>2. \A i \in 1 .. n - 1 : r[i][1] <= r[i + 1][1]
    BY <1>3, <1>5, <2>1
  <2> QED
    BY <1>5, <2>2 DEF InOrder
<1>7. ASSUME NEW t \in Nat
      PROVE  Has(r, n, t) <=> Has(q, n, t)
  <2>1. ASSUME NEW i \in 1 .. n, Within(r[i], t)
        PROVE  \E j \in 1 .. n : Within(q[j], t)
    <3>1. p[i] \in 1 .. n /\ r[i] = q[p[i]]
      BY <1>4, <1>5, Zenon
    <3> QED
      BY <2>1, <3>1
  <2>2. ASSUME NEW j \in 1 .. n, Within(q[j], t)
        PROVE  \E i \in 1 .. n : Within(r[i], t)
    <3>1. PICK i \in 1 .. n : p[i] = j
      BY <1>4
    <3>2. r[i] = q[j]
      BY <1>5, <3>1
    <3> QED
      BY <2>2, <3>2
  <2> QED
    BY <2>1, <2>2 DEF Has
<1> QED
  BY <1>2, <1>5, <1>6, <1>7

\* There is such an order for a sequence in order with one more interval behind it.
LEMMA Insertion ==
    ASSUME NEW q \in Seq(Span), InOrder(q), NEW s \in Span
    PROVE  \E p \in Bijection(1 .. Len(Append(q, s)), 1 .. Len(Append(q, s))) :
             \A i \in 1 .. Len(Append(q, s)) - 1 :
               Append(q, s)[p[i]][1] <= Append(q, s)[p[i + 1]][1]
<1> DEFINE n == Len(q)
           r == Append(q, s)
           T == {k \in 1 .. n + 1 : k = n + 1 \/ s[1] < q[k][1]}
<1>1. n \in Nat /\ Len(r) = n + 1 /\ r[n + 1] = s /\ \A i \in 1 .. n : r[i] = q[i]
  BY AppendProperties
<1>2. s[1] \in Nat /\ \A i \in 1 .. n : q[i][1] \in Nat
  <2>1. \A i \in 1 .. n : q[i] \in Span
    BY ElementOfSeq
  <2> QED
    BY <2>1, SpanParts
<1>3. PICK k \in T : \A j \in T : k <= j
  <2>1. T \in SUBSET Nat /\ n + 1 \in T
    BY <1>1
  <2> HIDE DEF T
  <2> QED
    BY <2>1, LeastNumber
<1>4. /\ k \in 1 .. n + 1 /\ (k # n + 1 => s[1] < q[k][1])
      /\ \A i \in 1 .. n : i < k => q[i][1] <= s[1]
  <2>1. ASSUME NEW i \in 1 .. n, i < k PROVE q[i][1] <= s[1]
    <3>1. i \notin T
      BY <1>1, <1>3, <2>1
    <3>2. ~(s[1] < q[i][1])
      BY <1>1, <3>1
    <3> QED
      BY <1>2, <3>2
  <2> QED
    BY <1>3, <2>1
<1> HIDE DEF T, r
<1> DEFINE p == [i \in 1 .. n + 1 |-> IF i < k THEN i ELSE IF i = k THEN n + 1 ELSE i - 1]
<1>5. p \in [1 .. n + 1 -> 1 .. n + 1]
  BY <1>1, <1>4
<1>6. \A a, b \in 1 .. n + 1 : p[a] = p[b] => a = b
  BY <1>1, <1>4
<1>7. \A j \in 1 .. n + 1 : \E i \in 1 .. n + 1 : p[i] = j
  <2> SUFFICES ASSUME NEW j \in 1 .. n + 1 PROVE \E i \in 1 .. n + 1 : p[i] = j
    OBVIOUS
  <2>1. CASE j < k
    BY <1>1, <1>4, <2>1
  <2>2. CASE j = n + 1
    BY <1>1, <1>4, <2>2
  <2>3. CASE ~(j < k) /\ j # n + 1
    <3>1. j + 1 \in 1 .. n + 1 /\ p[j + 1] = j
      BY <1>1, <1>4, <2>3
    <3> QED
      BY <3>1
  <2> QED
    BY <2>1, <2>2, <2>3
<1>8. \A i \in 1 .. n : r[p[i]][1] <= r[p[i + 1]][1]
  <2> SUFFICES ASSUME NEW i \in 1 .. n PROVE r[p[i]][1] <= r[p[i + 1]][1]
    BY Zenon
  <2>0. \A j \in 1 .. n - 1 : q[j][1] <= q[j + 1][1]
    BY Zenon DEF InOrder
  <2>1. CASE i + 1 < k
    <3>1. p[i] = i /\ p[i + 1] = i + 1 /\ i \in 1 .. n - 1 /\ i + 1 \in 1 .. n
      BY <1>1, <1>4, <2>1
    <3> HIDE DEF p
    <3> QED
      BY <1>1, <2>0, <3>1
  <2>2. CASE i + 1 = k
    <3>1. p[i] = i /\ p[i + 1] = n + 1 /\ i < k
      BY <1>1, <1>4, <2>2
    <3> HIDE DEF p
    <3> QED
      BY <1>1, <1>4, <3>1
  <2>3. CASE i = k
    <3>1. p[i] = n + 1 /\ p[i + 1] = i /\ k # n + 1
      BY <1>1, <1>4, <2>3
    <3> HIDE DEF p
    <3> QED
      BY <1>1, <1>2, <1>4, <2>3, <3>1
  <2>4. CASE i > k
    <3>1. p[i] = i - 1 /\ p[i + 1] = i /\ i - 1 \in 1 .. n - 1 /\ i - 1 \in 1 .. n /\ (i - 1) + 1 = i
      BY <1>1, <1>4, <2>4
    <3> HIDE DEF p
    <3> QED
      BY <1>1, <2>0, <3>1
  <2> QED
    BY <1>1, <1>4, <2>1, <2>2, <2>3, <2>4
<1>9. p \in Bijection(1 .. n + 1, 1 .. n + 1)
  <2> HIDE DEF p
  <2> QED
    BY <1>5, <1>6, <1>7 DEF Bijection, Injection, Surjection, IsInjective
<1> HIDE DEF p
<1>10. \E o \in Bijection(1 .. Len(r), 1 .. Len(r)) :
          \A i \in 1 .. Len(r) - 1 : r[o[i]][1] <= r[o[i + 1]][1]
  <2>1. Len(r) - 1 = n
    BY <1>1
  <2> HIDE <1>1
  <2>2. p \in Bijection(1 .. Len(r), 1 .. Len(r))
    BY <1>1, <1>9, Zenon
  <2> QED
    BY <1>8, <2>1, <2>2
<1> QED
  BY <1>10, Zenon DEF r

\* Nothing has to move where the intervals are in order.
LEMMA InOrderAlready ==
    ASSUME NEW q \in Seq(Span), InOrder(q)
    PROVE  \E p \in Bijection(1 .. Len(q), 1 .. Len(q)) :
             \A i \in 1 .. Len(q) - 1 : q[p[i]][1] <= q[p[i + 1]][1]
<1> DEFINE n == Len(q)
           p == [i \in 1 .. n |-> i]
<1>1. n \in Nat
  OBVIOUS
<1>2. p \in Bijection(1 .. n, 1 .. n)
  BY DEF Bijection, Injection, Surjection, IsInjective
<1>3. \A i \in 1 .. n - 1 : q[p[i]][1] <= q[p[i + 1]][1]
  BY <1>1 DEF InOrder
<1> QED
  BY <1>2, <1>3, Zenon

\* mergeDailyCoinIntervals: what is stored, with gaps between its intervals, and a new
\* interval, which may be empty and come in any order, give a sequence that has gaps
\* between its intervals again and covers exactly the moments of both.
THEOREM MergedWorks ==
    ASSUME NEW q \in Seq(Span), Apart(q), NEW next \in Nat \X Nat
    PROVE  LET m == Merged(q, next)
           IN /\ m \in Seq(Span) /\ Apart(m)
              /\ \A t \in Nat : Has(m, Len(m), t) <=> Has(q, Len(q), t) \/ Within(next, t)
<1>1. InOrder(q)
  <2>1. \A i \in 1 .. Len(q) : q[i][1] \in Nat /\ q[i][2] \in Nat /\ q[i][1] < q[i][2]
    BY ElementOfSeq, SpanParts
  <2>2. \A i \in 1 .. Len(q) - 1 : i \in 1 .. Len(q) /\ i + 1 \in 1 .. Len(q)
    OBVIOUS
  <2>3. ASSUME NEW i \in 1 .. Len(q) - 1
        PROVE  q[i][1] <= q[i + 1][1]
    <3>1. i \in 1 .. Len(q) /\ i + 1 \in 1 .. Len(q)
      BY <2>2
    <3>2. q[i][1] \in Nat /\ q[i][2] \in Nat /\ q[i][1] < q[i][2] /\ q[i + 1][1] \in Nat
      BY <2>1, <3>1, Zenon
    <3>3. q[i][2] < q[i + 1][1]
      BY DEF Apart
    <3> QED
      BY <3>2, <3>3
  <2> QED
    BY <2>3, Zenon DEF InOrder
<1> DEFINE all == IF next[2] > next[1] THEN Append(q, next) ELSE q
           r == ByStart(all)
           m == Merging(r)[Len(r)]
<1>2. Merged(q, next) = m
  BY DEF Merged
<1>3. /\ all \in Seq(Span)
      /\ \E p \in Bijection(1 .. Len(all), 1 .. Len(all)) :
           \A i \in 1 .. Len(all) - 1 : all[p[i]][1] <= all[p[i + 1]][1]
      /\ \A t \in Nat : Has(all, Len(all), t) <=> Has(q, Len(q), t) \/ Within(next, t)
  <2>1. CASE next[2] > next[1]
    <3>1. next \in Span /\ all = Append(q, next)
      BY <2>1 DEF Span
    <3>2. /\ Append(q, next) \in Seq(Span) /\ Len(Append(q, next)) = Len(q) + 1
          /\ Append(q, next)[Len(q) + 1] = next
          /\ \A i \in 1 .. Len(q) : Append(q, next)[i] = q[i]
      BY <3>1, AppendProperties
    <3>3. \A t \in Nat : Has(Append(q, next), Len(q) + 1, t) <=> Has(q, Len(q), t) \/ Within(next, t)
      BY <3>2, SMTT(40) DEF Has
    <3> QED
      BY <1>1, <3>1, <3>2, <3>3, Insertion, Zenon
  <2>2. CASE ~(next[2] > next[1])
    <3>1. \A t \in Nat : ~Within(next, t)
      BY <2>2 DEF Within
    <3> QED
      BY <1>1, <2>2, <3>1, InOrderAlready
  <2> QED
    BY <2>1, <2>2, Zenon
<1> HIDE DEF all
<1>4. /\ r \in Seq(Span) /\ InOrder(r) /\ Len(r) = Len(all)
      /\ \A t \in Nat : Has(r, Len(all), t) <=> Has(all, Len(all), t)
  BY <1>3, ByStartWorks
<1> HIDE DEF r
<1>5. /\ m \in Seq(Span) /\ Apart(m)
      /\ \A t \in Nat : Has(m, Len(m), t) <=> Has(r, Len(r), t)
  BY <1>4, MergingWorks
<1> QED
  BY <1>2, <1>3, <1>4, <1>5

-----------------------------------------------------------------------------
(* A settlement.                                                             *)

\* The moments of an interval on a day.
OnDay(from, until, d) == {t \in Nat : from <= t /\ t < until /\ t \div DayLength = d}

\* The moments that a day's row has stored.
RowPoints(row, d) == Points(row.intervals, Len(row.intervals), d * DayLength)

\* The moments of a row are those of all its intervals.
LEMMA MomentsArePoints ==
    ASSUME NEW d, account[d].intervals \in Seq(Span)
    PROVE  Moments(d) = RowPoints(account[d], d)
<1>1. DOMAIN account[d].intervals = 1 .. Len(account[d].intervals)
  BY LenProperties
<1> QED
  BY <1>1 DEF Moments, RowPoints, Points

\* The bounds of an interval within the day.
Start(d, from) == (IF from > d * DayLength THEN from ELSE d * DayLength) - d * DayLength
End(d, until) == (IF until < (d + 1) * DayLength THEN until ELSE (d + 1) * DayLength)
                 - d * DayLength

\* Cut to a day, an interval keeps its moments on that day.
LEMMA Bounds ==
    ASSUME NEW d \in Nat, NEW from \in Nat, NEW until \in Nat, d * DayLength <= until
    PROVE  /\ <<Start(d, from), End(d, until)>> \in Nat \X Nat
           /\ \A t \in Nat : Within(<<Start(d, from), End(d, until)>>, t) <=>
                               d * DayLength + t \in OnDay(from, until, d)
<1> DEFINE b == d * DayLength
<1>1. b \in Nat /\ (d + 1) * DayLength = b + DayLength /\ DayLength \in Nat
  BY Later
<1>2. \A t \in Nat : t \div DayLength = d <=> b <= t /\ t < b + DayLength
  BY DayIs
<1> HIDE DEF b
<1>3. /\ Start(d, from) = (IF from > b THEN from ELSE b) - b
      /\ End(d, until) = (IF until < b + DayLength THEN until ELSE b + DayLength) - b
  BY <1>1 DEF Start, End, b
<1>4. Start(d, from) \in Nat /\ End(d, until) \in Nat
  <2>1. b <= until
    BY DEF b
  <2> QED
    BY <1>1, <1>3, <2>1
<1>5. ASSUME NEW t \in Nat
      PROVE  Within(<<Start(d, from), End(d, until)>>, t) <=> b + t \in OnDay(from, until, d)
  <2>1. Within(<<Start(d, from), End(d, until)>>, t) <=> Start(d, from) <= t /\ t < End(d, until)
    BY DEF Within
  <2>2. b + t \in Nat /\ (b + t) \div DayLength = d <=> t < DayLength
    BY <1>1, <1>2
  <2>3. b + t \in OnDay(from, until, d) <=> from <= b + t /\ b + t < until /\ t < DayLength
    <3>1. b + t \in Nat
      BY <1>1
    <3>2. (b + t) \div DayLength = d <=> t < DayLength
      BY <1>1, <1>2, <3>1
    <3> QED
      BY <3>1, <3>2 DEF OnDay
  <2>4. Start(d, from) <= t /\ t < End(d, until) <=> from <= b + t /\ b + t < until /\ t < DayLength
    <3>1. b <= until
      BY DEF b
    <3> QED
      BY <1>1, <1>3, <3>1
  <2> QED
    BY <2>1, <2>3, <2>4
<1> QED
  BY <1>4, <1>5 DEF b

\* What a day's row holds after an interval: the union, or the bonus for it.
LEMMA SettledRow ==
    ASSUME NEW row \in DayRow, Apart(row.intervals), ~row.bonus, NEW d \in Nat,
           NEW from \in Nat, NEW until \in Nat, d * DayLength <= until
    PROVE  LET new == Settled(row, d, from, until)
               all == RowPoints(row, d) \cup OnDay(from, until, d)
           IN /\ new \in DayRow /\ new.first = TRUE /\ Apart(new.intervals)
              /\ new.bonus => Cardinality(all) >= Required
              /\ ~new.bonus => RowPoints(new, d) = all /\ new.online = Cardinality(all)
<1> DEFINE q == row.intervals
           b == d * DayLength
           next == <<Start(d, from), End(d, until)>>
           m == Merged(q, next)
           new == Settled(row, d, from, until)
           all == RowPoints(row, d) \cup OnDay(from, until, d)
           sum == Lengths(m)[Len(m)]
<1>1. q \in Seq(Span) /\ Apart(q) /\ b \in Nat
  BY Later DEF DayRow
<1>2. /\ next \in Nat \X Nat
      /\ \A t \in Nat : Within(next, t) <=> b + t \in OnDay(from, until, d)
  BY Bounds
<1>3. /\ m \in Seq(Span) /\ Apart(m)
      /\ \A t \in Nat : Has(m, Len(m), t) <=> Has(q, Len(q), t) \/ Within(next, t)
  <2> HIDE DEF q, next
  <2> QED
    BY <1>1, <1>2, MergedWorks
<1>4. new = IF Total(m) >= Required
            THEN [first |-> TRUE, bonus |-> TRUE, online |-> Required, intervals |-> <<>>]
            ELSE [first |-> TRUE, bonus |-> FALSE, online |-> Total(m), intervals |-> m]
  BY DEF Settled, Start, End
<1>5. Points(m, Len(m), b) = all
  <2>1. /\ \A x : x \in Points(m, Len(m), b) <=> \E t \in Nat : x = b + t /\ Has(m, Len(m), t)
        /\ \A x : x \in Points(q, Len(q), b) <=> \E t \in Nat : x = b + t /\ Has(q, Len(q), t)
    <3> HIDE DEF m, q, b
    <3>1. Len(m) \in 0 .. Len(m) /\ Len(q) \in 0 .. Len(q)
      BY <1>1, <1>3
    <3> QED
      BY <1>1, <1>3, <3>1, PointsAre, Zenon
  <2>2. all = Points(q, Len(q), b) \cup OnDay(from, until, d)
    BY DEF RowPoints
  <2>3. \A x \in OnDay(from, until, d) : \E t \in Nat : x = b + t
    <3> SUFFICES ASSUME NEW x \in OnDay(from, until, d) PROVE \E t \in Nat : x = b + t
      OBVIOUS
    <3>1. x \in Nat /\ x \div DayLength = d
      BY DEF OnDay
    <3>2. b <= x
      BY <3>1, DayIs
    <3> HIDE DEF b
    <3>3. x - b \in Nat /\ x = b + (x - b)
      BY <1>1, <3>1, <3>2
    <3> QED
      BY <3>3
  <2> HIDE DEF m, q, b, next, all
  <2>4. ASSUME NEW x \in Points(m, Len(m), b) PROVE x \in all
    BY <1>2, <1>3, <2>1, <2>2
  <2>5. ASSUME NEW x \in all PROVE x \in Points(m, Len(m), b)
    BY <1>2, <1>3, <2>1, <2>2, <2>3
  <2> QED
    BY <2>4, <2>5, Zenon
<1>6. sum \in Nat /\ sum = Cardinality(all)
  <2> HIDE DEF m, all, b
  <2> QED
    BY <1>1, <1>3, <1>5, LengthsCount
<1>7. Total(m) = IF sum < Required THEN sum ELSE Required
  BY DEF Total
<1> HIDE DEF m, all, sum, new
<1>8. CASE sum < Required
  <2>1. new = [first |-> TRUE, bonus |-> FALSE, online |-> sum, intervals |-> m]
    BY <1>4, <1>6, <1>7, <1>8
  <2>2. RowPoints(new, d) = all
    BY <1>5, <2>1 DEF RowPoints
  <2>3. new \in DayRow
    BY <1>3, <1>6, <2>1 DEF DayRow
  <2>4. /\ new.bonus = FALSE /\ new.first = TRUE /\ new.online = Cardinality(all)
        /\ Apart(new.intervals)
    BY <1>3, <1>6, <2>1
  <2> QED
    BY <2>2, <2>3, <2>4 DEF new, all
<1>9. CASE ~(sum < Required)
  <2>1. new = [first |-> TRUE, bonus |-> TRUE, online |-> Required, intervals |-> <<>>]
    BY <1>4, <1>6, <1>7, <1>9
  <2>2. <<>> \in Seq(Span) /\ Apart(<<>>)
    BY EmptySeq DEF Apart
  <2>3. new \in DayRow
    BY <2>1, <2>2 DEF DayRow
  <2>4. Cardinality(all) >= Required
    BY <1>6, <1>9
  <2> QED
    BY <2>1, <2>2, <2>3, <2>4 DEF new, all
<1> QED
  BY <1>8, <1>9, Zenon

\* The same of the account as a step leaves it.
LEMMA MomentsThen ==
    ASSUME NEW d, account'[d].intervals \in Seq(Span)
    PROVE  Moments(d)' = RowPoints(account'[d], d)
<1>1. DOMAIN account'[d].intervals = 1 .. Len(account'[d].intervals)
  BY LenProperties
<1> QED
  BY <1>1 DEF Moments, RowPoints, Points

\* Only moments up to the horizon can be spent online.
LEMMA OnlineFinite ==
    ASSUME NEW d
    PROVE  IsFiniteSet(OnlineOn(d))
<1>1. OnlineOn(d) \in SUBSET Moment
  BY DEF OnlineOn, Played
<1>2. IsFiniteSet(Moment)
  BY FS_Interval DEF Moment
<1> QED
  BY <1>1, <1>2, FS_Subset

\* The days that a settlement visits.
LEMMA DaysAre ==
    ASSUME NEW from \in Nat, NEW until \in Nat, NEW live \in BOOLEAN, NEW d \in Day
    PROVE  /\ d \in Days(from, until, live) =>
                from \div DayLength <= d /\ d * DayLength <= until
           /\ OnDay(from, until, d) # {} => d \in Days(from, until, live)
<1> DEFINE f == from \div DayLength
<1>1. d \in Nat /\ d * DayLength \in Nat
  BY Later, DayOf DEF Day
<1>2. f \in Nat /\ f * DayLength <= from /\ from < f * DayLength + DayLength
  BY DayOf
<1>3. Midnight(from) \div DayLength = f
  <2>1. f * DayLength \in Nat
    BY <1>2, Later
  <2>2. f * DayLength <= f * DayLength /\ f * DayLength < f * DayLength + DayLength
    BY <2>1
  <2>3. (f * DayLength) \div DayLength = f
    <3> HIDE DEF f
    <3> QED
      BY <1>2, <2>1, <2>2, DayIs
  <2> QED
    BY <2>3 DEF Midnight
<1> HIDE DEF f
<1>4. d \in Days(from, until, live) <=>
        d >= f /\ (d * DayLength < until \/ (live /\ d * DayLength = until))
  BY <1>3 DEF Days
<1>5. d \in Days(from, until, live) => f <= d /\ d * DayLength <= until
  BY <1>1, <1>2, <1>4
<1>6. ASSUME NEW t \in OnDay(from, until, d)
      PROVE  d \in Days(from, until, live)
  <2>1. t \in Nat /\ from <= t /\ t < until /\ t \div DayLength = d
    BY DEF OnDay
  <2>2. d * DayLength <= t /\ t < d * DayLength + DayLength
    BY <1>1, <2>1, DayIs
  <2>3. d < f => d * DayLength + DayLength <= f * DayLength
    BY <1>1, <1>2, Later
  <2>4. f * DayLength \in Nat
    BY <1>2, Later
  <2>5. ~(d < f) /\ d * DayLength < until
    BY <1>1, <1>2, <2>1, <2>2, <2>3, <2>4
  <2> QED
    BY <1>1, <1>2, <1>4, <2>5
<1> QED
  BY <1>5, <1>6 DEF f

\* A worker's interval, and how its step leaves the worker.
Reports(v, from, until) ==
    /\ entered[v] # Never /\ entered[v] <= from /\ from <= until /\ until <= now
    /\ closedAt[v] # Never => until <= closedAt[v]
    /\ worker[v].at # "none" /\ from = worker[v].from
    /\ worker'[v].at # "none" /\ worker'[v].from \in {from, until}
    /\ \A w \in Visit : w # v => worker'[w] = worker[w]
    /\ UNCHANGED <<now, closedAt, entered>>

\* Every moment of an interval that is reported was online.
LEMMA ReportedOnline ==
    ASSUME DailyTypeOK, NEW v \in Visit, NEW from \in Nat, NEW until \in Nat,
           Reports(v, from, until), NEW d
    PROVE  OnDay(from, until, d) \subseteq OnlineOn(d)
<1> SUFFICES ASSUME NEW t \in OnDay(from, until, d) PROVE t \in OnlineOn(d)
  OBVIOUS
<1>1. t \in Nat /\ from <= t /\ t < until /\ t \div DayLength = d
  BY DEF OnDay
<1>2. /\ now \in Nat /\ now <= Horizon /\ entered[v] \in Nat
      /\ closedAt[v] # Never => closedAt[v] \in Nat
  BY DEF DailyTypeOK, Moment, Reports
<1>3. t \in Moment /\ entered[v] <= t /\ t < now /\ (closedAt[v] # Never => t < closedAt[v])
  BY <1>1, <1>2 DEF Reports, Moment
<1>4. t \in Played(v)
  BY <1>3 DEF Played, Reports
<1> QED
  BY <1>1, <1>4 DEF OnlineOn

\* One day's row after a transaction.
LEMMA CommittedRow ==
    ASSUME DailyInv, NEW v \in Visit, NEW from \in Nat, NEW until \in Nat,
           NEW live \in BOOLEAN, Reports(v, from, until), Commit(from, until, live),
           NEW d \in Day
    PROVE  /\ account'[d] \in DayRow /\ Apart(account'[d].intervals)
           /\ account[d].bonus => account'[d].bonus
           /\ account[d].first => account'[d].first
           /\ account'[d].first /\ ~account[d].first => d \in Days(from, until, live)
           /\ account'[d].bonus => Cardinality(OnlineOn(d)) >= Required
           /\ ~account'[d].bonus =>
                /\ Moments(d)' = Moments(d) \cup OnDay(from, until, d)
                /\ Moments(d)' \subseteq OnlineOn(d)
                /\ account'[d].online = Cardinality(Moments(d)')
<1> DEFINE row == account[d]
           new == account'[d]
           all == RowPoints(row, d) \cup OnDay(from, until, d)
<1>1. row \in DayRow /\ row.intervals \in Seq(Span) /\ d \in Nat
  <2>1. row \in DayRow
    BY DEF DailyInv, DailyTypeOK
  <2>2. d \in Nat
    BY DayOf DEF Day
  <2> QED
    BY <2>1, <2>2 DEF DayRow
<1>2. /\ Apart(row.intervals)
      /\ row.bonus => Cardinality(OnlineOn(d)) >= Required
      /\ ~row.bonus => Moments(d) \subseteq OnlineOn(d) /\ row.online = Cardinality(Moments(d))
  BY DEF DailyInv, RowsExact
<1>3. Moments(d) = RowPoints(row, d)
  BY <1>1, MomentsArePoints
<1>4. new = IF d \in Days(from, until, live) THEN Settled(row, d, from, until) ELSE row
  BY DEF Commit
<1>5. OnDay(from, until, d) \subseteq OnlineOn(d)
  BY ReportedOnline DEF DailyInv
<1> HIDE DEF row
<1>6. CASE d \notin Days(from, until, live)
  <2>1. new = row /\ OnDay(from, until, d) = {}
    BY <1>4, <1>6, DaysAre
  <2>2. Moments(d)' = RowPoints(new, d)
    BY <1>1, <2>1, MomentsThen
  <2> HIDE DEF new
  <2>3. Moments(d)' = Moments(d)
    BY <1>3, <2>1, <2>2, Zenon
  <2> QED
    BY <1>1, <1>2, <2>1, <2>3 DEF row, new
<1>7. CASE d \in Days(from, until, live) /\ row.bonus
  <2>1. new = [row EXCEPT !.first = TRUE]
    BY <1>4, <1>7 DEF Settled
  <2>2. new \in DayRow /\ new.first = TRUE /\ new.bonus = row.bonus /\ new.intervals = row.intervals
    BY <1>1, <2>1, Zenon DEF DayRow
  <2> HIDE DEF new
  <2> QED
    BY <1>2, <1>7, <2>2 DEF row, new
<1>8. CASE d \in Days(from, until, live) /\ ~row.bonus
  <2>1. d * DayLength <= until
    BY <1>8, DaysAre
  <2>2. new = Settled(row, d, from, until)
    BY <1>4, <1>8
  <2> HIDE DEF new
  <2>3. /\ new \in DayRow /\ new.first = TRUE /\ Apart(new.intervals)
        /\ new.bonus => Cardinality(all) >= Required
        /\ ~new.bonus => RowPoints(new, d) = all /\ new.online = Cardinality(all)
    <3> DEFINE res == Settled(row, d, from, until)
    <3>1. row \in DayRow
      BY <1>1
    <3>2. Apart(row.intervals)
      BY <1>2
    <3>3. ~row.bonus
      BY <1>8
    <3>4. d \in Nat
      BY <1>1
    <3>5. /\ res \in DayRow /\ res.first = TRUE /\ Apart(res.intervals)
          /\ res.bonus => Cardinality(all) >= Required
          /\ ~res.bonus => RowPoints(res, d) = all /\ res.online = Cardinality(all)
      BY <2>1, <3>1, <3>2, <3>3, <3>4, SettledRow, ZenonT(60)
    <3> HIDE DEF res, all
    <3> QED
      BY <2>2, <3>5 DEF res
  <2>4. all \subseteq OnlineOn(d)
    BY <1>2, <1>3, <1>5, <1>8
  <2>5. new.bonus => Cardinality(OnlineOn(d)) >= Required
    <3> HIDE DEF all
    <3>1. /\ IsFiniteSet(OnlineOn(d)) /\ IsFiniteSet(all)
          /\ Cardinality(all) <= Cardinality(OnlineOn(d))
      BY <2>4, OnlineFinite, FS_Subset
    <3>2. Cardinality(all) \in Nat /\ Cardinality(OnlineOn(d)) \in Nat
      BY <3>1, FS_CardinalityType
    <3> QED
      BY <2>3, <3>1, <3>2
  <2>6. Moments(d)' = RowPoints(new, d)
    <3>1. new.intervals \in Seq(Span)
      BY <2>3 DEF DayRow
    <3> QED
      BY <3>1, MomentsThen DEF new
  <2>7. ~new.bonus => /\ Moments(d)' = Moments(d) \cup OnDay(from, until, d)
                      /\ Moments(d)' \subseteq OnlineOn(d)
                      /\ new.online = Cardinality(Moments(d)')
    <3> SUFFICES ASSUME ~new.bonus
                 PROVE  /\ Moments(d)' = all /\ Moments(d)' \subseteq OnlineOn(d)
                        /\ new.online = Cardinality(Moments(d)')
      BY <1>3
    <3>1. Moments(d)' = all
      BY <2>3, <2>6
    <3> QED
      BY <2>3, <2>4, <3>1
  <2> QED
    BY <1>8, <2>3, <2>5, <2>7 DEF row, new
<1> QED
  BY <1>6, <1>7, <1>8

\* A claim is one coin, whatever else was claimed before.
LEMMA OneMore ==
    ASSUME NEW A, NEW B, NEW C, IsFiniteSet(C), A \subseteq C, B \subseteq C, A \cap B = {}
    PROVE  Cardinality(A \cup B) = Cardinality(A) + Cardinality(B)
<1>1. IsFiniteSet(A) /\ IsFiniteSet(B)
  BY FS_Subset
<1>2. Cardinality(A \cup B) = Cardinality(A) + Cardinality(B) - Cardinality(A \cap B)
  BY <1>1, FS_Union
<1>3. Cardinality(A \cap B) = 0 /\ Cardinality(A) \in Nat /\ Cardinality(B) \in Nat
  BY <1>1, FS_EmptySet, FS_CardinalityType, Zenon
<1> QED
  BY <1>2, <1>3

\* The coins of a transaction are the claims it makes.
LEMMA CommittedCoins ==
    ASSUME DailyInv, NEW v \in Visit, NEW from \in Nat, NEW until \in Nat,
           NEW live \in BOOLEAN, Reports(v, from, until), Commit(from, until, live)
    PROVE  CoinsPaid' /\ coins' \in Nat
<1> DEFINE days == Days(from, until, live)
           F == {d \in Day : account[d].first}
           F2 == {d \in Day : account'[d].first}
           G == {d \in days : ~account[d].first /\ account'[d].first}
           B == {d \in Day : account[d].bonus}
           B2 == {d \in Day : account'[d].bonus}
           H == {d \in days : ~account[d].bonus /\ account'[d].bonus}
<1>1. days \subseteq Day /\ IsFiniteSet(Day)
  <2>1. days \subseteq Day
    BY DEF Days
  <2>2. 0 \in Int /\ Horizon \div DayLength \in Int
    BY DayOf
  <2> QED
    BY <2>1, <2>2, FS_Interval, Zenon DEF Day
<1>2. \A d \in Day : /\ account[d].first => account'[d].first
                     /\ account[d].bonus => account'[d].bonus
                     /\ d \notin days => account'[d] = account[d]
  <2>1. \A d \in Day : /\ account[d].first => account'[d].first
                       /\ account[d].bonus => account'[d].bonus
    BY CommittedRow
  <2>2. \A d \in Day : d \notin days => account'[d] = account[d]
    BY DEF Commit
  <2> QED
    BY <2>1, <2>2, Zenon
<1>3. /\ F2 = F \cup G /\ F \cap G = {} /\ F \subseteq Day /\ G \subseteq Day
      /\ B2 = B \cup H /\ B \cap H = {} /\ B \subseteq Day /\ H \subseteq Day
  <2> HIDE DEF days
  <2>1. F2 = F \cup G /\ F \cap G = {} /\ F \subseteq Day /\ G \subseteq Day
    BY <1>1, <1>2, Zenon
  <2>2. B2 = B \cup H /\ B \cap H = {} /\ B \subseteq Day /\ H \subseteq Day
    BY <1>1, <1>2, Zenon
  <2> QED
    BY <2>1, <2>2
<1>4. coins' = coins + (Cardinality(G) + Cardinality(H))
  BY DEF Commit, Claims
<1>5. coins = Cardinality(F) + Cardinality(B)
  BY DEF DailyInv, CoinsPaid
<1>6. CoinsPaid' <=> coins' = Cardinality(F2) + Cardinality(B2)
  BY DEF CoinsPaid
<1> HIDE DEF F, F2, G, B, B2, H, days
<1>7. Cardinality(F2) = Cardinality(F) + Cardinality(G)
  BY <1>1, <1>3, OneMore
<1>8. Cardinality(B2) = Cardinality(B) + Cardinality(H)
  BY <1>1, <1>3, OneMore
<1>9. /\ Cardinality(F) \in Nat /\ Cardinality(G) \in Nat
      /\ Cardinality(B) \in Nat /\ Cardinality(H) \in Nat
  BY <1>1, <1>3, FS_Subset, FS_CardinalityType
<1> QED
  BY <1>4, <1>5, <1>6, <1>7, <1>8, <1>9

\* A transaction keeps the account in order.
LEMMA CommitKeeps ==
    ASSUME DailyInv, NEW v \in Visit, NEW from \in Nat, NEW until \in Nat,
           NEW live \in BOOLEAN, Reports(v, from, until), Commit(from, until, live)
    PROVE  /\ account' \in [Day -> DayRow] /\ coins' \in Nat
           /\ RowsExact' /\ Reported' /\ Appeared' /\ CoinsPaid'
<1>1. UNCHANGED <<now, closedAt, entered>>
  BY DEF Reports
<1>2. account' \in [Day -> DayRow]
  <2>1. \A d \in Day : account'[d] \in DayRow
    BY CommittedRow
  <2>2. account' = [d \in Day |-> account'[d]]
    BY DEF Commit
  <2> QED
    BY <2>1, <2>2
<1>3. RowsExact'
  <2>1. \A d : OnlineOn(d)' = OnlineOn(d)
    BY <1>1 DEF OnlineOn, Played
  <2>2. ASSUME NEW d \in Day
        PROVE  /\ Apart(account'[d].intervals)
               /\ account'[d].bonus => Cardinality(OnlineOn(d)') >= Required
               /\ ~account'[d].bonus =>
                    /\ Moments(d)' \subseteq OnlineOn(d)'
                    /\ account'[d].online = Cardinality(Moments(d)')
    <3>1. OnlineOn(d)' = OnlineOn(d)
      BY <2>1
    <3> QED
      BY <3>1, CommittedRow
  <2> QED
    BY <2>2 DEF RowsExact
<1>4. Reported'
  <2>1. \A d \in Day : /\ account[d].bonus => account'[d].bonus
                       /\ ~account'[d].bonus =>
                            Moments(d)' = Moments(d) \cup OnDay(from, until, d)
    BY CommittedRow
  <2>2. ASSUME NEW w \in Visit, worker'[w].at # "none", NEW d \in Day, NEW t \in Moment,
               entered[w] <= t, t < worker'[w].from, t \div DayLength = d
        PROVE  account'[d].bonus \/ t \in Moments(d)'
    <3>1. CASE worker[w].at # "none" /\ t < worker[w].from
      <4>1. account[d].bonus \/ t \in Moments(d)
        BY <2>2, <3>1 DEF DailyInv, Reported
      <4> QED
        BY <2>1, <4>1
    <3>2. CASE ~(worker[w].at # "none" /\ t < worker[w].from)
      <4>1. w = v
        BY <2>2, <3>2 DEF Reports
      <4>2. t \in Nat /\ from <= t /\ t < until
        BY <2>2, <3>2, <4>1 DEF Reports, Moment
      <4>3. t \in OnDay(from, until, d)
        BY <2>2, <4>2 DEF OnDay
      <4> QED
        BY <2>1, <4>3
    <3> QED
      BY <3>1, <3>2
  <2> QED
    BY <1>1, <2>2 DEF Reported
<1>5. Appeared'
  <2>1. ASSUME NEW d \in Day, account'[d].first
        PROVE  \E w \in Visit :
                 /\ entered[w] # Never /\ entered[w] \div DayLength <= d
                 /\ d * DayLength <= IF closedAt[w] = Never THEN now ELSE closedAt[w]
    <3>1. CASE account[d].first
      BY <3>1 DEF DailyInv, Appeared
    <3>2. CASE ~account[d].first
      <4>1. from \div DayLength <= d /\ d * DayLength <= until
        BY <2>1, <3>2, CommittedRow, DaysAre
      <4>2. entered[v] # Never /\ entered[v] \in Nat /\ entered[v] <= from /\ d \in Nat
        BY DayOf DEF Reports, DailyInv, DailyTypeOK, Moment, Day
      <4>3. entered[v] \div DayLength <= from \div DayLength
        <5> DEFINE a == entered[v] \div DayLength
                   b == from \div DayLength
        <5>1. /\ a \in Nat /\ a * DayLength <= entered[v]
              /\ b \in Nat /\ from < b * DayLength + DayLength
          BY <4>2, DayOf
        <5> HIDE DEF a, b
        <5>2. /\ b < a => b * DayLength + DayLength <= a * DayLength
              /\ a * DayLength \in Nat /\ b * DayLength \in Nat
          BY <5>1, Later
        <5>3. a <= b
          BY <4>2, <5>1, <5>2
        <5> QED
          BY <5>3 DEF a, b
      <4>4. entered[v] \div DayLength <= d
        BY <4>1, <4>2, <4>3, DayOf
      <4>5. d * DayLength <= IF closedAt[v] = Never THEN now ELSE closedAt[v]
        <5>1. d * DayLength \in Nat
          BY <4>2, Later
        <5>2. now \in Nat /\ (closedAt[v] # Never => closedAt[v] \in Nat)
          BY DEF DailyInv, DailyTypeOK, Moment
        <5> QED
          BY <4>1, <5>1, <5>2 DEF Reports
      <4> QED
        BY <4>2, <4>4, <4>5
    <3> QED
      BY <3>1, <3>2
  <2> QED
    BY <1>1, <2>1 DEF Appeared
<1> QED
  BY <1>2, <1>3, <1>4, <1>5, CommittedCoins

\* Time passes, connections enter and end; what was online stays so.
Onward ==
    /\ now' \in Moment /\ now <= now'
    /\ \A v \in Visit : /\ entered[v] # Never => entered'[v] = entered[v]
                        /\ entered[v] = Never => entered'[v] \in {Never, now}
                        /\ closedAt[v] # Never => closedAt'[v] = closedAt[v]
                        /\ closedAt[v] = Never => closedAt'[v] \in {Never, now}

\* What was online stays so.
LEMMA OnlineGrows ==
    ASSUME DailyTypeOK, Onward, NEW d
    PROVE  OnlineOn(d) \subseteq OnlineOn(d)'
<1> SUFFICES ASSUME NEW t \in OnlineOn(d) PROVE t \in OnlineOn(d)'
  OBVIOUS
<1>1. PICK v \in Visit : t \in Played(v)
  BY DEF OnlineOn
<1>2. /\ t \in Moment /\ entered[v] # Never /\ entered[v] <= t
      /\ t < IF closedAt[v] = Never THEN now ELSE closedAt[v]
  BY <1>1 DEF Played
<1>3. now \in Nat /\ now' \in Nat /\ t \in Nat /\ now \notin {Never} /\ now <= now'
  BY <1>2 DEF DailyTypeOK, Onward, Moment
<1>4. entered'[v] = entered[v] /\ t < IF closedAt'[v] = Never THEN now' ELSE closedAt'[v]
  BY <1>2, <1>3 DEF Onward
<1>5. t \in Played(v)'
  BY <1>2, <1>4 DEF Played
<1>6. t \div DayLength = d
  BY DEF OnlineOn
<1> QED
  BY <1>5, <1>6 DEF OnlineOn

\* A step that leaves the account alone, and lets a worker start where it enters.
LEMMA QuietKeeps ==
    ASSUME DailyInv, Onward, UNCHANGED <<account, coins>>,
           \A v \in Visit : worker'[v].at # "none" =>
               \/ worker[v].at # "none" /\ worker'[v].from = worker[v].from
               \/ entered'[v] # Never /\ worker'[v].from = entered'[v]
    PROVE  RowsExact' /\ Reported' /\ Appeared' /\ CoinsPaid'
<1>1. \A d : Moments(d)' = Moments(d)
  BY DEF Moments
<1>2. RowsExact'
  <2>1. ASSUME NEW d \in Day, account[d].bonus
        PROVE  Cardinality(OnlineOn(d)') >= Required
    <3> DEFINE A == OnlineOn(d)
               B == OnlineOn(d)'
    <3>1. A \subseteq B
      BY OnlineGrows DEF DailyInv
    <3>2. IsFiniteSet(B)
      <4>1. B \in SUBSET Moment
        BY DEF OnlineOn, Played
      <4>2. IsFiniteSet(Moment)
        BY FS_Interval DEF Moment
      <4> HIDE DEF B
      <4> QED
        BY <4>1, <4>2, FS_Subset
    <3>3. Cardinality(A) >= Required
      BY <2>1 DEF DailyInv, RowsExact
    <3> HIDE DEF A, B
    <3>4. IsFiniteSet(A) /\ Cardinality(A) <= Cardinality(B)
      BY <3>1, <3>2, FS_Subset
    <3>5. Cardinality(A) \in Nat /\ Cardinality(B) \in Nat
      BY <3>2, <3>4, FS_CardinalityType
    <3>6. Cardinality(B) >= Required
      BY <3>3, <3>4, <3>5
    <3> QED
      BY <3>6 DEF B
  <2>2. ASSUME NEW d \in Day, ~account[d].bonus
        PROVE  Moments(d)' \subseteq OnlineOn(d)' /\ account[d].online = Cardinality(Moments(d)')
    <3>1. Moments(d) \subseteq OnlineOn(d) /\ account[d].online = Cardinality(Moments(d))
      BY <2>2 DEF DailyInv, RowsExact
    <3>2. OnlineOn(d) \subseteq OnlineOn(d)'
      BY OnlineGrows DEF DailyInv
    <3>3. Moments(d)' = Moments(d)
      BY <1>1
    <3> QED
      BY <3>1, <3>2, <3>3
  <2>3. \A d \in Day : Apart(account[d].intervals)
    BY DEF DailyInv, RowsExact
  <2> QED
    BY <2>1, <2>2, <2>3 DEF RowsExact
<1>3. Reported'
  <2>1. ASSUME NEW v \in Visit, worker'[v].at # "none", NEW d \in Day, NEW t \in Moment,
               entered'[v] <= t, t < worker'[v].from, t \div DayLength = d
        PROVE  account[d].bonus \/ t \in Moments(d)
    <3>1. worker[v].at # "none" /\ worker'[v].from = worker[v].from
      <4> SUFFICES ASSUME entered'[v] # Never /\ worker'[v].from = entered'[v]
                   PROVE  FALSE
        BY <2>1
      <4>1. entered[v] \in Moment \cup {Never} /\ now \in Moment
        BY DEF DailyInv, DailyTypeOK
      <4>2. entered'[v] \in Nat
        BY <4>1 DEF Onward, Moment
      <4>3. t \in Nat /\ entered'[v] <= t /\ t < entered'[v]
        BY <2>1 DEF Moment
      <4> QED
        BY <4>2, <4>3
    <3>2. entered'[v] = entered[v]
      BY <3>1 DEF DailyInv, TimesInOrder, TimesOf, Onward
    <3> QED
      BY <2>1, <3>1, <3>2 DEF DailyInv, Reported
  <2> QED
    BY <1>1, <2>1 DEF Reported
<1>4. Appeared'
  <2>1. ASSUME NEW d \in Day, account[d].first
        PROVE  \E v \in Visit :
                 /\ entered'[v] # Never /\ entered'[v] \div DayLength <= d
                 /\ d * DayLength <= IF closedAt'[v] = Never THEN now' ELSE closedAt'[v]
    <3>1. PICK v \in Visit :
                 /\ entered[v] # Never /\ entered[v] \div DayLength <= d
                 /\ d * DayLength <= IF closedAt[v] = Never THEN now ELSE closedAt[v]
      BY <2>1 DEF DailyInv, Appeared
    <3>2. now \in Nat /\ now' \in Nat /\ now # Never /\ d * DayLength \in Nat
      BY DayOf, Later DEF DailyInv, DailyTypeOK, Onward, Moment, Day
    <3>3. /\ entered'[v] = entered[v]
          /\ d * DayLength <= IF closedAt'[v] = Never THEN now' ELSE closedAt'[v]
      BY <3>1, <3>2 DEF Onward
    <3> QED
      BY <3>1, <3>3
  <2> QED
    BY <2>1 DEF Appeared
<1>5. CoinsPaid'
  BY DEF CoinsPaid, DailyInv
<1> QED
  BY <1>2, <1>3, <1>4, <1>5

\* An attempt commits a forward interval, or changes nothing and is known to fail.
LEMMA Attempted ==
    ASSUME NEW from \in Nat, NEW until \in Nat, NEW live, NEW ok \in BOOLEAN,
           errors \in Nat, Attempt(from, until, live, ok)
    PROVE  /\ errors' \in Nat
           /\ \/ from <= until /\ Commit(from, until, live)
              \/ ~ok /\ UNCHANGED <<account, coins>>
<1>1. CASE until < from
  BY <1>1 DEF Attempt
<1>2. CASE ~(until < from)
  <2>1. from <= until /\ errors' \in Nat
    BY <1>2 DEF Attempt
  <2> QED
    BY <1>2, <2>1, Zenon DEF Attempt
<1> QED
  BY <1>1, <1>2

\* The types and times that no settlement changes.
PlainTypes ==
    /\ now \in Moment /\ worker \in [Visit -> [at : At, from : Nat, until : Nat]]
    /\ closedAt \in [Visit -> Moment \cup {Never}] /\ entered \in [Visit -> Moment \cup {Never}]
    /\ ended \subseteq Visit /\ errors \in Nat

\* The steps that do not settle anything.
LEMMA QuietSteps ==
    ASSUME DailyInv,
           \/ Pass
           \/ \E v \in Visit : Enter(v) \/ Capture(v) \/ CheckOpen(v) \/ StampClose(v) \/ EndVisit(v)
    PROVE  DailyInv'
<1> DEFINE Starts == \A v \in Visit : worker'[v].at # "none" =>
                       \/ worker[v].at # "none" /\ worker'[v].from = worker[v].from
                       \/ entered'[v] # Never /\ worker'[v].from = entered'[v]
           Goal == PlainTypes' /\ TimesInOrder' /\ Onward /\ Starts
<1>1. PlainTypes /\ TimesInOrder /\ Horizon \in Nat /\ Never \notin Nat
  BY DEF DailyInv, DailyTypeOK, PlainTypes
<1>2. ASSUME Pass PROVE Goal
  <2>1. now' \in Moment /\ now <= now' /\ now \in Nat /\ now' = now + 1
    BY <1>1, <1>2 DEF Pass, PlainTypes, Moment
  <2>2. UNCHANGED <<worker, closedAt, ended, entered, errors>>
    BY <1>2 DEF Pass
  <2>3. TimesInOrder'
    <3>1. \A v \in Visit : /\ entered[v] # Never => entered[v] \in Nat
                           /\ closedAt[v] # Never => closedAt[v] \in Nat
                           /\ worker[v].from \in Nat /\ worker[v].until \in Nat
      BY <1>1 DEF PlainTypes, Moment
    <3> QED
      BY <1>1, <2>1, <2>2, <3>1 DEF TimesInOrder, TimesOf
  <2> QED
    BY <1>1, <2>1, <2>2, <2>3 DEF PlainTypes, Onward
<1>3. ASSUME NEW v \in Visit, Enter(v) PROVE Goal
  <2>1. /\ worker[v].at = "none" /\ v \notin ended
        /\ worker' = [worker EXCEPT ![v].at = "waiting", ![v].from = now]
        /\ entered' = [entered EXCEPT ![v] = now]
        /\ UNCHANGED <<now, closedAt, ended, errors>>
    BY <1>3 DEF Enter
  <2>2. now \in Nat /\ entered[v] = Never
    BY <1>1, <2>1 DEF PlainTypes, TimesInOrder, TimesOf, Moment
  <2>3. /\ worker'[v].at = "waiting" /\ worker'[v].from = now /\ entered'[v] = now
        /\ \A w \in Visit : w # v => worker'[w] = worker[w] /\ entered'[w] = entered[w]
    BY <1>1, <2>1 DEF PlainTypes
  <2>4. PlainTypes'
    BY <1>1, <2>1, <2>2, ZenonT(60) DEF PlainTypes, At
  <2>5. TimesInOrder'
    <3>1. TimesOf(v)'
      BY <1>1, <2>1, <2>2, <2>3 DEF TimesInOrder, TimesOf
    <3>2. \A w \in Visit : w # v => TimesOf(w)'
      BY <1>1, <2>1, <2>3, ZenonT(60) DEF TimesInOrder, TimesOf
    <3> QED
      BY <3>1, <3>2 DEF TimesInOrder
  <2>6. Onward /\ Starts
    BY <1>1, <2>1, <2>2, <2>3 DEF PlainTypes, Onward
  <2> QED
    BY <2>4, <2>5, <2>6
<1>4. ASSUME NEW v \in Visit, Capture(v) PROVE Goal
  <2>1. /\ worker[v].at = "waiting"
        /\ worker' = [worker EXCEPT ![v].at = "captured", ![v].until = now]
        /\ UNCHANGED <<now, closedAt, ended, entered, errors>>
    BY <1>4 DEF Capture
  <2>2. /\ worker'[v].at = "captured" /\ worker'[v].until = now
        /\ worker'[v].from = worker[v].from /\ now \in Nat
        /\ \A w \in Visit : w # v => worker'[w] = worker[w]
    BY <1>1, <2>1 DEF PlainTypes, Moment
  <2>3. PlainTypes'
    BY <1>1, <2>1, <2>2, Zenon DEF PlainTypes, At
  <2>4. TimesInOrder'
    <3>1. TimesOf(v)'
      BY <1>1, <2>1, <2>2 DEF TimesInOrder, TimesOf
    <3>2. \A w \in Visit : w # v => TimesOf(w)'
      BY <1>1, <2>1, <2>2, ZenonT(60) DEF TimesInOrder, TimesOf
    <3> QED
      BY <3>1, <3>2 DEF TimesInOrder
  <2>5. Onward /\ Starts
    BY <1>1, <2>1, <2>2 DEF PlainTypes, Moment, Onward
  <2> QED
    BY <2>3, <2>4, <2>5
<1>5. ASSUME NEW v \in Visit, CheckOpen(v) PROVE Goal
  <2>1. /\ worker[v].at = "captured"
        /\ worker' = [worker EXCEPT ![v] =
                        IF closedAt[v] = Never THEN [@ EXCEPT !.at = "live"]
                        ELSE [@ EXCEPT !.at = "waiting", !.until = 0]]
        /\ UNCHANGED <<now, closedAt, ended, entered, errors>>
    BY <1>5, Zenon DEF CheckOpen
  <2>2. /\ \/ /\ closedAt[v] = Never /\ worker'[v].at = "live"
              /\ worker'[v].until = worker[v].until
           \/ worker'[v].at = "waiting" /\ worker'[v].until = 0
        /\ worker'[v].from = worker[v].from /\ now \in Nat
        /\ \A w \in Visit : w # v => worker'[w] = worker[w]
    BY <1>1, <2>1 DEF PlainTypes, Moment
  <2>3. PlainTypes'
    BY <1>1, <2>1, <2>2, ZenonT(60) DEF PlainTypes, At
  <2>4. TimesInOrder'
    <3>1. TimesOf(v)'
      BY <1>1, <2>1, <2>2 DEF TimesInOrder, TimesOf
    <3>2. \A w \in Visit : w # v => TimesOf(w)'
      BY <1>1, <2>1, <2>2 DEF TimesInOrder, TimesOf
    <3> QED
      BY <3>1, <3>2 DEF TimesInOrder
  <2>5. Onward /\ Starts
    BY <1>1, <2>1, <2>2 DEF PlainTypes, Moment, Onward
  <2> QED
    BY <2>3, <2>4, <2>5
<1>6. ASSUME NEW v \in Visit, StampClose(v) PROVE Goal
  <2>1. /\ closedAt[v] = Never /\ closedAt' = [closedAt EXCEPT ![v] = now]
        /\ UNCHANGED <<now, worker, ended, entered, errors>>
    BY <1>6 DEF StampClose
  <2>2. /\ now \in Nat /\ closedAt'[v] = now
        /\ \A w \in Visit : w # v => closedAt'[w] = closedAt[w]
    BY <1>1, <2>1 DEF PlainTypes, Moment
  <2>3. PlainTypes'
    BY <1>1, <2>1 DEF PlainTypes
  <2>4. TimesInOrder'
    <3>1. TimesOf(v)'
      BY <1>1, <2>1, <2>2 DEF TimesInOrder, TimesOf
    <3>2. \A w \in Visit : w # v => TimesOf(w)'
      BY <1>1, <2>1, <2>2 DEF TimesInOrder, TimesOf
    <3> QED
      BY <3>1, <3>2 DEF TimesInOrder
  <2>5. Onward /\ Starts
    BY <1>1, <2>1, <2>2 DEF PlainTypes, Moment, Onward
  <2> QED
    BY <2>3, <2>4, <2>5
<1>7. ASSUME NEW v \in Visit, EndVisit(v) PROVE Goal
  <2>1. /\ closedAt[v] # Never /\ ended' = ended \cup {v}
        /\ UNCHANGED <<now, worker, closedAt, entered, errors>>
    BY <1>7 DEF EndVisit
  <2>2. PlainTypes'
    BY <1>1, <2>1 DEF PlainTypes
  <2>3. TimesInOrder'
    BY <1>1, <2>1 DEF TimesInOrder, TimesOf
  <2>4. Onward /\ Starts
    BY <1>1, <2>1, SMTT(40) DEF PlainTypes, Moment, Onward
  <2> QED
    BY <2>2, <2>3, <2>4
<1>8. UNCHANGED <<account, coins>>
  BY Zenon DEF Pass, Enter, Capture, CheckOpen, StampClose, EndVisit
<1>9. Goal
  <2> HIDE DEF Goal
  <2> QED
    BY <1>2, <1>3, <1>4, <1>5, <1>6, <1>7
<1>10. RowsExact' /\ Reported' /\ Appeared' /\ CoinsPaid'
  BY <1>8, <1>9, QuietKeeps
<1>11. DailyTypeOK'
  BY <1>8, <1>9 DEF DailyInv, DailyTypeOK, PlainTypes
<1> QED
  BY <1>9, <1>10, <1>11 DEF DailyInv

\* A settlement of a worker, of a live connection or of one that has ended.
LEMMA SettleSteps ==
    ASSUME DailyInv, NEW v \in Visit, SettleLive(v) \/ Finish(v)
    PROVE  DailyInv'
<1> DEFINE from == worker[v].from
           Made(until, live, ok) ==
             /\ Attempt(from, until, live, ok)
             /\ from <= until => until <= now
             /\ closedAt[v] # Never => until <= closedAt[v]
             /\ worker'[v].at \in {"waiting", "done", "final"}
             /\ worker'[v].at = "final" => v \in ended
             /\ worker'[v].from = (IF ok THEN until ELSE from) /\ worker'[v].until = 0
             /\ \A w \in Visit : w # v => worker'[w] = worker[w]
             /\ worker' \in [Visit -> [at : At, from : Nat, until : Nat]]
<1>1. PlainTypes /\ TimesInOrder /\ Horizon \in Nat /\ Never \notin Nat /\ from \in Nat
  BY DEF DailyInv, DailyTypeOK, PlainTypes
<1>2. UNCHANGED <<now, closedAt, ended, entered>>
  BY Zenon DEF SettleLive, Finish
<1>3. \E until \in Nat, live \in BOOLEAN, ok \in BOOLEAN : Made(until, live, ok)
  <2>1. CASE SettleLive(v)
    <3>1. PICK ok \in BOOLEAN :
             /\ Attempt(from, worker[v].until, TRUE, ok)
             /\ worker' = [worker EXCEPT ![v] =
                             [at |-> "waiting", from |-> NextFrom(v, ok), until |-> 0]]
      BY <2>1, Zenon DEF SettleLive
    <3>2. worker[v].until \in Nat /\ worker[v].at = "live"
      BY <1>1, <2>1 DEF PlainTypes, SettleLive
    <3>3. worker[v].until <= now /\ (closedAt[v] # Never => worker[v].until <= closedAt[v])
      BY <1>1, <3>2 DEF TimesInOrder, TimesOf
    <3>4. NextFrom(v, ok) = (IF ok THEN worker[v].until ELSE from) /\ NextFrom(v, ok) \in Nat
      BY <1>1, <3>2 DEF NextFrom
    <3>5. /\ worker'[v].at = "waiting"
          /\ worker'[v].from = (IF ok THEN worker[v].until ELSE from) /\ worker'[v].until = 0
          /\ \A w \in Visit : w # v => worker'[w] = worker[w]
          /\ worker' \in [Visit -> [at : At, from : Nat, until : Nat]]
      BY <1>1, <3>1, <3>4 DEF PlainTypes, At
    <3>6. Made(worker[v].until, TRUE, ok)
      BY <3>1, <3>3, <3>5, Zenon
    <3> HIDE DEF Made
    <3> QED
      BY <3>2, <3>6, Zenon
  <2>2. CASE Finish(v)
    <3>1. PICK ok \in BOOLEAN :
             /\ Attempt(from, closedAt[v], FALSE, ok)
             /\ worker' = [worker EXCEPT ![v] =
                             [at |-> IF ok \/ @.at = "final" THEN "done" ELSE "final",
                              from |-> IF ok THEN closedAt[v] ELSE @.from, until |-> 0]]
      BY <2>2, Zenon DEF Finish
    <3>2. v \in ended /\ closedAt[v] \in Nat /\ closedAt[v] <= now
      BY <1>1, <2>2 DEF Finish, TimesInOrder, TimesOf, PlainTypes, Moment
    <3>3. /\ worker'[v].at \in {"done", "final"}
          /\ worker'[v].from = (IF ok THEN closedAt[v] ELSE from) /\ worker'[v].until = 0
          /\ \A w \in Visit : w # v => worker'[w] = worker[w]
          /\ worker' \in [Visit -> [at : At, from : Nat, until : Nat]]
      BY <1>1, <3>1, <3>2 DEF PlainTypes, At
    <3>4. Made(closedAt[v], FALSE, ok)
      <4>1. closedAt[v] <= closedAt[v] /\ worker'[v].at \in {"waiting", "done", "final"}
        BY <3>2, <3>3
      <4>2. Attempt(from, closedAt[v], FALSE, ok)
        BY <3>1, Zenon
      <4> HIDE DEF from
      <4> QED
        BY <3>2, <3>3, <4>1, <4>2, Zenon
    <3> HIDE DEF Made
    <3> QED
      BY <3>2, <3>4, Zenon
  <2> QED
    BY <2>1, <2>2
<1>4. PICK until \in Nat, live \in BOOLEAN, ok \in BOOLEAN : Made(until, live, ok)
  BY <1>3
<1>5. /\ errors' \in Nat
      /\ \/ from <= until /\ Commit(from, until, live)
         \/ ~ok /\ UNCHANGED <<account, coins>>
  BY <1>1, <1>4, Attempted DEF PlainTypes
<1>6. worker[v].at # "none" /\ entered[v] # Never /\ entered[v] <= from /\ from <= now
  BY <1>1, Zenon DEF TimesInOrder, TimesOf, SettleLive, Finish
<1>7. PlainTypes'
  BY <1>1, <1>2, <1>4, <1>5 DEF PlainTypes
<1>8. TimesInOrder'
  <2>1. /\ worker'[v].from \in Nat /\ worker'[v].from <= now /\ entered[v] <= worker'[v].from
        /\ worker'[v].at \notin {"none", "captured", "live"}
    <3>1. entered[v] \in Nat /\ now \in Nat /\ (ok => from <= until)
      BY <1>1, <1>5, <1>6 DEF PlainTypes, Moment
    <3> QED
      BY <1>1, <1>4, <1>6, <3>1
  <2>2. \A w \in Visit : w # v => worker'[w] = worker[w]
    BY <1>4
  <2>3. worker'[v].at = "final" => v \in ended
    BY <1>4
  <2> QED
    BY <1>1, <1>2, <1>6, <2>1, <2>2, <2>3 DEF TimesInOrder, TimesOf
<1>9. /\ account' \in [Day -> DayRow] /\ coins' \in Nat
      /\ RowsExact' /\ Reported' /\ Appeared' /\ CoinsPaid'
  <2>1. CASE from <= until /\ Commit(from, until, live)
    <3>1. Reports(v, from, until)
      BY <1>2, <1>4, <1>6, <2>1 DEF Reports
    <3> QED
      BY <1>1, <2>1, <3>1, CommitKeeps
  <2>2. CASE ~ok /\ UNCHANGED <<account, coins>>
    <3>1. Onward
      BY <1>1, <1>2 DEF Onward, PlainTypes, Moment
    <3>2. \A w \in Visit : worker'[w].at # "none" =>
             worker[w].at # "none" /\ worker'[w].from = worker[w].from
      BY <1>4, <1>6, <2>2
    <3>3. RowsExact' /\ Reported' /\ Appeared' /\ CoinsPaid'
      BY <2>2, <3>1, <3>2, QuietKeeps
    <3> QED
      BY <2>2, <3>3 DEF DailyInv, DailyTypeOK
  <2> QED
    BY <1>5, <2>1, <2>2
<1>10. DailyTypeOK'
  BY <1>7, <1>9 DEF DailyTypeOK, PlainTypes
<1> QED
  BY <1>8, <1>9, <1>10 DEF DailyInv

\* No day has a row, and nobody has entered.
LEMMA InitDaily == DailyInit => DailyInv
<1> SUFFICES ASSUME DailyInit PROVE DailyInv
  OBVIOUS
<1>1. /\ now = 0 /\ coins = 0 /\ errors = 0 /\ ended = {}
      /\ account = [d \in Day |-> NoRow]
      /\ worker = [v \in Visit |-> [at |-> "none", from |-> 0, until |-> 0]]
      /\ closedAt = [v \in Visit |-> Never] /\ entered = [v \in Visit |-> Never]
  BY DEF DailyInit
<1>2. /\ NoRow \in DayRow /\ NoRow.first = FALSE /\ NoRow.bonus = FALSE /\ NoRow.online = 0
      /\ NoRow.intervals = <<>> /\ Apart(NoRow.intervals)
  BY EmptySeq DEF NoRow, DayRow, Apart
<1>3. DailyTypeOK
  <2>1. now \in Moment
    BY <1>1 DEF Moment
  <2>2. account \in [Day -> DayRow]
    BY <1>1, <1>2
  <2> QED
    BY <1>1, <2>1, <2>2 DEF DailyTypeOK, At
<1>4. TimesInOrder
  BY <1>1 DEF TimesInOrder, TimesOf
<1>5. \A d \in Day : account[d] = NoRow
  BY <1>1
<1>6. RowsExact
  <2> SUFFICES ASSUME NEW d \in Day
               PROVE  /\ Apart(account[d].intervals)
                      /\ ~account[d].bonus /\ Moments(d) = {}
                      /\ account[d].online = Cardinality(Moments(d))
    BY Zenon DEF RowsExact
  <2>1. account[d] = NoRow
    BY <1>5
  <2>2. DOMAIN account[d].intervals = {}
    BY <1>2, <2>1
  <2>3. Moments(d) = {} /\ Cardinality({}) = 0
    BY <2>2, FS_EmptySet DEF Moments
  <2> QED
    BY <1>2, <2>1, <2>3
<1>7. Reported
  BY <1>1 DEF Reported
<1>8. Appeared
  BY <1>2, <1>5 DEF Appeared
<1>9. CoinsPaid
  <2> DEFINE F == {d \in Day : account[d].first}
             B == {d \in Day : account[d].bonus}
  <2>1. F = {} /\ B = {}
    BY <1>2, <1>5
  <2>2. CoinsPaid <=> coins = Cardinality(F) + Cardinality(B)
    BY DEF CoinsPaid
  <2> HIDE DEF F, B
  <2>3. Cardinality(F) = 0 /\ Cardinality(B) = 0
    BY <2>1, FS_EmptySet
  <2> QED
    BY <1>1, <2>2, <2>3
<1> QED
  BY <1>3, <1>4, <1>6, <1>7, <1>8, <1>9 DEF DailyInv

\* Every step keeps the invariant.
LEMMA StepDaily == DailyInv /\ [DailyNext]_dailyVars => DailyInv'
<1> SUFFICES ASSUME DailyInv, [DailyNext]_dailyVars PROVE DailyInv'
  OBVIOUS
<1>1. CASE UNCHANGED dailyVars
  <2>1. UNCHANGED <<now, account, coins, worker, closedAt, ended, entered, errors>>
    BY <1>1 DEF dailyVars
  <2>2. DailyTypeOK' /\ TimesInOrder'
    BY <2>1 DEF DailyInv, DailyTypeOK, TimesInOrder, TimesOf
  <2>3. Onward
    BY <2>1 DEF Onward, DailyInv, DailyTypeOK, Moment
  <2>4. \A v \in Visit : worker'[v].at # "none" =>
           worker[v].at # "none" /\ worker'[v].from = worker[v].from
    BY <2>1
  <2>5. RowsExact' /\ Reported' /\ Appeared' /\ CoinsPaid'
    BY <2>1, <2>3, <2>4, QuietKeeps
  <2> QED
    BY <2>2, <2>5 DEF DailyInv
<1>2. CASE DailyNext
  BY <1>2, QuietSteps, SettleSteps DEF DailyNext
<1> QED
  BY <1>1, <1>2

\* Whatever is reported twice, out of order or not at all, the rows of an account hold
\* disjoint intervals of moments online, each claim is paid and each worker has reported
\* what is behind it.
THEOREM DailyInvariance == DailySpec => []DailyInv
  BY InitDaily, StepDaily, PTL DEF DailySpec

\* For any connections, length of a day and hours required: time offline is never credited,
\* time online is counted once, and every reward is paid once, with its claim.
THEOREM DailyCoinsAreExact == DailySpec => []DailyCoinsExact
<1>1. DailyInv => DailyCoinsExact
  <2> SUFFICES ASSUME DailyInv PROVE DailyCoinsExact
    OBVIOUS
  <2>1. AppearedOnly
    <3> SUFFICES ASSUME NEW d \in Day, account[d].first
                 PROVE  \E v \in Visit : /\ entered[v] # Never
                                         /\ entered[v] \div DayLength <= d
                                         /\ closedAt[v] = Never \/ closedAt[v] >= d * DayLength
      BY DEF AppearedOnly
    <3>1. PICK v \in Visit :
             /\ entered[v] # Never /\ entered[v] \div DayLength <= d
             /\ d * DayLength <= IF closedAt[v] = Never THEN now ELSE closedAt[v]
      BY DEF DailyInv, Appeared
    <3>2. closedAt[v] # Never => closedAt[v] \in Nat
      BY DEF DailyInv, DailyTypeOK, Moment
    <3>3. d * DayLength \in Nat
      BY DayOf, Later DEF Day
    <3>4. closedAt[v] = Never \/ closedAt[v] >= d * DayLength
      BY <3>1, <3>2, <3>3
    <3> QED
      BY <3>1, <3>4
  <2> QED
    BY <2>1 DEF DailyInv, CoinsPaid, RowsExact, DailyCoinsExact
<1> QED
  BY <1>1, DailyInvariance, PTL

\* A connection whose worker ended with a settlement that it knows was made has all its
\* time in the account.
THEOREM NothingIsLeftOut == DailySpec => []NothingLeftOut
<1>1. DailyInv => NothingLeftOut
  <2> SUFFICES ASSUME DailyInv, NEW v \in Visit, worker[v].at = "done",
                      worker[v].from = closedAt[v], NEW d \in Day, ~account[d].bonus,
                      NEW t \in Played(v), t \in OnlineOn(d)
               PROVE  t \in Moments(d)
    BY DEF NothingLeftOut
  <2>1. closedAt[v] \in Nat /\ closedAt[v] # Never
    BY DEF DailyInv, DailyTypeOK
  <2>2. t \in Moment /\ entered[v] <= t /\ t < closedAt[v] /\ t \div DayLength = d
    BY <2>1 DEF Played, OnlineOn
  <2> QED
    BY <2>2 DEF DailyInv, Reported
<1> QED
  BY <1>1, DailyInvariance, PTL
=============================================================================
