----------------------------- MODULE MCAccounts -----------------------------
(* What logins take and logouts give back: the seats of the world rotations  *)
(* and the leases of the coin deliveries.  Nothing in the code couples them  *)
(* but the sessions, so a behaviour is one of the parts and leaves the       *)
(* others at their start:                                                    *)
(*   "seats"     WorldRotation as in MCWorldRotation; the first session      *)
(*               repeats its login, the others once they have no seat;       *)
(*   "transfer"  one sign session on two channels, one login each, two       *)
(*               grants; the first channel may crash;                        *)
(*   "again"     two sign sessions on one channel, of which the first logs   *)
(*               in twice, one grant.                                        *)
EXTENDS WorldRotation, CoinSessions, TLC

CONSTANTS
    s1, s2, s3, a, b, c, T1, T2, land1, land2, rathalos, r1, r2,
    Part    \* the parts of this configuration

VARIABLE part

MCSession == {s1, s2, s3}
MCRandomCollab == {s1, s2}
MCRandomMezFes == {s1, s3}

Tokens == (a :> T1) @@ (b :> T1) @@ (c :> T2)
Servers == (a :> land1) @@ (b :> land2) @@ (c :> land1)
Quantities == (r1 :> 1) @@ (r2 :> 2)

InCoins == part \in {"transfer", "again"}
InSeats == part = "seats"

\* The requests and links of a part, and the logins of a link.
Grants  == IF part = "again" THEN {r2} ELSE {r1, r2}
Links   == IF part = "again" THEN {a, c} ELSE {a, b}
Binds   == [l \in Link |-> IF part = "again" /\ l = a THEN 2 ELSE 1]

CoinStep ==
    /\ \/ \E r \in Grants : DeliverCoins(r)
       \/ \E l \in Links : \/ \E ch \in Character : Login(l, ch)
                           \/ Handler(l) \/ PlayerTrades(l) \/ Close(l) \/ LogoutLink(l)
       \/ part = "transfer" /\ Crash(land1)
       \/ Recover(land1)
    /\ \A l \in Link : binds'[l] <= Binds[l]

PartInit ==
    /\ Init /\ CoinInit /\ part \in Part
    /\ InCoins \/ balance = 0

PartNext ==
    /\ UNCHANGED part
    /\ \/ /\ InSeats /\ Next /\ UNCHANGED coinVars
          /\ \A s \in {s2, s3} : collabSeat[s].held \/ mezfesSeat[s].held
                                 => handler'[s] # "acquireCollab"
       \/ InCoins /\ CoinStep /\ UNCHANGED vars

\* Fairness and CoinFairness in their parts.
PartFairness ==
    /\ \A s \in Session :
         /\ WF_vars(InSeats /\ (AcquireCollabEvent(s) \/ AcquireMezFesMinigame(s)))
         /\ WF_vars(InSeats /\ Cleanup(s))
    /\ \A l \in Link : /\ WF_coinVars(InCoins /\ Handler(l))
                       /\ WF_coinVars(InCoins /\ LogoutLink(l))

PartSpec == PartInit /\ [][PartNext]_<<part, vars, coinVars>> /\ PartFairness
=============================================================================
