---------------------------- MODULE MCDepartures ----------------------------
(* Two hunters who travel: the stages they join and leave (StageLifecycle)   *)
(* and the quests they may take part in (QuestDepartures).  The stage model  *)
(* sees of the second only that an admission may be refused, so a behaviour  *)
(* is one of the parts and leaves the other at its start:                    *)
(*   "stages"  StageLifecycle, as the configuration bounds it;               *)
(*   "quests"  the leader, a campaign winner, enters a stage or sends setups;*)
(*             the guest, who may buy the licence and may time out, travels. *)
EXTENDS MCStageLifecycle, QuestDepartures

CONSTANTS
    leader, guest, board, ground1, ground2, hunt, raid,
    Part    \* the parts of this configuration

VARIABLE part

Boards == (ground1 :> board) @@ (ground2 :> board)
Campaigns == (leader :> (hunt :> 2)) @@ (guest :> (hunt :> 0))
Closing == (hunt :> 2) @@ (raid :> 1)
Trips == (leader :> 2) @@ (guest :> 3)

\* Bound: the guest times out during or after this transfer, which may be the one into
\* the stage, the one out of it, or one that stays.
TimeoutAt == 2

QuestSteps ==
    /\ DepartureNext
    /\ task'[guest].at # "judge" /\ leader \notin gone'
    /\ bought'[leader] = bought[leader]
    /\ Doing(leader, "idle") /\ where[leader] = Town => task'[leader].at # "enter"
    /\ gone' = gone \/ where' # where \/ requests[guest] = TimeoutAt

PartInit == Init /\ DepartureInit /\ part \in Part

PartNext ==
    /\ UNCHANGED part
    /\ \/ part = "stages" /\ Next /\ UNCHANGED departureVars
       \/ part = "quests" /\ QuestSteps /\ UNCHANGED vars

PartSpec == PartInit /\ [][PartNext]_<<part, vars, departureVars>>
=============================================================================
