---------------------------- MODULE MCCharacters ----------------------------
(* Two connections of one character, one replacing the other: the stages     *)
(* (StageLifecycle) and the savedata (CharacterSaves).  The two share no     *)
(* state, so a behaviour is one of the parts and leaves the other at its     *)
(* start:                                                                    *)
(*   "stages"  StageLifecycle, as the configuration bounds it;               *)
(*   "saves"   both start on one channel; the first stays there and is the   *)
(*             only one to change points, the second may come back on        *)
(*             another channel; the blob is damaged after the first save,    *)
(*             and what the old campaign has delivered shows before it.      *)
EXTENDS MCStageLifecycle, CharacterSaves

CONSTANTS
    land1, land2, coat, slot,
    Part    \* the parts of this configuration

VARIABLE part

\* Nothing but the blob's damage follows the last save.
SaveSteps ==
    /\ SavesNext /\ land'[a] = land1 /\ at'[Recv(b)] # "spend"
    /\ Damage \/ save.serial < MaxSaves
    /\ ~save'.sound => save.serial > 0
    /\ (\E r \in Starter : receipt'[r] = "legacy") => generation' = 0 /\ save'.serial = 0

PartInit ==
    /\ Init /\ part \in Part
    /\ SavesInit /\ land = [c \in Client |-> land1]

PartNext ==
    /\ UNCHANGED part
    /\ \/ part = "stages" /\ Next /\ UNCHANGED savesVars
       \/ part = "saves" /\ SaveSteps /\ UNCHANGED vars

PartSpec == PartInit /\ [][PartNext]_<<part, vars, savesVars>>
=============================================================================
