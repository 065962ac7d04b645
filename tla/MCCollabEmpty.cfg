SPECIFICATION Spec
CONSTANTS
    s1 = s1
    s2 = s2
    s3 = s3
    Session <- MCSession
    RandomCollab <- MCRandomCollab
    RandomMezFes <- MCRandomMezFes
    CollabEvent = {kaiji, nier}
    Minigame = {game2, game4}
    None = None
INVARIANT CollabClearedWhenEmpty
CHECK_DEADLOCK FALSE
