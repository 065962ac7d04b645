SPECIFICATION PartSpec
CONSTANTS
    s1 = s1
    s2 = s2
    s3 = s3
    Session <- MCSession
    RandomCollab <- MCRandomCollab
    RandomMezFes <- MCRandomMezFes
    CollabEvent = {kaiji, nier}
    Minigame = {game2, game4}
    None = None
    a = a
    b = b
    c = c
    T1 = T1
    T2 = T2
    land1 = land1
    land2 = land2
    rathalos = rathalos
    r1 = r1
    r2 = r2
    Request = {r1, r2}
    Quantity <- Quantities
    MaxCoins = 2
    Link = {a, b, c}
    tokenOf <- Tokens
    serverOf <- Servers
    Token = {T1, T2}
    Server = {land1, land2}
    Character = {rathalos}
    Nobody = Nobody
    MaxBinds = 2
    MaxMishaps = 1
    Part = {"seats", "transfer", "again"}
INVARIANTS
    RotationInv
    MezFesClearedWhenEmpty
    CoinInv
    NothingForgotten
PROPERTIES
    DrawStableWhileOccupied
    ClosedSessionsLeaveMezFes
    CreditFindsAllSaved
    GrantsPaidOnce
    PaidInTheEnd
CHECK_DEADLOCK FALSE
