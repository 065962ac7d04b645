SPECIFICATION PartSpec
CONSTANTS
    a = a
    b = b
    c1 = c1
    c2 = c2
    p1 = p1
    p2 = p2
    p3 = p3
    p4 = p4
    home = home
    quest = quest
    Session = {a, b}
    Char = {c1, c2}
    charOf <- OneHunterTwice
    Stage = {p1, p2, p3}
    StageId = {home, quest}
    HomeId = home
    Transient = {quest}
    Quest = {quest}
    PlayerCount = {1}
    DefaultMaxPlayers = 127
    MaxHosted = 32
    AdmissionMayReject = FALSE
    InTown = {a}
    Sends <- Replacement
    MaxPackets <- OneAndTwo
    Leaves = {a}
    Panics = {a}
    NoStage = NoStage
    NoId = NoId
    NoSession = NoSession
    land1 = land1
    land2 = land2
    coat = coat
    slot = slot
    Client = {a, b}
    Land = {land1, land2}
    Starter = {coat}
    NoStarter = NoStarter
    Slot = {slot}
    NoEpoch = NoEpoch
    NoLock = NoLock
    NoTask = NoTask
    MaxSaves = 2
    Part = {"stages", "saves"}
INVARIANTS
    OneStageAtATime
    DetachedAfterLogout
    SavesInv
    ReceiptsMatchInventory
SYMMETRY Pointers3
CHECK_DEADLOCK FALSE
