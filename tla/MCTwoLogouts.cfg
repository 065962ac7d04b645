SPECIFICATION Spec
CONSTANTS
    a = a
    b = b
    c1 = c1
    c2 = c2
    p1 = p1
    p2 = p2
    p3 = p3
    p4 = p4
    home = home
    quest = quest
    Session = {a, b}
    Char = {c1, c2}
    charOf <- OneHunterTwice
    Stage = {p1, p2, p3}
    StageId = {home, quest}
    HomeId = home
    Transient = {quest}
    Quest = {quest}
    PlayerCount = {1}
    DefaultMaxPlayers = 127
    MaxHosted = 32
    AdmissionMayReject = FALSE
    InTown = {}
    Sends <- Replacement
    MaxPackets <- OneEach
    Leaves = {a, b}
    Panics = {}
    NoStage = NoStage
    NoId = NoId
    NoSession = NoSession
INVARIANTS
    SlotsReleased
SYMMETRY Pointers3
CHECK_DEADLOCK FALSE
