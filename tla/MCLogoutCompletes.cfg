SPECIFICATION Spec
CONSTANTS
    a = a
    b = b
    c1 = c1
    c2 = c2
    p1 = p1
    p2 = p2
    p3 = p3
    p4 = p4
    home = home
    quest = quest
    Session = {a, b}
    Char = {c1, c2}
    charOf <- TwoHunters
    Stage = {p1, p2, p3}
    StageId = {home, quest}
    HomeId = home
    Transient = {quest}
    Quest = {quest}
    PlayerCount = {1}
    DefaultMaxPlayers = 127
    MaxHosted = 32
    AdmissionMayReject = FALSE
    InTown = {a}
    Sends <- Moves
    MaxPackets <- OneEach
    Leaves = {a}
    Panics = {a}
    NoStage = NoStage
    NoId = NoId
    NoSession = NoSession
PROPERTIES
    LogoutCompletes
CHECK_DEADLOCK FALSE
