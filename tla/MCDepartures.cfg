SPECIFICATION PartSpec
CONSTANTS
    a = a
    b = b
    c1 = c1
    c2 = c2
    p1 = p1
    p2 = p2
    p3 = p3
    p4 = p4
    home = home
    quest = quest
    Session = {a, b}
    Char = {c1, c2}
    charOf <- TwoHunters
    Stage = {p1, p2, p3}
    StageId = {home, quest}
    HomeId = home
    Transient = {quest}
    Quest = {quest}
    PlayerCount = {1}
    DefaultMaxPlayers = 127
    MaxHosted = 32
    AdmissionMayReject = FALSE
    InTown = {a}
    Sends <- Transfers
    MaxPackets <- OneAndTwo
    Leaves = {b}
    Panics = {}
    NoStage = NoStage
    NoId = NoId
    NoSession = NoSession
    leader = leader
    guest = guest
    board = board
    ground1 = ground1
    ground2 = ground2
    hunt = hunt
    raid = raid
    Hunter = {leader, guest}
    Place = {ground1, ground2}
    PlaceId = {board}
    placeIdOf <- Boards
    QuestId = {hunt, raid}
    Protected = {hunt}
    legacyEnd <- Campaigns
    closesAt <- Closing
    Town = Town
    NoPlace = NoPlace
    NoQuest = NoQuest
    Nothing = Nothing
    Malformed = Malformed
    MaxTime = 1
    MaxRequests <- Trips
    Part = {"stages", "quests"}
INVARIANTS
    IInv
    NobodyInOrphans
    DepartureInv
    PartyLicensed
    DeparturesCounted
PROPERTIES
    FreshStagesKept
    LastPlaceOnce
    OnlyUnlicensedRejected
SYMMETRY Pointers3
CHECK_DEADLOCK FALSE
