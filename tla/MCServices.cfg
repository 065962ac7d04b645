SPECIFICATION PartSpec
CONSTANTS
    a = a
    b = b
    Conn = {a, b}
    NoConn = NoConn
    h1 = h1
    room = room
    berserk = berserk
    rathalos = rathalos
    Hunter = {h1}
    Name = {room}
    RaviName = {room}
    BadName = {}
    RaviMax = 1
    MaxMemberships = 1
    MaxSemaphores = 1
    MaxCreates = 2
    NoSemaphore = NoSemaphore
    NoHunter = NoHunter
    Kind = {berserk}
    Unknown = Unknown
    Player = {rathalos}
    History = 1
    NoRun = NoRun
    MaxFaults = 0
    Canon = room
    RegMod = 2
    Packet <- Packets
    MaxGen = 2
    MaxBoots = 1
    QueueSize = 1
    Receipt = {1}
    Enabled = {"daily", "notices"}
    MaxFailures = 1
    Part = {"drain", "timer", "workers"}
INVARIANTS
    CompleteDrainSaved
    WorkersInv
PROPERTIES
    AcceptedAnswered
    SnapshotLogsOut
    GatheringStarts
    OnlyTheTimersSiege
    ClosedLogsOut
    NoticeShown
CHECK_DEADLOCK FALSE
