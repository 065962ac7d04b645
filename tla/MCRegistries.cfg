SPECIFICATION PartSpec
CONSTANTS
    s1 = s1
    s2 = s2
    land1 = land1
    land2 = land2
    rathalos = rathalos
    rathian = rathian
    kirin = kirin
    player = player
    friend = friend
    Session = {s1, s2}
    Channel = {land1, land2}
    channelOf <- TwoChannels
    Char = {rathalos, rathian, kirin}
    User = {player, friend}
    owner <- Owners
    Nobody = Nobody
    MaxPackets = 2
    h1 = h1
    h2 = h2
    v1 = v1
    v2 = v2
    room = room
    chat = chat
    unnumbered = unnumbered
    berserk = berserk
    extreme = extreme
    Hunter = {h1, h2}
    Name = {room, chat, unnumbered}
    RaviName = {room, unnumbered}
    BadName = {unnumbered}
    RaviMax = 2
    MaxMemberships = 2
    MaxSemaphores = 2
    MaxCreates = 2
    NoSemaphore = NoSemaphore
    NoHunter = NoHunter
    Kind = {berserk, extreme}
    Unknown = Unknown
    Player = {rathalos}
    History = 1
    NoRun = NoRun
    MaxFaults = 1
    Canon = room
    RegMod = 2
    Packet <- Packets
    MaxGen = 1
    MaxBoots = 2
    Visit = {v1, v2}
    DayLength = 3
    Horizon = 4
    Required = 2
    MaxErrors = 1
    Never = Never
    Part = {"guard", "rooms", "siege", "days"}
INVARIANTS
    OneCharacterPerAccount
    RoomsInv
    RecordsInv
    CompletedWereKilled
    HistoryAgrees
    DailyCoinsExact
    NothingLeftOut
PROPERTY
    RunsRecordedOnce
CHECK_DEADLOCK FALSE
