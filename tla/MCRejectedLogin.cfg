SPECIFICATION Spec
CONSTANTS
    s1 = s1
    s2 = s2
    land1 = land1
    land2 = land2
    rathalos = rathalos
    rathian = rathian
    kirin = kirin
    player = player
    friend = friend
    Session = {s1, s2}
    Channel = {land1, land2}
    channelOf <- TwoChannels
    Char = {rathalos, rathian, kirin}
    User = {player, friend}
    owner <- Owners
    Nobody = Nobody
    MaxPackets = 2
PROPERTIES
    RejectionStopsTheGroup
CHECK_DEADLOCK FALSE
