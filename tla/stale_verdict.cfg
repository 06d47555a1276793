SPECIFICATION Spec
CONSTANTS
    p1 = p1  p2 = p2  f1 = f1  f2 = f2
    Players <- TwoPlayers
    Flags <- NoFlags
    ForTeam <- ForBoth
    FullCap <- ForBoth
    StartOwner <- Neutral
    Settings <- LmsSettings
    TicketsAtStart <- OneTicket
    Drain <- HalfTicket
    FlagBonus = 1
    RoundTime = 3
    RespawnTime = 2
    FlagInterval = 2
    RestartDelay = 1
    Minute = 1
    ChatTime = 1
    WinBonus = 2
    Tolerance = 2
    MaxScore = 3
PROPERTIES VerdictIsFresh
