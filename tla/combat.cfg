SPECIFICATION FairSpec
CONSTANTS
    p1 = p1  p2 = p2  f1 = f1  f2 = f2
    Players <- TwoPlayers
    Flags <- NoFlags
    ForTeam <- ForBoth
    FullCap <- ForBoth
    StartOwner <- Neutral
    Settings <- CombatSettings
    TicketsAtStart <- OneTicket
    Drain <- HalfTicket
    FlagBonus = 1
    RoundTime = 2
    RespawnTime = 2
    FlagInterval = 2
    RestartDelay = 1
    Minute = 1
    ChatTime = 1
    WinBonus = 1
    Tolerance = 2
    MaxScore = 2
INVARIANTS TypeOK RoundInRange
PROPERTIES PointsFollowPlayers MatchPromise MatchEnds
