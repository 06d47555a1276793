SPECIFICATION Spec
CONSTANTS
    v1 = v1  v2 = v2  m1 = m1  m2 = m2
    Voters <- TwoVoters
    Matches <- TwoMatches
    Maps <- OneMap
    Options <- OneOption
    MapTime = 4
    Duration = 1
    Margin = 1
    EarlyTime = 1
    MapVoteTime = 1
    ChoiceTime = 3
    Period = 2
    RtvDelay = 1
    ChangeDelay = 1
    Percent <- TheRatios
    Instant = FALSE
    MaxStale = 1
    MaxVotes <- TwoIfTimed
    Places <- TheTeams
    MaxClock = 5
    MaxOrders = 1
INVARIANTS TypeOK NoClash OneVoteEach RtvStaysOnItsMap
PROPERTIES NotCutOff EarlyEndMissesNobody
SYMMETRY Symmetry
