SPECIFICATION Spec
CONSTANTS
    p1 = p1  p2 = p2  p3 = p3
    Players <- ThreePlayers
    Duration = 1
    SlowTime = 1
    Interval = 4
    Lag = 1
    FlagBuffs = TRUE
    MaxTime = 5
INVARIANTS TypeOK OneOrderAtATime NobodyWaitsLonger
SYMMETRY Symmetry3
