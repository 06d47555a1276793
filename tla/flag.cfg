SPECIFICATION FairSpec
CONSTANTS
    p1 = p1  p2 = p2
    Players <- TwoPlayers
    Slot <- TwoSlots
    Keys <- SoundFlags
    CaptureTime = 2
    MaxTouch = 2
INVARIANTS TypeOK HoldersAreOwners ListsAreExact
PROPERTIES CaptureIsEarned LossIsDeserved CaptureHappens
