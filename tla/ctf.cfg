SPECIFICATION FairSpec
CONSTANTS
    f1 = f1  f2 = f2
    base1 = base1  base2 = base2  field = field
    Players = {1, 2}
    Flags <- TwoFlags
    Places <- ThreePlaces
    Home <- Bases
    World = field
    SpawnPlace <- SpawnPlaces
    Rules <- SoundMaps
    ReturnTime = 1
    MaxScore = 1
INVARIANTS TypeOK CustodyIsLegit NoStandoff CarriersAreSlowed
PROPERTIES CustodyPromise FlagsComeBack
