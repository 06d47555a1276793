SPECIFICATION Spec
CONSTANTS
    h1 = h1  h2 = h2  b1 = b1
    Humans <- TwoHumans
    Bots <- OneBot
    NumClasses = 2
    Limits <- TwoLimits
    MapsizeLow = 2
    MapsizeHigh = 2
    Balance = TRUE
    Tolerance = 2
    MaxRemovals = 2
    MaxPopulation = 2
INVARIANTS TypeOK CountersExact OffersAreFree
PROPERTIES LimitRespected JoinsKeepBalance
SYMMETRY Symmetry2
