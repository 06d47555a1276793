SPECIFICATION Spec
CONSTANTS
    Players = {1, 2}
    MaxClients = 2
    NumKits = 2
    PreserveTime = 1
    Rules <- GunGame
    MaxFrags = 3
    MaxCredit = 1
    MaxDamage = 1
    MaxSaved = 2
    MaxClock = 2
PROPERTIES WinIsEarned
