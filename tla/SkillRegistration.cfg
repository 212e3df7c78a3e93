\* Two registries and the DHT, two requests lost.
SPECIFICATION RegistrationFairSpec
CONSTANTS
    r1 = r1  r2 = r2
    Registries <- TwoRegistries
    Dht = dht
    MaxLoss = 2
INVARIANTS
    SettledExitIsClean
PROPERTIES
    CardInTimeIsListed
    DhtListsAgain
    UnregisterEnds
CHECK_DEADLOCK FALSE
