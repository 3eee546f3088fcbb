SPECIFICATION FairSpec
CONSTANTS
    Tasks = {t1, t2, t3}
    Lanes = {l1, l2, l3}
    None = None
    Symbols = {"BTCUSDT", "btcusdt", "ETHUSDT"}
    Canonical <- Spellings
INVARIANTS
    TypeOK
    RegistryMatchesUse
PROPERTIES
    ImplementsMutex
    EventuallyAdmitted
