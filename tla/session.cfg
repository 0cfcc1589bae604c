CONSTANTS
    r1 = r1
    r2 = r2
    r3 = r3
    Requests <- Clients
    Configs <- SomeConfigs
    Services <- ServiceNames
    Kind <- SettingKinds
    Defaults <- LibtorrentDefaults
    FixedSlots = 0
    Bittyrant = 3
    PeForced = 0
    PeEnabled = 1
    PeDisabled = 2
    PeRc4 = 2
    PeBoth = 3
    ByteValues = 4
    Queries <- SomeQueries
    Number <- Numbers
SYMMETRY ClientSymmetry
SPECIFICATION Spec
INVARIANTS TypeOK ServicesOnlyAsAsked LoneCommandSettles TiersInOrder
CHECK_DEADLOCK FALSE
