\* Two connections, every operation.
SPECIFICATION AloneSpec
CONSTANTS
    a = a
    b = b
    c = c
    t1 = t1
    t2 = t2
    None = None
    Scenes = {a, b, c}
    Txns = {t1, t2}
    Kinds <- EveryKind
    Parcels <- TwoParcels
    ParcelsOf <- CrossScenes
    BaseOf <- CrossBases
SYMMETRY TxnSymmetry
INVARIANTS
    TypeOK
    NoOverlap
    StatsExactAlone
    SpawnIffDeployedAlone
PROPERTIES
    ImplementsSceneMap
    UndeployIsComplete
    CommitLeavesSpawnInside
