SPECIFICATION InputsSpec
CONSTANTS
    Dcl = {"d1"}
    TwoLevel = {"e1", "e2", "e3"}
    Deeper = {"s1"}
    Wallets = {"w1", "w2"}
    Nobody = "nobody"
    NameWrapper = "wrapper"
    BATCH_SIZE_LIMIT = 2
    MaxRetries = 2
    Lookups <- MCLookups
    FirstOwners <- MCFirstOwners
    MaxTransfers = 1
    MaxFaults = 1
    Canonical <- MCCanonical
    InBounds = {"a", "b", "c"}
    SizeOf <- MCSizes
    RelativePaths = {"f1", "f2"}
    MAX_FILE_COUNT = 2
    MaxParcels = 2
    MaxSize = 4
    Coordinate <- MCCoordinates
    DeploymentInputs <- MCDeploymentInputs
    Updates <- MCUpdates
    FileRequests <- MCFileRequests
INVARIANTS
    OwnersWereOwners
    AcceptedScenesArePlaceable
    UpdatesAreExact
    RangesAreExact
