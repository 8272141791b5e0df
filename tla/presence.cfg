SPECIFICATION Spec
CONSTANTS
    p1 = p1
    o = o
    w1 = w1
    w2 = w2
    c1 = c1
    s1 = s1
    r1 = r1
    r2 = r2
    NoWorld = NoWorld
    Nothing = Nothing
    Peers <- MCPeers
    Worlds <- MCWorlds
    DclNames <- MCWorlds
    Joinable <- MCJoinable
    Owner <- MCOwner
    Deployers = {}
    Communities = {c1}
    Secrets = {s1}
    Knows <- MCKnows
    Settings <- MCSettings
    Changing = {w1}
    MaxWallets = 1
    MaxCommunities = 1
    kickBatchSize = 1
    Requests = {r1, r2}
    Operations <- MCOps
    MaxWebhooks = 2
INVARIANTS
    IndexesAgree
    IntrudersHaveAReason
    RegistryFollowsLastJoin
PROPERTIES
    ImplementsPeerRooms
    ChangesAreLocal
SYMMETRY MCSymmetry
