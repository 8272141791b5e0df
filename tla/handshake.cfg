SPECIFICATION Spec
CONSTANTS
    r1 = r1
    r2 = r2
    Nobody = Nobody
    Requests = {r1, r2}
    MaxAttempts = 1
    Wallets = {"owner", "peer"}
    Owner = "owner"
    Secrets = {"s1", "s2"}
    Tells <- MCTells
    MaxUsers = 1
    MaxChanges = 1
    MaxFailures = 1
SYMMETRY RequestSymmetry

    
PROPERTIES
    LimitsAreDeserved
    TokensAreJustified
