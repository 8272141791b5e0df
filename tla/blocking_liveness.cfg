SPECIFICATION FairSpec
CONSTANTS
    x1 = x1
    x2 = x2
    w1 = w1
    w2 = w2
    q1 = q1
    Nobody = Nobody
    Wallets = {x1, x2}
    Worlds = {w1, w2}
    Places <- MCPlaces
    WorldOf <- MCWorldOf
    MaxSize = 1
    Whitelisted = {w2}
    WhitelistedMax = 1
    Allowances = {0, 1}
    FirstOwners = {x1}
    FirstAllowances = {1}
    Requests = {q1}
    MaxChanges = 1
    MaxFailures = 1
PROPERTIES
    OverQuotaIsRestricted
    WithinQuotaIsRestored
