\* Two requests of every kind about two wallets.
SPECIFICATION Spec
CONSTANTS
    r1 = r1
    r2 = r2
    w1 = w1
    w2 = w2
    p1 = p1
    p2 = p2
    large = large
    small = small
    Requests = {r1, r2}
    Wallets = {w1, w2}
    Scenes = {large, small}
    Parcels = {p1, p2}
    ParcelsOf <- TwoScenes
    Operations = {"grant", "revoke", "set", "add", "remove", "undeploy", "deploy"}
INVARIANTS
    EventsMatchRows
PROPERTIES
    WidensOnlyOnRequest
    UndeployWasAllowed
SYMMETRY Symmetry
