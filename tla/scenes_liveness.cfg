\* Two connections whose lock orders differ, every operation.
SPECIFICATION FairSpec
CONSTANTS
    a = a
    b = b
    c = c
    t1 = t1
    t2 = t2
    None = None
    Scenes = {a, b}
    Txns = {t1, t2}
    Kinds <- EveryKind
    Parcels <- TwoParcels
    ParcelsOf <- TwoScenes
    BaseOf <- TwoBases
PROPERTIES
    EveryTransactionEnds


