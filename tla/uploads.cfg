\* Three requests share two places.
SPECIFICATION FairSpec
CONSTANTS
    u1 = u1
    u2 = u2
    u3 = u3
    Uploads = {u1, u2, u3}
    Capacity = 3
    MaxFiles = 2
    MaxUploads = 2
    MaxOrphans = 1
    MaxSize = 2
    Retries = 1
    Chunks <- OneOrTwo
INVARIANTS
    TypeOK
    LedgerExact
    DiskBounded
    RequestsBounded
    RetainedFitsLease
    HandlerSeesWholeUpload
PROPERTIES
    EveryUploadEnds
