\* One deployment at a time of two scenes beside the collector and a thumbnail.
SPECIFICATION Spec
CONSTANTS
    d1 = d1
    d2 = d2
    a = a
    b = b
    h1 = h1
    h2 = h2
    authA = authA
    authB = authB
    Requests = {d1}
    Scenes = {a, b}
    ContentOf <- TwoContents
    Uploads = {{}, {h1}}
    AuthOf <- TwoAuths
    Thumbnail = thumb
    Concurrency = 1
    MaxConnections = 1
    BatchSize = 1
    Others = {"thumbnail", "evict", "collect"}
INVARIANTS
    ContentKept
