\* One deployment beside the collector.
SPECIFICATION Spec
CONSTANTS
    d1 = d1
    d2 = d2
    a = a
    b = b
    h1 = h1
    h2 = h2
    authA = authA
    authB = authB
    Requests = {d1}
    Scenes = {a}
    ContentOf <- OneContent
    Uploads = {{h1, h2}}
    AuthOf <- OneAuth
    Thumbnail = thumb
    Concurrency = 2
    MaxConnections = 1
    BatchSize = 2
    Others = {"collect"}
PROPERTIES
    CollectsOnlyUnused
