SPECIFICATION MCSpec
CONSTANTS
    j1 = j1
    j2 = j2
    j3 = j3
    Jobs <- MCJobs
    Catalogs <- MCCatalogs
    MaxTime = 2
    MaxFaults = 2
    MaxCancels = 1
    Subscribers = {s1, s2, s3}
    Messages = {m1}
    MaxRetries = 2
    MaxPublishes = 4
    Registered <- MCRegistered
    Graphs <- MCGraphs
    Critical = {"s"}
    Checks = {1, 2}
    MissedAfter = 1
    Window = 2
    MaxImmediate = 1
    Ceiling = 2
    MaxClock = 4
    Connections = {k1, k2}
    Requests = {r1, r2}
    Ids = {i1, i2}
    Nobody = Nobody
    MaxExits = 1
    Devices = {d1, d2}
    Keys = {good, bad}
    BadKeys = {bad}
    Codes = {code}
    Commands = {n1}
    NoOne = NoOne
    Posts = {q1}
    MaxPairings = 3
    c1 = c1
    c2 = c2
    c3 = c3
    Changes <- MCChanges
    Origin <- MCOrigin
    Clock <- MCClock
    Priority <- MCPriority
    Replicas = {"desktop", "phone"}
    Syncs <- MCSyncs
    NoChange = NoChange
    MaxLost = 1
    p1 = p1
    p2 = p2
    p3 = p3
    Plugins <- MCPlugins
    Manifests <- MCManifests
    PluginCalls = {1, 2}
    MaxInstalls = 1
    DegradeAfter = 2
    RecoverAfter = 2
    MaxSamples = 6
INVARIANTS
    OneShotOnce
    StatusHonest
    RestartsBounded
    NoOrphan
    AuthenticatedIsPaired
    ReplicasAgree
    DependenciesEnabled
    QualityFollowsSamples
PROPERTIES
    StartsInOrder
    PassEnds
    SuccessMeansServed
    EveryRequestSettles
CHECK_DEADLOCK FALSE
