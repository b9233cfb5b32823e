SPECIFICATION MCSpec
CONSTANTS
    Foci = {"router", "observer", "state", "world", "registry", "models", "pipe", "graph", "groups",
            "activity", "upgrade"}
    Repeats = FALSE
    StepIds <- MCIds
    Locks <- MCLocks
    Plans <- MCPlans
    local = local
    cloud = cloud
    Configured <- MCConfigured
    Preferred <- MCPreferred
    RouterCalls = {1, 2}
    RetryAttempts = 2
    FailureThreshold = 2
    Cooldown = 1
    Tabs = {t1, t2}
    Domains = {x1}
    NoDomain = NoDomain
    Receivers = {1, 2}
    Controls = {1}
    Reporters = {"windows", "browser"}
    Values = {TRUE, FALSE}
    Recheck = "active_recheck"
    StateQueries = {1, 2}
    ConflictWindow = 1
    MaxStateTime = 2
    MaxReports = 4
    w1 = w1
    w2 = w2
    w3 = w3
    a1 = a1
    a2 = a2
    Apps <- MCApps
    Windows <- MCWindows
    Owner <- MCOwner
    NoWindow = NoWindow
    MaxUpdates = 1
    q1 = q1
    q2 = q2
    q3 = q3
    Catalogue <- MCCatalogue
    Installed <- MCInstalled
    LocalOnes = {q2, q3}
    Cost <- MCCost
    NoPin = NoPin
    RouteCalls = {1}
    MaxEdits = 2
    Loads = {1, 2}
    PipeSubscribers = {"b1", "b2", "b3"}
    Frames <- MCFrames
    AtStart <- MCAtStart
    n1 = n1
    n2 = n2
    n3 = n3
    e1 = e1
    e2 = e2
    Nodes <- MCNodes
    Edges <- MCEdges
    NoNode = NoNode
    NoEdge = NoEdge
    MaxMutations = 4
    MaxCrashes = 1
    Processes = {k1, k2, k3}
    NoProcess = NoProcess
    Upgrades = {1, 2}
    Nobody = Nobody
    FirstVersion = 1
    LastVersion = 3
    MaxWork = 1
INVARIANTS
    OpenMeansRest
    ObserversObey
    FocusIsTrue
    RoutedAsConfigured
    ReportsAreTrue
    HandledOrDeadLettered
    GraphSurvives
    GroupsSound
PROPERTIES
    LateNeverOverrides
    EveryPlanDecided
CHECK_DEADLOCK FALSE
