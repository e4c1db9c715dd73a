SPECIFICATION ServicesSpec
CONSTANTS
    u1 = u1
    u2 = u2
    d1 = d1
    d2 = d2
    x1 = x1
    x2 = x2
    y1 = y1
    y2 = y2
    z1 = z1
    z2 = z2
    f1 = f1
    q1 = q1
    None = None
    Key = {k1}
    Value = {1, 2}
    NoValue = None
    Keep = Keep
    Writer = {x1, x2}
    MaxVersion = 3
    Pairing = {p1, p2}
    NoPairing = None
    MaxFaults = 2
    Device = {d1}
    User = {u1, u2}
    NoUser = None
    Operators = {u2}
    Subject = {s1}
    Handling = {c1, c2, c3}
    Metric = {y1, y2}
    Number = {1, 2}
    Slo = {x1, x2}
    Missing = Missing
    Deleted = Deleted
    Sample = {z1, z2}
    MaxTime = 1
    Comparisons = {"gt"}
    TopMetrics = 1
    Medium = 1
    High = 2
    Limit = 2
    Plugin = {q1}
    Modules = {q1}
    NoArtifact = None
    Replica = {x1, x2}
    NoBlock = None
    Unknown = Missing
    Removed = Deleted
    ScanRequired = TRUE
    Function = {g1}
    Artifact = {y1, y2}
    Torn = Torn
    Absent = None
    MaxInvocations = 1
    MaxInterrupts = 2
    StoreCall = {c1, c2, c3}
    NoStoreCall = None
    MaxCrashes = 1
    Request = {z1, z2}
    Owner = {y1, y2}
    NoOwner = None
    Call = {c1, c2, c3, c4}
    NoCall = None
    Fleet = {f1}
    Member = {d1, d2}
    Measure = {1, 2, 3}
    NoMeasure = None
    MaxRows = 3
    Op = {x1, x2}
    NoOp = None
    NoPlugin = None
    RingSizes <- TwoSizes
    MaxRings = {0, 1}
    Steps = {2}
    Outcomes = {"succeeded", "failed"}
    MaxExecutionsPerDevice = 1
    Focus = {"rollouts"}
SYMMETRY Symmetry
CHECK_DEADLOCK FALSE
INVARIANT
    DeployReaches
