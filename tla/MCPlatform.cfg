SPECIFICATION PlatformSpec
CONSTANTS
    e1 = e1
    e2 = e2
    i1 = i1
    i2 = i2
    c1 = c1
    c2 = c2
    t1 = t1
    t2 = t2
    r1 = r1
    k1 = k1
    q1 = q1
    q2 = q2
    Execution = {e1, e2}
    MaxAgain = 1
    MaxBoots = 2
    MaxRuns = 2
    None = None
    n1 = n1
    n2 = n2
    a1 = a1
    a2 = a2
    Record = {e1}
    MaxRestarts = 1
    IdOf <- FirstId
    NumberOf <- FirstNumber
    Id = {i1}
    Native = {i1}
    Message = {q1, q2}
    NoTask = None
    MaxCreated = 2
    AutoRegister = TRUE
    Name = {n1, n2}
    Ieee = {a1, a2}
    Lists <- DeviceLists
    MaxRegistered = 3
    Commissioning = {c1, c2}
    NoSession = None
    MaxCommissioned = 2
    MaxChanges = 3
    Resource = {r1}
    Gone = Gone
    Tenant = {t1, t2}
    Admin = Admin
    Call = {c1, c2}
    NoHandler = None
    KAFKA_RETRY_ATTEMPTS = 2
    Torn = Torn
    MaxCommits = 3
    MaxEnds = 1
    Key = {k1}
    Request = {q1, q2}
    NoRequest = None
    NoEntry = None
    TTL = 1
    Latency = 1
    MaxAge = 3
    Device = {i1, i2}
    Worker = {q1, q2}
    WINDOW = 1
    THRESHOLD = 2
    RECENT = 2
    Status = {"online"}
    MaxInsights = 3
    MaxNow = 2
    Focus = {"mqtt", "strict", "zigbee", "matter", "watcher", "board", "resources", "policy", "events", "operators", "risk", "drafts"}
SYMMETRY Symmetry
CHECK_DEADLOCK FALSE
INVARIANTS
    TypeOK
    RunsOnce
    ServicesAccount
    BridgesAccount
PROPERTY
    BridgesCommand
