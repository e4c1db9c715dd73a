SPECIFICATION Spec
CONSTANTS
    x1 = x1
    x2 = x2
    d1 = d1
    d2 = d2
    g1 = g1
    g2 = g2
    c1 = c1
    c2 = c2
    h1 = h1
    h2 = h2
    Exec = {x1, x2}
    NoExec = NoExec
    Device = {d1, d2}
    NoDevice = NoDevice
    DeviceOf <- DeviceTable
    Gateway = {g1, g2}
    Redis = Redis
    Conn = {c1, c2}
    NoConn = NoConn
    Delivery = {h1, h2}
    RestGateway = {}
    RedisEnabled = TRUE
    RedisRequired = FALSE
    MaxDeliveryAttempts = 1
    MaxCopies = 1
    MaxCrashes = 0
    MaxOutages = 1
CONSTRAINT SmallDeployment
CHECK_DEADLOCK FALSE
INVARIANTS
    TypeOK
    OwnDispatchesOnly
    GatewaysAccount
