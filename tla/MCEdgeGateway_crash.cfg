SPECIFICATION FairSpec
CONSTANTS
    x1 = x1
    d1 = d1
    Exec = {x1}
    NoExec = NoExec
    Device = {d1}
    NoDevice = NoDevice
    DeviceOf <- DeviceTable
    Gateway = {g1, g2}
    Redis = Redis
    Conn = {c1}
    NoConn = NoConn
    Delivery = {}
    RestGateway = {g1}
    RedisEnabled = TRUE
    RedisRequired = TRUE
    MaxDeliveryAttempts = 1
    MaxCopies = 2
    MaxCrashes = 1
    MaxOutages = 0
CHECK_DEADLOCK FALSE
INVARIANTS
    NoStaleSocket
    NothingLost
PROPERTIES
    ReplayReaches
    
