SPECIFICATION SingleSpec
CONSTANTS
    e1 = e1
    e2 = e2
    e3 = e3
    t1 = t1
    d1 = d1
    k1 = k1
    Exec = {e1, e3}
    TriggerExec = {}
    Replica = {r1}
    Device = {d1}
    NoDevice = NoDevice
    Key = {k1}
    NoKey = NoKey
    DeviceOf <- DeviceTable
    KeyOf <- KeyTable
    TypeOf <- TypeTable
    Denied = {}
    CallbackStatuses = {"running", "succeeded", "failed"}
    MaxExecutionsPerDevice = 1
    KafkaRetryAttempts = 2
    MaxCrashes = 1
    MaxOutages = 1
    r1 = r1
    Scenario = {"requests", "triggers"}
CHECK_DEADLOCK FALSE
INVARIANTS
    TypeOK
    OutputMatchesStatus
    OneDispatch
    RequestLimit
PROPERTIES
    LegalMoves
    
    ImplementsLifecycle
    TriggersImplement
