SPECIFICATION Spec
CONSTANTS
    e1 = e1
    e2 = e2
    e3 = e3
    t1 = t1
    d1 = d1
    k1 = k1
    Exec = {e1, e2}
    TriggerExec = {}
    Replica = {r1, r2}
    Device = {d1}
    NoDevice = NoDevice
    Key = {k1}
    NoKey = NoKey
    DeviceOf <- DeviceTable
    KeyOf <- KeyTable
    TypeOf <- TypeTable
    Denied = {}
    CallbackStatuses = {"running", "succeeded", "failed"}
    MaxExecutionsPerDevice = 2
    KafkaRetryAttempts = 1
    MaxCrashes = 0
    MaxOutages = 0
CHECK_DEADLOCK FALSE
INVARIANTS
    TimedRows
    OneRowPerKey
