SPECIFICATION FairSpec
CONSTANTS
    e1 = e1
    e2 = e2
    e3 = e3
    t1 = t1
    d1 = d1
    k1 = k1
    Exec = {t1}
    TriggerExec = {t1}
    Replica = {r1, r2}
    Device = {d1}
    NoDevice = NoDevice
    Key = {k1}
    NoKey = NoKey
    DeviceOf <- DeviceTable
    KeyOf <- KeyTable
    TypeOf <- TypeTable
    Denied = {}
    CallbackStatuses = {"running", "succeeded", "failed"}
    MaxExecutionsPerDevice = 2
    KafkaRetryAttempts = 2
    MaxCrashes = 1
    MaxOutages = 1
CHECK_DEADLOCK FALSE
PROPERTIES
    RowsAreResolved
    DeletedStaysDeleted
