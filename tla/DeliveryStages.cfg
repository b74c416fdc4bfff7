CONSTANTS
    t1 = t1 x1 = x1 b1 = b1 b2 = b2 d1 = d1 d2 = d2
    NoSnapshot = NoSnapshot
    Snapshots <- TwoStages
    Tools = {t1}
    ExternalIds = {x1}
    Bindings = {b1, b2}
    Devices = {d1, d2}
    Conditions = {}
    Ttl = 1
    ModuleTimeout = 1
    Grace = 0
    Pulse = 1
    MaxTime = 1
    Period = 1
    MaxDelay = 0
    ReportDelay = 0
    WireCap = 1
SPECIFICATION DeliverySpec
INVARIANT StageBehindEnergized
CHECK_DEADLOCK FALSE
