CONSTANTS
    t1 = t1 x1 = x1 b1 = b1 b2 = b2 d1 = d1 d2 = d2
    NoSnapshot = NoSnapshot
    Snapshots <- OnePlug
    Tools = {t1}
    ExternalIds = {x1}
    Bindings = {b1}
    Devices = {d1}
    Conditions = {}
    Ttl = 1
    ModuleTimeout = 1
    Grace = 0
    Pulse = 1
    MaxTime = 5
    Period = 1
    MaxDelay = 1
    ReportDelay = 1
    WireCap = 2
SPECIFICATION DeliverySpec
INVARIANT NeverOnAStalePromise
PROPERTY RunOnNeverExtended
CHECK_DEADLOCK FALSE
