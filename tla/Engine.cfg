CONSTANTS
    t1 = t1 x1 = x1 b1 = b1 b2 = b2 d1 = d1 d2 = d2
    NoSnapshot = NoSnapshot
    Tools = {t1}
    ExternalIds = {x1}
    Bindings = {b1, b2}
    Devices = {d1, d2}
    Conditions = {"door_open", "flow_ok"}
    Snapshots <- AllSnapshots
    Ttl = 1
    ModuleTimeout = 1
    Grace = 2
    Pulse = 1
    MaxTime = 2
SPECIFICATION Spec
INVARIANTS TypeOK LatchedToolsAreOff StopOutranksOlderSync
CHECK_DEADLOCK FALSE
