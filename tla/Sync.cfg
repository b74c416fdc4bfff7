CONSTANTS
    t1 = t1 t2 = t2
    NoSnapshot = NoSnapshot
    Snapshots <- NoWiring
    Tools = {t1, t2}
    ExternalIds = {}
    Bindings = {}
    Devices = {}
    Conditions = {}
    Ttl = 1
    ModuleTimeout = 1
    Grace = 2
    Pulse = 1
    MaxTime = 3
    Online = {t2}
    PostsMayLag = FALSE
    AnswersMayBeLost = FALSE
    PushesOn = FALSE
    PollBound = 2
    ChannelCap = 1
    MaxOps = 3
SPECIFICATION Spec
INVARIANTS InUseOnlyAfterAYes YoungSessionSurvives
CHECK_DEADLOCK FALSE
