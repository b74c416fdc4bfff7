SPECIFICATION SessionSpec
CONSTANTS
    t1 = t1
    t2 = t2
    ann = ann
    bob = bob
    h1 = h1
    h2 = h2
    Tools = {t1}
    Members = {ann}
    Handlers = {h1}
    SessionIds = {1, 2}
    Deposit = 3
    FlatFee = 1
    ToolCap = 1
    HoldCap = 1
    SweepGrace = 1
    StaffStatuses = {"maintenance", "idle"}
    MaxFailures = 1
INVARIANTS SettledIsLedgered ChargeWithinHold
PROPERTIES DebitedOnce EverythingIsGivenBack ImplementsLedger
