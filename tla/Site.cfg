SPECIFICATION Spec
CONSTANTS
    c1 = c1 c2 = c2 o1 = o1 s1 = s1 s2 = s2 t1 = t1 t2 = t2
    d1 = d1 d2 = d2 m1 = m1 i1 = i1 e1 = e1
    a1 = a1 a2 = a2 a3 = a3 other = other n1 = n1
    Circuits = {c1, c2} Outlets = {o1} Receptacles = {s1, s2} PoweredTools = {t1, t2}
    Limits = {1} Amps = {0, 1} Wirings <- WiringsM PowerEnabled = TRUE
    MaxPowerEdits = 1 MaxPowerLost = 1 MaxSnaps = 2
    Boxes = {d1} Modules = {m1} Machines = {t1} SilenceSecs = 0 DebounceSecs = 1
    MaxSweepClock = 3 MaxBypassSteps = 3
    Kit = {d1, d2} Invitations = {i1} InviteTtl = 0 CardCipher = TRUE BrokerConfigured = TRUE
    MaxDeviceSteps = 2 MaxScans = 1 MaxOutages = 1 MaxDeviceHour = 1
    Units = {e1, d1} Benches = {t1} EdgeOf <- EdgeM MaxBindSteps = 3
    PlaceIds = {a1, a2, a3} Depths = {1, 2} OtherLabel = other PlaceNames = {n1} MaxPlaceSteps = 5
INVARIANTS TreesStayTrees DeviceRegistryHolds
PROPERTIES PowerLocksAgree BypassLogIsTrue DevicesReturn ReportsAreHeard
CHECK_DEADLOCK FALSE
