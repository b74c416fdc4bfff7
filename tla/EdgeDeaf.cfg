SPECIFICATION DevicesSpec
CONSTANTS
    d1 = d1 d2 = d2 i1 = i1
    Kit = {d1, d2} Invitations = {i1} InviteTtl = 0 CardCipher = TRUE BrokerConfigured = TRUE
    MaxDeviceSteps = 2 MaxScans = 1 MaxOutages = 2 MaxDeviceHour = 1
PROPERTIES EdgeHearsAgain
CHECK_DEADLOCK FALSE
