SPECIFICATION Spec
CONSTANTS
    u1 = u1 k1 = k1 k2 = k2 t1 = t1 room1 = room1 e1 = e1 plug = plug
    Members = {u1} DoorCards = {k1, k2} DoorCardHolder <- DoorCardHolderM Plans <- PlansM Zones <- ZonesM StaffLevel = 3
    HoldRefresh = 1 HoldMargin = 1 MaxDoorEdits = 3 MaxAir = 1 MaxDoorsLost = 1 MaxClock = 2
    People = {u1} CardCodes = {k1} HolderOf <- HolderM Shop = {t1} Rooms = {room1} Edge = e1
    Gear = {e1, plug} Declares <- DeclaresM OnlineSync = FALSE
    MaxAccessSteps = 2 MaxAccessLost = 1 MaxWire = 1
INVARIANTS DoorsActAsWritten EdgeActsForTheServer
PROPERTIES DoorsEdgeCatchesUp AccessCopiesConverge
CHECK_DEADLOCK FALSE
