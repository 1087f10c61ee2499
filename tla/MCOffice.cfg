SPECIFICATION OfficeSpec
CONSTANTS
    Items = {i1, i2}
    MaxRows = 2
    MaxCalls = 1
    FormNames <- AllButTheAiSwitch
    Slots = {"r1", "r2"}
    MaxOpens = 2
    MaxSent = 1
    MaxOthers = 1
    PageNames <- AllButWorkOrders
    MaxPicks = 4
    MaxReloads = 2
    Groups <- ThreeGroups
    ValuesOf <- FieldValues
    OutOfRange <- LoginAtLeastOne
    Sensitive = {"session_timeout"}
    Defaults <- Registry
    MaxOtherSaves = 2
    Units = {"reader"}
    Zones = {"gate", "north"}
    Labels = {"here", "there"}
    LastTime = 3
    Ahead = 1
    MaxRebinds = 2
SYMMETRY ItemSymmetry
PROPERTIES
    CustodyKept PagesAsShown HistoryStands
CHECK_DEADLOCK FALSE
