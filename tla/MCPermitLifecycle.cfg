\* A type with every gate: inspection, gas test, approver, one renewal.
CONSTANTS
    RequiresInspection = TRUE
    RequiresGasTest = TRUE
    RequiresApprover = FALSE
    Validity = 2
    MaxRenewals = 1
    MaxTotal = 3
    RetestInterval = 1
    MaxNow = 5
SPECIFICATION Spec
INVARIANTS
    GatesClearedThisRound
    WindowWithinLimits
    ExposureBounded
PROPERTIES
    VoidIsFinal
    OverdueIsExpired
