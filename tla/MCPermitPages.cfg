SPECIFICATION PermitSpec
CONSTANTS
    RequiresInspection = TRUE
    RequiresGasTest = TRUE
    RequiresApprover = FALSE
    Validity = 3
    MaxRenewals = 1
    MaxTotal = 9
    RetestInterval = 2
    Grants = {"create-permits", "update-permits", "create-permit-gas-tests"}
    Others = {"o1"}
    MaxOps = 3
    MaxSent = 1
    MaxReads = 1
    Workers = {"w1"}
    DocTypes = {"medical"}
    NeedFile = {"medical"}
    NeedExpiry = {"medical"}
    Docs = {d1, d2}
    MaxTime = 2
    PermitTypes = {"hot", "cold"}
    CrewRoles <- HotAndCold
    Mandatory <- MandatoryWelder
    Requirements <- MedicalFitness
    MaxCrew = 2
SYMMETRY DocSymmetry
PROPERTIES ButtonsFitPermit CrewAsSaved IssuedCrewReady
CHECK_DEADLOCK FALSE
