SPECIFICATION Spec
CONSTANTS
    loader = loader
    ActionUuids = {loader}
    Uuid = loader
    r1 = r1
    Routees = {r1}
    MarksMayFail = TRUE
    MaxSchedules = 2
    MaxRestarts = 1
CHECK_DEADLOCK FALSE
INVARIANT
    ExclusiveRunsAlone
