SPECIFICATION Spec
CONSTANTS
    kpi1 = kpi1
    boot = boot
    admin = admin
    ActionUuids = {kpi1}
    Callers = {boot}
    Boot = boot
    MarksMayFail = FALSE
    Kinds = {"inactive", "invalid", "plain", "badTime", "scheduled"}
    MaxCalls = 2
    MaxSchedules = 4
CHECK_DEADLOCK FALSE
INVARIANT
    ReloadedIsServed
