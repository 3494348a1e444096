SPECIFICATION Spec
CONSTANTS
    t1 = t1
    t2 = t2
    initial = initial
    other = other
    outdated = outdated
    Tabs <- MCTabs
    Confs <- MCConfs
    Initial = initial
    Outdated <- MCOutdated
    MaxRows = 4
    MaxRequests = 3
SYMMETRY TabSymmetry
CHECK_DEADLOCK FALSE
PROPERTY
    ChangedIsSelected
