SPECIFICATION FairSpec
CONSTANTS
    p1 = p1
    o1 = o1
    c1 = c1
    In = In
    Out = Out
    None = None
    Plugins = {p1}
    Events = {o1, c1}
    Posters = {t1, t2}
    MaxStarts = 2
    KindOf <- MCKindOf
    FlowOf <- MCFlowOf
    AudienceOf <- MCAudienceOf
    InterfacesOf <- MCInterfacesOf
INVARIANTS
    TypeOK
    EveryEventAccountedFor
    StartedPluginsHear
PROPERTIES
    ImplementsLifecycle
    EveryEventSettles
CHECK_DEADLOCK FALSE
