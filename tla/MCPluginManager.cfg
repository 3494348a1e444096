SPECIFICATION Spec
CONSTANTS
    p1 = p1
    p2 = p2
    d1 = d1
    d2 = d2
    inFlow = inFlow
    outFlow = outFlow
    Nobody = Nobody
    Boot = Boot
    Plugins = {p1, p2}
    Definitions = {d1}
    AutoRegister = {d1}
    Flows = {inFlow, outFlow}
    WithMenu = {d1}
    Admins = {t1, t2}
    DefinitionOf <- OneDefinition
    InterfacesOf <- MCInterfacesOf
    MaxOrphans = 1
SYMMETRY Symmetry
INVARIANTS
    TypeOK
    OneConversation
    RunnersAreKnown
    AnswersAreTrue
    RoutersFollowStatus
    MenuFollowsStatus
PROPERTIES
    StopAllSeesRegistry
    LeavesOnlyWhenIdle
