SPECIFICATION FairSpec
CONSTANTS
    p1 = p1
    p2 = p2
    d1 = d1
    d2 = d2
    inFlow = inFlow
    outFlow = outFlow
    Nobody = Nobody
    Boot = Boot
    Flows = {inFlow, outFlow}
    WithMenu = {d1}
    InterfacesOf <- MCInterfacesOf
    Plugins = {p1, p2}
    Definitions = {d1, d2}
    AutoRegister = {d1}
    Admins = {t1}
    DefinitionOf <- TwoDefinitions
    MaxOrphans = 1
PROPERTIES
    ImplementsLifecycle
