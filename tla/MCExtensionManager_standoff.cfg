SPECIFICATION Spec
CONSTANTS
    j1 = j1
    j2 = j2
    p1 = p1
    None = None
    Jars = {j1, j2}
    Plugins = {p1}
    Controllers = 2
    MaxWrites = 1
    JarOf <- MCJarOf
INVARIANTS
    NoStandOff
CHECK_DEADLOCK FALSE
