SPECIFICATION Spec
CONSTANTS
    name = name
    kind = kind
    one = one
    none = none
    Columns = {name, kind}
    Filterable = {name}
    Sortable = {name, kind}
    Values = {one, none}
    Matches <- MCMatches
    Rows = {1, 2}
    PageSize = 1
    FirstConfig <- MCFirst
    InitialConfig <- MCInitial
    wide = wide
    old = old
    Filters = {wide, old}
    StoredConfig <- MCStored
    MaxCalls = 3
CHECK_DEADLOCK FALSE
INVARIANTS
    TypeOK
    FieldsFollowConfig
    TableShowsConfig
    BoxesTellSelection
