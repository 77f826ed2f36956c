SPECIFICATION Spec
CONSTANTS
    NTools = 3
    MaxHelpers = 1
    Reprs = {r1, r2}
    None = None
    Foreign = Foreign
    Replacers = {2, 3}
    MaxId = 1
INVARIANTS
    TypeOK
    SnapshotStaysCurrent
    ToolsAccounted
    SignalsMatchInvocations
    NothingSchedulable
    CleanReturn
PROPERTY
    ImplementsOrganizer
