SPECIFICATION DiagnosticsSpec
CONSTANTS
    Dirs <- MCDirs
    Leftovers = {"ir", "other"}
    Reporters = {r1, r2}
    MaxRuns <- MCMaxRuns
    MaxHandles = 2
INVARIANTS
    DiagnosticsTypeOK
    NothingInTheWay
    StartsFromNothing
PROPERTIES
    KeptWithoutForce
    ImplementsBarriers
