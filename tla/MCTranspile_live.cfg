SPECIFICATION Spec
CONSTANTS
    NTools = 3
    MaxHelpers = 1
    Reprs = {r1}
    None = None
    Foreign = Foreign
    Replacers = {2}
    MaxId = 1
PROPERTIES
    Terminates
    ImplementsBarrier
    OkIsApplied
