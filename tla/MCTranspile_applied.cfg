SPECIFICATION Spec
CONSTANTS
    NTools = 2
    MaxHelpers = 1
    Reprs = {r1}
    None = None
    Foreign = Foreign
    Replacers = {}
    MaxId = 1
PROPERTY
    OkIsAlwaysApplied
