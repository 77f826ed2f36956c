SPECIFICATION Spec
CONSTANTS
    Names = {1, 2}
    a = a
    Contents = {a, b}
    Dir = Dir
    Partial = Partial
    CurDir = CurDir
    ParentDir = ParentDir
    RootDir = RootDir
    MaxLen = 3
    MaxFiles = 3
    Loaded <- MCLoaded
CHECK_DEADLOCK FALSE
INVARIANTS
    TypeOK
    LookupsAgree
    MaterializesFiles
PROPERTIES
    SetIsAllOrNothing
    ImplementsFileMap
