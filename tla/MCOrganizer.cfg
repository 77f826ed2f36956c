SPECIFICATION Spec
CONSTANTS
    Organizers = {o1, o2}
    Edits = {e1, e2}
    Reprs = {r1, r2}
    None = None
    MaxId = 3
    NSeed = 1
INVARIANTS
    TypeOK
    ExclusiveEdits
    LeaseTableExact
PROPERTIES
    NoLostUpdate
    ImplementsLeaseStore
