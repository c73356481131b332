\* Three clients of one project's role and database.
SPECIFICATION Spec
CONSTANTS
    Clients = {c1, c2, c3}
    MaxOid = 3
    NoClient = NoClient
SYMMETRY Symmetry
INVARIANTS
    TypeOK
    MarkedDatabaseHasOwner
    EnsuredIsThere
    VerifiedAbsent
    ConflictIsReal
PROPERTIES
    ForeignUntouched
    MarkedDroppedOnPurpose
