\* Two projects, which exist already or not, two requests at a time, two keys (a
\* project that exists can be deleted twice) and two grants; clocks agree.
SPECIFICATION Spec
CONSTANTS
    Projects = {p1, p2}
    Actors = {a1}
    Keys = {k1, k2}
    Grants = {g1, g2}
    Handlers = {h1, h2}
    TTL = 1
    Skew = 0
    MaxTime = 1
    NoGrant = NoGrant
    NoHandler = NoHandler
SYMMETRY Symmetry
INVARIANTS
    TypeOK
    OneOperationPerKey
    RepeatNotRefused
    GrantSpentOnce
    DeletionAuthorized
PROPERTIES
    ImplementsPromise
