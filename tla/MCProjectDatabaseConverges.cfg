\* Two clients are enough to interrupt one creation and repeat it.
SPECIFICATION Spec
CONSTANTS
    Clients = {c1, c2}
    MaxOid = 3
    NoClient = NoClient
INVARIANT EnsureConverges
