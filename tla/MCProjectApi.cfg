CONSTANTS
    ada = ada
    bob = bob
    h1 = h1
    h2 = h2
    m1 = m1
    nobody = nobody
    Users = {ada, bob}
    Founder = ada
    Roles <- AllRoles
    Grantable <- Grants
    Handlers = {h1, h2}
    Mixes <- Mix
    MaxRow = 4
    MergeIds = {m1}
    NoUser = nobody
    EnvironmentNames = {"production", "development"}
    Tokens = {1, 2, 3}
SPECIFICATION Spec
SYMMETRY Symmetric
CHECK_DEADLOCK FALSE
INVARIANTS
    TypeOK
    ForwardedAsOwnAccount
    TokenHasCredential
    CreatingIsInFlight
    AdministrationAuthorised
    MergesAuthorised
    ForwardsPermitted
    SpentTokenStaysSpent
