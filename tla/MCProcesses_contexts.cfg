SPECIFICATION Safe
CONSTANTS
    c1 = c1
    c2 = c2
    c3 = c3
    f1 = f1
    f2 = f2
    k1 = k1
    k2 = k2
    Users = {7, 8}
    Cookies = {c1, c2}
    NoProc = NoProc
    MaxPg = 2
    Files = {}
    NoFile = NoFile
    Requests = {}
    IoErrors = FALSE
    Moves = TRUE
    MaxRestarts = 0
    Prios = {1}
    Idents <- SomeIdents
    NoIdent = NoIdent
    NoCsum = NoCsum
    Registered <- Sums
    Chains <- SomeChains
    Conns = {k1, k2}
    NoRuleset = NoRuleset
    NoRule = NoRule
    NoCtx = NoCtx
    NoConn = NoConn
    UidChanges = {"fork", "exec"}
    MaxLoads = 2
    MaxThreads = 0
    MaxInstances = 1
SYMMETRY ConnSymmetry
CHECK_DEADLOCK FALSE
INVARIANTS NoFreedRuleset RulesInForce
PROPERTIES Confined GivenBack
CONSTRAINT PgOrConns
