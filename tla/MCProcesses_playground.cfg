SPECIFICATION Safe
CONSTANTS
    c1 = c1
    c2 = c2
    c3 = c3
    f1 = f1
    f2 = f2
    k1 = k1
    k2 = k2
    Users = {0, 7}
    Cookies = {c1, c2}
    NoProc = NoProc
    MaxPg = 2
    Files = {f1}
    NoFile = NoFile
    Requests = {1}
    IoErrors = TRUE
    Moves = FALSE
    MaxRestarts = 1
    Prios = {1}
    Idents <- OneIdent
    NoIdent = NoIdent
    NoCsum = NoCsum
    Registered <- Sums
    Chains <- NoChains
    Conns = {}
    NoRuleset = NoRuleset
    NoRule = NoRule
    NoCtx = NoCtx
    NoConn = NoConn
    UidChanges = {}
    MaxLoads = 0
    MaxThreads = 2
    MaxInstances = 2
SYMMETRY Symmetry
CONSTRAINT PgBound
CHECK_DEADLOCK FALSE
INVARIANTS CountersExact AnsweredOnce
PROPERTIES NoTakeover CommitsAllowed
