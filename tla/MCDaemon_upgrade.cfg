SPECIFICATION Spec
CONSTANTS
    g1 = g1
    g2 = g2
    Tokens = {1, 2, 3}
    ChildTokens = {}
    NoteTokens = {}
    LockTokens = {1, 2, 3}
    PolicyReplies <- OneReply
    Logging = FALSE
    MaxChunks = 1
    Groups = {g1}
    NoGroup = NoGroup
    NoHead = NoHead
    Uids = {}
    Regs <- OneReg
    MaxRegs = 1
    Verdicts = {0}
    Limit = 2
    Failures = {}
    EventOf <- UserEvent
    MaxConns = 20
    MayStop = FALSE
CHECK_DEADLOCK FALSE
INVARIANTS OneUpgradeRound
PROPERTIES EventsAnswered
