SPECIFICATION Spec
CONSTANTS
    g1 = g1
    g2 = g2
    Tokens = {1}
    ChildTokens = {}
    NoteTokens = {}
    LockTokens = {}
    PolicyReplies <- OneReply
    Logging = FALSE
    MaxChunks = 0
    Groups = {g1}
    NoGroup = NoGroup
    NoHead = NoHead
    Uids = {7}
    Regs <- OneReg
    MaxRegs = 1
    Verdicts <- Refusing
    Limit = 2
    Failures = {}
    EventOf <- UserEvent
    MaxConns = 20
    MayStop = TRUE
CHECK_DEADLOCK FALSE
INVARIANTS AllAnswered
PROPERTIES ImplementsArbiter StopCompletes
