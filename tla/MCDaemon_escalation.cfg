SPECIFICATION Spec
CONSTANTS
    g1 = g1
    g2 = g2
    Tokens = {1}
    ChildTokens = {}
    NoteTokens = {}
    LockTokens = {}
    PolicyReplies <- OneReply
    Logging = FALSE
    MaxChunks = 0
    Groups = {g1, g2}
    NoGroup = NoGroup
    NoHead = NoHead
    Uids = {7}
    Regs <- OneReg
    MaxRegs = 1
    Verdicts <- Refusing
    Limit = 2
    Failures = {"oom", "send"}
    EventOf <- UserEvent
    MaxConns = 20
    MayStop = FALSE
INVARIANTS EscalationHonoured HeadsAreAwaited
PROPERTIES EscalationsEnd ImplementsLiveArbiter
