SPECIFICATION Safe
CONSTANTS
    g1 = g1
    g2 = g2
    Tokens = {1, 2, 3}
    ChildTokens = {2}
    NoteTokens = {3}
    LockTokens = {}
    PolicyReplies <- OneReply
    Logging = TRUE
    MaxChunks = 0
    Groups = {g1}
    NoGroup = NoGroup
    NoHead = NoHead
    Uids = {0, 7}
    Regs <- SomeRegs
    MaxRegs = 1
    Verdicts = {0}
    Limit = 2
    Failures = {}
    EventOf <- MixedEvents
    MaxConns = 20
    MayStop = FALSE
INVARIANTS OneOwner
