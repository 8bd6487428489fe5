SPECIFICATION Spec
CONSTANTS
    g1 = g1
    g2 = g2
    g3 = g3
    Groups = {g1, g2, g3}
    NoGroup = NoGroup
    NoHead = NoHead
    Tokens = {1}
    Uids = {0, 7}
    Regs <- UserRegs
    MaxRegs = 1
    Events <- SomeEvents
    News <- SomeNews
    Verdicts <- SomeVerdicts
    Limit = 1
    Failures = {"send", "oom"}
SYMMETRY Symmetry
CONSTRAINT NewsOrAsk
INVARIANTS TypeOK LinkedHeadsLive EventCountExact FinishOnce OnlyRefusedVerdictsWait ResultsAgree EventsArePrivate EveryPeerToldResult
