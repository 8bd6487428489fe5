SPECIFICATION Spec
CONSTANTS
    s1 = s1
    Sessions = {s1}
    NoSession = NoSession
    NoAuth = NoAuth
    Uids <- MCUids
    KeyMode <- UserMode
    Targets <- MCTargets
    Kinds = {"LIST", "BADLIST", "CSUM"}
    MaxToken = 3
    MaxPipe = 2
INVARIANTS RequestsBelong NoOrphanRequest AuthSound AuthAlive PolicyAuthorised
PROPERTY RequestsAnswered
