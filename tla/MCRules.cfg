SPECIFICATION Spec
CONSTANTS
    Policies <- SomePolicies
    Paths <- SomePaths
    NoPath = NoPath
    Slot <- SomeSlots
    FileEvents <- SomeFileEvents
    AlfEvents <- SomeAlfEvents
    Radix = 4
    AddrBits = 2
    LittleEndian = TRUE
    NoBlock = NoBlock
    NoReply = NoReply
CHECK_DEADLOCK FALSE
INVARIANTS HashIsInvisible AdminPrevails RenameKeepsRules RuleReported
