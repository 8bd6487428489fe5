SPECIFICATION Spec
CONSTANTS
    Slots <- SomeSlots
    Keyed <- SignedSlots
    Rekeyed <- SomeSlots
    Contents <- SomeContents
    Auths = {0, 7}
    Tokens = {1, 2}
    SigLens = {0, 2}
    Lens = {1, 3}
    MaxSize = 5
    MaxUploads = 2
    MaxCrashes = 1
CHECK_DEADLOCK FALSE
INVARIANTS DbIsDisk NeverUnprotected AuthorsAllowed StoredIntact
