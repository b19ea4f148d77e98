\* One caller, forks, epoch changes and restarts; fair steps of a call.
CONSTANTS
    a = a  b = b  c = c  p1 = p1  p2 = p2
    Validators <- MCValidators
    Callers <- MCOneCaller
    MaxValidatorSize = 3
    MaxBlocks = 4
    MaxEpoch = 1
    None = None
SPECIFICATION FairSpec
INVARIANTS
    TypeOK
    ConfirmedSound
PROPERTIES
    WalkComplete
    WalkTerminates
    ConfirmationRefinesPointer
