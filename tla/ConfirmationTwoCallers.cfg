\* Two goroutines in updateConfirmedBlockHeader at once.
CONSTANTS
    a = a  b = b  c = c  p1 = p1  p2 = p2
    Validators <- MCValidators
    Callers <- MCTwoCallers
    MaxValidatorSize = 3
    MaxBlocks = 4
    MaxEpoch = 0
    None = None
SPECIFICATION Spec
PROPERTY ConfirmedNeverRegresses
