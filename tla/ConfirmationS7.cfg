\* Scenario S7: does a call that confirms move the pointer to the head?
CONSTANTS
    a = a  b = b  c = c  p1 = p1  p2 = p2
    Validators <- MCValidators
    Callers <- MCOneCaller
    MaxValidatorSize = 3
    MaxBlocks = 3
    MaxEpoch = 0
    None = None
SPECIFICATION Spec
PROPERTY ConfirmAdvancesToHead
