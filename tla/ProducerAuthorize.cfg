CONSTANTS
    a = a
    b = b
    a2 = a2
    NoNode = NoNode
    Nodes <- MCNodes2
    Accounts <- MCAccounts
    Keys <- MCKeys
    Schedule <- MCSchedule2
    BlockInterval = 2
    EpochSlots = 3
    MaxTime = 9
    SealStall = 0
    MaxAuthorize = 1
SPECIFICATION Spec
CONSTRAINT ClockBound
PROPERTY AuthorizeSealExclusive
