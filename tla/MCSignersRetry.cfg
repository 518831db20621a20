SPECIFICATION FairSpec
CONSTANTS
    Keys = {1, 2, 3}
    Contracts = {9}
    NoKey = 0
    Foreign = Foreign
    Networks = {n1, n2}
    NoPin = NoPin
    Order = 7
    MaxSignatures = 3
    Scenarios <- MCScenarios
    MaxRotations = 1
    MaxAPDU = 4
    PathLen = 2

PROPERTY RefusalIsFinal
