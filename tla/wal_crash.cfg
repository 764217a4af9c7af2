SPECIFICATION Spec
CONSTANTS
    Clients = {c1}
    Sizes <- ShortAndLong
    MaxSeg = 3
    MaxTotal = 4
    MaxSegments = 1
    Calls <- AllCalls
    Faults <- RotationFaults
    MaxRecords = 4
    MaxOpens = 3
    MaxFaults = 1

INVARIANTS TypeOK DurableInOrder LsnNeverReused
PROPERTY ImplementsDurableLog
