SPECIFICATION Spec
CONSTANTS
    Clients = {c1, c2}
    Sizes = {1}
    MaxSeg = 1
    MaxTotal = 0
    MaxSegments = 0
    Calls = {"checkpoint", "shutdown"}
    Faults <- AllFaults
    MaxRecords = 2
    MaxOpens = 1
    MaxFaults = 1

INVARIANT DataLsnNeverReused
PROPERTIES CheckpointAboveWritten AckedIsOnDisk Answered
