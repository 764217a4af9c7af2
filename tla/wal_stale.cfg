SPECIFICATION Spec
CONSTANTS
    Clients = {c1}
    Sizes = {2}
    MaxSeg = 0
    MaxTotal = 0
    MaxSegments = 0
    Calls = {"checkpoint"}
    Faults = {}
    MaxRecords = 3
    MaxOpens = 3
    MaxFaults = 0
INVARIANT NoStaleReplay
