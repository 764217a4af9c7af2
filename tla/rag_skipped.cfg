SPECIFICATION Spec
CONSTANTS
    Clients = {c1}
    Sources = {s1}
    short = short
    long = long
    Texts <- ShortAndLong
    ChunksOf <- OneAndTwo
    BatchSize = 1
    Faults = {}
    MaxRequests = 3
    MaxRestarts = 1
    MaxFaults = 0

INVARIANT SkippedIsThere
CHECK_DEADLOCK FALSE
