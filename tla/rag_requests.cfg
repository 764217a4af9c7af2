SPECIFICATION Spec
CONSTANTS
    Clients = {c1, c2}
    Sources = {s1, s2}
    short = short
    long = long
    Texts <- ShortAndLong
    ChunksOf <- OneAndTwo
    BatchSize = 1
    Faults <- AllRagFaults
    MaxRequests = 3
    MaxRestarts = 1
    MaxFaults = 1

SYMMETRY Symmetry
INVARIANTS RagTypeOK LiveRowsListed IndexedIsThere DeletedIsGone StatusIsTrue
PROPERTY OwnRowsOnly
CHECK_DEADLOCK FALSE
