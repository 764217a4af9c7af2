SPECIFICATION Spec
CONSTANTS
    Vectors = {zero, v1}
    Placeholder = zero
    Data = {m1, m2}
    Faults <- MCFaults
    MaxRows = 2
    MaxOps = 2
    MaxRestarts = 2
    MaxFaults = 1

INVARIANTS StoreTypeOK ReadsWhatRecovers DeletedRowsCounted
PROPERTY ImplementsVectorMap
