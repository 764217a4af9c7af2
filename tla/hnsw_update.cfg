SPECIFICATION Spec
CONSTANTS
    Angles = {0, 1, 3}
    Zero = Zero
    M = 2
    M0 = 3
    MaxLevel = 1
    EfConstruction = 4
    Updated = {"entry"}
    MaxRows = 3
    MaxUpdates = 2

INVARIANT StaysConnected
CHECK_DEADLOCK FALSE
