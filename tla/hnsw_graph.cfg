SPECIFICATION Spec
CONSTANTS
    Angles = {0, 1, 3}
    Zero = Zero
    M = 1
    M0 = 2
    MaxLevel = 1
    EfConstruction = 3
    Updated = {"entry", "other"}
    MaxRows = 3
    MaxUpdates = 3

INVARIANTS GraphTypeOK EntryUsable LinksWellFormed FoundUnlessUpdated
CHECK_DEADLOCK FALSE
