SPECIFICATION Spec
CONSTANTS
    Tasks = {t1, t2}
    Places = {1, 2}
    K = 1
    Ef = 1
    M0 = 2
    EfConstruction = 2
    MaxRows = 3
    MaxDeleted = 1

INVARIANTS AsyncTypeOK AloneIsExact
PROPERTY LockIsGranted
