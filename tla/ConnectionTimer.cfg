CONSTANTS
    Keys = {k1, k2}
    OutDate = 1
SPECIFICATION Spec
CHECK_DEADLOCK FALSE
INVARIANTS
    TypeOK
    EvictedBySecondCheck
    
PROPERTIES
    IdleEvicted
