CONSTANTS
    Threads = {t1, t2, t3}
    MaxEvents = 2
SPECIFICATION ProcessSpec
CHECK_DEADLOCK FALSE
INVARIANTS
    ProcessTypeOK
    NoWorkerStranded
    NoUseAfterClear
    CallbackThereWhileServing
PROPERTIES
    YesEnds
