CONSTANTS
    Threads = {t1, t2, t3}
    MaxEvents = 2
SPECIFICATION Spec
CHECK_DEADLOCK FALSE
INVARIANTS
    ExitsElegantly
