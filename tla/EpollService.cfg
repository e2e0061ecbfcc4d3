SPECIFICATION Spec
CONSTANTS
    thread_or_proc_num_ = 3
    MaxSignals = 1
    MaxFailures = 1
INVARIANTS
    WorkersBound
    ReturnsAfterAll
    NoDescriptorLeft
PROPERTY
    StartReturns
CHECK_DEADLOCK FALSE
