SPECIFICATION Spec
CONSTANTS
    NWorkers = 2
    Durations = {1, 3}
    Poll = 2
    Preempt = 1
    MaxTime = 8
INVARIANTS
    NoticedWithinARound
    OnlyLateIsFatal
CHECK_DEADLOCK FALSE
