SPECIFICATION Spec
CONSTANTS
    Threads = {t1, t2}
    MainThread = main
    Timers <- MCTimers
    Sessions <- MCSessions
SYMMETRY Symmetry
INVARIANTS
    CountStartsAtZero
