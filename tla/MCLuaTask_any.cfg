SPECIFICATION Spec
CONSTANTS
    Workers = {w1, w2}
    AppMain = AppMain
    Free = Free
    QueueLen = 1
    TickPeriodMs = 10
    TimerArgs <- MCTimersAny
    HeapCanRunOut = TRUE
    Script <- MCScriptAll
    HandlesReused = TRUE
SYMMETRY Symmetric
INVARIANTS NothingLeaks DamageNeedsCause
