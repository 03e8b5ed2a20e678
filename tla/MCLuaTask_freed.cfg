SPECIFICATION Spec
CONSTANTS
    Workers = {w1}
    AppMain = AppMain
    Free = Free
    QueueLen = 1
    TickPeriodMs = 10
    TimerArgs <- MCTimersSafe
    HeapCanRunOut = FALSE
    Script <- MCScriptDrop
    HandlesReused = FALSE
INVARIANT OnlyRacesHurt
