SPECIFICATION FairSpec
CONSTANTS
    Workers = {w1, w2}
    AppMain = AppMain
    Free = Free
    QueueLen = 2
    TickPeriodMs = 10
    TimerArgs <- MCTimersSafe
    HeapCanRunOut = FALSE
    Script <- MCScriptKept
    HandlesReused = FALSE
INVARIANTS TypeOK CallbacksSerialised OnlyRacesHurt StopBound
PROPERTIES KeepsPromise StoppedWorkerEnds StartedTaskRuns
