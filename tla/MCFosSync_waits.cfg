CONSTANTS
    Workers = {w1, w2}
    AppMain = AppMain
    Repl = Repl
    Free = Free
    Mutexes = {m1, m2}
    Semaphores = {s}
    Queues = {q}
    SemMax = 1
    QueueLen = 1
SPECIFICATION FairSpec
CHECK_DEADLOCK FALSE
INVARIANTS
    TypeOK
    NeverDead
PROPERTIES
    DeadStaysDead
    WaitsEnd
