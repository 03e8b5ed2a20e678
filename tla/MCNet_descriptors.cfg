SPECIFICATION Spec
CONSTANTS
    MaxFds = 4
    MaxSessions = 1
    Handles = {h1, h2, h3}
    Threads = {t1, t2}
    Nobody = nobody
SYMMETRY Symmetry
INVARIANTS TypeOK DescriptorsAccounted SafeWithoutOverlap
CHECK_DEADLOCK FALSE
