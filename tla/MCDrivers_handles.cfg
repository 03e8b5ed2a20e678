SPECIFICATION Spec
CONSTANTS
    Peripherals = {p, u0}
    Console = {u0}
    Handles = {h1, h2, h3}
    Threads = {t1, t2}
    ChipSelects = 2
    Free = free
    NoHandle = nohandle
SYMMETRY Symmetry
INVARIANTS TypeOK SafeWithCare GuardsHold HandlesTellTruth
