SPECIFICATION Spec
CONSTANTS
    Clients = {c1, c2}
    Names = {f, g}
    Texts = {a, long}
    Long = long
    Head1 = head
    Tail1 = tail
    Blank = blank
    NoFile = nofile
    Unknown = unknown
    MaxLines = 2
    IndexWidth = 4
    MaxSize = 2
    NoName = noname
    MinSlots = 1
    Factor = 2
    MaxSlots = 2
CONSTRAINT Bound
SYMMETRY Symmetry
INVARIANTS TypeOK FilesKept
