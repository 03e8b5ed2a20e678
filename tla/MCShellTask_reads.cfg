SPECIFICATION ShellSpec
CONSTANTS
    Chars = {a, q}
    Quit = q
    Eol = Eol
    Nul = Nul
    Garbage = Garbage
    Size = 4
    MaxTyped = 7
CHECK_DEADLOCK FALSE
INVARIANTS ShellTypeOK LinesAreWritten
PROPERTY KeepsLines
