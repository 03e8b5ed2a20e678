SPECIFICATION HandoffFairSpec
CONSTANTS
    MaxLines = 5
    HalfCopied = HalfCopied
    NoLine = NoLine
CHECK_DEADLOCK FALSE
INVARIANTS HandoffTypeOK SlotsKeepApart
PROPERTIES HandsOverEveryLine LastLineRuns
