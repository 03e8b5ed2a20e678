SPECIFICATION ReplSpec
CONSTANTS
    Kinds <- MCKindsAll
    Lengths = {62, 63}
    MaxLine = 63
    BufferSize = 256
    MaxTurns = 5
CHECK_DEADLOCK FALSE
INVARIANTS ReplTypeOK RunsOnce FailureHoldsBack
