SPECIFICATION SubmitSpec
CONSTANTS
    MaxRuns = 6
    None = None
INVARIANTS
    ResetClears
CHECK_DEADLOCK FALSE
