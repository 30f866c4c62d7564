SPECIFICATION BuildSpec
CONSTANT MaxLeaked = 2
INVARIANT WaitingIsTimed
PROPERTY FailedExitNotRepeated
PROPERTY SetupCompletesUnfailed
CHECK_DEADLOCK FALSE
