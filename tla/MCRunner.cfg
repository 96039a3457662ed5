CONSTANTS
    Config <- MCConfig
    MaxTries = 6
    MaxInterrupts = 1
SPECIFICATION RunnerSpec
INVARIANTS RunnerTypeOK OneWorkingLoop
PROPERTIES InterruptEnds LossNoticed
CHECK_DEADLOCK FALSE
