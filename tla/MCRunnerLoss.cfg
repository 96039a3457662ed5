CONSTANTS
    Config <- MCConfig
    MaxTries = 6
    MaxInterrupts = 1
SPECIFICATION RunnerSpec
PROPERTY LossRetried

CHECK_DEADLOCK FALSE
