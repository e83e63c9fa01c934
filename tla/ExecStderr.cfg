CONSTANTS
    OutUnits = 1
    ErrUnits = 3
    InUnits = 1
    PipeSize = 1
    Window = 2

SPECIFICATION ExecSpec

PROPERTY ExecEndsWithCommand

CHECK_DEADLOCK FALSE
