CONSTANTS
    Sessions = {s1, s2}
    Shells = {s1}
    MaxChunks = 0

SPECIFICATION Spec

INVARIANT GaugeIsActive

CHECK_DEADLOCK FALSE
