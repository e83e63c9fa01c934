CONSTANTS
    None = None
    Work = {w1, w2}
    DrainCmds = {d1}
    Updates = {}
    MaxUndrains = 1

SPECIFICATION Spec

INVARIANT DrainCutsOnlyWhatItFound

CHECK_DEADLOCK FALSE
