SPECIFICATION Spec
CONSTANTS
    Approvers = {a1}
    Rejecters = {}
    Granters = {g1}
    Editors = {e1}
    Revokers = {}
    None = None
CHECK_DEADLOCK FALSE
INVARIANT
    EveryVersionKept
