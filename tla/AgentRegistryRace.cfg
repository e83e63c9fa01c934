CONSTANTS
    m1 = m1
    c1 = c1
    c2 = c2
    c3 = c3
    None = None
    Conns = {c1, c2, c3}
    Machines = {m1}
    MachineOf <- OneMachine
    MaxDrops = 1
    MaxAdmin = 0

SPECIFICATION RegistrySpec

INVARIANT ServedMachineIsActive

CHECK_DEADLOCK FALSE
