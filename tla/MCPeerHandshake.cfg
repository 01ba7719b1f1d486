SPECIFICATION Spec
CONSTANTS
    a = a
    b = b
    x = x
    y = y
    z = z
    Peers = {a, b}
    Msgs = {x, y, z}
    From <- FromBoth
    MaxFaults = 1
INVARIANTS TypeOK NonceUnique InOrder
SYMMETRY Symmetric
CHECK_DEADLOCK FALSE
