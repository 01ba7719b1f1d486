SPECIFICATION LiveSpec
CONSTANTS
    a = a
    b = b
    x = x
    y = y
    z = z
    Peers = {a, b}
    Msgs = {x, z}
    From <- FromEach
    MaxFaults = 2

PROPERTY SendsEnd
CHECK_DEADLOCK FALSE
