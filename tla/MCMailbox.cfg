SPECIFICATION Spec
CONSTANTS
    a = a
    b = b
    r1 = r1
    r2 = r2
    r3 = r3
    f1 = f1
    f2 = f2
    Nodes = {a, b}
    Pollers = {b}
    Members = {a}
    Inputs <- MCInputs
    Requests = {r1, r2, r3}
    Fetches = {f1, f2}
    MaxMailbox = 2

INVARIANTS TypeOK MailboxBounded ExactlyOnce SequentialOrder
SYMMETRY SlotSymmetry
CHECK_DEADLOCK FALSE
