SPECIFICATION Spec
CONSTANTS
    t1 = t1
    t2 = t2
    n1 = n1
    n2 = n2
    n3 = n3
    n4 = n4
    p1 = p1
    Terminals = {t1, t2}
    Nodes = {n1, n2, n3, n4}
    Projects = {p1}
    MaxCommands = 6
    None = None
INVARIANTS TypeOK OwnKeyOnDisk SavedConfigWorks
PROPERTY StrandedForGood
SYMMETRY Symmetric
CHECK_DEADLOCK FALSE
