SPECIFICATION Spec
CONSTANTS
    a = a
    b = b
    note = note
    todo = todo
    code = code
    Nodes = {a, b}
    Changes = {note, todo, code}
    Writer <- MCWriter
    Managed = {note, todo}
    Hooks = {b}
    Stashers = {a}
    MaxSyncs = 3

INVARIANTS PushedIsShared
CHECK_DEADLOCK FALSE
