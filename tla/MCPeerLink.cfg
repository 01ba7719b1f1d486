SPECIFICATION Spec
CONSTANTS
    p = p
    x = x
    t = t
    s1 = s1
    s2 = s2
    None = None
    Peers = {p}
    Projects = {x}
    Tasks = {t}
    Sockets = {s1, s2}
    MaxFaults = 1
INVARIANT TypeOK
PROPERTIES SealedForGood MembersKept RevokedForgotten
CHECK_DEADLOCK FALSE
