SPECIFICATION MemorySpec
CONSTANTS
    a1 = a1
    a2 = a2
    s1 = s1
    s2 = s2
    Absent = Absent
    Actors = {a1, a2}
    Sessions = {s1, s2}
    Limit = 2
    Keep = 1
    SummaryMax = 2
    MaxExchanges = 4
    MaxFailures = 1
SYMMETRY Symmetry
INVARIANT MemoryKept
