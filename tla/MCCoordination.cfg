SPECIFICATION Spec
CONSTANTS
    a = a
    b = b
    c = c
    proj = proj
    inv1 = inv1
    inv2 = inv2
    s1 = s1
    s2 = s2
    Nodes = {a, b, c}
    Projects = {proj}
    Invites = {inv1, inv2}
    Slots = {s1, s2}
    MaxUses = {1, Unlimited}
    Unlimited = Unlimited

INVARIANTS TypeOK InviteBound EverySeatPaid OneOwner NoReplacementCycle
PROPERTY RevokedIsInert
SYMMETRY Symmetric
CHECK_DEADLOCK FALSE
