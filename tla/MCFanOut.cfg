SPECIFICATION Spec
CONSTANTS
    a = a
    b = b
    c = c
    Targets = {a, b, c}
    TTL = 10
    Patience = 4
    SendTime = 1
    MaxRetries = 1
INVARIANTS TypeOK FailedIsForgotten EarlyAnswersPrinted
SYMMETRY Symmetric
CHECK_DEADLOCK FALSE
