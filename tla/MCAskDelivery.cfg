SPECIFICATION Spec
CONSTANTS
    r1 = r1
    Requests = {r1}
    MaxRetries = 1
    MaxAlike = 1
    MaxHalfSent = 1
    Faults <- SafetyFaults
INVARIANTS TypeOK DispatchPerMemory InFlightIsOwned CoherentOutcome
PROPERTY ImplementsLifecycle
CHECK_DEADLOCK FALSE
