SPECIFICATION FairSpec
CONSTANTS
    r1 = r1
    Requests = {r1}
    MaxRetries = 1
    MaxAlike = 2
    MaxHalfSent = 0
    Faults <- LiveFaults
PROPERTIES AskSettles MailboxDispatches
CHECK_DEADLOCK FALSE
