\* One interrupted publication, no other fault.
CONSTANTS
    None = None
    Nonce = {n1}
    MaxFaults = 1
SPECIFICATION Spec
INVARIANTS
    InterruptedPublicationsAreRemoved
CHECK_DEADLOCK FALSE
