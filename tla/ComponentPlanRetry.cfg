CONSTANTS
    notes = notes
    Package = {notes}
    None = None
    MaxHealthRevision = 3
    MaxCatalog = 0
    MaxRevision = 0
    MaxOutages = 1
    MaxSuperseded = 0
    Join <- MCJoin
    Desired <- MCDesired
SPECIFICATION Spec
INVARIANTS
    AuthoritativeHasItsServices
