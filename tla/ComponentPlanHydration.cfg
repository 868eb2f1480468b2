CONSTANTS
    notes = notes
    Package = {notes}
    None = None
    MaxHealthRevision = 2
    MaxCatalog = 1
    MaxRevision = 1
    MaxOutages = 1
    MaxSuperseded = 1
    Join <- MCJoin
    Desired <- MCDesired
SPECIFICATION LiveSpec
INVARIANTS
    ShownIsAdmissible
    InterruptedNeverForgotten
    QuarantineHolds
PROPERTIES
    AcceptedJoinIsCurrent
    PlanFollowsServices
