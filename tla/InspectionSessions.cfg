\* Three inspections of two clients, two of them at a time.
CONSTANTS
    MaxToken = 3
    Sender = {c1, c2}
    MaxActive = 2
    MaxPerSender = 2
    None = None
SPECIFICATION LiveSpec
INVARIANTS
    TablesAgree
PROPERTIES
    EndedStaysEnded
    InspectionsEnd
