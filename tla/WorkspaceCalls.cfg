CONSTANTS
    None = None
    Package = {p1}
    MaxHealthRevision = 0
    MaxEvents = 0
    MaxScreenChanges = 0
    MaxTimeouts = 0
    Component = {c1}
    Content = {d1, d2}
    MaxConfigRevision = 0
    MaxCatalogs = 0
    MaxAsked = 0
    MaxConfigEvents = 0
    MaxConfigTimeouts = 0
    Archive = {a1}
    MaxInspections = 0
    MaxManagerEvents = 0
    MaxManagerTimeouts = 0
    MaxCatalogEvents = 0
    MaxCatalogTimeouts = 0
    Group = {bar, border}
    MaxSettingsRevision = 0
    MaxSettingsAsked = 0
    MaxSettingsEvents = 0
    MaxSettingsTimeouts = 0
    OwnUnit = own
    OtherUnits = {o1}
    Screens = {1}
    MaxChanges = 0
    Monitor = {left, right}
    Workspace = {1, 2, 3}
    Window = {w1, w2}
    MaxDesktopChanges = 4
    MaxMoves = 1
    MaxDisruptions = 1
SPECIFICATION Spec
INVARIANTS
    CallsAreShown
CHECK_DEADLOCK FALSE
