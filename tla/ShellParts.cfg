CONSTANTS
    None = None
    Package = {p1}
    MaxHealthRevision = 4
    MaxEvents = 3
    MaxScreenChanges = 2
    MaxTimeouts = 1
    Component = {c1}
    Content = {d1, d2}
    MaxConfigRevision = 3
    MaxCatalogs = 2
    MaxAsked = 2
    MaxConfigEvents = 1
    MaxConfigTimeouts = 1
    Archive = {a1}
    MaxInspections = 2
    MaxManagerEvents = 1
    MaxManagerTimeouts = 1
    MaxCatalogEvents = 4
    MaxCatalogTimeouts = 1
    Group = {bar, border}
    MaxSettingsRevision = 3
    MaxSettingsAsked = 2
    MaxSettingsEvents = 2
    MaxSettingsTimeouts = 1
    OwnUnit = own
    OtherUnits = {o1}
    Screens = {1}
    MaxChanges = 2
    Monitor = {left, right}
    Workspace = {1, 2, 3}
    Window = {w1, w2}
    MaxDesktopChanges = 2
    MaxMoves = 2
    MaxDisruptions = 1
SPECIFICATION Spec
INVARIANTS
    BarsFollowThePlan
    BarIsTrue
    ClientsHold
CHECK_DEADLOCK FALSE
