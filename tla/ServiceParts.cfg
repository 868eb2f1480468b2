CONSTANTS
    None = None
    Missing = Missing
    Damaged = Damaged
    Unsafe = Unsafe
    MaxToken = 3
    MaxEdits = 2
    InitialFiles <- PresentOrAbsent
    MayRemove = FALSE
    MaxRevision = 3
    MaxOutages = 1
    MaxTurns = 2
    Layouts <- SmallLayouts
    MaxMutations = 2
    Nonce = {n1, n2}
    MaxFaults = 3
    shared = shared
    leaf = leaf
    extra = extra
    StoreComponent <- MCComponent
    StoreVersion <- MCVersion
    StorePackage <- MCPackage
    Needs <- MCNeeds
    CatalogRoom = 2
    MaxReceipts = 2
    Unreadable = Unreadable
    Partial = Partial
    UndoMayFail = TRUE
    Hyprland = {h1, h2}
    MaxDisruptions = 3
    InitialSections <- SmallSections
    Drafts <- SmallDrafts
    MaxWrites = 2
SPECIFICATION Spec
INVARIANTS
    UserFilesPreserved
    CrashesSettle
    SettingsHold
    CapturesAreOfOneInstant
    AcceptedIsStored
    ReloadsAreProven
PROPERTIES
    DecisionNeverRolledBack
    OnlyTheRequestedChanges
CHECK_DEADLOCK FALSE
