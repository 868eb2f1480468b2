\* Crashes and failing steps, no damage from outside, room for two of the
\* three components.
CONSTANTS
    base = base
    leaf = leaf
    other = other
    Component <- MCComponent
    Version <- MCVersion
    Package <- MCPackage
    Needs <- MCNeeds
    CatalogRoom = 2
    MaxReceipts = 3
    None = None
    Unreadable = Unreadable
    Partial = Partial
    UndoMayFail = FALSE
SPECIFICATION Spec
INVARIANTS
    ReceiptHasItsTree
    ServedIsStored
PROPERTIES
    ImplementsPackageCatalog
