\* One file or generation is damaged while no call runs.
CONSTANTS
    default = default
    other = other
    unsafe = unsafe
    preserved = preserved
    Missing = Missing
    Damaged = Damaged
    None = None
    Unsafe = Unsafe
    Content <- MCContent
    ReadOnlyContent <- MCReadOnlyContent
    UnsafeContent <- MCUnsafeContent
    DefaultContent = default
    MaxRevision = 2
    MaxNonce = 2
    MaxDamage = 1
SPECIFICATION Spec
INVARIANTS
    RevokedNeverApplied
PROPERTIES
    DecisionRetiredOnlyWhenMirrored
