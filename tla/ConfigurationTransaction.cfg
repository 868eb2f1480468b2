\* Crashes, power losses and failing stores; nobody else writes. systemd
\* starts the process again.
SPECIFICATION LiveSpec
CONSTANTS
    default = default
    other = other
    unsafe = unsafe
    preserved = preserved
    Missing = Missing
    Damaged = Damaged
    None = None
    Unsafe = Unsafe
    Content <- MCContent
    ReadOnlyContent <- MCReadOnlyContent
    UnsafeContent <- MCUnsafeContent
    DefaultContent = default
    MaxRevision = 3
    MaxNonce = 2
    MaxDamage = 0
INVARIANTS
    ShownRevisionNeverReused
    DecidedNeverLost
    CrashStatesUnderstood
    ServedStateIsDurable
    RetryNeverStale
PROPERTIES
    ImplementsAuthority
    DecisionReachesService
