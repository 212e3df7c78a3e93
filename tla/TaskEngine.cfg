\* A task created here and one that a peer registers, a store that may fail, crashes.
SPECIFICATION Spec
CONSTANTS
    t1 = t1
    t2 = t2
    None = None
    LocalIds <- OneLocal
    RemoteIds <- OneRemote
    MaxReg = 1
    StoreMayFail = TRUE
INVARIANTS
    TypeOK
    DiskIsPast
    PersistedUnlessSuspect
PROPERTY
    ImplementsLifecycle
