SPECIFICATION Spec
CONSTANTS
    Threads = {t1, t2}
    Files <- MCFiles
    Type <- MCType
    Accesses <- MCAccesses
    FirstFd = 3
    MaxBytes = 2
    MaxCalls = 2
    NoFile = NoFile
CHECK_DEADLOCK FALSE
SYMMETRY Symmetry
INVARIANTS
    DescriptorsAreSafe
    WritesAreTruthful
