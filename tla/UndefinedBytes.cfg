\* One unit, U+FFFF among those it can be, is enough.
SPECIFICATION Spec
CONSTANTS
    SourceBytes <- MCBytes
    SourceUnits <- MCUnitsWithNoncharacter
    Extension <- MCExtension
    MaxBytes = 1
    MaxUnits = 1
    CommandLineCapacity = 1
CHECK_DEADLOCK FALSE
INVARIANTS
    UndefinedBytesAreNeverWritten
