SPECIFICATION Spec
CONSTANTS
    PageSize = 4
    RvaSpan = 16
    AddressSpace = 64
    AddressSpace32 = 32
    Names <- MCNames
    Fold <- MCFold
    WithDll <- MCWithDll
    Keys <- MCKeys
    Images <- MCImages
    Tables <- MCTables
    Bases <- MCBases
    Capacity = 2
    AliasCapacity = 1
    ForwarderDepthLimit = 2
    MaxReferences = 1
INVARIANTS
    SpaceIsConsistent
    SymbolsAreStable
    BoundImportsAreCurrent
