\* The loader's images are those of MCLoaderImage; the constants of the other
\* components are given in MCAlgorithms.
CONSTANTS
    PageSize <- MCPageSize
    RvaSpan <- MCRvaSpan
    AddressSpace <- MCAddressSpace
    AddressSpace32 <- MCAddressSpace32
    GivenImages <- MCImages
    LoadBases <- MCBases
    Targets <- MCTargets
    Names <- MCNames
    Wildcards = {"w*"}
    Colons = {"c:"}
    Nuls = {"nul"}
    IllFormed = {"lone"}
    MaxPath = 4
    HostDirectories <- MCHostDirectories
    Root = "Root"
    Outside = "Outside"
    InitialAt <- MCInitialAt
    InitialLinks <- MCInitialLinks
    MaxMoves = 2
    Units <- MCUnits
    Fold <- MCFold
    MaxPattern = 4
    MaxName = 3
    GuestThreads = {"t1", "t2"}
    Blocks = {"b1", "b2"}
    MaxSize = 3
SPECIFICATION AlgorithmsSpec
CHECK_DEADLOCK FALSE
INVARIANTS
    MappingIsExact
    WalkIsConfined
    OpensWhatWasWritten
    MatchesExactly
    CallerIsRecovered
    EstablisherIsStable
    QueryIsExact
    ConversionIsFaithful
    GuestMemoryIsSafe
PROPERTIES
    CallsAreAllOrNothing
