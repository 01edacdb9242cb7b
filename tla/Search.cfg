SPECIFICATION FairSpec
CONSTANTS
    Threads = {t1, t2}
    Searches = {s1}
    Entries <- MCEntries
    Directories <- MCDirectories
    InitialEntries <- MCInitial
    Patterns <- MCPatterns
    BufferRecords = 2
    NoSearch = NoSearch
    NoEntry = NoEntry
CHECK_DEADLOCK FALSE
INVARIANTS
    SearchesAreSafe
    EnumerationIsExact
PROPERTIES
    ClosedSearchIsDestroyed
