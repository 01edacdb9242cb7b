SPECIFICATION Spec
CONSTANTS
    CrashSignals <- MCCrashSignals
    OtherSignals <- MCOtherSignals
    ReservedSignals <- MCReservedSignals
    SIGKILL <- MCSIGKILL
    ExitCodes <- MCExitCodes
    MaxSignals = 3
INVARIANTS
    ReportIsTruthful
    NothingLeaks
    GuestIsSafe
PROPERTIES
    EndedWorkerIsReaped
