SPECIFICATION Spec
CONSTANTS
    Threads = {t1, t2}
    MaxDepth = 1
    SlotCount = 1
    Values = {v1}
    Null = Null
    Callbacks = {f1}
    NoCallback = NoCallback
    InvokeCallback = TRUE
    GenerationLimit = 3
    MaxAllocs = 3
SYMMETRY Symmetry
INVARIANTS
    SlotsAreConsistent
    AnswersAreTruthful
    FlsCallbackIsExact
