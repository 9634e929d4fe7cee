SPECIFICATION Spec
CONSTANTS
    Modulus = 16
    StreamLen <- MCStreamLen
    InitialSeqs = {14}
    MaxSegments = 2
    MaxBytes = 3
INVARIANTS
    TypeOK
    ReleasedIsTheStream
    NothingReadyWaits
PROPERTIES
    AdvancesWhenCovered
    StatusIsTruthful
