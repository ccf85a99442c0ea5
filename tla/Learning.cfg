\* The API and the weekly job on one file.
SPECIFICATION Spec
CONSTANTS
    Brands = {b1, b2}
    Kinds <- Overruled
    Candidates <- Drifting
    MinOutcomes = 1
    None = None
    Blank = Blank
    Torn = Torn
    MaxInputs = 2
    MaxFaults = 1
    MaxWork = 2
SYMMETRY Symmetry
INVARIANTS
    NothingIsSkipped
    EvidenceCountsOnce
    OnlyExposedAreLost
    TornByOverlapOnly
    OneUnauditedPerFault
    WeightsSumToOne
    NoSignalIsSilenced
CHECK_DEADLOCK FALSE
