\* One outcome, and one recorded while the job is at work.
SPECIFICATION Spec
CONSTANTS
    Brands = {b1}
    Kinds <- Overruled
    Candidates = {}
    MinOutcomes = 1
    None = None
    Blank = Blank
    Torn = Torn
    MaxInputs = 2
    MaxFaults = 0
    MaxWork = 2
INVARIANT OutcomesSurvive
CHECK_DEADLOCK FALSE
