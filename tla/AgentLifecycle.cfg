\* Production: a signed credential is required.
SPECIFICATION Spec
CONSTANTS
    Agents = {a1, a2, a3}
    Mode = "strict"
    None = None
SYMMETRY Symmetry
INVARIANTS
    TypeOK
    StoppedIsRefused
    QuarantineHolds
PROPERTIES
    RestoreSparesTheHeld
