\* SQLite: two processes (API and weekly job) on one database file.
SPECIFICATION Spec
CONSTANTS
    Instances = {p1, p2}
    Contents = {c1, c2}
    Backend = "sqlite"
    MaxRows = 3
    MaxEdits = 1
SYMMETRY Symmetry
INVARIANTS
    TypeOK
    OneChain
    NoFalseAlarm
    WalkIsExact
    CountsNeverExceed
PROPERTIES
    AlarmStands
