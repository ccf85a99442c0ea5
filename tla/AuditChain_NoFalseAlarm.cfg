\* Postgres: two instances behind a load balancer.
SPECIFICATION Spec
CONSTANTS
    Instances = {p1, p2}
    Contents = {c1, c2}
    Backend = "postgres"
    MaxRows = 3
    MaxEdits = 0
SYMMETRY Symmetry
INVARIANT NoFalseAlarm
