\* No worker crashes: the race for the next seq is enough.
SPECIFICATION Spec
CONSTANTS
    Workers = {w1, w2}
    Reviews = {r1, r2}
    Reviewers = {h1, h2}
    Crashes = FALSE
    None = None
SYMMETRY Symmetry
INVARIANT VerdictIsChained
CHECK_DEADLOCK FALSE
