\* Two workers, two reviews, two humans, any worker may crash at any statement.
SPECIFICATION Spec
CONSTANTS
    Workers = {w1, w2}
    Reviews = {r1, r2}
    Reviewers = {h1, h2}
    Crashes = TRUE
    None = None
SYMMETRY Symmetry
INVARIANTS
    TypeOK
    TwoPersonRule
    OneVerdictRecord
    OutcomesAreAudited
    QueueIsAudited
PROPERTIES
    VerdictIsFinal
    ImplementsContract
CHECK_DEADLOCK FALSE
