\* Two tenants, two packs, four records, four admissions within three ticks, five of
\* all these together.
SPECIFICATION Spec
CONSTANTS
    Brands = {b1, b2}
    Window = 2
    MaxKeys = 1
    MaxTime = 3
    MaxCalls = 4
    Generous = Generous
    Cautious = Cautious
    Policies = {Generous, Cautious}
    MaxPacks = 2
    Verdict <- MCVerdict
    Limits = {0, 2}
    DefaultLimit = 0
    SigningRequired = FALSE
    Strict = FALSE
    PageSize = 2
    MaxEvents = 1
    None = None
    MaxRecords = 4
    Month = 2
    MaxWork = 5
SYMMETRY Symmetry
INVARIANTS
    BudgetIsKept
    PackInForce
    BillsAreExact
    QueueIsReal
PROPERTY
    ImplementsWindow
