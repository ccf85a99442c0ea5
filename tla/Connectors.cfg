\* Two kinds of call, delivered three times in all, and one crash.
SPECIFICATION Spec
CONSTANTS
    Calls = {refund, credit}
    NamesOrder = {refund}
    Financial = {refund}
    None = None
    MaxDeliveries = 3
    MaxCrashes = 1
INVARIANTS
    ExecutedWasAllowed
    OneExecutionPerKey
    EffectsAreOnRecord
