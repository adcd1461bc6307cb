CONSTANTS
    x = x
    y = y
    None = None
    a1 = a1
    a2 = a2
    Records = {a1, a2}
    Bodies <- Several
SPECIFICATION Spec
INVARIANTS BindingsSound AlwaysReturns ResultsSound DeferredExact
CHECK_DEADLOCK FALSE
