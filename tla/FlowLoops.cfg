CONSTANTS
    x = x
    y = y
    None = None
    a1 = a1
    a2 = a2
    Records = {a1, a2}
    Bodies <- Reassigned
SPECIFICATION Spec
INVARIANT AccessProved
CHECK_DEADLOCK FALSE
