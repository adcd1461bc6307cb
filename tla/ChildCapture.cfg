CONSTANTS
    Capacity = 1
    Input = 2
    Room <- BufferSizes
    MaxWrites = 3
SPECIFICATION Spec
INVARIANTS CaptureExact InputComplete
PROPERTIES Returns NoStall
CHECK_DEADLOCK FALSE
