CONSTANTS
    Arrays = {a, b}
    Items = {u}
    Garbage = Garbage
    MaxLength = 3
    MaxDepth = 2
SPECIFICATION Spec
INVARIANT IterationsAreSound
CHECK_DEADLOCK FALSE
