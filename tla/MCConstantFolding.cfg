CONSTANTS
    IntMax = 3
    Floats = {0, 2, 3}
    Unit = 4
    Strings <- SomeStrings
    Returned <- SomeReturned
    MaxSize = 2
SPECIFICATION Spec
INVARIANTS FoldingIsSound PathsAgree
CHECK_DEADLOCK FALSE
