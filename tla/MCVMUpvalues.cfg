\* Functions of one parameter, called three frames deep, that capture two
\* variables: parameters, block variables and enclosing captures.
CONSTANTS
    Data = {Nil, d}
    Nil = Nil
    Arity = 1
    StackMax = 4
    FramesMax = 3
    MaxCaptures = 2
    MaxUpvalues = 2
    MaxVars = 2
SPECIFICATION Spec
INVARIANTS TypeOK OpenChainIsTrue ReadsSeeLastWrite FramesNested
CHECK_DEADLOCK FALSE
