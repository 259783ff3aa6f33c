CONSTANTS
    Vars = {x}
    Nil = Nil
    Num = Num
    Undefined = Undefined
    NoField = NoField
    NoCrash = NoCrash
    Pending = Pending
    MaxObjects = 2
    MaxTemps = 2
    MaxEvents = 4
SPECIFICATION PathsSpec
INVARIANTS PathsAgree HeapIsSound
PROPERTY Lifecycle
CHECK_DEADLOCK FALSE
