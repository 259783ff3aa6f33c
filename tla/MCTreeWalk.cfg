\* Runs of files and interactive sessions: see Instance for what each follows.
CONSTANTS
    Vars = {x, y}
    Nil = Nil
    Num = Num
    Undefined = Undefined
    NoField = NoField
    Pending = Pending
    NoCrash = NoCrash
    MaxObjects = 2
    MaxTemps = 2
    MaxScopes = 2
    MaxEvents = 3
SPECIFICATION Spec
SYMMETRY VarSymmetry
CONSTRAINT Instance
INVARIANTS TypeOK ReferencesAreSound TimelineAgreesWithHeap NoAccessSurvivesFree CrashIsJustified
PROPERTIES CrashLeavesHeap Lifecycle
CHECK_DEADLOCK FALSE
