CONSTANTS
    Names = {"x", "y"}
    Params <- OneParam
    Languages <- EveryControlStraight
SPECIFICATION Spec
INVARIANTS WellFormed EliminatesOnlyDeadCode LivenessIsExact
CHECK_DEADLOCK FALSE
