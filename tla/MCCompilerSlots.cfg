SPECIFICATION Spec
CONSTANTS
    Languages <- SmallOrNested
INVARIANTS StackDiscipline AccessesFindVariable JumpsFindLoop 
CHECK_DEADLOCK FALSE
