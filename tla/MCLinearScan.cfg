CONSTANTS
    VRegs = {r1, r2, r3, r4}
    NoReg = NoReg
    NumPhysicalRegs = 2
    MaxInstrs = 5
SPECIFICATION Spec
INVARIANTS AllocationIsSound AllocationIsTight
CHECK_DEADLOCK FALSE
