SPECIFICATION Spec
CONSTANTS
    a = a
    b = b
    c = c
    Tasks <- MC_Tasks
    PROGRAM = 2
    CalleeRegs = {"s0", "s11"}
    Spilled = {"s0"}
SYMMETRY MC_Symmetry
INVARIANT ResumesWithOwnRegisters
