CONSTANTS
    Objects = {o1, o2, o3, o4}
    Refuses = TRUE
    Faulty = TRUE
SPECIFICATION Spec
INVARIANTS  OnlyRefusedMisused
SYMMETRY AddressSymmetry
CHECK_DEADLOCK FALSE
