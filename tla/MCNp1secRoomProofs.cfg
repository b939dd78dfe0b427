CONSTANTS
    a = a
    b = b
    c = c
    Users <- MCUsers
    Founder = a
SPECIFICATION Spec
INVARIANTS
    IInv
CHECK_DEADLOCK FALSE
SYMMETRY MCSymmetry
