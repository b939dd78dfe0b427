CONSTANTS
    a = a
    b = b
    c = c
    Users <- MCUsers
    Founder = a
SPECIFICATION Spec
INVARIANTS
    TypeOK
    AuthenticationSoundness
    SiblingExclusion
CHECK_DEADLOCK FALSE
SYMMETRY MCSymmetry
