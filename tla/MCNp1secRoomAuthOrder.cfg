CONSTANTS
    a = a
    b = b
    c = c
    Users <- MCUsers
    Founder = a
SPECIFICATION Spec
INVARIANTS
    JoinerAuthForOfferedView
CHECK_DEADLOCK FALSE
