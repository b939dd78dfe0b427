CONSTANTS
    a = a
    b = b
    c = c
    Users <- MCPair
    Founder = a
SPECIFICATION Spec
PROPERTIES
    DeadJoinerRejoins
CHECK_DEADLOCK FALSE
