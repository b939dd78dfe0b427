CONSTANTS
    a = a
    b = b
    c = c
    Users <- MCPair
    Founder = a
SPECIFICATION Spec
PROPERTIES
    JoinCompletes
CHECK_DEADLOCK FALSE
