CONSTANTS
    b = b
    c = c
    d = d
    m1 = m1
    m2 = m2
    PeerList <- MCPeerList
    Msgs <- MCMsgs
    MsgIds <- MCMsgIds
    MaxEvents = 19
    MaxBases = 8
SPECIFICATION Spec
INVARIANT
    AcceptedMessageProcessed
CHECK_DEADLOCK FALSE
