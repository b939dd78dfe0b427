------------------------ MODULE MCNp1secTimersProofs ------------------------
(* The inductive invariant of Np1secTimersProofs, checked on the session *)
(* of MCNp1secTimers and on a peer vector with a repeated peer.          *)
EXTENDS Np1secTimersProofs, TLC

CONSTANTS b, c, d, m1, m2

MCPeerList == <<b, c, b>>
MCMsgs == {m1, m2}
MCMsgIds == {1, 2}
=============================================================================
