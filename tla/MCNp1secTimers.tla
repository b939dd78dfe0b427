--------------------------- MODULE MCNp1secTimers ---------------------------
(* A session of user a with peers b, c and d, two plaintexts and two     *)
(* message ids, so that an id lower than the head's can arrive.         *)
EXTENDS Np1secTimers, TLC

CONSTANTS b, c, d, m1, m2

MCPeerList == <<b, c, d>>
MCMsgs == {m1, m2}
MCMsgIds == {1, 2}
=============================================================================
