------------------------- MODULE MCNp1secRoomProofs -------------------------
(* The inductive invariant of Np1secRoomProofs, checked on the room of    *)
(* MCNp1secRoom before it is proved.                                      *)
EXTENDS Np1secRoomProofs, TLC

CONSTANTS a, b, c

MCUsers == {a, b, c}

MCSymmetry == Permutations({b, c})
=============================================================================
