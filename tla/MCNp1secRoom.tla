---------------------------- MODULE MCNp1secRoom ----------------------------
(* A room of three users: the founder a and two joiners b and c, which   *)
(* may join concurrently.                                                 *)
EXTENDS Np1secRoom, TLC

CONSTANTS a, b, c

MCUsers == {a, b, c}

\* the founder and one joiner (spec §8 scenario 1)
MCPair == {a, b}

\* b and c play the same part
MCSymmetry == Permutations({b, c})
=============================================================================
