---------------------------- MODULE MCTokenStore ----------------------------
(***************************************************************************)
(* A small instance of TokenStore: two tokens, two users, a life of two    *)
(* ticks on a clock of five.                                               *)
(***************************************************************************)
EXTENDS TokenStore, TLC

CONSTANTS t1, t2, u1, u2

MCTokens == {t1, t2}
MCUsers == {u1, u2}

Symmetry == Permutations(MCTokens) \cup Permutations(MCUsers)
=============================================================================
